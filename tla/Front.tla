-------------------------------- MODULE Front --------------------------------
(***************************************************************************)
(* A browser with several tabs in front of the services: the rate limit,   *)
(* the token of each request, sign-in, refresh and sign-out, the profile   *)
(* and the avatars.  A tab has one request in flight, which takes one step *)
(* per storage call; the reply is a step of its own, so that replies to    *)
(* two tabs arrive in any order, or never.                                 *)
(*                                                                         *)
(* The refresh token is in a cookie that the tabs share, the access token  *)
(* in the memory of each; a token is the user it names.  Tokens that have  *)
(* expired are refused at the step that checks them.                       *)
(***************************************************************************)
EXTENDS Throttle

CONSTANTS
    Tab,
    KindsOf,   \* the requests each tab sends
    User,      \* rows of "user"
    Avatar,    \* values of avatar
    NoAvatar,  \* avatar is NULL
    Nobody     \* no token

Profile == {"me", "get", "set", "delete"}      \* /user, /user/avatar
SignIn == {"login", "callback", "refresh"}
Kind == Profile \cup SignIn \cup {"logout", "other"}

ASSUME FrontAssumption ==
    /\ KindsOf \in [Tab -> SUBSET Kind]
    /\ Nobody \notin User /\ NoAvatar \notin Avatar

VARIABLES
    avatar,  \* the column of each user
    cookie,  \* the user of refreshToken
    access,  \* the user of each tab's access token
    pc,      \* what each tab's request does next
    req,     \* its kind, the user it is for, the avatar it stores or shows
    out,     \* history: signed out, and no sign-in begun since or before it
    during   \* history: avatars of the request's user since it was sent

vars == <<throttle, avatar, cookie, access, pc, req, out, during>>
browser == <<cookie, access, out>>

\* The path of the request; get, set and delete are methods of one.
PathOf(kind) == IF kind \in {"get", "set", "delete"} THEN "avatar" ELSE kind

NoRequest == [kind |-> "none", user |-> Nobody, avatar |-> NoAvatar]

Init ==
    /\ ThrottleInit
    /\ avatar = [u \in User |-> NoAvatar]
    /\ cookie = Nobody /\ access = [t \in Tab |-> Nobody] /\ out = FALSE
    /\ pc = [t \in Tab |-> "idle"] /\ req = [t \in Tab |-> NoRequest]
    /\ during = [t \in Tab |-> {}]

Goto(t, step) == pc' = [pc EXCEPT ![t] = step]
Carries(t, user, a) == req' = [req EXCEPT ![t] = [@ EXCEPT !.user = user, !.avatar = a]]
Ends(t) ==
    /\ Goto(t, "idle") /\ req' = [req EXCEPT ![t] = NoRequest]
    /\ during' = [during EXCEPT ![t] = {}]

-----------------------------------------------------------------------------
(* The browser sends a request with the tokens it has.                     *)

\* Mutant: an access token will do for a refresh token.
RefreshesAny(t) == IF cookie = Nobody THEN access[t] ELSE cookie

RefreshesFor(t) == cookie

UsersOf(t, kind) ==
    CASE kind \in Profile -> {access[t]}
      [] kind = "refresh" -> {RefreshesFor(t)}
      [] kind \in {"login", "callback", "other"} -> User
      [] kind = "logout" -> {Nobody}

\* Before the handler come the rate limit, if the path is followed, and the
\* token, if the handler asks for the user.
Admitted(kind) == IF kind \in Profile THEN "auth" ELSE "handle"
Entry(kind) == IF PathOf(kind) \in Path THEN "throttle" ELSE Admitted(kind)

Send(t, kind) ==
    /\ pc[t] = "idle" /\ kind \in KindsOf[t]
    /\ \E u \in UsersOf(t, kind), a \in IF kind = "set" THEN Avatar ELSE {NoAvatar} :
          /\ req' = [req EXCEPT ![t] = [kind |-> kind, user |-> u, avatar |-> a]]
          /\ during' = [during EXCEPT ![t] =
                           IF kind \in Profile \cup {"other"} /\ u # Nobody THEN {avatar[u]} ELSE {}]
    /\ Goto(t, Entry(kind))
    /\ out' = (out /\ kind \notin {"login", "callback"})
    /\ UNCHANGED <<throttle, avatar, cookie, access>>

(* Throttle.                                                               *)

Counted(t) == PathOf(req[t].kind)

Throttled(t) ==
    /\ pc[t] = "throttle"
    /\ LET p == Counted(t)
       IN  \/ /\ Admits(p) /\ Admit(p)
              /\ Goto(t, IF First(p) THEN "expire" ELSE Admitted(req[t].kind))
              /\ UNCHANGED <<req, during>>
           \/ ~Admits(p) /\ Refuse(p) /\ Ends(t)
           \/ AdmitOnError(p) /\ Goto(t, Admitted(req[t].kind)) /\ UNCHANGED <<req, during>>
    /\ UNCHANGED <<avatar, browser>>

SetExpire(t) ==
    /\ pc[t] = "expire" /\ Goto(t, Admitted(req[t].kind))
    /\ Expire(Counted(t)) \/ ExpireFails(Counted(t))
    /\ UNCHANGED <<avatar, browser, req, during>>

\* What is followed of the row.
FindUserByID(u) == avatar[u]

(* OptionalJWTAuth.  The row of the token's user goes with the request;    *)
(* without one, or if it cannot be read, the request is a guest's.         *)

OptionalJWTAuth(t) ==
    /\ pc[t] = "auth" /\ Goto(t, "handle")
    /\ \/ Carries(t, Nobody, NoAvatar)
       \/ /\ req[t].user # Nobody
          /\ Carries(t, req[t].user, IF req[t].kind = "set" THEN req[t].avatar
                                     ELSE FindUserByID(req[t].user))
    /\ UNCHANGED <<throttle, avatar, browser, during>>

(* The handlers.  Replies are "show" an avatar, "signIn", "signOut"; any   *)
(* other one tells the browser nothing.                                    *)

\* The handlers that answer only somebody answer what goes with the request.
Answers(t, kind, reply) ==
    /\ pc[t] = "handle" /\ req[t].kind = kind /\ req[t].user # Nobody
    /\ Goto(t, reply)
    /\ UNCHANGED <<throttle, avatar, browser, req, during>>

GetCurrentUser(t) == Answers(t, "me", "show")
GetSelfAvatar(t) == Answers(t, "get", "show")

GetAvatarByID(t) ==
    /\ pc[t] = "handle" /\ req[t].kind = "other"
    /\ Goto(t, "show") /\ Carries(t, req[t].user, FindUserByID(req[t].user))
    /\ UNCHANGED <<throttle, avatar, browser, during>>

\* The column, and who was waiting for it.
Stores(u, a) ==
    /\ avatar' = [avatar EXCEPT ![u] = a]
    /\ during' = [t \in Tab |-> IF req[t].user = u /\ during[t] # {} THEN during[t] \cup {a}
                                ELSE during[t]]

\* Mutant: an avatar is deleted by storing an empty one.
StoredEmpty(t) == IF req[t].kind = "set" THEN req[t].avatar ELSE ""

Stored(t) == IF req[t].kind = "set" THEN req[t].avatar ELSE NoAvatar

\* Mutant: the error of the UPDATE is dropped.
StoreAnyway(t, kind) ==
    /\ pc[t] = "handle" /\ req[t].kind = kind /\ req[t].user # Nobody
    /\ Stores(req[t].user, Stored(t)) \/ UNCHANGED <<avatar, during>>
    /\ Carries(t, req[t].user, Stored(t)) /\ Goto(t, "show")
    /\ UNCHANGED <<throttle, browser>>

\* The reply says what was stored.
Store(t, kind) ==
    /\ pc[t] = "handle" /\ req[t].kind = kind /\ req[t].user # Nobody
    /\ Stores(req[t].user, Stored(t))
    /\ Carries(t, req[t].user, Stored(t)) /\ Goto(t, "show")
    /\ UNCHANGED <<throttle, browser>>

SetAvatar(t) == Store(t, "set")
DeleteAvatar(t) == Store(t, "delete")

\* The user is found, the password is right.  A callback sets the cookie
\* twice, for the same user.
Login(t) == Answers(t, "login", "signIn")
Callback(t) == Answers(t, "callback", "signIn")
Refresh(t) == Answers(t, "refresh", "signIn")

Logout(t) ==
    /\ pc[t] = "handle" /\ req[t].kind = "logout" /\ Goto(t, "signOut")
    /\ UNCHANGED <<throttle, avatar, browser, req, during>>

(* The reply arrives.                                                      *)

Receive(t) ==
    /\ pc[t] = "show" /\ Ends(t)
    /\ UNCHANGED <<throttle, avatar, browser>>

SignTokens(u) == [access |-> u, refresh |-> u]
SetCookie(token) == cookie' = token
ClearCookie == SetCookie(Nobody)

SetAuthResponse(t) ==
    /\ pc[t] = "signIn" /\ Ends(t)
    /\ SetCookie(SignTokens(req[t].user).refresh)
    /\ access' = [access EXCEPT ![t] = SignTokens(req[t].user).access]
    /\ UNCHANGED <<throttle, avatar, out>>

SigningIn(t) == pc[t] # "idle" /\ req[t].kind \in SignIn

\* Access tokens go on to be good; a tab may forget its own.
ReceiveSignOut(t) ==
    /\ pc[t] = "signOut" /\ Ends(t)
    /\ ClearCookie
    /\ access' \in {access, [access EXCEPT ![t] = Nobody]}
    /\ out' = \A s \in Tab : ~SigningIn(s)
    /\ UNCHANGED <<throttle, avatar>>

(* The request is refused (no user, wrong password, expired token), a      *)
(* storage call fails, the process ends, or the reply is lost.             *)

Fail(t) ==
    /\ pc[t] # "idle" /\ Ends(t)
    /\ IF pc[t] = "expire" THEN ExpireNotSent(Counted(t)) ELSE UNCHANGED throttle
    /\ UNCHANGED <<avatar, browser>>

\* An UPDATE whose answer was lost has been made all the same.
StoreUnheard(t) ==
    /\ pc[t] = "handle" /\ req[t].kind \in {"set", "delete"} /\ req[t].user # Nobody
    /\ avatar' = [avatar EXCEPT ![req[t].user] = Stored(t)]
    /\ Goto(t, "idle") /\ req' = [req EXCEPT ![t] = NoRequest]
    /\ during' = [s \in Tab |->
                     IF s = t THEN {}
                     ELSE IF req[s].user = req[t].user /\ during[s] # {}
                     THEN during[s] \cup {Stored(t)} ELSE during[s]]
    /\ UNCHANGED <<throttle, browser>>

-----------------------------------------------------------------------------
Handle(t) ==
    \/ GetCurrentUser(t) \/ GetSelfAvatar(t) \/ GetAvatarByID(t)
    \/ SetAvatar(t) \/ DeleteAvatar(t)
    \/ Login(t) \/ Callback(t) \/ Refresh(t) \/ Logout(t)
Reply(t) == Receive(t) \/ SetAuthResponse(t) \/ ReceiveSignOut(t)
Step(t) == Throttled(t) \/ SetExpire(t) \/ OptionalJWTAuth(t) \/ Handle(t) \/ Reply(t)
Over(p) == WindowEnds(p) /\ UNCHANGED <<avatar, browser, pc, req, during>>

Next ==
    \/ \E t \in Tab :
          \/ \E kind \in Kind : Send(t, kind)
          \/ Step(t) \/ Fail(t) \/ StoreUnheard(t)
    \/ \E p \in Path : Over(p)

Spec == Init /\ [][Next]_vars

\* Redis ends keys that have an end; a request goes on or fails.
FairSpec ==
    /\ Spec
    /\ \A p \in Path : WF_vars(Over(p))
    /\ \A t \in Tab : WF_vars(Step(t) \/ Fail(t))

-----------------------------------------------------------------------------
Steps == {"idle", "throttle", "expire", "auth", "handle", "show", "signIn", "signOut"}
Request == [kind : Kind \cup {"none"}, user : User \cup {Nobody},
            avatar : Avatar \cup {NoAvatar}]

TypeOK ==
    /\ ThrottleTypeOK
    /\ avatar \in [User -> Avatar \cup {NoAvatar}]
    /\ cookie \in User \cup {Nobody} /\ access \in [Tab -> User \cup {Nobody}]
    /\ pc \in [Tab -> Steps] /\ req \in [Tab -> Request]
    /\ out \in BOOLEAN
    /\ during \in [Tab -> SUBSET (Avatar \cup {NoAvatar})]

\* An address that asked too often is let in again, however often it asks
\* meanwhile; the one exception is a key whose EXPIRE was lost.
LetInAgain == \A p \in Path : hits[p] > Limit ~> (hits[p] = 0 \/ lost[p])

\* After a sign-out that no sign-in or refresh of another tab was racing,
\* the browser has no cookie until somebody signs in: neither the access
\* tokens that outlive it nor a refresh bring the session back.
SignedOutStays == out => cookie = Nobody

\* The avatar a reply shows, or says was stored, was the user's at some
\* time since the request was sent, whatever the other tabs store.
AvatarIsCurrent == \A t \in Tab : pc[t] = "show" => req[t].avatar \in during[t]
=============================================================================

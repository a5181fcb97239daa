----------------------------- MODULE FrontProofs -----------------------------
(***************************************************************************)
(* What holds of Front for every set of tabs, users and avatars, every     *)
(* choice of what the tabs do and every limit.                             *)
(***************************************************************************)
EXTENDS Front, TLAPS

\* What a request is at each step; a reply is for somebody.
Shows == Profile \cup {"other"}

Fits(t) ==
    /\ pc[t] \in {"throttle", "expire"} => Counted(t) \in Path
    /\ pc[t] \notin {"idle", "signOut"} => req[t].kind \in Shows \cup SignIn \cup {"logout"}
    /\ pc[t] # "idle" /\ req[t].kind = "other" => req[t].user \in User
    /\ pc[t] = "auth" => req[t].kind \in Profile
    /\ pc[t] = "show" => req[t].kind \in Shows /\ req[t].user \in User
    /\ pc[t] = "signIn" => req[t].kind \in SignIn /\ req[t].user \in User

TypeInv == TypeOK /\ \A t \in Tab : Fits(t)

\* Ending a request keeps what Fits and the types say of requests.
LEMMA EndsKeeps ==
    ASSUME TypeInv, NEW t \in Tab, Ends(t)
    PROVE  /\ pc' \in [Tab -> Steps] /\ req' \in [Tab -> Request]
           /\ during' \in [Tab -> SUBSET (Avatar \cup {NoAvatar})]
           /\ \A s \in Tab : Fits(s)'
BY DEF TypeInv, TypeOK, Ends, Goto, Steps, Request, NoRequest, Fits, Counted, Shows

\* So does moving it on, if the step suits its kind and its user.
LEMMA GotoKeeps ==
    ASSUME TypeInv, NEW t \in Tab, NEW step \in Steps \ {"throttle", "expire"},
           Goto(t, step), UNCHANGED req, pc[t] \notin {"idle", "signOut"},
           step = "auth" => req[t].kind \in Profile,
           step = "show" => req[t].kind \in Shows /\ req[t].user \in User,
           step = "signIn" => req[t].kind \in SignIn /\ req[t].user \in User
    PROVE  /\ pc' \in [Tab -> Steps] /\ req' \in [Tab -> Request]
           /\ \A s \in Tab : Fits(s)'
BY DEF TypeInv, TypeOK, Goto, Steps, Request, Fits, Counted, Shows

LEMMA TypeInit == Init => TypeInv
<1> SUFFICES ASSUME Init PROVE TypeInv
    OBVIOUS
<1>1. ThrottleTypeOK
    BY ThrottleAssumption DEF Init, ThrottleInit, ThrottleTypeOK
<1>2. NoRequest \in Request
    BY DEF NoRequest, Request
<1>3. TypeOK
    BY <1>1, <1>2 DEF Init, TypeOK, Steps
<1>4. \A t \in Tab : pc[t] = "idle"
    BY DEF Init
<1> QED
    BY <1>3, <1>4 DEF TypeInv, Fits

LEMMA SendType ==
    ASSUME TypeInv, NEW t \in Tab, NEW kind \in Kind, Send(t, kind)
    PROVE  TypeInv'
<1>1. PICK u \in UsersOf(t, kind), a \in IF kind = "set" THEN Avatar ELSE {NoAvatar} :
          /\ req' = [req EXCEPT ![t] = [kind |-> kind, user |-> u, avatar |-> a]]
          /\ during' = [during EXCEPT ![t] =
                           IF kind \in Profile \cup {"other"} /\ u # Nobody
                           THEN {avatar[u]} ELSE {}]
    BY DEF Send
<1>2. u \in User \cup {Nobody} /\ a \in Avatar \cup {NoAvatar}
    BY DEF UsersOf, RefreshesFor, TypeInv, TypeOK, Kind, SignIn
<1>3. [kind |-> kind, user |-> u, avatar |-> a] \in Request
    BY <1>2 DEF Request
<1>4. req' \in [Tab -> Request]
    BY <1>1, <1>3 DEF TypeInv, TypeOK
<1>5. during' \in [Tab -> SUBSET (Avatar \cup {NoAvatar})]
    BY <1>1, <1>2 DEF TypeInv, TypeOK
<1>6. Entry(kind) \in Steps
    BY DEF Entry, Admitted, Steps
<1>7. pc' \in [Tab -> Steps]
    BY <1>6 DEF Send, Goto, TypeInv, TypeOK
<1>8. kind = "other" => u \in User
    BY DEF UsersOf, Profile
<1>9. ASSUME NEW s \in Tab PROVE Fits(s)'
    <2>1. CASE s = t
        BY <2>1, <1>1, <1>8, <1>4, <1>7
           DEF Fits, Send, Goto, Entry, Admitted, Counted, Shows, Kind, SignIn, Profile,
               TypeInv, TypeOK
    <2>2. CASE s # t
        BY <2>2, <1>1 DEF Fits, Send, Goto, Counted, TypeInv, TypeOK
    <2> QED BY <2>1, <2>2
<1> QED
    BY <1>4, <1>5, <1>7, <1>9
       DEF Send, TypeInv, TypeOK, ThrottleTypeOK, throttle

-----------------------------------------------------------------------------
(* The rate limit.                                                         *)

\* What a step can do to the keys.
Calls(p) ==
    \/ Admits(p) /\ Admit(p)
    \/ Refuse(p) \/ AdmitOnError(p)
    \/ Expire(p) \/ ExpireFails(p) \/ ExpireNotSent(p) \/ WindowEnds(p)

\* AdmittedBounded, and that who was let through was counted or met an error.
TallyInv ==
    \A p \in Path : passed[p] <= Limit + faults /\ passed[p] <= hits[p] + faults

LEMMA IncrType ==
    ASSUME ThrottleTypeOK, NEW p \in Path, Incr(p)
    PROVE  hits' \in [Path -> 0 .. Limit + 1]
BY ThrottleAssumption DEF ThrottleTypeOK, Incr

LEMMA LetThroughType ==
    ASSUME ThrottleTypeOK, NEW p \in Path, LetThrough(p)
    PROVE  passed' \in [Path -> Nat]
BY DEF ThrottleTypeOK, LetThrough

LEMMA CallsKeepTypes ==
    ASSUME ThrottleTypeOK, NEW p \in Path, Calls(p)
    PROVE  ThrottleTypeOK'
<1>1. hits' \in [Path -> 0 .. Limit + 1]
    BY IncrType, ThrottleAssumption
       DEF Calls, Admit, Refuse, AdmitOnError, Expire, ExpireFails, ExpireNotSent,
           WindowEnds, ThrottleTypeOK
<1>2. passed' \in [Path -> Nat]
    BY LetThroughType
       DEF Calls, Admit, Refuse, AdmitOnError, Expire, ExpireFails, ExpireNotSent,
           WindowEnds, ThrottleTypeOK
<1>3. ttl' \in [Path -> BOOLEAN]
    BY DEF Calls, Admit, Refuse, AdmitOnError, Expire, ExpireFails, ExpireNotSent,
           WindowEnds, ThrottleTypeOK
<1>4. lost' \in [Path -> BOOLEAN]
    <2>1. CASE UNCHANGED lost
        BY <2>1 DEF ThrottleTypeOK
    <2>2. CASE lost' = [lost EXCEPT ![p] = @ \/ First(p)]
        BY <2>2 DEF ThrottleTypeOK, First
    <2>3. CASE lost' = [lost EXCEPT ![p] = TRUE]
        BY <2>3 DEF ThrottleTypeOK
    <2> QED
        BY <2>1, <2>2, <2>3
           DEF Calls, Admit, Refuse, AdmitOnError, Expire, ExpireFails, ExpireNotSent,
               WindowEnds
<1>5. faults' \in 0 .. MaxFaults
    BY ThrottleAssumption
       DEF Calls, Admit, Refuse, AdmitOnError, Expire, ExpireFails, ExpireNotSent,
           WindowEnds, ThrottleTypeOK
<1> QED
    BY <1>1, <1>2, <1>3, <1>4, <1>5 DEF ThrottleTypeOK

LEMMA CallsKeepTally ==
    ASSUME ThrottleTypeOK, TallyInv, NEW p \in Path, Calls(p)
    PROVE  TallyInv'
<1> SUFFICES ASSUME NEW q \in Path
             PROVE  passed'[q] <= Limit + faults' /\ passed'[q] <= hits'[q] + faults'
    BY DEF TallyInv
<1>1. /\ Limit \in Nat \ {0} /\ faults \in Nat /\ passed[q] \in Nat /\ hits[q] \in Nat
      /\ passed[q] <= Limit + faults /\ passed[q] <= hits[q] + faults
    BY ThrottleAssumption DEF ThrottleTypeOK, TallyInv
<1>2. CASE Admits(p) /\ Admit(p)
    BY <1>1, <1>2 DEF Admits, Admit, Incr, LetThrough, ThrottleTypeOK
<1>3. CASE Refuse(p)
    BY <1>1, <1>3 DEF Refuse, Incr, ThrottleTypeOK
<1>4. CASE AdmitOnError(p)
    BY <1>1, <1>4 DEF AdmitOnError, Incr, LetThrough, ThrottleTypeOK
<1>5. CASE Expire(p) \/ ExpireFails(p) \/ ExpireNotSent(p)
    BY <1>1, <1>5 DEF Expire, ExpireFails, ExpireNotSent
<1>6. CASE WindowEnds(p)
    BY <1>1, <1>6 DEF WindowEnds, ThrottleTypeOK
<1> QED
    BY <1>2, <1>3, <1>4, <1>5, <1>6 DEF Calls

\* A step makes one call for one path, or none.
LEMMA StepCalls ==
    ASSUME TypeInv, [Next]_vars
    PROVE  UNCHANGED throttle \/ \E p \in Path : Calls(p)
<1>1. CASE UNCHANGED vars
    BY <1>1 DEF vars
<1>2. ASSUME NEW t \in Tab, Throttled(t) \/ SetExpire(t) \/ Fail(t)
      PROVE  UNCHANGED throttle \/ \E p \in Path : Calls(p)
    BY <1>2 DEF Throttled, SetExpire, Fail, Calls, TypeInv, Fits
<1>3. ASSUME NEW t \in Tab,
             \/ \E kind \in Kind : Send(t, kind)
             \/ OptionalJWTAuth(t) \/ Handle(t) \/ Reply(t) \/ StoreUnheard(t)
      PROVE  UNCHANGED throttle
    BY <1>3
       DEF Send, OptionalJWTAuth, Handle, GetCurrentUser, GetSelfAvatar, GetAvatarByID,
           SetAvatar, DeleteAvatar, Login, Callback, Refresh, Logout, Answers, Store,
           Reply, Receive, SetAuthResponse, ReceiveSignOut, StoreUnheard
<1>4. ASSUME NEW p \in Path, Over(p)
      PROVE  Calls(p)
    BY <1>4 DEF Over, Calls
<1> QED
    BY <1>1, <1>2, <1>3, <1>4 DEF Next, Step

-----------------------------------------------------------------------------
(* Types.                                                                  *)

RequestsOK ==
    /\ pc \in [Tab -> Steps] /\ req \in [Tab -> Request]
    /\ during \in [Tab -> SUBSET (Avatar \cup {NoAvatar})]
    /\ \A t \in Tab : Fits(t)

BrowserOK ==
    /\ cookie \in User \cup {Nobody} /\ access \in [Tab -> User \cup {Nobody}]
    /\ out \in BOOLEAN

LEMMA ThrottledType ==
    ASSUME TypeInv, NEW t \in Tab, Throttled(t) \/ SetExpire(t)
    PROVE  RequestsOK'
<1>1. CASE Ends(t)
    BY <1>1, EndsKeeps DEF RequestsOK
<1>2. CASE pc[t] = "throttle" /\ Goto(t, "expire") /\ UNCHANGED <<req, during>>
    BY <1>2 DEF RequestsOK, TypeInv, TypeOK, Goto, Steps, Fits, Counted
<1>3. CASE /\ pc[t] \in {"throttle", "expire"}
           /\ Goto(t, Admitted(req[t].kind)) /\ UNCHANGED <<req, during>>
    BY <1>3, GotoKeeps DEF RequestsOK, Admitted, Steps, TypeInv, TypeOK
<1> QED
    BY <1>1, <1>2, <1>3 DEF Throttled, SetExpire

LEMMA CarriesType ==
    ASSUME TypeInv, NEW t \in Tab, NEW u \in User \cup {Nobody},
           NEW a \in Avatar \cup {NoAvatar}, Carries(t, u, a)
    PROVE  /\ req' \in [Tab -> Request]
           /\ req'[t].kind = req[t].kind /\ req'[t].user = u /\ req'[t].avatar = a
           /\ \A s \in Tab \ {t} : req'[s] = req[s]
BY DEF Carries, TypeInv, TypeOK, Request

LEMMA OptionalJWTAuthType ==
    ASSUME TypeInv, NEW t \in Tab, OptionalJWTAuth(t)
    PROVE  RequestsOK'
<1>1. PICK u \in User \cup {Nobody}, a \in Avatar \cup {NoAvatar} : Carries(t, u, a)
    <2>1. /\ req[t].user \in User \cup {Nobody} /\ req[t].avatar \in Avatar \cup {NoAvatar}
          /\ avatar \in [User -> Avatar \cup {NoAvatar}]
        BY DEF TypeInv, TypeOK, Request
    <2> QED
        BY <2>1 DEF OptionalJWTAuth, FindUserByID
<1>2. pc' = [pc EXCEPT ![t] = "handle"] /\ pc[t] = "auth" /\ UNCHANGED during
    BY DEF OptionalJWTAuth, Goto
<1>3. req[t].kind \in Profile
    BY <1>2 DEF TypeInv, Fits
<1> QED
    BY <1>1, <1>2, <1>3, CarriesType
       DEF RequestsOK, TypeInv, TypeOK, Steps, Fits, Counted, Shows, Profile

LEMMA ShowsType ==
    ASSUME TypeInv, NEW t \in Tab, pc[t] = "handle", req[t].kind \in Shows,
           NEW u \in User, NEW a \in Avatar \cup {NoAvatar},
           Carries(t, u, a), Goto(t, "show")
    PROVE  /\ pc' \in [Tab -> Steps] /\ req' \in [Tab -> Request]
           /\ \A s \in Tab : Fits(s)'
BY CarriesType DEF Goto, TypeInv, TypeOK, Steps, Fits, Counted

LEMMA StoresType ==
    ASSUME TypeInv, NEW u \in User, NEW a \in Avatar \cup {NoAvatar}, Stores(u, a)
    PROVE  /\ avatar' \in [User -> Avatar \cup {NoAvatar}]
           /\ during' \in [Tab -> SUBSET (Avatar \cup {NoAvatar})]
BY DEF Stores, TypeInv, TypeOK

LEMMA StoredType ==
    ASSUME TypeInv, NEW t \in Tab
    PROVE  Stored(t) \in Avatar \cup {NoAvatar}
BY DEF Stored, TypeInv, TypeOK, Request

LEMMA HandleType ==
    ASSUME TypeInv, NEW t \in Tab, Handle(t)
    PROVE  RequestsOK' /\ avatar' \in [User -> Avatar \cup {NoAvatar}]
<1> USE DEF RequestsOK
<1>1. ASSUME NEW kind \in Kind, NEW reply \in Steps, Answers(t, kind, reply),
             (reply = "show" /\ kind \in Shows) \/ (reply = "signIn" /\ kind \in SignIn)
      PROVE  RequestsOK' /\ avatar' \in [User -> Avatar \cup {NoAvatar}]
    <2>1. req[t].user \in User
        BY <1>1 DEF Answers, TypeInv, TypeOK, Request
    <2> QED
        BY <1>1, <2>1, GotoKeeps DEF Answers, TypeInv, TypeOK
<1>2. CASE GetAvatarByID(t)
    <2>1. req[t].user \in User /\ req[t].kind \in Shows
        BY <1>2 DEF GetAvatarByID, TypeInv, Fits, Shows
    <2>2. avatar[req[t].user] \in Avatar \cup {NoAvatar}
        BY <2>1 DEF TypeInv, TypeOK
    <2> QED
        BY <1>2, <2>1, <2>2, ShowsType DEF GetAvatarByID, FindUserByID, TypeInv, TypeOK
<1>3. ASSUME NEW kind \in {"set", "delete"}, Store(t, kind)
      PROVE  RequestsOK' /\ avatar' \in [User -> Avatar \cup {NoAvatar}]
    <2>1. req[t].user \in User /\ req[t].kind \in Shows
        BY <1>3 DEF Store, TypeInv, TypeOK, Request, Shows, Profile
    <2> QED
        BY <1>3, <2>1, StoredType, StoresType, ShowsType DEF Store
<1>4. CASE Logout(t)
    BY <1>4, GotoKeeps DEF Logout, TypeInv, TypeOK, Steps
<1>5. CASE GetCurrentUser(t) \/ GetSelfAvatar(t)
    <2>1. /\ "me" \in Kind /\ "me" \in Shows /\ "get" \in Kind /\ "get" \in Shows
          /\ "show" \in Steps
        BY DEF Kind, Shows, Profile, Steps
    <2>2. CASE GetCurrentUser(t)
        BY <1>1, <2>1, <2>2 DEF GetCurrentUser
    <2>3. CASE GetSelfAvatar(t)
        BY <1>1, <2>1, <2>3 DEF GetSelfAvatar
    <2> QED
        BY <1>5, <2>2, <2>3
<1>6. CASE Login(t) \/ Callback(t) \/ Refresh(t)
    <2>1. {"login", "callback", "refresh"} \subseteq Kind \cap SignIn /\ "signIn" \in Steps
        BY DEF Kind, SignIn, Steps
    <2> QED
        BY <1>1, <1>6, <2>1 DEF Login, Callback, Refresh
<1>7. CASE SetAvatar(t) \/ DeleteAvatar(t)
    BY <1>3, <1>7 DEF SetAvatar, DeleteAvatar
<1> QED
    BY <1>2, <1>4, <1>5, <1>6, <1>7 DEF Handle

LEMMA ReplyType ==
    ASSUME TypeInv, NEW t \in Tab, Reply(t)
    PROVE  RequestsOK' /\ BrowserOK'
<1>1. Ends(t)
    BY DEF Reply, Receive, SetAuthResponse, ReceiveSignOut
<1>2. RequestsOK'
    BY <1>1, EndsKeeps DEF RequestsOK
<1>3. cookie' \in User \cup {Nobody} /\ access' \in [Tab -> User \cup {Nobody}]
    <2>1. CASE Receive(t)
        BY <2>1 DEF Receive, browser, TypeInv, TypeOK
    <2>2. CASE SetAuthResponse(t)
        <3>1. req[t].user \in User
            BY <2>2 DEF SetAuthResponse, TypeInv, Fits
        <3> QED
            BY <2>2, <3>1 DEF SetAuthResponse, SetCookie, SignTokens, TypeInv, TypeOK
    <2>3. CASE ReceiveSignOut(t)
        BY <2>3 DEF ReceiveSignOut, ClearCookie, SetCookie, TypeInv, TypeOK
    <2> QED
        BY <2>1, <2>2, <2>3 DEF Reply
<1>4. out' \in BOOLEAN
    BY Zenon DEF Reply, Receive, SetAuthResponse, ReceiveSignOut, browser, TypeInv, TypeOK
<1> QED
    BY <1>2, <1>3, <1>4 DEF BrowserOK

LEMMA FailType ==
    ASSUME TypeInv, NEW t \in Tab, Fail(t)
    PROVE  RequestsOK'
BY EndsKeeps DEF Fail, RequestsOK

LEMMA StoreUnheardType ==
    ASSUME TypeInv, NEW t \in Tab, StoreUnheard(t)
    PROVE  RequestsOK' /\ avatar' \in [User -> Avatar \cup {NoAvatar}]
<1>1. Stored(t) \in Avatar \cup {NoAvatar}
    BY StoredType
<1>2. during' \in [Tab -> SUBSET (Avatar \cup {NoAvatar})]
    BY <1>1 DEF StoreUnheard, TypeInv, TypeOK
<1>3. avatar' \in [User -> Avatar \cup {NoAvatar}]
    BY <1>1 DEF StoreUnheard, TypeInv, TypeOK
<1>4. /\ pc' = [pc EXCEPT ![t] = "idle"]
      /\ req' = [req EXCEPT ![t] = NoRequest]
    BY DEF StoreUnheard, Goto
<1>5. NoRequest \in Request
    BY DEF NoRequest, Request
<1> QED
    BY <1>2, <1>3, <1>4, <1>5 DEF RequestsOK, TypeInv, TypeOK, Steps, Fits, Counted, NoRequest

\* Every step keeps the types and what a request is at its step.
LEMMA TypeStep ==
    ASSUME TypeInv, [Next]_vars
    PROVE  TypeInv'
<1>1. ThrottleTypeOK'
    BY StepCalls, CallsKeepTypes DEF TypeInv, TypeOK, throttle, ThrottleTypeOK
<1> SUFFICES RequestsOK' /\ BrowserOK' /\ avatar' \in [User -> Avatar \cup {NoAvatar}]
    BY <1>1 DEF TypeInv, TypeOK, RequestsOK, BrowserOK
<1>2. RequestsOK /\ BrowserOK /\ avatar \in [User -> Avatar \cup {NoAvatar}]
    BY DEF TypeInv, TypeOK, RequestsOK, BrowserOK
<1>3. CASE UNCHANGED vars
    BY <1>2, <1>3 DEF vars, RequestsOK, BrowserOK, Fits, Counted
<1>4. ASSUME NEW t \in Tab, NEW kind \in Kind, Send(t, kind)
      PROVE  TypeInv'
    BY <1>4, SendType
<1>5. ASSUME NEW t \in Tab, Throttled(t) \/ SetExpire(t)
      PROVE  RequestsOK' /\ UNCHANGED <<avatar, browser>>
    BY <1>5, ThrottledType DEF Throttled, SetExpire
<1>6. ASSUME NEW t \in Tab, OptionalJWTAuth(t)
      PROVE  RequestsOK' /\ UNCHANGED <<avatar, browser>>
    BY <1>6, OptionalJWTAuthType DEF OptionalJWTAuth
<1>7. ASSUME NEW t \in Tab, Handle(t)
      PROVE  UNCHANGED browser
    BY <1>7
       DEF Handle, GetCurrentUser, GetSelfAvatar, GetAvatarByID, SetAvatar, DeleteAvatar,
           Login, Callback, Refresh, Logout, Answers, Store
<1>8. ASSUME NEW t \in Tab, Reply(t)
      PROVE  UNCHANGED avatar
    BY <1>8 DEF Reply, Receive, SetAuthResponse, ReceiveSignOut
<1>9. ASSUME NEW t \in Tab, Fail(t)
      PROVE  RequestsOK' /\ UNCHANGED <<avatar, browser>>
    BY <1>9, FailType DEF Fail
<1>10. ASSUME NEW t \in Tab, StoreUnheard(t)
       PROVE  UNCHANGED browser
    BY <1>10 DEF StoreUnheard
<1>11. ASSUME NEW p \in Path, Over(p)
       PROVE  UNCHANGED <<avatar, browser, pc, req, during>>
    BY <1>11 DEF Over
<1>12. UNCHANGED browser => BrowserOK'
    BY <1>2 DEF browser, BrowserOK
<1>13. UNCHANGED <<pc, req, during>> => RequestsOK'
    BY <1>2 DEF RequestsOK, Fits, Counted
<1> QED
    BY <1>2, <1>3, <1>4, <1>5, <1>6, <1>7, <1>8, <1>9, <1>10, <1>11, <1>12, <1>13,
       HandleType, ReplyType, StoreUnheardType
       DEF Next, Step, TypeInv, TypeOK, RequestsOK, BrowserOK

\* Every state is of its types.
THEOREM TypeCorrect == Spec => []TypeOK
<1>1. Init => TypeInv
    BY TypeInit
<1>2. TypeInv /\ [Next]_vars => TypeInv'
    BY TypeStep
<1>3. TypeInv => TypeOK
    BY DEF TypeInv
<1> QED
    BY <1>1, <1>2, <1>3, PTL DEF Spec

\* What a path lets through while its key lives is bounded by the limit and
\* the calls that failed.
THEOREM AdmissionBounded == Spec => []AdmittedBounded
<1>1. Init => TypeInv
    BY TypeInit
<1>2. Init => TallyInv
    <2> SUFFICES ASSUME Init, NEW p \in Path
                 PROVE  passed[p] <= Limit + faults /\ passed[p] <= hits[p] + faults
        BY DEF TallyInv
    <2>1. passed[p] = 0 /\ hits[p] = 0 /\ faults = 0
        BY DEF Init, ThrottleInit
    <2>2. Limit \in Nat
        BY ThrottleAssumption
    <2> QED
        BY <2>1, <2>2
<1>3. TypeInv /\ [Next]_vars => TypeInv'
    BY TypeStep
<1>4. TypeInv /\ TallyInv /\ [Next]_vars => TallyInv'
    <2> SUFFICES ASSUME TypeInv, TallyInv, [Next]_vars PROVE TallyInv'
        OBVIOUS
    <2>1. CASE UNCHANGED throttle
        BY <2>1 DEF throttle, TallyInv
    <2>2. ASSUME NEW p \in Path, Calls(p) PROVE TallyInv'
        BY <2>2, CallsKeepTally DEF TypeInv, TypeOK
    <2> QED
        BY <2>1, <2>2, StepCalls
<1>5. TallyInv => AdmittedBounded
    BY DEF TallyInv, AdmittedBounded
<1> QED
    BY <1>1, <1>2, <1>3, <1>4, <1>5, PTL DEF Spec

-----------------------------------------------------------------------------
(* Sign-out.                                                               *)

\* After it no request is under way that could sign anybody in: none is a
\* login, and a refresh was sent without a cookie.
OutInv ==
    out => /\ cookie = Nobody
           /\ \A t \in Tab : SigningIn(t) => req[t].user = Nobody

\* A step that ends the request of a tab or moves it on starts no sign-in.
NoNewSignIn ==
    /\ \A t \in Tab : SigningIn(t)' => SigningIn(t) /\ req'[t].user \in {req[t].user, Nobody}
    /\ UNCHANGED <<cookie, out>>

LEMMA EndsStartsNone ==
    ASSUME TypeInv, NEW t \in Tab, Ends(t)
    PROVE  \A s \in Tab : SigningIn(s)' => SigningIn(s) /\ req'[s].user = req[s].user
BY DEF Ends, Goto, SigningIn, NoRequest, SignIn, TypeInv, TypeOK

LEMMA MovesStartNone ==
    ASSUME TypeInv, NEW t \in Tab, NEW step, Goto(t, step), UNCHANGED req, pc[t] # "idle"
    PROVE  \A s \in Tab : SigningIn(s)' => SigningIn(s) /\ req'[s].user = req[s].user
BY DEF Goto, SigningIn, TypeInv, TypeOK

LEMMA CarryingStartsNone ==
    ASSUME TypeInv, NEW t \in Tab, NEW step, Goto(t, step), pc[t] # "idle",
           NEW u \in {req[t].user, Nobody}, NEW a, Carries(t, u, a)
    PROVE  \A s \in Tab : SigningIn(s)' =>
               SigningIn(s) /\ req'[s].user \in {req[s].user, Nobody}
BY DEF Goto, Carries, SigningIn, TypeInv, TypeOK, Request

LEMMA OthersStartNone ==
    ASSUME TypeInv, NEW t \in Tab,
           \/ Throttled(t) \/ SetExpire(t) \/ OptionalJWTAuth(t) \/ Handle(t)
           \/ Receive(t) \/ Fail(t) \/ StoreUnheard(t)
    PROVE  NoNewSignIn
<1>1. UNCHANGED <<cookie, out>>
    BY DEF Throttled, SetExpire, OptionalJWTAuth, Handle, GetCurrentUser, GetSelfAvatar,
           GetAvatarByID, SetAvatar, DeleteAvatar, Login, Callback, Refresh, Logout,
           Answers, Store, Receive, Fail, StoreUnheard, browser
<1>2. CASE Ends(t)
    BY <1>1, <1>2, EndsStartsNone DEF NoNewSignIn
<1>3. CASE \E step : Goto(t, step) /\ UNCHANGED req /\ pc[t] # "idle"
    BY <1>1, <1>3, MovesStartNone DEF NoNewSignIn
<1>4. ASSUME NEW step, NEW a, NEW u \in {req[t].user, Nobody},
             Goto(t, step), pc[t] # "idle", Carries(t, u, a)
      PROVE  NoNewSignIn
    BY <1>1, <1>4, CarryingStartsNone DEF NoNewSignIn
<1>5. CASE StoreUnheard(t)
    <2>1. /\ pc' = [pc EXCEPT ![t] = "idle"] /\ req' = [req EXCEPT ![t] = NoRequest]
        BY <1>5 DEF StoreUnheard, Goto
    <2> QED
        BY <1>1, <2>1 DEF NoNewSignIn, SigningIn, NoRequest, SignIn, TypeInv, TypeOK
<1>6. CASE Throttled(t) \/ SetExpire(t)
    BY <1>2, <1>3, <1>6 DEF Throttled, SetExpire
<1>7. CASE OptionalJWTAuth(t)
    <2>1. Goto(t, "handle") /\ pc[t] # "idle"
        BY <1>7 DEF OptionalJWTAuth
    <2>2. CASE Carries(t, Nobody, NoAvatar)
        BY <1>4, <2>1, <2>2
    <2>3. ASSUME NEW a, Carries(t, req[t].user, a)
          PROVE  NoNewSignIn
        BY <1>4, <2>1, <2>3
    <2> QED
        BY <1>7, <2>2, <2>3 DEF OptionalJWTAuth
<1>8. CASE GetAvatarByID(t)
    <2>1. /\ Goto(t, "show") /\ pc[t] # "idle"
          /\ Carries(t, req[t].user, FindUserByID(req[t].user))
        BY <1>8 DEF GetAvatarByID
    <2> QED
        BY <1>4, <2>1
<1>9. ASSUME NEW kind, Store(t, kind)
      PROVE  NoNewSignIn
    <2>1. Goto(t, "show") /\ pc[t] # "idle" /\ Carries(t, req[t].user, Stored(t))
        BY <1>9 DEF Store
    <2> QED
        BY <1>4, <2>1
<1>10. ASSUME NEW kind, NEW reply, Answers(t, kind, reply)
       PROVE  NoNewSignIn
    BY <1>3, <1>10 DEF Answers
<1>11. CASE Logout(t)
    BY <1>3, <1>11 DEF Logout
<1>12. CASE Receive(t) \/ Fail(t)
    BY <1>2, <1>12 DEF Receive, Fail
<1>13. CASE Handle(t)
    BY <1>8, <1>9, <1>10, <1>11, <1>13
       DEF Handle, GetCurrentUser, GetSelfAvatar, SetAvatar, DeleteAvatar, Login, Callback,
           Refresh
<1> QED
    BY <1>5, <1>6, <1>7, <1>12, <1>13

\* A login ends the sign-out; a refresh has no cookie to send.
LEMMA SendKeepsOut ==
    ASSUME TypeInv, OutInv, NEW t \in Tab, NEW kind \in Kind, Send(t, kind)
    PROVE  OutInv'
<1> SUFFICES ASSUME out'
             PROVE  /\ cookie' = Nobody
                    /\ \A s \in Tab : SigningIn(s)' => req'[s].user = Nobody
    BY DEF OutInv
<1>1. out /\ kind \notin {"login", "callback"} /\ cookie' = cookie
    BY DEF Send
<1>2. PICK u \in UsersOf(t, kind), a \in IF kind = "set" THEN Avatar ELSE {NoAvatar} :
          req' = [req EXCEPT ![t] = [kind |-> kind, user |-> u, avatar |-> a]]
    BY DEF Send
<1>3. kind = "refresh" => u = Nobody
    BY <1>1 DEF UsersOf, RefreshesFor, Profile, OutInv
<1>4. pc' = [pc EXCEPT ![t] = Entry(kind)]
    BY DEF Send, Goto
<1> QED
    BY <1>1, <1>2, <1>3, <1>4 DEF OutInv, SigningIn, SignIn, TypeInv, TypeOK

\* A sign-out without a cookie, of a browser that nobody is signing in to,
\* is kept until a login is sent.
THEOREM SignOutLasts == Spec => []SignedOutStays
<1>1. Init => TypeInv /\ OutInv
    BY TypeInit DEF Init, OutInv
<1>2. TypeInv /\ [Next]_vars => TypeInv'
    BY TypeStep
<1>3. TypeInv /\ OutInv /\ [Next]_vars => OutInv'
    <2> SUFFICES ASSUME TypeInv, OutInv, [Next]_vars PROVE OutInv'
        OBVIOUS
    <2>1. CASE UNCHANGED <<cookie, out, pc, req>>
        BY <2>1 DEF OutInv, SigningIn
    <2>2. CASE NoNewSignIn
        BY <2>2 DEF NoNewSignIn, OutInv
    <2>3. ASSUME NEW t \in Tab, SetAuthResponse(t) PROVE OutInv'
        <3>1. SigningIn(t) /\ req[t].user # Nobody
            BY <2>3, FrontAssumption DEF SetAuthResponse, SigningIn, TypeInv, Fits
        <3> QED
            BY <2>3, <3>1 DEF SetAuthResponse, OutInv
    <2>4. ASSUME NEW t \in Tab, ReceiveSignOut(t) PROVE OutInv'
        BY <2>4, EndsStartsNone DEF ReceiveSignOut, ClearCookie, SetCookie, OutInv
    <2>5. CASE UNCHANGED vars
        BY <2>1, <2>5 DEF vars
    <2>6. ASSUME NEW p \in Path, Over(p) PROVE OutInv'
        BY <2>1, <2>6 DEF Over, browser
    <2> QED
        BY <2>2, <2>3, <2>4, <2>5, <2>6, SendKeepsOut, OthersStartNone
           DEF Next, Step, Reply
<1>4. OutInv => SignedOutStays
    BY DEF OutInv, SignedOutStays
<1> QED
    BY <1>1, <1>2, <1>3, <1>4, PTL DEF Spec

-----------------------------------------------------------------------------
(* Avatars.                                                                *)

\* What during holds for a request that shows an avatar of somebody: the one
\* the user has, and the one that goes with the request.
Current(t) ==
    pc[t] # "idle" /\ req[t].kind \in Shows /\ req[t].user \in User =>
        /\ avatar[req[t].user] \in during[t]
        /\ pc[t] = "handle" /\ req[t].kind \in {"me", "get"} => req[t].avatar \in during[t]
        /\ pc[t] = "show" => req[t].avatar \in during[t]

CurrentInv == \A t \in Tab : Current(t)

\* A tab whose request and avatars are left alone.
LEMMA SameStaysCurrent ==
    ASSUME NEW t \in Tab, Current(t), UNCHANGED <<pc[t], req[t], avatar, during[t]>>
    PROVE  Current(t)'
BY DEF Current

LEMMA IdleIsCurrent ==
    ASSUME NEW t \in Tab, pc'[t] = "idle"
    PROVE  Current(t)'
BY DEF Current

LEMMA EndsCurrent ==
    ASSUME TypeInv, CurrentInv, NEW t \in Tab, Ends(t), UNCHANGED avatar
    PROVE  CurrentInv'
<1> SUFFICES ASSUME NEW s \in Tab PROVE Current(s)'
    BY DEF CurrentInv
<1>1. CASE s = t
    BY <1>1, IdleIsCurrent DEF Ends, Goto, TypeInv, TypeOK
<1>2. CASE s # t
    BY <1>2, SameStaysCurrent DEF CurrentInv, Ends, Goto, TypeInv, TypeOK
<1> QED
    BY <1>1, <1>2

\* A request that moves on to a handler has its avatar from OptionalJWTAuth
\* or needs none; one that moves on to a reply takes it along.
LEMMA GotoCurrent ==
    ASSUME TypeInv, CurrentInv, NEW t \in Tab, NEW step, Goto(t, step),
           UNCHANGED <<req, avatar, during>>, pc[t] # "idle",
           step = "handle" => req[t].kind \notin Profile,
           step = "show" => pc[t] = "handle" /\ req[t].kind \in {"me", "get"}
    PROVE  CurrentInv'
<1> SUFFICES ASSUME NEW s \in Tab PROVE Current(s)'
    BY DEF CurrentInv
<1>1. CASE s = t
    BY <1>1 DEF CurrentInv, Current, Goto, TypeInv, TypeOK, Profile
<1>2. CASE s # t
    BY <1>2, SameStaysCurrent DEF CurrentInv, Goto, TypeInv, TypeOK
<1> QED
    BY <1>1, <1>2

LEMMA CarriesCurrent ==
    ASSUME TypeInv, CurrentInv, NEW t \in Tab, NEW step, Goto(t, step), pc[t] # "idle",
           NEW u \in {req[t].user, Nobody}, NEW a \in Avatar \cup {NoAvatar},
           Carries(t, u, a), UNCHANGED <<avatar, during>>,
           \/ u = Nobody
           \/ a = avatar[u]
           \/ step = "handle" /\ req[t].kind \notin {"me", "get"}
    PROVE  CurrentInv'
<1> SUFFICES ASSUME NEW s \in Tab PROVE Current(s)'
    BY DEF CurrentInv
<1>1. u \in User \cup {Nobody}
    BY DEF TypeInv, TypeOK, Request
<1>2. CASE s = t
    BY <1>1, <1>2, CarriesType, FrontAssumption
       DEF CurrentInv, Current, Goto, TypeInv, TypeOK
<1>3. CASE s # t
    BY <1>1, <1>3, CarriesType, SameStaysCurrent DEF CurrentInv, Goto, TypeInv, TypeOK
<1> QED
    BY <1>2, <1>3

\* What is stored is current for everybody who is waiting for that user.
LEMMA StoresCurrent ==
    ASSUME TypeInv, CurrentInv, NEW u \in User, NEW a \in Avatar \cup {NoAvatar}, Stores(u, a),
           NEW s \in Tab, UNCHANGED <<pc[s], req[s]>>
    PROVE  Current(s)'
<1>1. CASE pc[s] # "idle" /\ req[s].kind \in Shows /\ req[s].user = u
    <2>1. during'[s] = during[s] \cup {a} /\ avatar'[u] = a
        BY <1>1 DEF Stores, CurrentInv, Current, TypeInv, TypeOK
    <2> QED
        BY <1>1, <2>1 DEF CurrentInv, Current
<1>2. CASE req[s].user # u
    <2>1. UNCHANGED during[s] /\ \A v \in User \ {u} : avatar'[v] = avatar[v]
        BY <1>2 DEF Stores, TypeInv, TypeOK
    <2> QED
        BY <1>2, <2>1 DEF CurrentInv, Current
<1>3. CASE ~(pc[s] # "idle" /\ req[s].kind \in Shows)
    BY <1>3 DEF Current
<1> QED
    BY <1>1, <1>2, <1>3

LEMMA StoreCurrent ==
    ASSUME TypeInv, CurrentInv, NEW t \in Tab, NEW kind \in {"set", "delete"}, Store(t, kind)
    PROVE  CurrentInv'
<1> SUFFICES ASSUME NEW s \in Tab PROVE Current(s)'
    BY DEF CurrentInv
<1>1. /\ req[t].user \in User /\ Stored(t) \in Avatar \cup {NoAvatar}
      /\ req[t].kind \in Shows /\ pc[t] # "idle"
    BY StoredType DEF Store, TypeInv, TypeOK, Request, Shows, Profile
<1>2. CASE s = t
    <2>1. during'[t] = during[t] \cup {Stored(t)} /\ avatar'[req[t].user] = Stored(t)
        BY <1>1 DEF Store, Stores, CurrentInv, Current, TypeInv, TypeOK
    <2> QED
        BY <1>1, <1>2, <2>1, CarriesType DEF Store, Current
<1>3. CASE s # t
    <2>1. UNCHANGED <<pc[s], req[s]>>
        BY <1>1, <1>3, CarriesType DEF Store, Goto, TypeInv, TypeOK
    <2> QED
        BY <1>1, <2>1, StoresCurrent DEF Store
<1> QED
    BY <1>2, <1>3

LEMMA StoreUnheardCurrent ==
    ASSUME TypeInv, CurrentInv, NEW t \in Tab, StoreUnheard(t)
    PROVE  CurrentInv'
<1> SUFFICES ASSUME NEW s \in Tab PROVE Current(s)'
    BY DEF CurrentInv
<1>1. /\ req[t].user \in User /\ Stored(t) \in Avatar \cup {NoAvatar}
      /\ pc' = [pc EXCEPT ![t] = "idle"] /\ req' = [req EXCEPT ![t] = NoRequest]
      /\ avatar' = [avatar EXCEPT ![req[t].user] = Stored(t)]
    BY StoredType DEF StoreUnheard, Goto, TypeInv, TypeOK, Request
<1>2. CASE s = t
    BY <1>1, <1>2, IdleIsCurrent DEF TypeInv, TypeOK
<1>3. CASE s # t
    <2>1. UNCHANGED <<pc[s], req[s]>>
        BY <1>1, <1>3 DEF TypeInv, TypeOK
    <2>2. during'[s] = IF req[s].user = req[t].user /\ during[s] # {}
                       THEN during[s] \cup {Stored(t)} ELSE during[s]
        BY <1>3 DEF StoreUnheard
    <2>3. CASE pc[s] # "idle" /\ req[s].kind \in Shows /\ req[s].user \in User
        <3>1. avatar[req[s].user] \in during[s]
            BY <2>3 DEF CurrentInv, Current
        <3>2. avatar'[req[s].user] \in during'[s] /\ during[s] \subseteq during'[s]
            BY <1>1, <2>2, <2>3, <3>1 DEF TypeInv, TypeOK
        <3> QED
            BY <2>1, <2>3, <3>2 DEF CurrentInv, Current
    <2> QED
        BY <2>1, <2>3 DEF Current
<1> QED
    BY <1>2, <1>3

\* A request that is sent knows what avatar its user has.
LEMMA SendCurrent ==
    ASSUME TypeInv, CurrentInv, NEW t \in Tab, NEW kind \in Kind, Send(t, kind)
    PROVE  CurrentInv'
<1>1. PICK u \in UsersOf(t, kind), a \in IF kind = "set" THEN Avatar ELSE {NoAvatar} :
          /\ req' = [req EXCEPT ![t] = [kind |-> kind, user |-> u, avatar |-> a]]
          /\ during' = [during EXCEPT ![t] =
                           IF kind \in Profile \cup {"other"} /\ u # Nobody
                           THEN {avatar[u]} ELSE {}]
    BY DEF Send
<1>2. pc' = [pc EXCEPT ![t] = Entry(kind)] /\ UNCHANGED avatar
    BY DEF Send, Goto
<1> SUFFICES ASSUME NEW s \in Tab PROVE Current(s)'
    BY DEF CurrentInv
<1>3. CASE s = t
    <2>1. /\ pc'[t] = Entry(kind) /\ req'[t].kind = kind /\ req'[t].user = u
          /\ during'[t] = IF kind \in Shows /\ u # Nobody THEN {avatar[u]} ELSE {}
        BY <1>1, <1>2 DEF TypeInv, TypeOK, Shows
    <2>2. /\ Entry(kind) # "show"
          /\ kind \in {"me", "get"} => Entry(kind) # "handle"
        BY DEF Entry, Admitted, Profile
    <2> QED
        BY <1>2, <1>3, <2>1, <2>2, FrontAssumption DEF Current
<1>4. CASE s # t
    BY <1>1, <1>2, <1>4, SameStaysCurrent DEF CurrentInv, TypeInv, TypeOK
<1> QED
    BY <1>3, <1>4

\* OptionalJWTAuth takes the avatar along, for the requests that show it.
LEMMA OptionalJWTAuthCurrent ==
    ASSUME TypeInv, CurrentInv, NEW t \in Tab, OptionalJWTAuth(t)
    PROVE  CurrentInv'
<1>1. /\ pc[t] = "auth" /\ Goto(t, "handle") /\ UNCHANGED <<avatar, during>>
      /\ req[t].user \in User \cup {Nobody} /\ req[t].avatar \in Avatar \cup {NoAvatar}
    BY DEF OptionalJWTAuth, TypeInv, TypeOK, Request
<1>2. CASE Carries(t, Nobody, NoAvatar)
    BY <1>1, <1>2, CarriesCurrent
<1>3. CASE req[t].kind = "set" /\ Carries(t, req[t].user, req[t].avatar)
    BY <1>1, <1>3, CarriesCurrent
<1>4. CASE req[t].user # Nobody /\ Carries(t, req[t].user, avatar[req[t].user])
    <2>1. avatar[req[t].user] \in Avatar \cup {NoAvatar}
        BY <1>1, <1>4 DEF TypeInv, TypeOK
    <2> QED
        BY <1>1, <1>4, <2>1, CarriesCurrent
<1> QED
    BY <1>2, <1>3, <1>4 DEF OptionalJWTAuth, FindUserByID

LEMMA HandleCurrent ==
    ASSUME TypeInv, CurrentInv, NEW t \in Tab, Handle(t)
    PROVE  CurrentInv'
<1>1. ASSUME NEW kind, NEW reply, Answers(t, kind, reply),
             reply = "signIn" \/ (reply = "show" /\ kind \in {"me", "get"})
      PROVE  CurrentInv'
    BY <1>1, GotoCurrent DEF Answers
<1>2. CASE GetAvatarByID(t)
    <2>1. /\ req[t].user \in User /\ avatar[req[t].user] \in Avatar \cup {NoAvatar}
          /\ Goto(t, "show") /\ pc[t] # "idle" /\ UNCHANGED <<avatar, during>>
        BY <1>2 DEF GetAvatarByID, TypeInv, TypeOK, Fits
    <2> QED
        BY <1>2, <2>1, CarriesCurrent DEF GetAvatarByID, FindUserByID
<1>3. CASE SetAvatar(t) \/ DeleteAvatar(t)
    BY <1>3, StoreCurrent DEF SetAvatar, DeleteAvatar
<1>4. CASE Logout(t)
    BY <1>4, GotoCurrent DEF Logout
<1> QED
    BY <1>1, <1>2, <1>3, <1>4
       DEF Handle, GetCurrentUser, GetSelfAvatar, Login, Callback, Refresh

LEMMA ThrottledCurrent ==
    ASSUME TypeInv, CurrentInv, NEW t \in Tab, Throttled(t) \/ SetExpire(t)
    PROVE  CurrentInv'
<1>1. CASE Ends(t)
    BY <1>1, EndsCurrent DEF Throttled, SetExpire
<1>2. CASE Goto(t, "expire") /\ UNCHANGED <<req, during>>
    BY <1>2, GotoCurrent DEF Throttled, SetExpire
<1>3. CASE Goto(t, Admitted(req[t].kind)) /\ UNCHANGED <<req, during>>
    <2>1. /\ Admitted(req[t].kind) = "handle" => req[t].kind \notin Profile
          /\ Admitted(req[t].kind) # "show"
        BY DEF Admitted
    <2> QED
        BY <1>3, <2>1, GotoCurrent DEF Throttled, SetExpire
<1> QED
    BY <1>1, <1>2, <1>3 DEF Throttled, SetExpire

\* What a reply shows, or says was stored, was the user's avatar since the
\* request was sent.
THEOREM AvatarsAreCurrent == Spec => []AvatarIsCurrent
<1>1. Init => TypeInv /\ CurrentInv
    BY TypeInit DEF Init, CurrentInv, Current
<1>2. TypeInv /\ [Next]_vars => TypeInv'
    BY TypeStep
<1>3. TypeInv /\ CurrentInv /\ [Next]_vars => CurrentInv'
    <2> SUFFICES ASSUME TypeInv, CurrentInv, [Next]_vars PROVE CurrentInv'
        OBVIOUS
    <2>1. CASE UNCHANGED <<avatar, pc, req, during>>
        BY <2>1 DEF CurrentInv, Current
    <2>2. ASSUME NEW t \in Tab, Reply(t) \/ Fail(t) PROVE CurrentInv'
        BY <2>2, EndsCurrent DEF Reply, Receive, SetAuthResponse, ReceiveSignOut, Fail
    <2>3. ASSUME NEW p \in Path, Over(p) PROVE CurrentInv'
        BY <2>1, <2>3 DEF Over
    <2>4. CASE UNCHANGED vars
        BY <2>1, <2>4 DEF vars
    <2> QED
        BY <2>2, <2>3, <2>4, SendCurrent, ThrottledCurrent, OptionalJWTAuthCurrent,
           HandleCurrent, StoreUnheardCurrent
           DEF Next, Step
<1>4. TypeInv /\ CurrentInv => AvatarIsCurrent
    BY DEF TypeInv, Fits, CurrentInv, Current, AvatarIsCurrent
<1> QED
    BY <1>1, <1>2, <1>3, <1>4, PTL DEF Spec
=============================================================================

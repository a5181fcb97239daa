---------------------------- MODULE Registration ----------------------------
(***************************************************************************)
(* How accounts come about: registration with a code sent by mail, and the *)
(* first sign-in with Google or Discord.  The "user" table is in           *)
(* PostgreSQL, the code of an address in Redis, the registration itself in *)
(* a signed cookie of the browser.  A client is a browser, with one        *)
(* request in flight; it takes one step per storage call.  The cookie a    *)
(* response sets is shown as set when the handler decides it.              *)
(*                                                                         *)
(* A person is known by an address in lower case.  Registration stores it  *)
(* so, Google as it is spelled there, Discord has none.  A code is the     *)
(* number of its mail: two mails never carry the same one.                 *)
(***************************************************************************)
EXTENDS Integers, Sequences, FiniteSets

CONSTANTS
    Client,      \* browsers
    Person,      \* people, known by their address
    PeopleOf,    \* for each client, those who use it
    ProviderOf,  \* and the sign-in services they use there: "google", "discord"
    Spelling,    \* how Google spells the address of each: "lower", "mixed",
                 \* or "empty" if it tells none
    Members,     \* accounts made before the run
    Before,      \* to whom codes were sent before the run, long enough ago
                 \* to ask for another
    MaxCodes,    \* bound: codes sent
    MaxUsers,    \* bound: accounts
    MaxFaults,   \* bound: reads of Redis and PostgreSQL whose error is dropped
    NoCode,      \* no code in Redis
    Nobody       \* no registration in the cookie

ASSUME RegistrationAssumption ==
    /\ PeopleOf \in [Client -> SUBSET Person] /\ Person # {} /\ Nobody \notin Person
    /\ NoCode \notin [value : Nat, count : Nat, fresh : BOOLEAN]
    /\ Spelling \in [Person -> SUBSET {"lower", "mixed", "empty"}]
    /\ ProviderOf \in [Client -> SUBSET {"google", "discord"}]
    /\ MaxCodes \in Nat /\ MaxUsers \in Nat /\ MaxFaults \in Nat
    /\ Before \in Seq(Person) /\ Len(Before) <= MaxCodes
    /\ \A p \in Person : Cardinality({n \in DOMAIN Before : Before[n] = p}) <= 3

VARIABLES
    users,    \* rows of "user"
    overtook, \* history: people an account was made for while another request
              \* for their address had looked for one and not made its own, or
              \* after the error of such a look was dropped
    code,     \* email_code:<address> in Redis
    mailed,   \* the addresses codes were sent to, in order
    sent,     \* history: codes sent to an address since it had none
    crossed,  \* history: those of them sent while another send was under way
    cookie,   \* whom each browser's registerToken is for
    pc,       \* what each client's request does next
    req,      \* the row the request would insert, the code typed, the count read
    faults    \* history: errors dropped so far

vars == <<users, overtook, code, mailed, sent, crossed, cookie, pc, req, faults>>
accounts == <<users, overtook>>
redis == <<code, mailed, sent, crossed>>

\* email is how the address is stored: "empty" the string, "none" NULL.
Row == [person : Person, email : {"lower", "mixed", "empty", "none"},
        by : {"code", "google", "discord"}]
Registered(p) == [person |-> p, email |-> "lower", by |-> "code"]

HasAddress(u) == u.email \in {"lower", "mixed"}
SameEmail(u, v) ==
    /\ u.email = v.email
    /\ u.email = "empty" \/ (HasAddress(u) /\ u.person = v.person)
SameSignIn(u, v) == u.person = v.person /\ u.by = v.by /\ u.by # "code"

ASSUME MembersAssumption ==
    /\ Members \subseteq Row
    /\ \A u, v \in Members :
          u.person = v.person /\ HasAddress(u) /\ HasAddress(v) => u = v

\* Mutant: addresses are compared as they are spelled.
FindAsSpelled(p) == {u \in users : u.person = p /\ u.email = "lower"}

\* The columns are compared in lower case.
FindUserByEmail(p) == {u \in users : u.person = p /\ HasAddress(u)}
FindByProvider(u) == {v \in users : SameSignIn(u, v)}

NoRequest == [row |-> Registered(CHOOSE p \in Person : TRUE), typed |-> 0, seen |-> 0]

SentTo(p) == {n \in DOMAIN Before : Before[n] = p}

Init ==
    /\ users = Members /\ overtook = {}
    /\ mailed = Before
    /\ sent = [p \in Person |-> Cardinality(SentTo(p))]
    /\ code = [p \in Person |->
                  IF SentTo(p) = {} THEN NoCode
                  ELSE [value |-> CHOOSE n \in SentTo(p) : \A m \in SentTo(p) : m <= n,
                        count |-> sent[p], fresh |-> FALSE]]
    /\ crossed = [p \in Person |-> 0]
    /\ cookie = [c \in Client |-> Nobody]
    /\ pc = [c \in Client |-> "idle"]
    /\ req = [c \in Client |-> NoRequest]
    /\ faults = 0

Goto(c, step) == pc' = [pc EXCEPT ![c] = step] /\ UNCHANGED req
Answer(c) == pc' = [pc EXCEPT ![c] = "idle"] /\ req' = [req EXCEPT ![c] = NoRequest]

Begin(c, step, row, typed) ==
    /\ pc[c] = "idle"
    /\ pc' = [pc EXCEPT ![c] = step]
    /\ req' = [req EXCEPT ![c] = [row |-> row, typed |-> typed, seen |-> 0]]

Who(c) == req[c].row.person

-----------------------------------------------------------------------------
(* InitRegister and ResendEmail.                                           *)

InitRegister(c, p) ==
    /\ p \in PeopleOf[c] /\ Begin(c, "find", Registered(p), 0)
    /\ UNCHANGED <<accounts, redis, cookie, faults>>

\* The cookie is set before the code is sent, and stays if it is not.
Find(c) ==
    /\ pc[c] = "find"
    /\ IF FindUserByEmail(Who(c)) # {}
       THEN Answer(c) /\ UNCHANGED cookie
       ELSE Goto(c, "check") /\ cookie' = [cookie EXCEPT ![c] = Who(c)]
    /\ UNCHANGED <<accounts, redis, faults>>

ResendEmail(c) ==
    /\ cookie[c] # Nobody /\ Begin(c, "check", Registered(cookie[c]), 0)
    /\ UNCHANGED <<accounts, redis, cookie, faults>>

(* SendVerificationCode.                                                   *)

CoolingDown(p) ==
    /\ code[p] # NoCode
    /\ code[p].count >= 3 \/ (code[p].count > 0 /\ code[p].fresh)

\* Mutant: four codes.
CheckFour(c) ==
    /\ pc[c] = "check"
    /\ IF code[Who(c)] # NoCode /\ (code[Who(c)].count > 3 \/ code[Who(c)].fresh)
       THEN Answer(c) ELSE Goto(c, "look")
    /\ UNCHANGED <<accounts, redis, cookie, faults>>

CheckResendCooldown(c) ==
    /\ pc[c] = "check"
    /\ IF CoolingDown(Who(c)) THEN Answer(c) ELSE Goto(c, "look")
    /\ UNCHANGED <<accounts, redis, cookie, faults>>

Look(c) ==
    /\ pc[c] = "look"
    /\ pc' = [pc EXCEPT ![c] = "save"]
    /\ req' = [req EXCEPT ![c].seen =
                  IF code[Who(c)] = NoCode THEN 0 ELSE code[Who(c)].count]
    /\ UNCHANGED <<accounts, redis, cookie, faults>>

\* Another send for the same address has passed its check and not saved yet.
Crossed(c) == \E d \in Client \ {c} : pc[d] \in {"look", "save"} /\ Who(d) = Who(c)

\* Mutant: the count starts at zero.
SaveFromZero(c) ==
    /\ pc[c] = "save"
    /\ Len(mailed) < MaxCodes
    /\ mailed' = Append(mailed, Who(c))
    /\ code' = [code EXCEPT ![Who(c)] =
                   [value |-> Len(mailed'), count |-> req[c].seen, fresh |-> TRUE]]
    /\ sent' = [sent EXCEPT ![Who(c)] = @ + 1]
    /\ crossed' = IF Crossed(c) THEN [crossed EXCEPT ![Who(c)] = @ + 1] ELSE crossed
    /\ Answer(c)
    /\ UNCHANGED <<accounts, cookie, faults>>

\* A new code takes the place of the old one, with a new time to live.
SaveEmailCode(c) ==
    /\ pc[c] = "save"
    /\ Len(mailed) < MaxCodes
    /\ mailed' = Append(mailed, Who(c))
    /\ code' = [code EXCEPT ![Who(c)] =
                   [value |-> Len(mailed'), count |-> req[c].seen + 1, fresh |-> TRUE]]
    /\ sent' = [sent EXCEPT ![Who(c)] = @ + 1]
    /\ crossed' = IF Crossed(c) THEN [crossed EXCEPT ![Who(c)] = @ + 1] ELSE crossed
    /\ Answer(c)
    /\ UNCHANGED <<accounts, cookie, faults>>

(* Register.                                                               *)

Register(c, typed) ==
    /\ cookie[c] # Nobody /\ Begin(c, "verify", Registered(cookie[c]), typed)
    /\ UNCHANGED <<accounts, redis, cookie, faults>>

\* Mutant: no code in Redis is no reason to refuse.
VerifyIfAny(c) ==
    /\ pc[c] = "verify"
    /\ IF code[Who(c)] = NoCode \/ code[Who(c)].value = req[c].typed
       THEN Goto(c, "exists") ELSE Answer(c)
    /\ UNCHANGED <<accounts, redis, cookie, faults>>

Verify(c) ==
    /\ pc[c] = "verify"
    /\ IF code[Who(c)] # NoCode /\ code[Who(c)].value = req[c].typed
       THEN Goto(c, "exists") ELSE Answer(c)
    /\ UNCHANGED <<accounts, redis, cookie, faults>>

Exists(c) ==
    /\ pc[c] = "exists"
    /\ IF FindUserByEmail(Who(c)) # {} THEN Answer(c) ELSE Goto(c, "create")
    /\ UNCHANGED <<accounts, redis, cookie, faults>>

\* "user" has UNIQUE (email), UNIQUE (discord_id) and UNIQUE (google_id).
Clashes(row) == \E u \in users : SameEmail(u, row) \/ SameSignIn(u, row)

\* Another request for the address has found no account and not made one yet.
Overtakes(c) ==
    /\ HasAddress(req[c].row)
    /\ \E d \in Client \ {c} :
          pc[d] \in {"create", "enroll"} /\ HasAddress(req[d].row) /\ Who(d) = Who(c)

Insert(c) ==
    /\ Cardinality(users) < MaxUsers
    /\ users' = users \cup {req[c].row}
    /\ overtook' = overtook \cup IF Overtakes(c) THEN {Who(c)} ELSE {}

CreateUser(c) ==
    /\ pc[c] = "create"
    /\ IF Clashes(req[c].row)
       THEN Answer(c) /\ UNCHANGED <<accounts, cookie>>
       ELSE /\ Insert(c)
            /\ cookie' = [cookie EXCEPT ![c] = Nobody]
            /\ Goto(c, "clean")
    /\ UNCHANGED <<redis, faults>>

Forget(p) ==
    /\ code' = [code EXCEPT ![p] = NoCode]
    /\ sent' = [sent EXCEPT ![p] = 0] /\ crossed' = [crossed EXCEPT ![p] = 0]

\* The error of DelEmailCode is dropped.
DelEmailCode(c) ==
    /\ pc[c] = "clean"
    /\ Forget(Who(c)) \/ UNCHANGED <<code, sent, crossed>>
    /\ Answer(c)
    /\ UNCHANGED <<accounts, mailed, cookie, faults>>

StopRegisterSession(c) ==
    /\ pc[c] = "idle" /\ cookie[c] # Nobody
    /\ cookie' = [cookie EXCEPT ![c] = Nobody]
    /\ UNCHANGED <<accounts, redis, pc, req, faults>>

(* HandleCallback of the two services, after they vouched for the person.  *)

GoogleCallback(c, p) ==
    /\ "google" \in ProviderOf[c] /\ p \in PeopleOf[c]
    /\ \E e \in Spelling[p] : Begin(c, "byId", [person |-> p, email |-> e, by |-> "google"], 0)
    /\ UNCHANGED <<accounts, redis, cookie, faults>>

DiscordCallback(c, p) ==
    /\ "discord" \in ProviderOf[c] /\ p \in PeopleOf[c]
    /\ Begin(c, "byId", [person |-> p, email |-> "none", by |-> "discord"], 0)
    /\ UNCHANGED <<accounts, redis, cookie, faults>>

ById(c) ==
    /\ pc[c] = "byId"
    /\ IF FindByProvider(req[c].row) # {} THEN Answer(c)
       ELSE Goto(c, IF HasAddress(req[c].row) THEN "byEmail" ELSE "enroll")
    /\ UNCHANGED <<accounts, redis, cookie, faults>>

\* An account with the address is signed in to; its google_id stays as it is.
ByEmail(c) ==
    /\ pc[c] = "byEmail"
    /\ IF FindUserByEmail(Who(c)) # {} THEN Answer(c) ELSE Goto(c, "enroll")
    /\ UNCHANGED <<accounts, redis, cookie, faults>>

Enroll(c) ==
    /\ pc[c] = "enroll"
    /\ IF Clashes(req[c].row) THEN UNCHANGED accounts ELSE Insert(c)
    /\ Answer(c)
    /\ UNCHANGED <<redis, cookie, faults>>

(* Failures and time.                                                      *)

\* A storage call fails and the request with it.
Fail(c) ==
    /\ pc[c] \notin {"idle", "check", "look", "clean", "byEmail"} /\ Answer(c)
    /\ UNCHANGED <<accounts, redis, cookie, faults>>

\* The error of a read is dropped, as if it had found nothing.
ReadFault(c) ==
    /\ faults < MaxFaults /\ faults' = faults + 1
    /\ \/ pc[c] = "check" /\ Goto(c, "look") /\ UNCHANGED overtook
       \/ pc[c] = "look" /\ Goto(c, "save") /\ UNCHANGED overtook
       \/ /\ pc[c] = "byEmail" /\ Goto(c, "enroll")
          /\ overtook' = overtook \cup {Who(c)}
    /\ UNCHANGED <<users, redis, cookie>>

\* A minute after it was saved a code may be sent again.
CooldownOver(p) ==
    /\ code[p] # NoCode /\ code[p].fresh
    /\ code' = [code EXCEPT ![p].fresh = FALSE]
    /\ UNCHANGED <<accounts, mailed, sent, crossed, cookie, pc, req, faults>>

\* A quarter of an hour after it was saved it is gone.
CodeExpires(p) ==
    /\ code[p] # NoCode /\ ~code[p].fresh
    /\ Forget(p)
    /\ UNCHANGED <<accounts, mailed, cookie, pc, req, faults>>

TokenExpires(c) ==
    /\ pc[c] = "idle" /\ cookie[c] # Nobody
    /\ cookie' = [cookie EXCEPT ![c] = Nobody]
    /\ UNCHANGED <<accounts, redis, pc, req, faults>>

-----------------------------------------------------------------------------
\* A guess, or a code from the mail of somebody who uses the browser.
Known(c) == {0} \cup {n \in DOMAIN mailed : mailed[n] \in PeopleOf[c]}

Arrive(c) ==
    \/ \E p \in Person : InitRegister(c, p) \/ GoogleCallback(c, p) \/ DiscordCallback(c, p)
    \/ ResendEmail(c) \/ StopRegisterSession(c)
    \/ \E typed \in Known(c) : Register(c, typed)

Step(c) ==
    \/ Find(c) \/ CheckResendCooldown(c) \/ Look(c) \/ SaveEmailCode(c)
    \/ Verify(c) \/ Exists(c) \/ CreateUser(c) \/ DelEmailCode(c)
    \/ ById(c) \/ ByEmail(c) \/ Enroll(c)

Next ==
    \/ \E c \in Client : Arrive(c) \/ Step(c) \/ Fail(c) \/ ReadFault(c) \/ TokenExpires(c)
    \/ \E p \in Person : CooldownOver(p) \/ CodeExpires(p)

Spec == Init /\ [][Next]_vars

-----------------------------------------------------------------------------
TypeOK ==
    /\ users \subseteq Row /\ overtook \subseteq Person
    /\ \A p \in Person :
          code[p] = NoCode \/ code[p] \in [value : 1 .. MaxCodes, count : 1 .. MaxCodes,
                                           fresh : BOOLEAN]
    /\ mailed \in Seq(Person) /\ Len(mailed) <= MaxCodes
    /\ sent \in [Person -> 0 .. MaxCodes] /\ crossed \in [Person -> 0 .. MaxCodes]
    /\ cookie \in [Client -> Person \cup {Nobody}]
    /\ pc \in [Client -> {"idle", "find", "check", "look", "save", "verify", "exists",
                          "create", "clean", "byId", "byEmail", "enroll"}]
    /\ req \in [Client -> [row : Row, typed : 0 .. MaxCodes, seen : 0 .. MaxCodes]]
    /\ faults \in 0 .. MaxFaults

\* An address has one account, except that Google may spell it with other
\* than lower-case letters: a sign-in and a registration that overlap, or
\* whose look for the other's account failed unnoticed, then make two.
OneAccountUnlessOvertaken ==
    \A u, v \in users :
        u.person = v.person /\ HasAddress(u) /\ HasAddress(v) /\ u # v =>
            {u.email, v.email} = {"lower", "mixed"} /\ u.person \in overtook

\* Nobody passes Register without having typed a code that was mailed to
\* the very address that is registered, whatever else is under way for it.
CodeProvesAddress ==
    \A c \in Client :
        pc[c] \in {"exists", "create", "clean"} =>
            req[c].typed > 0 /\ mailed[req[c].typed] = Who(c)

\* "maximum verification attempts reached": until the last one expired an
\* address is sent three codes, three more for each error that was dropped,
\* and one more for each that was sent across another.
SendsBounded == \A p \in Person : sent[p] <= 3 * (1 + faults) + crossed[p]
=============================================================================

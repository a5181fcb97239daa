------------------------- MODULE RegistrationProofs -------------------------
(***************************************************************************)
(* What holds of Registration for all browsers, people and bounds: a code  *)
(* proves an address, an address is sent few of them, and has one account  *)
(* unless requests for it overtake each other.                             *)
(***************************************************************************)
EXTENDS Registration, FiniteSetTheorems, SequenceTheorems, WellFoundedInduction, TLAPS

\* The rows of "user" have their types, which few steps touch.
AccountsOK == users \subseteq Row /\ overtook \subseteq Person

USE DEF accounts, AccountsOK

CodeInRedis == [value : 1 .. MaxCodes, count : 1 .. MaxCodes, fresh : BOOLEAN]
Request == [row : Row, typed : 0 .. MaxCodes, seen : 0 .. MaxCodes]
Places == {"idle", "find", "check", "look", "save", "verify", "exists",
           "create", "clean", "byId", "byEmail", "enroll"}

CodeTypeOK == code \in [Person -> CodeInRedis \cup {NoCode}]

\* Numbers are those of mails that were sent, and a code that of a mail to
\* the address it is kept for.
MailOK ==
    /\ \A p \in Person :
          /\ sent[p] <= Len(mailed) /\ crossed[p] <= Len(mailed)
          /\ code[p] # NoCode =>
                /\ code[p].value \in 1 .. Len(mailed) /\ mailed[code[p].value] = p
                /\ code[p].count <= Len(mailed)
    /\ \A c \in Client : req[c].typed <= Len(mailed) /\ req[c].seen <= Len(mailed)

\* What a send reads of the count.
Count(p) == IF code[p] = NoCode THEN 0 ELSE code[p].count

\* The sends that no other one crossed.
Sends(p) == sent[p] - crossed[p]

\* Redis has counted them, but for what errors hid; who is about to send
\* has found them to be two at most, and its own will be on top of them.
SendsOK ==
    /\ \A p \in Person :
          /\ Sends(p) <= Count(p) + 3 * faults
          /\ Sends(p) <= 3 * (1 + faults)
    /\ \A c \in Client :
          /\ pc[c] \in {"look", "save"} => Sends(Who(c)) <= 2 + 3 * faults
          /\ pc[c] = "save" => Sends(Who(c)) <= req[c].seen + 3 * faults

MailInv == TypeOK /\ CodeTypeOK /\ MailOK /\ CodeProvesAddress /\ SendsOK

\* Who is about to make an account for an address has found none, and none
\* was made since but by a request that is known to have overtaken it.
NoneFound(c) ==
    pc[c] \in {"create", "enroll"} /\ HasAddress(req[c].row) =>
        FindUserByEmail(Who(c)) = {} \/ Who(c) \in overtook

RowsInv == OneAccountUnlessOvertaken /\ \A c \in Client : NoneFound(c)

-----------------------------------------------------------------------------
(* A request goes on, and Redis stays as it is.                            *)

LEMMA NoRequestTyped == NoRequest \in Request
<1>1. (CHOOSE p \in Person : TRUE) \in Person
    BY RegistrationAssumption
<1> QED
    BY <1>1, RegistrationAssumption DEF NoRequest, Request, Registered, Row

LEMMA MoveKeeps ==
    ASSUME MailInv, NEW c \in Client, NEW step \in Places, NEW r \in Request,
           pc' = [pc EXCEPT ![c] = step], req' = [req EXCEPT ![c] = r],
           AccountsOK', cookie' \in [Client -> Person \cup {Nobody}],
           UNCHANGED redis, faults' \in faults .. MaxFaults,
           r.typed <= Len(mailed), r.seen <= Len(mailed),
           step \in {"exists", "create", "clean"} =>
               r.typed > 0 /\ mailed[r.typed] = r.row.person,
           step \in {"look", "save"} => Sends(r.row.person) <= 2 + 3 * faults',
           step = "save" => Sends(r.row.person) <= r.seen + 3 * faults'
    PROVE  MailInv'
<1>1. /\ pc \in [Client -> Places] /\ req \in [Client -> Request]
      /\ faults \in Nat /\ faults' \in Nat /\ faults <= faults' /\ faults' <= MaxFaults
      /\ UNCHANGED <<code, mailed, sent, crossed>>
    BY RegistrationAssumption DEF MailInv, TypeOK, Places, Request, redis
<1>2. pc' \in [Client -> Places] /\ req' \in [Client -> Request]
    BY <1>1
<1>3. \A d \in Client \ {c} : pc'[d] = pc[d] /\ req'[d] = req[d]
    BY <1>1
<1>4. pc'[c] = step /\ req'[c] = r
    BY <1>1
<1>5. TypeOK' /\ CodeTypeOK'
    BY <1>1, <1>2, RegistrationAssumption
       DEF MailInv, TypeOK, CodeTypeOK, Places, Request
<1>6. MailOK'
    BY <1>1, <1>3, <1>4 DEF MailInv, MailOK
<1>7. CodeProvesAddress'
    BY <1>1, <1>3, <1>4 DEF MailInv, CodeProvesAddress, Who
<1>8. \A p \in Person : Sends(p)' = Sends(p) /\ Count(p)' = Count(p) /\ Sends(p) \in Int
    BY <1>1 DEF Sends, Count, MailInv, TypeOK
<1>9. SendsOK'
    <2>1. \A p \in Person : /\ Sends(p)' <= Count(p)' + 3 * faults'
                            /\ Sends(p)' <= 3 * (1 + faults')
        <3> SUFFICES ASSUME NEW p \in Person
                     PROVE  /\ Sends(p) <= Count(p) + 3 * faults'
                            /\ Sends(p) <= 3 * (1 + faults')
            BY <1>8
        <3>1. Count(p) \in Nat
            BY DEF Count, MailInv, CodeTypeOK, CodeInRedis
        <3> QED
            BY <1>1, <1>8, <3>1 DEF MailInv, SendsOK
    <2>2. ASSUME NEW d \in Client
          PROVE  /\ pc'[d] \in {"look", "save"} => Sends(Who(d))' <= 2 + 3 * faults'
                 /\ pc'[d] = "save" => Sends(Who(d))' <= req'[d].seen + 3 * faults'
        <3>1. req[d].row.person \in Person /\ r.row.person \in Person
              /\ req[d].seen \in Int
            BY <1>1 DEF Request, Row
        <3>2. CASE d = c
            <4>1. Who(d)' = r.row.person
                BY <1>4, <3>2 DEF Who
            <4>2. Sends(Who(d))' = Sends(r.row.person)
                BY <1>1, <4>1 DEF Sends
            <4> QED
                BY <1>4, <3>2, <4>2
        <3>3. CASE d # c
            <4>1. Sends(Who(d))' = Sends(Who(d)) /\ Sends(Who(d)) \in Int
                BY <1>1, <1>3, <1>8, <3>1, <3>3 DEF Sends, Who
            <4> QED
                BY <1>1, <1>3, <3>1, <3>3, <4>1 DEF MailInv, SendsOK
        <3> QED
            BY <3>2, <3>3
    <2> QED
        BY <2>1, <2>2 DEF SendsOK
<1> QED
    BY <1>5, <1>6, <1>7, <1>9 DEF MailInv

\* A request that is answered, or goes on as it is.
LEMMA GotoKeeps ==
    ASSUME MailInv, NEW c \in Client, NEW step \in Places, Goto(c, step),
           AccountsOK', cookie' \in [Client -> Person \cup {Nobody}],
           UNCHANGED redis, faults' \in faults .. MaxFaults,
           step \in {"exists", "create", "clean"} =>
               req[c].typed > 0 /\ mailed[req[c].typed] = Who(c),
           step \in {"look", "save"} => Sends(Who(c)) <= 2 + 3 * faults',
           step = "save" => Sends(Who(c)) <= req[c].seen + 3 * faults'
    PROVE  MailInv'
<1>1. req[c] \in Request /\ req' = [req EXCEPT ![c] = req[c]]
    BY DEF MailInv, TypeOK, Goto, Request
<1> QED
    BY <1>1, MoveKeeps DEF Goto, Who, MailInv, MailOK

LEMMA AnswerKeeps ==
    ASSUME MailInv, NEW c \in Client, Answer(c),
           AccountsOK', cookie' \in [Client -> Person \cup {Nobody}],
           UNCHANGED redis, faults' \in faults .. MaxFaults
    PROVE  MailInv'
<1>1. NoRequest \in Request /\ NoRequest.typed = 0 /\ NoRequest.seen = 0
    BY NoRequestTyped DEF NoRequest
<1>2. Len(mailed) \in Nat
    BY LenProperties DEF MailInv, TypeOK
<1>3. "idle" \in Places /\ "idle" \notin {"look", "save", "exists", "create", "clean"}
    BY DEF Places
<1>4. NoRequest.typed <= Len(mailed) /\ NoRequest.seen <= Len(mailed)
    BY <1>1, <1>2
<1>5. pc' = [pc EXCEPT ![c] = "idle"] /\ req' = [req EXCEPT ![c] = NoRequest]
    BY DEF Answer
<1> QED
    BY <1>1, <1>3, <1>4, <1>5, MoveKeeps

LEMMA BeginKeeps ==
    ASSUME MailInv, NEW c \in Client, NEW step \in {"find", "check", "verify", "byId"},
           NEW row \in Row, NEW typed \in 0 .. Len(mailed), Begin(c, step, row, typed),
           UNCHANGED <<accounts, redis, cookie, faults>>
    PROVE  MailInv'
<1> DEFINE r == [row |-> row, typed |-> typed, seen |-> 0]
<1>1. Len(mailed) \in Nat /\ Len(mailed) <= MaxCodes
    BY LenProperties DEF MailInv, TypeOK
<1>2. r \in Request
    BY <1>1, RegistrationAssumption DEF Request
<1>3. step \in Places
    BY DEF Places
<1>4. AccountsOK' /\ cookie' \in [Client -> Person \cup {Nobody}]
      /\ faults' \in faults .. MaxFaults
    BY RegistrationAssumption DEF MailInv, TypeOK
<1>5. r.typed <= Len(mailed) /\ r.seen <= Len(mailed)
    BY <1>1
<1>6. pc' = [pc EXCEPT ![c] = step] /\ req' = [req EXCEPT ![c] = r]
    BY DEF Begin
<1> HIDE DEF r
<1> QED
    BY <1>2, <1>3, <1>4, <1>5, <1>6, MoveKeeps

-----------------------------------------------------------------------------
(* The steps of a send.                                                    *)

\* The check lets two sends pass, the third is the one it lets out.
LEMMA CheckKeeps ==
    ASSUME MailInv, NEW c \in Client, CheckResendCooldown(c)
    PROVE  MailInv'
<1>1. /\ AccountsOK' /\ cookie' \in [Client -> Person \cup {Nobody}]
      /\ faults' \in faults .. MaxFaults /\ faults' = faults /\ UNCHANGED redis
    BY RegistrationAssumption DEF MailInv, TypeOK, CheckResendCooldown
<1>2. CASE CoolingDown(Who(c)) /\ Answer(c)
    BY <1>1, <1>2, AnswerKeeps
<1>3. CASE ~CoolingDown(Who(c)) /\ Goto(c, "look")
    <2>1. Who(c) \in Person
        BY DEF MailInv, TypeOK, Who, Row
    <2>2. Count(Who(c)) <= 2 /\ Count(Who(c)) \in Nat
        BY <1>3, <2>1 DEF CoolingDown, Count, MailInv, CodeTypeOK, CodeInRedis
    <2>3. Sends(Who(c)) <= 2 + 3 * faults
        <3>1. faults \in Nat /\ Sends(Who(c)) \in Int
            BY <2>1 DEF MailInv, TypeOK, Sends
        <3> QED
            BY <2>1, <2>2, <3>1 DEF MailInv, SendsOK
    <2>4. "look" \in Places
        BY DEF Places
    <2> QED
        BY <1>1, <1>3, <2>3, <2>4, GotoKeeps
<1> QED
    BY <1>2, <1>3 DEF CheckResendCooldown

LEMMA LookKeeps ==
    ASSUME MailInv, NEW c \in Client, Look(c)
    PROVE  MailInv'
<1> DEFINE r == [req[c] EXCEPT !.seen = Count(Who(c))]
<1>1. /\ AccountsOK' /\ cookie' \in [Client -> Person \cup {Nobody}]
      /\ faults' \in faults .. MaxFaults /\ faults' = faults /\ UNCHANGED redis
      /\ pc[c] = "look" /\ pc' = [pc EXCEPT ![c] = "save"] /\ "save" \in Places
    BY RegistrationAssumption DEF MailInv, TypeOK, Look, Places
<1>2. req[c] \in Request /\ Who(c) \in Person
    BY DEF MailInv, TypeOK, Who, Row, Request
<1>3. Count(Who(c)) \in 0 .. MaxCodes /\ Count(Who(c)) <= Len(mailed)
    <2>1. Len(mailed) \in Nat
        BY LenProperties DEF MailInv, TypeOK
    <2> QED
        BY <1>2, <2>1, RegistrationAssumption
           DEF Count, MailInv, CodeTypeOK, CodeInRedis, MailOK
<1>4. r \in Request /\ r.typed = req[c].typed /\ r.seen = Count(Who(c))
      /\ r.row.person = Who(c)
    BY <1>2, <1>3 DEF Request, Who
<1>5. req' = [req EXCEPT ![c] = r]
    BY <1>2 DEF Look, Count, MailInv, TypeOK, Request
<1>6. r.typed <= Len(mailed)
    BY <1>4 DEF MailInv, MailOK
<1>7. Sends(Who(c)) <= 2 + 3 * faults /\ Sends(Who(c)) <= Count(Who(c)) + 3 * faults
    BY <1>1, <1>2 DEF MailInv, SendsOK
<1> HIDE DEF r
<1> QED
    BY <1>1, <1>3, <1>4, <1>5, <1>6, <1>7, MoveKeeps

\* The mail that is sent is the newest, and the only one with its number.
LEMMA SaveKeeps ==
    ASSUME MailInv, NEW c \in Client, SaveEmailCode(c)
    PROVE  MailInv'
<1> DEFINE n == Len(mailed)
           p == Who(c)
           new == [value |-> n + 1, count |-> req[c].seen + 1, fresh |-> TRUE]
<1>1. /\ mailed \in Seq(Person) /\ n \in Nat /\ req[c] \in Request /\ p \in Person
      /\ n <= MaxCodes /\ code \in [Person -> CodeInRedis \cup {NoCode}]
      /\ pc \in [Client -> Places] /\ req \in [Client -> Request]
      /\ sent \in [Person -> 0 .. MaxCodes] /\ crossed \in [Person -> 0 .. MaxCodes]
      /\ faults \in Nat /\ MaxCodes \in Nat
    BY LenProperties, RegistrationAssumption
       DEF MailInv, TypeOK, CodeTypeOK, Request, Who, Row, Places
<1>2. pc[c] = "save" /\ n < MaxCodes /\ mailed' = Append(mailed, p)
      /\ UNCHANGED <<accounts, cookie, faults>>
    BY DEF SaveEmailCode
<1>3. /\ mailed' \in Seq(Person) /\ Len(mailed') = n + 1 /\ mailed'[n + 1] = p
      /\ \A i \in 1 .. n : mailed'[i] = mailed[i]
    BY <1>1, <1>2, AppendProperties, LenProperties
<1>4. /\ code' = [code EXCEPT ![p] = new] /\ sent' = [sent EXCEPT ![p] = @ + 1]
      /\ crossed' = IF Crossed(c) THEN [crossed EXCEPT ![p] = @ + 1] ELSE crossed
      /\ pc' = [pc EXCEPT ![c] = "idle"] /\ req' = [req EXCEPT ![c] = NoRequest]
    BY <1>3 DEF SaveEmailCode, Answer
<1>5. sent[p] <= n /\ crossed[p] <= n /\ req[c].seen <= n /\ req[c].seen \in Nat
    BY <1>1 DEF MailInv, MailOK, Request
<1>6. new \in CodeInRedis /\ new # NoCode /\ new.value = n + 1
      /\ new.count = req[c].seen + 1
    <2>1. new \in CodeInRedis
        BY <1>1, <1>2, <1>5 DEF CodeInRedis
    <2>2. new \in [value : Nat, count : Nat, fresh : BOOLEAN]
        BY <1>1, <1>5
    <2>3. new # NoCode
        BY <2>2, RegistrationAssumption
    <2> QED
        BY <2>1, <2>3
<1> HIDE DEF n, new
<1>7. NoRequest \in Request /\ NoRequest.typed = 0 /\ NoRequest.seen = 0
    BY NoRequestTyped DEF NoRequest
<1>8. CodeTypeOK'
    BY <1>1, <1>4, <1>6 DEF CodeTypeOK
<1>9. TypeOK'
    <2>1. /\ sent' \in [Person -> 0 .. MaxCodes] /\ crossed' \in [Person -> 0 .. MaxCodes]
        BY <1>1, <1>2, <1>4, <1>5
    <2>2. Len(mailed') <= MaxCodes
        BY <1>1, <1>2, <1>3
    <2>3. \A q \in Person : code'[q] = NoCode \/ code'[q] \in CodeInRedis
        BY <1>8 DEF CodeTypeOK
    <2>4. pc' \in [Client -> Places] /\ req' \in [Client -> Request]
        BY <1>1, <1>4, <1>7 DEF Places
    <2> QED
        BY <1>2, <1>3, <2>1, <2>2, <2>3, <2>4
           DEF MailInv, TypeOK, CodeInRedis, Places, Request
<1>10. \A d \in Client \ {c} : pc'[d] = pc[d] /\ req'[d] = req[d]
    BY <1>1, <1>4
<1>11. pc'[c] = "idle" /\ req'[c] = NoRequest
    BY <1>1, <1>4
<1>12. MailOK'
    <2>1. ASSUME NEW q \in Person
          PROVE  /\ sent'[q] <= n + 1 /\ crossed'[q] <= n + 1
                 /\ code'[q] # NoCode =>
                       /\ code'[q].value \in 1 .. n + 1 /\ mailed'[code'[q].value] = q
                       /\ code'[q].count <= n + 1
        <3>1. sent[q] <= n /\ crossed[q] <= n /\ sent[q] \in Nat /\ crossed[q] \in Nat
            BY <1>1 DEF MailInv, MailOK, n
        <3>2. sent'[q] <= n + 1 /\ crossed'[q] <= n + 1
            BY <1>1, <1>4, <3>1
        <3>3. CASE q = p
            <4>1. code'[q] = new
                BY <1>1, <1>4, <3>3
            <4> QED
                BY <1>1, <1>3, <1>5, <1>6, <3>2, <3>3, <4>1
        <3>4. CASE q # p /\ code[q] # NoCode
            <4>1. code'[q] = code[q]
                BY <1>1, <1>4, <3>4
            <4>2. code[q].value \in 1 .. n /\ mailed[code[q].value] = q /\ code[q].count <= n
                BY <3>4 DEF MailInv, MailOK, n
            <4>3. code[q].count \in Nat
                BY <1>1, <3>4 DEF CodeInRedis
            <4>4. code[q].count <= n + 1
                BY <1>1, <4>2, <4>3
            <4>5. code[q].value \in 1 .. n + 1
                <5>1. n \in Nat
                    BY <1>1
                <5> QED
                    BY <4>2, <5>1
            <4>6. mailed'[code[q].value] = q
                BY <1>3, <4>2
            <4> QED
                BY <3>2, <4>1, <4>4, <4>5, <4>6
        <3>5. CASE q # p /\ code[q] = NoCode
            BY <1>1, <1>4, <3>2, <3>5
        <3> QED
            BY <3>3, <3>4, <3>5
    <2>2. ASSUME NEW d \in Client PROVE req'[d].typed <= n + 1 /\ req'[d].seen <= n + 1
        <3>1. req[d].typed <= n /\ req[d].seen <= n
              /\ req[d].typed \in Nat /\ req[d].seen \in Nat
            BY <1>1 DEF MailInv, MailOK, n, Request
        <3>2. CASE d = c
            BY <1>1, <1>7, <1>11, <3>2
        <3>3. CASE d # c
            BY <1>1, <1>10, <3>1, <3>3
        <3> QED
            BY <3>2, <3>3
    <2> QED
        BY <1>3, <2>1, <2>2 DEF MailOK
<1>13. CodeProvesAddress'
    <2> SUFFICES ASSUME NEW d \in Client, pc'[d] \in {"exists", "create", "clean"}
                 PROVE  req'[d].typed > 0 /\ mailed'[req'[d].typed] = Who(d)'
        BY DEF CodeProvesAddress
    <2>1. d # c /\ pc'[d] = pc[d] /\ req'[d] = req[d] /\ Who(d)' = Who(d)
        BY <1>10, <1>11 DEF Who
    <2>2. req[d].typed > 0 /\ mailed[req[d].typed] = Who(d)
        BY <2>1 DEF MailInv, CodeProvesAddress
    <2>3. req[d].typed \in 1 .. n
        BY <1>1, <2>2 DEF MailInv, MailOK, n, Request
    <2> QED
        BY <1>3, <2>1, <2>2, <2>3
<1>14. SendsOK'
    <2>1. ASSUME NEW q \in Person
          PROVE  /\ Sends(q)' = IF q = p /\ ~Crossed(c) THEN Sends(q) + 1 ELSE Sends(q)
                 /\ Count(q)' = IF q = p THEN req[c].seen + 1 ELSE Count(q)
                 /\ Sends(q) \in Int /\ Count(q) \in Nat
        <3>1. Sends(q) \in Int /\ Count(q) \in Nat
            BY <1>1 DEF Sends, Count, CodeInRedis
        <3>2. Count(q)' = IF q = p THEN req[c].seen + 1 ELSE Count(q)
            BY <1>1, <1>4, <1>6 DEF Count
        <3>3. Sends(q)' = IF q = p /\ ~Crossed(c) THEN Sends(q) + 1 ELSE Sends(q)
            BY <1>1, <1>4 DEF Sends
        <3> QED
            BY <3>1, <3>2, <3>3
    <2>2. /\ Sends(p) <= 2 + 3 * faults /\ Sends(p) <= req[c].seen + 3 * faults
        BY <1>2 DEF MailInv, SendsOK
    <2>3. ASSUME NEW q \in Person
          PROVE  Sends(q)' <= Count(q)' + 3 * faults' /\ Sends(q)' <= 3 * (1 + faults')
        <3>1. Sends(q) <= Count(q) + 3 * faults /\ Sends(q) <= 3 * (1 + faults)
            BY DEF MailInv, SendsOK
        <3>2. CASE q = p
            <4>1. Sends(q)' <= Sends(p) + 1 /\ Count(q)' = req[c].seen + 1
                  /\ Sends(p) \in Int /\ Sends(q)' \in Int
                BY <2>1, <3>2
            <4>2. faults' = faults /\ faults \in Nat /\ req[c].seen \in Nat
                BY <1>1, <1>2, <1>5
            <4>3. Sends(q)' <= req[c].seen + 1 + 3 * faults
                BY <2>2, <4>1, <4>2
            <4>4. Sends(q)' <= 3 * (1 + faults)
                BY <2>2, <4>1, <4>2
            <4> QED
                BY <4>1, <4>2, <4>3, <4>4
        <3>3. CASE q # p
            BY <1>1, <1>2, <2>1, <3>1, <3>3
        <3> QED
            BY <3>2, <3>3
    <2>4. ASSUME NEW d \in Client, pc'[d] \in {"look", "save"}
          PROVE  /\ Sends(Who(d))' <= 2 + 3 * faults'
                 /\ pc'[d] = "save" => Sends(Who(d))' <= req'[d].seen + 3 * faults'
        <3>1. d # c /\ pc'[d] = pc[d] /\ req'[d] = req[d] /\ Who(d)' = Who(d)
              /\ Who(d) \in Person
            BY <1>1, <1>10, <1>11, <2>4 DEF Who, Request, Row
        <3>2. Who(d) = p => Crossed(c)
            BY <2>4, <3>1 DEF Crossed
        <3>3. Sends(Who(d))' = Sends(Who(d))
            <4>1. Sends(Who(d))' = sent'[Who(d)] - crossed'[Who(d)]
                BY <3>1 DEF Sends
            <4>2. \A q \in Person : q # p \/ Crossed(c) =>
                      sent'[q] - crossed'[q] = sent[q] - crossed[q]
                BY <1>1, <1>4
            <4> QED
                BY <3>1, <3>2, <4>1, <4>2 DEF Sends
        <3> QED
            BY <1>2, <2>4, <3>1, <3>3 DEF MailInv, SendsOK
    <2> QED
        BY <2>3, <2>4 DEF SendsOK
<1> QED
    BY <1>8, <1>9, <1>12, <1>13, <1>14 DEF MailInv

-----------------------------------------------------------------------------
(* Time and Register change what Redis keeps of an address.                *)

\* q has the code and the sends it had, or has none.
Kept(q) ==
    \/ /\ sent'[q] = sent[q] /\ crossed'[q] = crossed[q]
       /\ \/ code'[q] = code[q]
          \/ /\ code[q] # NoCode /\ code'[q] # NoCode
             /\ code'[q].value = code[q].value /\ code'[q].count = code[q].count
    \/ sent'[q] = 0 /\ crossed'[q] = 0 /\ code'[q] = NoCode

\* d goes on with its request, or has none.
KeptRequest(d) ==
    (pc'[d] = pc[d] /\ req'[d] = req[d]) \/ (pc'[d] = "idle" /\ req'[d] = NoRequest)

LEMMA KeptKeeps ==
    ASSUME MailInv, code' \in [Person -> CodeInRedis \cup {NoCode}],
           sent' \in [Person -> 0 .. MaxCodes], crossed' \in [Person -> 0 .. MaxCodes],
           pc' \in [Client -> Places], req' \in [Client -> Request],
           UNCHANGED <<accounts, mailed, cookie, faults>>,
           \A q \in Person : Kept(q), \A d \in Client : KeptRequest(d)
    PROVE  MailInv'
<1>1. /\ mailed \in Seq(Person) /\ Len(mailed) \in Nat /\ faults \in Nat
      /\ sent \in [Person -> 0 .. MaxCodes] /\ crossed \in [Person -> 0 .. MaxCodes]
      /\ code \in [Person -> CodeInRedis \cup {NoCode}] /\ req \in [Client -> Request]
    BY LenProperties, RegistrationAssumption DEF MailInv, TypeOK, CodeTypeOK, Request
<1>2. NoRequest \in Request /\ NoRequest.typed = 0 /\ NoRequest.seen = 0
    BY NoRequestTyped DEF NoRequest
<1>3. TypeOK' /\ CodeTypeOK'
    BY <1>1 DEF MailInv, TypeOK, CodeTypeOK, CodeInRedis, Places, Request
<1>4. MailOK'
    <2>1. ASSUME NEW q \in Person
          PROVE  /\ sent'[q] <= Len(mailed') /\ crossed'[q] <= Len(mailed')
                 /\ code'[q] # NoCode =>
                       /\ code'[q].value \in 1 .. Len(mailed') /\ mailed'[code'[q].value] = q
                       /\ code'[q].count <= Len(mailed')
        <3>1. Kept(q) /\ mailed' = mailed
            OBVIOUS
        <3>2. /\ sent[q] <= Len(mailed) /\ crossed[q] <= Len(mailed)
              /\ code[q] # NoCode =>
                    /\ code[q].value \in 1 .. Len(mailed) /\ mailed[code[q].value] = q
                    /\ code[q].count <= Len(mailed)
            BY DEF MailInv, MailOK
        <3>3. CASE sent'[q] = 0 /\ crossed'[q] = 0 /\ code'[q] = NoCode
            BY <1>1, <3>1, <3>3
        <3>4. CASE sent'[q] = sent[q] /\ crossed'[q] = crossed[q] /\ code'[q] = code[q]
            BY <3>1, <3>2, <3>4
        <3>5. CASE /\ sent'[q] = sent[q] /\ crossed'[q] = crossed[q]
                   /\ code[q] # NoCode /\ code'[q] # NoCode
                   /\ code'[q].value = code[q].value /\ code'[q].count = code[q].count
            BY <3>1, <3>2, <3>5
        <3> QED
            BY <3>1, <3>3, <3>4, <3>5 DEF Kept
    <2>2. ASSUME NEW d \in Client
          PROVE  req'[d].typed <= Len(mailed') /\ req'[d].seen <= Len(mailed')
        <3>1. KeptRequest(d)
            OBVIOUS
        <3> QED
            BY <1>1, <1>2, <3>1 DEF MailInv, MailOK, KeptRequest
    <2> QED
        BY <2>1, <2>2 DEF MailOK
<1>5. CodeProvesAddress'
    <2> SUFFICES ASSUME NEW d \in Client, pc'[d] \in {"exists", "create", "clean"}
                 PROVE  req'[d].typed > 0 /\ mailed'[req'[d].typed] = Who(d)'
        BY DEF CodeProvesAddress
    <2>1. pc'[d] = pc[d] /\ req'[d] = req[d]
        BY DEF KeptRequest
    <2> QED
        BY <2>1 DEF MailInv, CodeProvesAddress, Who
<1>6. ASSUME NEW q \in Person
      PROVE  /\ Sends(q)' \in Int /\ Sends(q) \in Int
             /\ Sends(q)' <= 0 \/ Sends(q)' = Sends(q)
             /\ Sends(q)' <= Count(q)' + 3 * faults
    <2>1. Sends(q) <= Count(q) + 3 * faults
        BY DEF MailInv, SendsOK
    <2>2. /\ Sends(q)' \in Int /\ Sends(q) \in Int
        BY <1>1 DEF Sends
    <2>3. CASE /\ sent'[q] = sent[q] /\ crossed'[q] = crossed[q]
               /\ \/ code'[q] = code[q]
                  \/ /\ code[q] # NoCode /\ code'[q] # NoCode
                     /\ code'[q].value = code[q].value /\ code'[q].count = code[q].count
        <3>1. Sends(q)' = Sends(q) /\ Count(q)' = Count(q)
            BY <2>3 DEF Sends, Count
        <3> QED
            BY <2>1, <2>2, <3>1
    <2>4. CASE sent'[q] = 0 /\ crossed'[q] = 0 /\ code'[q] = NoCode
        <3>1. Sends(q)' = 0 /\ Count(q)' = 0
            BY <2>4 DEF Sends, Count
        <3> QED
            BY <1>1, <2>2, <3>1
    <2>5. Kept(q)
        OBVIOUS
    <2> QED
        BY <2>3, <2>4, <2>5 DEF Kept
<1>7. SendsOK'
    <2>1. ASSUME NEW q \in Person
          PROVE  Sends(q)' <= Count(q)' + 3 * faults' /\ Sends(q)' <= 3 * (1 + faults')
        <3>1. Sends(q) <= 3 * (1 + faults)
            BY DEF MailInv, SendsOK
        <3>2. Sends(q)' \in Int /\ Sends(q) \in Int /\ faults' = faults
              /\ (Sends(q)' <= 0 \/ Sends(q)' = Sends(q))
            BY <1>6
        <3>3. Sends(q)' <= 3 * (1 + faults)
            BY <1>1, <3>1, <3>2
        <3> QED
            BY <1>6, <3>2, <3>3
    <2>2. ASSUME NEW d \in Client, pc'[d] \in {"look", "save"}
          PROVE  /\ Sends(Who(d))' <= 2 + 3 * faults'
                 /\ pc'[d] = "save" => Sends(Who(d))' <= req'[d].seen + 3 * faults'
        <3>1. pc'[d] = pc[d] /\ req'[d] = req[d] /\ req[d] \in Request
            BY <1>1, <2>2 DEF KeptRequest
        <3>2. Who(d)' = Who(d) /\ Who(d) \in Person /\ req[d].seen \in Nat
            BY <3>1 DEF Who, Request, Row
        <3>3. Sends(Who(d))' <= 0 \/ Sends(Who(d))' = Sends(Who(d))
            <4>1. \A q \in Person : LET s == sent'[q] - crossed'[q]
                                   IN  s <= 0 \/ s = Sends(q)
                BY <1>6 DEF Sends
            <4> QED
                BY <3>2, <4>1 DEF Sends
        <3>4. Sends(Who(d)) \in Int /\ Sends(Who(d))' \in Int
            BY <1>1, <3>2 DEF Sends
        <3>5. /\ Sends(Who(d)) <= 2 + 3 * faults
              /\ pc[d] = "save" => Sends(Who(d)) <= req[d].seen + 3 * faults
            BY <2>2, <3>1 DEF MailInv, SendsOK
        <3>6. CASE Sends(Who(d))' <= 0
            BY <1>1, <3>1, <3>2, <3>4, <3>6
        <3>7. CASE Sends(Who(d))' = Sends(Who(d))
            BY <3>1, <3>5, <3>7
        <3> QED
            BY <3>3, <3>6, <3>7
    <2> QED
        BY <2>1, <2>2 DEF SendsOK
<1> QED
    BY <1>3, <1>4, <1>5, <1>7 DEF MailInv

LEMMA ForgetKeeps ==
    ASSUME MailInv, NEW p \in Person, Forget(p) \/ UNCHANGED <<code, sent, crossed>>,
           UNCHANGED <<accounts, mailed, cookie, faults>>,
           UNCHANGED <<pc, req>> \/ (\E c \in Client : Answer(c))
    PROVE  MailInv'
<1>1. /\ sent \in [Person -> 0 .. MaxCodes] /\ crossed \in [Person -> 0 .. MaxCodes]
      /\ code \in [Person -> CodeInRedis \cup {NoCode}] /\ req \in [Client -> Request]
      /\ pc \in [Client -> Places] /\ MaxCodes \in Nat
    BY RegistrationAssumption DEF MailInv, TypeOK, CodeTypeOK, Request, Places
<1>2. /\ code' \in [Person -> CodeInRedis \cup {NoCode}]
      /\ sent' \in [Person -> 0 .. MaxCodes] /\ crossed' \in [Person -> 0 .. MaxCodes]
      /\ \A q \in Person : Kept(q)
    BY <1>1 DEF Forget, Kept
<1>3. /\ pc' \in [Client -> Places] /\ req' \in [Client -> Request]
      /\ \A d \in Client : KeptRequest(d)
    BY <1>1, NoRequestTyped DEF Answer, KeptRequest, Places
<1> QED
    BY <1>2, <1>3, KeptKeeps

LEMMA CooldownKeeps ==
    ASSUME MailInv, NEW p \in Person, CooldownOver(p)
    PROVE  MailInv'
<1>1. /\ code \in [Person -> CodeInRedis \cup {NoCode}] /\ req \in [Client -> Request]
      /\ pc \in [Client -> Places]
      /\ sent \in [Person -> 0 .. MaxCodes] /\ crossed \in [Person -> 0 .. MaxCodes]
    BY DEF MailInv, TypeOK, CodeTypeOK, Request, Places
<1>2. /\ code[p] # NoCode /\ code' = [code EXCEPT ![p].fresh = FALSE]
      /\ UNCHANGED <<accounts, mailed, sent, crossed, cookie, pc, req, faults>>
    BY DEF CooldownOver
<1>3. code[p] \in CodeInRedis
    BY <1>1, <1>2
<1>4. /\ code'[p] = [code[p] EXCEPT !.fresh = FALSE]
      /\ \A q \in Person \ {p} : code'[q] = code[q]
    BY <1>1, <1>2
<1>5. /\ code'[p] \in CodeInRedis /\ code'[p].value = code[p].value
      /\ code'[p].count = code[p].count
    BY <1>3, <1>4 DEF CodeInRedis
<1>6. code'[p] # NoCode
    <2>1. code'[p] \in [value : Nat, count : Nat, fresh : BOOLEAN]
        BY <1>5, RegistrationAssumption DEF CodeInRedis
    <2> QED
        BY <2>1, RegistrationAssumption
<1>7. code' \in [Person -> CodeInRedis \cup {NoCode}]
    BY <1>1, <1>2, <1>4, <1>5
<1>8. \A q \in Person : Kept(q)
    BY <1>2, <1>4, <1>5, <1>6 DEF Kept
<1>9. \A d \in Client : KeptRequest(d)
    BY <1>2 DEF KeptRequest
<1> QED
    BY <1>1, <1>2, <1>7, <1>8, <1>9, KeptKeeps

-----------------------------------------------------------------------------
(* All steps.                                                              *)

LEMMA ArriveKeeps ==
    ASSUME MailInv, NEW c \in Client, Arrive(c)
    PROVE  MailInv'
<1>1. /\ cookie \in [Client -> Person \cup {Nobody}] /\ AccountsOK
      /\ faults \in faults .. MaxFaults /\ Len(mailed) \in Nat
    BY LenProperties, RegistrationAssumption DEF MailInv, TypeOK
<1>2. \A p \in Person : Registered(p) \in Row
    BY DEF Registered, Row
<1>3. ASSUME NEW p \in Person, InitRegister(c, p) PROVE MailInv'
    BY <1>1, <1>2, <1>3, BeginKeeps DEF InitRegister
<1>4. ASSUME NEW p \in Person, GoogleCallback(c, p) PROVE MailInv'
    <2>1. PICK e \in Spelling[p] : Begin(c, "byId", [person |-> p, email |-> e, by |-> "google"], 0)
        BY <1>4 DEF GoogleCallback
    <2>2. [person |-> p, email |-> e, by |-> "google"] \in Row
        BY RegistrationAssumption DEF Row
    <2> QED
        BY <1>1, <1>4, <2>1, <2>2, BeginKeeps DEF GoogleCallback
<1>5. ASSUME NEW p \in Person, DiscordCallback(c, p) PROVE MailInv'
    <2>1. [person |-> p, email |-> "none", by |-> "discord"] \in Row
        BY DEF Row
    <2> QED
        BY <1>1, <1>5, <2>1, BeginKeeps DEF DiscordCallback
<1>6. CASE ResendEmail(c)
    BY <1>1, <1>2, <1>6, BeginKeeps DEF ResendEmail
<1>7. ASSUME NEW typed \in Known(c), Register(c, typed) PROVE MailInv'
    <2>1. typed \in 0 .. Len(mailed)
        <3>1. DOMAIN mailed = 1 .. Len(mailed)
            BY LenProperties DEF MailInv, TypeOK
        <3> QED
            BY <1>1, <3>1 DEF Known
    <2> QED
        BY <1>1, <1>2, <1>7, <2>1, BeginKeeps DEF Register
<1>8. CASE StopRegisterSession(c)
    <2>1. cookie' \in [Client -> Person \cup {Nobody}]
        BY <1>1, <1>8 DEF StopRegisterSession
    <2> QED
        BY <1>8, <2>1 DEF StopRegisterSession, MailInv, TypeOK, CodeTypeOK, MailOK,
           CodeProvesAddress, SendsOK, Sends, Count, Who, redis
<1> QED
    BY <1>3, <1>4, <1>5, <1>6, <1>7, <1>8 DEF Arrive

LEMMA StepKeeps ==
    ASSUME MailInv, NEW c \in Client, Step(c)
    PROVE  MailInv'
<1>1. /\ cookie \in [Client -> Person \cup {Nobody}] /\ AccountsOK
      /\ faults \in faults .. MaxFaults /\ req[c] \in Request /\ Who(c) \in Person
    BY RegistrationAssumption DEF MailInv, TypeOK, Request, Who, Row
<1>2. Places = {"idle", "find", "check", "look", "save", "verify", "exists",
                "create", "clean", "byId", "byEmail", "enroll"}
    BY DEF Places
<1>3. CASE Find(c)
    <2>1. cookie' \in [Client -> Person \cup {Nobody}]
        BY <1>1, <1>3 DEF Find
    <2> QED
        BY <1>1, <1>2, <1>3, <2>1, GotoKeeps, AnswerKeeps DEF Find
<1>4. CASE Verify(c)
    <2>1. CASE code[Who(c)] # NoCode /\ code[Who(c)].value = req[c].typed /\ Goto(c, "exists")
        <3>1. req[c].typed \in 1 .. Len(mailed) /\ mailed[req[c].typed] = Who(c)
            BY <1>1, <2>1 DEF MailInv, MailOK
        <3> QED
            BY <1>1, <1>2, <1>4, <2>1, <3>1, GotoKeeps DEF Verify
    <2>2. CASE Answer(c)
        BY <1>1, <1>4, <2>2, AnswerKeeps DEF Verify
    <2> QED
        BY <1>4, <2>1, <2>2 DEF Verify
<1>5. CASE Exists(c)
    <2>1. req[c].typed > 0 /\ mailed[req[c].typed] = Who(c)
        BY <1>5 DEF Exists, MailInv, CodeProvesAddress
    <2> QED
        BY <1>1, <1>2, <1>5, <2>1, GotoKeeps, AnswerKeeps DEF Exists
<1>6. CASE CreateUser(c)
    <2>1. req[c].typed > 0 /\ mailed[req[c].typed] = Who(c)
        BY <1>6 DEF CreateUser, MailInv, CodeProvesAddress
    <2>2. AccountsOK' /\ cookie' \in [Client -> Person \cup {Nobody}]
        <3>1. CASE UNCHANGED <<accounts, cookie>>
            BY <1>1, <3>1
        <3>2. CASE Insert(c) /\ cookie' = [cookie EXCEPT ![c] = Nobody]
            BY <1>1, <3>2 DEF Insert, Request
        <3> QED
            BY <1>6, <3>1, <3>2 DEF CreateUser
    <2>3. faults' \in faults .. MaxFaults /\ UNCHANGED redis
        BY <1>1, <1>6 DEF CreateUser
    <2>4. CASE Answer(c)
        BY <2>2, <2>3, <2>4, AnswerKeeps
    <2>5. CASE Goto(c, "clean")
        BY <1>2, <2>1, <2>2, <2>3, <2>5, GotoKeeps
    <2> QED
        BY <1>6, <2>4, <2>5 DEF CreateUser
<1>7. CASE DelEmailCode(c)
    BY <1>1, <1>7, ForgetKeeps DEF DelEmailCode
<1>8. CASE ById(c)
    <2>1. /\ AccountsOK' /\ cookie' \in [Client -> Person \cup {Nobody}]
          /\ faults' \in faults .. MaxFaults /\ UNCHANGED redis
        BY <1>1, <1>8 DEF ById
    <2>2. Answer(c) \/ Goto(c, "byEmail") \/ Goto(c, "enroll")
        BY <1>8 DEF ById
    <2> QED
        BY <1>2, <2>1, <2>2, GotoKeeps, AnswerKeeps
<1>9. CASE ByEmail(c)
    BY <1>1, <1>2, <1>9, GotoKeeps, AnswerKeeps DEF ByEmail
<1>10. CASE Enroll(c)
    <2>1. AccountsOK'
        BY <1>1, <1>10 DEF Enroll, Insert, Request
    <2> QED
        BY <1>1, <1>10, <2>1, AnswerKeeps DEF Enroll
<1> QED
    BY <1>3, <1>4, <1>5, <1>6, <1>7, <1>8, <1>9, <1>10, CheckKeeps, LookKeeps, SaveKeeps
       DEF Step

\* An error that is dropped is paid for with three sends more.
LEMMA FailureKeeps ==
    ASSUME MailInv, NEW c \in Client, Fail(c) \/ ReadFault(c) \/ TokenExpires(c)
    PROVE  MailInv'
<1>1. /\ cookie \in [Client -> Person \cup {Nobody}] /\ AccountsOK
      /\ faults \in Nat /\ MaxFaults \in Nat /\ faults <= MaxFaults
      /\ req[c] \in Request /\ Who(c) \in Person
    BY RegistrationAssumption DEF MailInv, TypeOK, Request, Who, Row
<1>2. CASE Fail(c)
    <2>1. /\ AccountsOK' /\ cookie' \in [Client -> Person \cup {Nobody}]
          /\ faults' \in faults .. MaxFaults /\ UNCHANGED redis /\ Answer(c)
        BY <1>1, <1>2 DEF Fail
    <2> QED
        BY <2>1, AnswerKeeps
<1>3. CASE ReadFault(c)
    <2>1. /\ AccountsOK' /\ cookie' \in [Client -> Person \cup {Nobody}]
          /\ faults' \in faults .. MaxFaults /\ faults' = faults + 1 /\ UNCHANGED redis
        BY <1>1, <1>3 DEF ReadFault
    <2>2. /\ Sends(Who(c)) \in Int /\ req[c].seen \in Nat
          /\ Sends(Who(c)) <= 3 * (1 + faults)
        <3>1. sent[Who(c)] \in Int /\ crossed[Who(c)] \in Int
            BY <1>1 DEF MailInv, TypeOK
        <3> QED
            BY <1>1, <3>1 DEF MailInv, SendsOK, Sends, Request
    <2>3. /\ Sends(Who(c)) <= 2 + 3 * faults' /\ Sends(Who(c)) <= req[c].seen + 3 * faults'
        BY <1>1, <2>1, <2>2
    <2>4. {"look", "save", "enroll"} \subseteq Places
        BY DEF Places
    <2>5. Goto(c, "look") \/ Goto(c, "save") \/ Goto(c, "enroll")
        BY <1>3 DEF ReadFault
    <2> QED
        BY <2>1, <2>3, <2>4, <2>5, GotoKeeps
<1>4. CASE TokenExpires(c)
    <2>1. cookie' \in [Client -> Person \cup {Nobody}]
        BY <1>1, <1>4 DEF TokenExpires
    <2> QED
        BY <1>4, <2>1 DEF TokenExpires, MailInv, TypeOK, CodeTypeOK, MailOK,
           CodeProvesAddress, SendsOK, Sends, Count, Who, redis
<1> QED
    BY <1>2, <1>3, <1>4

\* Among the mails to somebody there is a last one.
LEMMA LastOne ==
    ASSUME NEW n \in Nat, NEW S \in SUBSET (1 .. n), S # {}
    PROVE  \E last \in S : \A m \in S : m <= last
<1> DEFINE T == {n - m : m \in S}
<1>1. T \in SUBSET Nat /\ T # {}
    <2>1. \A m \in S : m \in 1 .. n /\ n - m \in Nat
        OBVIOUS
    <2> QED
        BY <2>1
<1>2. PICK x \in T : \A y \in T : ~ (<<y, x>> \in OpToRel(<, Nat))
    BY <1>1, NatLessThanWellFounded, WFMin
<1>3. \A y \in T : ~ (y < x)
    BY <1>1, <1>2 DEF OpToRel
<1>4. PICK last \in S : x = n - last
    OBVIOUS
<1>5. ASSUME NEW m \in S PROVE m <= last
    <2>1. ~ (n - m < n - last)
        BY <1>3, <1>4
    <2>2. m \in 1 .. n /\ last \in 1 .. n
        OBVIOUS
    <2> QED
        BY <2>1, <2>2
<1> QED
    BY <1>5

LEMMA MailInit == Init => MailInv
<1> SUFFICES ASSUME Init PROVE MailInv
    OBVIOUS
<1> DEFINE n == Len(Before)
<1>1. /\ mailed = Before /\ Before \in Seq(Person) /\ n \in Nat /\ n <= MaxCodes
      /\ DOMAIN Before = 1 .. n /\ MaxCodes \in Nat /\ MaxFaults \in Nat
      /\ Len(mailed) = n
    BY LenProperties, RegistrationAssumption DEF Init
<1> HIDE DEF n
<1>2. /\ users = Members /\ overtook = {} /\ crossed = [p \in Person |-> 0] /\ faults = 0
      /\ cookie = [c \in Client |-> Nobody] /\ pc = [c \in Client |-> "idle"]
      /\ req = [c \in Client |-> NoRequest]
      /\ sent = [p \in Person |-> Cardinality(SentTo(p))]
    BY DEF Init
<1>3. ASSUME NEW p \in Person
      PROVE  /\ IsFiniteSet(SentTo(p)) /\ SentTo(p) \subseteq 1 .. n
             /\ Cardinality(SentTo(p)) \in 0 .. 3 /\ Cardinality(SentTo(p)) <= n
             /\ SentTo(p) = {} <=> Cardinality(SentTo(p)) = 0
    <2>1. SentTo(p) \subseteq 1 .. n
        BY <1>1 DEF SentTo
    <2>2. IsFiniteSet(1 .. n) /\ Cardinality(1 .. n) = n
        BY <1>1, FS_Interval
    <2>3. IsFiniteSet(SentTo(p)) /\ Cardinality(SentTo(p)) <= n
        BY <2>1, <2>2, FS_Subset
    <2>4. Cardinality(SentTo(p)) <= 3
        BY RegistrationAssumption DEF SentTo
    <2> QED
        BY <2>1, <2>3, <2>4, FS_CardinalityType, FS_EmptySet
<1>4. ASSUME NEW p \in Person
      PROVE  /\ SentTo(p) = {} => code[p] = NoCode
             /\ SentTo(p) # {} =>
                   /\ code[p] \in CodeInRedis /\ code[p] # NoCode
                   /\ code[p].value \in SentTo(p) /\ code[p].count = Cardinality(SentTo(p))
    <2> DEFINE last == CHOOSE k \in SentTo(p) : \A m \in SentTo(p) : m <= k
    <2>1. code[p] = IF SentTo(p) = {} THEN NoCode
                    ELSE [value |-> last, count |-> sent[p], fresh |-> FALSE]
        BY DEF Init
    <2>2. CASE SentTo(p) # {}
        <3>1. \E k \in SentTo(p) : \A m \in SentTo(p) : m <= k
            BY <1>1, <1>3, <2>2, LastOne
        <3>2. last \in SentTo(p)
            BY <3>1
        <3> HIDE DEF last
        <3>3. last \in 1 .. n /\ sent[p] \in 1 .. n /\ sent[p] = Cardinality(SentTo(p))
            <4>1. sent[p] = Cardinality(SentTo(p))
                BY <1>2
            <4> QED
                BY <1>1, <1>3, <2>2, <3>2, <4>1
        <3>4. code[p] = [value |-> last, count |-> sent[p], fresh |-> FALSE]
            BY <2>1, <2>2
        <3>5. code[p] \in CodeInRedis /\ code[p] \in [value : Nat, count : Nat, fresh : BOOLEAN]
            BY <1>1, <3>3, <3>4 DEF CodeInRedis
        <3>6. code[p] # NoCode
            BY <3>5, RegistrationAssumption
        <3>7. code[p].value = last /\ code[p].count = sent[p]
            BY <3>4
        <3> QED
            BY <2>2, <3>2, <3>3, <3>5, <3>6, <3>7
    <2> QED
        BY <2>1, <2>2
<1>5. CodeTypeOK
    <2>1. code = [p \in Person |-> code[p]]
        BY DEF Init
    <2> QED
        BY <1>4, <2>1 DEF CodeTypeOK
<1>6. NoRequest \in Request /\ NoRequest.typed = 0 /\ NoRequest.seen = 0
    BY NoRequestTyped DEF NoRequest
<1>7. TypeOK
    <2>1. sent \in [Person -> 0 .. MaxCodes]
        BY <1>1, <1>2, <1>3
    <2>2. req \in [Client -> Request]
        BY <1>2, <1>6
    <2> QED
        BY <1>1, <1>2, <1>5, <2>1, <2>2, MembersAssumption
           DEF TypeOK, CodeTypeOK, CodeInRedis, Request
<1>8. MailOK
    <2>1. \A c \in Client : req[c].typed <= Len(mailed) /\ req[c].seen <= Len(mailed)
        BY <1>1, <1>2, <1>6
    <2>2. \A p \in Person : sent[p] <= Len(mailed) /\ crossed[p] <= Len(mailed)
        BY <1>1, <1>2, <1>3
    <2>3. ASSUME NEW p \in Person, code[p] # NoCode
          PROVE  /\ code[p].value \in 1 .. Len(mailed) /\ mailed[code[p].value] = p
                 /\ code[p].count <= Len(mailed)
        <3>1. code[p].value \in SentTo(p) /\ code[p].count = Cardinality(SentTo(p))
            BY <1>4, <2>3
        <3> QED
            BY <1>1, <1>3, <3>1 DEF SentTo
    <2> QED
        BY <2>1, <2>2, <2>3 DEF MailOK
<1>9. CodeProvesAddress
    BY <1>2 DEF CodeProvesAddress
<1>10. SendsOK
    <2>1. ASSUME NEW p \in Person PROVE Sends(p) = Count(p) /\ Sends(p) \in 0 .. 3
        BY <1>2, <1>3, <1>4 DEF Sends, Count
    <2> QED
        BY <1>2, <2>1 DEF SendsOK
<1> QED
    BY <1>5, <1>7, <1>8, <1>9, <1>10 DEF MailInv

LEMMA MailStep ==
    ASSUME MailInv, [Next]_vars
    PROVE  MailInv'
<1>1. ASSUME NEW p \in Person, CodeExpires(p) PROVE MailInv'
    BY <1>1, ForgetKeeps DEF CodeExpires
<1>2. CASE UNCHANGED vars
    BY <1>2 DEF vars, redis, MailInv, TypeOK, CodeTypeOK, MailOK, CodeProvesAddress,
                SendsOK, Sends, Count, Who
<1> QED
    BY <1>1, <1>2, ArriveKeeps, StepKeeps, FailureKeeps, CooldownKeeps DEF Next

-----------------------------------------------------------------------------
(* The rows of "user".                                                     *)

\* No row is inserted, and at most one request moves on.
LEMMA RowsStay ==
    ASSUME RowsInv, NEW c \in Client, UNCHANGED users, overtook \subseteq overtook',
           \A d \in Client \ {c} : pc'[d] = pc[d] /\ req'[d] = req[d],
           pc'[c] \in {"create", "enroll"} /\ HasAddress(req'[c].row) =>
               FindUserByEmail(req'[c].row.person) = {} \/ req'[c].row.person \in overtook'
    PROVE  RowsInv'
<1>1. OneAccountUnlessOvertaken'
    BY DEF RowsInv, OneAccountUnlessOvertaken
<1>2. \A p : FindUserByEmail(p)' = FindUserByEmail(p)
    BY DEF FindUserByEmail
<1>3. ASSUME NEW d \in Client PROVE NoneFound(d)'
    <2>1. CASE d = c
        BY <1>2, <2>1 DEF NoneFound, Who
    <2>2. CASE d # c
        <3>1. pc'[d] = pc[d] /\ req'[d] = req[d] /\ NoneFound(d) /\ Who(d)' = Who(d)
            BY <2>2 DEF RowsInv, Who
        <3> QED
            BY <1>2, <3>1 DEF NoneFound
    <2> QED
        BY <2>1, <2>2
<1> QED
    BY <1>1, <1>3 DEF RowsInv

\* Who inserts a row has found no other of the address, or the address is
\* one of those overtaken; from now on these are all who found none either.
LEMMA InsertKeeps ==
    ASSUME MailInv, RowsInv, NEW c \in Client, pc[c] \in {"create", "enroll"},
           ~Clashes(req[c].row), Insert(c),
           pc'[c] \notin {"create", "enroll"},
           \A d \in Client \ {c} : pc'[d] = pc[d] /\ req'[d] = req[d]
    PROVE  RowsInv'
<1> DEFINE row == req[c].row
<1>1. row \in Row /\ users \subseteq Row /\ row.person = Who(c)
    BY DEF MailInv, TypeOK, Who
<1>2. users' = users \cup {row} /\ overtook \subseteq overtook'
    BY DEF Insert
<1>3. \A u \in users : ~SameEmail(u, row)
    BY DEF Clashes
<1>4. ASSUME NEW u \in users, u.person = row.person, HasAddress(u), HasAddress(row)
      PROVE  {u.email, row.email} = {"lower", "mixed"} /\ u.person \in overtook'
    <2>1. u.email # row.email
        BY <1>3, <1>4 DEF SameEmail
    <2>2. {u.email, row.email} = {"lower", "mixed"}
        BY <1>4, <2>1 DEF HasAddress
    <2>3. u \in FindUserByEmail(Who(c))
        BY <1>1, <1>4 DEF FindUserByEmail
    <2>4. Who(c) \in overtook
        BY <1>4, <2>3 DEF RowsInv, NoneFound
    <2> QED
        BY <1>1, <1>2, <1>4, <2>2, <2>4
<1> HIDE DEF row
<1>5. OneAccountUnlessOvertaken'
    <2> SUFFICES ASSUME NEW u \in users', NEW v \in users', u.person = v.person,
                        HasAddress(u), HasAddress(v), u # v
                 PROVE  {u.email, v.email} = {"lower", "mixed"} /\ u.person \in overtook'
        BY DEF OneAccountUnlessOvertaken
    <2>1. CASE u \in users /\ v \in users
        BY <1>2, <2>1 DEF RowsInv, OneAccountUnlessOvertaken
    <2>2. CASE u \in users /\ v = row
        BY <1>4, <2>2
    <2>3. CASE u = row /\ v \in users
        <3>1. {v.email, u.email} = {"lower", "mixed"} /\ v.person \in overtook'
            BY <1>4, <2>3
        <3> QED
            BY <3>1
    <2> QED
        BY <1>2, <2>1, <2>2, <2>3
<1>6. ASSUME NEW d \in Client PROVE NoneFound(d)'
    <2>1. CASE d = c
        BY <2>1 DEF NoneFound
    <2>2. CASE d # c
        <3>1. pc'[d] = pc[d] /\ req'[d] = req[d] /\ NoneFound(d) /\ Who(d)' = Who(d)
            BY <2>2 DEF RowsInv, Who
        <3> SUFFICES ASSUME pc[d] \in {"create", "enroll"}, HasAddress(req[d].row),
                            Who(d) \notin overtook'
                     PROVE  FindUserByEmail(Who(d))' = {}
            BY <3>1 DEF NoneFound
        <3>2. FindUserByEmail(Who(d)) = {}
            BY <1>2, <3>1 DEF NoneFound
        <3>3. ~(HasAddress(row) /\ Who(d) = Who(c))
            <4> SUFFICES ASSUME HasAddress(row), Who(d) = Who(c) PROVE FALSE
                OBVIOUS
            <4>1. Overtakes(c)
                BY <2>2 DEF Overtakes, row
            <4> QED
                BY <4>1 DEF Insert
        <3>4. \A u \in users' : ~(u.person = Who(d) /\ HasAddress(u))
            BY <1>1, <1>2, <3>2, <3>3 DEF FindUserByEmail
        <3> QED
            BY <3>1, <3>4 DEF FindUserByEmail
    <2> QED
        BY <2>1, <2>2
<1> QED
    BY <1>5, <1>6 DEF RowsInv

\* What a request does to the others.
LEMMA OneMoves ==
    ASSUME MailInv, NEW c \in Client
    PROVE  /\ \A step : Goto(c, step) =>
                 /\ pc'[c] = step /\ req'[c] = req[c]
                 /\ \A d \in Client \ {c} : pc'[d] = pc[d] /\ req'[d] = req[d]
           /\ Answer(c) =>
                 /\ pc'[c] = "idle"
                 /\ \A d \in Client \ {c} : pc'[d] = pc[d] /\ req'[d] = req[d]
           /\ \A step, row, typed : Begin(c, step, row, typed) =>
                 /\ pc'[c] = step
                 /\ \A d \in Client \ {c} : pc'[d] = pc[d] /\ req'[d] = req[d]
BY DEF MailInv, TypeOK, Goto, Answer, Begin

LEMMA RowsStep ==
    ASSUME MailInv, RowsInv, [Next]_vars
    PROVE  RowsInv'
<1>1. ASSUME NEW c \in Client, Arrive(c) PROVE RowsInv'
    <2>1. UNCHANGED accounts
        BY <1>1 DEF Arrive, InitRegister, GoogleCallback, DiscordCallback, ResendEmail,
                    StopRegisterSession, Register
    <2>2. CASE StopRegisterSession(c)
        <3>1. UNCHANGED <<pc, req>>
            BY <2>2 DEF StopRegisterSession
        <3>2. NoneFound(c)
            BY DEF RowsInv
        <3> QED
            BY <2>1, <3>1, <3>2, RowsStay DEF NoneFound, Who
    <2>3. CASE ~StopRegisterSession(c)
        <3>1. \E step \in {"find", "check", "verify", "byId"} : \E row, typed :
                  Begin(c, step, row, typed)
            <4>1. CASE \E p \in Person : InitRegister(c, p)
                BY <4>1 DEF InitRegister
            <4>2. CASE \E p \in Person : GoogleCallback(c, p)
                BY <4>2 DEF GoogleCallback
            <4>3. CASE \E p \in Person : DiscordCallback(c, p)
                BY <4>3 DEF DiscordCallback
            <4>4. CASE ResendEmail(c)
                BY <4>4 DEF ResendEmail
            <4>5. CASE \E typed \in Known(c) : Register(c, typed)
                BY <4>5 DEF Register
            <4> QED
                BY <1>1, <2>3, <4>1, <4>2, <4>3, <4>4, <4>5 DEF Arrive
        <3>2. /\ pc'[c] \notin {"create", "enroll"}
              /\ \A d \in Client \ {c} : pc'[d] = pc[d] /\ req'[d] = req[d]
            BY <3>1, OneMoves
        <3> QED
            BY <2>1, <3>2, RowsStay
    <2> QED
        BY <2>2, <2>3
<1>2. ASSUME NEW c \in Client, Find(c) \/ CheckResendCooldown(c) \/ Verify(c) \/ DelEmailCode(c)
      PROVE  RowsInv'
    <2>1. UNCHANGED accounts
        BY <1>2 DEF Find, CheckResendCooldown, Verify, DelEmailCode
    <2>2. Answer(c) \/ \E step \in {"check", "look", "exists"} : Goto(c, step)
        BY <1>2 DEF Find, CheckResendCooldown, Verify, DelEmailCode
    <2>3. /\ pc'[c] \notin {"create", "enroll"}
          /\ \A d \in Client \ {c} : pc'[d] = pc[d] /\ req'[d] = req[d]
        BY <2>2, OneMoves
    <2> QED
        BY <2>1, <2>3, RowsStay
<1>3. ASSUME NEW c \in Client, Look(c) \/ SaveEmailCode(c) PROVE RowsInv'
    <2>1. UNCHANGED accounts
        BY <1>3 DEF Look, SaveEmailCode
    <2>2. /\ pc'[c] \in {"save", "idle"}
          /\ \A d \in Client \ {c} : pc'[d] = pc[d] /\ req'[d] = req[d]
        BY <1>3 DEF Look, SaveEmailCode, Answer, MailInv, TypeOK
    <2> QED
        BY <2>1, <2>2, RowsStay
<1>4. ASSUME NEW c \in Client, Exists(c) \/ ByEmail(c) PROVE RowsInv'
    <2>1. UNCHANGED accounts
        BY <1>4 DEF Exists, ByEmail
    <2>2. Answer(c) \/ (FindUserByEmail(Who(c)) = {} /\ \E step : Goto(c, step))
        BY <1>4 DEF Exists, ByEmail
    <2>3. /\ pc'[c] = "idle" \/ (FindUserByEmail(Who(c)) = {} /\ req'[c] = req[c])
          /\ \A d \in Client \ {c} : pc'[d] = pc[d] /\ req'[d] = req[d]
        BY <2>2, OneMoves
    <2> QED
        BY <2>1, <2>3, RowsStay DEF Who
<1>5. ASSUME NEW c \in Client, ById(c) PROVE RowsInv'
    <2>1. UNCHANGED accounts
        BY <1>5 DEF ById
    <2>2. Answer(c) \/ Goto(c, "byEmail") \/ (~HasAddress(req[c].row) /\ Goto(c, "enroll"))
        BY <1>5 DEF ById
    <2>3. /\ pc'[c] \in {"idle", "byEmail"} \/ (~HasAddress(req[c].row) /\ req'[c] = req[c])
          /\ \A d \in Client \ {c} : pc'[d] = pc[d] /\ req'[d] = req[d]
        BY <2>2, OneMoves
    <2> QED
        BY <2>1, <2>3, RowsStay
<1>6. ASSUME NEW c \in Client, CreateUser(c) \/ Enroll(c) PROVE RowsInv'
    <2>1. pc[c] \in {"create", "enroll"} /\ (Answer(c) \/ Goto(c, "clean"))
        BY <1>6 DEF CreateUser, Enroll
    <2>2. /\ pc'[c] \notin {"create", "enroll"}
          /\ \A d \in Client \ {c} : pc'[d] = pc[d] /\ req'[d] = req[d]
        BY <2>1, OneMoves
    <2>3. UNCHANGED accounts \/ (~Clashes(req[c].row) /\ Insert(c))
        BY <1>6 DEF CreateUser, Enroll
    <2> QED
        BY <2>1, <2>2, <2>3, RowsStay, InsertKeeps
<1>7. ASSUME NEW c \in Client, Fail(c) PROVE RowsInv'
    BY <1>7, OneMoves, RowsStay DEF Fail
<1>8. ASSUME NEW c \in Client, ReadFault(c) PROVE RowsInv'
    <2>1. UNCHANGED users /\ overtook \subseteq overtook'
        BY <1>8 DEF ReadFault
    <2>2. \/ Goto(c, "look") \/ Goto(c, "save")
          \/ Goto(c, "enroll") /\ Who(c) \in overtook'
        BY <1>8 DEF ReadFault
    <2>3. /\ pc'[c] \in {"look", "save"} \/ (req'[c] = req[c] /\ Who(c) \in overtook')
          /\ \A d \in Client \ {c} : pc'[d] = pc[d] /\ req'[d] = req[d]
        BY <2>2, OneMoves
    <2> QED
        BY <2>1, <2>3, RowsStay DEF Who
<1>9. ASSUME UNCHANGED <<users, overtook, pc, req>> PROVE RowsInv'
    BY <1>9 DEF RowsInv, OneAccountUnlessOvertaken, NoneFound, FindUserByEmail, Who
<1>10. ASSUME NEW c \in Client, TokenExpires(c) PROVE RowsInv'
    BY <1>9, <1>10 DEF TokenExpires
<1>11. ASSUME NEW p \in Person, CooldownOver(p) \/ CodeExpires(p) PROVE RowsInv'
    BY <1>9, <1>11 DEF CooldownOver, CodeExpires
<1>12. CASE UNCHANGED vars
    BY <1>9, <1>12 DEF vars
<1> QED
    BY <1>1, <1>2, <1>3, <1>4, <1>5, <1>6, <1>7, <1>8, <1>10, <1>11, <1>12
       DEF Next, Step

-----------------------------------------------------------------------------
(* What holds of every run.                                                *)

\* The codes in Redis, the mails and the requests agree at every step.
THEOREM MailInvariant == Spec => []MailInv
<1> QED
    BY MailInit, MailStep, PTL DEF Spec

\* Rows, codes, counters, cookies and requests have their types.
THEOREM TypeCorrect == Spec => []TypeOK
<1>1. MailInv => TypeOK
    BY DEF MailInv
<1> QED
    BY <1>1, MailInvariant, PTL

\* Register goes past VerifyEmailCode only with a code of a mail to the
\* address that is registered.
THEOREM CodesProve == Spec => []CodeProvesAddress
<1>1. MailInv => CodeProvesAddress
    BY DEF MailInv
<1> QED
    BY <1>1, MailInvariant, PTL

\* CheckResendCooldown bounds the mails to an address although the count is
\* read in one call of Redis and written in another.
THEOREM FewCodesSent == Spec => []SendsBounded
<1>1. MailInv => SendsBounded
    <2> SUFFICES ASSUME MailInv, NEW p \in Person
                 PROVE  sent[p] <= 3 * (1 + faults) + crossed[p]
        BY DEF SendsBounded
    <2>1. sent[p] - crossed[p] <= 3 * (1 + faults)
        BY DEF MailInv, SendsOK, Sends
    <2>2. sent[p] \in Int /\ crossed[p] \in Int /\ faults \in Int
        BY DEF MailInv, TypeOK
    <2> QED
        BY <2>1, <2>2
<1> QED
    BY <1>1, MailInvariant, PTL

\* FindUserByEmail before an insert and UNIQUE (email) at it keep one
\* account to an address, but for the second that Google's spelling lets in
\* when requests overtake each other.
THEOREM OneAccount == Spec => []OneAccountUnlessOvertaken
<1>1. Init => RowsInv
    BY MembersAssumption DEF Init, RowsInv, OneAccountUnlessOvertaken, NoneFound
<1>2. MailInv /\ RowsInv /\ [Next]_vars => RowsInv'
    BY RowsStep
<1>3. RowsInv => OneAccountUnlessOvertaken
    BY DEF RowsInv
<1> QED
    BY <1>1, <1>2, <1>3, MailInvariant, PTL DEF Spec
=============================================================================

---------------------------- MODULE CatalogProofs ----------------------------
(***************************************************************************)
(* What holds of Catalog for all clients, users, domains and names: edits  *)
(* keep votes and, unless they overlap, what was asked for, and a verified *)
(* server has a challenge that was published.                              *)
(***************************************************************************)
EXTENDS Catalog, WellFoundedInduction, TLAPS

Steps == {"idle", "edit", "write", "remove", "delete", "init", "dns", "agent",
          "confirm", "pending", "lookup", "status", "own"}

\* What a request may keep of the row it has read.
Kept == {"domain", "name", "likes"}
Value == Domain \cup {NoDomain} \cup Name \cup {0, 1}
Part == UNION {[C -> Value] : C \in SUBSET Kept}

Request == [id : 0 .. MaxServers, user : User \cup {Nobody}, dto : Edit,
            row : Part, at : 0 .. MaxChallenges]

StateOK ==
    /\ server \in [Listed -> Row] /\ Listed \subseteq 1 .. ids
    /\ challenge \subseteq Challenge
    /\ zone \in [Domain -> SUBSET (1 .. MaxChallenges)]
    /\ pc \in [Client -> Steps] /\ req \in [Client -> Request]
    /\ ids \in 0 .. MaxServers /\ stamps \in 0 .. MaxChallenges
    /\ votes \in [1 .. ids -> {0, 1}]
    /\ DOMAIN asked = 1 .. ids /\ raced \subseteq 1 .. ids

Begun(at, id) == \E v \in challenge : v.at = at /\ v.kind = "dns" /\ v.server = id

Proved(id) ==
    \E v \in challenge, d \in Domain :
        v.server = id /\ v.status = "verified" /\ v.at \in zone[d]

\* A request r that stands at step knows what the steps before have found,
\* of a server that is listed: ids are not used again.
Fine(step, r) ==
    /\ r.id <= ids
    /\ step \in {"init", "dns", "agent"} => r.user \in User
    /\ step \in {"dns", "agent", "lookup", "status"} => r.at > 0
    /\ step = "write" =>
          /\ Column \subseteq DOMAIN r.row /\ r.row["name"] \in Name
          /\ r.row["domain"] \in Domain \cup {NoDomain}
          /\ Over(r.row, Unowned) \in Row
          /\ r.id \in Listed \ raced => Restrict(r.row, Column) = Restrict(server[r.id], Column)
    /\ step \in {"pending", "lookup", "status", "own"} => r.row["domain"] \in Domain
    /\ step \in {"lookup", "status"} /\ r.id \in Listed => Begun(r.at, r.id)
    /\ step = "status" => r.at \in zone[r.row["domain"]]
    /\ step = "own" /\ r.id \in Listed => Proved(r.id)

ClientsOK == \A c \in Client : Fine(pc[c], req[c])

CatalogInv ==
    StateOK /\ ClientsOK /\ VotesSurviveEdits /\ QuietEditsLast /\ VerifiedWasPublished

-----------------------------------------------------------------------------
(* Rows and edits.                                                         *)

LEMMA RowFields ==
    ASSUME NEW r
    PROVE  r \in Row <=>
               /\ r = [k \in {"domain", "name", "likes", "owner", "verified"} |-> r[k]]
               /\ r["domain"] \in Domain \cup {NoDomain} /\ r["name"] \in Name
               /\ r["likes"] \in {0, 1} /\ r["owner"] \in User \cup {Nobody}
               /\ r["verified"] \in BOOLEAN
BY DEF Row

LEMMA EditFields ==
    ASSUME NEW e \in Edit
    PROVE  /\ DOMAIN e \subseteq Column
           /\ "domain" \in DOMAIN e => e["domain"] \in Domain
           /\ "name" \in DOMAIN e => e["name"] \in Name
BY DEF Edit

\* The row of a server that is created.
LEMMA MadeRow ==
    ASSUME NEW d \in Domain \cup {NoDomain}, NEW n \in Name,
           NEW r, r = Over([domain |-> d, name |-> n], Unowned)
    PROVE  r \in Row /\ r["likes"] = 0 /\ r["verified"] = FALSE
<1>1. /\ r = [k \in {"domain", "name", "likes", "owner", "verified"} |-> r[k]]
      /\ r["domain"] = d /\ r["name"] = n /\ r["likes"] = 0 /\ r["owner"] = Nobody
      /\ r["verified"] = FALSE
    BY DEF Over, Unowned
<1> QED
    BY <1>1, RowFields

\* The row of a server that is edited: old, but for the columns of part, on
\* which the edit is made.
LEMMA EditedRow ==
    ASSUME NEW old \in Row, NEW e \in Edit, NEW part,
           Column \subseteq DOMAIN part, part["domain"] \in Domain \cup {NoDomain},
           part["name"] \in Name,
           NEW r, r = Over(Restrict(Over(e, part), Column), old)
    PROVE  /\ r \in Row /\ r["likes"] = old["likes"] /\ r["verified"] = old["verified"]
           /\ Restrict(part, Column) = Restrict(old, Column) =>
                 Restrict(r, Column) = Over(e, Restrict(old, Column))
<1>1. /\ old = [k \in {"domain", "name", "likes", "owner", "verified"} |-> old[k]]
      /\ old["likes"] \in {0, 1} /\ old["owner"] \in User \cup {Nobody}
      /\ old["verified"] \in BOOLEAN
    BY RowFields
<1>2. /\ DOMAIN e \subseteq Column
      /\ "domain" \in DOMAIN e => e["domain"] \in Domain
      /\ "name" \in DOMAIN e => e["name"] \in Name
    BY EditFields
<1> DEFINE col == [k \in Column |-> IF k \in DOMAIN e THEN e[k] ELSE part[k]]
<1>3. Restrict(Over(e, part), Column) = col
    BY <1>2 DEF Restrict, Over, Column
<1>4. r = [k \in {"domain", "name", "likes", "owner", "verified"} |->
              IF k \in Column THEN col[k] ELSE old[k]]
    BY <1>1, <1>3 DEF Over, Column
<1>5. /\ col["domain"] \in Domain \cup {NoDomain} /\ col["name"] \in Name
    BY <1>2 DEF Column
<1> HIDE DEF col
<1>6. /\ r["domain"] = col["domain"] /\ r["name"] = col["name"] /\ r["likes"] = old["likes"]
      /\ r["owner"] = old["owner"] /\ r["verified"] = old["verified"]
    BY <1>4 DEF Column
<1>7. r \in Row
    BY <1>1, <1>4, <1>5, <1>6, RowFields
<1>8. Restrict(r, Column) = [k \in Column |-> col[k]]
    BY <1>4 DEF Restrict, Column
<1>9. ASSUME Restrict(part, Column) = Restrict(old, Column)
      PROVE  Restrict(r, Column) = Over(e, Restrict(old, Column))
    <2>1. \A k \in Column : part[k] = old[k]
        BY <1>9 DEF Restrict
    <2>2. Over(e, Restrict(old, Column)) =
              [k \in Column |-> IF k \in DOMAIN e THEN e[k] ELSE old[k]]
        BY <1>2 DEF Restrict, Over
    <2> QED
        BY <1>8, <2>1, <2>2 DEF col
<1> QED
    BY <1>6, <1>7, <1>9

\* What a request keeps of a row.
LEMMA ReadPart ==
    ASSUME NEW r \in Row, NEW C \in SUBSET Kept
    PROVE  /\ Restrict(r, C) \in Part /\ DOMAIN Restrict(r, C) = C
           /\ \A k \in C : Restrict(r, C)[k] = r[k]
<1>1. \A k \in Kept : r[k] \in Value
    BY RowFields DEF Kept, Value
<1>2. Restrict(r, C) \in [C -> Value]
    BY <1>1 DEF Restrict
<1> QED
    BY <1>2 DEF Part, Restrict

LEMMA WholePart ==
    ASSUME NEW r \in Row, NEW part, part = Restrict(r, Column \cup {"likes"})
    PROVE  /\ Over(part, Unowned) \in Row
           /\ Restrict(part, Column) = Restrict(r, Column)
<1>1. /\ r["domain"] \in Domain \cup {NoDomain} /\ r["name"] \in Name /\ r["likes"] \in {0, 1}
    BY RowFields
<1> DEFINE s == Over(part, Unowned)
<1>2. /\ s = [k \in {"domain", "name", "likes", "owner", "verified"} |-> s[k]]
      /\ s["domain"] = r["domain"] /\ s["name"] = r["name"] /\ s["likes"] = r["likes"]
      /\ s["owner"] = Nobody /\ s["verified"] = FALSE
    BY DEF Over, Unowned, Restrict, Column
<1>3. s \in Row
    BY <1>1, <1>2, RowFields
<1>4. Restrict(part, Column) = Restrict(r, Column)
    BY DEF Restrict, Column
<1> QED
    BY <1>3, <1>4

-----------------------------------------------------------------------------
(* A request goes on, and the tables stay as they are.                     *)

tables == <<server, challenge, zone, ids, history>>

\* What the steps of others leave of a request.
LEMMA MoveKeeps ==
    ASSUME CatalogInv, NEW c \in Client, NEW step \in Steps, NEW r \in Request, Fine(step, r),
           pc' = [pc EXCEPT ![c] = step], req' = [req EXCEPT ![c] = r],
           UNCHANGED tables, stamps' \in 0 .. MaxChallenges
    PROVE  CatalogInv'
<1>1. StateOK /\ UNCHANGED <<server, challenge, zone, ids, votes, asked, raced>>
    BY DEF CatalogInv, tables, history
<1>2. StateOK'
    BY <1>1 DEF StateOK, Listed
<1>3. ClientsOK'
    <2> SUFFICES ASSUME NEW d \in Client PROVE Fine(pc[d], req[d])'
        BY DEF ClientsOK
    <2>1. CASE d = c
        <3>1. pc'[d] = step /\ req'[d] = r
            BY <1>1, <2>1 DEF StateOK
        <3> QED
            BY <1>1, <3>1 DEF Fine, Begun, Proved, Listed
    <2>2. CASE d # c
        <3>1. pc'[d] = pc[d] /\ req'[d] = req[d]
            BY <1>1, <2>2 DEF StateOK
        <3>2. Fine(pc[d], req[d])
            BY DEF CatalogInv, ClientsOK
        <3> QED
            BY <1>1, <3>1, <3>2 DEF Fine, Begun, Proved, Listed
    <2> QED
        BY <2>1, <2>2
<1>4. VotesSurviveEdits' /\ QuietEditsLast' /\ VerifiedWasPublished'
    BY <1>1 DEF CatalogInv, VotesSurviveEdits, QuietEditsLast, VerifiedWasPublished, Listed
<1> QED
    BY <1>2, <1>3, <1>4 DEF CatalogInv

LEMMA RequestFields ==
    ASSUME CatalogInv, NEW c \in Client
    PROVE  /\ req[c] \in Request /\ Fine(pc[c], req[c]) /\ pc[c] \in Steps
           /\ req[c].id \in Nat /\ ids \in Nat /\ req[c].id <= ids
           /\ req[c].user \in User \cup {Nobody} /\ req[c].dto \in Edit
           /\ req[c].at \in 0 .. MaxChallenges
BY CatalogAssumption DEF CatalogInv, StateOK, ClientsOK, Request, Fine

\* An edit that asks for nothing.
LEMMA NoEdit == <<>> \in Edit /\ <<>> \in Part
<1>1. <<>> \in [{} -> Domain \cup Name] /\ <<>> \in [{} -> Value] /\ DOMAIN <<>> = {}
    OBVIOUS
<1> QED
    BY <1>1 DEF Edit, Part

LEMMA IdleIsFine ==
    ASSUME CatalogInv
    PROVE  NoRequest \in Request /\ Fine("idle", NoRequest)
BY NoEdit, CatalogAssumption DEF NoRequest, Request, Fine, CatalogInv, StateOK

LEMMA AnswerKeeps ==
    ASSUME CatalogInv, NEW c \in Client, Answer(c), UNCHANGED tables,
           stamps' \in 0 .. MaxChallenges
    PROVE  CatalogInv'
BY IdleIsFine, MoveKeeps DEF Answer, Steps

LEMMA GotoKeeps ==
    ASSUME CatalogInv, NEW c \in Client, NEW step \in Steps, Goto(c, step),
           UNCHANGED <<tables, stamps>>, Fine(step, req[c])
    PROVE  CatalogInv'
<1>1. req' = [req EXCEPT ![c] = req[c]] /\ req[c] \in Request
    BY RequestFields DEF Goto, CatalogInv, StateOK
<1> QED
    BY <1>1, MoveKeeps DEF Goto, CatalogInv, StateOK

\* The requests that begin.
LEMMA BeginKeeps ==
    ASSUME CatalogInv, NEW c \in Client, NEW id \in 1 .. ids, NEW u \in User \cup {Nobody},
           NEW e \in Edit, NEW step \in {"edit", "remove", "init", "confirm"},
           step = "init" => u \in User,
           NEW r, r = [id |-> id, user |-> u, dto |-> e, row |-> <<>>, at |-> 0],
           pc' = [pc EXCEPT ![c] = step], req' = [req EXCEPT ![c] = r],
           UNCHANGED <<tables, stamps>>
    PROVE  CatalogInv'
<1>1. ids \in 0 .. MaxServers /\ MaxServers \in Nat /\ MaxChallenges \in Nat
      /\ stamps \in 0 .. MaxChallenges
    BY CatalogAssumption DEF CatalogInv, StateOK
<1>2. r \in Request
    BY <1>1, NoEdit DEF Request
<1>3. r.id = id /\ r.user = u
    OBVIOUS
<1>4. Fine(step, r)
    BY <1>1, <1>3 DEF Fine
<1>5. step \in Steps
    BY DEF Steps
<1> QED
    BY <1>1, <1>2, <1>4, <1>5, MoveKeeps

LEMMA ArriveKeeps ==
    ASSUME CatalogInv, NEW c \in Client, NEW id \in 1 .. ids,
           \/ \E dto \in Edit : Update(c, id, dto)
           \/ Remove(c, id)
           \/ \E u \in User : InitVerification(c, id, u) \/ Confirm(c, id, u)
    PROVE  CatalogInv'
<1>1. ASSUME NEW dto \in Edit, Update(c, id, dto) PROVE CatalogInv'
    <2>1. Over([id |-> id, dto |-> dto], NoRequest) =
              [id |-> id, user |-> Nobody, dto |-> dto, row |-> <<>>, at |-> 0]
        BY DEF Over, NoRequest
    <2> QED
        BY <1>1, <2>1, BeginKeeps DEF Update, Begin, tables
<1>2. CASE Remove(c, id)
    <2>1. Over([id |-> id], NoRequest) =
              [id |-> id, user |-> Nobody, dto |-> <<>>, row |-> <<>>, at |-> 0]
        BY DEF Over, NoRequest
    <2> QED
        BY <1>2, <2>1, BeginKeeps, NoEdit DEF Remove, Begin, tables
<1>3. ASSUME NEW u \in User, InitVerification(c, id, u) \/ Confirm(c, id, u)
      PROVE  CatalogInv'
    <2>1. Over([id |-> id, user |-> u], NoRequest) =
              [id |-> id, user |-> u, dto |-> <<>>, row |-> <<>>, at |-> 0]
        BY DEF Over, NoRequest
    <2> QED
        BY <1>3, <2>1, BeginKeeps, NoEdit DEF InitVerification, Confirm, Begin, tables
<1> QED
    BY <1>1, <1>2, <1>3

-----------------------------------------------------------------------------
(* The steps that read.                                                    *)

\* A row that was read is kept in part.
LEMMA GotRow ==
    ASSUME CatalogInv, NEW c \in Client, NEW C \in SUBSET Kept, NEW step \in Steps,
           GetServerByID(c, C, step), req[c].id \in Listed
    PROVE  \E r \in Request :
              /\ pc' = [pc EXCEPT ![c] = step] /\ req' = [req EXCEPT ![c] = r]
              /\ r.row = Restrict(server[req[c].id], C) /\ r.id = req[c].id
              /\ r.user = req[c].user /\ r.at = req[c].at /\ r.dto = req[c].dto
<1> DEFINE r == [req[c] EXCEPT !.row = Restrict(server[req[c].id], C)]
<1>1. req[c] \in Request /\ req \in [Client -> Request] /\ server[req[c].id] \in Row
    BY RequestFields DEF CatalogInv, StateOK
<1>2. Restrict(server[req[c].id], C) \in Part
    BY <1>1, ReadPart
<1>3. r \in Request /\ r.row = Restrict(server[req[c].id], C) /\ r.id = req[c].id
      /\ r.user = req[c].user /\ r.at = req[c].at /\ r.dto = req[c].dto
    BY <1>1, <1>2 DEF Request
<1>4. pc' = [pc EXCEPT ![c] = step] /\ req' = [req EXCEPT ![c] = r]
    BY <1>1 DEF GetServerByID
<1> QED
    BY <1>3, <1>4

LEMMA ReadKeeps ==
    ASSUME CatalogInv, NEW c \in Client,
           ReadForUpdate(c) \/ ReadForRemove(c) \/ ReadForConfirm(c)
    PROVE  CatalogInv'
<1>1. UNCHANGED <<tables, stamps>> /\ stamps \in 0 .. MaxChallenges
    BY DEF ReadForUpdate, ReadForRemove, ReadForConfirm, tables, CatalogInv, StateOK
<1>2. CASE Answer(c)
    BY <1>1, <1>2, AnswerKeeps
<1>3. ASSUME NEW C \in SUBSET Kept, NEW step \in Steps, req[c].id \in Listed,
             GetServerByID(c, C, step),
             \A r \in Request : /\ r.row = Restrict(server[req[c].id], C)
                                /\ r.id = req[c].id
                                => Fine(step, r)
      PROVE  CatalogInv'
    <2>1. PICK r \in Request :
              /\ pc' = [pc EXCEPT ![c] = step] /\ req' = [req EXCEPT ![c] = r]
              /\ r.row = Restrict(server[req[c].id], C) /\ r.id = req[c].id
        BY <1>3, GotRow
    <2> QED
        BY <1>1, <1>3, <2>1, MoveKeeps
<1>4. /\ req[c].id \in Listed => server[req[c].id] \in Row
      /\ req[c].id <= ids
    BY RequestFields DEF CatalogInv, StateOK
<1>5. CASE ReadForUpdate(c) /\ req[c].id \in Listed
    <2>1. GetServerByID(c, Column \cup {"likes"}, "write")
        BY <1>5 DEF ReadForUpdate
    <2>2. ASSUME NEW r \in Request, r.row = Restrict(server[req[c].id], Column \cup {"likes"}),
                 r.id = req[c].id
          PROVE  Fine("write", r)
        <3>1. /\ Over(r.row, Unowned) \in Row
              /\ Restrict(r.row, Column) = Restrict(server[req[c].id], Column)
            BY <1>4, <1>5, <2>2, WholePart
        <3>2. /\ Column \subseteq DOMAIN r.row
              /\ r.row["name"] = server[req[c].id]["name"]
              /\ r.row["domain"] = server[req[c].id]["domain"]
            BY <2>2 DEF Restrict, Column
        <3>3. /\ server[req[c].id]["name"] \in Name
              /\ server[req[c].id]["domain"] \in Domain \cup {NoDomain}
            BY <1>4, <1>5, RowFields
        <3> QED
            BY <1>4, <2>2, <3>1, <3>2, <3>3 DEF Fine
    <2>3. Column \cup {"likes"} \subseteq Kept /\ "write" \in Steps
        BY DEF Column, Kept, Steps
    <2> QED
        BY <1>3, <1>5, <2>1, <2>2, <2>3
<1>6. CASE ReadForRemove(c) /\ req[c].id \in Listed
    <2>1. GetServerByID(c, {}, "delete")
        BY <1>6 DEF ReadForRemove
    <2>2. ASSUME NEW r \in Request, r.id = req[c].id PROVE Fine("delete", r)
        BY <1>4, <2>2 DEF Fine
    <2>3. "delete" \in Steps
        BY DEF Steps
    <2> QED
        BY <1>3, <1>6, <2>1, <2>2, <2>3
<1>7. CASE ReadForConfirm(c) /\ GetServerByID(c, {"domain"}, "pending")
           /\ req[c].id \in Listed /\ server[req[c].id].domain \notin {NoDomain, Blank}
    <2>1. ASSUME NEW r \in Request, r.row = Restrict(server[req[c].id], {"domain"}),
                 r.id = req[c].id
          PROVE  Fine("pending", r)
        <3>1. r.row["domain"] = server[req[c].id].domain
            BY <2>1 DEF Restrict
        <3>2. server[req[c].id].domain \in Domain \cup {NoDomain}
            BY <1>4, <1>7, RowFields
        <3> QED
            BY <1>4, <1>7, <2>1, <3>1, <3>2 DEF Fine
    <2>2. {"domain"} \subseteq Kept /\ "pending" \in Steps
        BY DEF Kept, Steps
    <2> QED
        BY <1>3, <1>7, <2>1, <2>2
<1> QED
    BY <1>2, <1>5, <1>6, <1>7 DEF ReadForUpdate, ReadForRemove, ReadForConfirm, GetServerByID

\* The same request, with a challenge.
LEMMA WithChallenge ==
    ASSUME CatalogInv, NEW c \in Client, NEW at \in 0 .. MaxChallenges, NEW step \in Steps,
           req' = [req EXCEPT ![c].at = at], pc' = [pc EXCEPT ![c] = step],
           \A r \in Request : /\ r.id = req[c].id /\ r.user = req[c].user
                              /\ r.row = req[c].row /\ r.at = at
                              => Fine(step, r),
           UNCHANGED tables, stamps' \in 0 .. MaxChallenges
    PROVE  CatalogInv'
<1> DEFINE r == [req[c] EXCEPT !.at = at]
<1>1. req[c] \in Request /\ req \in [Client -> Request]
    BY RequestFields DEF CatalogInv, StateOK
<1>2. r \in Request /\ r.id = req[c].id /\ r.user = req[c].user /\ r.row = req[c].row
      /\ r.at = at
    BY <1>1 DEF Request
<1>3. req' = [req EXCEPT ![c] = r]
    BY <1>1
<1> HIDE DEF r
<1> QED
    BY <1>2, <1>3, MoveKeeps

LEMMA ReadForInitKeeps ==
    ASSUME CatalogInv, NEW c \in Client, ReadForInit(c)
    PROVE  CatalogInv'
<1>1. UNCHANGED tables /\ stamps \in 0 .. MaxChallenges /\ MaxChallenges \in Nat
    BY CatalogAssumption DEF ReadForInit, tables, CatalogInv, StateOK
<1>2. CASE Answer(c) /\ UNCHANGED stamps
    BY <1>1, <1>2, AnswerKeeps
<1>3. CASE /\ stamps < MaxChallenges /\ stamps' = stamps + 1
           /\ pc' = [pc EXCEPT ![c] = "dns"] /\ req' = [req EXCEPT ![c].at = stamps']
    <2> DEFINE n == stamps + 1
    <2>1. n \in 0 .. MaxChallenges /\ n > 0 /\ stamps' = n
          /\ req' = [req EXCEPT ![c].at = n]
        BY <1>1, <1>3
    <2> HIDE DEF n
    <2>2. req[c].user \in User /\ req[c].id <= ids
        BY RequestFields DEF ReadForInit, Fine
    <2>3. \A r \in Request : /\ r.id = req[c].id /\ r.user = req[c].user
                             /\ r.row = req[c].row /\ r.at = n
                             => Fine("dns", r)
        BY <2>1, <2>2 DEF Fine
    <2>4. "dns" \in Steps /\ pc' = [pc EXCEPT ![c] = "dns"] /\ UNCHANGED tables
          /\ n \in 0 .. MaxChallenges /\ stamps' \in 0 .. MaxChallenges
        BY <1>1, <1>3, <2>1 DEF Steps
    <2>5. req' = [req EXCEPT ![c].at = n]
        BY <2>1
    <2> QED
        BY <2>3, <2>4, <2>5, WithChallenge
<1> QED
    BY <1>2, <1>3 DEF ReadForInit

\* Among numbers up to n there is a last one.
LEMMA LastOne ==
    ASSUME NEW n \in Nat, NEW S \in SUBSET (1 .. n), S # {}
    PROVE  \E last \in S : \A m \in S : m <= last
<1> DEFINE T == {n - m : m \in S}
<1>1. T \in SUBSET Nat /\ T # {}
    <2>1. \A m \in S : m \in 1 .. n /\ n - m \in Nat
        OBVIOUS
    <2> QED
        BY <2>1
<1>2. PICK x \in T : \A y \in T : ~ (<<y, x>> \in OpToRel(<, Nat))
    BY <1>1, NatLessThanWellFounded, WFMin
<1>3. \A y \in T : ~ (y < x)
    BY <1>1, <1>2 DEF OpToRel
<1>4. PICK last \in S : x = n - last
    OBVIOUS
<1>5. ASSUME NEW m \in S PROVE m <= last
    <2>1. ~ (n - m < n - last)
        BY <1>3, <1>4
    <2>2. m \in 1 .. n /\ last \in 1 .. n
        OBVIOUS
    <2> QED
        BY <2>1, <2>2
<1> QED
    BY <1>5

\* The challenge that is taken up is one of the server, whoever began it.
LEMMA PendingKeeps ==
    ASSUME CatalogInv, NEW c \in Client, GetPendingVerification(c)
    PROVE  CatalogInv'
<1> DEFINE P == Pending(req[c].id)
           latest == CHOOSE v \in P : \A w \in P : w.at <= v.at
<1>1. /\ UNCHANGED <<tables, stamps>> /\ stamps \in 0 .. MaxChallenges
      /\ challenge \subseteq Challenge /\ MaxChallenges \in Nat
    BY CatalogAssumption DEF GetPendingVerification, tables, CatalogInv, StateOK
<1>2. CASE Answer(c)
    BY <1>1, <1>2, AnswerKeeps
<1>3. CASE /\ P # {} /\ pc' = [pc EXCEPT ![c] = "lookup"]
           /\ req' = [req EXCEPT ![c].at = latest.at]
    <2>1. \E v \in P : \A w \in P : w.at <= v.at
        <3> DEFINE S == {v.at : v \in P}
        <3>1. S \in SUBSET (1 .. MaxChallenges) /\ S # {}
            BY <1>1, <1>3 DEF Pending, Challenge
        <3>2. PICK last \in S : \A m \in S : m <= last
            BY <1>1, <3>1, LastOne
        <3> QED
            BY <3>2
    <2>2. latest \in P
        BY <2>1
    <2> HIDE DEF latest
    <2>3. latest \in challenge /\ latest.kind = "dns" /\ latest.server = req[c].id
          /\ latest.at \in 1 .. MaxChallenges
        BY <1>1, <2>2 DEF Pending, Challenge
    <2>4. Begun(latest.at, req[c].id)
        BY <2>3 DEF Begun
    <2>5. req[c].row["domain"] \in Domain /\ req[c].id <= ids
        BY RequestFields DEF GetPendingVerification, Fine
    <2>6. \A r \in Request : /\ r.id = req[c].id /\ r.user = req[c].user
                             /\ r.row = req[c].row /\ r.at = latest.at
                             => Fine("lookup", r)
        BY <2>3, <2>4, <2>5 DEF Fine
    <2>7. "lookup" \in Steps /\ latest.at \in 0 .. MaxChallenges
        BY <1>1, <2>3 DEF Steps
    <2> QED
        BY <1>1, <1>3, <2>6, <2>7, WithChallenge
<1> QED
    BY <1>2, <1>3 DEF GetPendingVerification

LEMMA LookupKeeps ==
    ASSUME CatalogInv, NEW c \in Client, LookupTXT(c)
    PROVE  CatalogInv'
<1>1. UNCHANGED <<tables, stamps>> /\ stamps \in 0 .. MaxChallenges
    BY DEF LookupTXT, tables, CatalogInv, StateOK
<1>2. CASE Answer(c)
    BY <1>1, <1>2, AnswerKeeps
<1>3. CASE req[c].at \in zone[req[c].row.domain] /\ Goto(c, "status")
    <2>1. Fine("lookup", req[c])
        BY RequestFields DEF LookupTXT
    <2>2. Fine("status", req[c])
        BY <1>3, <2>1 DEF Fine
    <2>3. "status" \in Steps
        BY DEF Steps
    <2> QED
        BY <1>1, <1>3, <2>2, <2>3, GotoKeeps
<1> QED
    BY <1>2, <1>3 DEF LookupTXT

-----------------------------------------------------------------------------
(* The steps that write.  Challenges stay, or go with their server.        *)

\* Whatever id has of challenges it keeps.
ChallengesStay(id) ==
    /\ \A e \in Domain : zone[e] \subseteq zone'[e]
    /\ \A v \in challenge :
          v.server = id =>
              \E w \in challenge' :
                  /\ w.at = v.at /\ w.kind = v.kind /\ w.server = id
                  /\ v.status = "verified" => w.status = "verified"

\* A request whose server the step leaves listed keeps what it knows.
LEMMA OthersKeep ==
    ASSUME CatalogInv, NEW d \in Client, pc'[d] = pc[d], req'[d] = req[d],
           ids' \in Nat, ids <= ids', \A e \in Domain : zone[e] \subseteq zone'[e],
           req[d].id \in Listed' =>
               /\ req[d].id \in Listed /\ ChallengesStay(req[d].id)
               /\ pc[d] = "write" /\ req[d].id \notin raced' =>
                     /\ req[d].id \notin raced
                     /\ Restrict(server'[req[d].id], Column) =
                            Restrict(server[req[d].id], Column)
    PROVE  Fine(pc[d], req[d])'
<1>1. Fine(pc[d], req[d]) /\ req[d].id <= ids' /\ req[d].id \in Nat
    <2>1. Fine(pc[d], req[d]) /\ req[d].id \in Nat /\ ids \in Nat /\ req[d].id <= ids
        BY RequestFields
    <2> QED
        BY <2>1
<1>2. ASSUME req[d].id \in Listed', Begun(req[d].at, req[d].id)
      PROVE  \E v \in challenge' : v.at = req[d].at /\ v.kind = "dns" /\ v.server = req[d].id
    BY <1>2 DEF Begun, ChallengesStay
<1>3. ASSUME req[d].id \in Listed', Proved(req[d].id)
      PROVE  \E v \in challenge', e \in Domain :
                v.server = req[d].id /\ v.status = "verified" /\ v.at \in zone'[e]
    <2>1. PICK v \in challenge, e \in Domain :
              v.server = req[d].id /\ v.status = "verified" /\ v.at \in zone[e]
        BY <1>3 DEF Proved
    <2>2. PICK w \in challenge' : /\ w.at = v.at /\ w.server = req[d].id
                                  /\ w.status = "verified"
        BY <1>3, <2>1 DEF ChallengesStay
    <2>3. w.at \in zone'[e]
        BY <2>1, <2>2
    <2> QED
        BY <2>2, <2>3
<1> QED
    BY <1>1, <1>2, <1>3 DEF Fine, Begun, Proved

\* A server that stays as verified as it was.
LEMMA StaysPublished ==
    ASSUME CatalogInv, NEW id \in Listed, ChallengesStay(id),
           server'[id].verified => server[id].verified
    PROVE  server'[id].verified =>
               \E v \in challenge', e \in Domain :
                   v.server = id /\ v.status = "verified" /\ v.at \in zone'[e]
<1> SUFFICES ASSUME server[id].verified
             PROVE  \E v \in challenge', e \in Domain :
                        v.server = id /\ v.status = "verified" /\ v.at \in zone'[e]
    OBVIOUS
<1>1. PICK v \in challenge, e \in Domain :
          v.server = id /\ v.status = "verified" /\ v.at \in zone[e]
    BY DEF CatalogInv, VerifiedWasPublished
<1>2. PICK w \in challenge' : w.at = v.at /\ w.server = id /\ w.status = "verified"
    BY <1>1 DEF ChallengesStay
<1> QED
    BY <1>1, <1>2 DEF ChallengesStay

LEMMA NothingChallenged ==
    ASSUME UNCHANGED <<challenge, zone>>, NEW id
    PROVE  ChallengesStay(id)
BY DEF ChallengesStay

LEMMA CreateKeeps ==
    ASSUME CatalogInv, NEW c \in Client, NEW d \in Domain \cup {NoDomain}, NEW n \in Name,
           Create(c, d, n)
    PROVE  CatalogInv'
<1> DEFINE id == ids + 1
           row == Over([domain |-> d, name |-> n], Unowned)
<1>1. /\ StateOK /\ ids \in Nat /\ ids < MaxServers /\ MaxServers \in Nat /\ ids' = id
      /\ server' = Added(server, id, row) /\ votes' = Added(votes, id, 0)
      /\ asked' = Added(asked, id, Restrict(row, Column))
      /\ UNCHANGED <<challenge, zone, pc, req, stamps, raced>>
    BY CatalogAssumption DEF CatalogInv, StateOK, Create
<1>2. id \notin Listed /\ id \in 1 .. ids' /\ 1 .. ids' = (1 .. ids) \cup {id}
      /\ id \notin 1 .. ids
    BY <1>1 DEF StateOK
<1>3. row \in Row /\ row["likes"] = 0 /\ row["verified"] = FALSE
    BY MadeRow
<1> HIDE DEF id, row
<1>4. /\ Listed' = Listed \cup {id} /\ server'[id] = row
      /\ \A i \in Listed : server'[i] = server[i] /\ i # id
    BY <1>1, <1>2 DEF Listed, Added
<1>5. /\ votes'[id] = 0 /\ asked'[id] = Restrict(row, Column)
      /\ \A i \in 1 .. ids : votes'[i] = votes[i] /\ asked'[i] = asked[i]
    BY <1>1, <1>2 DEF Added, StateOK
<1>6. StateOK'
    <2>1. server' \in [Listed' -> Row] /\ Listed' \subseteq 1 .. ids'
        BY <1>1, <1>2, <1>3, <1>4 DEF StateOK, Listed, Added
    <2>2. votes' \in [1 .. ids' -> {0, 1}] /\ DOMAIN asked' = 1 .. ids'
        BY <1>1, <1>2 DEF StateOK, Added
    <2>3. ids' \in 0 .. MaxServers /\ raced' \subseteq 1 .. ids'
        BY <1>1, <1>2 DEF StateOK, id
    <2> QED
        BY <1>1, <2>1, <2>2, <2>3 DEF StateOK
<1>7. ClientsOK'
    <2> SUFFICES ASSUME NEW e \in Client PROVE Fine(pc[e], req[e])'
        BY DEF ClientsOK
    <2>1. req[e].id # id /\ ids' \in Nat /\ ids <= ids'
        <3>1. req[e].id \in Nat /\ req[e].id <= ids
            BY RequestFields
        <3> QED
            BY <1>1, <3>1 DEF id
    <2>2. ChallengesStay(req[e].id)
        BY <1>1, NothingChallenged
    <2>3. req[e].id \in Listed' => /\ req[e].id \in Listed
                                   /\ server'[req[e].id] = server[req[e].id]
        BY <1>4, <2>1
    <2> QED
        BY <1>1, <2>1, <2>2, <2>3, OthersKeep
<1>8. VotesSurviveEdits'
    BY <1>3, <1>4, <1>5 DEF CatalogInv, StateOK, VotesSurviveEdits
<1>9. QuietEditsLast'
    BY <1>1, <1>4, <1>5 DEF CatalogInv, StateOK, QuietEditsLast
<1>10. VerifiedWasPublished'
    BY <1>1, <1>3, <1>4 DEF CatalogInv, VerifiedWasPublished
<1> QED
    BY <1>6, <1>7, <1>8, <1>9, <1>10 DEF CatalogInv

\* A request that is answered.
LEMMA Answered ==
    ASSUME CatalogInv, NEW c \in Client, Answer(c), ids' \in Nat
    PROVE  /\ pc' \in [Client -> Steps] /\ req' \in [Client -> Request]
           /\ Fine(pc[c], req[c])'
           /\ \A d \in Client \ {c} : pc'[d] = pc[d] /\ req'[d] = req[d]
<1>1. /\ pc \in [Client -> Steps] /\ req \in [Client -> Request]
      /\ pc' = [pc EXCEPT ![c] = "idle"] /\ req' = [req EXCEPT ![c] = NoRequest]
      /\ NoRequest \in Request /\ "idle" \in Steps
    BY IdleIsFine DEF CatalogInv, StateOK, Answer, Steps
<1>2. pc'[c] = "idle" /\ req'[c] = NoRequest
    BY <1>1
<1>3. Fine(pc[c], req[c])'
    BY <1>2 DEF Fine, NoRequest
<1> QED
    BY <1>1, <1>3

LEMMA UpdateKeeps ==
    ASSUME CatalogInv, NEW c \in Client, UpdateServer(c)
    PROVE  CatalogInv'
<1> DEFINE id == req[c].id
           part == req[c].row
           new == Over(Restrict(Over(req[c].dto, part), Column), server[id])
<1>1. /\ StateOK /\ ids \in Nat /\ ids' = ids /\ pc[c] = "write" /\ Answer(c)
      /\ UNCHANGED <<challenge, zone, ids, stamps, votes>>
    BY RequestFields DEF CatalogInv, UpdateServer
<1>2. CASE UNCHANGED <<server, asked, raced>>
    BY <1>1, <1>2, AnswerKeeps DEF tables, history, StateOK
<1>3. CASE /\ id \in Listed /\ server' = [server EXCEPT ![id] = new] /\ Written(c)
    <2>1. /\ Fine("write", req[c]) /\ req[c].dto \in Edit /\ server[id] \in Row
        BY <1>1, <1>3, RequestFields DEF StateOK
    <2>2. /\ new \in Row /\ new["likes"] = server[id]["likes"]
          /\ new["verified"] = server[id]["verified"]
          /\ Restrict(part, Column) = Restrict(server[id], Column) =>
                Restrict(new, Column) = Over(req[c].dto, Restrict(server[id], Column))
        BY <2>1, EditedRow DEF Fine
    <2>3. /\ asked' = [asked EXCEPT ![id] = Over(req[c].dto, asked[id])]
          /\ raced' = IF Stale(c) = {} THEN raced ELSE raced \cup {id}
        BY <1>3 DEF Written
    <2>4. id \notin raced => Restrict(part, Column) = Restrict(server[id], Column)
        BY <1>3, <2>1 DEF Fine
    <2> HIDE DEF new
    <2>5. /\ Listed' = Listed /\ server'[id] = new
          /\ \A i \in Listed \ {id} : server'[i] = server[i]
        BY <1>1, <1>3 DEF StateOK, Listed
    <2>6. StateOK'
        <3>1. server' \in [Listed' -> Row]
            BY <1>1, <1>3, <2>2, <2>5 DEF StateOK, Listed
        <3>2. DOMAIN asked' = 1 .. ids' /\ raced' \subseteq 1 .. ids'
            BY <1>1, <1>3, <2>3 DEF StateOK
        <3>3. pc' \in [Client -> Steps] /\ req' \in [Client -> Request]
            BY <1>1, Answered
        <3> QED
            BY <1>1, <2>5, <3>1, <3>2, <3>3 DEF StateOK
    <2>7. ClientsOK'
        <3> SUFFICES ASSUME NEW e \in Client PROVE Fine(pc[e], req[e])'
            BY DEF ClientsOK
        <3>1. CASE e = c
            BY <1>1, <3>1, Answered
        <3>2. CASE e # c
            <4>1. pc'[e] = pc[e] /\ req'[e] = req[e]
                BY <1>1, <3>2, Answered
            <4>2. ChallengesStay(req[e].id)
                BY <1>1, NothingChallenged
            <4>3. ASSUME pc[e] = "write", req[e].id = id PROVE id \in raced'
                <5>1. e \in Stale(c)
                    BY <3>2, <4>3 DEF Stale
                <5> QED
                    BY <2>3, <5>1
            <4>4. req[e].id \in Listed /\ req[e].id # id => server'[req[e].id] = server[req[e].id]
                BY <2>5
            <4>5. req[e].id \notin raced' => req[e].id \notin raced
                BY <2>3
            <4>6. pc[e] = "write" /\ req[e].id \in Listed /\ req[e].id \notin raced' =>
                      Restrict(server'[req[e].id], Column) = Restrict(server[req[e].id], Column)
                BY <4>3, <4>4
            <4> QED
                BY <1>1, <2>5, <4>1, <4>2, <4>5, <4>6, OthersKeep
        <3> QED
            BY <3>1, <3>2
    <2>8. VotesSurviveEdits'
        BY <1>1, <2>2, <2>5 DEF CatalogInv, VotesSurviveEdits
    <2>9. QuietEditsLast'
        <3> SUFFICES ASSUME NEW i \in Listed, i \notin raced'
                     PROVE  Restrict(server'[i], Column) = asked'[i]
            BY <2>5 DEF QuietEditsLast
        <3>1. i \notin raced /\ Restrict(server[i], Column) = asked[i] /\ i \in DOMAIN asked
            BY <1>1, <2>3 DEF CatalogInv, QuietEditsLast, StateOK
        <3>2. CASE i = id
            BY <2>2, <2>3, <2>4, <2>5, <3>1, <3>2
        <3>3. CASE i # id
            BY <2>3, <2>5, <3>1, <3>3
        <3> QED
            BY <3>2, <3>3
    <2>10. VerifiedWasPublished'
        BY <1>1, <2>2, <2>5 DEF CatalogInv, VerifiedWasPublished
    <2> QED
        BY <2>6, <2>7, <2>8, <2>9, <2>10 DEF CatalogInv
<1> QED
    BY <1>2, <1>3 DEF UpdateServer

LEMMA DeleteKeeps ==
    ASSUME CatalogInv, NEW c \in Client, DeleteServer(c)
    PROVE  CatalogInv'
<1> DEFINE id == req[c].id
<1>1. /\ StateOK /\ ids \in Nat /\ ids' = ids /\ Answer(c)
      /\ server' = Restrict(server, Listed \ {id})
      /\ challenge' = {v \in challenge : v.server # id}
      /\ votes' = [votes EXCEPT ![id] = 0] /\ asked' = [asked EXCEPT ![id] = <<>>]
      /\ raced' = raced \ {id} /\ UNCHANGED <<zone, ids, stamps>>
    BY RequestFields DEF CatalogInv, DeleteServer
<1> HIDE DEF id
<1>2. /\ Listed' = Listed \ {id} /\ \A i \in Listed' : server'[i] = server[i]
    BY <1>1 DEF Listed, Restrict
<1>3. /\ \A i \in 1 .. ids : i # id => votes'[i] = votes[i] /\ asked'[i] = asked[i]
    BY <1>1 DEF StateOK
<1>4. StateOK'
    <2>1. server' \in [Listed' -> Row] /\ Listed' \subseteq 1 .. ids'
        BY <1>1, <1>2 DEF StateOK, Restrict
    <2>2. pc' \in [Client -> Steps] /\ req' \in [Client -> Request]
        BY <1>1, Answered
    <2> QED
        BY <1>1, <2>1, <2>2 DEF StateOK
<1>5. ASSUME NEW i, i # id PROVE ChallengesStay(i)
    BY <1>1, <1>5 DEF ChallengesStay
<1>6. ClientsOK'
    <2> SUFFICES ASSUME NEW e \in Client PROVE Fine(pc[e], req[e])'
        BY DEF ClientsOK
    <2>1. CASE e = c
        BY <1>1, <2>1, Answered
    <2>2. CASE e # c
        <3>1. pc'[e] = pc[e] /\ req'[e] = req[e]
            BY <1>1, <2>2, Answered
        <3>2. req[e].id \in Listed' =>
                  /\ req[e].id \in Listed /\ ChallengesStay(req[e].id)
                  /\ server'[req[e].id] = server[req[e].id]
                  /\ req[e].id \notin raced' => req[e].id \notin raced
            BY <1>1, <1>2, <1>5
        <3>3. /\ ids' \in Nat /\ ids <= ids' /\ \A d \in Domain : zone[d] \subseteq zone'[d]
            BY <1>1
        <3>4. req[e].id \in Listed' =>
                  /\ req[e].id \in Listed /\ ChallengesStay(req[e].id)
                  /\ pc[e] = "write" /\ req[e].id \notin raced' =>
                        /\ req[e].id \notin raced
                        /\ Restrict(server'[req[e].id], Column) =
                               Restrict(server[req[e].id], Column)
            BY <3>2
        <3> QED
            BY <3>1, <3>3, <3>4, OthersKeep
    <2> QED
        BY <2>1, <2>2
<1>7. VotesSurviveEdits' /\ QuietEditsLast'
    <2> SUFFICES ASSUME NEW i \in Listed'
                 PROVE  /\ server'[i].likes = votes'[i]
                        /\ i \notin raced' => Restrict(server'[i], Column) = asked'[i]
        BY DEF VotesSurviveEdits, QuietEditsLast
    <2>1. i \in Listed /\ i # id /\ i \in 1 .. ids /\ server'[i] = server[i]
        BY <1>1, <1>2 DEF StateOK
    <2>2. votes'[i] = votes[i] /\ asked'[i] = asked[i] /\ raced' = raced \ {id}
        BY <1>1, <1>3, <2>1
    <2>3. /\ server[i].likes = votes[i]
          /\ i \notin raced => Restrict(server[i], Column) = asked[i]
        BY <2>1 DEF CatalogInv, VotesSurviveEdits, QuietEditsLast
    <2> QED
        BY <2>1, <2>2, <2>3
<1>8. VerifiedWasPublished'
    <2> SUFFICES ASSUME NEW i \in Listed'
                 PROVE  server'[i].verified =>
                            \E v \in challenge', e \in Domain :
                                v.server = i /\ v.status = "verified" /\ v.at \in zone'[e]
        BY DEF VerifiedWasPublished
    <2>1. i \in Listed /\ i # id /\ server'[i] = server[i]
        BY <1>2
    <2> QED
        BY <1>5, <2>1, StaysPublished
<1> QED
    BY <1>4, <1>6, <1>7, <1>8 DEF CatalogInv

\* A step that changes a row in what no edit writes, for requests that are
\* not about to write it, leaves the requests their knowledge.
LEMMA TouchKeeps ==
    ASSUME CatalogInv, NEW id \in Listed, NEW row \in Row,
           server' = [server EXCEPT ![id] = row], votes' = [votes EXCEPT ![id] = row.likes],
           Restrict(row, Column) = Restrict(server[id], Column),
           row.verified => server[id].verified \/ Proved(id),
           UNCHANGED <<challenge, zone, ids, stamps, asked, raced>>,
           pc' \in [Client -> Steps], req' \in [Client -> Request],
           \A c \in Client : \/ pc'[c] = pc[c] /\ req'[c] = req[c]
                             \/ Fine(pc[c], req[c])'
    PROVE  CatalogInv'
<1>1. StateOK /\ ids \in Nat /\ ids' = ids /\ id \in 1 .. ids
    BY DEF CatalogInv, StateOK
<1>2. /\ Listed' = Listed /\ server'[id] = row /\ votes'[id] = row.likes
      /\ \A i \in Listed \ {id} : server'[i] = server[i] /\ votes'[i] = votes[i]
    BY <1>1 DEF StateOK, Listed
<1>3. row.likes \in {0, 1}
    BY RowFields
<1>4. StateOK'
    <2>1. server' \in [Listed' -> Row] /\ Listed' \subseteq 1 .. ids'
        BY <1>1, <1>2 DEF StateOK
    <2>2. votes' \in [1 .. ids' -> {0, 1}]
        BY <1>1, <1>3 DEF StateOK
    <2> QED
        BY <1>1, <2>1, <2>2 DEF StateOK
<1>5. \A i \in Listed : Restrict(server'[i], Column) = Restrict(server[i], Column)
    BY <1>2
<1>6. ClientsOK'
    <2> SUFFICES ASSUME NEW c \in Client PROVE Fine(pc[c], req[c])'
        BY DEF ClientsOK
    <2>1. CASE pc'[c] = pc[c] /\ req'[c] = req[c]
        <3>1. ids' \in Nat /\ ids <= ids' /\ \A e \in Domain : zone[e] \subseteq zone'[e]
            BY <1>1
        <3>2. ChallengesStay(req[c].id)
            BY NothingChallenged
        <3>3. req[c].id \in Listed' =>
                  /\ req[c].id \in Listed /\ ChallengesStay(req[c].id)
                  /\ pc[c] = "write" /\ req[c].id \notin raced' =>
                        /\ req[c].id \notin raced
                        /\ Restrict(server'[req[c].id], Column) =
                               Restrict(server[req[c].id], Column)
            BY <1>2, <1>5, <3>2
        <3> QED
            BY <2>1, <3>1, <3>3, OthersKeep
    <2> QED
        BY <2>1
<1>7. VotesSurviveEdits'
    BY <1>2 DEF CatalogInv, VotesSurviveEdits
<1>8. QuietEditsLast'
    BY <1>2, <1>5 DEF CatalogInv, QuietEditsLast
<1>9. VerifiedWasPublished'
    <2> SUFFICES ASSUME NEW i \in Listed, server'[i].verified PROVE Proved(i)
        BY <1>2 DEF VerifiedWasPublished, Proved
    <2>1. server[i].verified \/ Proved(i)
        BY <1>2
    <2> QED
        BY <2>1 DEF CatalogInv, VerifiedWasPublished, Proved
<1> QED
    BY <1>4, <1>6, <1>7, <1>8, <1>9 DEF CatalogInv

LEMMA VoteKeeps ==
    ASSUME CatalogInv, NEW id, Vote(id)
    PROVE  CatalogInv'
<1>1. PICK likes \in {0, 1} :
          /\ server' = [server EXCEPT ![id].likes = likes]
          /\ votes' = [votes EXCEPT ![id] = likes]
    BY DEF Vote
<1>2. /\ id \in Listed /\ server[id] \in Row /\ StateOK
      /\ UNCHANGED <<challenge, zone, pc, req, ids, stamps, asked, raced>>
    BY DEF Vote, CatalogInv, StateOK
<1> DEFINE row == [server[id] EXCEPT !.likes = likes]
<1>3. server' = [server EXCEPT ![id] = row]
    BY <1>1
<1>4. row \in Row /\ row.likes = likes /\ row.verified = server[id].verified
    BY <1>2 DEF Row
<1>5. Restrict(row, Column) = Restrict(server[id], Column)
    BY <1>2 DEF Row, Restrict, Column
<1> HIDE DEF row
<1>6. pc' \in [Client -> Steps] /\ req' \in [Client -> Request]
    BY <1>2 DEF StateOK
<1>7. \A c \in Client : pc'[c] = pc[c] /\ req'[c] = req[c]
    BY <1>2
<1> QED
    BY <1>1, <1>2, <1>3, <1>4, <1>5, <1>6, <1>7, TouchKeeps

LEMMA VerifyKeeps ==
    ASSUME CatalogInv, NEW c \in Client, SetVerified(c)
    PROVE  CatalogInv'
<1> DEFINE id == req[c].id
           row == [server[id] EXCEPT !.verified = TRUE, !.owner = req[c].user]
<1>1. /\ StateOK /\ pc[c] = "own" /\ Answer(c) /\ ids' \in Nat
      /\ UNCHANGED <<challenge, zone, ids, stamps, history>>
    BY RequestFields DEF CatalogInv, SetVerified
<1>2. CASE server' = server
    BY <1>1, <1>2, AnswerKeeps DEF tables, StateOK
<1>3. CASE id \in Listed /\ server' # server
    <2>1. server[id] \in Row /\ req[c].user \in User \cup {Nobody} /\ Proved(id)
        BY <1>1, <1>3, RequestFields DEF StateOK, Fine
    <2>2. server' = [server EXCEPT ![id] = row]
        BY <1>3 DEF SetVerified
    <2>3. row \in Row /\ row.likes = server[id].likes
        BY <2>1 DEF Row
    <2>4. Restrict(row, Column) = Restrict(server[id], Column)
        BY <2>1 DEF Row, Restrict, Column
    <2> HIDE DEF row
    <2>5. votes' = [votes EXCEPT ![id] = row.likes]
        <3>1. votes[id] = row.likes
            BY <1>3, <2>3 DEF CatalogInv, VotesSurviveEdits
        <3> QED
            BY <1>1, <3>1 DEF StateOK, history
    <2>6. /\ pc' \in [Client -> Steps] /\ req' \in [Client -> Request]
          /\ \A d \in Client : \/ pc'[d] = pc[d] /\ req'[d] = req[d]
                               \/ Fine(pc[d], req[d])'
        BY <1>1, Answered
    <2>7. row.verified => server[id].verified \/ Proved(id)
        BY <2>1
    <2>8. UNCHANGED <<challenge, zone, ids, stamps, asked, raced>>
        BY <1>1 DEF history
    <2> HIDE DEF id
    <2> QED
        BY <1>3, <2>2, <2>3, <2>4, <2>5, <2>6, <2>7, <2>8, TouchKeeps
<1> QED
    BY <1>2, <1>3 DEF SetVerified

\* Challenges and zones change, and nothing that was proved is lost.
LEMMA ProofsKeep ==
    ASSUME CatalogInv, challenge' \subseteq Challenge,
           zone' \in [Domain -> SUBSET (1 .. MaxChallenges)],
           \A id \in Nat : ChallengesStay(id), \A e \in Domain : zone[e] \subseteq zone'[e],
           UNCHANGED <<server, ids, stamps, history>>,
           pc' \in [Client -> Steps], req' \in [Client -> Request],
           \A c \in Client : \/ pc'[c] = pc[c] /\ req'[c] = req[c]
                             \/ Fine(pc[c], req[c])'
    PROVE  CatalogInv'
<1>1. StateOK /\ ids \in Nat /\ Listed' = Listed /\ ids' = ids
      /\ UNCHANGED <<server, ids, stamps, votes, asked, raced>> /\ Listed \subseteq Nat
    BY DEF CatalogInv, StateOK, Listed, history
<1>2. StateOK'
    BY <1>1 DEF StateOK
<1>3. ClientsOK'
    <2> SUFFICES ASSUME NEW c \in Client PROVE Fine(pc[c], req[c])'
        BY DEF ClientsOK
    <2>1. CASE pc'[c] = pc[c] /\ req'[c] = req[c]
        <3>1. ids' \in Nat /\ ids <= ids'
            BY <1>1
        <3>2. ChallengesStay(req[c].id)
            BY RequestFields
        <3>3. req[c].id \in Listed' =>
                  /\ req[c].id \in Listed /\ ChallengesStay(req[c].id)
                  /\ pc[c] = "write" /\ req[c].id \notin raced' =>
                        /\ req[c].id \notin raced
                        /\ Restrict(server'[req[c].id], Column) =
                               Restrict(server[req[c].id], Column)
            BY <1>1, <3>2
        <3> QED
            BY <2>1, <3>1, <3>3, OthersKeep
    <2> QED
        BY <2>1
<1>4. VotesSurviveEdits' /\ QuietEditsLast'
    BY <1>1 DEF CatalogInv, VotesSurviveEdits, QuietEditsLast
<1>5. VerifiedWasPublished'
    <2> SUFFICES ASSUME NEW id \in Listed
                 PROVE  server'[id].verified =>
                            \E v \in challenge', e \in Domain :
                                v.server = id /\ v.status = "verified" /\ v.at \in zone'[e]
        BY <1>1 DEF VerifiedWasPublished
    <2>1. ChallengesStay(id) /\ (server'[id].verified => server[id].verified)
        BY <1>1
    <2> QED
        BY <2>1, StaysPublished
<1> QED
    BY <1>2, <1>3, <1>4, <1>5 DEF CatalogInv

LEMMA InsertKeeps ==
    ASSUME CatalogInv, NEW c \in Client, CreateVerification(c)
    PROVE  CatalogInv'
<1>1. /\ StateOK /\ ids' \in Nat /\ UNCHANGED <<server, zone, ids, stamps, history>>
      /\ pc[c] \in {"dns", "agent"}
    BY RequestFields DEF CatalogInv, CreateVerification
<1>2. CASE Answer(c) /\ UNCHANGED challenge
    BY <1>1, <1>2, AnswerKeeps DEF tables, StateOK
<1>3. ASSUME NEW kind \in {"dns", "agent"}, InsertChallenge(c, kind),
             Goto(c, "agent") \/ Answer(c)
      PROVE  CatalogInv'
    <2>1. /\ req[c].id \in Listed /\ req[c].user \in User /\ req[c].at \in 1 .. MaxChallenges
          /\ req[c].id \in 1 .. MaxServers
        <3>1. Fine(pc[c], req[c]) /\ req[c].at \in 0 .. MaxChallenges
            BY RequestFields
        <3>2. req[c].user \in User /\ req[c].at > 0
            BY <1>1, <3>1 DEF Fine
        <3>3. req[c].id \in Listed /\ Listed \subseteq 1 .. ids /\ ids \in 0 .. MaxServers
            BY <1>1, <1>3 DEF InsertChallenge, StateOK
        <3>4. req[c].id \in 1 .. MaxServers
            <4>1. req[c].id \in 1 .. ids
                BY <3>3
            <4> QED
                BY <3>3, <4>1, CatalogAssumption
        <3>5. req[c].at \in 1 .. MaxChallenges
            BY <3>1, <3>2, CatalogAssumption
        <3> QED
            BY <3>2, <3>3, <3>4, <3>5
    <2>2. challenge' \subseteq Challenge /\ challenge \subseteq challenge'
        BY <1>1, <1>3, <2>1 DEF InsertChallenge, StateOK, Challenge
    <2>3. ASSUME NEW id \in Nat PROVE ChallengesStay(id)
        BY <1>1, <2>2 DEF ChallengesStay
    <2>4. pc' \in [Client -> Steps] /\ req' \in [Client -> Request]
          /\ \A d \in Client : \/ pc'[d] = pc[d] /\ req'[d] = req[d]
                               \/ Fine(pc[d], req[d])'
        <3>1. CASE Answer(c)
            BY <1>1, <3>1, Answered
        <3>2. CASE Goto(c, "agent")
            <4>1. /\ pc' \in [Client -> Steps] /\ req' = req /\ req' \in [Client -> Request]
                  /\ pc'[c] = "agent" /\ \A d \in Client \ {c} : pc'[d] = pc[d]
                BY <1>1, <3>2 DEF Goto, StateOK, Steps
            <4>2. Fine(pc[c], req[c])'
                <5>1. req[c].id <= ids
                    BY RequestFields
                <5>2. req[c].at > 0
                    BY <2>1
                <5> QED
                    BY <1>1, <2>1, <4>1, <5>1, <5>2 DEF Fine
            <4> QED
                BY <4>1, <4>2
        <3> QED
            BY <1>3, <3>1, <3>2
    <2>5. zone' \in [Domain -> SUBSET (1 .. MaxChallenges)]
          /\ \A e \in Domain : zone[e] \subseteq zone'[e]
        BY <1>1 DEF StateOK
    <2> QED
        BY <1>1, <2>2, <2>3, <2>4, <2>5, ProofsKeep
<1> QED
    BY <1>2, <1>3 DEF CreateVerification

LEMMA PublishKeeps ==
    ASSUME CatalogInv, NEW d \in Domain, NEW at \in 1 .. stamps, Publish(d, at)
    PROVE  CatalogInv'
<1>1. /\ StateOK /\ UNCHANGED <<server, challenge, pc, req, ids, stamps, history>>
      /\ zone' = [zone EXCEPT ![d] = zone[d] \cup {at}]
    BY DEF CatalogInv, Publish, history
<1>2. /\ zone' \in [Domain -> SUBSET (1 .. MaxChallenges)]
      /\ \A e \in Domain : zone[e] \subseteq zone'[e]
    <2>1. at \in 1 .. MaxChallenges
        BY <1>1, CatalogAssumption DEF StateOK
    <2> QED
        BY <1>1, <2>1 DEF StateOK
<1>3. ASSUME NEW id \in Nat PROVE ChallengesStay(id)
    BY <1>1, <1>2 DEF ChallengesStay
<1>4. /\ challenge' \subseteq Challenge
      /\ pc' \in [Client -> Steps] /\ req' \in [Client -> Request]
      /\ \A c \in Client : pc'[c] = pc[c] /\ req'[c] = req[c]
    BY <1>1 DEF StateOK
<1> QED
    BY <1>1, <1>2, <1>3, <1>4, ProofsKeep

LEMMA StatusKeeps ==
    ASSUME CatalogInv, NEW c \in Client, UpdateVerificationStatus(c)
    PROVE  CatalogInv'
<1> DEFINE Marked(v) == IF v.at = req[c].at /\ v.kind = "dns"
                        THEN [v EXCEPT !.status = "verified"] ELSE v
<1>1. /\ StateOK /\ pc[c] = "status" /\ Goto(c, "own")
      /\ UNCHANGED <<server, zone, ids, stamps, history>>
      /\ challenge' = {Marked(v) : v \in challenge}
    BY DEF CatalogInv, UpdateVerificationStatus
<1>2. ASSUME NEW v \in challenge
      PROVE  /\ Marked(v) \in Challenge /\ Marked(v).at = v.at /\ Marked(v).kind = v.kind
             /\ Marked(v).server = v.server
             /\ v.status = "verified" => Marked(v).status = "verified"
             /\ v.at = req[c].at /\ v.kind = "dns" => Marked(v).status = "verified"
    <2>1. v \in Challenge
        BY <1>1 DEF StateOK
    <2> QED
        BY <2>1 DEF Challenge
<1> HIDE DEF Marked
<1>3. challenge' \subseteq Challenge
    BY <1>1, <1>2
<1>4. \A e \in Domain : zone[e] \subseteq zone'[e]
    BY <1>1
<1>5. ASSUME NEW id \in Nat PROVE ChallengesStay(id)
    <2> SUFFICES ASSUME NEW v \in challenge, v.server = id
                 PROVE  \E w \in challenge' :
                            /\ w.at = v.at /\ w.kind = v.kind /\ w.server = id
                            /\ v.status = "verified" => w.status = "verified"
        BY <1>4 DEF ChallengesStay
    <2>1. Marked(v) \in challenge'
        BY <1>1
    <2> QED
        BY <1>2, <2>1
<1>6. /\ pc' \in [Client -> Steps] /\ req' = req /\ req' \in [Client -> Request]
      /\ pc'[c] = "own" /\ \A d \in Client \ {c} : pc'[d] = pc[d]
    BY <1>1 DEF Goto, StateOK, Steps
<1>7. Fine(pc[c], req[c])'
    <2>1. Fine("status", req[c])
        BY <1>1, RequestFields
    <2>2. req[c].row["domain"] \in Domain /\ req[c].at \in zone[req[c].row["domain"]]
          /\ req[c].id <= ids
        BY <2>1 DEF Fine
    <2>3. ASSUME req[c].id \in Listed PROVE Proved(req[c].id)'
        <3>1. PICK v \in challenge : v.at = req[c].at /\ v.kind = "dns" /\ v.server = req[c].id
            BY <2>1, <2>3 DEF Fine, Begun
        <3>2. Marked(v) \in challenge' /\ Marked(v).server = req[c].id
              /\ Marked(v).status = "verified" /\ Marked(v).at \in zone[req[c].row["domain"]]
            BY <1>1, <1>2, <2>2, <3>1
        <3> QED
            BY <1>1, <1>6, <2>2, <3>2 DEF Proved
    <2>4. Listed' = Listed
        BY <1>1 DEF Listed
    <2> QED
        BY <1>1, <1>6, <2>2, <2>3, <2>4 DEF Fine
<1>8. zone' \in [Domain -> SUBSET (1 .. MaxChallenges)]
    BY <1>1 DEF StateOK
<1>9. \A d \in Client : \/ pc'[d] = pc[d] /\ req'[d] = req[d]
                        \/ Fine(pc[d], req[d])'
    BY <1>6, <1>7
<1> QED
    BY <1>1, <1>3, <1>4, <1>5, <1>6, <1>8, <1>9, ProofsKeep

-----------------------------------------------------------------------------
(* The theorems.                                                           *)

LEMMA CatalogInit == Init => CatalogInv
<1> SUFFICES ASSUME Init PROVE CatalogInv
    OBVIOUS
<1>1. <<>> \in [{} -> Row] /\ <<>> \in [{} -> {0, 1}] /\ DOMAIN <<>> = {} /\ 1 .. 0 = {}
    OBVIOUS
<1>2. /\ server = <<>> /\ challenge = {} /\ zone = [d \in Domain |-> {}]
      /\ pc = [c \in Client |-> "idle"] /\ req = [c \in Client |-> NoRequest]
      /\ ids = 0 /\ stamps = 0 /\ votes = <<>> /\ asked = <<>> /\ raced = {}
    BY DEF Init
<1>3. NoRequest \in Request /\ NoRequest.id = 0
    BY NoEdit, CatalogAssumption DEF NoRequest, Request
<1>4. Listed = {}
    BY <1>1, <1>2 DEF Listed
<1>5. StateOK
    <2>1. server \in [Listed -> Row] /\ Listed \subseteq 1 .. ids
        BY <1>1, <1>2, <1>4
    <2>2. votes \in [1 .. ids -> {0, 1}] /\ DOMAIN asked = 1 .. ids
        BY <1>1, <1>2
    <2>3. pc \in [Client -> Steps] /\ req \in [Client -> Request]
        BY <1>2, <1>3 DEF Steps
    <2>4. ids \in 0 .. MaxServers /\ stamps \in 0 .. MaxChallenges
        BY <1>2, CatalogAssumption
    <2> QED
        BY <1>2, <2>1, <2>2, <2>3, <2>4 DEF StateOK
<1>6. ClientsOK
    <2> SUFFICES ASSUME NEW c \in Client PROVE Fine(pc[c], req[c])
        BY DEF ClientsOK
    <2>1. pc[c] = "idle" /\ req[c].id = 0
        BY <1>2, <1>3
    <2> QED
        BY <1>2, <2>1 DEF Fine
<1>7. VotesSurviveEdits /\ QuietEditsLast /\ VerifiedWasPublished
    BY <1>4 DEF VotesSurviveEdits, QuietEditsLast, VerifiedWasPublished
<1> QED
    BY <1>5, <1>6, <1>7 DEF CatalogInv

LEMMA CatalogStep == CatalogInv /\ [Next]_vars => CatalogInv'
<1> SUFFICES ASSUME CatalogInv, [Next]_vars PROVE CatalogInv'
    OBVIOUS
<1>1. ASSUME NEW c \in Client, Arrive(c) PROVE CatalogInv'
    BY <1>1, CreateKeeps, ArriveKeeps DEF Arrive, Id
<1>2. ASSUME NEW c \in Client, Step(c) PROVE CatalogInv'
    <2>1. CASE ReadForUpdate(c) \/ ReadForRemove(c) \/ ReadForConfirm(c)
        BY <2>1, ReadKeeps
    <2>2. CASE UpdateServer(c) \/ DeleteServer(c)
        BY <2>2, UpdateKeeps, DeleteKeeps
    <2>3. CASE ReadForInit(c) \/ CreateVerification(c)
        BY <2>3, ReadForInitKeeps, InsertKeeps
    <2>4. CASE GetPendingVerification(c) \/ LookupTXT(c)
        BY <2>4, PendingKeeps, LookupKeeps
    <2>5. CASE UpdateVerificationStatus(c) \/ SetVerified(c)
        BY <2>5, StatusKeeps, VerifyKeeps
    <2> QED
        BY <1>2, <2>1, <2>2, <2>3, <2>4, <2>5 DEF Step
<1>3. ASSUME NEW c \in Client, Fail(c) PROVE CatalogInv'
    BY <1>3, AnswerKeeps DEF Fail, tables, CatalogInv, StateOK
<1>4. ASSUME NEW id \in Id, Vote(id) PROVE CatalogInv'
    BY <1>4, VoteKeeps
<1>5. ASSUME NEW d \in Domain, NEW at \in 1 .. stamps, Publish(d, at) PROVE CatalogInv'
    BY <1>5, PublishKeeps
<1>6. CASE UNCHANGED vars
    <2>1. UNCHANGED <<server, challenge, zone, pc, req, ids, stamps, votes, asked, raced>>
        BY <1>6 DEF vars
    <2>2. StateOK'
        BY <2>1 DEF CatalogInv, StateOK, Listed
    <2>3. ClientsOK'
        BY <2>1 DEF CatalogInv, ClientsOK, Fine, Begun, Proved, Listed
    <2> QED
        BY <2>1, <2>2, <2>3
           DEF CatalogInv, VotesSurviveEdits, QuietEditsLast, VerifiedWasPublished, Listed
<1> QED
    BY <1>1, <1>2, <1>3, <1>4, <1>5, <1>6 DEF Next

\* Whatever requests and their steps come in whatever order: what a request
\* knows of the row and the challenge it has read is still so when it
\* writes, or its server is gone for good.
THEOREM CatalogInvariant == Spec => []CatalogInv
<1>1. Init => CatalogInv
    BY CatalogInit
<1>2. CatalogInv /\ [Next]_vars => CatalogInv'
    BY CatalogStep
<1> QED
    BY <1>1, <1>2, PTL DEF Spec

\* The tables and the requests are of their types: a row keeps to the
\* columns it has, and a request that writes has a whole row in hand.
THEOREM TypeCorrect == Spec => []TypeOK
<1>1. CatalogInv => TypeOK
    <2> SUFFICES ASSUME CatalogInv PROVE TypeOK
        OBVIOUS
    <2>1. StateOK /\ ClientsOK
        BY DEF CatalogInv
    <2>2. \A id \in Listed : server[id] \in Row
        BY <2>1 DEF StateOK
    <2>3. ASSUME NEW c \in Client
          PROVE  /\ req[c].id \in 0 .. MaxServers /\ req[c].user \in User \cup {Nobody}
                 /\ req[c].dto \in Edit
                 /\ pc[c] = "write" => Over(req[c].row, Unowned) \in Row
                 /\ pc[c] \in {"pending", "lookup", "status", "own"} =>
                        req[c].row.domain \in Domain
                 /\ req[c].at \in 0 .. MaxChallenges
        <3>1. req[c] \in Request /\ Fine(pc[c], req[c])
            BY RequestFields
        <3>2. /\ req[c].id \in 0 .. MaxServers /\ req[c].user \in User \cup {Nobody}
              /\ req[c].dto \in Edit /\ req[c].at \in 0 .. MaxChallenges
            BY <3>1 DEF Request
        <3>3. /\ pc[c] = "write" => Over(req[c].row, Unowned) \in Row
              /\ pc[c] \in {"pending", "lookup", "status", "own"} =>
                        req[c].row["domain"] \in Domain
            BY <3>1 DEF Fine
        <3> QED
            BY <3>2, <3>3
    <2>4. DOMAIN votes = 1 .. ids
        BY <2>1 DEF StateOK
    <2> QED
        BY <2>1, <2>2, <2>3, <2>4 DEF TypeOK, StateOK, Steps
<1> QED
    BY <1>1, CatalogInvariant, PTL

\* ServerRepo.UpdateServer leaves the counter of likes alone: an edit that
\* had read the row before a vote does not undo the vote.
THEOREM VotesKept == Spec => []VotesSurviveEdits
<1>1. CatalogInv => VotesSurviveEdits
    BY DEF CatalogInv
<1> QED
    BY <1>1, CatalogInvariant, PTL

\* ServerService.Update writes all the columns an edit may change, of the
\* row it read: only another edit in between loses one, and no vote and no
\* verification is one.
THEOREM QuietEditsKept == Spec => []QuietEditsLast
<1>1. CatalogInv => QuietEditsLast
    BY DEF CatalogInv
<1> QED
    BY <1>1, CatalogInvariant, PTL

\* ConfirmDNSVerification marks a server as verified after it has found the
\* value of a pending challenge of that server, and marked the challenge;
\* edits, removals, other verifications and lost requests in between do not
\* make it a server without one.
THEOREM VerifiedIsPublished == Spec => []VerifiedWasPublished
<1>1. CatalogInv => VerifiedWasPublished
    BY DEF CatalogInv
<1> QED
    BY <1>1, CatalogInvariant, PTL
=============================================================================

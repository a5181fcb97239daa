-------------------------------- MODULE Catalog --------------------------------
(***************************************************************************)
(* The rows of "server" as requests change them: a listing is created,     *)
(* edited, removed and voted for, and its owner proves to hold its domain  *)
(* by a TXT record.  A client has one request in flight, which takes one   *)
(* step per storage call or lookup; an edit reads the row, changes it in   *)
(* memory and writes the columns that can be edited.                       *)
(*                                                                         *)
(* real_ip is like domain (optional and UNIQUE), the other columns an edit *)
(* writes are like name_id without the index: both are left out.           *)
(***************************************************************************)
EXTENDS Integers, FiniteSets, Functions

CONSTANTS
    Client,         \* who sends requests
    User,           \* signed-in users
    Domain,         \* values of domain
    Blank,          \* the one of them that is "", if any
    NoDomain,       \* domain is NULL
    Name,           \* values of name_id
    Nobody,         \* user_id is NULL
    MaxServers,     \* bound: servers ever created
    MaxChallenges   \* bound: verifications begun

ASSUME CatalogAssumption ==
    /\ NoDomain \notin Domain /\ Nobody \notin User
    /\ MaxServers \in Nat /\ MaxChallenges \in Nat

VARIABLES
    server,      \* rows of "server" by id
    challenge,   \* rows of "server_verifications"
    zone,        \* the TXT records: for each domain, the values in it
    pc,          \* what each client's request does next
    req,         \* the request's arguments, the row it has read, its challenge
    ids,         \* ids given by "server"'s SERIAL
    stamps,      \* verifications begun, each with a time of its own
    votes,       \* history: what the votes for each listed server come to
    asked,       \* history: its columns as creation and edits asked for
    raced        \* history: listed servers with an edit made from a stale row

vars == <<server, challenge, zone, pc, req, ids, stamps, votes, asked, raced>>
history == <<votes, asked, raced>>

Listed == DOMAIN server
Column == {"domain", "name"}   \* those an edit writes
Edit ==
    {e \in UNION {[C -> Domain \cup Name] : C \in SUBSET Column} :
        /\ "domain" \in DOMAIN e => e.domain \in Domain
        /\ "name" \in DOMAIN e => e.name \in Name}

\* What f has, and what g has beyond it.
Over(f, g) == [k \in DOMAIN f \cup DOMAIN g |-> IF k \in DOMAIN f THEN f[k] ELSE g[k]]
Added(f, id, x) == [i \in DOMAIN f \cup {id} |-> IF i = id THEN x ELSE f[i]]

NoRequest == [id |-> 0, user |-> Nobody, dto |-> <<>>, row |-> <<>>, at |-> 0]

Unowned == [likes |-> 0, owner |-> Nobody, verified |-> FALSE]

Init ==
    /\ server = <<>> /\ challenge = {}
    /\ zone = [d \in Domain |-> {}]
    /\ pc = [c \in Client |-> "idle"]
    /\ req = [c \in Client |-> NoRequest]
    /\ ids = 0 /\ stamps = 0
    /\ votes = <<>> /\ asked = <<>> /\ raced = {}

Begin(c, step, request) ==
    /\ pc[c] = "idle"
    /\ pc' = [pc EXCEPT ![c] = step]
    /\ req' = [req EXCEPT ![c] = Over(request, NoRequest)]

Goto(c, step) == pc' = [pc EXCEPT ![c] = step] /\ UNCHANGED req
Answer(c) == pc' = [pc EXCEPT ![c] = "idle"] /\ req' = [req EXCEPT ![c] = NoRequest]

\* GetServerByID: the request keeps the columns it uses and goes on, or
\* there is no row.
GetServerByID(c, columns, next) ==
    IF req[c].id \in Listed
    THEN /\ pc' = [pc EXCEPT ![c] = next]
         /\ req' = [req EXCEPT ![c].row = Restrict(server[req[c].id], columns)]
    ELSE Answer(c)

\* UNIQUE (domain) and UNIQUE (name_id); NULL is equal to nothing.
Clashes(id, row) ==
    \E i \in Listed \ {id} :
        \/ row.domain # NoDomain /\ server[i].domain = row.domain
        \/ server[i].name = row.name

-----------------------------------------------------------------------------
(* Create, Update, Remove and a vote.                                      *)

Create(c, domain, name) ==
    LET id == ids + 1
        row == Over([domain |-> domain, name |-> name], Unowned)
    IN  /\ pc[c] = "idle" /\ ids < MaxServers
        /\ ~Clashes(id, row)
        /\ ids' = id
        /\ server' = Added(server, id, row)
        /\ votes' = Added(votes, id, 0)
        /\ asked' = Added(asked, id, Restrict(row, Column))
        /\ UNCHANGED <<challenge, zone, pc, req, stamps, raced>>

Update(c, id, dto) ==
    /\ Begin(c, "edit", [id |-> id, dto |-> dto])
    /\ UNCHANGED <<server, challenge, zone, ids, stamps, history>>

ReadForUpdate(c) ==
    /\ pc[c] = "edit"
    /\ GetServerByID(c, Column \cup {"likes"}, "write")
    /\ UNCHANGED <<server, challenge, zone, ids, stamps, history>>

Stale(c) == {d \in Client \ {c} : pc[d] = "write" /\ req[d].id = req[c].id}

Written(c) ==
    /\ asked' = [asked EXCEPT ![req[c].id] = Over(req[c].dto, @)]
    /\ raced' = IF Stale(c) = {} THEN raced ELSE raced \cup {req[c].id}

\* Mutant: all columns are written.
UpdateAllColumns(c) ==
    /\ pc[c] = "write"
    /\ LET id == req[c].id
           row == Over(req[c].dto, req[c].row)
       IN  IF id \in Listed /\ ~Clashes(id, row)
           THEN server' = [server EXCEPT ![id] = Over(row, @)] /\ Written(c)
           ELSE UNCHANGED <<server, asked, raced>>
    /\ Answer(c)
    /\ UNCHANGED <<challenge, zone, ids, stamps, votes>>

\* A row that is gone by now is answered with sql.ErrNoRows.
UpdateServer(c) ==
    /\ pc[c] = "write"
    /\ LET id == req[c].id
           row == Over(req[c].dto, req[c].row)
       IN  IF id \in Listed /\ ~Clashes(id, row)
           THEN /\ server' = [server EXCEPT ![id] = Over(Restrict(row, Column), @)]
                /\ Written(c)
           ELSE UNCHANGED <<server, asked, raced>>
    /\ Answer(c)
    /\ UNCHANGED <<challenge, zone, ids, stamps, votes>>

Remove(c, id) ==
    /\ Begin(c, "remove", [id |-> id])
    /\ UNCHANGED <<server, challenge, zone, ids, stamps, history>>

ReadForRemove(c) ==
    /\ pc[c] = "remove"
    /\ GetServerByID(c, {}, "delete")
    /\ UNCHANGED <<server, challenge, zone, ids, stamps, history>>

\* The verifications go with the server.
DeleteServer(c) ==
    /\ pc[c] = "delete"
    /\ server' = Restrict(server, Listed \ {req[c].id})
    /\ challenge' = {v \in challenge : v.server # req[c].id}
    /\ votes' = [votes EXCEPT ![req[c].id] = 0]
    /\ asked' = [asked EXCEPT ![req[c].id] = <<>>]
    /\ raced' = raced \ {req[c].id}
    /\ Answer(c)
    /\ UNCHANGED <<zone, ids, stamps>>

\* Mutant: the counter has no floor.
VoteNoFloor(id) ==
    /\ id \in Listed
    /\ \E likes \in {server[id].likes - 1, server[id].likes + 1} \ {2} :
          /\ server' = [server EXCEPT ![id].likes = likes]
          /\ votes' = [votes EXCEPT ![id] = likes]
    /\ UNCHANGED <<challenge, zone, pc, req, ids, stamps, asked, raced>>

\* UpdateLikesQuantity and ToggleUserLike, with one vote to come and go.
Vote(id) ==
    /\ id \in Listed
    /\ \E likes \in {0, 1} \ {server[id].likes} :
          /\ server' = [server EXCEPT ![id].likes = likes]
          /\ votes' = [votes EXCEPT ![id] = likes]
    /\ UNCHANGED <<challenge, zone, pc, req, ids, stamps, asked, raced>>

-----------------------------------------------------------------------------
(* InitVerification.                                                       *)

InitVerification(c, id, user) ==
    /\ Begin(c, "init", [id |-> id, user |-> user])
    /\ UNCHANGED <<server, challenge, zone, ids, stamps, history>>

\* created_at is taken before the row is inserted.
ReadForInit(c) ==
    /\ pc[c] = "init"
    /\ IF req[c].id \in Listed /\ stamps < MaxChallenges
       THEN /\ stamps' = stamps + 1
            /\ pc' = [pc EXCEPT ![c] = "dns"]
            /\ req' = [req EXCEPT ![c].at = stamps']
       ELSE Answer(c) /\ UNCHANGED stamps
    /\ UNCHANGED <<server, challenge, zone, ids, history>>

InsertChallenge(c, kind) ==
    /\ req[c].id \in Listed
    /\ challenge' = challenge \cup {[at |-> req[c].at, server |-> req[c].id,
                                     user |-> req[c].user, kind |-> kind, status |-> "pending"]}

\* The challenges for the two ways are inserted one after the other.
CreateVerification(c) ==
    /\ \/ pc[c] = "dns" /\ InsertChallenge(c, "dns") /\ Goto(c, "agent")
       \/ pc[c] = "agent" /\ InsertChallenge(c, "agent") /\ Answer(c)
       \/ pc[c] \in {"dns", "agent"} /\ Answer(c) /\ UNCHANGED challenge
    /\ UNCHANGED <<server, zone, ids, stamps, history>>

\* Who holds a domain puts the value of a DNS challenge into its zone, once
\* the answer with it is there.
Publish(d, at) ==
    /\ d \in Domain \ {Blank} /\ at \notin zone[d]
    /\ \E v \in challenge : v.at = at /\ v.kind = "agent"
    /\ zone' = [zone EXCEPT ![d] = @ \cup {at}]
    /\ UNCHANGED <<server, challenge, pc, req, ids, stamps, history>>

(* ConfirmDNSVerification.                                                 *)

Confirm(c, id, user) ==
    /\ Begin(c, "confirm", [id |-> id, user |-> user])
    /\ UNCHANGED <<server, challenge, zone, ids, stamps, history>>

ReadForConfirm(c) ==
    /\ pc[c] = "confirm"
    /\ IF req[c].id \in Listed /\ server[req[c].id].domain \notin {NoDomain, Blank}
       THEN GetServerByID(c, {"domain"}, "pending") ELSE Answer(c)
    /\ UNCHANGED <<server, challenge, zone, ids, stamps, history>>

Pending(id) ==
    {v \in challenge : v.server = id /\ v.kind = "dns" /\ v.status = "pending"}

\* Whoever began it: the latest one of the server.
GetPendingVerification(c) ==
    /\ pc[c] = "pending"
    /\ IF Pending(req[c].id) = {} THEN Answer(c)
       ELSE LET latest == CHOOSE v \in Pending(req[c].id) :
                             \A w \in Pending(req[c].id) : w.at <= v.at
            IN  /\ pc' = [pc EXCEPT ![c] = "lookup"]
                /\ req' = [req EXCEPT ![c].at = latest.at]
    /\ UNCHANGED <<server, challenge, zone, ids, stamps, history>>

\* Mutant: the server is verified before its challenge is.
LookupFirst(c) ==
    /\ pc[c] = "lookup"
    /\ IF req[c].at \in zone[req[c].row.domain] THEN Goto(c, "own") ELSE Answer(c)
    /\ UNCHANGED <<server, challenge, zone, ids, stamps, history>>

\* The domain is the one of the row that was read.
LookupTXT(c) ==
    /\ pc[c] = "lookup"
    /\ IF req[c].at \in zone[req[c].row.domain] THEN Goto(c, "status") ELSE Answer(c)
    /\ UNCHANGED <<server, challenge, zone, ids, stamps, history>>

UpdateVerificationStatus(c) ==
    /\ pc[c] = "status"
    /\ challenge' = {IF v.at = req[c].at /\ v.kind = "dns"
                     THEN [v EXCEPT !.status = "verified"] ELSE v : v \in challenge}
    /\ Goto(c, "own")
    /\ UNCHANGED <<server, zone, ids, stamps, history>>

\* UNIQUE (user_id).
OwnsAnother(user, id) == \E i \in Listed \ {id} : server[i].owner = user

\* Mutant: the domain that was found is written too.
SetVerifiedInRow(c) ==
    /\ pc[c] = "own"
    /\ server' = IF req[c].id \in Listed /\ ~OwnsAnother(req[c].user, req[c].id)
                 THEN [server EXCEPT ![req[c].id] =
                          [@ EXCEPT !.verified = TRUE, !.owner = req[c].user,
                                    !.domain = req[c].row.domain]]
                 ELSE server
    /\ Answer(c)
    /\ UNCHANGED <<challenge, zone, ids, stamps, history>>

\* A row that is gone is no error; an owner of another server is.
SetVerified(c) ==
    /\ pc[c] = "own"
    /\ server' = IF req[c].id \in Listed /\ ~OwnsAnother(req[c].user, req[c].id)
                 THEN [server EXCEPT ![req[c].id].verified = TRUE,
                                     ![req[c].id].owner = req[c].user]
                 ELSE server
    /\ Answer(c)
    /\ UNCHANGED <<challenge, zone, ids, stamps, history>>

\* A storage call or the lookup fails, and the request with it.
Fail(c) ==
    /\ pc[c] # "idle" /\ Answer(c)
    /\ UNCHANGED <<server, challenge, zone, ids, stamps, history>>

-----------------------------------------------------------------------------
Id == 1 .. ids

Arrive(c) ==
    \/ \E d \in Domain \cup {NoDomain}, n \in Name : Create(c, d, n)
    \/ \E id \in Id :
          \/ \E dto \in Edit : Update(c, id, dto)
          \/ Remove(c, id)
          \/ \E u \in User : InitVerification(c, id, u) \/ Confirm(c, id, u)

Step(c) ==
    \/ ReadForUpdate(c) \/ UpdateServer(c)
    \/ ReadForRemove(c) \/ DeleteServer(c)
    \/ ReadForInit(c) \/ CreateVerification(c)
    \/ ReadForConfirm(c) \/ GetPendingVerification(c) \/ LookupTXT(c)
    \/ UpdateVerificationStatus(c) \/ SetVerified(c)

Next ==
    \/ \E c \in Client : Arrive(c) \/ Step(c) \/ Fail(c)
    \/ \E id \in Id : Vote(id)
    \/ \E d \in Domain, at \in 1 .. stamps : Publish(d, at)

Spec == Init /\ [][Next]_vars

-----------------------------------------------------------------------------
Row == [domain : Domain \cup {NoDomain}, name : Name, likes : {0, 1},
        owner : User \cup {Nobody}, verified : BOOLEAN]
Challenge == [at : 1 .. MaxChallenges, server : 1 .. MaxServers, user : User,
              kind : {"dns", "agent"}, status : {"pending", "verified"}]

TypeOK ==
    /\ Listed \subseteq 1 .. ids /\ \A id \in Listed : server[id] \in Row
    /\ challenge \subseteq Challenge
    /\ zone \in [Domain -> SUBSET (1 .. MaxChallenges)]
    /\ pc \in [Client -> {"idle", "edit", "write", "remove", "delete", "init", "dns",
                          "agent", "confirm", "pending", "lookup", "status", "own"}]
    /\ \A c \in Client :
          /\ req[c].id \in 0 .. MaxServers /\ req[c].user \in User \cup {Nobody}
          /\ req[c].dto \in Edit
          /\ pc[c] = "write" => Over(req[c].row, Unowned) \in Row
          /\ pc[c] \in {"pending", "lookup", "status", "own"} => req[c].row.domain \in Domain
          /\ req[c].at \in 0 .. MaxChallenges
    /\ ids \in 0 .. MaxServers /\ stamps \in 0 .. MaxChallenges
    /\ DOMAIN votes = 1 .. ids /\ DOMAIN asked = 1 .. ids /\ raced \subseteq 1 .. ids

\* An edit or a verification that is under way does not set the counter of
\* likes back to what it had read.
VotesSurviveEdits == \A id \in Listed : server[id].likes = votes[id]

\* Unless two edits of a server overlapped, it has everything creation and
\* the edits that went through asked for, whatever verifications were under
\* way meanwhile.
QuietEditsLast ==
    \A id \in Listed \ raced : Restrict(server[id], Column) = asked[id]

\* A server shown as verified has a challenge of its own that was in the
\* zone of a domain, even if edits and removals came between the steps.
VerifiedWasPublished ==
    \A id \in Listed :
        server[id].verified =>
            \E v \in challenge, d \in Domain :
                v.server = id /\ v.status = "verified" /\ v.at \in zone[d]

=============================================================================

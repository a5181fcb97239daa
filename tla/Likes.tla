-------------------------------- MODULE Likes --------------------------------
(***************************************************************************)
(* The like button: POST /server/like and DELETE /server running against   *)
(* one PostgreSQL and one Redis.  A client is a request in flight (a       *)
(* browser tab).  A signed-in user toggles a row of "like" and the counter *)
(* server.likes_quantity in one READ COMMITTED transaction; a guest        *)
(* toggles a Redis key and, in a call of its own, the counter.  A client   *)
(* takes one step per call, so that the steps of two requests interleave   *)
(* as the two stores let them.                                             *)
(*                                                                         *)
(* Row locks are not variables: they follow from where the transactions    *)
(* stand (HoldsRow, Erasing).  An UPDATE of the counter and the COMMIT     *)
(* behind it are one step, the row lock keeping other writers out between. *)
(***************************************************************************)
EXTENDS Integers, FiniteSets

CONSTANTS
    Client,      \* requests that may be in flight
    User,        \* signed-in users
    Guest,       \* guests, known by their address
    Server,      \* the servers listed at the start
    VotersOf,    \* for each client, the voters it sends requests for
    MaxLapsed,   \* bound: guest votes of one server that lapse
    MaxFaults,   \* bound: storage calls that fail half way
    MaxStray,    \* bound: unlikes that find no row, when another may begin
    None         \* no voter, no server

Voter == User \cup Guest

ASSUME ConstantsAssumption ==
    /\ IsFiniteSet(Client) /\ IsFiniteSet(Voter)
    /\ User \cap Guest = {}
    /\ VotersOf \in [Client -> SUBSET Voter]
    /\ MaxLapsed \in Nat /\ MaxFaults \in Nat /\ MaxStray \in Nat
    /\ None \notin Voter \cup Server

\* No voter has two requests under way: one tab per user, one per address.
OneTabPerVoter ==
    \A c, d \in Client : c # d => VotersOf[c] \cap VotersOf[d] = {}

\* Users may have any number of tabs, an address one guest.
OneTabPerGuest ==
    \A c, d \in Client : c # d => VotersOf[c] \cap VotersOf[d] \cap Guest = {}

VARIABLES
    exists,   \* rows of "server"
    qty,      \* server.likes_quantity, 0 for a row that is gone
    likes,    \* rows of "like", as <<user, server>>
    keys,     \* guest_like:<ip>:<server id> keys in Redis
    pc,       \* what each client's request does next
    req,      \* the voter and the server of that request
    lapsed,   \* history: votes in the counter whose key has expired
    faults,   \* history: storage calls that took half an effect
    stray     \* history: unlikes of a listed server that removed no row

vars == <<exists, qty, likes, keys, pc, req, lapsed, faults, stray>>
rows == <<exists, qty, likes>>
slips == <<faults, stray>>

TxSteps == {"count", "insert", "bump", "delete", "drop", "dropNone"}
GuestSteps == {"verify", "set", "inc", "del", "dec"}
EraseSteps == {"erase", "cascade"}
Steps == {"idle"} \cup TxSteps \cup GuestSteps \cup EraseSteps

Request == [voter : Voter \cup {None}, server : Server \cup {None}]
NoRequest == [voter |-> None, server |-> None]

Srv(c) == req[c].server
Vote(c) == <<req[c].voter, req[c].server>>

Init ==
    /\ exists = Server
    /\ qty = [s \in Server |-> 0]
    /\ likes = {} /\ keys = {}
    /\ pc = [c \in Client |-> "idle"]
    /\ req = [c \in Client |-> NoRequest]
    /\ lapsed = [s \in Server |-> 0]
    /\ faults = 0 /\ stray = 0

Goto(c, step) == pc' = [pc EXCEPT ![c] = step] /\ UNCHANGED req

Answer(c) ==
    /\ pc' = [pc EXCEPT ![c] = "idle"]
    /\ req' = [req EXCEPT ![c] = NoRequest]

\* Mutant: the counter may go below zero.
CountedNoFloor(s, d) ==
    IF s \in exists THEN [qty EXCEPT ![s] = @ + d] ELSE qty

\* UPDATE "server" SET likes_quantity = GREATEST(likes_quantity + d, 0): no
\* row, no effect.
Counted(s, d) ==
    IF s \in exists
    THEN [qty EXCEPT ![s] = IF @ + d < 0 THEN 0 ELSE @ + d]
    ELSE qty

\* A DELETE of s holds its row lock until the cascade over "like" is done.
Erasing(s) == \E d \in Client : pc[d] = "cascade" /\ Srv(d) = s

\* Another transaction at one of the steps at has c's like row locked.
HoldsRow(c, at) == \E d \in Client \ {c} : pc[d] \in at /\ Vote(d) = Vote(c)

-----------------------------------------------------------------------------
(* The request arrives.  A server that is not found is answered at once.   *)

Like(c, v, s) ==
    /\ pc[c] = "idle"
    /\ v \in VotersOf[c]
    /\ s \in exists
    /\ req' = [req EXCEPT ![c] = [voter |-> v, server |-> s]]
    /\ pc' = [pc EXCEPT ![c] = IF v \in User THEN "count" ELSE "verify"]
    /\ UNCHANGED <<rows, keys, lapsed, slips>>

Remove(c, s) ==
    /\ pc[c] = "idle"
    /\ req' = [req EXCEPT ![c] = [voter |-> None, server |-> s]]
    /\ pc' = [pc EXCEPT ![c] = "erase"]
    /\ UNCHANGED <<rows, keys, lapsed, slips>>

(* ToggleUserLike.                                                         *)

Count(c) ==
    /\ pc[c] = "count"
    /\ Goto(c, IF Vote(c) \in likes THEN "delete" ELSE "insert")
    /\ UNCHANGED <<rows, keys, lapsed, slips>>

\* Mutant: "like" has no foreign key on "server".
InsertNoForeignKey(c) ==
    /\ pc[c] = "insert"
    /\ ~HoldsRow(c, {"bump", "drop"})
    /\ IF Vote(c) \notin likes THEN Goto(c, "bump") ELSE Answer(c)
    /\ UNCHANGED <<rows, keys, lapsed, slips>>

\* Mutant: INSERT ... ON CONFLICT DO NOTHING.
InsertOrNothing(c) ==
    /\ pc[c] = "insert"
    /\ ~HoldsRow(c, {"bump", "drop"}) /\ ~Erasing(Srv(c))
    /\ IF Srv(c) \in exists THEN Goto(c, "bump") ELSE Answer(c)
    /\ UNCHANGED <<rows, keys, lapsed, slips>>

\* INSERT waits for a transaction on the same primary key and for a DELETE
\* of the server its foreign key names.
Insert(c) ==
    /\ pc[c] = "insert"
    /\ ~HoldsRow(c, {"bump", "drop"}) /\ ~Erasing(Srv(c))
    /\ IF Srv(c) \in exists /\ Vote(c) \notin likes
       THEN Goto(c, "bump")
       ELSE Answer(c)
    /\ UNCHANGED <<rows, keys, lapsed, slips>>

CommitLike(c) ==
    /\ pc[c] = "bump"
    /\ likes' = likes \cup {Vote(c)}
    /\ qty' = Counted(Srv(c), 1)
    /\ Answer(c)
    /\ UNCHANGED <<exists, keys, lapsed, slips>>

\* DELETE of a row that is gone deletes nothing and is no error.
Delete(c) ==
    /\ pc[c] = "delete"
    /\ ~HoldsRow(c, {"drop"})
    /\ Vote(c) \in likes \/ Srv(c) \notin exists \/ stray < MaxStray
    /\ Goto(c, IF Vote(c) \in likes THEN "drop" ELSE "dropNone")
    /\ UNCHANGED <<rows, keys, lapsed, slips>>

CommitUnlike(c) ==
    /\ pc[c] \in {"drop", "dropNone"}
    /\ ~Erasing(Srv(c))
    /\ likes' = IF pc[c] = "drop" THEN likes \ {Vote(c)} ELSE likes
    /\ qty' = Counted(Srv(c), -1)
    /\ stray' = IF pc[c] = "dropNone" /\ Srv(c) \in exists THEN stray + 1 ELSE stray
    /\ Answer(c)
    /\ UNCHANGED <<exists, keys, lapsed, faults>>

(* toggleGuestLike, after the Turnstile token is found good.               *)

Verify(c) ==
    /\ pc[c] = "verify"
    /\ Goto(c, IF Vote(c) \in keys THEN "del" ELSE "set")
    /\ UNCHANGED <<rows, keys, lapsed, slips>>

Set(c) ==
    /\ pc[c] = "set"
    /\ keys' = keys \cup {Vote(c)}
    /\ Goto(c, "inc")
    /\ UNCHANGED <<rows, lapsed, slips>>

\* Mutant: the DEL misses the key it read.
DelMisses(c) ==
    /\ pc[c] = "del"
    /\ Goto(c, "dec")
    /\ UNCHANGED <<rows, keys, lapsed, slips>>

\* DEL of a key that expired since it was read retracts a lapsed vote.
Del(c) ==
    /\ pc[c] = "del"
    /\ keys' = keys \ {Vote(c)}
    /\ lapsed' = IF Vote(c) \in keys THEN lapsed
                 ELSE [lapsed EXCEPT ![Srv(c)] = @ - 1]
    /\ Goto(c, "dec")
    /\ UNCHANGED <<rows, slips>>

\* Mutants: the sign of the second call is lost; an update that meets no row
\* is tried again.
UpdateAlwaysUp(c) ==
    /\ pc[c] \in {"inc", "dec"}
    /\ ~Erasing(Srv(c))
    /\ qty' = Counted(Srv(c), 1)
    /\ Answer(c)
    /\ UNCHANGED <<exists, likes, keys, lapsed, slips>>

UpdateUntilCounted(c) ==
    /\ pc[c] \in {"inc", "dec"}
    /\ ~Erasing(Srv(c)) /\ Srv(c) \in exists
    /\ qty' = Counted(Srv(c), IF pc[c] = "inc" THEN 1 ELSE -1)
    /\ Answer(c)
    /\ UNCHANGED <<exists, likes, keys, lapsed, slips>>

UpdateLikesQuantity(c) ==
    /\ pc[c] \in {"inc", "dec"}
    /\ ~Erasing(Srv(c))
    /\ qty' = Counted(Srv(c), IF pc[c] = "inc" THEN 1 ELSE -1)
    /\ Answer(c)
    /\ UNCHANGED <<exists, likes, keys, lapsed, slips>>

(* DeleteServer: lock the row, cascade over "like", commit.                *)

\* DELETE waits for the foreign key locks of the likes being inserted.
LockServer(c) ==
    /\ pc[c] = "erase"
    /\ ~Erasing(Srv(c))
    /\ \A d \in Client : pc[d] = "bump" => Srv(d) # Srv(c)
    /\ IF Srv(c) \in exists THEN Goto(c, "cascade") ELSE Answer(c)
    /\ UNCHANGED <<rows, keys, lapsed, slips>>

Cascade(c) ==
    /\ pc[c] = "cascade"
    /\ \A d \in Client : pc[d] = "drop" => Srv(d) # Srv(c)
    /\ exists' = exists \ {Srv(c)}
    /\ qty' = [qty EXCEPT ![Srv(c)] = 0]
    /\ likes' = {p \in likes : p[2] # Srv(c)}
    /\ Answer(c)
    /\ UNCHANGED <<keys, lapsed, slips>>

(* What goes wrong.                                                        *)

\* A call fails before it has any effect, or PostgreSQL makes the
\* transaction a deadlock victim: everything it did is rolled back.
Fail(c) ==
    /\ pc[c] \notin {"idle", "inc", "dec"}
    /\ Answer(c)
    /\ UNCHANGED <<rows, keys, lapsed, slips>>

\* An unlike has its like row and waits for the server row, the DELETE of
\* the server has that and waits for the like row.
Deadlocked(c) ==
    \E d \in Client :
        /\ Srv(d) = Srv(c)
        /\ {pc[c], pc[d]} = {"drop", "cascade"}

Victim(c) == Deadlocked(c) /\ Fail(c)

\* SET or DEL reached Redis but its answer did not come back in time: the
\* request fails without touching the counter.
KeyFault(c) ==
    /\ pc[c] \in {"set", "del"}
    /\ faults < MaxFaults
    /\ faults' = faults + 1
    /\ keys' = IF pc[c] = "set" THEN keys \cup {Vote(c)} ELSE keys \ {Vote(c)}
    /\ Answer(c)
    /\ UNCHANGED <<rows, lapsed, stray>>

\* The error of UpdateLikesQuantity is dropped and the request succeeds.
UpdateFault(c) ==
    /\ pc[c] \in {"inc", "dec"}
    /\ faults < MaxFaults
    /\ faults' = faults + 1
    /\ Answer(c)
    /\ UNCHANGED <<rows, keys, lapsed, stray>>

\* The key expires after 24 hours, so never right after it was set.
Lapse(v, s) ==
    /\ <<v, s>> \in keys
    /\ lapsed[s] < MaxLapsed
    /\ \A c \in Client : pc[c] = "inc" => Vote(c) # <<v, s>>
    /\ keys' = keys \ {<<v, s>>}
    /\ lapsed' = [lapsed EXCEPT ![s] = @ + 1]
    /\ UNCHANGED <<rows, pc, req, slips>>

-----------------------------------------------------------------------------
\* The requests' own steps; Arrive, Fail, the faults and Lapse are not owed.
Step(c) ==
    \/ Count(c) \/ Insert(c) \/ CommitLike(c) \/ Delete(c) \/ CommitUnlike(c)
    \/ Verify(c) \/ Set(c) \/ Del(c) \/ UpdateLikesQuantity(c)
    \/ Cascade(c)

Arrive(c) ==
    \E s \in Server : Remove(c, s) \/ \E v \in Voter : Like(c, v, s)

Next ==
    \/ \E c \in Client : \/ Arrive(c) \/ Step(c) \/ LockServer(c)
                         \/ Fail(c) \/ KeyFault(c) \/ UpdateFault(c)
    \/ \E v \in Guest, s \in Server : Lapse(v, s)

Spec == Init /\ [][Next]_vars

\* Statements end, and PostgreSQL breaks deadlocks.  LockServer is not
\* owed: a stream of inserts, each sharing the row, may starve the DELETE.
FairSpec ==
    /\ Spec
    /\ \A c \in Client : SF_vars(Step(c)) /\ WF_vars(Victim(c))

-----------------------------------------------------------------------------
TypeOK ==
    /\ exists \subseteq Server
    /\ qty \in [Server -> Nat]
    /\ likes \subseteq User \X Server
    /\ keys \subseteq Guest \X Server
    /\ pc \in [Client -> Steps]
    /\ req \in [Client -> Request]
    /\ lapsed \in [Server -> Int]
    /\ faults \in Nat /\ stray \in Nat

LikesOf(s) == {v \in User : <<v, s>> \in likes}
KeysOf(s) == {v \in Guest : <<v, s>> \in keys}

\* Guests whose key is set and whose vote is not counted yet; and the
\* reverse; and those about to retract a vote that has lapsed meanwhile.
Arriving(s) == {c \in Client : pc[c] = "inc" /\ Srv(c) = s}
Retracting(s) == {c \in Client : pc[c] = "dec" /\ Srv(c) = s}
Late(s) == {c \in Client : pc[c] = "del" /\ Srv(c) = s /\ Vote(c) \notin keys}

\* Votes in the counter and under way, less the votes there are.
Drift(s) ==
    qty[s] + Cardinality(Arriving(s)) - Cardinality(Retracting(s))
    - Cardinality(LikesOf(s)) - Cardinality(KeysOf(s)) - lapsed[s]

\* No like outlives its server, whatever the order of inserts and DELETEs.
NoOrphanLikes == \A p \in likes : p[2] \in exists

\* However many tabs a user has, a like is never counted twice: the counter
\* of a listed server is above the votes by no more than the storage calls
\* that took half an effect, and below them by no more than these and the
\* unlikes that removed no row.  GREATEST(.., 0) never adds to either.
DriftBounded == \A s \in exists : Drift(s) \in -(faults + stray) .. faults

\* What a reader of the page assumes: when no request is under way and
\* every call did what it said, the number shown is the number of votes.
TallyMatchesVotes ==
    faults = 0 /\ (\A c \in Client : pc[c] = "idle") =>
        \A s \in exists :
            qty[s] = Cardinality(LikesOf(s)) + Cardinality(KeysOf(s)) + lapsed[s]

\* A like request is answered, through lock waits and deadlocks.
LikeAnswered ==
    \A c \in Client : pc[c] \in TxSteps \cup GuestSteps ~> pc[c] = "idle"

\* The ledger this implements while OneTabPerVoter and MaxFaults = 0.
Ledger == INSTANCE VoteLedger WITH
    open <- exists,
    voted <- {p \in likes \cup keys : p[2] \in exists},
    tally <- [s \in Server |->
                 IF s \in exists
                 THEN qty[s] + Cardinality(Arriving(s)) - Cardinality(Retracting(s))
                 ELSE 0],
    lapsed <- [s \in Server |-> IF s \in exists THEN lapsed[s] ELSE 0]

LedgerSpec == Ledger!Spec
=============================================================================

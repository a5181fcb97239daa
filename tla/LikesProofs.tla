----------------------------- MODULE LikesProofs -----------------------------
(***************************************************************************)
(* What holds of Likes for every set of clients, voters and servers.       *)
(***************************************************************************)
EXTENDS Likes, FiniteSetTheorems, TLAPS

\* Where the requests stand, and which voter and server each one carries.
Bound ==
    \A c \in Client :
        /\ pc[c] \in TxSteps => req[c].voter \in User \cap VotersOf[c]
        /\ pc[c] \in GuestSteps => req[c].voter \in Guest \cap VotersOf[c]
        /\ pc[c] # "idle" => req[c].server \in Server

RequestsOK ==
    /\ pc \in [Client -> Steps]
    /\ req \in [Client -> Request]
    /\ Bound

DataOK ==
    /\ exists \subseteq Server
    /\ qty \in [Server -> Nat]
    /\ likes \subseteq User \X Server
    /\ keys \subseteq Guest \X Server
    /\ lapsed \in [Server -> Int]
    /\ faults \in Nat /\ stray \in Nat

TypeInv == RequestsOK /\ DataOK

\* Answering a request, or moving it on within its kind, keeps RequestsOK.
LEMMA AnswerKeeps ==
    ASSUME RequestsOK, NEW c \in Client, Answer(c)
    PROVE  RequestsOK'
BY DEF RequestsOK, Bound, Answer, Steps, TxSteps, GuestSteps, EraseSteps,
       Request, NoRequest

LEMMA GotoKeeps ==
    ASSUME RequestsOK, NEW c \in Client, NEW step, Goto(c, step),
           \/ pc[c] \in TxSteps /\ step \in TxSteps
           \/ pc[c] \in GuestSteps /\ step \in GuestSteps
           \/ pc[c] \in EraseSteps /\ step \in EraseSteps
    PROVE  RequestsOK'
BY DEF RequestsOK, Bound, Goto, Steps, TxSteps, GuestSteps, EraseSteps

LEMMA CountedType ==
    ASSUME qty \in [Server -> Nat], NEW s \in Server, NEW d \in Int
    PROVE  Counted(s, d) \in [Server -> Nat]
BY DEF Counted

\* The vote a request is about is a pair of the right kinds.
LEMMA VoteType ==
    ASSUME RequestsOK, NEW c \in Client
    PROVE  /\ pc[c] # "idle" => Srv(c) \in Server
           /\ pc[c] \in TxSteps => Vote(c) \in User \X Server
           /\ pc[c] \in GuestSteps => Vote(c) \in Guest \X Server
BY DEF RequestsOK, Bound, Srv, Vote, TxSteps, GuestSteps

\* Every step keeps the types and what a request carries.
LEMMA TypeStep == TypeInv /\ [Next]_vars => TypeInv'
<1> SUFFICES ASSUME TypeInv, [Next]_vars PROVE TypeInv'
    OBVIOUS
<1> USE DEF TypeInv, DataOK, rows, slips
<1>1. ASSUME NEW c \in Client, NEW s \in Server, Remove(c, s) PROVE TypeInv'
    BY <1>1 DEF Remove, RequestsOK, Bound, Steps, TxSteps, GuestSteps,
                EraseSteps, Request
<1>2. ASSUME NEW c \in Client, NEW s \in Server, NEW v \in Voter, Like(c, v, s)
      PROVE  TypeInv'
    BY <1>2 DEF Like, RequestsOK, Bound, Steps, TxSteps, GuestSteps,
                EraseSteps, Request, Voter
<1>3. ASSUME NEW c \in Client, Count(c) PROVE TypeInv'
    BY <1>3, GotoKeeps DEF Count, TxSteps
<1>4. ASSUME NEW c \in Client, Insert(c) PROVE TypeInv'
    <2>1. \/ Goto(c, "bump")
          \/ Answer(c)
        BY <1>4, Zenon DEF Insert
    <2>2. pc[c] = "insert" /\ UNCHANGED <<rows, keys, lapsed, slips>>
        BY <1>4, Zenon DEF Insert
    <2>3. CASE Goto(c, "bump")
        BY <2>2, <2>3, GotoKeeps DEF TxSteps
    <2>4. CASE Answer(c)
        BY <2>2, <2>4, AnswerKeeps
    <2> QED
        BY <2>1, <2>3, <2>4, Zenon
<1>5. ASSUME NEW c \in Client, CommitLike(c) PROVE TypeInv'
    <2>1. Vote(c) \in User \X Server /\ Srv(c) \in Server
        BY <1>5, VoteType DEF CommitLike, TxSteps
    <2>2. qty' \in [Server -> Nat]
        BY <1>5, <2>1, CountedType DEF CommitLike
    <2> QED
        BY <1>5, <2>1, <2>2, AnswerKeeps DEF CommitLike
<1>6. ASSUME NEW c \in Client, Delete(c) PROVE TypeInv'
    BY <1>6, GotoKeeps DEF Delete, TxSteps
<1>7. ASSUME NEW c \in Client, CommitUnlike(c) PROVE TypeInv'
    <2>1. Srv(c) \in Server
        BY <1>7, VoteType DEF CommitUnlike
    <2>2. qty' \in [Server -> Nat]
        BY <1>7, <2>1, CountedType DEF CommitUnlike
    <2>3. RequestsOK'
        BY <1>7, AnswerKeeps DEF CommitUnlike
    <2> QED
        BY <1>7, <2>2, <2>3 DEF CommitUnlike
<1>8. ASSUME NEW c \in Client, Verify(c) PROVE TypeInv'
    BY <1>8, GotoKeeps DEF Verify, GuestSteps
<1>9. ASSUME NEW c \in Client, Set(c) PROVE TypeInv'
    BY <1>9, GotoKeeps, VoteType DEF Set, GuestSteps
<1>10. ASSUME NEW c \in Client, Del(c) PROVE TypeInv'
    <2>1. lapsed' \in [Server -> Int]
        <3>1. lapsed' \in {lapsed, [lapsed EXCEPT ![Srv(c)] = @ - 1]}
            BY <1>10 DEF Del
        <3> QED
            BY <3>1
    <2>2. RequestsOK'
        BY <1>10, GotoKeeps DEF Del, GuestSteps
    <2> QED
        BY <1>10, <2>1, <2>2 DEF Del
<1>11. ASSUME NEW c \in Client, UpdateLikesQuantity(c) PROVE TypeInv'
    <2>1. \E d \in Int : qty' = Counted(Srv(c), d)
        BY <1>11 DEF UpdateLikesQuantity
    <2>2. qty' \in [Server -> Nat]
        BY <1>11, <2>1, CountedType, VoteType DEF UpdateLikesQuantity
    <2> QED
        BY <1>11, <2>2, AnswerKeeps DEF UpdateLikesQuantity
<1>12. ASSUME NEW c \in Client, LockServer(c) PROVE TypeInv'
    <2>1. \/ Goto(c, "cascade")
          \/ Answer(c)
        BY <1>12, Zenon DEF LockServer
    <2>2. pc[c] = "erase" /\ UNCHANGED <<rows, keys, lapsed, slips>>
        BY <1>12, Zenon DEF LockServer
    <2>3. CASE Goto(c, "cascade")
        BY <2>2, <2>3, GotoKeeps DEF EraseSteps
    <2>4. CASE Answer(c)
        BY <2>2, <2>4, AnswerKeeps
    <2> QED
        BY <2>1, <2>3, <2>4, Zenon
<1>13. ASSUME NEW c \in Client, Cascade(c) PROVE TypeInv'
    BY <1>13, AnswerKeeps DEF Cascade
<1>14. ASSUME NEW c \in Client, Fail(c) PROVE TypeInv'
    BY <1>14, AnswerKeeps DEF Fail
<1>15. ASSUME NEW c \in Client, KeyFault(c) PROVE TypeInv'
    BY <1>15, AnswerKeeps, VoteType DEF KeyFault, GuestSteps
<1>16. ASSUME NEW c \in Client, UpdateFault(c) PROVE TypeInv'
    BY <1>16, AnswerKeeps DEF UpdateFault
<1>17. ASSUME NEW v \in Guest, NEW s \in Server, Lapse(v, s) PROVE TypeInv'
    BY <1>17 DEF Lapse, RequestsOK, Bound
<1>18. CASE UNCHANGED vars
    BY <1>18 DEF vars, RequestsOK, Bound
<1> QED
    BY <1>1, <1>2, <1>3, <1>4, <1>5, <1>6, <1>7, <1>8, <1>9, <1>10, <1>11,
       <1>12, <1>13, <1>14, <1>15, <1>16, <1>17, <1>18 DEF Next, Arrive, Step

LEMMA TypeInit == Init => TypeInv
BY DEF Init, TypeInv, RequestsOK, DataOK, Bound, Steps, TxSteps, GuestSteps,
       EraseSteps, Request, NoRequest

LEMMA TypeInvariant == Spec => []TypeInv
BY TypeInit, TypeStep, PTL DEF Spec

\* Every value stays in its type: likes are users', keys are guests', and
\* the counter never goes below zero.
THEOREM TypeCorrect == Spec => []TypeOK
<1>1. TypeInv => TypeOK
    BY DEF TypeInv, RequestsOK, DataOK, TypeOK
<1> QED
    BY TypeInvariant, <1>1, PTL

-----------------------------------------------------------------------------
\* What the row locks guarantee: a transaction that inserted a like holds
\* its server in place, and one transaction erases a server, alone.
LocksHeld ==
    \A c \in Client :
        /\ pc[c] \in {"bump", "cascade"} => Srv(c) \in exists
        /\ pc[c] = "cascade" =>
              \A d \in Client : Srv(d) = Srv(c) =>
                  pc[d] # "bump" /\ (pc[d] = "cascade" => d = c)

LockInv == TypeInv /\ LocksHeld /\ NoOrphanLikes

\* A step of c leaves everybody else's request alone.
LEMMA OthersStay ==
    ASSUME RequestsOK, NEW c \in Client,
           \/ Answer(c)
           \/ \E step : Goto(c, step),
           NEW d \in Client, d # c
    PROVE  pc'[d] = pc[d] /\ req'[d] = req[d] /\ Srv(d)' = Srv(d) /\ Vote(d)' = Vote(d)
BY DEF RequestsOK, Answer, Goto, Srv, Vote

LEMMA SelfAnswered ==
    ASSUME RequestsOK, NEW c \in Client, Answer(c)
    PROVE  pc'[c] = "idle"
BY DEF RequestsOK, Answer

LEMMA SelfMoved ==
    ASSUME RequestsOK, NEW c \in Client, NEW step, Goto(c, step)
    PROVE  pc'[c] = step /\ req'[c] = req[c] /\ Srv(c)' = Srv(c) /\ Vote(c)' = Vote(c)
BY DEF RequestsOK, Goto, Srv, Vote

\* Locks are only given up by the steps that touch no row.
LEMMA LocksReleased ==
    ASSUME LockInv, NEW c \in Client, UNCHANGED <<exists, likes>>,
           \/ Answer(c)
           \/ \E step \in Steps \ {"bump", "cascade"} : Goto(c, step)
    PROVE  LocksHeld' /\ NoOrphanLikes'
<1>1. pc'[c] \notin {"bump", "cascade"}
    BY SelfAnswered, SelfMoved DEF LockInv, TypeInv
<1>2. \A d \in Client : d # c =>
          pc'[d] = pc[d] /\ Srv(d)' = Srv(d)
    BY OthersStay DEF LockInv, TypeInv
<1> QED
    BY <1>1, <1>2 DEF LockInv, LocksHeld, NoOrphanLikes

LEMMA LockStep == LockInv /\ [Next]_vars => LocksHeld' /\ NoOrphanLikes'
<1> SUFFICES ASSUME LockInv, [Next]_vars PROVE LocksHeld' /\ NoOrphanLikes'
    OBVIOUS
<1>0. RequestsOK /\ LocksHeld /\ NoOrphanLikes
    BY DEF LockInv, TypeInv
<1> USE DEF rows, slips
<1>1. ASSUME NEW c \in Client, NEW s \in Server,
             Remove(c, s) \/ \E v \in Voter : Like(c, v, s)
      PROVE  LocksHeld' /\ NoOrphanLikes'
    <2>1. pc'[c] \in {"erase", "count", "verify"} /\ UNCHANGED <<exists, likes>>
        BY <1>0, <1>1 DEF Remove, Like, RequestsOK
    <2>2. \A d \in Client : d # c => pc'[d] = pc[d] /\ Srv(d)' = Srv(d)
        BY <1>0, <1>1 DEF Remove, Like, RequestsOK, Srv
    <2> QED
        BY <1>0, <2>1, <2>2 DEF LocksHeld, NoOrphanLikes
<1>2. ASSUME NEW c \in Client,
             Count(c) \/ Delete(c) \/ Verify(c) \/ Set(c) \/ Del(c)
      PROVE  LocksHeld' /\ NoOrphanLikes'
    <2>1. \E step \in Steps \ {"bump", "cascade"} : Goto(c, step)
        BY <1>2 DEF Count, Delete, Verify, Set, Del, Steps, TxSteps, GuestSteps
    <2>2. UNCHANGED <<exists, likes>>
        BY <1>2 DEF Count, Delete, Verify, Set, Del
    <2> QED
        BY <2>1, <2>2, LocksReleased
<1>3. ASSUME NEW c \in Client,
             UpdateLikesQuantity(c) \/ Fail(c) \/ KeyFault(c) \/ UpdateFault(c)
      PROVE  LocksHeld' /\ NoOrphanLikes'
    <2>1. Answer(c) /\ UNCHANGED <<exists, likes>>
        BY <1>3 DEF UpdateLikesQuantity, Fail, KeyFault, UpdateFault
    <2> QED
        BY <2>1, LocksReleased
<1>4. ASSUME NEW c \in Client, Insert(c) PROVE LocksHeld' /\ NoOrphanLikes'
    <2>1. UNCHANGED <<exists, likes>> /\ ~Erasing(Srv(c))
        BY <1>4, Zenon DEF Insert
    <2>2. CASE Answer(c)
        BY <2>1, <2>2, LocksReleased
    <2>3. CASE Goto(c, "bump") /\ Srv(c) \in exists
        <3>1. pc'[c] = "bump" /\ Srv(c)' = Srv(c)
            BY <1>0, <2>3, SelfMoved
        <3>2. \A d \in Client : d # c => pc'[d] = pc[d] /\ Srv(d)' = Srv(d)
            BY <1>0, <2>3, OthersStay
        <3> QED
            BY <1>0, <2>1, <2>3, <3>1, <3>2 DEF LocksHeld, NoOrphanLikes, Erasing
    <2>4. Answer(c) \/ (Goto(c, "bump") /\ Srv(c) \in exists)
        BY <1>4, Zenon DEF Insert
    <2> QED
        BY <2>2, <2>3, <2>4
<1>5. ASSUME NEW c \in Client, CommitLike(c) PROVE LocksHeld' /\ NoOrphanLikes'
    <2>1. pc'[c] = "idle" /\ \A d \in Client : d # c =>
              pc'[d] = pc[d] /\ Srv(d)' = Srv(d)
        BY <1>0, <1>5, SelfAnswered, OthersStay DEF CommitLike
    <2>2. Srv(c) \in exists
        BY <1>0, <1>5 DEF CommitLike, LocksHeld
    <2> QED
        BY <1>0, <1>5, <2>1, <2>2 DEF CommitLike, LocksHeld, NoOrphanLikes, Vote, Srv
<1>6. ASSUME NEW c \in Client, CommitUnlike(c) PROVE LocksHeld' /\ NoOrphanLikes'
    <2>1. pc'[c] = "idle" /\ \A d \in Client : d # c =>
              pc'[d] = pc[d] /\ Srv(d)' = Srv(d)
        BY <1>0, <1>6, SelfAnswered, OthersStay DEF CommitUnlike
    <2> QED
        BY <1>0, <1>6, <2>1 DEF CommitUnlike, LocksHeld, NoOrphanLikes
<1>7. ASSUME NEW c \in Client, LockServer(c) PROVE LocksHeld' /\ NoOrphanLikes'
    <2>1. /\ UNCHANGED <<exists, likes>> /\ ~Erasing(Srv(c))
          /\ \A d \in Client : pc[d] = "bump" => Srv(d) # Srv(c)
        BY <1>7, Zenon DEF LockServer
    <2>2. CASE Answer(c)
        BY <2>1, <2>2, LocksReleased
    <2>3. CASE Goto(c, "cascade") /\ Srv(c) \in exists
        <3>1. pc'[c] = "cascade" /\ Srv(c)' = Srv(c)
            BY <1>0, <2>3, SelfMoved
        <3>2. \A d \in Client : d # c => pc'[d] = pc[d] /\ Srv(d)' = Srv(d)
            BY <1>0, <2>3, OthersStay
        <3> QED
            BY <1>0, <2>1, <2>3, <3>1, <3>2 DEF LocksHeld, NoOrphanLikes, Erasing
    <2>4. Answer(c) \/ (Goto(c, "cascade") /\ Srv(c) \in exists)
        BY <1>7, Zenon DEF LockServer
    <2> QED
        BY <2>2, <2>3, <2>4
<1>8. ASSUME NEW c \in Client, Cascade(c) PROVE LocksHeld' /\ NoOrphanLikes'
    <2>1. pc'[c] = "idle" /\ \A d \in Client : d # c =>
              pc'[d] = pc[d] /\ Srv(d)' = Srv(d)
        BY <1>0, <1>8, SelfAnswered, OthersStay DEF Cascade
    <2>2. \A d \in Client : d # c /\ pc[d] \in {"bump", "cascade"} => Srv(d) # Srv(c)
        BY <1>0, <1>8 DEF Cascade, LocksHeld
    <2> QED
        BY <1>0, <1>8, <2>1, <2>2 DEF Cascade, LocksHeld, NoOrphanLikes
<1>9. ASSUME NEW v \in Guest, NEW s \in Server, Lapse(v, s)
      PROVE  LocksHeld' /\ NoOrphanLikes'
    BY <1>0, <1>9 DEF Lapse, LocksHeld, NoOrphanLikes, Srv
<1>10. CASE UNCHANGED vars
    BY <1>0, <1>10 DEF vars, LocksHeld, NoOrphanLikes, Srv
<1> QED
    BY <1>1, <1>2, <1>3, <1>4, <1>5, <1>6, <1>7, <1>8, <1>9, <1>10
       DEF Next, Arrive, Step

LEMMA LockInvariant == Spec => []LockInv
<1>1. Init => LockInv
    BY TypeInit DEF LockInv, LocksHeld, NoOrphanLikes, Init
<1>2. LockInv /\ [Next]_vars => LockInv'
    BY TypeStep, LockStep DEF LockInv
<1> QED
    BY <1>1, <1>2, PTL DEF Spec

\* A like refers to a listed server, however inserts, unlikes and removals
\* interleave, with any number of tabs per voter.
THEOREM OrphanFree == Spec => []NoOrphanLikes
<1>1. LockInv => NoOrphanLikes
    BY DEF LockInv
<1> QED
    BY LockInvariant, <1>1, PTL

-----------------------------------------------------------------------------
\* What a request that writes knows of its vote: a like it inserted is not
\* there for anybody else yet, one it deleted still is; a guest's key is as
\* it was read, but for its expiry.
VoteAsWritten(c) ==
    /\ pc[c] = "bump" => Vote(c) \notin likes
    /\ pc[c] = "drop" => Vote(c) \in likes
    /\ pc[c] = "set" => Vote(c) \notin keys
    /\ pc[c] = "inc" => Vote(c) \in keys
    /\ pc[c] = "dec" => Vote(c) \notin keys

\* A row of "like" is being inserted or deleted by one transaction.
RowsHeld ==
    \A c, d \in Client :
        /\ c # d /\ pc[c] \in {"bump", "drop"} /\ pc[d] \in {"bump", "drop"}
        => Vote(c) # Vote(d)

WriteOK == RowsHeld /\ \A c \in Client : VoteAsWritten(c)
WriteInv == LockInv /\ WriteOK

\* With one guest per address no two guest requests are about the same vote.
GuestVotesDiffer ==
    \A c, d \in Client :
        c # d /\ pc[c] \in GuestSteps /\ pc[d] \in GuestSteps => Vote(c) # Vote(d)

LEMMA VotesDiffer ==
    ASSUME OneTabPerGuest, RequestsOK
    PROVE  GuestVotesDiffer
BY DEF OneTabPerGuest, RequestsOK, Bound, Vote, GuestVotesDiffer

\* What another request knows survives a step of c that changes c's own
\* vote only.
LEMMA OthersWriteStays ==
    ASSUME OneTabPerGuest, RequestsOK, RowsHeld, NEW c \in Client,
           NEW d \in Client, d # c, VoteAsWritten(d),
           pc'[d] = pc[d], Vote(d)' = Vote(d),
           \/ UNCHANGED likes
           \/ /\ pc[c] \in {"bump", "drop"}
              /\ likes' \in {likes \cup {Vote(c)}, likes \ {Vote(c)}},
           \/ UNCHANGED keys
           \/ /\ pc[c] \in GuestSteps
              /\ keys' \in {keys \cup {Vote(c)}, keys \ {Vote(c)}}
    PROVE  VoteAsWritten(d)'
<1>1. CASE pc[d] \in {"bump", "drop"}
    <2>1. Vote(d) \in likes' <=> Vote(d) \in likes
        BY <1>1 DEF RowsHeld
    <2> QED
        BY <1>1, <2>1 DEF VoteAsWritten
<1>2. CASE pc[d] \in GuestSteps
    <2>1. Vote(d) \in keys' <=> Vote(d) \in keys
        BY <1>2, VotesDiffer DEF GuestVotesDiffer
    <2> QED
        BY <1>2, <2>1 DEF VoteAsWritten, GuestSteps
<1>3. CASE pc[d] \notin {"bump", "drop"} \cup GuestSteps
    BY <1>3 DEF VoteAsWritten, GuestSteps
<1> QED
    BY <1>1, <1>2, <1>3

\* No step but that of Insert or Delete takes hold of a row.
LEMMA RowsLetGo ==
    ASSUME RequestsOK, RowsHeld, NEW c \in Client,
           pc'[c] \notin {"bump", "drop"},
           \A d \in Client : d # c => pc'[d] = pc[d] /\ Vote(d)' = Vote(d)
    PROVE  RowsHeld'
BY DEF RowsHeld

LEMMA RowTaken ==
    ASSUME RequestsOK, RowsHeld, NEW c \in Client,
           Vote(c)' = Vote(c),
           \A d \in Client : d # c => pc'[d] = pc[d] /\ Vote(d)' = Vote(d),
           \A d \in Client : d # c /\ pc[d] \in {"bump", "drop"} => Vote(d) # Vote(c)
    PROVE  RowsHeld'
BY DEF RowsHeld

LEMMA AnsweredWrites ==
    ASSUME OneTabPerGuest, RequestsOK, WriteOK, NEW c \in Client, Answer(c),
           \/ UNCHANGED likes
           \/ /\ pc[c] \in {"bump", "drop"}
              /\ likes' \in {likes \cup {Vote(c)}, likes \ {Vote(c)}},
           \/ UNCHANGED keys
           \/ /\ pc[c] \in GuestSteps
              /\ keys' \in {keys \cup {Vote(c)}, keys \ {Vote(c)}}
    PROVE  WriteOK'
<1>1. pc'[c] = "idle"
    BY SelfAnswered
<1>2. \A d \in Client : d # c => pc'[d] = pc[d] /\ Vote(d)' = Vote(d)
    BY OthersStay
<1>3. RowsHeld'
    BY <1>1, <1>2, RowsLetGo DEF WriteOK
<1>4. ASSUME NEW d \in Client PROVE VoteAsWritten(d)'
    <2>1. CASE d = c
        BY <1>1, <2>1 DEF VoteAsWritten
    <2>2. CASE d # c
        BY <1>2, <2>2, OthersWriteStays DEF WriteOK
    <2> QED
        BY <2>1, <2>2
<1> QED
    BY <1>3, <1>4 DEF WriteOK

LEMMA MovedWrites ==
    ASSUME OneTabPerGuest, RequestsOK, WriteOK, NEW c \in Client, NEW step,
           Goto(c, step), step \notin {"bump", "drop"}, UNCHANGED likes,
           step = "inc" => Vote(c) \in keys',
           step \in {"set", "dec"} => Vote(c) \notin keys',
           \/ UNCHANGED keys
           \/ /\ pc[c] \in GuestSteps
              /\ keys' \in {keys \cup {Vote(c)}, keys \ {Vote(c)}}
    PROVE  WriteOK'
<1>1. pc'[c] = step /\ Vote(c)' = Vote(c)
    BY SelfMoved
<1>2. \A d \in Client : d # c => pc'[d] = pc[d] /\ Vote(d)' = Vote(d)
    BY OthersStay
<1>3. RowsHeld'
    BY <1>1, <1>2, RowsLetGo DEF WriteOK
<1>4. ASSUME NEW d \in Client PROVE VoteAsWritten(d)'
    <2>1. CASE d = c
        BY <1>1, <2>1 DEF VoteAsWritten
    <2>2. CASE d # c
        BY <1>2, <2>2, OthersWriteStays DEF WriteOK
    <2> QED
        BY <2>1, <2>2
<1> QED
    BY <1>3, <1>4 DEF WriteOK

\* To take hold of a row, nobody else may have it.
LEMMA TakingWrites ==
    ASSUME OneTabPerGuest, RequestsOK, WriteOK, NEW c \in Client,
           NEW step \in {"bump", "drop"}, Goto(c, step), UNCHANGED <<likes, keys>>,
           step = "bump" <=> Vote(c) \notin likes,
           ~HoldsRow(c, {"drop"}), step = "bump" => ~HoldsRow(c, {"bump"})
    PROVE  WriteOK'
<1>1. pc'[c] = step /\ Vote(c)' = Vote(c)
    BY SelfMoved
<1>2. \A d \in Client : d # c => pc'[d] = pc[d] /\ Vote(d)' = Vote(d)
    BY OthersStay
<1>3. ASSUME NEW d \in Client, d # c, pc[d] \in {"bump", "drop"}
      PROVE  Vote(d) # Vote(c)
    <2>1. CASE pc[d] = "drop"
        BY <1>3, <2>1 DEF HoldsRow
    <2>2. CASE pc[d] = "bump" /\ step = "bump"
        BY <1>3, <2>2 DEF HoldsRow
    <2>3. CASE pc[d] = "bump" /\ step = "drop"
        BY <1>3, <2>3 DEF WriteOK, VoteAsWritten
    <2> QED
        BY <1>3, <2>1, <2>2, <2>3
<1>4. RowsHeld'
    BY <1>1, <1>2, <1>3, RowTaken DEF WriteOK
<1>5. ASSUME NEW d \in Client PROVE VoteAsWritten(d)'
    <2>1. CASE d = c
        BY <1>1, <2>1 DEF VoteAsWritten
    <2>2. CASE d # c
        BY <1>2, <2>2, OthersWriteStays DEF WriteOK
    <2> QED
        BY <2>1, <2>2
<1> QED
    BY <1>4, <1>5 DEF WriteOK

LEMMA WriteStep == OneTabPerGuest /\ LockInv /\ WriteOK /\ [Next]_vars => WriteOK'
<1> SUFFICES ASSUME OneTabPerGuest, LockInv, WriteOK, [Next]_vars PROVE WriteOK'
    OBVIOUS
<1>0. RequestsOK /\ RowsHeld /\ \A c \in Client : VoteAsWritten(c)
    BY DEF LockInv, TypeInv, WriteOK
<1> USE DEF rows, slips
<1>1. ASSUME NEW c \in Client, NEW s \in Server,
             Remove(c, s) \/ \E v \in Voter : Like(c, v, s)
      PROVE  WriteOK'
    <2>1. /\ pc'[c] \in {"erase", "count", "verify"} /\ UNCHANGED <<likes, keys>>
          /\ \A d \in Client : d # c => pc'[d] = pc[d] /\ Vote(d)' = Vote(d)
        BY <1>0, <1>1 DEF Remove, Like, RequestsOK, Vote
    <2>2. RowsHeld'
        BY <1>0, <2>1, RowsLetGo
    <2>3. \A d \in Client : VoteAsWritten(d)'
        BY <1>0, <2>1 DEF VoteAsWritten
    <2> QED
        BY <2>2, <2>3 DEF WriteOK
<1>2. ASSUME NEW c \in Client, Count(c) \/ Verify(c) PROVE WriteOK'
    <2>1. PICK step \in {"delete", "insert", "del", "set"} :
              Goto(c, step) /\ (step = "set" => Vote(c) \notin keys)
        BY <1>2 DEF Count, Verify
    <2>2. UNCHANGED <<likes, keys>>
        BY <1>2 DEF Count, Verify
    <2> QED
        BY <1>0, <2>1, <2>2, MovedWrites
<1>3. ASSUME NEW c \in Client, Set(c) \/ Del(c) PROVE WriteOK'
    <2>1. UNCHANGED likes /\ pc[c] \in GuestSteps
        BY <1>3 DEF Set, Del, GuestSteps
    <2>2. \/ Goto(c, "inc") /\ keys' = keys \cup {Vote(c)}
          \/ Goto(c, "dec") /\ keys' = keys \ {Vote(c)}
        BY <1>3 DEF Set, Del
    <2> QED
        BY <1>0, <2>1, <2>2, MovedWrites
<1>4. ASSUME NEW c \in Client, Insert(c) PROVE WriteOK'
    <2>1. UNCHANGED <<likes, keys>> /\ ~HoldsRow(c, {"bump", "drop"})
        BY <1>4, Zenon DEF Insert
    <2>2. ~HoldsRow(c, {"bump"}) /\ ~HoldsRow(c, {"drop"})
        BY <2>1 DEF HoldsRow
    <2>3. Answer(c) \/ (Goto(c, "bump") /\ Vote(c) \notin likes)
        BY <1>4, Zenon DEF Insert
    <2> QED
        BY <1>0, <2>1, <2>2, <2>3, AnsweredWrites, TakingWrites
<1>5. ASSUME NEW c \in Client, Delete(c) PROVE WriteOK'
    <2>1. UNCHANGED <<likes, keys>> /\ ~HoldsRow(c, {"drop"})
        BY <1>5 DEF Delete
    <2>2. \/ Goto(c, "drop") /\ Vote(c) \in likes
          \/ Goto(c, "dropNone")
        BY <1>5 DEF Delete
    <2>3. CASE Goto(c, "drop") /\ Vote(c) \in likes
        BY <1>0, <2>1, <2>3, TakingWrites
    <2>4. CASE Goto(c, "dropNone")
        BY <1>0, <2>1, <2>4, MovedWrites
    <2> QED
        BY <2>2, <2>3, <2>4
<1>6. ASSUME NEW c \in Client, CommitLike(c) \/ CommitUnlike(c) PROVE WriteOK'
    <2>1. Answer(c) /\ UNCHANGED keys
        BY <1>6 DEF CommitLike, CommitUnlike
    <2>2. \/ UNCHANGED likes
          \/ /\ pc[c] \in {"bump", "drop"}
             /\ likes' \in {likes \cup {Vote(c)}, likes \ {Vote(c)}}
        BY <1>6 DEF CommitLike, CommitUnlike
    <2> QED
        BY <1>0, <2>1, <2>2, AnsweredWrites
<1>7. ASSUME NEW c \in Client,
             UpdateLikesQuantity(c) \/ Fail(c) \/ KeyFault(c) \/ UpdateFault(c)
      PROVE  WriteOK'
    <2>1. Answer(c) /\ UNCHANGED likes
        BY <1>7 DEF UpdateLikesQuantity, Fail, KeyFault, UpdateFault
    <2>2. \/ UNCHANGED keys
          \/ /\ pc[c] \in GuestSteps
             /\ keys' \in {keys \cup {Vote(c)}, keys \ {Vote(c)}}
        BY <1>7 DEF UpdateLikesQuantity, Fail, KeyFault, UpdateFault, GuestSteps
    <2> QED
        BY <1>0, <2>1, <2>2, AnsweredWrites
<1>8. ASSUME NEW c \in Client, LockServer(c) PROVE WriteOK'
    <2>1. Answer(c) \/ Goto(c, "cascade")
        BY <1>8, Zenon DEF LockServer
    <2>2. UNCHANGED <<likes, keys>>
        BY <1>8, Zenon DEF LockServer
    <2> QED
        BY <1>0, <2>1, <2>2, AnsweredWrites, MovedWrites
<1>9. ASSUME NEW c \in Client, Cascade(c) PROVE WriteOK'
    <2>1. pc'[c] = "idle" /\ UNCHANGED keys
        BY <1>0, <1>9, SelfAnswered DEF Cascade
    <2>2. \A d \in Client : d # c => pc'[d] = pc[d] /\ Vote(d)' = Vote(d)
        BY <1>0, <1>9, OthersStay DEF Cascade
    <2>3. RowsHeld'
        BY <1>0, <2>1, <2>2, RowsLetGo
    <2>4. ASSUME NEW d \in Client, d # c PROVE VoteAsWritten(d)'
        <3>1. Vote(d)[2] = Srv(d)
            BY DEF Vote, Srv
        <3>2. pc[d] = "drop" => Srv(d) # Srv(c)
            BY <1>9 DEF Cascade
        <3>3. likes' = {p \in likes : p[2] # Srv(c)}
            BY <1>9 DEF Cascade
        <3> QED
            BY <1>0, <2>1, <2>2, <2>4, <3>1, <3>2, <3>3 DEF VoteAsWritten
    <2>5. VoteAsWritten(c)'
        BY <2>1 DEF VoteAsWritten
    <2> QED
        BY <2>3, <2>4, <2>5 DEF WriteOK
<1>10. ASSUME NEW v \in Guest, NEW s \in Server, Lapse(v, s) PROVE WriteOK'
    <2>1. \A d \in Client : VoteAsWritten(d)'
        BY <1>0, <1>10 DEF Lapse, VoteAsWritten, Vote
    <2>2. RowsHeld'
        BY <1>0, <1>10 DEF Lapse, RowsHeld, Vote
    <2> QED
        BY <2>1, <2>2 DEF WriteOK
<1>11. CASE UNCHANGED vars
    BY <1>0, <1>11 DEF vars, WriteOK, RowsHeld, VoteAsWritten, Vote
<1> QED
    BY <1>1, <1>2, <1>3, <1>4, <1>5, <1>6, <1>7, <1>8, <1>9, <1>10, <1>11
       DEF Next, Arrive, Step

LEMMA WriteInit == Init => WriteInv
<1> SUFFICES ASSUME Init PROVE WriteInv
    OBVIOUS
<1>1. LockInv
    BY TypeInit DEF LockInv, LocksHeld, NoOrphanLikes, Init
<1> QED
    BY <1>1 DEF Init, WriteInv, WriteOK, RowsHeld, VoteAsWritten

LEMMA WriteInvariant == OneTabPerGuest => (Spec => []WriteInv)
<1> SUFFICES ASSUME OneTabPerGuest PROVE Spec => []WriteInv
    OBVIOUS
<1>1. WriteInv /\ [Next]_vars => WriteInv'
    BY TypeStep, LockStep, WriteStep DEF WriteInv, LockInv
<1> QED
    BY <1>1, WriteInit, PTL DEF Spec

-----------------------------------------------------------------------------
\* With one tab per user an unlike finds the row it counted, unless the
\* server is gone: none goes astray.
UnlikesFind ==
    \A c \in Client :
        /\ pc[c] = "delete" => Vote(c) \in likes \/ Srv(c) \notin exists
        /\ pc[c] = "dropNone" => Srv(c) \notin exists

LEMMA OneTabIsOneGuest == OneTabPerVoter => OneTabPerGuest
BY DEF OneTabPerVoter, OneTabPerGuest

LEMMA UserVotesDiffer ==
    ASSUME OneTabPerVoter, RequestsOK, NEW c \in Client, NEW d \in Client,
           c # d, pc[c] \in TxSteps, pc[d] \in TxSteps
    PROVE  Vote(c) # Vote(d)
BY DEF OneTabPerVoter, RequestsOK, Bound, Vote

\* A step of c that leaves the other requests alone and takes no like but
\* its own away.
LEMMA OthersFind ==
    ASSUME OneTabPerVoter, RequestsOK, UnlikesFind, NEW c \in Client,
           exists' \subseteq exists,
           \A d \in Client : d # c => /\ pc'[d] = pc[d] /\ Vote(d)' = Vote(d)
                                      /\ Srv(d)' = Srv(d),
           \/ likes \subseteq likes'
           \/ pc[c] \in TxSteps /\ likes' = likes \ {Vote(c)}
           \/ likes' = {p \in likes : p[2] \in exists'},
           pc'[c] = "delete" => Vote(c)' \in likes',
           pc'[c] = "dropNone" => Srv(c)' \notin exists'
    PROVE  UnlikesFind'
<1>1. ASSUME NEW d \in Client, d # c, pc[d] = "delete", Vote(d) \in likes
      PROVE  Vote(d) \in likes' \/ Srv(d) \notin exists'
    <2>1. pc[c] \in TxSteps => Vote(d) # Vote(c)
        BY <1>1, UserVotesDiffer DEF TxSteps
    <2>2. Vote(d)[2] = Srv(d)
        BY DEF Vote, Srv
    <2> QED
        BY <1>1, <2>1, <2>2
<1>2. ASSUME NEW d \in Client, d # c
      PROVE  /\ pc'[d] = "delete" => Vote(d)' \in likes' \/ Srv(d)' \notin exists'
             /\ pc'[d] = "dropNone" => Srv(d)' \notin exists'
    BY <1>1, <1>2 DEF UnlikesFind
<1>3. /\ pc'[c] = "delete" => Vote(c)' \in likes' \/ Srv(c)' \notin exists'
      /\ pc'[c] = "dropNone" => Srv(c)' \notin exists'
    OBVIOUS
<1> QED
    BY <1>2, <1>3 DEF UnlikesFind

LEMMA FindStep ==
    OneTabPerVoter /\ LockInv /\ UnlikesFind /\ [Next]_vars => UnlikesFind'
<1> SUFFICES ASSUME OneTabPerVoter, LockInv, UnlikesFind, [Next]_vars
             PROVE  UnlikesFind'
    OBVIOUS
<1>0. RequestsOK /\ NoOrphanLikes
    BY DEF LockInv, TypeInv
<1> USE DEF rows, slips
<1>1. ASSUME NEW c \in Client, NEW s \in Server,
             Remove(c, s) \/ \E v \in Voter : Like(c, v, s)
      PROVE  UnlikesFind'
    <2>1. /\ pc'[c] \in {"erase", "count", "verify"} /\ UNCHANGED <<likes, exists>>
          /\ \A d \in Client : d # c =>
                pc'[d] = pc[d] /\ Vote(d)' = Vote(d) /\ Srv(d)' = Srv(d)
        BY <1>0, <1>1 DEF Remove, Like, RequestsOK, Vote, Srv
    <2> QED
        BY <1>0, <2>1, OthersFind
<1>2. ASSUME NEW c \in Client, Count(c) \/ Delete(c) PROVE UnlikesFind'
    <2>1. PICK step \in Steps :
              /\ Goto(c, step)
              /\ step = "delete" => Vote(c) \in likes
              /\ step = "dropNone" => Srv(c) \notin exists
        BY <1>2 DEF Count, Delete, UnlikesFind, Steps, TxSteps
    <2>2. pc'[c] = step /\ Vote(c)' = Vote(c) /\ Srv(c)' = Srv(c)
        BY <1>0, <2>1, SelfMoved
    <2>3. UNCHANGED <<likes, exists>>
        BY <1>2 DEF Count, Delete
    <2> QED
        BY <1>0, <2>1, <2>2, <2>3, OthersStay, OthersFind
<1>3. ASSUME NEW c \in Client,
             \/ Answer(c)
             \/ \E step \in Steps \ {"delete", "dropNone"} : Goto(c, step),
             exists' \subseteq exists,
             \/ likes \subseteq likes'
             \/ pc[c] \in TxSteps /\ likes' = likes \ {Vote(c)}
             \/ likes' = {p \in likes : p[2] \in exists'}
      PROVE  UnlikesFind'
    <2>1. pc'[c] \notin {"delete", "dropNone"}
        BY <1>0, <1>3, SelfAnswered, SelfMoved
    <2> QED
        BY <1>0, <1>3, <2>1, OthersStay, OthersFind
<1>4. ASSUME NEW c \in Client, Verify(c) \/ Set(c) \/ Del(c) PROVE UnlikesFind'
    <2>1. \E step \in Steps \ {"delete", "dropNone"} : Goto(c, step)
        BY <1>4 DEF Verify, Set, Del, Steps, GuestSteps
    <2>2. UNCHANGED <<likes, exists>>
        BY <1>4 DEF Verify, Set, Del
    <2> QED
        BY <1>3, <2>1, <2>2
<1>5. ASSUME NEW c \in Client, Insert(c) \/ LockServer(c) PROVE UnlikesFind'
    <2>1. Answer(c) \/ Goto(c, "bump") \/ Goto(c, "cascade")
        BY <1>5, Zenon DEF Insert, LockServer
    <2>2. UNCHANGED <<likes, exists>>
        BY <1>5, Zenon DEF Insert, LockServer
    <2>3. {"bump", "cascade"} \subseteq Steps \ {"delete", "dropNone"}
        BY DEF Steps, TxSteps, EraseSteps
    <2> QED
        BY <1>3, <2>1, <2>2, <2>3
<1>6. ASSUME NEW c \in Client,
             \/ CommitLike(c) \/ CommitUnlike(c) \/ UpdateLikesQuantity(c)
             \/ Fail(c) \/ KeyFault(c) \/ UpdateFault(c)
      PROVE  UnlikesFind'
    <2>1. Answer(c) /\ UNCHANGED exists
        BY <1>6 DEF CommitLike, CommitUnlike, UpdateLikesQuantity, Fail, KeyFault,
                    UpdateFault
    <2>2. \/ likes \subseteq likes'
          \/ pc[c] \in TxSteps /\ likes' = likes \ {Vote(c)}
        BY <1>6 DEF CommitLike, CommitUnlike, UpdateLikesQuantity, Fail, KeyFault,
                    UpdateFault, TxSteps
    <2> QED
        BY <1>3, <2>1, <2>2
<1>7. ASSUME NEW c \in Client, Cascade(c) PROVE UnlikesFind'
    <2>1. Answer(c) /\ exists' = exists \ {Srv(c)}
        BY <1>7 DEF Cascade
    <2>2. likes' = {p \in likes : p[2] \in exists'}
        BY <1>0, <1>7, <2>1 DEF Cascade, NoOrphanLikes
    <2> QED
        BY <1>3, <2>1, <2>2
<1>8. ASSUME NEW v \in Guest, NEW s \in Server, Lapse(v, s) PROVE UnlikesFind'
    BY <1>8 DEF Lapse, UnlikesFind, Vote, Srv
<1>9. CASE UNCHANGED vars
    BY <1>9 DEF vars, UnlikesFind, Vote, Srv
<1> QED
    BY <1>1, <1>2, <1>4, <1>5, <1>6, <1>7, <1>8, <1>9 DEF Next, Arrive, Step

LEMMA NoneStray ==
    ASSUME UnlikesFind, [Next]_vars
    PROVE  stray' = stray
<1>1. ASSUME NEW c \in Client, Insert(c) \/ LockServer(c) PROVE stray' = stray
    BY <1>1, Zenon DEF Insert, LockServer, slips
<1>2. ASSUME NEW c \in Client, CommitUnlike(c) PROVE stray' = stray
    BY <1>2 DEF CommitUnlike, UnlikesFind
<1> QED
    BY <1>1, <1>2 DEF Next, Arrive, Step, Remove, Like, Count, CommitLike, Delete,
       Verify, Set, Del, UpdateLikesQuantity, Cascade, Fail, KeyFault, UpdateFault,
       Lapse, vars, slips

LEMMA FindInvariant ==
    OneTabPerVoter => (Spec => [](WriteInv /\ UnlikesFind /\ stray = 0))
<1> SUFFICES ASSUME OneTabPerVoter
             PROVE  Spec => [](WriteInv /\ UnlikesFind /\ stray = 0)
    OBVIOUS
<1> DEFINE Found == UnlikesFind /\ stray = 0
<1>1. Init => Found
    BY DEF Init, UnlikesFind
<1>2. WriteInv /\ Found /\ [Next]_vars => Found'
    BY FindStep, NoneStray DEF WriteInv
<1>3. Spec => []WriteInv
    BY WriteInvariant, OneTabIsOneGuest
<1>4. Found => UnlikesFind /\ stray = 0
    OBVIOUS
<1> HIDE DEF Found
<1> QED
    BY <1>1, <1>2, <1>3, <1>4, PTL DEF Spec

-----------------------------------------------------------------------------
\* No more retractions are late than there are lapsed votes to retract.
LateCovered == \A s \in Server : Cardinality(Late(s)) <= lapsed[s]

DriftInv == WriteInv /\ LateCovered /\ DriftBounded

LEMMA ClientsFinite ==
    ASSUME NEW S, S \subseteq Client
    PROVE  IsFiniteSet(S) /\ Cardinality(S) \in Nat
BY ConstantsAssumption, FS_Subset, FS_CardinalityType

LEMMA CountsAreNat ==
    ASSUME NEW s
    PROVE  /\ Cardinality(Arriving(s)) \in Nat /\ IsFiniteSet(Arriving(s))
           /\ Cardinality(Retracting(s)) \in Nat /\ IsFiniteSet(Retracting(s))
           /\ Cardinality(Late(s)) \in Nat /\ IsFiniteSet(Late(s))
           /\ Cardinality(LikesOf(s)) \in Nat /\ IsFiniteSet(LikesOf(s))
           /\ Cardinality(KeysOf(s)) \in Nat /\ IsFiniteSet(KeysOf(s))
<1>1. Arriving(s) \subseteq Client /\ Retracting(s) \subseteq Client
      /\ Late(s) \subseteq Client
    BY DEF Arriving, Retracting, Late
<1>2. LikesOf(s) \subseteq Voter /\ KeysOf(s) \subseteq Voter
    BY DEF LikesOf, KeysOf, Voter
<1>3. \A S : S \subseteq Voter => IsFiniteSet(S) /\ Cardinality(S) \in Nat
    BY ConstantsAssumption, FS_Subset, FS_CardinalityType
<1> QED
    BY <1>1, <1>2, <1>3, ClientsFinite

\* One more, one less.
LEMMA OneMore ==
    ASSUME NEW S, NEW T, NEW x, IsFiniteSet(S), x \notin S, T = S \cup {x}
    PROVE  Cardinality(T) = Cardinality(S) + 1
BY FS_AddElement

LEMMA OneLess ==
    ASSUME NEW S, NEW T, NEW x, IsFiniteSet(S), x \in S, T = S \ {x}
    PROVE  Cardinality(T) = Cardinality(S) - 1
BY FS_RemoveElement

\* Every vote that is not counted yet is a key that is set.
LEMMA ArrivalsHaveKeys ==
    ASSUME OneTabPerGuest, WriteInv, NEW s \in Server
    PROVE  Cardinality(Arriving(s)) <= Cardinality(KeysOf(s))
<1> DEFINE f == [c \in Arriving(s) |-> req[c].voter]
<1>1. ASSUME NEW c \in Arriving(s)
      PROVE  req[c].voter \in KeysOf(s) /\ pc[c] \in GuestSteps /\ c \in Client
    <2>1. c \in Client /\ pc[c] = "inc" /\ Srv(c) = s
        BY DEF Arriving
    <2>2. Vote(c) \in keys /\ req[c].voter \in Guest
        BY <2>1 DEF WriteInv, WriteOK, LockInv, TypeInv, RequestsOK, Bound,
                    GuestSteps, VoteAsWritten
    <2> QED
        BY <2>1, <2>2 DEF Vote, Srv, KeysOf, GuestSteps
<1>2. ASSUME NEW c \in Arriving(s), NEW d \in Arriving(s), c # d
      PROVE  req[c].voter # req[d].voter
    <2>1. Vote(c) # Vote(d)
        BY <1>1, <1>2, VotesDiffer DEF WriteInv, LockInv, TypeInv, GuestVotesDiffer
    <2>2. Srv(c) = Srv(d)
        BY DEF Arriving
    <2> QED
        BY <2>1, <2>2 DEF Vote, Srv
<1>3. f \in Injection(Arriving(s), KeysOf(s))
    BY <1>1, <1>2 DEF Injection, IsInjective
<1> QED
    BY <1>3, CountsAreNat, FS_Injection

\* Who is arriving, retracting or late changes only by the client that steps.
LEMMA StandsStill ==
    ASSUME RequestsOK, NEW c \in Client, NEW s,
           pc[c] \notin {"inc", "dec"},
           \/ Answer(c)
           \/ \E step : Goto(c, step) /\ step \notin {"inc", "dec"}
    PROVE  Arriving(s)' = Arriving(s) /\ Retracting(s)' = Retracting(s)
<1>1. pc'[c] \notin {"inc", "dec"}
    BY SelfAnswered, SelfMoved
<1>2. \A d \in Client : d # c => pc'[d] = pc[d] /\ Srv(d)' = Srv(d)
    BY OthersStay
<1> QED
    BY <1>1, <1>2 DEF Arriving, Retracting

LEMMA LateOnlyShrinks ==
    ASSUME RequestsOK, OneTabPerGuest, NEW c \in Client, NEW s,
           \/ Answer(c)
           \/ \E step : Goto(c, step) /\ (step = "del" => Vote(c) \in keys'),
           \/ UNCHANGED keys
           \/ pc[c] \in GuestSteps /\ keys' \in {keys \cup {Vote(c)}, keys \ {Vote(c)}}
    PROVE  Late(s)' \subseteq Late(s)
<1>1. c \notin Late(s)'
    BY SelfAnswered, SelfMoved DEF Late
<1>2. ASSUME NEW d \in Client, d # c, d \in Late(s)' PROVE d \in Late(s)
    <2>1. pc'[d] = pc[d] /\ Srv(d)' = Srv(d) /\ Vote(d)' = Vote(d)
        BY <1>2, OthersStay
    <2>2. pc[d] = "del" /\ Srv(d) = s /\ Vote(d) \notin keys'
        BY <1>2, <2>1 DEF Late
    <2>3. pc[c] \in GuestSteps => Vote(c) # Vote(d)
        BY <1>2, <2>2, VotesDiffer DEF GuestSteps, GuestVotesDiffer
    <2> QED
        BY <2>2, <2>3 DEF Late
<1>3. Late(s)' \subseteq Client
    BY DEF Late
<1> QED
    BY <1>1, <1>2, <1>3

LEMMA LateStep ==
    OneTabPerGuest /\ WriteInv /\ LateCovered /\ [Next]_vars => LateCovered'
<1> SUFFICES ASSUME OneTabPerGuest, WriteInv, LateCovered, [Next]_vars,
                    NEW s \in Server
             PROVE  Cardinality(Late(s)') <= lapsed'[s]
    BY DEF LateCovered
<1>0. /\ RequestsOK /\ lapsed[s] \in Int
      /\ Cardinality(Late(s)) <= lapsed[s]
      /\ Cardinality(Late(s)) \in Nat /\ IsFiniteSet(Late(s))
    BY CountsAreNat DEF WriteInv, LockInv, TypeInv, DataOK, LateCovered
<1> USE DEF rows, slips
<1>1. ASSUME lapsed'[s] = lapsed[s], Late(s)' \subseteq Late(s)
      PROVE  Cardinality(Late(s)') <= lapsed'[s]
    <2>1. Cardinality(Late(s)') \in Nat /\ Cardinality(Late(s)') <= Cardinality(Late(s))
        BY <1>0, <1>1, FS_Subset, FS_CardinalityType
    <2> QED
        BY <1>0, <1>1, <2>1
<1>2. ASSUME NEW c \in Client, NEW z \in Server,
             Remove(c, z) \/ \E v \in Voter : Like(c, v, z)
      PROVE  Cardinality(Late(s)') <= lapsed'[s]
    <2>1. /\ pc'[c] # "del" /\ UNCHANGED <<keys, lapsed>>
          /\ \A d \in Client : d # c =>
                pc'[d] = pc[d] /\ Srv(d)' = Srv(d) /\ Vote(d)' = Vote(d)
        BY <1>0, <1>2 DEF Remove, Like, RequestsOK, Srv, Vote
    <2>2. Late(s)' \subseteq Late(s)
        BY <2>1 DEF Late
    <2> QED
        BY <1>1, <2>1, <2>2
<1>3. ASSUME NEW c \in Client,
             Count(c) \/ Delete(c) \/ Verify(c) \/ Set(c)
      PROVE  Cardinality(Late(s)') <= lapsed'[s]
    <2>1. \E step : Goto(c, step) /\ (step = "del" => Vote(c) \in keys')
        BY <1>3 DEF Count, Delete, Verify, Set
    <2>2. /\ UNCHANGED lapsed
          /\ UNCHANGED keys \/ (pc[c] \in GuestSteps /\ keys' = keys \cup {Vote(c)})
        BY <1>3 DEF Count, Delete, Verify, Set, GuestSteps
    <2> QED
        BY <1>0, <1>1, <2>1, <2>2, LateOnlyShrinks
<1>4. ASSUME NEW c \in Client,
             \/ CommitLike(c) \/ CommitUnlike(c) \/ UpdateLikesQuantity(c)
             \/ Cascade(c) \/ Fail(c) \/ KeyFault(c) \/ UpdateFault(c)
      PROVE  Cardinality(Late(s)') <= lapsed'[s]
    <2>1. Answer(c) /\ UNCHANGED lapsed
        BY <1>4 DEF CommitLike, CommitUnlike, UpdateLikesQuantity, Cascade,
                    Fail, KeyFault, UpdateFault
    <2>2. \/ UNCHANGED keys
          \/ pc[c] \in GuestSteps /\ keys' \in {keys \cup {Vote(c)}, keys \ {Vote(c)}}
        BY <1>4 DEF CommitLike, CommitUnlike, UpdateLikesQuantity, Cascade,
                    Fail, KeyFault, UpdateFault, GuestSteps
    <2> QED
        BY <1>0, <1>1, <2>1, <2>2, LateOnlyShrinks
<1>5. ASSUME NEW c \in Client, Insert(c) \/ LockServer(c)
      PROVE  Cardinality(Late(s)') <= lapsed'[s]
    <2>1. /\ Answer(c) \/ Goto(c, "bump") \/ Goto(c, "cascade")
          /\ UNCHANGED <<keys, lapsed>>
        BY <1>5, Zenon DEF Insert, LockServer
    <2> QED
        BY <1>0, <1>1, <2>1, LateOnlyShrinks
<1>6. ASSUME NEW c \in Client, Del(c)
      PROVE  Cardinality(Late(s)') <= lapsed'[s]
    <2>1. Late(s)' \subseteq Late(s)
        BY <1>0, <1>6, LateOnlyShrinks DEF Del, GuestSteps
    <2>2. CASE Srv(c) = s /\ Vote(c) \notin keys
        <3>1. lapsed'[s] = lapsed[s] - 1
            BY <1>0, <1>6, <2>2 DEF Del, WriteInv, LockInv, TypeInv, DataOK
        <3>2. c \in Late(s) /\ c \notin Late(s)'
            BY <1>0, <1>6, <2>2, SelfMoved DEF Del, Late
        <3>3. Late(s)' \subseteq Late(s) \ {c}
            BY <2>1, <3>2
        <3>4. /\ Cardinality(Late(s) \ {c}) = Cardinality(Late(s)) - 1
              /\ IsFiniteSet(Late(s) \ {c})
            BY <1>0, <3>2, FS_RemoveElement
        <3>5. /\ Cardinality(Late(s)') \in Nat
              /\ Cardinality(Late(s)') <= Cardinality(Late(s) \ {c})
            BY <3>3, <3>4, FS_Subset, FS_CardinalityType
        <3> QED
            BY <1>0, <3>1, <3>4, <3>5
    <2>3. CASE ~(Srv(c) = s /\ Vote(c) \notin keys)
        <3>1. lapsed'[s] = lapsed[s]
            BY <1>0, <1>6, <2>3 DEF Del, WriteInv, LockInv, TypeInv, DataOK
        <3> QED
            BY <1>1, <2>1, <3>1
    <2> QED
        BY <2>2, <2>3
<1>7. ASSUME NEW v \in Guest, NEW z \in Server, Lapse(v, z)
      PROVE  Cardinality(Late(s)') <= lapsed'[s]
    <2>1. /\ \A d \in Client : pc'[d] = pc[d] /\ Srv(d)' = Srv(d) /\ Vote(d)' = Vote(d)
          /\ keys' = keys \ {<<v, z>>}
        BY <1>7 DEF Lapse, Srv, Vote
    <2>2. CASE z # s
        <3>1. Late(s)' \subseteq Late(s)
            BY <2>1, <2>2 DEF Late, Vote, Srv
        <3>2. lapsed'[s] = lapsed[s]
            BY <1>0, <1>7, <2>2 DEF Lapse, WriteInv, LockInv, TypeInv, DataOK
        <3> QED
            BY <1>1, <3>1, <3>2
    <2>3. CASE z = s
        <3>1. lapsed'[s] = lapsed[s] + 1
            BY <1>0, <1>7, <2>3 DEF Lapse, WriteInv, LockInv, TypeInv, DataOK
        <3>2. \E d : Late(s)' \subseteq Late(s) \cup {d}
            <4>1. ASSUME NEW d \in Late(s)', NEW e \in Late(s)',
                         d \notin Late(s), e \notin Late(s)
                  PROVE  d = e
                <5>0. d \in Client /\ e \in Client
                    BY <4>1 DEF Late
                <5>1. /\ Vote(d) = <<v, z>> /\ Vote(e) = <<v, z>>
                      /\ pc[d] \in GuestSteps /\ pc[e] \in GuestSteps
                    BY <2>1, <4>1, <5>0 DEF Late, GuestSteps
                <5> QED
                    BY <1>0, <5>0, <5>1, VotesDiffer DEF GuestVotesDiffer
            <4> QED
                BY <4>1
        <3>3. PICK d : Late(s)' \subseteq Late(s) \cup {d}
            BY <3>2
        <3>4. /\ IsFiniteSet(Late(s) \cup {d})
              /\ Cardinality(Late(s) \cup {d}) \in Nat
              /\ Cardinality(Late(s) \cup {d}) <= Cardinality(Late(s)) + 1
            <4>1. /\ IsFiniteSet(Late(s) \cup {d})
                  /\ Cardinality(Late(s) \cup {d}) \in
                        {Cardinality(Late(s)), Cardinality(Late(s)) + 1}
                BY <1>0, FS_AddElement
            <4> QED
                BY <1>0, <4>1
        <3>5. /\ Cardinality(Late(s)') \in Nat
              /\ Cardinality(Late(s)') <= Cardinality(Late(s) \cup {d})
            BY <3>3, <3>4, FS_Subset, FS_CardinalityType
        <3> QED
            BY <1>0, <3>1, <3>4, <3>5
    <2> QED
        BY <2>2, <2>3
<1>8. CASE UNCHANGED vars
    BY <1>0, <1>8 DEF vars, Late, Vote, Srv
<1> QED
    BY <1>2, <1>3, <1>4, <1>5, <1>6, <1>7, <1>8 DEF Next, Arrive, Step

LEMMA Arrives ==
    ASSUME RequestsOK, NEW c \in Client, pc[c] = "set", Goto(c, "inc"), NEW s
    PROVE  /\ Retracting(s)' = Retracting(s)
           /\ Arriving(s)' = IF Srv(c) = s THEN Arriving(s) \cup {c} ELSE Arriving(s)
           /\ c \notin Arriving(s)
<1>1. \A d \in Client : d # c => pc'[d] = pc[d] /\ Srv(d)' = Srv(d)
    BY OthersStay
<1>2. pc'[c] = "inc" /\ Srv(c)' = Srv(c)
    BY SelfMoved
<1> QED
    BY <1>1, <1>2 DEF Arriving, Retracting

LEMMA Retracts ==
    ASSUME RequestsOK, NEW c \in Client, pc[c] = "del", Goto(c, "dec"), NEW s
    PROVE  /\ Arriving(s)' = Arriving(s)
           /\ Retracting(s)' = IF Srv(c) = s THEN Retracting(s) \cup {c} ELSE Retracting(s)
           /\ c \notin Retracting(s)
<1>1. \A d \in Client : d # c => pc'[d] = pc[d] /\ Srv(d)' = Srv(d)
    BY OthersStay
<1>2. pc'[c] = "dec" /\ Srv(c)' = Srv(c)
    BY SelfMoved
<1> QED
    BY <1>1, <1>2 DEF Arriving, Retracting

\* An answered request leaves the set it was counted in.
LEMMA Leaves ==
    ASSUME RequestsOK, NEW c \in Client, Answer(c), NEW s
    PROVE  /\ Arriving(s)' = Arriving(s) \ {c}
           /\ Retracting(s)' = Retracting(s) \ {c}
<1>1. \A d \in Client : d # c => pc'[d] = pc[d] /\ Srv(d)' = Srv(d)
    BY OthersStay
<1>2. pc'[c] = "idle"
    BY SelfAnswered
<1> QED
    BY <1>1, <1>2 DEF Arriving, Retracting

\* Adding or removing the vote of a user or a guest changes its server's
\* set by one, and no other's.
LEMMA LikesChange ==
    ASSUME NEW u \in User, NEW z, NEW s
    PROVE  /\ likes' = likes \cup {<<u, z>>} /\ <<u, z>> \notin likes =>
                Cardinality(LikesOf(s)') =
                    IF s = z THEN Cardinality(LikesOf(s)) + 1 ELSE Cardinality(LikesOf(s))
           /\ likes' = likes \ {<<u, z>>} /\ <<u, z>> \in likes =>
                Cardinality(LikesOf(s)') =
                    IF s = z THEN Cardinality(LikesOf(s)) - 1 ELSE Cardinality(LikesOf(s))
<1>1. ASSUME likes' = likes \cup {<<u, z>>}, <<u, z>> \notin likes
      PROVE  Cardinality(LikesOf(s)') =
                 IF s = z THEN Cardinality(LikesOf(s)) + 1 ELSE Cardinality(LikesOf(s))
    <2>1. /\ s = z => LikesOf(s)' = LikesOf(s) \cup {u} /\ u \notin LikesOf(s)
          /\ s # z => LikesOf(s)' = LikesOf(s)
        BY <1>1 DEF LikesOf
    <2> QED
        BY <2>1, OneMore, CountsAreNat
<1>2. ASSUME likes' = likes \ {<<u, z>>}, <<u, z>> \in likes
      PROVE  Cardinality(LikesOf(s)') =
                 IF s = z THEN Cardinality(LikesOf(s)) - 1 ELSE Cardinality(LikesOf(s))
    <2>1. /\ s = z => LikesOf(s)' = LikesOf(s) \ {u} /\ u \in LikesOf(s)
          /\ s # z => LikesOf(s)' = LikesOf(s)
        BY <1>2 DEF LikesOf
    <2> QED
        BY <2>1, OneLess, CountsAreNat
<1> QED
    BY <1>1, <1>2

LEMMA KeysChange ==
    ASSUME NEW g \in Guest, NEW z, NEW s
    PROVE  /\ keys' = keys \cup {<<g, z>>} /\ <<g, z>> \notin keys =>
                Cardinality(KeysOf(s)') =
                    IF s = z THEN Cardinality(KeysOf(s)) + 1 ELSE Cardinality(KeysOf(s))
           /\ keys' = keys \ {<<g, z>>} /\ <<g, z>> \in keys =>
                Cardinality(KeysOf(s)') =
                    IF s = z THEN Cardinality(KeysOf(s)) - 1 ELSE Cardinality(KeysOf(s))
<1>1. ASSUME keys' = keys \cup {<<g, z>>}, <<g, z>> \notin keys
      PROVE  Cardinality(KeysOf(s)') =
                 IF s = z THEN Cardinality(KeysOf(s)) + 1 ELSE Cardinality(KeysOf(s))
    <2>1. /\ s = z => KeysOf(s)' = KeysOf(s) \cup {g} /\ g \notin KeysOf(s)
          /\ s # z => KeysOf(s)' = KeysOf(s)
        BY <1>1 DEF KeysOf
    <2> QED
        BY <2>1, OneMore, CountsAreNat
<1>2. ASSUME keys' = keys \ {<<g, z>>}, <<g, z>> \in keys
      PROVE  Cardinality(KeysOf(s)') =
                 IF s = z THEN Cardinality(KeysOf(s)) - 1 ELSE Cardinality(KeysOf(s))
    <2>1. /\ s = z => KeysOf(s)' = KeysOf(s) \ {g} /\ g \in KeysOf(s)
          /\ s # z => KeysOf(s)' = KeysOf(s)
        BY <1>2 DEF KeysOf
    <2> QED
        BY <2>1, OneLess, CountsAreNat
<1> QED
    BY <1>1, <1>2

\* The counter of one server changes by d, or stays at the floor.
LEMMA CountedAt ==
    ASSUME qty \in [Server -> Nat], NEW z \in Server, NEW d \in {-1, 1},
           qty' = Counted(z, d), NEW s \in Server, s \in exists
    PROVE  /\ s # z => qty'[s] = qty[s]
           /\ s = z /\ d = 1 => qty'[s] = qty[s] + 1
           /\ s = z /\ d = -1 /\ qty[s] > 0 => qty'[s] = qty[s] - 1
           /\ s = z /\ d = -1 /\ qty[s] = 0 => qty'[s] = 0
BY DEF Counted

LEMMA ServersOnlyGo == [Next]_vars => exists' \subseteq exists
<1> USE DEF rows, slips
<1>1. ASSUME NEW c \in Client, Insert(c) \/ LockServer(c) PROVE exists' = exists
    BY <1>1, Zenon DEF Insert, LockServer
<1> QED
    BY <1>1 DEF Next, Arrive, Step, Remove, Like, Count, CommitLike, Delete,
       CommitUnlike, Verify, Set, Del, UpdateLikesQuantity, Cascade,
       Fail, KeyFault, UpdateFault, Lapse, vars

LEMMA DriftStep == OneTabPerGuest /\ DriftInv /\ [Next]_vars => DriftBounded'
<1> SUFFICES ASSUME OneTabPerGuest, DriftInv, [Next]_vars, NEW s \in exists'
             PROVE  Drift(s)' \in -(faults' + stray') .. faults'
    BY DEF DriftBounded
<1> DEFINE A == Cardinality(Arriving(s))
           R == Cardinality(Retracting(s))
           L == Cardinality(LikesOf(s))
           K == Cardinality(KeysOf(s))
           InBounds == Drift(s) \in -(faults + stray) .. faults
<1>0. /\ RequestsOK /\ TypeInv /\ WriteInv
      /\ s \in exists /\ s \in Server
      /\ qty \in [Server -> Nat] /\ lapsed \in [Server -> Int] /\ faults \in Nat /\ stray \in Nat
      /\ qty[s] \in Nat /\ lapsed[s] \in Nat
    <2>1. TypeInv /\ RequestsOK /\ DataOK /\ WriteInv
        BY DEF DriftInv, WriteInv, LockInv, TypeInv
    <2>2. s \in exists /\ s \in Server
        BY <2>1, ServersOnlyGo DEF DataOK
    <2>3. lapsed[s] \in Int /\ Cardinality(Late(s)) <= lapsed[s]
        BY <2>1, <2>2 DEF DriftInv, LateCovered, DataOK
    <2> QED
        BY <2>1, <2>2, <2>3, CountsAreNat DEF DataOK
<1>A. A \in Nat /\ R \in Nat /\ L \in Nat /\ K \in Nat /\ A <= K
    BY <1>0, CountsAreNat, ArrivalsHaveKeys
<1>B. Drift(s) = qty[s] + A - R - L - K - lapsed[s] /\ InBounds
    BY <1>0 DEF Drift, DriftInv, DriftBounded
<1>C. Drift(s)' = qty'[s] + A' - R' - L' - K' - lapsed'[s]
    BY DEF Drift
<1>D. UNCHANGED likes => L' = L
    BY DEF LikesOf
<1>E. UNCHANGED keys => K' = K
    BY DEF KeysOf
<1> HIDE DEF A, R, L, K
<1> USE DEF rows, slips
\* Steps that leave the stores and the counted requests alone.
<1>1. ASSUME A' = A, R' = R, UNCHANGED <<rows, keys, lapsed, slips>>
      PROVE  InBounds'
    BY <1>0, <1>A, <1>B, <1>C, <1>D, <1>E, <1>1
<1>2. ASSUME NEW c \in Client, NEW z \in Server,
             Remove(c, z) \/ \E v \in Voter : Like(c, v, z)
      PROVE  InBounds'
    <2>1. /\ pc[c] = "idle" /\ pc'[c] \in {"erase", "count", "verify"}
          /\ UNCHANGED <<rows, keys, lapsed, slips>>
          /\ \A d \in Client : d # c => pc'[d] = pc[d] /\ Srv(d)' = Srv(d)
        BY <1>0, <1>2 DEF Remove, Like, RequestsOK, Srv
    <2>2. A' = A /\ R' = R
        BY <2>1 DEF A, R, Arriving, Retracting
    <2> QED
        BY <1>1, <2>1, <2>2
<1>3. ASSUME NEW c \in Client,
             \/ Count(c) \/ Delete(c) \/ Verify(c)
             \/ Insert(c) \/ LockServer(c) \/ Fail(c)
      PROVE  InBounds'
    <2>1. /\ pc[c] \notin {"inc", "dec"} /\ UNCHANGED <<rows, keys, lapsed, slips>>
          /\ \/ Answer(c)
             \/ \E step : Goto(c, step) /\ step \notin {"inc", "dec"}
        <3>1. CASE Count(c) \/ Delete(c) \/ Verify(c)
            BY <3>1 DEF Count, Delete, Verify
        <3>2. CASE Insert(c) \/ LockServer(c) \/ Fail(c)
            <4>1. /\ pc[c] \notin {"inc", "dec"} /\ UNCHANGED <<rows, keys, lapsed, slips>>
                  /\ Answer(c) \/ Goto(c, "bump") \/ Goto(c, "cascade")
                BY <3>2, Zenon DEF Insert, LockServer, Fail
            <4> QED
                BY <4>1
        <3> QED
            BY <1>3, <3>1, <3>2
    <2>2. A' = A /\ R' = R
        BY <1>0, <2>1, StandsStill DEF A, R
    <2> QED
        BY <1>1, <2>1, <2>2
<1>4. ASSUME NEW c \in Client, CommitLike(c)
      PROVE  InBounds'
    <2>1. Vote(c) \notin likes /\ req[c].voter \in User /\ Srv(c) \in Server
        BY <1>0, <1>4 DEF CommitLike, WriteInv, WriteOK, VoteAsWritten,
                          RequestsOK, Bound, TxSteps, Srv
    <2>2. L' = IF s = Srv(c) THEN L + 1 ELSE L
        BY <1>4, <2>1, LikesChange DEF CommitLike, Vote, Srv, L
    <2>3. qty'[s] = IF s = Srv(c) THEN qty[s] + 1 ELSE qty[s]
        BY <1>0, <1>4, <2>1, CountedAt DEF CommitLike
    <2>4. A' = A /\ R' = R
        BY <1>0, <1>4, StandsStill DEF CommitLike, A, R
    <2>5. K' = K /\ UNCHANGED <<lapsed, faults, stray>>
        BY <1>4, <1>E DEF CommitLike
    <2> QED
        BY <1>0, <1>A, <1>B, <1>C, <2>2, <2>3, <2>4, <2>5
<1>5. ASSUME NEW c \in Client, CommitUnlike(c)
      PROVE  InBounds'
    <2>1. /\ req[c].voter \in User /\ Srv(c) \in Server
          /\ pc[c] = "drop" => Vote(c) \in likes
        BY <1>0, <1>5 DEF CommitUnlike, WriteInv, WriteOK, VoteAsWritten,
                          RequestsOK, Bound, TxSteps, Srv
    <2>2. A' = A /\ R' = R
        BY <1>0, <1>5, StandsStill DEF CommitUnlike, A, R
    <2>3. K' = K /\ UNCHANGED <<lapsed, faults>> /\ stray' \in {stray, stray + 1}
        BY <1>5, <1>E DEF CommitUnlike
    <2>4. CASE pc[c] = "drop" /\ s = Srv(c)
        <3>1. L' = L - 1
            BY <1>5, <2>1, <2>4, LikesChange DEF CommitUnlike, Vote, Srv, L
        <3>2. qty'[s] = IF qty[s] > 0 THEN qty[s] - 1 ELSE 0
            BY <1>0, <1>5, <2>1, <2>4, CountedAt DEF CommitUnlike
        <3>3. L > 0
            <4>1. LikesOf(s) # {}
                BY <2>1, <2>4 DEF LikesOf, Vote, Srv
            <4> QED
                BY <1>A, <4>1, CountsAreNat, FS_EmptySet DEF L
        <3> QED
            BY <1>0, <1>A, <1>B, <1>C, <2>2, <2>3, <3>1, <3>2, <3>3
    <2>5. CASE pc[c] = "dropNone" /\ s = Srv(c)
        <3>1. L' = L
            BY <1>5, <1>D, <2>5 DEF CommitUnlike
        <3>2. qty'[s] \in {qty[s], qty[s] - 1}
            BY <1>0, <1>5, <2>1, <2>5, CountedAt DEF CommitUnlike
        <3>3. stray' = stray + 1
            BY <1>0, <1>5, <2>5 DEF CommitUnlike
        <3> QED
            BY <1>0, <1>A, <1>B, <1>C, <2>2, <2>3, <3>1, <3>2, <3>3
    <2>6. CASE s # Srv(c)
        <3>1. L' = L
            <4>1. CASE pc[c] = "drop"
                BY <1>5, <2>1, <2>6, <4>1, LikesChange DEF CommitUnlike, Vote, Srv, L
            <4>2. CASE pc[c] = "dropNone"
                BY <1>5, <1>D, <4>2 DEF CommitUnlike
            <4> QED
                BY <1>5, <4>1, <4>2 DEF CommitUnlike
        <3>2. qty'[s] = qty[s]
            BY <1>0, <1>5, <2>1, <2>6, CountedAt DEF CommitUnlike
        <3> QED
            BY <1>0, <1>A, <1>B, <1>C, <2>2, <2>3, <3>1, <3>2
    <2> QED
        BY <1>5, <2>4, <2>5, <2>6 DEF CommitUnlike
<1>6. ASSUME NEW c \in Client, Set(c)
      PROVE  InBounds'
    <2>1. Vote(c) \notin keys /\ req[c].voter \in Guest
        BY <1>0, <1>6 DEF Set, WriteInv, WriteOK, VoteAsWritten,
                          RequestsOK, Bound, GuestSteps
    <2>2. K' = IF s = Srv(c) THEN K + 1 ELSE K
        BY <1>6, <2>1, KeysChange DEF Set, Vote, Srv, K
    <2>3. R' = R /\ A' = IF s = Srv(c) THEN A + 1 ELSE A
        BY <1>0, <1>6, Arrives, OneMore, CountsAreNat DEF Set, A, R
    <2>4. L' = L /\ UNCHANGED <<qty, lapsed, faults, stray>>
        BY <1>6, <1>D DEF Set
    <2> QED
        BY <1>0, <1>A, <1>B, <1>C, <2>2, <2>3, <2>4
<1>7. ASSUME NEW c \in Client, Del(c)
      PROVE  InBounds'
    <2>1. req[c].voter \in Guest
        BY <1>0, <1>7 DEF Del, RequestsOK, Bound, GuestSteps
    <2>2. A' = A /\ R' = IF s = Srv(c) THEN R + 1 ELSE R
        BY <1>0, <1>7, Retracts, OneMore, CountsAreNat DEF Del, A, R
    <2>3. L' = L /\ UNCHANGED <<qty, faults, stray>>
        BY <1>7, <1>D DEF Del
    <2>4. CASE Vote(c) \in keys
        <3>1. K' = IF s = Srv(c) THEN K - 1 ELSE K
            BY <1>7, <2>1, <2>4, KeysChange DEF Del, Vote, Srv, K
        <3>2. UNCHANGED lapsed
            BY <1>7, <2>4 DEF Del
        <3> QED
            BY <1>0, <1>A, <1>B, <1>C, <2>2, <2>3, <3>1, <3>2
    <2>5. CASE Vote(c) \notin keys
        <3>1. K' = K
            BY <1>7, <2>5, <1>E DEF Del
        <3>2. lapsed'[s] = IF s = Srv(c) THEN lapsed[s] - 1 ELSE lapsed[s]
            BY <1>0, <1>7, <2>5 DEF Del
        <3> QED
            BY <1>0, <1>A, <1>B, <1>C, <2>2, <2>3, <3>1, <3>2
    <2> QED
        BY <2>4, <2>5
<1>8. ASSUME NEW c \in Client, UpdateLikesQuantity(c)
      PROVE  InBounds'
    <2>1. Srv(c) \in Server /\ Answer(c)
        BY <1>0, <1>8, VoteType DEF UpdateLikesQuantity
    <2>2. L' = L /\ K' = K /\ UNCHANGED <<lapsed, faults, stray>>
        BY <1>8, <1>D, <1>E DEF UpdateLikesQuantity
    <2>3. CASE pc[c] = "inc"
        <3>1. R' = R /\ A' = IF s = Srv(c) THEN A - 1 ELSE A
            <4>1. c \notin Retracting(s) /\ (c \in Arriving(s) <=> s = Srv(c))
                BY <2>3 DEF Arriving, Retracting
            <4>2. /\ Retracting(s)' = Retracting(s)
                  /\ s # Srv(c) => Arriving(s)' = Arriving(s)
                  /\ s = Srv(c) => Arriving(s)' = Arriving(s) \ {c}
                <5>1. RequestsOK
                    BY <1>0
                <5>2. /\ Arriving(s)' = Arriving(s) \ {c}
                      /\ Retracting(s)' = Retracting(s) \ {c}
                    BY <2>1, <5>1, Leaves
                <5> QED
                    BY <4>1, <5>2
            <4>3. s = Srv(c) => Cardinality(Arriving(s)') = Cardinality(Arriving(s)) - 1
                BY <4>1, <4>2, OneLess, CountsAreNat
            <4> QED
                BY <4>2, <4>3 DEF A, R
        <3>2. qty' = Counted(Srv(c), 1)
            BY <1>8, <2>3 DEF UpdateLikesQuantity
        <3>3. qty'[s] = IF s = Srv(c) THEN qty[s] + 1 ELSE qty[s]
            BY <1>0, <2>1, <3>2, CountedAt
        <3> QED
            BY <1>0, <1>A, <1>B, <1>C, <2>2, <3>1, <3>3
    <2>4. CASE pc[c] = "dec"
        <3>1. A' = A /\ R' = IF s = Srv(c) THEN R - 1 ELSE R
            <4>1. c \notin Arriving(s) /\ (c \in Retracting(s) <=> s = Srv(c))
                BY <2>4 DEF Arriving, Retracting
            <4>2. /\ Arriving(s)' = Arriving(s)
                  /\ s # Srv(c) => Retracting(s)' = Retracting(s)
                  /\ s = Srv(c) => Retracting(s)' = Retracting(s) \ {c}
                BY <1>0, <2>1, <4>1, Leaves
            <4>3. s = Srv(c) => Cardinality(Retracting(s)') = Cardinality(Retracting(s)) - 1
                BY <4>1, <4>2, OneLess, CountsAreNat
            <4> QED
                BY <4>2, <4>3 DEF A, R
        <3>2. qty' = Counted(Srv(c), -1)
            BY <1>8, <2>4 DEF UpdateLikesQuantity
        <3>3. qty'[s] = IF s # Srv(c) THEN qty[s] ELSE
                        IF qty[s] > 0 THEN qty[s] - 1 ELSE 0
            BY <1>0, <2>1, <3>2, CountedAt
        <3>4. s = Srv(c) => R > 0
            <4>1. s = Srv(c) => Retracting(s) # {}
                BY <2>4 DEF Retracting
            <4> QED
                BY <1>A, <4>1, CountsAreNat, FS_EmptySet DEF R
        <3> QED
            BY <1>0, <1>A, <1>B, <1>C, <2>2, <3>1, <3>3, <3>4
    <2> QED
        BY <1>8, <2>3, <2>4 DEF UpdateLikesQuantity
<1>9. ASSUME NEW c \in Client, Cascade(c)
      PROVE  InBounds'
    <2>1. s # Srv(c)
        BY <1>9 DEF Cascade
    <2>2. A' = A /\ R' = R
        BY <1>0, <1>9, StandsStill DEF Cascade, A, R
    <2>3. K' = K /\ UNCHANGED <<lapsed, faults, stray>> /\ qty'[s] = qty[s]
        BY <1>0, <1>9, <1>E, <2>1 DEF Cascade
    <2>4. LikesOf(s)' = LikesOf(s)
        BY <1>9, <2>1 DEF Cascade, LikesOf
    <2> QED
        BY <1>0, <1>A, <1>B, <1>C, <2>2, <2>3, <2>4 DEF L
<1>10. ASSUME NEW c \in Client, KeyFault(c)
       PROVE  InBounds'
    <2>1. req[c].voter \in Guest /\ (pc[c] = "set" => Vote(c) \notin keys)
        BY <1>0, <1>10 DEF KeyFault, WriteInv, WriteOK, VoteAsWritten,
                           RequestsOK, Bound, GuestSteps
    <2>2. A' = A /\ R' = R
        BY <1>0, <1>10, StandsStill DEF KeyFault, A, R
    <2>3. L' = L /\ UNCHANGED <<qty, lapsed, stray>> /\ faults' = faults + 1
        BY <1>10, <1>D DEF KeyFault
    <2>4. K' \in {K - 1, K, K + 1}
        <3>1. CASE pc[c] = "set"
            BY <1>10, <2>1, <3>1, KeysChange DEF KeyFault, Vote, K
        <3>2. CASE pc[c] = "del" /\ Vote(c) \in keys
            BY <1>10, <2>1, <3>2, KeysChange DEF KeyFault, Vote, K
        <3>3. CASE pc[c] = "del" /\ Vote(c) \notin keys
            BY <1>10, <3>3, <1>E DEF KeyFault
        <3> QED
            BY <1>10, <3>1, <3>2, <3>3 DEF KeyFault
    <2> QED
        BY <1>0, <1>A, <1>B, <1>C, <2>2, <2>3, <2>4
<1>11. ASSUME NEW c \in Client, UpdateFault(c)
       PROVE  InBounds'
    <2>1. L' = L /\ K' = K /\ UNCHANGED <<qty, lapsed, stray>> /\ faults' = faults + 1
        BY <1>11, <1>D, <1>E DEF UpdateFault
    <2>2. c \notin Arriving(s) \/ c \notin Retracting(s)
        BY DEF Arriving, Retracting
    <2>3. /\ A' = IF c \in Arriving(s) THEN A - 1 ELSE A
          /\ R' = IF c \in Retracting(s) THEN R - 1 ELSE R
        BY <1>0, <1>11, Leaves, FS_RemoveElement, CountsAreNat DEF UpdateFault, A, R
    <2> QED
        BY <1>0, <1>A, <1>B, <1>C, <2>1, <2>2, <2>3
<1>12. ASSUME NEW v \in Guest, NEW z \in Server, Lapse(v, z)
       PROVE  InBounds'
    <2>1. A' = A /\ R' = R /\ L' = L /\ UNCHANGED <<qty, faults, stray>>
        BY <1>12, <1>D DEF Lapse, A, R, Arriving, Retracting, Srv
    <2>2. K' = IF s = z THEN K - 1 ELSE K
        BY <1>12, KeysChange DEF Lapse, K
    <2>3. lapsed'[s] = IF s = z THEN lapsed[s] + 1 ELSE lapsed[s]
        BY <1>0, <1>12 DEF Lapse
    <2> QED
        BY <1>0, <1>A, <1>B, <1>C, <2>1, <2>2, <2>3
<1>13. CASE UNCHANGED vars
    <2>1. A' = A /\ R' = R
        BY <1>13 DEF vars, A, R, Arriving, Retracting, Srv
    <2> QED
        BY <1>1, <1>13, <2>1 DEF vars
<1> QED
    BY <1>2, <1>3, <1>4, <1>5, <1>6, <1>7, <1>8, <1>9, <1>10, <1>11, <1>12,
       <1>13 DEF Next, Arrive, Step

LEMMA DriftInit == Init => LateCovered /\ DriftBounded
<1> SUFFICES ASSUME Init PROVE LateCovered /\ DriftBounded
    OBVIOUS
<1>1. ASSUME NEW s
      PROVE  /\ Arriving(s) = {} /\ Retracting(s) = {} /\ Late(s) = {}
             /\ LikesOf(s) = {} /\ KeysOf(s) = {}
    BY DEF Init, Arriving, Retracting, Late, LikesOf, KeysOf
<1> QED
    BY <1>1, FS_EmptySet DEF Init, LateCovered, DriftBounded, Drift

\* With any number of tabs per user, and one guest per address, no like is
\* counted twice: the counter of a listed server is above the votes by no
\* more than the storage calls that took half an effect, and below them by
\* no more than these and the unlikes whose DELETE removed no row.
THEOREM CounterTracksVotes == OneTabPerGuest => (Spec => []DriftBounded)
<1> SUFFICES ASSUME OneTabPerGuest PROVE Spec => []DriftBounded
    OBVIOUS
<1> DEFINE Rest == LateCovered /\ DriftBounded
<1>1. Init => Rest
    BY DriftInit
<1>2. WriteInv /\ Rest /\ [Next]_vars => Rest'
    BY LateStep, DriftStep DEF DriftInv
<1>3. Rest => DriftBounded
    OBVIOUS
<1>4. Spec => []WriteInv
    BY WriteInvariant
<1> HIDE DEF Rest
<1> QED
    BY <1>1, <1>2, <1>3, <1>4, PTL DEF Spec

\* What the page shows when nothing is under way is the number of votes.
THEOREM QuietCounterIsExact == OneTabPerVoter => (Spec => []TallyMatchesVotes)
<1> SUFFICES ASSUME OneTabPerVoter PROVE Spec => []TallyMatchesVotes
    OBVIOUS
<1>1. TypeInv /\ DriftBounded /\ stray = 0 => TallyMatchesVotes
    <2> SUFFICES ASSUME TypeInv, DriftBounded, stray = 0, faults = 0,
                        \A c \in Client : pc[c] = "idle", NEW s \in exists
                 PROVE  qty[s] = Cardinality(LikesOf(s)) + Cardinality(KeysOf(s))
                                 + lapsed[s]
        BY DEF TallyMatchesVotes
    <2>1. Drift(s) = 0
        BY DEF DriftBounded
    <2>2. Arriving(s) = {} /\ Retracting(s) = {}
        BY DEF Arriving, Retracting
    <2>3. qty[s] \in Nat /\ lapsed[s] \in Int
        BY DEF TypeInv, DataOK
    <2> QED
        BY <2>1, <2>2, <2>3, CountsAreNat, FS_EmptySet DEF Drift
<1>2. Spec => [](WriteInv /\ UnlikesFind /\ stray = 0)
    BY FindInvariant
<1>3. Spec => []DriftBounded
    BY CounterTracksVotes, OneTabIsOneGuest
<1>4. WriteInv => TypeInv
    BY DEF WriteInv, LockInv
<1> QED
    BY <1>1, <1>2, <1>3, <1>4, PTL

-----------------------------------------------------------------------------
\* The ledger's view of the like button.
TallyOf(s) == qty[s] + Cardinality(Arriving(s)) - Cardinality(Retracting(s))

Voted == {p \in likes \cup keys : p[2] \in exists}
Tally == [s \in Server |-> IF s \in exists THEN TallyOf(s) ELSE 0]
LapsedListed == [s \in Server |-> IF s \in exists THEN lapsed[s] ELSE 0]

LedgerInv == DriftInv /\ UnlikesFind /\ stray = 0 /\ faults = 0

\* The ledger's actions, in this view.
LEMMA ToCast ==
    ASSUME NEW v \in Voter, NEW s \in Server,
           s \in exists, <<v, s>> \notin Voted,
           Voted' = Voted \cup {<<v, s>>},
           Tally' = [Tally EXCEPT ![s] = @ + 1],
           UNCHANGED exists, LapsedListed' = LapsedListed
    PROVE  Ledger!Next
BY DEF Ledger!Next, Ledger!Cast, Voted, Tally, LapsedListed, TallyOf

LEMMA ToRetract ==
    ASSUME NEW v \in Voter, NEW s \in Server,
           s \in exists, <<v, s>> \in Voted,
           Voted' = Voted \ {<<v, s>>},
           Tally' = [Tally EXCEPT ![s] = @ - 1],
           UNCHANGED exists, LapsedListed' = LapsedListed
    PROVE  Ledger!Next
BY DEF Ledger!Next, Ledger!Retract, Voted, Tally, LapsedListed, TallyOf

LEMMA ToLapse ==
    ASSUME NEW v \in Voter, NEW s \in Server,
           s \in exists, <<v, s>> \in Voted,
           Voted' = Voted \ {<<v, s>>},
           Tally' = Tally, UNCHANGED exists,
           LapsedListed' = [LapsedListed EXCEPT ![s] = @ + 1]
    PROVE  Ledger!Next
BY DEF Ledger!Next, Ledger!Lapse, Voted, Tally, LapsedListed, TallyOf

LEMMA ToRetractLapsed ==
    ASSUME NEW s \in Server, s \in exists, LapsedListed[s] > 0,
           Voted' = Voted, UNCHANGED exists,
           Tally' = [Tally EXCEPT ![s] = @ - 1],
           LapsedListed' = [LapsedListed EXCEPT ![s] = @ - 1]
    PROVE  Ledger!Next
BY DEF Ledger!Next, Ledger!RetractLapsed, Voted, Tally, LapsedListed, TallyOf

LEMMA ToClose ==
    ASSUME NEW s \in Server, s \in exists,
           exists' = exists \ {s},
           Voted' = {p \in Voted : p[2] # s},
           Tally' = [Tally EXCEPT ![s] = 0],
           LapsedListed' = [LapsedListed EXCEPT ![s] = 0]
    PROVE  Ledger!Next
BY DEF Ledger!Next, Ledger!Close, Voted, Tally, LapsedListed, TallyOf

LEMMA ToStutter ==
    ASSUME UNCHANGED exists, Voted' = Voted, Tally' = Tally,
           LapsedListed' = LapsedListed
    PROVE  UNCHANGED Ledger!vars
BY DEF Ledger!vars, Voted, Tally, LapsedListed, TallyOf

\* How the view moves: one server's tally by d, the others' not at all.
LEMMA TallyMoves ==
    ASSUME NEW z \in Server, z \in exists, NEW d \in Int, UNCHANGED exists,
           TallyOf(z)' = TallyOf(z) + d,
           \A s \in exists : s # z => TallyOf(s)' = TallyOf(s)
    PROVE  Tally' = [Tally EXCEPT ![z] = @ + d]
BY DEF Tally

LEMMA TallyStays ==
    ASSUME UNCHANGED exists, \A s \in exists : TallyOf(s)' = TallyOf(s)
    PROVE  Tally' = Tally
BY DEF Tally

LEMMA LapsedStays ==
    ASSUME UNCHANGED exists, \A s \in exists : lapsed'[s] = lapsed[s]
    PROVE  LapsedListed' = LapsedListed
BY DEF LapsedListed

\* What LedgerInv says of a listed server.
LEMMA LedgerFacts ==
    ASSUME OneTabPerVoter, LedgerInv
    PROVE  /\ TypeInv /\ RequestsOK /\ DataOK /\ LocksHeld /\ NoOrphanLikes
           /\ UnlikesFind /\ WriteInv
           /\ \A c \in Client : VoteAsWritten(c)
           /\ \A s \in exists :
                /\ s \in Server /\ qty[s] \in Nat /\ lapsed[s] \in Nat
                /\ Cardinality(Late(s)) <= lapsed[s]
                /\ Cardinality(Arriving(s)) <= Cardinality(KeysOf(s))
                /\ TallyOf(s) = Cardinality(LikesOf(s)) + Cardinality(KeysOf(s)) + lapsed[s]
                /\ TallyOf(s) \in Nat
<1>1. /\ TypeInv /\ RequestsOK /\ DataOK /\ LocksHeld /\ NoOrphanLikes
      /\ UnlikesFind /\ WriteInv /\ WriteOK /\ LateCovered /\ DriftBounded
      /\ faults = 0 /\ stray = 0
    BY DEF LedgerInv, DriftInv, WriteInv, LockInv, TypeInv
<1>2. ASSUME NEW s \in exists
      PROVE  /\ s \in Server /\ qty[s] \in Nat /\ lapsed[s] \in Nat
             /\ Cardinality(Late(s)) <= lapsed[s]
             /\ Cardinality(Arriving(s)) <= Cardinality(KeysOf(s))
             /\ TallyOf(s) = Cardinality(LikesOf(s)) + Cardinality(KeysOf(s)) + lapsed[s]
             /\ TallyOf(s) \in Nat
    <2>1. s \in Server
        BY <1>1 DEF DataOK
    <2>2. /\ qty[s] \in Nat /\ lapsed[s] \in Int
          /\ Cardinality(Late(s)) <= lapsed[s]
        BY <1>1, <2>1 DEF DataOK, LateCovered
    <2>3. Cardinality(Arriving(s)) <= Cardinality(KeysOf(s))
        BY <1>1, <2>1, ArrivalsHaveKeys, OneTabIsOneGuest
    <2>4. Drift(s) = 0
        BY <1>1 DEF DriftBounded
    <2> QED
        BY <2>1, <2>2, <2>3, <2>4, CountsAreNat DEF Drift, TallyOf
<1> QED
    BY <1>1, <1>2 DEF WriteOK

\* Requests that come, read, wait or fail leave the view as it is.
LEMMA ViewStays ==
    ASSUME UNCHANGED <<rows, keys, lapsed>>,
           \A s : Arriving(s)' = Arriving(s) /\ Retracting(s)' = Retracting(s)
    PROVE  UNCHANGED Ledger!vars
<1>1. UNCHANGED exists /\ Voted' = Voted
    BY DEF Voted, rows
<1>2. \A s \in exists : TallyOf(s)' = TallyOf(s)
    BY DEF TallyOf, rows
<1>3. Tally' = Tally
    BY <1>1, <1>2, TallyStays
<1>4. LapsedListed' = LapsedListed
    BY <1>1 DEF LapsedListed
<1> QED
    BY <1>1, <1>3, <1>4, ToStutter

LEMMA QuietSteps ==
    ASSUME RequestsOK, NEW c \in Client,
           \/ Arrive(c) \/ Count(c) \/ Delete(c) \/ Verify(c)
           \/ Insert(c) \/ LockServer(c) \/ Fail(c)
    PROVE  UNCHANGED Ledger!vars
<1>1. CASE Arrive(c)
    <2>1. /\ pc[c] = "idle" /\ pc'[c] \in {"erase", "count", "verify"}
          /\ UNCHANGED <<rows, keys, lapsed>>
          /\ \A d \in Client : d # c => pc'[d] = pc[d] /\ Srv(d)' = Srv(d)
        BY <1>1 DEF Arrive, Remove, Like, RequestsOK, Srv
    <2>2. \A s : Arriving(s)' = Arriving(s) /\ Retracting(s)' = Retracting(s)
        BY <2>1 DEF Arriving, Retracting
    <2> QED
        BY <2>1, <2>2, ViewStays
<1>2. CASE Count(c) \/ Delete(c) \/ Verify(c) \/ Insert(c) \/ LockServer(c) \/ Fail(c)
    <2>1. /\ pc[c] \notin {"inc", "dec"} /\ UNCHANGED <<rows, keys, lapsed>>
          /\ \/ Answer(c)
             \/ \E step : Goto(c, step) /\ step \notin {"inc", "dec"}
        <3>1. CASE Count(c) \/ Delete(c) \/ Verify(c)
            BY <3>1 DEF Count, Delete, Verify
        <3>2. CASE Insert(c) \/ LockServer(c) \/ Fail(c)
            <4>1. /\ pc[c] \notin {"inc", "dec"} /\ UNCHANGED <<rows, keys, lapsed>>
                  /\ Answer(c) \/ Goto(c, "bump") \/ Goto(c, "cascade")
                BY <3>2, Zenon DEF Insert, LockServer, Fail
            <4> QED
                BY <4>1
        <3> QED
            BY <1>2, <3>1, <3>2
    <2>2. \A s : Arriving(s)' = Arriving(s) /\ Retracting(s)' = Retracting(s)
        BY <2>1, StandsStill
    <2> QED
        BY <2>1, <2>2, ViewStays
<1> QED
    BY <1>1, <1>2

LEMMA LikeIsCast ==
    ASSUME OneTabPerVoter, LedgerInv, NEW c \in Client, CommitLike(c)
    PROVE  Ledger!Next
<1>0. /\ RequestsOK /\ DataOK /\ LocksHeld /\ VoteAsWritten(c)
      /\ \A s \in exists : s \in Server /\ qty[s] \in Nat
    BY LedgerFacts
<1>1. PICK v \in User, z \in Server : Vote(c) = <<v, z>> /\ Srv(c) = z
    BY <1>0, VoteType DEF CommitLike, TxSteps, Vote, Srv
<1>2. z \in exists /\ Vote(c) \notin likes /\ Vote(c) \notin keys
    BY <1>0, <1>1, ConstantsAssumption DEF CommitLike, LocksHeld,
                                           VoteAsWritten, DataOK
<1>3. /\ likes' = likes \cup {Vote(c)} /\ qty' = Counted(z, 1)
      /\ UNCHANGED <<exists, keys, lapsed>> /\ Answer(c) /\ pc[c] = "bump"
    BY <1>1 DEF CommitLike
<1>4. \A s : Arriving(s)' = Arriving(s) /\ Retracting(s)' = Retracting(s)
    BY <1>0, <1>3, StandsStill
<1>5. \A s \in exists : qty'[s] = IF s = z THEN qty[s] + 1 ELSE qty[s]
    BY <1>0, <1>3, CountedAt DEF DataOK
<1>6. TallyOf(z)' = TallyOf(z) + 1
    BY <1>0, <1>2, <1>4, <1>5, CountsAreNat DEF TallyOf
<1>7. \A s \in exists : s # z => TallyOf(s)' = TallyOf(s)
    BY <1>4, <1>5 DEF TallyOf
<1>8. Tally' = [Tally EXCEPT ![z] = @ + 1]
    BY <1>2, <1>3, <1>6, <1>7, TallyMoves
<1>9. LapsedListed' = LapsedListed
    BY <1>3 DEF LapsedListed
<1>10. <<v, z>> \notin Voted /\ Voted' = Voted \cup {<<v, z>>} /\ v \in Voter
    BY <1>1, <1>2, <1>3 DEF Voted, Voter
<1> QED
    BY <1>2, <1>3, <1>8, <1>9, <1>10, ToCast

\* An unlike retracts its row, or comes after the server is gone.
LEMMA UnlikeIsRetract ==
    ASSUME OneTabPerVoter, LedgerInv, NEW c \in Client, CommitUnlike(c)
    PROVE  Ledger!Next \/ UNCHANGED Ledger!vars
<1>0. /\ RequestsOK /\ DataOK /\ NoOrphanLikes /\ VoteAsWritten(c) /\ UnlikesFind
      /\ \A s \in exists :
            /\ s \in Server /\ qty[s] \in Nat /\ lapsed[s] \in Nat
            /\ Cardinality(Arriving(s)) <= Cardinality(KeysOf(s))
            /\ TallyOf(s) = Cardinality(LikesOf(s)) + Cardinality(KeysOf(s)) + lapsed[s]
    BY LedgerFacts
<1>1. PICK v \in User, z \in Server : Vote(c) = <<v, z>> /\ Srv(c) = z
    BY <1>0, VoteType DEF CommitUnlike, TxSteps, Vote, Srv
<1>2. /\ qty' = Counted(z, -1) /\ UNCHANGED <<exists, keys, lapsed>>
      /\ Answer(c) /\ pc[c] \in {"drop", "dropNone"}
    BY <1>1 DEF CommitUnlike
<1>3. \A s : Arriving(s)' = Arriving(s) /\ Retracting(s)' = Retracting(s)
    BY <1>0, <1>2, StandsStill
<1>4. \A s \in exists : s # z => TallyOf(s)' = TallyOf(s)
    <2>1. \A s \in exists : s # z => qty'[s] = qty[s]
        BY <1>0, <1>2, CountedAt DEF DataOK
    <2> QED
        BY <1>3, <2>1 DEF TallyOf
<1>5. LapsedListed' = LapsedListed
    BY <1>2 DEF LapsedListed
<1>6. CASE pc[c] = "drop"
    <2>1. /\ Vote(c) \in likes /\ Vote(c) \notin keys /\ z \in exists
          /\ likes' = likes \ {Vote(c)}
        BY <1>0, <1>1, <1>6, ConstantsAssumption
           DEF CommitUnlike, VoteAsWritten, DataOK, NoOrphanLikes
    <2>2. qty[z] > 0
        <3>1. LikesOf(z) # {}
            BY <1>1, <2>1 DEF LikesOf
        <3>2. Cardinality(LikesOf(z)) > 0
            BY <3>1, CountsAreNat, FS_EmptySet
        <3> QED
            BY <1>0, <2>1, <3>2, CountsAreNat DEF TallyOf
    <2>3. qty'[z] = qty[z] - 1
        BY <1>0, <1>2, <2>1, <2>2, CountedAt DEF DataOK
    <2>4. TallyOf(z)' = TallyOf(z) + (-1)
        BY <1>0, <1>3, <2>1, <2>3, CountsAreNat DEF TallyOf
    <2>5. Tally' = [Tally EXCEPT ![z] = @ + (-1)]
        BY <1>2, <1>4, <2>1, <2>4, TallyMoves
    <2>6. Tally' = [Tally EXCEPT ![z] = @ - 1]
        <3>1. Tally[z] \in Int
            BY <1>0, <2>1, CountsAreNat DEF Tally
        <3> QED
            BY <2>5, <3>1
    <2>7. <<v, z>> \in Voted /\ Voted' = Voted \ {<<v, z>>} /\ v \in Voter
        BY <1>1, <1>2, <2>1 DEF Voted, Voter
    <2> QED
        BY <1>2, <1>5, <2>1, <2>6, <2>7, ToRetract
<1>7. CASE pc[c] = "dropNone"
    <2>1. z \notin exists /\ likes' = likes
        BY <1>0, <1>1, <1>7 DEF CommitUnlike, UnlikesFind
    <2>2. Tally' = Tally
        BY <1>2, <1>4, <2>1, TallyStays
    <2>3. Voted' = Voted
        BY <1>2, <2>1 DEF Voted
    <2> QED
        BY <1>2, <1>5, <2>2, <2>3, ToStutter
<1> QED
    BY <1>2, <1>6, <1>7

\* A guest's vote is cast when its key is set: the counter follows.
LEMMA SetIsCast ==
    ASSUME OneTabPerVoter, LedgerInv, NEW c \in Client, Set(c)
    PROVE  Ledger!Next \/ UNCHANGED Ledger!vars
<1>0. /\ RequestsOK /\ DataOK /\ VoteAsWritten(c)
      /\ \A s \in exists : s \in Server /\ qty[s] \in Nat
    BY LedgerFacts
<1>1. PICK v \in Guest, z \in Server : Vote(c) = <<v, z>> /\ Srv(c) = z
    BY <1>0, VoteType DEF Set, GuestSteps, Vote, Srv
<1>2. /\ keys' = keys \cup {Vote(c)} /\ UNCHANGED <<exists, qty, likes, lapsed>>
      /\ Goto(c, "inc") /\ pc[c] = "set"
      /\ Vote(c) \notin keys /\ Vote(c) \notin likes
    BY <1>0, <1>1, ConstantsAssumption DEF Set, rows, VoteAsWritten, DataOK
<1>3. \A s : /\ Retracting(s)' = Retracting(s)
             /\ Arriving(s)' = IF z = s THEN Arriving(s) \cup {c} ELSE Arriving(s)
             /\ c \notin Arriving(s)
    BY <1>0, <1>1, <1>2, Arrives
<1>4. \A s \in exists : s # z => TallyOf(s)' = TallyOf(s)
    BY <1>2, <1>3 DEF TallyOf
<1>5. LapsedListed' = LapsedListed
    BY <1>2 DEF LapsedListed
<1>6. CASE z \in exists
    <2>1. Cardinality(Arriving(z)') = Cardinality(Arriving(z)) + 1
        BY <1>3, OneMore, CountsAreNat
    <2>2. TallyOf(z)' = TallyOf(z) + 1
        BY <1>0, <1>2, <1>3, <1>6, <2>1, CountsAreNat DEF TallyOf
    <2>3. Tally' = [Tally EXCEPT ![z] = @ + 1]
        BY <1>2, <1>4, <1>6, <2>2, TallyMoves
    <2>4. <<v, z>> \notin Voted /\ Voted' = Voted \cup {<<v, z>>} /\ v \in Voter
        BY <1>1, <1>2, <1>6 DEF Voted, Voter
    <2> QED
        BY <1>2, <1>5, <1>6, <2>3, <2>4, ToCast
<1>7. CASE z \notin exists
    <2>1. Tally' = Tally
        BY <1>2, <1>4, <1>7, TallyStays
    <2>2. Voted' = Voted
        BY <1>1, <1>2, <1>7 DEF Voted
    <2> QED
        BY <1>2, <1>5, <2>1, <2>2, ToStutter
<1> QED
    BY <1>6, <1>7

\* DEL of the key retracts the vote, DEL of an expired key a lapsed one.
LEMMA DelIsRetract ==
    ASSUME OneTabPerVoter, LedgerInv, NEW c \in Client, Del(c)
    PROVE  Ledger!Next \/ UNCHANGED Ledger!vars
<1>0. /\ RequestsOK /\ DataOK
      /\ \A s \in exists :
            /\ s \in Server /\ qty[s] \in Nat /\ lapsed[s] \in Nat
            /\ Cardinality(Late(s)) <= lapsed[s]
    BY LedgerFacts
<1>1. PICK v \in Guest, z \in Server : Vote(c) = <<v, z>> /\ Srv(c) = z
    BY <1>0, VoteType DEF Del, GuestSteps, Vote, Srv
<1>2. /\ keys' = keys \ {Vote(c)} /\ UNCHANGED <<exists, qty, likes>>
      /\ lapsed' = IF Vote(c) \in keys THEN lapsed
                   ELSE [lapsed EXCEPT ![z] = @ - 1]
      /\ Goto(c, "dec") /\ pc[c] = "del" /\ Vote(c) \notin likes
    BY <1>0, <1>1, ConstantsAssumption DEF Del, rows, DataOK
<1>3. \A s : /\ Arriving(s)' = Arriving(s)
             /\ Retracting(s)' = IF z = s THEN Retracting(s) \cup {c} ELSE Retracting(s)
             /\ c \notin Retracting(s)
    BY <1>0, <1>1, <1>2, Retracts
<1>4. \A s \in exists : s # z => TallyOf(s)' = TallyOf(s)
    BY <1>2, <1>3 DEF TallyOf
<1>5. \A s \in exists : s # z => lapsed'[s] = lapsed[s]
    BY <1>0, <1>2 DEF DataOK
<1>6. CASE z \notin exists
    <2>1. Tally' = Tally
        BY <1>2, <1>4, <1>6, TallyStays
    <2>2. LapsedListed' = LapsedListed
        BY <1>2, <1>5, <1>6, LapsedStays
    <2>3. Voted' = Voted
        BY <1>1, <1>2, <1>6 DEF Voted
    <2> QED
        BY <1>2, <2>1, <2>2, <2>3, ToStutter
<1>7. ASSUME z \in exists PROVE Tally' = [Tally EXCEPT ![z] = @ - 1]
    <2>1. Cardinality(Retracting(z)') = Cardinality(Retracting(z)) + 1
        BY <1>3, OneMore, CountsAreNat
    <2>2. TallyOf(z)' = TallyOf(z) + (-1)
        BY <1>0, <1>2, <1>3, <1>7, <2>1, CountsAreNat DEF TallyOf
    <2>3. Tally' = [Tally EXCEPT ![z] = @ + (-1)]
        BY <1>2, <1>4, <1>7, <2>2, TallyMoves
    <2>4. Tally[z] \in Int
        BY <1>0, <1>7, CountsAreNat DEF Tally, TallyOf
    <2> QED
        BY <2>3, <2>4
<1>8. CASE z \in exists /\ Vote(c) \in keys
    <2>1. <<v, z>> \in Voted /\ Voted' = Voted \ {<<v, z>>} /\ v \in Voter
        BY <1>1, <1>2, <1>8 DEF Voted, Voter
    <2>2. LapsedListed' = LapsedListed
        BY <1>2, <1>8 DEF LapsedListed
    <2> QED
        BY <1>2, <1>7, <1>8, <2>1, <2>2, ToRetract
<1>9. CASE z \in exists /\ Vote(c) \notin keys
    <2>1. lapsed[z] > 0
        <3>1. c \in Late(z)
            BY <1>1, <1>2, <1>9 DEF Late
        <3>2. Cardinality(Late(z)) > 0
            BY <3>1, CountsAreNat, FS_EmptySet
        <3> QED
            BY <1>0, <1>9, <3>2, CountsAreNat
    <2>2. LapsedListed[z] = lapsed[z]
        BY <1>9 DEF LapsedListed
    <2>3. lapsed'[z] = lapsed[z] - 1
        BY <1>0, <1>2, <1>9 DEF DataOK
    <2>4. LapsedListed' = [LapsedListed EXCEPT ![z] = @ - 1]
        BY <1>2, <1>5, <1>9, <2>3 DEF LapsedListed
    <2>5. keys' = keys /\ Voted' = Voted
        BY <1>2, <1>9 DEF Voted
    <2> QED
        BY <1>2, <1>7, <1>9, <2>1, <2>2, <2>4, <2>5, ToRetractLapsed
<1> QED
    BY <1>6, <1>8, <1>9

\* The counter catches up with the votes under way: the ledger has them.
LEMMA UpdateIsQuiet ==
    ASSUME OneTabPerVoter, LedgerInv, NEW c \in Client, UpdateLikesQuantity(c)
    PROVE  UNCHANGED Ledger!vars
<1>0. /\ RequestsOK /\ DataOK
      /\ \A s \in exists :
            /\ s \in Server /\ qty[s] \in Nat /\ lapsed[s] \in Nat
            /\ Cardinality(Arriving(s)) <= Cardinality(KeysOf(s))
            /\ TallyOf(s) = Cardinality(LikesOf(s)) + Cardinality(KeysOf(s)) + lapsed[s]
    BY LedgerFacts
<1>1. PICK z \in Server : Srv(c) = z
    BY <1>0, VoteType DEF UpdateLikesQuantity
<1>2. /\ qty' = Counted(z, IF pc[c] = "inc" THEN 1 ELSE -1)
      /\ UNCHANGED <<exists, keys, likes, lapsed>>
      /\ Answer(c) /\ pc[c] \in {"inc", "dec"}
    BY <1>1 DEF UpdateLikesQuantity
<1>3. \A s : Arriving(s)' = Arriving(s) \ {c} /\ Retracting(s)' = Retracting(s) \ {c}
    BY <1>0, <1>2, Leaves
<1>4. ASSUME NEW s \in exists, s # z PROVE TallyOf(s)' = TallyOf(s)
    <2>1. c \notin Arriving(s) /\ c \notin Retracting(s)
        BY <1>1, <1>4 DEF Arriving, Retracting
    <2>2. qty'[s] = qty[s]
        <3>1. CASE pc[c] = "inc"
            BY <1>0, <1>2, <1>4, <3>1, CountedAt DEF DataOK
        <3>2. CASE pc[c] = "dec"
            BY <1>0, <1>2, <1>4, <3>2, CountedAt DEF DataOK
        <3> QED
            BY <1>2, <3>1, <3>2
    <2>3. Arriving(s)' = Arriving(s) /\ Retracting(s)' = Retracting(s)
        BY <1>3, <2>1
    <2> QED
        BY <2>2, <2>3 DEF TallyOf
<1>5. ASSUME z \in exists PROVE TallyOf(z)' = TallyOf(z)
    <2>1. CASE pc[c] = "inc"
        <3>1. c \in Arriving(z) /\ c \notin Retracting(z)
            BY <1>1, <2>1 DEF Arriving, Retracting
        <3>2. Retracting(z)' = Retracting(z) /\ Arriving(z)' = Arriving(z) \ {c}
            BY <1>3, <3>1
        <3>3. Cardinality(Arriving(z)') = Cardinality(Arriving(z)) - 1
            BY <3>1, <3>2, OneLess, CountsAreNat
        <3>4. qty'[z] = qty[z] + 1
            BY <1>0, <1>2, <1>5, <2>1, CountedAt DEF DataOK
        <3> QED
            BY <1>0, <1>5, <3>2, <3>3, <3>4, CountsAreNat DEF TallyOf
    <2>2. CASE pc[c] = "dec"
        <3>1. c \in Retracting(z) /\ c \notin Arriving(z)
            BY <1>1, <2>2 DEF Arriving, Retracting
        <3>2. Arriving(z)' = Arriving(z) /\ Retracting(z)' = Retracting(z) \ {c}
            BY <1>3, <3>1
        <3>3. Cardinality(Retracting(z)') = Cardinality(Retracting(z)) - 1
            BY <3>1, <3>2, OneLess, CountsAreNat
        <3>4. Cardinality(Retracting(z)) > 0
            BY <3>1, CountsAreNat, FS_EmptySet
        <3>5. qty[z] > 0
            BY <1>0, <1>5, <3>4, CountsAreNat DEF TallyOf
        <3>6. qty'[z] = qty[z] - 1
            BY <1>0, <1>2, <1>5, <2>2, <3>5, CountedAt DEF DataOK
        <3> QED
            BY <1>0, <1>5, <3>2, <3>3, <3>6, CountsAreNat DEF TallyOf
    <2> QED
        BY <1>2, <2>1, <2>2
<1>6. Tally' = Tally
    BY <1>2, <1>4, <1>5, TallyStays
<1>7. Voted' = Voted /\ LapsedListed' = LapsedListed
    BY <1>2 DEF Voted, LapsedListed
<1> QED
    BY <1>2, <1>6, <1>7, ToStutter

LEMMA CascadeIsClose ==
    ASSUME OneTabPerVoter, LedgerInv, NEW c \in Client, Cascade(c)
    PROVE  Ledger!Next
<1>0. RequestsOK /\ DataOK /\ LocksHeld
    BY LedgerFacts
<1>1. PICK z \in Server : Srv(c) = z
    BY <1>0, VoteType DEF Cascade
<1>2. /\ exists' = exists \ {z} /\ qty' = [qty EXCEPT ![z] = 0]
      /\ likes' = {p \in likes : p[2] # z}
      /\ UNCHANGED <<keys, lapsed>> /\ Answer(c) /\ pc[c] = "cascade"
      /\ z \in exists
    BY <1>0, <1>1 DEF Cascade, LocksHeld
<1>3. \A s : Arriving(s)' = Arriving(s) /\ Retracting(s)' = Retracting(s)
    BY <1>0, <1>2, StandsStill
<1>4. \A s \in exists : s # z => TallyOf(s)' = TallyOf(s)
    <2>1. \A s \in exists : s # z => qty'[s] = qty[s]
        BY <1>0, <1>2 DEF DataOK
    <2> QED
        BY <1>3, <2>1 DEF TallyOf
<1>5. Tally' = [Tally EXCEPT ![z] = 0]
    BY <1>2, <1>4 DEF Tally
<1>6. LapsedListed' = [LapsedListed EXCEPT ![z] = 0]
    BY <1>2 DEF LapsedListed
<1>7. Voted' = {p \in Voted : p[2] # z}
    BY <1>2 DEF Voted
<1> QED
    BY <1>2, <1>5, <1>6, <1>7, ToClose

LEMMA LapseIsLapse ==
    ASSUME OneTabPerVoter, LedgerInv, NEW v \in Guest, NEW z \in Server, Lapse(v, z)
    PROVE  Ledger!Next \/ UNCHANGED Ledger!vars
<1>0. DataOK
    BY LedgerFacts
<1>1. /\ <<v, z>> \in keys /\ keys' = keys \ {<<v, z>>}
      /\ lapsed' = [lapsed EXCEPT ![z] = @ + 1]
      /\ UNCHANGED <<exists, qty, likes, pc, req>>
      /\ <<v, z>> \notin likes
    BY <1>0, ConstantsAssumption DEF Lapse, rows, DataOK
<1>2. \A s : TallyOf(s)' = TallyOf(s)
    BY <1>1 DEF TallyOf, Arriving, Retracting, Srv
<1>3. Tally' = Tally
    BY <1>1, <1>2, TallyStays
<1>4. CASE z \in exists
    <2>1. LapsedListed' = [LapsedListed EXCEPT ![z] = @ + 1]
        <3>1. /\ lapsed'[z] = lapsed[z] + 1
              /\ \A s \in exists : s # z => lapsed'[s] = lapsed[s]
            BY <1>0, <1>1 DEF DataOK
        <3> QED
            BY <1>1, <1>4, <3>1 DEF LapsedListed
    <2>2. <<v, z>> \in Voted /\ Voted' = Voted \ {<<v, z>>} /\ v \in Voter
        BY <1>1, <1>4 DEF Voted, Voter
    <2> QED
        BY <1>1, <1>3, <1>4, <2>1, <2>2, ToLapse
<1>5. CASE z \notin exists
    <2>1. \A s \in exists : lapsed'[s] = lapsed[s]
        BY <1>0, <1>1, <1>5 DEF DataOK
    <2>2. LapsedListed' = LapsedListed
        BY <1>1, <2>1, LapsedStays
    <2>3. Voted' = Voted
        BY <1>1, <1>5 DEF Voted
    <2> QED
        BY <1>1, <1>3, <2>2, <2>3, ToStutter
<1> QED
    BY <1>4, <1>5

\* No call is cut in half while none may be.
LEMMA NoFaults ==
    ASSUME MaxFaults = 0, faults = 0, [Next]_vars
    PROVE  /\ faults' = 0
           /\ \A c \in Client : ~KeyFault(c) /\ ~UpdateFault(c)
<1>1. \A c \in Client : ~KeyFault(c) /\ ~UpdateFault(c)
    BY DEF KeyFault, UpdateFault
<1>2. ASSUME NEW c \in Client, Insert(c) \/ LockServer(c) PROVE faults' = faults
    BY <1>2, Zenon DEF Insert, LockServer, slips
<1> QED
    BY <1>1, <1>2 DEF Next, Arrive, Step, Remove, Like, Count, CommitLike, Delete,
       CommitUnlike, Verify, Set, Del, UpdateLikesQuantity, Cascade, Fail,
       Lapse, vars, slips

LEMMA LedgerStep ==
    ASSUME OneTabPerVoter, MaxFaults = 0, LedgerInv, [Next]_vars
    PROVE  Ledger!Next \/ UNCHANGED Ledger!vars
<1>0. RequestsOK /\ faults = 0
    BY LedgerFacts DEF LedgerInv
<1>1. \A c \in Client : ~KeyFault(c) /\ ~UpdateFault(c)
    BY <1>0, NoFaults
<1>2. ASSUME UNCHANGED vars PROVE UNCHANGED Ledger!vars
    BY <1>2, ViewStays DEF vars, rows, Arriving, Retracting, Srv
<1>3. ASSUME NEW c \in Client, Step(c) PROVE Ledger!Next \/ UNCHANGED Ledger!vars
    BY <1>0, <1>3, QuietSteps, LikeIsCast, UnlikeIsRetract, SetIsCast, DelIsRetract,
       UpdateIsQuiet, CascadeIsClose DEF Step
<1>4. ASSUME NEW c \in Client, Arrive(c) \/ LockServer(c) \/ Fail(c)
      PROVE  UNCHANGED Ledger!vars
    BY <1>0, <1>4, QuietSteps
<1> QED
    BY <1>1, <1>2, <1>3, <1>4, LapseIsLapse DEF Next

LEMMA LedgerInit ==
    ASSUME Init
    PROVE  Ledger!Init
<1>1. \A s : Arriving(s) = {} /\ Retracting(s) = {}
    BY DEF Init, Arriving, Retracting
<1>2. /\ exists = Server /\ likes = {} /\ keys = {}
      /\ qty = [s \in Server |-> 0] /\ lapsed = [s \in Server |-> 0]
    BY DEF Init
<1>3. Tally = [s \in Server |-> 0]
    BY <1>1, <1>2, FS_EmptySet DEF Tally, TallyOf
<1>4. LapsedListed = [s \in Server |-> 0]
    BY <1>2 DEF LapsedListed
<1>5. Voted = {}
    BY <1>2 DEF Voted
<1> QED
    BY <1>2, <1>3, <1>4, <1>5 DEF Ledger!Init, Tally, TallyOf, LapsedListed, Voted

\* With one tab per voter, and no storage call cut in half, toggling a like
\* is one step of the ledger: the vote and its unit of the tally change
\* together, through every interleaving of the two stores, the removal of
\* servers and the expiry of keys.
THEOREM ImplementsLedger ==
    OneTabPerVoter /\ MaxFaults = 0 => (Spec => LedgerSpec)
<1> SUFFICES ASSUME OneTabPerVoter, MaxFaults = 0 PROVE Spec => LedgerSpec
    OBVIOUS
<1> DEFINE Found == WriteInv /\ UnlikesFind /\ stray = 0
           Rest == LateCovered /\ DriftBounded /\ faults = 0
<1>1. Init => Rest /\ Ledger!Init
    BY DriftInit, LedgerInit DEF Init
<1>2. Found /\ Rest /\ [Next]_vars => Rest'
    BY LateStep, DriftStep, NoFaults, OneTabIsOneGuest DEF DriftInv
<1>3. Found /\ Rest /\ [Next]_vars => [Ledger!Next]_(Ledger!vars)
    BY LedgerStep DEF DriftInv, LedgerInv
<1>4. Spec => []Found
    BY FindInvariant
<1> HIDE DEF Found, Rest
<1> QED
    BY <1>1, <1>2, <1>3, <1>4, PTL DEF Spec, LedgerSpec, Ledger!Spec
=============================================================================

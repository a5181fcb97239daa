-------------------------- MODULE LeaderboardProofs --------------------------
(***************************************************************************)
(* What holds of Leaderboard for any number of requests and servers: what  *)
(* is answered is a ranking, whichever of the two writers filled the key.  *)
(***************************************************************************)
EXTENDS Leaderboard, FiniteSetTheorems, SequenceTheorems, TLAPS

\* A round has read servers, and their likes as they were.
RoundOK ==
    /\ round # <<>> => DOMAIN round # {}
    /\ \A s \in DOMAIN round : round[s] \in 0 .. MaxLikes

\* Whatever is under the key is in order.
BoardOK == board # NoBoard => InOrder(board)

\* While no server is listed, every request under way has seen that.
EmptySeen == exists = {} => \A v \in Visitor : pc[v] # "idle" => sawNone[v]

\* What a request is about to write, or has answered, is a ranking.
RankingInHand ==
    \A v \in Visitor :
        pc[v] \in {"set", "answered"} => InOrder(items[v]) /\ (items[v] = <<>> => sawNone[v])

BoardInv == TypeOK /\ RoundOK /\ BoardOK /\ EmptySeen /\ RankingInHand

-----------------------------------------------------------------------------
(* Rankings.                                                               *)

LEMMA ItemsAreItems ==
    ASSUME NEW read, DOMAIN read \subseteq Server,
           \A s \in DOMAIN read : read[s] \in 0 .. MaxLikes, NEW up
    PROVE  ItemsOf(read, up) \subseteq Item
<1> DEFINE Counts == 0 .. MaxLikes
           Shows == BOOLEAN
<1> SUFFICES ASSUME NEW s \in DOMAIN read
             PROVE  [server |-> s, likes |-> read[s], online |-> s \in up] \in Item
    BY Zenon DEF ItemsOf
<1>1. s \in Server /\ read[s] \in Counts
    OBVIOUS
<1>2. PICK shown : shown \in Shows /\ shown = (s \in up)
    <2>1. (s \in up) \in BOOLEAN
        OBVIOUS
    <2> QED
        BY <2>1, Zenon
<1> HIDE DEF Counts, Shows
<1>3. [server |-> s, likes |-> read[s], online |-> shown] \in
          [server : Server, likes : Counts, online : Shows]
    BY <1>1, <1>2
<1> QED
    BY <1>2, <1>3, Zenon DEF Item, Counts, Shows

LEMMA BestIsRanking ==
    ASSUME NEW all, NEW n \in Nat, NEW r \in Best(all, n), all \subseteq Item
    PROVE  /\ r \in Seq(Item) /\ Len(r) = n /\ InOrder(r)
           /\ r = <<>> => n = 0
<1>1. r \in [1 .. n -> all] /\ InOrder(r)
    BY DEF Best
<1>2. /\ DOMAIN r = 1 .. n /\ \A i \in 1 .. n : r[i] \in Item
      /\ r = [i \in 1 .. n |-> r[i]]
    BY <1>1
<1>3. r \in Seq(Item) /\ Len(r) = n
    BY <1>2
<1> QED
    BY <1>1, <1>3

\* A page is empty only if nothing is listed.
LEMMA PageIsRanking ==
    ASSUME TypeOK, NEW p \in Page
    PROVE  p \in Seq(Item) /\ InOrder(p) /\ (p = <<>> => exists = {})
<1> DEFINE n == IF Cardinality(exists) < TopN THEN Cardinality(exists) ELSE TopN
<1>1. IsFiniteSet(exists) /\ Cardinality(exists) \in Nat
    BY LeaderboardAssumption, FS_Subset, FS_CardinalityType DEF TypeOK
<1>2. n \in Nat /\ (n = 0 => exists = {})
    BY <1>1, LeaderboardAssumption, FS_EmptySet
<1>3. ItemsOf(qty, exists) \subseteq Item
    BY ItemsAreItems DEF TypeOK, exists
<1>4. p \in Best(ItemsOf(qty, exists), n)
    BY DEF Page
<1> HIDE DEF n
<1> QED
    BY <1>2, <1>3, <1>4, BestIsRanking

LEMMA RoundIsRanking ==
    ASSUME TypeOK, RoundOK, round # <<>>, NEW up,
           NEW b \in Best(ItemsOf(round, up), Cardinality(DOMAIN round))
    PROVE  b \in Seq(Item) /\ InOrder(b)
<1>1. IsFiniteSet(DOMAIN round) /\ Cardinality(DOMAIN round) \in Nat
    BY LeaderboardAssumption, FS_Subset, FS_CardinalityType DEF TypeOK
<1>2. ItemsOf(round, up) \subseteq Item
    BY ItemsAreItems DEF TypeOK, RoundOK
<1> QED
    BY <1>1, <1>2, BestIsRanking

-----------------------------------------------------------------------------
(* The steps.                                                              *)

LEMMA AskKeeps == ASSUME BoardInv, NEW v \in Visitor, Ask(v) PROVE BoardInv'
<1>1. /\ pc' = [pc EXCEPT ![v] = "get"] /\ items' = [items EXCEPT ![v] = <<>>]
      /\ sawNone' = [sawNone EXCEPT ![v] = exists = {}]
      /\ UNCHANGED <<qty, board, round, changes>>
    BY DEF Ask, Goto, Holds
<1>2. /\ TypeOK /\ RoundOK /\ BoardOK /\ EmptySeen /\ RankingInHand
    BY DEF BoardInv
<1>3. (exists = {}) \in BOOLEAN
    OBVIOUS
<1>4. sawNone' \in [Visitor -> BOOLEAN]
    BY <1>1, <1>2, <1>3, Zenon DEF TypeOK
<1>5. /\ pc' \in [Visitor -> {"idle", "get", "page", "set", "answered"}]
      /\ items' \in [Visitor -> Seq(Item)]
    BY <1>1, <1>2 DEF TypeOK
<1>6. TypeOK' /\ RoundOK' /\ BoardOK'
    BY <1>1, <1>2, <1>4, <1>5 DEF TypeOK, RoundOK, BoardOK, exists
<1>7. EmptySeen'
    BY <1>1, <1>2 DEF TypeOK, EmptySeen, exists
<1>8. RankingInHand'
    BY <1>1, <1>2 DEF TypeOK, RankingInHand
<1> QED
    BY <1>6, <1>7, <1>8 DEF BoardInv

\* A step of a request that leaves all else alone.
LEMMA RequestKeeps ==
    ASSUME BoardInv, NEW v \in Visitor, NEW step, NEW b,
           pc[v] # "idle", pc' = [pc EXCEPT ![v] = step], items' = [items EXCEPT ![v] = b],
           step \in {"idle", "page", "set", "answered"}, b \in Seq(Item),
           step \in {"set", "answered"} => InOrder(b) /\ (b = <<>> => sawNone[v]),
           board' \in Seq(Item) \cup {NoBoard}, board' # NoBoard => InOrder(board'),
           UNCHANGED <<qty, sawNone, round, changes>>
    PROVE  BoardInv'
<1>1. /\ TypeOK /\ RoundOK /\ BoardOK /\ EmptySeen /\ RankingInHand
    BY DEF BoardInv
<1>2. TypeOK'
    BY <1>1 DEF TypeOK, exists
<1>3. RoundOK' /\ BoardOK'
    BY <1>1 DEF RoundOK, BoardOK
<1>4. EmptySeen'
    BY <1>1 DEF EmptySeen, exists, TypeOK
<1>5. RankingInHand'
    <2> SUFFICES ASSUME NEW w \in Visitor, pc'[w] \in {"set", "answered"}
                 PROVE  InOrder(items'[w]) /\ (items'[w] = <<>> => sawNone[w])
        BY Zenon DEF RankingInHand, InOrder
    <2>1. CASE w = v
        BY <1>1, <2>1 DEF TypeOK
    <2>2. CASE w # v
        <3>1. pc'[w] = pc[w] /\ items'[w] = items[w]
            BY <1>1, <2>2 DEF TypeOK
        <3> QED
            BY <1>1, <3>1 DEF RankingInHand
    <2> QED
        BY <2>1, <2>2
<1> QED
    BY <1>2, <1>3, <1>4, <1>5 DEF BoardInv

LEMMA AnswerKeeps == ASSUME BoardInv, NEW v \in Visitor, Answer(v) PROVE BoardInv'
<1>0. /\ TypeOK /\ RoundOK /\ BoardOK /\ EmptySeen /\ RankingInHand
    BY DEF BoardInv
<1>1. /\ items[v] \in Seq(Item) /\ items = [items EXCEPT ![v] = items[v]]
      /\ board \in Seq(Item) \cup {NoBoard} /\ (board # NoBoard => InOrder(board))
    BY <1>0 DEF TypeOK, BoardOK
<1>2. CASE Get(v)
    <2>0. pc[v] = "get" /\ UNCHANGED <<qty, board, sawNone, round, changes>>
        BY <1>2 DEF Get
    <2>1. CASE board \notin {NoBoard, <<>>} /\ Goto(v, "answered") /\ Holds(v, board)
        <3>1. /\ board \in Seq(Item) /\ InOrder(board) /\ board # <<>>
              /\ pc' = [pc EXCEPT ![v] = "answered"] /\ items' = [items EXCEPT ![v] = board]
            BY <1>1, <2>1 DEF Goto, Holds
        <3>2. PICK b : b = board
            OBVIOUS
        <3> QED
            BY <1>1, <2>0, <3>1, <3>2, RequestKeeps
    <2>2. CASE Goto(v, "page") /\ UNCHANGED items
        <3>1. PICK b : b = items[v]
            OBVIOUS
        <3> QED
            BY <1>1, <2>0, <2>2, <3>1, RequestKeeps DEF Goto
    <2> QED
        BY <1>2, <2>1, <2>2 DEF Get
<1>3. CASE FindPage(v)
    <2>0. pc[v] = "page" /\ UNCHANGED <<qty, board, sawNone, round, changes>>
        BY <1>3 DEF FindPage
    <2>1. CASE \E p \in Page : Holds(v, p) /\ Goto(v, "set")
        <3>1. PICK b : b \in Page /\ Holds(v, b) /\ Goto(v, "set")
            BY <2>1
        <3>2. b \in Seq(Item) /\ InOrder(b) /\ (b = <<>> => exists = {})
            BY <1>0, <3>1, PageIsRanking
        <3>3. b = <<>> => sawNone[v]
            BY <1>0, <2>0, <3>2 DEF EmptySeen
        <3> QED
            BY <1>1, <2>0, <3>1, <3>2, <3>3, RequestKeeps DEF Goto, Holds
    <2>2. CASE Goto(v, "idle") /\ UNCHANGED items
        <3>1. PICK b : b = items[v]
            OBVIOUS
        <3> QED
            BY <1>1, <2>0, <2>2, <3>1, RequestKeeps DEF Goto
    <2> QED
        BY <1>3, <2>1, <2>2 DEF FindPage
<1>4. CASE SetLeaderboard(v)
    <2>1. /\ pc[v] = "set" /\ (board' = items[v] \/ board' = board)
          /\ pc' = [pc EXCEPT ![v] = "answered"]
          /\ UNCHANGED <<qty, items, sawNone, round, changes>>
        BY <1>4 DEF SetLeaderboard, Goto
    <2>2. InOrder(items[v]) /\ (items[v] = <<>> => sawNone[v])
        BY <1>0, <2>1 DEF RankingInHand
    <2>3. PICK b : b = items[v]
        OBVIOUS
    <2>4. board' \in Seq(Item) \cup {NoBoard} /\ (board' # NoBoard => InOrder(board'))
        BY <1>1, <2>1, <2>2
    <2> QED
        BY <1>1, <2>1, <2>2, <2>3, <2>4, RequestKeeps
<1> QED
    BY <1>2, <1>3, <1>4 DEF Answer

LEMMA RoundKeeps == ASSUME BoardInv, StartRound \/ EndRound \/ Expire PROVE BoardInv'
<1>0. /\ TypeOK /\ RoundOK /\ BoardOK /\ EmptySeen /\ RankingInHand
    BY DEF BoardInv
<1>1. UNCHANGED <<qty, pc, items, sawNone, changes>>
    BY DEF StartRound, EndRound, Expire
<1>2. EmptySeen' /\ RankingInHand'
    BY <1>0, <1>1 DEF EmptySeen, RankingInHand, exists
<1>3. /\ round' # <<>> => DOMAIN round' # {}
      /\ DOMAIN round' \subseteq Server /\ \A s \in DOMAIN round' : round'[s] \in 0 .. MaxLikes
    <2>1. CASE StartRound
        BY <1>0, <2>1 DEF StartRound, TypeOK, exists
    <2>2. CASE EndRound
        BY <2>2 DEF EndRound
    <2>3. CASE Expire
        BY <1>0, <2>3 DEF Expire, RoundOK, TypeOK
    <2> QED
        BY <2>1, <2>2, <2>3
<1>4. board' \in Seq(Item) \cup {NoBoard} /\ (board' # NoBoard => InOrder(board'))
    <2>1. CASE UNCHANGED board
        BY <1>0, <2>1 DEF TypeOK, BoardOK
    <2>2. CASE board' = NoBoard
        BY <2>2
    <2>3. ASSUME EndRound, board' # board
          PROVE  board' \in Seq(Item) /\ InOrder(board')
        <3>1. PICK up, b : b \in Best(ItemsOf(round, up), Cardinality(DOMAIN round)) /\ board' = b
            BY <2>3 DEF EndRound
        <3> QED
            BY <1>0, <2>3, <3>1, RoundIsRanking DEF EndRound
    <2> QED
        BY <2>1, <2>2, <2>3 DEF StartRound, Expire
<1> QED
    BY <1>0, <1>1, <1>2, <1>3, <1>4 DEF BoardInv, TypeOK, RoundOK, BoardOK, exists

LEMMA ChangeKeeps ==
    ASSUME BoardInv, NEW new, Change(new), DOMAIN new \subseteq Server,
           \A s \in DOMAIN new : new[s] \in 0 .. MaxLikes
    PROVE  BoardInv'
<1>0. /\ TypeOK /\ RoundOK /\ BoardOK /\ EmptySeen /\ RankingInHand
    BY DEF BoardInv
<1>1. /\ changes < MaxChanges /\ changes' = changes + 1 /\ qty' = new
      /\ UNCHANGED <<board, pc, items, round>>
      /\ sawNone' = [v \in Visitor |-> sawNone[v] \/ DOMAIN new = {}]
    BY DEF Change
<1>2. /\ sawNone' \in [Visitor -> BOOLEAN]
      /\ \A v \in Visitor : sawNone'[v] <=> (sawNone[v] \/ DOMAIN new = {})
    BY <1>1, Zenon
<1>3. changes' \in 0 .. MaxChanges
    BY <1>0, <1>1, LeaderboardAssumption DEF TypeOK
<1>4. TypeOK' /\ RoundOK' /\ BoardOK'
    BY <1>0, <1>1, <1>2, <1>3 DEF TypeOK, RoundOK, BoardOK, exists
<1>5. EmptySeen'
    BY <1>1, <1>2 DEF EmptySeen, exists
<1>6. RankingInHand'
    BY <1>0, <1>1, <1>2 DEF RankingInHand
<1> QED
    BY <1>4, <1>5, <1>6 DEF BoardInv

LEMMA CatalogueKeeps ==
    ASSUME BoardInv, NEW s \in Server,
           CreateServer(s) \/ DeleteServer(s) \/ Like(s) \/ Unlike(s)
    PROVE  BoardInv'
<1>0. exists \subseteq Server /\ (\A t \in exists : qty[t] \in 0 .. MaxLikes) /\ MaxLikes \in Nat
    BY LeaderboardAssumption DEF BoardInv, TypeOK
<1>1. CASE CreateServer(s)
    <2>1. PICK new : new = [t \in exists \cup {s} |-> IF t = s THEN 0 ELSE qty[t]] /\ Change(new)
        BY <1>1, Zenon DEF CreateServer
    <2>2. DOMAIN new \subseteq Server /\ \A t \in DOMAIN new : new[t] \in 0 .. MaxLikes
        BY <1>0, <2>1
    <2> QED
        BY <2>1, <2>2, ChangeKeeps
<1>2. CASE DeleteServer(s)
    <2>1. PICK new : new = [t \in exists \ {s} |-> qty[t]] /\ Change(new)
        BY <1>2, Zenon DEF DeleteServer
    <2>2. DOMAIN new \subseteq Server /\ \A t \in DOMAIN new : new[t] \in 0 .. MaxLikes
        BY <1>0, <2>1
    <2> QED
        BY <2>1, <2>2, ChangeKeeps
<1>3. CASE Like(s)
    <2>1. PICK new : /\ new = [qty EXCEPT ![s] = @ + 1] /\ Change(new)
                     /\ s \in exists /\ qty[s] < MaxLikes
        BY <1>3, Zenon DEF Like
    <2>2. DOMAIN new \subseteq Server /\ \A t \in DOMAIN new : new[t] \in 0 .. MaxLikes
        BY <1>0, <2>1 DEF exists
    <2> QED
        BY <2>1, <2>2, ChangeKeeps
<1>4. CASE Unlike(s)
    <2>1. PICK new : /\ new = [qty EXCEPT ![s] = @ - 1] /\ Change(new)
                     /\ s \in exists /\ qty[s] > 0
        BY <1>4, Zenon DEF Unlike
    <2>2. DOMAIN new \subseteq Server /\ \A t \in DOMAIN new : new[t] \in 0 .. MaxLikes
        BY <1>0, <2>1 DEF exists
    <2> QED
        BY <2>1, <2>2, ChangeKeeps
<1> QED
    BY <1>1, <1>2, <1>3, <1>4

-----------------------------------------------------------------------------
LEMMA BoardInit == Init => BoardInv
<1> SUFFICES ASSUME Init PROVE BoardInv
    OBVIOUS
<1>1. TypeOK
    BY LeaderboardAssumption DEF Init, TypeOK, exists
<1>2. RoundOK /\ BoardOK /\ EmptySeen /\ RankingInHand
    BY DEF Init, RoundOK, BoardOK, EmptySeen, RankingInHand
<1> QED
    BY <1>1, <1>2 DEF BoardInv

LEMMA BoardStep == BoardInv /\ [Next]_vars => BoardInv'
<1> SUFFICES ASSUME BoardInv, [Next]_vars PROVE BoardInv'
    OBVIOUS
<1>1. CASE UNCHANGED vars
    BY <1>1 DEF vars, BoardInv, TypeOK, RoundOK, BoardOK, EmptySeen, RankingInHand, exists
<1> QED
    BY <1>1, AskKeeps, AnswerKeeps, RoundKeeps, CatalogueKeeps DEF Next

\* Both writers only put rankings under the key, and a request whose page
\* was empty came while nothing was listed.
THEOREM BoardInvariant == Spec => []BoardInv
BY BoardInit, BoardStep, PTL DEF Spec

\* The state has its types: rankings are sequences of servers with the likes
\* that the counter may have, whichever writer they come from.
THEOREM TypeCorrect == Spec => []TypeOK
<1>1. BoardInv => TypeOK
    BY DEF BoardInv
<1> QED
    BY <1>1, BoardInvariant, PTL

\* What a visitor is answered is in order, has no server twice and is empty
\* only if no server was listed at some time since the request came in.
THEOREM RankingServed == Spec => []ServedIsARanking
<1>1. BoardInv => ServedIsARanking
    BY DEF BoardInv, RankingInHand, ServedIsARanking
<1> QED
    BY <1>1, BoardInvariant, PTL
=============================================================================

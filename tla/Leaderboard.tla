----------------------------- MODULE Leaderboard -----------------------------
(***************************************************************************)
(* The leaderboard as visitors get it: GetLeaderboard reads Redis and, on  *)
(* a miss, ranks the servers itself and fills Redis for a minute, while    *)
(* the collector's rounds (module Poller) write the same key, servers are  *)
(* created and removed and likes change.  A request takes one step per     *)
(* storage call; a round reads in one step and publishes in a later one.   *)
(***************************************************************************)
EXTENDS Integers, Sequences, FiniteSets

CONSTANTS
    Visitor,     \* requests for the leaderboard
    Server,      \* servers that may be listed
    Listed,      \* those listed at the start
    TopN,        \* servers on the page that fills a miss
    MaxLikes,    \* bound: likes of a server
    MaxChanges,  \* bound: changes to servers and likes
    NoBoard      \* nothing under server:leaderboard

Item == [server : Server, likes : 0 .. MaxLikes, online : BOOLEAN]

ASSUME LeaderboardAssumption ==
    /\ IsFiniteSet(Server) /\ Listed \subseteq Server
    /\ TopN \in Nat \ {0} /\ MaxLikes \in Nat /\ MaxChanges \in Nat
    /\ NoBoard \notin Seq(Item)

VARIABLES
    qty,       \* likes_quantity of the servers that are listed
    board,     \* server:leaderboard
    pc,        \* what each visitor's request does next
    items,     \* the ranking the request has in hand
    sawNone,   \* history: no server was listed at some time since it began
    round,     \* the servers a polling round has read, <<>> between rounds
    changes    \* history: changes to servers and likes so far

vars == <<qty, board, pc, items, sawNone, round, changes>>

exists == DOMAIN qty

\* Twice the score: likes * 10 + 10, halved by a round for one offline.
Score(i) == (i.likes * 10 + 10) * (IF i.online THEN 2 ELSE 1)

InOrder(b) ==
    /\ \A i, j \in DOMAIN b : i # j => b[i].server # b[j].server
    /\ \A i \in 2 .. Len(b) : Score(b[i - 1]) >= Score(b[i])

ItemsOf(read, up) ==
    {[server |-> s, likes |-> read[s], online |-> s \in up] : s \in DOMAIN read}

\* The n best in order, ties in any order.
Best(all, n) ==
    {r \in [1 .. n -> all] :
        /\ InOrder(r)
        /\ \A i \in all : (\A k \in 1 .. n : r[k] # i) =>
              \A k \in 1 .. n : Score(r[k]) >= Score(i)}

\* FindPage, page 0: ORDER BY likes_quantity DESC, everyone shown online.
Page ==
    LET n == IF Cardinality(exists) < TopN THEN Cardinality(exists) ELSE TopN
    IN  Best(ItemsOf(qty, exists), n)

Init ==
    /\ qty = [s \in Listed |-> 0]
    /\ board = NoBoard
    /\ pc = [v \in Visitor |-> "idle"]
    /\ items = [v \in Visitor |-> <<>>]
    /\ sawNone = [v \in Visitor |-> FALSE]
    /\ round = <<>>
    /\ changes = 0

-----------------------------------------------------------------------------
(* GetLeaderboard.                                                         *)

Goto(v, step) == pc' = [pc EXCEPT ![v] = step]
Holds(v, b) == items' = [items EXCEPT ![v] = b]

Ask(v) ==
    /\ pc[v] \in {"idle", "answered"}
    /\ Goto(v, "get") /\ Holds(v, <<>>)
    /\ sawNone' = [sawNone EXCEPT ![v] = exists = {}]
    /\ UNCHANGED <<qty, board, round, changes>>

\* Mutant: a list without error is a hit, the empty one too.
GetEmptyHit(v) ==
    /\ pc[v] = "get"
    /\ \/ /\ Goto(v, "answered")
          /\ Holds(v, IF board = NoBoard THEN <<>> ELSE board)
       \/ Goto(v, "page") /\ UNCHANGED items
    /\ UNCHANGED <<qty, board, sawNone, round, changes>>

\* Nothing, an empty list and an error of Redis are all misses.
Get(v) ==
    /\ pc[v] = "get"
    /\ \/ /\ board \notin {NoBoard, <<>>}
          /\ Goto(v, "answered") /\ Holds(v, board)
       \/ Goto(v, "page") /\ UNCHANGED items
    /\ UNCHANGED <<qty, board, sawNone, round, changes>>

\* An error of FindPage is answered with status 500.
FindPage(v) ==
    /\ pc[v] = "page"
    /\ \/ \E p \in Page : Holds(v, p) /\ Goto(v, "set")
       \/ Goto(v, "idle") /\ UNCHANGED items
    /\ UNCHANGED <<qty, board, sawNone, round, changes>>

\* The error of SetLeaderboard is dropped.
SetLeaderboard(v) ==
    /\ pc[v] = "set"
    /\ board' = items[v] \/ UNCHANGED board
    /\ Goto(v, "answered")
    /\ UNCHANGED <<qty, items, sawNone, round, changes>>

(* A polling round.  It ends without a write if nothing is listed, if a    *)
(* storage call fails or if the collector does.                            *)

StartRound ==
    /\ round = <<>> /\ exists # {}
    /\ round' = qty
    /\ UNCHANGED <<qty, board, pc, items, sawNone, changes>>

EndRound ==
    /\ round # <<>> /\ round' = <<>>
    /\ \/ \E up \in SUBSET DOMAIN round :
             board' \in Best(ItemsOf(round, up), Cardinality(DOMAIN round))
       \/ UNCHANGED board
    /\ UNCHANGED <<qty, pc, items, sawNone, changes>>

\* Mutant: the key has no time to live.
ExpireNever == FALSE /\ UNCHANGED vars

\* Rounds give the key two intervals, fills a minute.
Expire ==
    /\ board # NoBoard /\ board' = NoBoard
    /\ UNCHANGED <<qty, pc, items, sawNone, round, changes>>

(* The rest of the catalogue, on the table "server".                       *)

Change(new) ==
    /\ changes < MaxChanges /\ changes' = changes + 1
    /\ qty' = new
    /\ sawNone' = [v \in Visitor |-> sawNone[v] \/ DOMAIN new = {}]
    /\ UNCHANGED <<board, pc, items, round>>

CreateServer(s) ==
    s \notin exists
    /\ Change([t \in exists \cup {s} |-> IF t = s THEN 0 ELSE qty[t]])

DeleteServer(s) ==
    s \in exists /\ Change([t \in exists \ {s} |-> qty[t]])

Like(s) == s \in exists /\ qty[s] < MaxLikes /\ Change([qty EXCEPT ![s] = @ + 1])

\* Mutant: the counter has no floor.
UnlikeNoFloor(s) == s \in exists /\ Change([qty EXCEPT ![s] = @ - 1])

Unlike(s) == s \in exists /\ qty[s] > 0 /\ Change([qty EXCEPT ![s] = @ - 1])

-----------------------------------------------------------------------------
Answer(v) == Get(v) \/ FindPage(v) \/ SetLeaderboard(v)

Next ==
    \/ \E v \in Visitor : Ask(v) \/ Answer(v)
    \/ StartRound \/ EndRound \/ Expire
    \/ \E s \in Server :
          CreateServer(s) \/ DeleteServer(s) \/ Like(s) \/ Unlike(s)

\* Keys expire and a request's calls return.  The collector owes nothing:
\* it may be down.
Spec ==
    /\ Init /\ [][Next]_vars
    /\ WF_vars(Expire)
    /\ \A v \in Visitor : WF_vars(Answer(v))

-----------------------------------------------------------------------------
TypeOK ==
    /\ exists \subseteq Server /\ \A s \in exists : qty[s] \in 0 .. MaxLikes
    /\ board \in Seq(Item) \cup {NoBoard}
    /\ pc \in [Visitor -> {"idle", "get", "page", "set", "answered"}]
    /\ items \in [Visitor -> Seq(Item)]
    /\ sawNone \in [Visitor -> BOOLEAN]
    /\ DOMAIN round \subseteq Server
    /\ changes \in 0 .. MaxChanges

\* Whichever of the two writers a visitor's ranking comes from, it has no
\* server twice and is in order of the score it shows; and it is empty only
\* if no server was listed at some time since the request came in.
ServedIsARanking ==
    \A v \in Visitor :
        pc[v] = "answered" => InOrder(items[v]) /\ (items[v] = <<>> => sawNone[v])

ShowsCatalogue(b) ==
    /\ \A i \in DOMAIN b : b[i].server \in exists /\ b[i].likes = qty[b[i].server]
    /\ Cardinality(exists) <= TopN => Len(b) = Cardinality(exists)

\* Once servers and likes rest, the cache comes to show them and stays so,
\* even without a collector: a fill or a round that read too early is not
\* the last word, and a removed server leaves the board.
BoardCatchesUp == <>[](board = NoBoard \/ ShowsCatalogue(board))
=============================================================================

------------------------------- MODULE Poller -------------------------------
(***************************************************************************)
(* The collector's polling loop over the worker pool: a round reads the    *)
(* servers, submits one task for each, waits for all of them, ranks what   *)
(* they found and puts the ranking into Redis with a time to live of two   *)
(* intervals.  The goroutine of Start is the only one that submits to the  *)
(* pool and the one that stops it.  The process may end and be started     *)
(* again at any point, as main does not wait for Start; Redis outlives it. *)
(*                                                                         *)
(* Time is the ticker: a Tick is the end of an interval.  The metric row a *)
(* task saves, its error ignored, is left to the module Agents.            *)
(***************************************************************************)
EXTENDS WorkerPool

CONSTANTS
    MaxLikes,   \* bound: likes of a server
    NoBoard     \* no leaderboard in Redis

Server == Task   \* a task is the poll of one server

Item == [server : Server, likes : 0 .. MaxLikes, online : BOOLEAN]

ASSUME PollerAssumption ==
    IsFiniteSet(Server) /\ MaxLikes \in Nat /\ NoBoard \notin Seq(Item)

VARIABLES
    pc,        \* where Start stands
    batch,     \* the servers of this round, with their likes
    todo,      \* those not submitted yet
    wg,        \* the WaitGroup counter of the round
    stage,     \* where each worker's task stands
    found,     \* what each task found its server to be
    results,   \* resultsChan
    open,      \* resultsChan is open
    ticked,    \* a tick waits in the ticker's channel
    ctxDone,   \* the process was told to stop
    board,     \* server:leaderboard in Redis
    life,      \* intervals until it expires
    overdue    \* history: no round kept its time since the last ranking

round == <<batch, todo, wg, found, results, open>>
redis == <<board, life, overdue>>
vars == <<poolVars, pc, round, stage, ticked, ctxDone, redis>>

\* Mutant: the leaderboard lives for one interval.
TTLOfOne == 1

TTL == 2   \* p.interval * 2

\* Twice the score: likes * 10 + 10, halved for a server that is offline.
Score(i) == (i.likes * 10 + 10) * (IF i.online THEN 2 ELSE 1)

\* Mutant: the comparison is the wrong way round.
RankingsUp(items) ==
    {r \in [1 .. Cardinality(items) -> items] :
        \A i, j \in 1 .. Cardinality(items) :
            i < j => r[i] # r[j] /\ Score(r[i]) <= Score(r[j])}

\* sort.Slice is not stable: equal scores come in any order.
Rankings(items) ==
    {r \in [1 .. Cardinality(items) -> items] :
        \A i, j \in 1 .. Cardinality(items) :
            i < j => r[i] # r[j] /\ Score(r[i]) >= Score(r[j])}

\* resultsChan is made with room for one result of each server.
Room == Cardinality(DOMAIN batch)

EndRound ==
    /\ batch' = <<>> /\ todo' = {} /\ wg' = 0
    /\ found' = <<>> /\ results' = <<>> /\ open' = FALSE

Init ==
    /\ NewWorkerPool
    /\ batch = <<>> /\ todo = {} /\ wg = 0
    /\ found = <<>> /\ results = <<>> /\ open = FALSE
    /\ pc = "fetch"
    /\ stage = [w \in Worker |-> "none"]
    /\ ticked = FALSE /\ ctxDone = FALSE
    /\ board = NoBoard /\ life = 0 /\ overdue = TRUE

-----------------------------------------------------------------------------
(* pollAll, in the goroutine of Start.                                     *)

\* GetAllActiveServers; an error or an empty list ends the round.
Fetch ==
    /\ pc = "fetch"
    /\ \/ /\ \E listed \in SUBSET Server \ {{}} :
                batch' \in [listed -> 0 .. MaxLikes] /\ todo' = listed
          /\ open' = TRUE /\ pc' = "submit"
          /\ UNCHANGED overdue
       \/ /\ pc' = "select" /\ overdue' = TRUE
          /\ UNCHANGED <<batch, todo, open>>
    /\ UNCHANGED <<poolVars, wg, found, results, stage, ticked, ctxDone, board, life>>

\* Mutant: no wg.Add(1).
SubmitUncounted(s) ==
    /\ pc = "submit" /\ s \in todo
    /\ todo' = todo \ {s}
    /\ Accept(s)
    /\ UNCHANGED <<pc, wg, batch, found, results, open, stage, ticked, ctxDone, redis>>

\* wg.Add(1), then Submit, whose result nobody looks at.
Submit(s) ==
    /\ pc = "submit" /\ s \in todo
    /\ todo' = todo \ {s}
    /\ wg' = wg + 1
    /\ \/ Accept(s) /\ UNCHANGED pc
       \/ Refuse /\ UNCHANGED pc
       \/ SendPanics /\ pc' = "panic" /\ UNCHANGED poolVars
    /\ UNCHANGED <<batch, found, results, open, stage, ticked, ctxDone, redis>>

\* Mutant: the results are closed when all tasks are submitted.
CloseUnwaited ==
    /\ pc = "submit" /\ todo = {}
    /\ open' = FALSE /\ pc' = "rank"
    /\ UNCHANGED <<poolVars, batch, todo, wg, found, results, stage, ticked, ctxDone, redis>>

\* wg.Wait, close(resultsChan).
CloseResults ==
    /\ pc = "submit" /\ todo = {} /\ wg = 0
    /\ open' = FALSE /\ pc' = "rank"
    /\ UNCHANGED <<poolVars, batch, todo, wg, found, results, stage, ticked, ctxDone, redis>>

Items ==
    {[server |-> results[i].server, likes |-> batch[results[i].server],
      online |-> results[i].online] : i \in 1 .. Len(results)}

\* SetLeaderboard may fail, and does once the context is done.
Publish ==
    /\ pc = "rank" /\ pc' = "select"
    /\ \/ /\ board' \in Rankings(Items)
          /\ life' = TTL /\ overdue' = FALSE
       \/ overdue' = TRUE /\ UNCHANGED <<board, life>>
    /\ EndRound
    /\ UNCHANGED <<poolVars, stage, ticked, ctxDone>>

(* The task, in a worker.                                                  *)

StartTask(w) ==
    /\ Take(w)
    /\ stage' = [stage EXCEPT ![w] = "dial"]
    /\ UNCHANGED <<pc, round, ticked, ctxDone, redis>>

\* checkServerReachability, SaveMetric.
Dial(w) ==
    /\ stage[w] = "dial"
    /\ \E up \in BOOLEAN :
          found' = [s \in DOMAIN found \cup {worker[w]} |->
                       IF s = worker[w] THEN up ELSE found[s]]
    /\ stage' = [stage EXCEPT ![w] = "send"]
    /\ UNCHANGED <<poolVars, pc, batch, todo, wg, results, open, ticked, ctxDone, redis>>

Send(w) ==
    /\ stage[w] = "send"
    /\ \/ /\ open /\ Len(results) < Room
          /\ results' = Append(results, [server |-> worker[w], online |-> found[worker[w]]])
          /\ UNCHANGED pc
       \/ ~open /\ pc' = "panic" /\ UNCHANGED results
    /\ stage' = [stage EXCEPT ![w] = "done"]
    /\ UNCHANGED <<poolVars, batch, todo, wg, found, open, ticked, ctxDone, redis>>

\* Mutant: a server that is down returns before wg.Done.
EndTaskIfUp(w) ==
    /\ stage[w] = "done"
    /\ wg' = IF found[worker[w]] THEN wg - 1 ELSE wg
    /\ Return(w)
    /\ stage' = [stage EXCEPT ![w] = "none"]
    /\ UNCHANGED <<pc, batch, todo, found, results, open, ticked, ctxDone, redis>>

\* The deferred wg.Done, and back to the worker's loop.
EndTask(w) ==
    /\ stage[w] = "done"
    /\ wg' = wg - 1
    /\ pc' = IF wg = 0 THEN "panic" ELSE pc
    /\ Return(w)
    /\ stage' = [stage EXCEPT ![w] = "none"]
    /\ UNCHANGED <<batch, todo, found, results, open, ticked, ctxDone, redis>>

EndWorker(w) ==
    /\ Quit(w)
    /\ UNCHANGED <<pc, round, stage, ticked, ctxDone, redis>>

(* The select of Start, and Stop.                                          *)

NextRound ==
    /\ pc = "select" /\ ticked
    /\ ticked' = FALSE /\ pc' = "fetch"
    /\ UNCHANGED <<poolVars, round, stage, ctxDone, redis>>

SeeDone ==
    /\ pc = "select" /\ ctxDone
    /\ pc' = "cancel"
    /\ UNCHANGED <<poolVars, round, stage, ticked, ctxDone, redis>>

\* Mutant: Stop forgets to cancel and to close.
StopPoolJoinOnly ==
    /\ \/ pc = "cancel" /\ pc' = "join" /\ UNCHANGED poolVars
       \/ pc = "join" /\ Joined /\ pc' = "returned" /\ UNCHANGED poolVars
    /\ UNCHANGED <<round, stage, ticked, ctxDone, redis>>

StopPool ==
    /\ \/ pc = "cancel" /\ Cancel /\ pc' = "close"
       \/ pc = "close" /\ Close /\ pc' = "join"
       \/ pc = "join" /\ Joined /\ pc' = "returned" /\ UNCHANGED poolVars
    /\ UNCHANGED <<round, stage, ticked, ctxDone, redis>>

(* The surroundings: time, signals, the end of the process.                *)

\* A tick that finds the channel full is dropped.
Tick ==
    /\ board = NoBoard \/ life > 0
    /\ ticked' = TRUE
    /\ life' = IF board = NoBoard THEN life ELSE life - 1
    /\ overdue' = (overdue \/ ticked \/ pc # "select")
    /\ UNCHANGED <<poolVars, pc, round, stage, ctxDone, board>>

\* The leaderboard lives for TTL intervals, all of which have begun.
Expire ==
    /\ board # NoBoard /\ life = 0
    /\ board' = NoBoard
    /\ UNCHANGED <<poolVars, pc, round, stage, ticked, ctxDone, life, overdue>>

Terminate ==
    /\ ~ctxDone
    /\ ctxDone' = TRUE /\ overdue' = TRUE
    /\ UNCHANGED <<poolVars, pc, round, stage, ticked, board, life>>

Restart ==
    /\ queue' = <<>> /\ cancelled' = FALSE /\ closed' = FALSE
    /\ worker' = [w \in Worker |-> "ready"]
    /\ stage' = [w \in Worker |-> "none"]
    /\ EndRound
    /\ pc' = "fetch"
    /\ ticked' = FALSE /\ ctxDone' = FALSE
    /\ overdue' = TRUE
    /\ UNCHANGED <<board, life>>

-----------------------------------------------------------------------------
Start == Fetch \/ (\E s \in Server : Submit(s)) \/ CloseResults \/ Publish \/ StopPool
RunTask(w) == StartTask(w) \/ Dial(w) \/ Send(w) \/ EndTask(w) \/ EndWorker(w)

Next ==
    \/ pc # "panic" /\ ( \/ Start \/ NextRound \/ SeeDone
                         \/ \E w \in Worker : RunTask(w)
                         \/ Tick \/ Terminate)
    \/ Expire \/ Restart

\* Goroutines run, dials time out after two seconds and storage calls
\* return.  A select picks a case at random, so a context that is done is
\* seen even if a tick is always ready too.
Spec ==
    /\ Init /\ [][Next]_vars
    /\ WF_vars(pc # "panic" /\ Start)
    /\ \A w \in Worker : WF_vars(pc # "panic" /\ RunTask(w))
    /\ SF_vars(pc # "panic" /\ SeeDone)

-----------------------------------------------------------------------------
TypeOK ==
    /\ PoolTypeOK
    /\ pc \in {"fetch", "submit", "rank", "select", "cancel", "close", "join",
               "returned", "panic"}
    /\ todo \subseteq Server /\ DOMAIN batch \subseteq Server
    /\ wg \in Int
    /\ stage \in [Worker -> {"none", "dial", "send", "done"}]
    /\ open \in BOOLEAN /\ ticked \in BOOLEAN /\ ctxDone \in BOOLEAN
    /\ board \in Seq(Item) \cup {NoBoard}
    /\ life \in 0 .. TTL /\ overdue \in BOOLEAN

\* Neither channel is sent to after it is closed and the WaitGroup never
\* goes below zero: the process does not die of its own rounds.
NoPanic == pc # "panic"

\* A round's tasks are all over when it is: none runs into the next round
\* or into the shutdown.
RoundsDontOverlap ==
    pc # "submit" => queue = <<>> /\ \A w \in Worker : ~Busy(w)

\* What reaches Redis ranks every server of the round exactly once, each as
\* its own task found it, in order of score, in whatever order the workers
\* finish.
WholeRanking(b) ==
    /\ Len(b) = Cardinality(DOMAIN batch)
    /\ {b[i].server : i \in 1 .. Len(b)} = DOMAIN batch
    /\ \A i \in 1 .. Len(b) :
          b[i].online = found[b[i].server] /\ b[i].likes = batch[b[i].server]
    /\ \A i \in 2 .. Len(b) : Score(b[i - 1]) >= Score(b[i])

BoardIsWholeRound ==
    [][board' \notin {board, NoBoard} => WholeRanking(board')]_vars

\* Two intervals are enough for the next ranking to be there before the
\* last one expires, as long as rounds succeed within an interval.
BoardOutlivesInterval == ~overdue => board # NoBoard

\* A round comes to its end.
RoundEnds == pc \in {"submit", "rank"} ~> pc \notin {"submit", "rank"}

\* Told to stop, Start returns with the pool drained, or the process was
\* restarted before.
StopsWhenTold == ctxDone ~> (pc = "returned" \/ ~ctxDone)
=============================================================================

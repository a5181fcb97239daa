----------------------------- MODULE WorkerPool -----------------------------
(***************************************************************************)
(* The collector's worker pool: a buffered channel of tasks, a fixed set   *)
(* of goroutines that receive from it, and a context that ends them.  The  *)
(* module has the pool's state and one operator per channel operation;     *)
(* PoolClients and Poller say who calls them.  A select with several ready *)
(* cases takes any of them.                                                *)
(***************************************************************************)
EXTENDS Integers, Sequences, FiniteSets

CONSTANTS
    Worker,      \* the pool's goroutines
    Task,        \* what may be submitted
    QueueSize    \* capacity of tasksChan

ASSUME PoolAssumption ==
    /\ IsFiniteSet(Worker)
    /\ QueueSize \in Nat \ {0}
    /\ "ready" \notin Task /\ "gone" \notin Task

VARIABLES
    queue,      \* tasksChan
    cancelled,  \* the pool's context is done
    closed,     \* tasksChan is closed
    worker      \* what each worker does: "ready" in its select, a task, "gone"

poolVars == <<queue, cancelled, closed, worker>>

NewWorkerPool ==
    /\ queue = <<>>
    /\ cancelled = FALSE /\ closed = FALSE
    /\ worker = [w \in Worker |-> "ready"]

PoolTypeOK ==
    /\ queue \in Seq(Task) /\ Len(queue) <= QueueSize
    /\ cancelled \in BOOLEAN /\ closed \in BOOLEAN
    /\ worker \in [Worker -> Task \cup {"ready", "gone"}]

Busy(w) == worker[w] \in Task

(* Submit has three outcomes; to send on a closed channel is a panic.      *)

\* Mutant: the channel grows without bound.
AcceptUnbounded(t) ==
    /\ ~closed
    /\ queue' = Append(queue, t)
    /\ UNCHANGED <<cancelled, closed, worker>>

Accept(t) ==
    /\ ~closed /\ Len(queue) < QueueSize
    /\ queue' = Append(queue, t)
    /\ UNCHANGED <<cancelled, closed, worker>>

Refuse == cancelled /\ UNCHANGED poolVars

SendPanics == closed

(* The loop of a worker.                                                   *)

\* A cancelled worker may still find a task first: both cases are ready.
Take(w) ==
    /\ worker[w] = "ready" /\ queue # <<>>
    /\ worker' = [worker EXCEPT ![w] = Head(queue)]
    /\ queue' = Tail(queue)
    /\ UNCHANGED <<cancelled, closed>>

\* Mutant: a default case ends the loop when there is nothing to do.
QuitWhenIdle(w) ==
    /\ worker[w] = "ready"
    /\ cancelled \/ queue = <<>>
    /\ worker' = [worker EXCEPT ![w] = "gone"]
    /\ UNCHANGED <<queue, cancelled, closed>>

Quit(w) ==
    /\ worker[w] = "ready"
    /\ cancelled \/ (closed /\ queue = <<>>)
    /\ worker' = [worker EXCEPT ![w] = "gone"]
    /\ UNCHANGED <<queue, cancelled, closed>>

Return(w) ==
    /\ Busy(w)
    /\ worker' = [worker EXCEPT ![w] = "ready"]
    /\ UNCHANGED <<queue, cancelled, closed>>

(* Stop.                                                                   *)

Cancel == cancelled' = TRUE /\ UNCHANGED <<queue, closed, worker>>
Close == closed' = TRUE /\ UNCHANGED <<queue, cancelled, worker>>
Joined == \A w \in Worker : worker[w] = "gone"
=============================================================================

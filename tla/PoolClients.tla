----------------------------- MODULE PoolClients -----------------------------
(***************************************************************************)
(* The worker pool used as its test uses it and beyond: goroutines submit  *)
(* one task each, at any time; another goroutine may call Stop.            *)
(***************************************************************************)
EXTENDS WorkerPool

VARIABLES
    caller,   \* each task's Submit: "idle", "calling", "parked", "true", "false"
    stopper,  \* Stop: "idle", "cancel", "close", "wait", "returned"
    runs,     \* history: how often each task was run
    panicked  \* the process died of a send on a closed channel

clientVars == <<poolVars, caller, stopper, runs, panicked>>

ClientInit ==
    /\ NewWorkerPool
    /\ caller = [t \in Task |-> "idle"]
    /\ stopper = "idle"
    /\ runs = [t \in Task |-> 0]
    /\ panicked = FALSE

Becomes(t, r) == caller' = [caller EXCEPT ![t] = r]

CallSubmit(t) ==
    /\ caller[t] = "idle"
    /\ Becomes(t, "calling")
    /\ UNCHANGED <<poolVars, stopper, runs, panicked>>

ClientSubmit(t) ==
    /\ caller[t] = "calling"
    /\ \/ Accept(t) /\ Becomes(t, "true") /\ UNCHANGED panicked
       \/ Refuse /\ Becomes(t, "false") /\ UNCHANGED panicked
       \/ SendPanics /\ panicked' = TRUE /\ UNCHANGED <<poolVars, caller>>
       \/ /\ Len(queue) = QueueSize /\ ~cancelled
          /\ Becomes(t, "parked") /\ UNCHANGED <<poolVars, panicked>>
    /\ UNCHANGED <<stopper, runs>>

\* The select sleeps until a worker makes room or cancel() wakes it.
Unpark(t) ==
    /\ caller[t] = "parked"
    /\ Accept(t) /\ Becomes(t, "true")
    /\ UNCHANGED <<stopper, runs, panicked>>

Work(w) ==
    /\ \/ Take(w) /\ runs' = [runs EXCEPT ![Head(queue)] = @ + 1]
       \/ Quit(w) /\ UNCHANGED runs
       \/ Return(w) /\ UNCHANGED runs
    /\ UNCHANGED <<caller, stopper, panicked>>

CallStop ==
    /\ stopper = "idle" /\ stopper' = "cancel"
    /\ UNCHANGED <<poolVars, caller, runs, panicked>>

Stop ==
    /\ \/ /\ stopper = "cancel" /\ Cancel /\ stopper' = "close"
          /\ caller' = [t \in Task |-> IF caller[t] = "parked" THEN "false"
                                      ELSE caller[t]]
       \/ stopper = "close" /\ Close /\ stopper' = "wait" /\ UNCHANGED caller
       \/ /\ stopper = "wait" /\ Joined /\ stopper' = "returned"
          /\ UNCHANGED <<poolVars, caller>>
    /\ UNCHANGED <<runs, panicked>>

ClientNext ==
    /\ ~panicked
    /\ \/ \E t \in Task : CallSubmit(t) \/ ClientSubmit(t) \/ Unpark(t)
       \/ \E w \in Worker : Work(w)
       \/ CallStop \/ Stop

\* Goroutines run and tasks return.  Whether anybody submits or stops is
\* open.  A Submit that waits for room is served in turn.
ClientSpec ==
    /\ ClientInit /\ [][ClientNext]_clientVars
    /\ \A w \in Worker : WF_clientVars(~panicked /\ Work(w))
    /\ \A t \in Task : SF_clientVars(~panicked /\ (ClientSubmit(t) \/ Unpark(t)))

-----------------------------------------------------------------------------
\* What workerpool_test.go expects: without Stop every submitted task is
\* accepted and run.
SubmittedTasksRun ==
    \A t \in Task : caller[t] = "calling" ~> (runs[t] = 1 \/ stopper # "idle")
=============================================================================

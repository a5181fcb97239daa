------------------------------ MODULE Throttle ------------------------------
(***************************************************************************)
(* The rate limit: a counter in Redis for each path an address asks for.   *)
(* INCR makes the key and EXPIRE, a call of its own after the first INCR,  *)
(* gives it an end; a request is refused when its INCR answers more than   *)
(* the limit.  The module has the keys of one address and one operator per *)
(* call, with its error; Front says who makes the calls.                   *)
(***************************************************************************)
EXTENDS Integers

CONSTANTS
    Path,      \* paths whose counter is followed; the others never fill
    Limit,     \* requests let through while the key lives
    MaxFaults  \* bound: calls of Redis that fail or whose answer is late

ASSUME ThrottleAssumption == Limit \in Nat \ {0} /\ MaxFaults \in Nat

VARIABLES
    hits,    \* the counter, 0 if there is no key; it stays at Limit + 1
    ttl,     \* the key has an end
    passed,  \* history: requests let through since the key was made
    lost,    \* history: the EXPIRE of the key was lost
    faults   \* history: calls that failed

throttle == <<hits, ttl, passed, lost, faults>>

ThrottleInit ==
    /\ hits = [p \in Path |-> 0] /\ ttl = [p \in Path |-> FALSE]
    /\ passed = [p \in Path |-> 0] /\ lost = [p \in Path |-> FALSE]
    /\ faults = 0

ThrottleTypeOK ==
    /\ hits \in [Path -> 0 .. Limit + 1] /\ ttl \in [Path -> BOOLEAN]
    /\ passed \in [Path -> Nat] /\ lost \in [Path -> BOOLEAN]
    /\ faults \in 0 .. MaxFaults

Incr(p) == hits' = [hits EXCEPT ![p] = IF @ > Limit THEN @ ELSE @ + 1]
LetThrough(p) == passed' = [passed EXCEPT ![p] = @ + 1]

\* The request whose INCR makes the key goes on to EXPIRE.
First(p) == hits[p] = 0

\* Mutant: the count is read before it is raised.
AdmitsOneMore(p) == hits[p] <= Limit

Admits(p) == hits[p] < Limit

Admit(p) == Incr(p) /\ LetThrough(p) /\ UNCHANGED <<ttl, lost, faults>>
Refuse(p) == Incr(p) /\ UNCHANGED <<ttl, passed, lost, faults>>

\* An error of INCR lets the request through, counted or not, and EXPIRE is
\* not called.
AdmitOnError(p) ==
    /\ faults < MaxFaults /\ faults' = faults + 1
    /\ LetThrough(p)
    /\ \/ UNCHANGED <<hits, lost>>
       \/ Incr(p) /\ lost' = [lost EXCEPT ![p] = @ \/ First(p)]
    /\ UNCHANGED ttl

\* Mutant: EXPIRE is given the key without its prefix.
ExpireWrongKey(p) ==
    /\ UNCHANGED ttl
    /\ UNCHANGED <<hits, passed, lost, faults>>

Expire(p) ==
    /\ ttl' = [ttl EXCEPT ![p] = TRUE]
    /\ UNCHANGED <<hits, passed, lost, faults>>

\* Its error is not looked at.
ExpireFails(p) ==
    /\ faults < MaxFaults /\ faults' = faults + 1
    /\ lost' = [lost EXCEPT ![p] = TRUE]
    /\ UNCHANGED <<hits, ttl, passed>>

\* The process ends or the visitor gives up before EXPIRE.
ExpireNotSent(p) ==
    /\ lost' = [lost EXCEPT ![p] = TRUE]
    /\ UNCHANGED <<hits, ttl, passed, faults>>

\* The window is over.
WindowEnds(p) ==
    /\ ttl[p]
    /\ hits' = [hits EXCEPT ![p] = 0] /\ ttl' = [ttl EXCEPT ![p] = FALSE]
    /\ passed' = [passed EXCEPT ![p] = 0]
    /\ UNCHANGED <<lost, faults>>

\* While a key lives the limit and the calls that failed are all that is
\* let through, however many ask at once.
AdmittedBounded == \A p \in Path : passed[p] <= Limit + faults
=============================================================================

----------------------------- MODULE PollerProofs -----------------------------
(***************************************************************************)
(* What holds of Poller for every set of servers and every pool: a round   *)
(* ends only when all its tasks have, and publishes all that they found.   *)
(***************************************************************************)
EXTENDS Poller, FiniteSetTheorems, FunctionTheorems, SequenceTheorems, TLAPS

(* Where a server of the round is: still to be submitted, in the channel,  *)
(* with a worker, reported.                                                *)

Queued(s) == \E i \in 1 .. Len(queue) : queue[i] = s
Polled(s) == \E w \in Worker : worker[w] = s
Reported(s) == \E i \in 1 .. Len(results) : results[i].server = s

BusyWorkers == {w \in Worker : Busy(w)}

\* Every server of the round is in one place, once; a task that is done has
\* reported and its worker does not know yet.
PlacesOK ==
    /\ todo \subseteq DOMAIN batch
    /\ \A i, j \in 1 .. Len(queue) : queue[i] = queue[j] => i = j
    /\ \A v, w \in Worker : Busy(v) /\ worker[v] = worker[w] => v = w
    /\ \A i, j \in 1 .. Len(results) : results[i].server = results[j].server => i = j
    /\ \A s \in Server :
          /\ Queued(s) \/ Polled(s) \/ Reported(s) => s \in DOMAIN batch \ todo
          /\ s \in DOMAIN batch => s \in todo \/ Queued(s) \/ Polled(s) \/ Reported(s)
          /\ ~(Queued(s) /\ (Polled(s) \/ Reported(s)))
    /\ \A w \in Worker : Busy(w) => (stage[w] = "done" <=> Reported(worker[w]))

Result == [server : Server, online : BOOLEAN]

\* A report says what its task found.
FoundOK ==
    /\ \A s \in DOMAIN found : found[s] \in BOOLEAN
    /\ \A w \in Worker : stage[w] \in {"send", "done"} => worker[w] \in DOMAIN found
    /\ results \in Seq(Result)
    /\ \A i \in 1 .. Len(results) :
          /\ results[i].server \in DOMAIN found
          /\ results[i].online = found[results[i].server]

\* The WaitGroup counts the tasks in the channel and with the workers.
CountOK == wg = Len(queue) + Cardinality(BusyWorkers)

\* Outside a round there is nothing of one; the pool is stopped last.
PhaseOK ==
    /\ pc # "panic"
    /\ pc # "submit" => queue = <<>> /\ BusyWorkers = {} /\ todo = {}
    /\ pc \notin {"submit", "rank"} => results = <<>> /\ DOMAIN batch = {}
    /\ open <=> pc = "submit"
    /\ cancelled => pc \in {"close", "join", "returned"}
    /\ closed => pc \in {"join", "returned"}

StagesOK == \A w \in Worker : stage[w] = "none" <=> ~Busy(w)

BatchOK == batch \in [DOMAIN batch -> 0 .. MaxLikes]

RoundInv ==
    TypeOK /\ BatchOK /\ PlacesOK /\ FoundOK /\ CountOK /\ PhaseOK /\ StagesOK

\* A ranking in time has the interval of its round before it and the next.
LifeInv ==
    ~overdue => /\ board # NoBoard /\ life >= 1
                /\ pc = "select" /\ ~ticked => life = TTL

-----------------------------------------------------------------------------
(* The channel and the workers.                                            *)

\* Nothing is put into the channel but at its end.
LEMMA Accepted ==
    ASSUME PoolTypeOK, NEW t \in Server, Accept(t)
    PROVE  /\ queue' \in Seq(Server) /\ Len(queue') = Len(queue) + 1 /\ Len(queue) \in Nat
           /\ \A i \in 1 .. Len(queue) : queue'[i] = queue[i]
           /\ queue'[Len(queue) + 1] = t
BY AppendProperties, LenProperties DEF PoolTypeOK, Accept, Server

\* What a worker takes is the first; the others move up.
LEMMA Taken ==
    ASSUME PoolTypeOK, NEW w \in Worker, Take(w)
    PROVE  /\ queue' \in Seq(Server) /\ Len(queue) \in Nat \ {0}
           /\ Len(queue') = Len(queue) - 1
           /\ worker' = [worker EXCEPT ![w] = queue[1]] /\ queue[1] \in Server
           /\ \A i \in 1 .. Len(queue') : queue'[i] = queue[i + 1]
<1>1. queue \in Seq(Server) /\ queue # <<>>
    BY DEF PoolTypeOK, Take, Server
<1>2. Head(queue) = queue[1]
    BY <1>1
<1> QED
    BY <1>1, <1>2, HeadTailProperties, EmptySeq, ElementOfSeq DEF Take

LEMMA BusyFinite == IsFiniteSet(BusyWorkers) /\ Cardinality(BusyWorkers) \in Nat
<1>1. IsFiniteSet(Worker) /\ BusyWorkers \subseteq Worker
    BY PoolAssumption DEF BusyWorkers
<1> QED
    BY <1>1, FS_Subset, FS_CardinalityType

\* A worker that starts or ends a task is one more or one less.
LEMMA BusyCounts ==
    ASSUME TypeOK, NEW w \in Worker, NEW x \in Server \cup {"ready"},
           worker' = [worker EXCEPT ![w] = x]
    PROVE  /\ (x \in Server /\ ~Busy(w)) =>
                  Cardinality(BusyWorkers') = Cardinality(BusyWorkers) + 1
           /\ (x = "ready" /\ Busy(w)) =>
                  Cardinality(BusyWorkers') = Cardinality(BusyWorkers) - 1
<1>1. worker \in [Worker -> Server \cup {"ready", "gone"}]
    BY DEF TypeOK, PoolTypeOK, Server
<1>2. CASE x \in Server /\ ~Busy(w)
    <2>1. BusyWorkers' = BusyWorkers \cup {w} /\ w \notin BusyWorkers
        BY <1>1, <1>2 DEF BusyWorkers, Busy, Server
    <2> QED
        BY <1>2, <2>1, BusyFinite, FS_AddElement, PoolAssumption DEF Server
<1>3. CASE x = "ready" /\ Busy(w)
    <2>1. BusyWorkers' = BusyWorkers \ {w} /\ w \in BusyWorkers
        BY <1>1, <1>3, PoolAssumption DEF BusyWorkers, Busy, Server
    <2> QED
        BY <1>3, <2>1, BusyFinite, FS_RemoveElement, PoolAssumption DEF Server
<1> QED
    BY <1>2, <1>3

\* A WaitGroup at zero has nothing in the channel or with a worker.
LEMMA ZeroIsOver ==
    ASSUME TypeOK, CountOK, wg = 0
    PROVE  queue = <<>> /\ BusyWorkers = {}
<1>1. Len(queue) \in Nat /\ Len(queue) + Cardinality(BusyWorkers) = 0
    BY LenProperties DEF TypeOK, PoolTypeOK, CountOK
<1>2. Len(queue) = 0 /\ Cardinality(BusyWorkers) = 0
    BY <1>1, BusyFinite
<1> QED
    BY <1>2, BusyFinite, FS_EmptySet, EmptySeq DEF TypeOK, PoolTypeOK

-----------------------------------------------------------------------------
(* The steps of a round.                                                   *)

Rest == BatchOK /\ PlacesOK /\ FoundOK /\ CountOK /\ StagesOK

LEMMA FrameKeeps ==
    ASSUME Rest, UNCHANGED <<queue, worker, round, stage>>
    PROVE  Rest'
BY DEF Rest, round, BatchOK, PlacesOK, FoundOK, CountOK, StagesOK, Queued, Polled, Reported,
       BusyWorkers, Busy

\* A server that is submitted goes from todo into the channel.
LEMMA AcceptRest ==
    ASSUME RoundInv, NEW s \in todo, Accept(s), wg' = wg + 1, todo' = todo \ {s},
           UNCHANGED <<batch, found, results, stage>>
    PROVE  Rest'
<1>1. s \in Server /\ todo \subseteq Server /\ PoolTypeOK
    BY DEF RoundInv, TypeOK
<1>2. /\ Len(queue') = Len(queue) + 1 /\ Len(queue) \in Nat
      /\ \A i \in 1 .. Len(queue) : queue'[i] = queue[i]
      /\ queue'[Len(queue) + 1] = s
    BY <1>1, Accepted
<1>3. UNCHANGED worker
    BY DEF Accept
<1>4. ASSUME NEW r \in Server
      PROVE  /\ Queued(r)' <=> (Queued(r) \/ r = s)
             /\ Polled(r)' <=> Polled(r)
             /\ Reported(r)' <=> Reported(r)
    BY <1>2, <1>3 DEF Queued, Polled, Reported
<1>5. ~Queued(s) /\ ~Polled(s) /\ ~Reported(s)
    BY <1>1 DEF RoundInv, PlacesOK
<1>6. \A i, j \in 1 .. Len(queue') : queue'[i] = queue'[j] => i = j
    BY <1>2, <1>5 DEF RoundInv, PlacesOK, Queued
<1>7. PlacesOK'
    <2>1. ASSUME NEW r \in Server
          PROVE  /\ (Queued(r) \/ Polled(r) \/ Reported(r))' => r \in DOMAIN batch' \ todo'
                 /\ r \in DOMAIN batch' =>
                        r \in todo' \/ (Queued(r) \/ Polled(r) \/ Reported(r))'
                 /\ ~(Queued(r) /\ (Polled(r) \/ Reported(r)))'
        <3>1. /\ Queued(r) \/ Polled(r) \/ Reported(r) => r \in DOMAIN batch \ todo
              /\ r \in DOMAIN batch => r \in todo \/ Queued(r) \/ Polled(r) \/ Reported(r)
              /\ ~(Queued(r) /\ (Polled(r) \/ Reported(r)))
            BY DEF RoundInv, PlacesOK
        <3>2. s \in DOMAIN batch /\ s \notin todo'
            BY DEF RoundInv, PlacesOK
        <3> QED
            BY <1>4, <1>5, <3>1, <3>2
    <2>2. ASSUME NEW w \in Worker, Busy(w)'
          PROVE  stage'[w] = "done" <=> Reported(worker[w])'
        BY <2>2, <1>3 DEF RoundInv, PlacesOK, Busy, Reported
    <2> QED
        BY <1>3, <1>6, <2>1, <2>2 DEF RoundInv, PlacesOK, Busy
<1>8. CountOK'
    BY <1>2, <1>3, BusyFinite DEF RoundInv, CountOK, BusyWorkers, Busy
<1> QED
    BY <1>3, <1>7, <1>8 DEF RoundInv, Rest, BatchOK, FoundOK, StagesOK, Busy

\* A server that is taken goes from the channel to the worker.
LEMMA TakeRest ==
    ASSUME RoundInv, NEW w \in Worker, Take(w), stage' = [stage EXCEPT ![w] = "dial"],
           UNCHANGED <<batch, todo, wg, found, results>>
    PROVE  Rest'
<1> DEFINE s == queue[1]
<1>1. PoolTypeOK /\ stage \in [Worker -> {"none", "dial", "send", "done"}]
    BY DEF RoundInv, TypeOK
<1>2. /\ Len(queue) \in Nat \ {0} /\ Len(queue') = Len(queue) - 1
      /\ worker' = [worker EXCEPT ![w] = s] /\ s \in Server
      /\ \A i \in 1 .. Len(queue') : queue'[i] = queue[i + 1]
    BY <1>1, Taken
<1> HIDE DEF s
<1>3. worker \in [Worker -> Server \cup {"ready", "gone"}]
    BY <1>1 DEF PoolTypeOK, Server
<1>4. worker[w] = "ready" /\ ~Busy(w) /\ Busy(w)'
    BY <1>2, <1>3, PoolAssumption DEF Take, Busy, Server
<1>5. Queued(s) /\ ~Polled(s) /\ ~Reported(s)
    BY <1>2 DEF RoundInv, PlacesOK, Queued, s
<1>6. \A i, j \in 1 .. Len(queue') : queue'[i] = queue'[j] => i = j
    BY <1>2 DEF RoundInv, PlacesOK
<1>7. ASSUME NEW r \in Server
      PROVE  /\ Queued(r)' <=> (Queued(r) /\ r # s)
             /\ Polled(r)' <=> (Polled(r) \/ r = s)
             /\ Reported(r)' <=> Reported(r)
    <2>1. Queued(r)' => Queued(r) /\ r # s
        BY <1>2 DEF Queued, RoundInv, PlacesOK, s
    <2>2. ASSUME NEW i \in 1 .. Len(queue), queue[i] = r, r # s
          PROVE  i - 1 \in 1 .. Len(queue') /\ queue'[i - 1] = r
        BY <1>2, <2>2 DEF s
    <2>3. Queued(r) /\ r # s => Queued(r)'
        BY <2>2 DEF Queued
    <2>4. Polled(r)' <=> (Polled(r) \/ r = s)
        BY <1>2, <1>3, <1>4, PoolAssumption DEF Polled, Server
    <2> QED
        BY <2>1, <2>3, <2>4 DEF Reported
<1>8. PlacesOK'
    <2>1. ASSUME NEW r \in Server
          PROVE  /\ (Queued(r) \/ Polled(r) \/ Reported(r))' => r \in DOMAIN batch' \ todo'
                 /\ r \in DOMAIN batch' =>
                        r \in todo' \/ (Queued(r) \/ Polled(r) \/ Reported(r))'
                 /\ ~(Queued(r) /\ (Polled(r) \/ Reported(r)))'
        BY <1>5, <1>2, <1>7 DEF RoundInv, PlacesOK
    <2>2. ASSUME NEW v \in Worker, Busy(v)'
          PROVE  stage'[v] = "done" <=> Reported(worker[v])'
        BY <2>2, <1>1, <1>2, <1>3, <1>5 DEF RoundInv, PlacesOK, Busy, Reported
    <2>3. ASSUME NEW u \in Worker, NEW v \in Worker, Busy(u)', worker'[u] = worker'[v]
          PROVE  u = v
        BY <2>3, <1>2, <1>3, <1>5 DEF RoundInv, PlacesOK, Busy, Polled
    <2> QED
        BY <1>6, <2>1, <2>2, <2>3 DEF RoundInv, PlacesOK
<1>9. CountOK'
    <2>1. Cardinality(BusyWorkers') = Cardinality(BusyWorkers) + 1
        BY <1>2, <1>4, BusyCounts DEF RoundInv
    <2> QED
        BY <1>2, <2>1, BusyFinite DEF RoundInv, CountOK
<1>10. StagesOK'
    BY <1>1, <1>2, <1>3, <1>4 DEF RoundInv, StagesOK, Busy
<1>11. FoundOK'
    BY <1>1, <1>2, <1>3 DEF RoundInv, FoundOK
<1> QED
    BY <1>8, <1>9, <1>10, <1>11 DEF RoundInv, Rest, BatchOK

LEMMA DialRest ==
    ASSUME RoundInv, NEW w \in Worker, Dial(w)
    PROVE  Rest'
<1>1. PICK up \in BOOLEAN :
          found' = [s \in DOMAIN found \cup {worker[w]} |->
                       IF s = worker[w] THEN up ELSE found[s]]
    BY DEF Dial
<1>2. /\ stage[w] = "dial" /\ stage' = [stage EXCEPT ![w] = "send"]
      /\ UNCHANGED <<queue, worker, batch, todo, wg, results>>
    BY DEF Dial, poolVars
<1>3. stage \in [Worker -> {"none", "dial", "send", "done"}]
    BY DEF RoundInv, TypeOK
<1>4. Busy(w) /\ ~Reported(worker[w])
    BY <1>2 DEF RoundInv, StagesOK, PlacesOK
<1>5. StagesOK'
    BY <1>2, <1>3, <1>4 DEF RoundInv, StagesOK, Busy
<1>6. PlacesOK'
    <2>1. \A v \in Worker : stage'[v] = "done" <=> stage[v] = "done"
        BY <1>2, <1>3
    <2> QED
        BY <1>2, <2>1 DEF RoundInv, PlacesOK, Queued, Polled, Reported, Busy
<1>7. FoundOK'
    <2>1. \A i \in 1 .. Len(results) : results[i].server # worker[w]
        BY <1>4 DEF Reported
    <2> QED
        BY <1>1, <1>2, <1>3, <2>1 DEF RoundInv, FoundOK
<1> QED
    BY <1>2, <1>5, <1>6, <1>7 DEF RoundInv, Rest, BatchOK, CountOK, BusyWorkers, Busy

\* A task that reports is found among the results and with its worker.
LEMMA SendRest ==
    ASSUME RoundInv, NEW w \in Worker, Send(w), open
    PROVE  Rest'
<1> DEFINE r == [server |-> worker[w], online |-> found[worker[w]]]
<1>1. /\ stage[w] = "send" /\ stage' = [stage EXCEPT ![w] = "done"]
      /\ results' = Append(results, r)
      /\ UNCHANGED <<queue, worker, batch, todo, wg, found>>
    BY DEF Send, poolVars
<1>2. stage \in [Worker -> {"none", "dial", "send", "done"}]
    BY DEF RoundInv, TypeOK
<1>3. /\ Busy(w) /\ ~Reported(worker[w]) /\ Polled(worker[w])
      /\ worker[w] \in Server /\ worker[w] \in DOMAIN found
    BY <1>1 DEF RoundInv, StagesOK, PlacesOK, FoundOK, Busy, Polled, Server
<1>4. r \in Result /\ results \in Seq(Result)
    BY <1>3 DEF RoundInv, FoundOK, Result
<1>5. /\ results' \in Seq(Result) /\ Len(results') = Len(results) + 1 /\ Len(results) \in Nat
      /\ \A i \in 1 .. Len(results) : results'[i] = results[i]
      /\ results'[Len(results) + 1] = r
    BY <1>1, <1>4, AppendProperties, LenProperties
<1>6. r.server = worker[w] /\ r.online = found[worker[w]]
    OBVIOUS
<1> HIDE DEF r
<1>7. ASSUME NEW s \in Server
      PROVE  /\ Queued(s)' <=> Queued(s)
             /\ Polled(s)' <=> Polled(s)
             /\ Reported(s)' <=> (Reported(s) \/ s = worker[w])
    BY <1>1, <1>5, <1>6 DEF Queued, Polled, Reported
<1>8. PlacesOK'
    <2>1. \A i, j \in 1 .. Len(results') :
              results'[i].server = results'[j].server => i = j
        BY <1>3, <1>5, <1>6 DEF RoundInv, PlacesOK, Reported
    <2>2. ASSUME NEW s \in Server
          PROVE  /\ (Queued(s) \/ Polled(s) \/ Reported(s))' => s \in DOMAIN batch' \ todo'
                 /\ s \in DOMAIN batch' =>
                        s \in todo' \/ (Queued(s) \/ Polled(s) \/ Reported(s))'
                 /\ ~(Queued(s) /\ (Polled(s) \/ Reported(s)))'
        <3>1. /\ Queued(s) \/ Polled(s) \/ Reported(s) => s \in DOMAIN batch \ todo
              /\ s \in DOMAIN batch => s \in todo \/ Queued(s) \/ Polled(s) \/ Reported(s)
              /\ ~(Queued(s) /\ (Polled(s) \/ Reported(s)))
            BY DEF RoundInv, PlacesOK
        <3> QED
            BY <1>1, <1>3, <1>7, <3>1
    <2>3. ASSUME NEW v \in Worker, Busy(v)'
          PROVE  stage'[v] = "done" <=> Reported(worker[v])'
        <3>1. Busy(v) /\ worker[v] \in Server /\ worker'[v] = worker[v]
            BY <1>1, <2>3 DEF Busy, Server
        <3>2. worker[v] = worker[w] => v = w
            BY <3>1 DEF RoundInv, PlacesOK
        <3> QED
            BY <1>1, <1>2, <1>7, <3>1, <3>2 DEF RoundInv, PlacesOK
    <2> QED
        BY <1>1, <2>1, <2>2, <2>3 DEF RoundInv, PlacesOK, Busy
<1>9. FoundOK'
    BY <1>1, <1>2, <1>3, <1>5, <1>6 DEF RoundInv, FoundOK
<1>10. StagesOK'
    BY <1>1, <1>2, <1>3 DEF RoundInv, StagesOK, Busy
<1> QED
    BY <1>1, <1>8, <1>9, <1>10 DEF RoundInv, Rest, BatchOK, CountOK, BusyWorkers, Busy

\* A task that has reported leaves its worker.
LEMMA EndTaskRest ==
    ASSUME RoundInv, NEW w \in Worker, EndTask(w)
    PROVE  Rest' /\ wg # 0
<1>1. /\ stage[w] = "done" /\ stage' = [stage EXCEPT ![w] = "none"] /\ wg' = wg - 1
      /\ worker' = [worker EXCEPT ![w] = "ready"] /\ Busy(w)
      /\ UNCHANGED <<queue, batch, todo, found, results>>
    BY DEF EndTask, Return
<1>2. /\ stage \in [Worker -> {"none", "dial", "send", "done"}]
      /\ worker \in [Worker -> Server \cup {"ready", "gone"}]
    BY DEF RoundInv, TypeOK, PoolTypeOK, Server
<1>3. worker[w] \in Server /\ Reported(worker[w]) /\ "ready" \notin Server
    BY <1>1, PoolAssumption DEF RoundInv, PlacesOK, Busy, Server
<1>4. ASSUME NEW s \in Server
      PROVE  /\ Queued(s)' <=> Queued(s)
             /\ Polled(s)' <=> (Polled(s) /\ s # worker[w])
             /\ Reported(s)' <=> Reported(s)
    <2>1. Polled(s)' <=> (Polled(s) /\ s # worker[w])
        BY <1>1, <1>2, <1>3 DEF Polled, RoundInv, PlacesOK
    <2> QED
        BY <1>1, <2>1 DEF Queued, Reported
<1>5. PlacesOK'
    <2>1. ASSUME NEW s \in Server
          PROVE  /\ (Queued(s) \/ Polled(s) \/ Reported(s))' => s \in DOMAIN batch' \ todo'
                 /\ s \in DOMAIN batch' =>
                        s \in todo' \/ (Queued(s) \/ Polled(s) \/ Reported(s))'
                 /\ ~(Queued(s) /\ (Polled(s) \/ Reported(s)))'
        <3>1. /\ Queued(s) \/ Polled(s) \/ Reported(s) => s \in DOMAIN batch \ todo
              /\ s \in DOMAIN batch => s \in todo \/ Queued(s) \/ Polled(s) \/ Reported(s)
              /\ ~(Queued(s) /\ (Polled(s) \/ Reported(s)))
            BY DEF RoundInv, PlacesOK
        <3> QED
            BY <1>1, <1>3, <1>4, <3>1
    <2>2. ASSUME NEW v \in Worker, Busy(v)'
          PROVE  v # w /\ Busy(v) /\ worker'[v] = worker[v] /\ stage'[v] = stage[v]
        BY <2>2, <1>1, <1>2, <1>3 DEF Busy, Server
    <2>3. ASSUME NEW u \in Worker, NEW v \in Worker, Busy(u)', worker'[u] = worker'[v]
          PROVE  u = v
        <3>1. Busy(v)'
            BY <2>3 DEF Busy
        <3> QED
            BY <2>2, <2>3, <3>1 DEF RoundInv, PlacesOK
    <2>4. ASSUME NEW v \in Worker, Busy(v)'
          PROVE  stage'[v] = "done" <=> Reported(worker[v])'
        BY <1>1, <2>2, <2>4 DEF RoundInv, PlacesOK, Reported
    <2> QED
        BY <1>1, <2>1, <2>3, <2>4 DEF RoundInv, PlacesOK
<1>6. CountOK' /\ wg # 0
    <2>1. Cardinality(BusyWorkers') = Cardinality(BusyWorkers) - 1
        BY <1>1, BusyCounts DEF RoundInv
    <2>2. BusyWorkers # {}
        BY <1>1 DEF BusyWorkers
    <2>3. wg # 0
        BY <2>2, ZeroIsOver DEF RoundInv
    <2>4. Len(queue) \in Nat
        BY LenProperties DEF RoundInv, TypeOK, PoolTypeOK
    <2> QED
        BY <1>1, <2>1, <2>3, <2>4, BusyFinite DEF RoundInv, CountOK
<1>7. StagesOK'
    BY <1>1, <1>2, <1>3 DEF RoundInv, StagesOK, Busy, Server
<1>8. FoundOK'
    BY <1>1, <1>2 DEF RoundInv, FoundOK
<1> QED
    BY <1>1, <1>5, <1>6, <1>7, <1>8 DEF RoundInv, Rest, BatchOK

\* Without results, tasks and servers to submit there is nothing to misplace.
LEMMA EmptyRest ==
    ASSUME TypeOK', BatchOK', queue' = <<>>, results' = <<>>, todo' = DOMAIN batch', wg' = 0,
           \A w \in Worker : ~Busy(w)' /\ stage'[w] = "none",
           \A s \in DOMAIN found' : found'[s] \in BOOLEAN
    PROVE  Rest'
<1>1. Len(queue') = 0 /\ Len(results') = 0 /\ results' \in Seq(Result)
    BY EmptySeq
<1>2. BusyWorkers' = {} /\ Cardinality(BusyWorkers') = 0
    BY FS_EmptySet DEF BusyWorkers
<1>3. \A s \in Server : ~Queued(s)' /\ ~Reported(s)' /\ ~Polled(s)'
    BY <1>1 DEF Queued, Reported, Polled, Busy, Server
<1>4. DOMAIN batch' \subseteq Server
    BY DEF TypeOK
<1> QED
    BY <1>1, <1>2, <1>3, <1>4 DEF Rest, PlacesOK, FoundOK, CountOK, StagesOK, Busy

\* Outside a round the pool has nothing to do.
LEMMA IdleOutside ==
    ASSUME RoundInv, pc \notin {"submit", "rank"}
    PROVE  /\ queue = <<>> /\ results = <<>> /\ todo = {} /\ wg = 0
           /\ \A w \in Worker : ~Busy(w) /\ stage[w] = "none"
<1>1. queue = <<>> /\ results = <<>> /\ todo = {} /\ BusyWorkers = {}
    BY DEF RoundInv, PhaseOK
<1>2. wg = 0
    BY <1>1, EmptySeq, FS_EmptySet DEF RoundInv, CountOK
<1> QED
    BY <1>1, <1>2 DEF BusyWorkers, RoundInv, StagesOK

\* When the results are closed there is one for every server.
LEMMA AllReported ==
    ASSUME RoundInv, queue = <<>>, BusyWorkers = {}, todo = {}
    PROVE  \A s \in Server : s \in DOMAIN batch <=> Reported(s)
<1>1. Len(queue) = 0
    BY EmptySeq
<1>2. \A s \in Server : ~Queued(s) /\ ~Polled(s)
    BY <1>1 DEF Queued, Polled, BusyWorkers, Busy, Server
<1> QED
    BY <1>2 DEF RoundInv, PlacesOK

\* What is published.
Item1(s) == [server |-> s, likes |-> batch[s], online |-> found[s]]

LEMMA ItemsOfRound ==
    ASSUME RoundInv, pc = "rank"
    PROVE  /\ Items = {Item1(s) : s \in DOMAIN batch} /\ Items \subseteq Item
           /\ IsFiniteSet(Items) /\ Cardinality(Items) = Cardinality(DOMAIN batch)
           /\ Cardinality(Items) \in Nat
<1>1. /\ queue = <<>> /\ BusyWorkers = {} /\ todo = {} /\ DOMAIN batch \subseteq Server
      /\ results \in Seq(Result) /\ Len(results) \in Nat
    BY LenProperties DEF RoundInv, PhaseOK, TypeOK, FoundOK
<1>2. \A s \in Server : s \in DOMAIN batch <=> Reported(s)
    BY <1>1, AllReported
<1>3. \A i \in 1 .. Len(results) :
          /\ results[i].server \in Server
          /\ results[i].server \in DOMAIN found
          /\ results[i].online = found[results[i].server]
    <2> SUFFICES ASSUME NEW i \in 1 .. Len(results)
                 PROVE  /\ results[i].server \in Server
                        /\ results[i].server \in DOMAIN found
                        /\ results[i].online = found[results[i].server]
        OBVIOUS
    <2>1. results[i] \in Result
        BY <1>1, ElementOfSeq
    <2> QED
        BY <2>1 DEF RoundInv, FoundOK, Result
<1>4. Items = {Item1(s) : s \in DOMAIN batch}
    <2>1. ASSUME NEW x \in Items PROVE \E s \in DOMAIN batch : x = Item1(s)
        <3>1. PICK i \in 1 .. Len(results) :
                  x = [server |-> results[i].server, likes |-> batch[results[i].server],
                       online |-> results[i].online]
            BY <2>1 DEF Items
        <3>2. results[i].server \in DOMAIN batch
            BY <1>2, <1>3 DEF Reported
        <3> QED
            BY <1>3, <3>1, <3>2 DEF Item1
    <2>2. ASSUME NEW s \in DOMAIN batch PROVE Item1(s) \in Items
        <3>1. PICK i \in 1 .. Len(results) : results[i].server = s
            BY <1>1, <1>2 DEF Reported
        <3> QED
            BY <1>3, <3>1 DEF Items, Item1
    <2> QED
        BY <2>1, <2>2
<1>5. Items \subseteq Item
    <2> SUFFICES ASSUME NEW s \in DOMAIN batch PROVE Item1(s) \in Item
        BY <1>4
    <2>1. batch[s] \in 0 .. MaxLikes /\ s \in Server
        BY <1>1 DEF RoundInv, BatchOK
    <2>2. found[s] \in BOOLEAN
        BY <1>2, <1>3, <2>1 DEF Reported, RoundInv, FoundOK
    <2> QED
        BY <2>1, <2>2 DEF Item, Item1
<1>6. IsFiniteSet(DOMAIN batch)
    BY <1>1, PollerAssumption, FS_Subset
<1>7. ExistsBijection(DOMAIN batch, Items)
    <2> DEFINE f == [s \in DOMAIN batch |-> Item1(s)]
    <2>1. f \in [DOMAIN batch -> Items]
        BY <1>4
    <2>2. \A s, r \in DOMAIN batch : f[s] = f[r] => s = r
        BY DEF Item1
    <2>3. \A x \in Items : \E s \in DOMAIN batch : f[s] = x
        BY <1>4
    <2>4. f \in Bijection(DOMAIN batch, Items)
        BY <2>1, <2>2, <2>3 DEF Bijection, Injection, Surjection, IsInjective
    <2> QED
        BY <2>4 DEF ExistsBijection
<1> QED
    BY <1>4, <1>5, <1>6, <1>7, FS_Bijection, FS_CardinalityType

\* A ranking of them is a whole one.
LEMMA RankingIsWhole ==
    ASSUME RoundInv, pc = "rank", NEW b \in Rankings(Items)
    PROVE  b \in Seq(Item) /\ WholeRanking(b)
<1> DEFINE n == Cardinality(Items)
<1>1. /\ Items = {Item1(s) : s \in DOMAIN batch} /\ Items \subseteq Item
      /\ IsFiniteSet(Items) /\ n = Cardinality(DOMAIN batch) /\ n \in Nat
    BY ItemsOfRound
<1>2. /\ b \in [1 .. n -> Items]
      /\ \A i, j \in 1 .. n : i < j => b[i] # b[j] /\ Score(b[i]) >= Score(b[j])
    BY DEF Rankings
<1> HIDE DEF n
<1>3. b \in Seq(Item) /\ Len(b) = n
    BY <1>1, <1>2
<1>4. b \in Surjection(1 .. n, Items)
    <2>1. \A i, j \in 1 .. n : b[i] = b[j] => i = j
        BY <1>1, <1>2
    <2>2. b \in Injection(1 .. n, Items)
        BY <1>2, <2>1 DEF Injection, IsInjective
    <2>3. Cardinality(1 .. n) = n
        BY <1>1, FS_Interval
    <2> QED
        BY <1>1, <2>2, <2>3, FS_Injection DEF n
<1>5. \A i \in 1 .. n : /\ b[i].server \in DOMAIN batch
                       /\ b[i].online = found[b[i].server]
                       /\ b[i].likes = batch[b[i].server]
    <2> SUFFICES ASSUME NEW i \in 1 .. n
                 PROVE  /\ b[i].server \in DOMAIN batch
                        /\ b[i].online = found[b[i].server]
                        /\ b[i].likes = batch[b[i].server]
        OBVIOUS
    <2>1. PICK s \in DOMAIN batch : b[i] = Item1(s)
        BY <1>1, <1>2
    <2> QED
        BY <2>1 DEF Item1
<1>6. {b[i].server : i \in 1 .. n} = DOMAIN batch
    <2>1. ASSUME NEW s \in DOMAIN batch PROVE \E i \in 1 .. n : b[i].server = s
        <3>1. PICK i \in 1 .. n : b[i] = Item1(s)
            BY <1>1, <1>4 DEF Surjection
        <3> QED
            BY <3>1 DEF Item1
    <2>2. ASSUME NEW i \in 1 .. n PROVE b[i].server \in DOMAIN batch
        BY <1>5
    <2> QED
        BY <2>1, <2>2
<1>7. \A i \in 2 .. n : Score(b[i - 1]) >= Score(b[i])
    <2> SUFFICES ASSUME NEW i \in 2 .. n PROVE Score(b[i - 1]) >= Score(b[i])
        OBVIOUS
    <2>1. i - 1 \in 1 .. n /\ i \in 1 .. n /\ i - 1 < i
        BY <1>1
    <2> QED
        BY <1>2, <2>1
<1> QED
    BY <1>1, <1>3, <1>5, <1>6, <1>7 DEF WholeRanking

-----------------------------------------------------------------------------
(* Each step keeps what a round is.                                        *)

LEMMA FetchKeeps ==
    ASSUME RoundInv, Fetch
    PROVE  RoundInv'
<1>1. /\ queue = <<>> /\ results = <<>> /\ todo = {} /\ wg = 0 /\ DOMAIN batch = {}
      /\ \A w \in Worker : ~Busy(w) /\ stage[w] = "none"
      /\ \A s \in DOMAIN found : found[s] \in BOOLEAN
    BY IdleOutside DEF Fetch, RoundInv, PhaseOK, FoundOK
<1>2. UNCHANGED <<poolVars, wg, found, results, stage, ticked, ctxDone, board, life>>
    BY DEF Fetch
<1>3. CASE /\ \E listed \in SUBSET Server \ {{}} :
                 batch' \in [listed -> 0 .. MaxLikes] /\ todo' = listed
           /\ open' = TRUE /\ pc' = "submit" /\ UNCHANGED overdue
    <2>1. /\ batch' \in [DOMAIN batch' -> 0 .. MaxLikes] /\ todo' = DOMAIN batch'
          /\ DOMAIN batch' \subseteq Server
        BY <1>3
    <2>2. TypeOK'
        BY <1>2, <1>3, <2>1 DEF RoundInv, TypeOK, PoolTypeOK, poolVars
    <2>3. BatchOK'
        BY <2>1 DEF BatchOK
    <2>4. \A w \in Worker : ~Busy(w)' /\ stage'[w] = "none"
        BY <1>1, <1>2 DEF Busy, poolVars
    <2>5. Rest'
        BY <1>1, <1>2, <2>1, <2>2, <2>3, <2>4, EmptyRest DEF poolVars
    <2>6. PhaseOK'
        BY <1>2, <1>3 DEF RoundInv, PhaseOK, poolVars, Fetch
    <2> QED
        BY <2>2, <2>5, <2>6 DEF Rest, RoundInv
<1>4. CASE pc' = "select" /\ UNCHANGED <<batch, todo, open>> /\ overdue' = TRUE
    <2>1. Rest'
        BY <1>2, <1>4, FrameKeeps DEF Rest, RoundInv, round, poolVars
    <2>2. TypeOK'
        BY <1>2, <1>4 DEF RoundInv, TypeOK, PoolTypeOK, poolVars
    <2>3. PhaseOK'
        BY <1>2, <1>4 DEF RoundInv, PhaseOK, poolVars, Fetch, BusyWorkers, Busy
    <2> QED
        BY <2>1, <2>2, <2>3 DEF Rest, RoundInv
<1> QED
    BY <1>3, <1>4 DEF Fetch

LEMMA SubmitKeeps ==
    ASSUME RoundInv, NEW s \in Server, Submit(s)
    PROVE  RoundInv'
<1>1. ~cancelled /\ ~closed /\ pc = "submit" /\ open
    BY DEF Submit, RoundInv, PhaseOK
<1>2. /\ Accept(s) /\ UNCHANGED pc /\ s \in todo /\ todo' = todo \ {s} /\ wg' = wg + 1
      /\ UNCHANGED <<batch, found, results, open, stage, ticked, ctxDone, redis>>
    BY <1>1 DEF Submit, Refuse, SendPanics
<1>3. Rest'
    BY <1>2, AcceptRest
<1>4. /\ queue' \in Seq(Server) /\ Len(queue') = Len(queue) + 1 /\ Len(queue) \in Nat
    BY <1>2, Accepted DEF RoundInv, TypeOK
<1>5. Len(queue') <= QueueSize
    BY <1>2, <1>4, PoolAssumption DEF Accept
<1>6. TypeOK'
    BY <1>2, <1>4, <1>5 DEF RoundInv, TypeOK, PoolTypeOK, Accept, redis, Server
<1>7. PhaseOK'
    BY <1>1, <1>2 DEF RoundInv, PhaseOK, Accept
<1> QED
    BY <1>3, <1>6, <1>7 DEF Rest, RoundInv

LEMMA CloseResultsKeeps ==
    ASSUME RoundInv, CloseResults
    PROVE  RoundInv'
<1>1. /\ pc = "submit" /\ todo = {} /\ wg = 0 /\ ~open' /\ pc' = "rank"
      /\ UNCHANGED <<poolVars, batch, todo, wg, found, results, stage, ticked, ctxDone, redis>>
      /\ open' = FALSE
    BY DEF CloseResults
<1>2. queue = <<>> /\ BusyWorkers = {}
    BY <1>1, ZeroIsOver DEF RoundInv
<1>3. BatchOK' /\ PlacesOK' /\ FoundOK' /\ CountOK' /\ StagesOK'
    BY <1>1 DEF RoundInv, BatchOK, PlacesOK, FoundOK, CountOK, StagesOK, Queued, Polled,
                Reported, BusyWorkers, Busy, poolVars
<1>4. TypeOK'
    BY <1>1 DEF RoundInv, TypeOK, PoolTypeOK, poolVars, redis
<1>5. PhaseOK'
    BY <1>1, <1>2 DEF RoundInv, PhaseOK, poolVars, BusyWorkers, Busy
<1> QED
    BY <1>3, <1>4, <1>5 DEF RoundInv

\* A round that is over leaves nothing.
LEMMA EndRoundRest ==
    ASSUME EndRound, queue' = <<>>, TypeOK',
           \A w \in Worker : ~Busy(w)' /\ stage'[w] = "none"
    PROVE  Rest' /\ DOMAIN batch' = {}
<1>1. /\ batch' = <<>> /\ todo' = {} /\ wg' = 0 /\ found' = <<>> /\ results' = <<>>
    BY DEF EndRound
<1>2. DOMAIN batch' = {} /\ DOMAIN found' = {}
    BY <1>1
<1>3. BatchOK'
    BY <1>1, <1>2 DEF BatchOK
<1> QED
    BY <1>1, <1>2, <1>3, EmptyRest

LEMMA PublishKeeps ==
    ASSUME RoundInv, Publish
    PROVE  /\ RoundInv'
           /\ board' # board => board' \in Rankings(Items)
<1>1. /\ pc = "rank" /\ pc' = "select" /\ EndRound
      /\ UNCHANGED <<poolVars, stage, ticked, ctxDone>>
    BY DEF Publish
<1>2. queue = <<>> /\ BusyWorkers = {} /\ ~closed /\ ~cancelled
    BY <1>1 DEF RoundInv, PhaseOK
<1>3. \A w \in Worker : ~Busy(w)' /\ stage'[w] = "none"
    BY <1>1, <1>2 DEF BusyWorkers, Busy, RoundInv, StagesOK, poolVars
<1>4. board' \in Seq(Item) \cup {NoBoard} /\ life' \in 0 .. TTL /\ overdue' \in BOOLEAN
    <2>1. CASE board' \in Rankings(Items) /\ life' = TTL /\ overdue' = FALSE
        <3>1. board' \in Seq(Item)
            BY <1>1, <2>1, RankingIsWhole
        <3>2. life' \in 0 .. TTL
            BY <2>1 DEF TTL
        <3>3. overdue' \in BOOLEAN
            BY <2>1, Zenon
        <3> QED
            BY <3>1, <3>2, <3>3
    <2>2. CASE overdue' = TRUE /\ UNCHANGED <<board, life>>
        BY <2>2 DEF RoundInv, TypeOK
    <2> QED
        BY <2>1, <2>2 DEF Publish
<1>5. TypeOK'
    <2>1. todo' = {} /\ wg' = 0 /\ open' = FALSE /\ DOMAIN batch' = {}
        BY <1>1 DEF EndRound
    <2>2. PoolTypeOK'
        BY <1>1 DEF RoundInv, TypeOK, PoolTypeOK, poolVars
    <2>3. /\ stage' \in [Worker -> {"none", "dial", "send", "done"}]
          /\ ticked' \in BOOLEAN /\ ctxDone' \in BOOLEAN
        BY <1>1 DEF RoundInv, TypeOK
    <2>4. todo' \subseteq Server /\ DOMAIN batch' \subseteq Server /\ wg' \in Int
        BY <2>1
    <2>5. open' \in BOOLEAN
        BY <2>1, Zenon
    <2> QED
        BY <1>1, <1>4, <2>2, <2>3, <2>4, <2>5 DEF TypeOK
<1>6. Rest' /\ DOMAIN batch' = {}
    BY <1>1, <1>2, <1>3, <1>5, EndRoundRest DEF poolVars
<1>7. PhaseOK'
    BY <1>1, <1>2, <1>6 DEF EndRound, PhaseOK, poolVars, BusyWorkers, Busy
<1> QED
    BY <1>5, <1>6, <1>7 DEF Rest, RoundInv, Publish

LEMMA RunTaskKeeps ==
    ASSUME RoundInv, NEW w \in Worker, RunTask(w)
    PROVE  RoundInv'
<1>1. ASSUME Busy(w) PROVE pc = "submit" /\ open
    BY <1>1 DEF RoundInv, PhaseOK, BusyWorkers
<1>2. /\ stage \in [Worker -> {"none", "dial", "send", "done"}]
      /\ worker \in [Worker -> Server \cup {"ready", "gone"}]
    BY DEF RoundInv, TypeOK, PoolTypeOK, Server
<1>3. CASE StartTask(w)
    <2>1. /\ Take(w) /\ stage' = [stage EXCEPT ![w] = "dial"]
          /\ UNCHANGED <<pc, round, ticked, ctxDone, redis>>
        BY <1>3 DEF StartTask
    <2>2. Rest'
        BY <2>1, TakeRest DEF round
    <2>3. /\ queue' \in Seq(Server) /\ Len(queue) \in Nat \ {0}
          /\ Len(queue') = Len(queue) - 1
          /\ worker' = [worker EXCEPT ![w] = queue[1]] /\ queue[1] \in Server
        BY <2>1, Taken DEF RoundInv, TypeOK
    <2>4. Len(queue') <= QueueSize
        BY <2>3, PoolAssumption DEF RoundInv, TypeOK, PoolTypeOK
    <2>5. TypeOK'
        BY <1>2, <2>1, <2>3, <2>4
           DEF RoundInv, TypeOK, PoolTypeOK, Take, round, redis, Server
    <2>6. pc = "submit"
        BY <2>1 DEF Take, RoundInv, PhaseOK
    <2>7. PhaseOK'
        BY <2>1, <2>6 DEF RoundInv, PhaseOK, Take, round
    <2> QED
        BY <2>2, <2>5, <2>7 DEF Rest, RoundInv
<1>4. CASE Dial(w)
    <2>1. Rest'
        BY <1>4, DialRest
    <2>2. TypeOK'
        BY <1>2, <1>4 DEF Dial, RoundInv, TypeOK, PoolTypeOK, poolVars, redis
    <2>3. PhaseOK'
        BY <1>4 DEF Dial, RoundInv, PhaseOK, poolVars, BusyWorkers, Busy
    <2> QED
        BY <2>1, <2>2, <2>3 DEF Rest, RoundInv
<1>5. CASE Send(w)
    <2>1. Busy(w)
        BY <1>5 DEF Send, RoundInv, StagesOK
    <2>2. open /\ pc = "submit" /\ UNCHANGED pc
        BY <1>1, <1>5, <2>1 DEF Send
    <2>3. Rest'
        BY <1>5, <2>2, SendRest
    <2>4. TypeOK'
        BY <1>2, <1>5, <2>2 DEF Send, RoundInv, TypeOK, PoolTypeOK, poolVars, redis
    <2>5. PhaseOK'
        BY <1>5, <2>2 DEF Send, RoundInv, PhaseOK, poolVars
    <2> QED
        BY <2>3, <2>4, <2>5 DEF Rest, RoundInv
<1>6. CASE EndTask(w)
    <2>1. Rest' /\ wg # 0
        BY <1>6, EndTaskRest
    <2>2. Busy(w) /\ pc = "submit" /\ UNCHANGED pc
        BY <1>1, <1>6, <2>1 DEF EndTask, Return
    <2>3. TypeOK'
        BY <1>2, <1>6, <2>2
           DEF EndTask, Return, RoundInv, TypeOK, PoolTypeOK, redis, Server
    <2>4. PhaseOK'
        BY <1>6, <2>2 DEF EndTask, Return, RoundInv, PhaseOK
    <2> QED
        BY <2>1, <2>3, <2>4 DEF Rest, RoundInv
<1>7. CASE EndWorker(w)
    <2>1. /\ worker[w] = "ready" /\ worker' = [worker EXCEPT ![w] = "gone"]
          /\ cancelled \/ closed
          /\ UNCHANGED <<queue, cancelled, closed, pc, round, stage, ticked, ctxDone, redis>>
        BY <1>7 DEF EndWorker, Quit
    <2>2. \A v \in Worker : Busy(v)' <=> Busy(v)
        BY <1>2, <2>1, PoolAssumption DEF Busy, Server
    <2>3. BusyWorkers' = BusyWorkers /\ StagesOK'
        BY <2>1, <2>2 DEF BusyWorkers, RoundInv, StagesOK
    <2>4. \A s \in Server : Polled(s)' <=> Polled(s)
        BY <1>2, <2>1, PoolAssumption DEF Polled, Server
    <2>5. \A v \in Worker : Busy(v) => worker'[v] = worker[v]
        BY <1>2, <2>1, PoolAssumption DEF Busy, Server
    <2>6. PlacesOK'
        <3>1. ASSUME NEW u \in Worker, NEW v \in Worker, Busy(u)', worker'[u] = worker'[v]
              PROVE  u = v
            <4>1. Busy(v)'
                BY <3>1 DEF Busy
            <4> QED
                BY <2>2, <2>5, <3>1, <4>1 DEF RoundInv, PlacesOK
        <3>2. ASSUME NEW v \in Worker, Busy(v)'
              PROVE  stage'[v] = "done" <=> Reported(worker[v])'
            BY <2>1, <2>2, <2>5, <3>2 DEF RoundInv, PlacesOK, Reported, round
        <3>3. \A s \in Server : Queued(s)' = Queued(s) /\ Reported(s)' = Reported(s)
            BY <2>1 DEF Queued, Reported, round
        <3> QED
            BY <2>1, <2>4, <3>1, <3>2, <3>3 DEF RoundInv, PlacesOK, round
    <2>7. FoundOK'
        <3>1. \A v \in Worker : stage[v] \in {"send", "done"} => worker'[v] = worker[v]
            BY <2>5 DEF RoundInv, StagesOK
        <3> QED
            BY <2>1, <3>1 DEF RoundInv, FoundOK, round
    <2>8. TypeOK'
        BY <1>2, <2>1 DEF RoundInv, TypeOK, PoolTypeOK, round, redis, Server
    <2>9. PhaseOK' /\ CountOK' /\ BatchOK'
        BY <2>1, <2>3 DEF RoundInv, PhaseOK, CountOK, BatchOK, round
    <2> QED
        BY <2>3, <2>6, <2>7, <2>8, <2>9 DEF RoundInv
<1> QED
    BY <1>3, <1>4, <1>5, <1>6, <1>7 DEF RunTask

LEMMA StopPoolKeeps ==
    ASSUME RoundInv, StopPool
    PROVE  RoundInv'
<1>1. /\ UNCHANGED <<queue, worker, round, stage, ticked, ctxDone, redis>>
      /\ \/ pc = "cancel" /\ cancelled' = TRUE /\ UNCHANGED closed /\ pc' = "close"
         \/ pc = "close" /\ closed' = TRUE /\ UNCHANGED cancelled /\ pc' = "join"
         \/ pc = "join" /\ UNCHANGED <<cancelled, closed>> /\ pc' = "returned"
    BY DEF StopPool, Cancel, Close, poolVars
<1>2. Rest'
    BY <1>1, FrameKeeps DEF Rest, RoundInv
<1>3. cancelled' \in BOOLEAN /\ closed' \in BOOLEAN
    <2>1. cancelled \in BOOLEAN /\ closed \in BOOLEAN
        BY DEF RoundInv, TypeOK, PoolTypeOK
    <2> QED
        BY <1>1, <2>1, Zenon
<1>4. TypeOK'
    BY <1>1, <1>3 DEF RoundInv, TypeOK, PoolTypeOK, round, redis
<1>5. PhaseOK'
    BY <1>1 DEF RoundInv, PhaseOK, round, BusyWorkers, Busy
<1> QED
    BY <1>2, <1>4, <1>5 DEF Rest, RoundInv

\* Time, signals and the select leave the pool and the round alone.
LEMMA SurroundingsKeep ==
    ASSUME RoundInv, NextRound \/ SeeDone \/ Tick \/ Expire \/ Terminate
    PROVE  RoundInv'
<1>1. UNCHANGED <<poolVars, round, stage>>
    BY DEF NextRound, SeeDone, Tick, Expire, Terminate
<1>2. Rest'
    BY <1>1, FrameKeeps DEF Rest, RoundInv, poolVars
<1>3. PoolTypeOK' /\ todo' \subseteq Server /\ DOMAIN batch' \subseteq Server /\ wg' \in Int
      /\ stage' \in [Worker -> {"none", "dial", "send", "done"}] /\ open' \in BOOLEAN
    BY <1>1 DEF RoundInv, TypeOK, PoolTypeOK, poolVars, round
<1>4. ticked' \in BOOLEAN /\ ctxDone' \in BOOLEAN /\ overdue' \in BOOLEAN
    <2>1. ticked \in BOOLEAN /\ ctxDone \in BOOLEAN /\ overdue \in BOOLEAN
        BY DEF RoundInv, TypeOK
    <2>2. ticked' \in {ticked, TRUE, FALSE} /\ ctxDone' \in {ctxDone, TRUE}
        BY DEF NextRound, SeeDone, Tick, Expire, Terminate, redis
    <2>3. overdue' \in BOOLEAN
        BY <2>1 DEF NextRound, SeeDone, Tick, Expire, Terminate, redis
    <2> QED
        BY <2>1, <2>2, <2>3, Zenon
<1>5. board' \in Seq(Item) \cup {NoBoard} /\ life' \in 0 .. TTL
    BY DEF RoundInv, TypeOK, TTL, NextRound, SeeDone, Tick, Expire, Terminate, redis
<1>6. /\ pc' = pc \/ (pc = "select" /\ pc' \in {"fetch", "cancel"})
    BY DEF NextRound, SeeDone, Tick, Expire, Terminate
<1>7. TypeOK'
    BY <1>3, <1>4, <1>5, <1>6 DEF RoundInv, TypeOK
<1>8. PhaseOK'
    BY <1>1, <1>6 DEF RoundInv, PhaseOK, poolVars, round, BusyWorkers, Busy
<1> QED
    BY <1>2, <1>7, <1>8 DEF Rest, RoundInv

LEMMA RestartKeeps ==
    ASSUME RoundInv, Restart
    PROVE  RoundInv'
<1>1. /\ queue' = <<>> /\ cancelled' = FALSE /\ closed' = FALSE
      /\ worker' = [w \in Worker |-> "ready"] /\ stage' = [w \in Worker |-> "none"]
      /\ EndRound /\ pc' = "fetch" /\ ticked' = FALSE /\ ctxDone' = FALSE
      /\ overdue' = TRUE /\ UNCHANGED <<board, life>>
    BY DEF Restart
<1>2. \A w \in Worker : ~Busy(w)' /\ stage'[w] = "none"
    BY <1>1, PoolAssumption DEF Busy
<1>3. PoolTypeOK'
    <2>1. cancelled' \in BOOLEAN /\ closed' \in BOOLEAN
        BY <1>1, Zenon
    <2>2. queue' \in Seq(Task) /\ Len(queue') <= QueueSize
        BY <1>1, EmptySeq, PoolAssumption
    <2>3. worker' \in [Worker -> Task \cup {"ready", "gone"}]
        BY <1>1
    <2> QED
        BY <2>1, <2>2, <2>3 DEF PoolTypeOK
<1>4. /\ todo' = {} /\ wg' = 0 /\ DOMAIN batch' = {} /\ results' = <<>> /\ open' = FALSE
    BY <1>1 DEF EndRound
<1>5. open' \in BOOLEAN /\ ticked' \in BOOLEAN /\ ctxDone' \in BOOLEAN /\ overdue' \in BOOLEAN
    BY <1>1, <1>4, Zenon
<1>6. TypeOK'
    BY <1>1, <1>3, <1>4, <1>5 DEF RoundInv, TypeOK
<1>7. Rest'
    BY <1>1, <1>2, <1>6, EndRoundRest
<1>8. PhaseOK'
    BY <1>1, <1>2, <1>4 DEF PhaseOK, BusyWorkers
<1> QED
    BY <1>6, <1>7, <1>8 DEF Rest, RoundInv

LEMMA RoundInit == Init => RoundInv
<1> SUFFICES ASSUME Init PROVE RoundInv
    OBVIOUS
<1>1. /\ queue = <<>> /\ cancelled = FALSE /\ closed = FALSE
      /\ worker = [w \in Worker |-> "ready"] /\ stage = [w \in Worker |-> "none"]
      /\ batch = <<>> /\ found = <<>> /\ results = <<>> /\ todo = {} /\ wg = 0
      /\ open = FALSE /\ pc = "fetch" /\ ticked = FALSE /\ ctxDone = FALSE
      /\ board = NoBoard /\ life = 0 /\ overdue = TRUE
    BY DEF Init, NewWorkerPool
<1>2. Len(queue) = 0 /\ Len(results) = 0 /\ results \in Seq(Result) /\ queue \in Seq(Task)
      /\ DOMAIN batch = {} /\ DOMAIN found = {}
    BY <1>1
<1>3. \A w \in Worker : ~Busy(w) /\ stage[w] = "none"
    BY <1>1, PoolAssumption DEF Busy
<1>4. BusyWorkers = {} /\ Cardinality(BusyWorkers) = 0
    BY <1>3, FS_EmptySet DEF BusyWorkers
<1>5. \A s \in Server : ~Queued(s) /\ ~Reported(s) /\ ~Polled(s)
    BY <1>2, <1>3 DEF Queued, Reported, Polled, Busy, Server
<1>6. PoolTypeOK
    <2>1. cancelled \in BOOLEAN /\ closed \in BOOLEAN
        BY <1>1, Zenon
    <2>2. worker \in [Worker -> Task \cup {"ready", "gone"}] /\ Len(queue) <= QueueSize
        BY <1>1, <1>2, PoolAssumption
    <2> QED
        BY <1>2, <2>1, <2>2 DEF PoolTypeOK
<1>7. open \in BOOLEAN /\ ticked \in BOOLEAN /\ ctxDone \in BOOLEAN /\ overdue \in BOOLEAN
    BY <1>1, Zenon
<1>8. TypeOK
    BY <1>1, <1>2, <1>6, <1>7 DEF TypeOK, TTL
<1>9. BatchOK
    BY <1>1, <1>2 DEF BatchOK
<1>10. PlacesOK
    BY <1>1, <1>2, <1>3, <1>5 DEF PlacesOK
<1>11. FoundOK /\ CountOK /\ StagesOK
    BY <1>1, <1>2, <1>3, <1>4 DEF FoundOK, CountOK, StagesOK
<1>12. PhaseOK
    BY <1>1, <1>2, <1>4 DEF PhaseOK
<1> QED
    BY <1>8, <1>9, <1>10, <1>11, <1>12 DEF RoundInv

LEMMA RoundStep ==
    ASSUME RoundInv, [Next]_vars
    PROVE  RoundInv'
<1>1. CASE Start
    <2>1. ASSUME NEW s \in Server, Submit(s) PROVE RoundInv'
        BY <2>1, SubmitKeeps
    <2> QED
        BY <1>1, <2>1, FetchKeeps, CloseResultsKeeps, PublishKeeps, StopPoolKeeps DEF Start
<1>2. CASE NextRound \/ SeeDone \/ Tick \/ Expire \/ Terminate
    BY <1>2, SurroundingsKeep
<1>3. ASSUME NEW w \in Worker, RunTask(w) PROVE RoundInv'
    BY <1>3, RunTaskKeeps
<1>4. CASE Restart
    BY <1>4, RestartKeeps
<1>5. CASE UNCHANGED vars
    <2>1. Rest'
        BY <1>5, FrameKeeps DEF Rest, RoundInv, vars, poolVars
    <2>2. TypeOK'
        BY <1>5 DEF RoundInv, TypeOK, PoolTypeOK, vars, poolVars, round, redis
    <2>3. PhaseOK'
        BY <1>5 DEF RoundInv, PhaseOK, vars, poolVars, round, BusyWorkers, Busy
    <2> QED
        BY <2>1, <2>2, <2>3 DEF Rest, RoundInv
<1> QED
    BY <1>1, <1>2, <1>3, <1>4, <1>5 DEF Next

\* No ranking is the absence of one.
LEMMA LifeStep ==
    ASSUME RoundInv, LifeInv, [Next]_vars
    PROVE  LifeInv'
<1>1. life \in 0 .. 2
    BY DEF RoundInv, TypeOK, TTL
<1>2. CASE Fetch
    BY <1>2 DEF Fetch, LifeInv
<1>3. ASSUME NEW s \in Server, Submit(s) PROVE LifeInv'
    BY <1>3 DEF Submit, LifeInv, redis
<1>4. CASE CloseResults
    BY <1>4 DEF CloseResults, LifeInv, redis
<1>5. CASE Publish
    <2>1. pc = "rank"
        BY <1>5 DEF Publish
    <2>2. CASE board' \in Rankings(Items) /\ life' = TTL
        <3>1. board' \in Seq(Item)
            BY <2>1, <2>2, RankingIsWhole
        <3> QED
            BY <2>2, <3>1, PollerAssumption DEF LifeInv, TTL
    <2>3. CASE overdue'
        BY <2>3 DEF LifeInv
    <2> QED
        BY <1>5, <2>2, <2>3 DEF Publish
<1>6. CASE StopPool
    BY <1>6 DEF StopPool, LifeInv, redis
<1>7. CASE NextRound \/ SeeDone
    BY <1>7 DEF NextRound, SeeDone, LifeInv, redis
<1>8. ASSUME NEW w \in Worker, RunTask(w) PROVE LifeInv'
    <2>1. pc' = pc \/ pc' = "panic"
        BY <1>8 DEF RunTask, StartTask, Dial, Send, EndTask, EndWorker
    <2>2. UNCHANGED redis /\ UNCHANGED ticked
        BY <1>8 DEF RunTask, StartTask, Dial, Send, EndTask, EndWorker
    <2> QED
        BY <2>1, <2>2 DEF LifeInv, redis
<1>9. CASE Tick
    <2>1. /\ ~overdue' => ~overdue /\ ~ticked /\ pc = "select"
          /\ ticked' /\ board' = board
          /\ life' = IF board = NoBoard THEN life ELSE life - 1
        BY <1>9 DEF Tick
    <2>2. ~overdue' => board # NoBoard /\ life = 2
        BY <2>1 DEF LifeInv, TTL
    <2> QED
        BY <2>1, <2>2 DEF LifeInv
<1>10. CASE Expire
    BY <1>1, <1>10 DEF Expire, LifeInv
<1>11. CASE Terminate \/ Restart
    BY <1>11 DEF Terminate, Restart, LifeInv
<1>12. CASE UNCHANGED vars
    BY <1>12 DEF vars, redis, LifeInv
<1> QED
    BY <1>2, <1>3, <1>4, <1>5, <1>6, <1>7, <1>8, <1>9, <1>10, <1>11, <1>12 DEF Next, Start

\* Nothing but Publish puts a ranking into Redis.
LEMMA BoardStep ==
    ASSUME RoundInv, [Next]_vars, board' \notin {board, NoBoard}
    PROVE  WholeRanking(board')
<1>1. Publish
    BY DEF Next, Start, RunTask, Fetch, Submit, CloseResults, StopPool, NextRound, SeeDone,
           StartTask, Dial, Send, EndTask, EndWorker, Tick, Expire, Terminate, Restart,
           vars, redis
<1>2. pc = "rank" /\ board' \in Rankings(Items)
    BY <1>1, PublishKeeps DEF Publish
<1> QED
    BY <1>2, RankingIsWhole

-----------------------------------------------------------------------------
(* What holds of every run.                                                *)

\* Rounds, the pool under them and the life of a ranking keep their invariants.
THEOREM RoundInvariant == Spec => [](RoundInv /\ LifeInv)
<1>1. Init => RoundInv /\ LifeInv
    BY RoundInit DEF Init, LifeInv
<1>2. RoundInv /\ LifeInv /\ [Next]_vars => (RoundInv /\ LifeInv)'
    BY RoundStep, LifeStep
<1> QED
    BY <1>1, <1>2, PTL DEF Spec

\* The state of the poller and of its pool has its type.
THEOREM TypeCorrect == Spec => []TypeOK
<1>1. RoundInv => TypeOK
    BY DEF RoundInv
<1> QED
    BY <1>1, RoundInvariant, PTL

\* No task sends on the closed channel of results, Submit never meets a
\* closed pool and wg.Done never finds the WaitGroup at zero.
THEOREM NoRoundPanics == Spec => []NoPanic
<1>1. RoundInv => NoPanic
    BY DEF RoundInv, PhaseOK, NoPanic
<1> QED
    BY <1>1, RoundInvariant, PTL

\* wg.Wait keeps the tasks of a round inside it.
THEOREM RoundsApart == Spec => []RoundsDontOverlap
<1>1. RoundInv => RoundsDontOverlap
    BY DEF RoundInv, PhaseOK, RoundsDontOverlap, BusyWorkers
<1> QED
    BY <1>1, RoundInvariant, PTL

\* Twice the interval keeps a ranking in Redis from one round in time to the
\* next.
THEOREM BoardLives == Spec => []BoardOutlivesInterval
<1>1. LifeInv => BoardOutlivesInterval
    BY DEF LifeInv, BoardOutlivesInterval
<1> QED
    BY <1>1, RoundInvariant, PTL

\* Every ranking that reaches Redis is that of a whole round.
THEOREM WholeBoards == Spec => BoardIsWholeRound
<1>1. RoundInv /\ [Next]_vars =>
          [board' \notin {board, NoBoard} => WholeRanking(board')]_vars
    BY BoardStep
<1> QED
    BY <1>1, RoundInvariant, PTL DEF Spec, BoardIsWholeRound
=============================================================================

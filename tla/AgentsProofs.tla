----------------------------- MODULE AgentsProofs -----------------------------
(***************************************************************************)
(* What holds of Agents for all agents, servers and tokens, whatever is    *)
(* lost, removed and restarted: reports reach their own server and stay    *)
(* with it, and the page that shows them does not go back.                 *)
(***************************************************************************)
EXTENDS Agents, FiniteSetTheorems, SequenceTheorems, WellFoundedInduction, TLAPS

Steps == {"off", "lookup", "grant", "on", "save"}

Granting == {a \in Agent : pc[a] = "grant"}

StateOK ==
    /\ exists \subseteq Server
    /\ metrics \in [Server -> Seq(Metric)]
    /\ sessions \in [DOMAIN sessions -> Server] /\ DOMAIN sessions \subseteq 1 .. ids
    /\ pc \in [Agent -> Steps] /\ session \in [Agent -> Nat]
    /\ stamp \in [Agent -> 0 .. now] /\ polling \in [Server -> 0 .. now]
    /\ ids \in Nat /\ now \in 0 .. MaxTime
    /\ acked \subseteq (Server \X Metric) /\ restarts \in 0 .. Restarts

\* There is an id for whoever is about to get one.
IdsSuffice == ids + Cardinality(Granting) <= MaxIds

\* An id is of one registration: what an agent holds is its own session or
\* none, and what it was told is not active is not given any more.
SessionsOwned ==
    /\ \A a \in Agent :
          /\ session[a] <= ids
          /\ session[a] \in DOMAIN sessions => sessions[session[a]] = ServerOf[a]
          /\ pc[a] = "save" => session[a] \in DOMAIN sessions /\ stamp[a] > 0
    /\ inactive \subseteq 0 .. ids /\ inactive \cap DOMAIN sessions = {}

AgentsInv == StateOK /\ SessionsOwned

-----------------------------------------------------------------------------
(* Rows of metrics.                                                        *)

LEMMA RowAppended ==
    ASSUME metrics \in [Server -> Seq(Metric)], NEW s \in Server, NEW row \in Metric,
           metrics' = [metrics EXCEPT ![s] = Append(metrics[s], row)]
    PROVE  /\ metrics' \in [Server -> Seq(Metric)]
           /\ Rows(s)' = Rows(s) \cup {row} /\ metrics'[s] # <<>>
           /\ \A t \in Server \ {s} : metrics'[t] = metrics[t]
<1> DEFINE old == metrics[s]
           new == Append(old, row)
<1>1. old \in Seq(Metric)
    OBVIOUS
<1>2. metrics'[s] = new
    OBVIOUS
<1> HIDE DEF old, new
<1>3. /\ new \in Seq(Metric) /\ new # <<>> /\ Len(new) = Len(old) + 1 /\ Len(old) \in Nat
      /\ \A i \in 1 .. Len(old) : new[i] = old[i]
      /\ new[Len(old) + 1] = row
    BY <1>1, AppendProperties, LenProperties DEF new
<1>4. DOMAIN old = 1 .. Len(old) /\ DOMAIN new = 1 .. (Len(old) + 1)
    BY <1>1, <1>3, LenProperties
<1>5. {new[i] : i \in DOMAIN new} = {old[i] : i \in DOMAIN old} \cup {row}
    <2>1. ASSUME NEW i \in DOMAIN new PROVE i \in DOMAIN old \/ new[i] = row
        BY <1>3, <1>4
    <2>2. DOMAIN old \subseteq DOMAIN new /\ Len(old) + 1 \in DOMAIN new
        BY <1>3, <1>4
    <2> QED
        BY <1>3, <1>4, <2>1, <2>2
<1>6. Rows(s)' = {new[i] : i \in DOMAIN new} /\ Rows(s) = {old[i] : i \in DOMAIN old}
    BY <1>2 DEF Rows, old
<1>7. metrics' \in [Server -> Seq(Metric)]
    BY <1>3 DEF new, old
<1> QED
    BY <1>2, <1>3, <1>5, <1>6, <1>7

\* A step inserts a row of the server it is about, empties the table of a
\* server it removes, or leaves the tables alone.
Inserts(s, row) ==
    /\ s \in exists /\ exists' = exists
    /\ metrics' = [metrics EXCEPT ![s] = Append(metrics[s], row)]
    /\ row.by # "poller" => ServerOf[row.by] = s
    /\ acked' \in {acked, acked \cup {<<s, row>>}}
Removes(s) ==
    exists' = exists \ {s} /\ metrics' = [metrics EXCEPT ![s] = <<>>] /\ acked' = acked

LEMMA RowOfReport ==
    ASSUME AgentsInv, NEW a \in Agent, pc[a] = "save"
    PROVE  [at |-> stamp[a], by |-> a] \in Metric
<1>1. stamp[a] \in 1 .. MaxTime
    <2>1. stamp[a] \in 0 .. now /\ now \in 0 .. MaxTime /\ stamp[a] > 0
        BY DEF AgentsInv, StateOK, SessionsOwned
    <2> QED
        BY <2>1, AgentsAssumption
<1> QED
    BY <1>1 DEF Metric

LEMMA RowOfPoll ==
    ASSUME AgentsInv, NEW s \in Server, polling[s] # 0
    PROVE  [at |-> polling[s], by |-> "poller"] \in Metric
<1>1. polling[s] \in 1 .. MaxTime
    <2>1. polling[s] \in 0 .. now /\ now \in 0 .. MaxTime
        BY DEF AgentsInv, StateOK
    <2> QED
        BY <2>1, AgentsAssumption
<1> QED
    BY <1>1 DEF Metric

LEMMA TablesChange ==
    ASSUME AgentsInv, [Next]_vars
    PROVE  \/ UNCHANGED <<exists, metrics, acked>>
           \/ \E s \in Server, row \in Metric : Inserts(s, row)
           \/ \E s \in Server : Removes(s)
<1>1. StateOK /\ SessionsOwned
    BY DEF AgentsInv
<1>2. ASSUME NEW a \in Agent, Connect(a) \/ Close(a) \/ Report(a) \/ Ping(a)
      PROVE  UNCHANGED <<exists, metrics, acked>>
    BY <1>2 DEF Connect, Close, Report, Ping, tables, history
<1>3. ASSUME NEW a \in Agent, Lookup(a) \/ Grant(a)
      PROVE  UNCHANGED <<exists, metrics, acked>>
    BY <1>3 DEF Lookup, Grant, tables, history
<1>4. ASSUME NEW a \in Agent, SaveReport(a)
      PROVE  \/ UNCHANGED <<exists, metrics, acked>>
             \/ \E s \in Server, row \in Metric : Inserts(s, row)
    <2> DEFINE row == [at |-> stamp[a], by |-> a]
               s == sessions[session[a]]
    <2>1. s = ServerOf[a] /\ s \in Server
        BY <1>1, <1>4, AgentsAssumption DEF SaveReport, SessionsOwned
    <2>2. row \in Metric /\ row.by = a
        BY <1>4, RowOfReport DEF SaveReport
    <2>3. exists' = exists
        BY <1>4 DEF SaveReport
    <2>4. CASE SaveMetric(s, row) /\ acked' \in {acked, acked \cup {<<s, row>>}}
        <3>1. Inserts(s, row)
            BY <2>1, <2>2, <2>3, <2>4 DEF SaveMetric, Inserts
        <3> QED
            BY <2>1, <2>2, <3>1
    <2>5. CASE UNCHANGED <<metrics, acked>>
        BY <2>3, <2>5
    <2> QED
        BY <1>4, <2>4, <2>5 DEF SaveReport
<1>5. ASSUME NEW s \in Server, Poll(s)
      PROVE  UNCHANGED <<exists, metrics, acked>>
    BY <1>5 DEF Poll, tables, history
<1>6. ASSUME NEW s \in Server, SavePoll(s)
      PROVE  \/ UNCHANGED <<exists, metrics, acked>>
             \/ \E row \in Metric : Inserts(s, row)
    <2> DEFINE row == [at |-> polling[s], by |-> "poller"]
    <2>1. row \in Metric /\ row.by = "poller"
        BY <1>6, RowOfPoll DEF SavePoll
    <2>2. exists' = exists /\ acked' = acked /\ (SaveMetric(s, row) \/ UNCHANGED metrics)
        BY <1>6 DEF SavePoll, history
    <2>3. SaveMetric(s, row) => Inserts(s, row)
        BY <2>1, <2>2 DEF SaveMetric, Inserts
    <2> QED
        BY <2>1, <2>2, <2>3
<1>7. ASSUME NEW s \in Server, DeleteServer(s) PROVE Removes(s)
    BY <1>7 DEF DeleteServer, Removes, history
<1>8. CASE Restart \/ UNCHANGED vars
    BY <1>8 DEF Restart, vars, tables
<1> QED
    BY <1>2, <1>3, <1>4, <1>5, <1>6, <1>7, <1>8 DEF Next, Handle

LEMMA TablesKeep ==
    ASSUME AgentsInv, [Next]_vars
    PROVE  /\ exists' \subseteq Server /\ metrics' \in [Server -> Seq(Metric)]
           /\ acked' \subseteq (Server \X Metric)
<1>1. StateOK
    BY DEF AgentsInv
<1>2. CASE UNCHANGED <<exists, metrics, acked>>
    BY <1>1, <1>2 DEF StateOK
<1>3. ASSUME NEW s \in Server, NEW row \in Metric, Inserts(s, row)
      PROVE  /\ exists' \subseteq Server /\ metrics' \in [Server -> Seq(Metric)]
             /\ acked' \subseteq (Server \X Metric)
    <2>1. metrics' \in [Server -> Seq(Metric)]
        BY <1>1, <1>3, RowAppended DEF StateOK, Inserts
    <2> QED
        BY <1>1, <1>3, <2>1 DEF StateOK, Inserts
<1>4. ASSUME NEW s \in Server, Removes(s)
      PROVE  /\ exists' \subseteq Server /\ metrics' \in [Server -> Seq(Metric)]
             /\ acked' \subseteq (Server \X Metric)
    <2>1. <<>> \in Seq(Metric)
        BY EmptySeq
    <2> QED
        BY <1>1, <1>4, <2>1 DEF StateOK, Removes
<1> QED
    BY <1>2, <1>3, <1>4, TablesChange

-----------------------------------------------------------------------------
(* Sessions.                                                               *)

\* Whatever moves a call on and gives no session.
LEMMA CallsKeep ==
    ASSUME AgentsInv, [Next]_vars, UNCHANGED <<sessions, ids>>,
           pc' \in [Agent -> Steps], now' \in 0 .. MaxTime, now <= now', restarts' = restarts,
           stamp' \in [Agent -> 0 .. now'], polling' \in [Server -> 0 .. now'],
           session' \in [Agent -> Nat], inactive' \subseteq 0 .. ids,
           inactive' \cap DOMAIN sessions = {},
           \A a \in Agent :
              /\ session'[a] \in {0, session[a]}
              /\ pc'[a] = "save" =>
                    session'[a] \in DOMAIN sessions /\ stamp'[a] > 0
    PROVE  AgentsInv'
<1>1. StateOK /\ SessionsOwned
    BY DEF AgentsInv
<1>2. StateOK'
    BY <1>1, TablesKeep DEF StateOK
<1>3. SessionsOwned'
    <2> SUFFICES ASSUME NEW a \in Agent
                 PROVE  /\ session'[a] <= ids
                        /\ session'[a] \in DOMAIN sessions =>
                              sessions[session'[a]] = ServerOf[a]
                        /\ pc'[a] = "save" => session'[a] \in DOMAIN sessions /\ stamp'[a] > 0
        BY DEF SessionsOwned
    <2>1. session[a] <= ids /\ ids \in Nat /\ 0 \notin DOMAIN sessions
        BY <1>1 DEF SessionsOwned, StateOK
    <2> QED
        BY <1>1, <2>1 DEF SessionsOwned
<1> QED
    BY <1>2, <1>3 DEF AgentsInv

LEMMA MoveKeeps ==
    ASSUME AgentsInv, [Next]_vars, NEW a \in Agent, NEW step \in Steps \ {"save"},
           pc' = [pc EXCEPT ![a] = step],
           UNCHANGED <<sessions, ids, session, stamp, polling, now, inactive, restarts>>
    PROVE  AgentsInv'
<1>1. StateOK /\ SessionsOwned
    BY DEF AgentsInv
<1>2. /\ pc' \in [Agent -> Steps] /\ now' \in 0 .. MaxTime /\ now <= now'
      /\ stamp' \in [Agent -> 0 .. now'] /\ polling' \in [Server -> 0 .. now']
      /\ session' \in [Agent -> Nat] /\ inactive' \subseteq 0 .. ids
      /\ inactive' \cap DOMAIN sessions = {} /\ restarts' = restarts
    BY <1>1, AgentsAssumption DEF StateOK, SessionsOwned
<1>3. ASSUME NEW b \in Agent
      PROVE  /\ session'[b] \in {0, session[b]}
             /\ pc'[b] = "save" => session'[b] \in DOMAIN sessions /\ stamp'[b] > 0
    BY <1>1, <1>3 DEF StateOK, SessionsOwned
<1> QED
    BY <1>2, <1>3, CallsKeep

LEMMA CloseKeeps ==
    ASSUME AgentsInv, [Next]_vars, NEW a \in Agent, Close(a)
    PROVE  AgentsInv'
<1>1. StateOK /\ SessionsOwned
    BY DEF AgentsInv
<1>2. /\ UNCHANGED <<sessions, ids, stamp, polling, now, inactive, restarts>>
      /\ pc' = [pc EXCEPT ![a] = "off"] /\ session' = [session EXCEPT ![a] = 0]
    BY DEF Close, Goto, memory, poller, history
<1>3. /\ pc' \in [Agent -> Steps] /\ now' \in 0 .. MaxTime /\ now <= now'
      /\ stamp' \in [Agent -> 0 .. now'] /\ polling' \in [Server -> 0 .. now']
      /\ session' \in [Agent -> Nat] /\ inactive' \subseteq 0 .. ids
      /\ inactive' \cap DOMAIN sessions = {} /\ restarts' = restarts
    BY <1>1, <1>2, AgentsAssumption DEF StateOK, SessionsOwned, Steps
<1>4. ASSUME NEW b \in Agent
      PROVE  /\ session'[b] \in {0, session[b]}
             /\ pc'[b] = "save" => session'[b] \in DOMAIN sessions /\ stamp'[b] > 0
    BY <1>1, <1>2, <1>4 DEF StateOK, SessionsOwned
<1> QED
    BY <1>2, <1>3, <1>4, CallsKeep

\* A new id is nobody else's, and nobody was told that it is not active.
LEMMA GrantKeeps ==
    ASSUME AgentsInv, [Next]_vars, NEW a \in Agent, Grant(a)
    PROVE  AgentsInv'
<1> DEFINE id == ids + 1
<1>1. StateOK /\ SessionsOwned /\ ids \in Nat
    BY DEF AgentsInv, StateOK
<1>2. /\ ids' = id
      /\ sessions' = [i \in DOMAIN sessions \cup {id} |->
                         IF i = id THEN ServerOf[a] ELSE sessions[i]]
      /\ UNCHANGED <<stamp, polling, now, inactive, restarts>>
    BY DEF Grant, poller, history
<1>3. \/ pc' = [pc EXCEPT ![a] = "on"] /\ session' = [session EXCEPT ![a] = id]
      \/ pc' = [pc EXCEPT ![a] = "off"] /\ session' = session
    BY DEF Grant, Goto
<1>4. /\ id \in 1 .. ids' /\ 1 .. ids \subseteq 1 .. ids' /\ 0 .. ids \subseteq 0 .. ids'
      /\ id \notin 0 .. ids /\ id \in Nat /\ ids' \in Nat /\ ids <= ids'
    BY <1>1, <1>2
<1> HIDE DEF id
<1>5. /\ DOMAIN sessions' = DOMAIN sessions \cup {id} /\ sessions'[id] = ServerOf[a]
      /\ id \notin DOMAIN sessions /\ \A i \in DOMAIN sessions : sessions'[i] = sessions[i]
    BY <1>1, <1>2, <1>4 DEF StateOK
<1>6. StateOK'
    <2>1. sessions' \in [DOMAIN sessions' -> Server] /\ DOMAIN sessions' \subseteq 1 .. ids'
        BY <1>1, <1>2, <1>4, <1>5, AgentsAssumption DEF StateOK
    <2>2. pc' \in [Agent -> Steps] /\ session' \in [Agent -> Nat]
        BY <1>1, <1>3, <1>4 DEF StateOK, Steps
    <2> QED
        BY <1>1, <1>2, <1>4, <2>1, <2>2, TablesKeep DEF StateOK
<1>7. SessionsOwned'
    <2>1. ASSUME NEW b \in Agent
          PROVE  /\ session'[b] <= ids'
                 /\ session'[b] \in DOMAIN sessions' => sessions'[session'[b]] = ServerOf[b]
                 /\ pc'[b] = "save" => session'[b] \in DOMAIN sessions' /\ stamp'[b] > 0
        <3>1. /\ session[b] \in Nat /\ session[b] <= ids
              /\ session[b] \in DOMAIN sessions => sessions[session[b]] = ServerOf[b]
              /\ pc[b] = "save" => session[b] \in DOMAIN sessions /\ stamp[b] > 0
            BY <1>1 DEF StateOK, SessionsOwned
        <3>2. session[b] # id /\ session[b] <= ids'
            BY <1>1, <1>4, <3>1
        <3>3. CASE session'[b] = session[b] /\ (pc'[b] = "save" => pc[b] = "save")
            BY <1>2, <1>5, <3>1, <3>2, <3>3
        <3>4. CASE b = a /\ session'[b] = id /\ pc'[b] = "on"
            BY <1>4, <1>5, <3>4
        <3> QED
            BY <1>1, <1>3, <3>3, <3>4 DEF StateOK
    <2>2. inactive' \subseteq 0 .. ids' /\ inactive' \cap DOMAIN sessions' = {}
        BY <1>1, <1>2, <1>4, <1>5 DEF SessionsOwned
    <2> QED
        BY <2>1, <2>2 DEF SessionsOwned
<1> QED
    BY <1>6, <1>7 DEF AgentsInv

LEMMA TimeTaken ==
    ASSUME AgentsInv, now < MaxTime, now' = now + 1
    PROVE  /\ now' \in 0 .. MaxTime /\ now <= now' /\ now' > 0 /\ now' \in 0 .. now'
           /\ stamp \in [Agent -> 0 .. now'] /\ polling \in [Server -> 0 .. now']
<1>1. /\ now \in Nat /\ stamp \in [Agent -> 0 .. now] /\ polling \in [Server -> 0 .. now]
    BY AgentsAssumption DEF AgentsInv, StateOK
<1>2. /\ now' \in 0 .. MaxTime /\ now <= now' /\ now' > 0 /\ now' \in 0 .. now'
      /\ 0 .. now \subseteq 0 .. now'
    BY <1>1, AgentsAssumption
<1> QED
    BY <1>1, <1>2

LEMMA ReportKeeps ==
    ASSUME AgentsInv, [Next]_vars, NEW a \in Agent, Report(a)
    PROVE  AgentsInv'
<1>1. StateOK /\ SessionsOwned
    BY DEF AgentsInv
<1>2. /\ now < MaxTime /\ now' = now + 1 /\ session[a] \in DOMAIN sessions
      /\ stamp' = [stamp EXCEPT ![a] = now'] /\ pc' = [pc EXCEPT ![a] = "save"]
      /\ UNCHANGED <<sessions, ids, session, polling, inactive, restarts>>
    BY DEF Report, Goto, memory, poller, history
<1>3. /\ now' \in 0 .. MaxTime /\ now <= now' /\ now' > 0 /\ now' \in 0 .. now'
      /\ stamp \in [Agent -> 0 .. now'] /\ polling \in [Server -> 0 .. now']
    BY <1>2, TimeTaken
<1>4. stamp' \in [Agent -> 0 .. now'] /\ pc' \in [Agent -> Steps]
    BY <1>1, <1>2, <1>3 DEF StateOK, Steps
<1>5. /\ session' \in [Agent -> Nat] /\ inactive' \subseteq 0 .. ids
      /\ inactive' \cap DOMAIN sessions = {} /\ restarts' = restarts
      /\ polling' \in [Server -> 0 .. now']
    BY <1>1, <1>2, <1>3 DEF StateOK, SessionsOwned
<1>6. ASSUME NEW b \in Agent
      PROVE  /\ session'[b] \in {0, session[b]}
             /\ pc'[b] = "save" => session'[b] \in DOMAIN sessions /\ stamp'[b] > 0
    BY <1>1, <1>2, <1>3, <1>6 DEF StateOK, SessionsOwned
<1> QED
    BY <1>2, <1>3, <1>4, <1>5, <1>6, CallsKeep

\* What agents do besides.
LEMMA AgentKeeps ==
    ASSUME AgentsInv, [Next]_vars, NEW a \in Agent,
           Connect(a) \/ Lookup(a) \/ SaveReport(a) \/ Ping(a)
    PROVE  AgentsInv'
<1>1. StateOK /\ SessionsOwned
    BY DEF AgentsInv
<1>2. ASSUME NEW step \in {"off", "lookup", "grant", "on"},
             pc' = [pc EXCEPT ![a] = step],
             UNCHANGED <<sessions, ids, session, stamp, polling, now, inactive, restarts>>
      PROVE  AgentsInv'
    <2>1. step \in Steps \ {"save"}
        BY DEF Steps
    <2> QED
        BY <1>2, <2>1, MoveKeeps
<1>3. CASE Connect(a)
    BY <1>2, <1>3 DEF Connect, Goto, memory, poller, history
<1>4. CASE Lookup(a)
    BY <1>2, <1>4 DEF Lookup, Goto, memory, poller, history
<1>5. CASE SaveReport(a)
    <2>1. /\ pc' = [pc EXCEPT ![a] = "on"]
          /\ UNCHANGED <<sessions, ids, session, stamp, polling, now, inactive, restarts>>
        BY <1>5 DEF SaveReport, Goto, memory, poller
    <2> QED
        BY <1>2, <2>1
<1>6. CASE Ping(a)
    <2>1. /\ session[a] \notin DOMAIN sessions /\ inactive' = inactive \cup {session[a]}
          /\ UNCHANGED <<sessions, ids, pc, session, stamp, polling, now, restarts>>
        BY <1>6 DEF Ping, memory, poller
    <2>2. session[a] \in 0 .. ids
        BY <1>1 DEF StateOK, SessionsOwned
    <2>3. inactive' \subseteq 0 .. ids /\ inactive' \cap DOMAIN sessions = {}
        BY <1>1, <2>1, <2>2 DEF SessionsOwned
    <2>4. /\ pc' \in [Agent -> Steps] /\ now' \in 0 .. MaxTime /\ now <= now'
          /\ stamp' \in [Agent -> 0 .. now'] /\ polling' \in [Server -> 0 .. now']
          /\ session' \in [Agent -> Nat] /\ restarts' = restarts
        BY <1>1, <2>1, AgentsAssumption DEF StateOK
    <2>5. ASSUME NEW b \in Agent
          PROVE  /\ session'[b] \in {0, session[b]}
                 /\ pc'[b] = "save" => session'[b] \in DOMAIN sessions /\ stamp'[b] > 0
        BY <1>1, <2>1 DEF SessionsOwned
    <2> QED
        BY <2>1, <2>3, <2>4, <2>5, CallsKeep
<1> QED
    BY <1>3, <1>4, <1>5, <1>6

\* What happens besides.
LEMMA ServerKeeps ==
    ASSUME AgentsInv, [Next]_vars,
           \/ \E s \in Server : Poll(s) \/ SavePoll(s) \/ DeleteServer(s)
           \/ UNCHANGED vars
    PROVE  AgentsInv'
<1>1. StateOK /\ SessionsOwned
    BY DEF AgentsInv
<1>2. ASSUME UNCHANGED <<sessions, ids, pc, session, stamp, inactive, restarts>>,
             now' \in 0 .. MaxTime, now <= now',
             stamp \in [Agent -> 0 .. now'], polling' \in [Server -> 0 .. now']
      PROVE  AgentsInv'
    <2>1. /\ pc' \in [Agent -> Steps] /\ restarts' = restarts
          /\ stamp' \in [Agent -> 0 .. now'] /\ session' \in [Agent -> Nat]
          /\ inactive' \subseteq 0 .. ids /\ inactive' \cap DOMAIN sessions = {}
        BY <1>1, <1>2 DEF StateOK, SessionsOwned
    <2>2. ASSUME NEW b \in Agent
          PROVE  /\ session'[b] \in {0, session[b]}
                 /\ pc'[b] = "save" => session'[b] \in DOMAIN sessions /\ stamp'[b] > 0
        BY <1>1, <1>2 DEF SessionsOwned
    <2> QED
        BY <1>2, <2>1, <2>2, CallsKeep
<1>3. /\ now \in 0 .. MaxTime /\ now <= now /\ 0 \in 0 .. now
      /\ stamp \in [Agent -> 0 .. now] /\ polling \in [Server -> 0 .. now]
    BY <1>1, AgentsAssumption DEF StateOK
<1>4. ASSUME NEW s \in Server, Poll(s) PROVE AgentsInv'
    <2>1. /\ now < MaxTime /\ now' = now + 1 /\ polling' = [polling EXCEPT ![s] = now']
          /\ UNCHANGED <<sessions, ids, pc, session, stamp, inactive, restarts>>
        BY <1>4 DEF Poll, memory, history
    <2>2. /\ now' \in 0 .. MaxTime /\ now <= now' /\ now' \in 0 .. now'
          /\ stamp \in [Agent -> 0 .. now'] /\ polling \in [Server -> 0 .. now']
        BY <2>1, TimeTaken
    <2>3. polling' \in [Server -> 0 .. now']
        BY <2>1, <2>2
    <2> QED
        BY <1>2, <2>1, <2>2, <2>3
<1>5. ASSUME NEW s \in Server, SavePoll(s) PROVE AgentsInv'
    <2>1. /\ polling' = [polling EXCEPT ![s] = 0]
          /\ UNCHANGED <<sessions, ids, pc, session, stamp, now, inactive, restarts>>
        BY <1>5 DEF SavePoll, memory, history
    <2>2. polling' \in [Server -> 0 .. now]
        BY <1>3, <2>1
    <2> QED
        BY <1>2, <1>3, <2>1, <2>2
<1>6. CASE UNCHANGED <<memory, pc, session, stamp, poller, now, inactive, restarts>>
    <2>1. UNCHANGED <<sessions, ids, pc, session, stamp, polling, now, inactive, restarts>>
        BY <1>6 DEF memory, poller
    <2> QED
        BY <1>2, <1>3, <2>1
<1>7. ASSUME NEW s \in Server, DeleteServer(s) PROVE AgentsInv'
    BY <1>6, <1>7 DEF DeleteServer, history
<1>8. CASE UNCHANGED vars
    BY <1>6, <1>8 DEF vars, memory, poller
<1> QED
    BY <1>4, <1>5, <1>7, <1>8

\* The map is empty, and whoever was saving a report is not any more.
LEMMA RestartKeeps ==
    ASSUME AgentsInv, [Next]_vars, Restart
    PROVE  AgentsInv'
<1>1. StateOK /\ SessionsOwned
    BY DEF AgentsInv
<1>2. /\ sessions' = <<>> /\ restarts < Restarts /\ restarts' = restarts + 1
      /\ polling' = [s \in Server |-> 0]
      /\ UNCHANGED <<session, stamp, ids, now, inactive>>
    BY DEF Restart
<1>3. pc' \in [Agent -> Steps \ {"save"}]
    BY <1>1 DEF Restart, StateOK, Steps
<1>4. DOMAIN sessions' = {} /\ sessions' \in [{} -> Server]
    BY <1>2
<1>5. restarts' \in 0 .. Restarts /\ 0 \in 0 .. now
    BY <1>1, <1>2, AgentsAssumption DEF StateOK
<1>6. StateOK'
    <2>1. sessions' \in [DOMAIN sessions' -> Server] /\ DOMAIN sessions' \subseteq 1 .. ids'
        BY <1>4
    <2>2. pc' \in [Agent -> Steps] /\ polling' \in [Server -> 0 .. now']
        BY <1>2, <1>3, <1>5
    <2> QED
        BY <1>1, <1>2, <1>5, <2>1, <2>2, TablesKeep DEF StateOK
<1>7. SessionsOwned'
    <2>1. \A a \in Agent : pc'[a] # "save"
        BY <1>3
    <2> QED
        BY <1>1, <1>2, <1>4, <2>1 DEF SessionsOwned
<1> QED
    BY <1>6, <1>7 DEF AgentsInv

LEMMA AgentsStep == AgentsInv /\ [Next]_vars => AgentsInv'
<1> SUFFICES ASSUME AgentsInv, [Next]_vars PROVE AgentsInv'
    OBVIOUS
<1>1. ASSUME NEW a \in Agent, Connect(a) \/ Close(a) \/ Report(a) \/ Ping(a) \/ Handle(a)
      PROVE  AgentsInv'
    BY <1>1, CloseKeeps, ReportKeeps, GrantKeeps, AgentKeeps DEF Handle
<1>2. CASE \/ \E s \in Server : Poll(s) \/ SavePoll(s) \/ DeleteServer(s)
           \/ UNCHANGED vars
    BY <1>2, ServerKeeps
<1>3. CASE Restart
    BY <1>3, RestartKeeps
<1> QED
    BY <1>1, <1>2, <1>3 DEF Next

LEMMA AgentsInit == Init => AgentsInv
<1> SUFFICES ASSUME Init PROVE AgentsInv
    OBVIOUS
<1>1. /\ exists = Server /\ metrics = [s \in Server |-> <<>>] /\ sessions = <<>>
      /\ pc = [a \in Agent |-> "off"] /\ session = [a \in Agent |-> 0]
      /\ stamp = [a \in Agent |-> 0] /\ polling = [s \in Server |-> 0]
      /\ ids = 0 /\ now = 0 /\ acked = {} /\ inactive = {} /\ restarts = 0
    BY DEF Init
<1>2. DOMAIN sessions = {} /\ sessions \in [{} -> Server]
    BY <1>1
<1>3. metrics \in [Server -> Seq(Metric)]
    BY <1>1, EmptySeq
<1>4. StateOK
    <2>1. sessions \in [DOMAIN sessions -> Server] /\ DOMAIN sessions \subseteq 1 .. ids
        BY <1>2
    <2>2. /\ pc \in [Agent -> Steps] /\ session \in [Agent -> Nat]
          /\ stamp \in [Agent -> 0 .. now] /\ polling \in [Server -> 0 .. now]
        BY <1>1 DEF Steps
    <2>3. ids \in Nat /\ now \in 0 .. MaxTime /\ restarts \in 0 .. Restarts
        BY <1>1, AgentsAssumption
    <2> QED
        BY <1>1, <1>3, <2>1, <2>2, <2>3 DEF StateOK
<1>5. SessionsOwned
    BY <1>1, <1>2 DEF SessionsOwned
<1> QED
    BY <1>4, <1>5 DEF AgentsInv

\* Whatever is lost, removed and restarted, an id is of one registration,
\* and a report that is being saved is of a session that is still known.
THEOREM SessionsInvariant == Spec => []AgentsInv
<1>1. Init => AgentsInv
    BY AgentsInit
<1>2. AgentsInv /\ [Next]_vars => AgentsInv'
    BY AgentsStep
<1> QED
    BY <1>1, <1>2, PTL DEF Spec

-----------------------------------------------------------------------------
(* Types, and the bound on the ids.                                        *)

LEMMA GrantingIsFinite ==
    IsFiniteSet(Granting) /\ Cardinality(Granting) \in Nat
<1>1. Granting \in SUBSET Agent
    BY DEF Granting
<1>2. IsFiniteSet(Granting)
    BY <1>1, FS_Subset, AgentsAssumption
<1> QED
    BY <1>2, FS_CardinalityType

\* Only Lookup adds to those who are about to get an id, and it looks first
\* whether one is left.
LEMMA IdsStep ==
    ASSUME AgentsInv, IdsSuffice, [Next]_vars
    PROVE  IdsSuffice'
<1> DEFINE G == Granting
           H == {a \in Agent : pc'[a] = "grant"}
<1>1. /\ IsFiniteSet(G) /\ Cardinality(G) \in Nat /\ ids \in Nat /\ MaxIds \in Nat
      /\ pc \in [Agent -> Steps] /\ ids + Cardinality(G) <= MaxIds
    BY GrantingIsFinite, AgentsAssumption DEF AgentsInv, StateOK, IdsSuffice
<1> SUFFICES ids' + Cardinality(H) <= MaxIds
    BY DEF IdsSuffice, Granting
<1>2. CASE ids' = ids /\ H = G
    BY <1>1, <1>2
<1>3. ASSUME NEW a \in Agent, pc[a] # "grant", pc'[a] # "grant", ids' = ids,
             \A b \in Agent \ {a} : pc'[b] = pc[b]
      PROVE  ids' = ids /\ H = G
    BY <1>3 DEF Granting
<1>4. ASSUME NEW a \in Agent, Connect(a) \/ Close(a) \/ Report(a) \/ SaveReport(a)
      PROVE  ids' = ids /\ H = G
    BY <1>1, <1>3, <1>4 DEF Connect, Close, Report, SaveReport, Goto, memory
<1>5. ASSUME NEW a \in Agent, Lookup(a) PROVE ids' + Cardinality(H) <= MaxIds
    <2>1. ids' = ids /\ pc[a] = "lookup"
        BY <1>5 DEF Lookup, memory
    <2>2. CASE Goto(a, "off")
        BY <1>1, <1>2, <1>3, <2>1, <2>2 DEF Goto
    <2>3. CASE IdsLeft /\ Goto(a, "grant")
        <3>1. H = G \cup {a} /\ a \notin G
            BY <1>1, <2>1, <2>3 DEF Goto, Granting
        <3>2. Cardinality(H) = Cardinality(G) + 1
            BY <1>1, <3>1, FS_AddElement
        <3>3. ids + Cardinality(G) < MaxIds
            BY <2>3 DEF IdsLeft, Granting
        <3> QED
            BY <1>1, <2>1, <3>2, <3>3
    <2> QED
        BY <1>5, <2>2, <2>3 DEF Lookup
<1>6. ASSUME NEW a \in Agent, Grant(a) PROVE ids' + Cardinality(H) <= MaxIds
    <2>1. H = G \ {a} /\ a \in G /\ ids' = ids + 1
        BY <1>1, <1>6 DEF Grant, Goto, Granting
    <2>2. Cardinality(H) = Cardinality(G) - 1
        BY <1>1, <2>1, FS_RemoveElement
    <2> QED
        BY <1>1, <2>1, <2>2
<1>7. ASSUME pc' = pc, ids' = ids PROVE ids' = ids /\ H = G
    BY <1>7 DEF Granting
<1>8. CASE \/ \E a \in Agent : Ping(a)
           \/ \E s \in Server : Poll(s) \/ SavePoll(s) \/ DeleteServer(s)
           \/ UNCHANGED vars
    <2>1. pc' = pc /\ ids' = ids
        BY <1>8 DEF Ping, Poll, SavePoll, DeleteServer, vars, memory
    <2> QED
        BY <1>2, <1>7, <2>1
<1>9. CASE Restart
    <2>1. ids' = ids /\ H = {}
        BY <1>1, <1>9 DEF Restart, Steps
    <2>2. Cardinality(H) = 0
        BY <2>1, FS_EmptySet
    <2> QED
        BY <1>1, <2>1, <2>2
<1> QED
    BY <1>2, <1>4, <1>5, <1>6, <1>8, <1>9 DEF Next, Handle

LEMMA IdsInvariant == Spec => []IdsSuffice
<1>1. Init => IdsSuffice
    <2> SUFFICES ASSUME Init PROVE IdsSuffice
        OBVIOUS
    <2>1. Granting = {} /\ ids = 0
        BY DEF Init, Granting
    <2> QED
        BY <2>1, FS_EmptySet, AgentsAssumption DEF IdsSuffice
<1>2. AgentsInv /\ IdsSuffice /\ [Next]_vars => IdsSuffice'
    BY IdsStep
<1> QED
    BY <1>1, <1>2, SessionsInvariant, PTL DEF Spec

\* Tables, sessions and calls are of their types; never more ids are given
\* than there are.
THEOREM TypeCorrect == Spec => []TypeOK
<1>1. AgentsInv /\ IdsSuffice => TypeOK
    <2> SUFFICES ASSUME AgentsInv, IdsSuffice PROVE TypeOK
        OBVIOUS
    <2>1. StateOK /\ SessionsOwned
        BY DEF AgentsInv
    <2>2. ids \in 0 .. MaxIds
        BY <2>1, GrantingIsFinite, AgentsAssumption DEF StateOK, IdsSuffice
    <2>3. 0 .. ids \subseteq 0 .. MaxIds /\ now \in 0 .. MaxTime
          /\ 0 .. now \subseteq 0 .. MaxTime
        BY <2>1, <2>2, AgentsAssumption DEF StateOK
    <2>4. session \in [Agent -> 0 .. MaxIds]
        <3>1. \A a \in Agent : session[a] \in 0 .. ids
            BY <2>1 DEF StateOK, SessionsOwned
        <3> QED
            BY <2>1, <2>3, <3>1 DEF StateOK
    <2>5. /\ stamp \in [Agent -> 0 .. MaxTime] /\ polling \in [Server -> 0 .. MaxTime]
          /\ inactive \subseteq 0 .. MaxIds /\ \A i \in DOMAIN sessions : sessions[i] \in Server
        BY <2>1, <2>3 DEF StateOK, SessionsOwned
    <2> QED
        BY <2>1, <2>2, <2>3, <2>4, <2>5 DEF TypeOK, StateOK, Steps
<1> QED
    BY <1>1, SessionsInvariant, IdsInvariant, PTL

-----------------------------------------------------------------------------
(* The rows.                                                               *)

OwnRows == \A s \in Server : \A r \in Rows(s) : r.by # "poller" => ServerOf[r.by] = s

RowsInv == OwnRows /\ AcknowledgedIsSaved

LEMMA NoRows ==
    ASSUME NEW s, metrics[s] = <<>>
    PROVE  Rows(s) = {}
<1>1. DOMAIN metrics[s] = {}
    OBVIOUS
<1> QED
    BY <1>1 DEF Rows

LEMMA RowsStep ==
    ASSUME AgentsInv, RowsInv, [Next]_vars
    PROVE  RowsInv'
<1>1. /\ metrics \in [Server -> Seq(Metric)] /\ exists \subseteq Server
      /\ acked \subseteq (Server \X Metric)
    BY DEF AgentsInv, StateOK
<1>2. CASE UNCHANGED <<exists, metrics, acked>>
    BY <1>2 DEF RowsInv, OwnRows, AcknowledgedIsSaved, Rows
<1>3. ASSUME NEW s \in Server, NEW row \in Metric, Inserts(s, row)
      PROVE  RowsInv'
    <2>1. /\ Rows(s)' = Rows(s) \cup {row}
          /\ \A t \in Server \ {s} : Rows(t)' = Rows(t)
        <3>1. /\ Rows(s)' = Rows(s) \cup {row}
              /\ \A t \in Server \ {s} : metrics'[t] = metrics[t]
            BY <1>1, <1>3, RowAppended DEF Inserts
        <3>2. \A t \in Server \ {s} : Rows(t)' = Rows(t)
            BY <3>1 DEF Rows
        <3> QED
            BY <3>1, <3>2
    <2>2. OwnRows'
        BY <1>3, <2>1 DEF RowsInv, OwnRows, Inserts
    <2>3. AcknowledgedIsSaved'
        <3> SUFFICES ASSUME NEW p \in acked', p[1] \in exists' PROVE p[2] \in Rows(p[1])'
            BY DEF AcknowledgedIsSaved
        <3>1. CASE p = <<s, row>>
            <4>1. p[1] = s /\ p[2] = row
                BY <3>1
            <4> QED
                BY <2>1, <4>1
        <3>2. CASE p \in acked
            <4>1. p[1] \in Server /\ p[2] \in Rows(p[1])
                BY <1>1, <1>3, <3>2 DEF RowsInv, AcknowledgedIsSaved, Inserts
            <4> QED
                BY <2>1, <4>1
        <3> QED
            BY <1>3, <3>1, <3>2 DEF Inserts
    <2> QED
        BY <2>2, <2>3 DEF RowsInv
<1>4. ASSUME NEW s \in Server, Removes(s)
      PROVE  RowsInv'
    <2>1. /\ Rows(s)' = {} /\ \A t \in Server \ {s} : Rows(t)' = Rows(t)
          /\ exists' = exists \ {s} /\ acked' = acked
        <3>1. metrics'[s] = <<>> /\ \A t \in Server \ {s} : metrics'[t] = metrics[t]
            BY <1>1, <1>4 DEF Removes
        <3>2. Rows(s)' = {}
            <4>1. DOMAIN metrics'[s] = {}
                BY <3>1
            <4> QED
                BY <4>1 DEF Rows
        <3> QED
            BY <1>4, <3>1, <3>2 DEF Removes, Rows
    <2>2. OwnRows'
        BY <2>1 DEF RowsInv, OwnRows
    <2>3. AcknowledgedIsSaved'
        BY <1>1, <2>1 DEF RowsInv, AcknowledgedIsSaved
    <2> QED
        BY <2>2, <2>3 DEF RowsInv
<1> QED
    BY <1>2, <1>3, <1>4, TablesChange

LEMMA RowsInvariant == Spec => []RowsInv
<1>1. Init => RowsInv
    <2> SUFFICES ASSUME Init PROVE RowsInv
        OBVIOUS
    <2>1. \A s \in Server : metrics[s] = <<>>
        BY DEF Init
    <2>2. \A s \in Server : Rows(s) = {}
        BY <2>1, NoRows
    <2> QED
        BY <2>2 DEF Init, RowsInv, OwnRows, AcknowledgedIsSaved
<1>2. AgentsInv /\ RowsInv /\ [Next]_vars => RowsInv'
    BY RowsStep
<1> QED
    BY <1>1, <1>2, SessionsInvariant, PTL DEF Spec

\* ReportMetrics looks the session up, waits for the store and saves: the
\* row is of the server the agent was registered for, whatever sessions
\* were given in between, and an id Ping refused is not given again.
THEOREM ReportsReach == Spec => []ReportsReachOwnServer
<1>1. AgentsInv /\ RowsInv => ReportsReachOwnServer
    BY DEF AgentsInv, SessionsOwned, RowsInv, OwnRows, ReportsReachOwnServer
<1> QED
    BY <1>1, SessionsInvariant, RowsInvariant, PTL

\* ReportMetrics answers after SaveMetric has: what is acknowledged is in
\* the table until its server is removed.
THEOREM AcknowledgedStays == Spec => []AcknowledgedIsSaved
<1>1. RowsInv => AcknowledgedIsSaved
    BY DEF RowsInv
<1> QED
    BY <1>1, RowsInvariant, PTL
-----------------------------------------------------------------------------
(* The page.                                                               *)

\* Among numbers up to n there is a last one.
LEMMA LastOne ==
    ASSUME NEW n \in Nat, NEW S \in SUBSET (1 .. n), S # {}
    PROVE  \E last \in S : \A m \in S : m <= last
<1> DEFINE T == {n - m : m \in S}
<1>1. T \in SUBSET Nat /\ T # {}
    <2>1. \A m \in S : m \in 1 .. n /\ n - m \in Nat
        OBVIOUS
    <2> QED
        BY <2>1
<1>2. PICK x \in T : \A y \in T : ~ (<<y, x>> \in OpToRel(<, Nat))
    BY <1>1, NatLessThanWellFounded, WFMin
<1>3. \A y \in T : ~ (y < x)
    BY <1>1, <1>2 DEF OpToRel
<1>4. PICK last \in S : x = n - last
    OBVIOUS
<1>5. ASSUME NEW m \in S PROVE m <= last
    <2>1. ~ (n - m < n - last)
        BY <1>3, <1>4
    <2>2. m \in 1 .. n /\ last \in 1 .. n
        OBVIOUS
    <2> QED
        BY <2>1, <2>2
<1> QED
    BY <1>5

Latest(R) == CHOOSE t \in {r.at : r \in R} : \A r \in R : r.at <= t

LEMMA LatestOfRows ==
    ASSUME NEW R \in SUBSET Metric, R # {}
    PROVE  /\ \E r \in R : r.at = Latest(R)
           /\ \A r \in R : r.at <= Latest(R)
           /\ Latest(R) \in Nat
<1> DEFINE T == {r.at : r \in R}
<1>1. MaxTime \in Nat /\ T \in SUBSET (1 .. MaxTime) /\ T # {}
    BY AgentsAssumption DEF Metric
<1>2. PICK last \in T : \A m \in T : m <= last
    BY <1>1, LastOne
<1>3. \E u \in T : \A r \in R : r.at <= u
    BY <1>2
<1>4. Latest(R) \in T /\ \A r \in R : r.at <= Latest(R)
    BY <1>3 DEF Latest
<1> QED
    BY <1>1, <1>4

LEMMA LatestGrows ==
    ASSUME NEW R \in SUBSET Metric, NEW Q \in SUBSET Metric, R \subseteq Q, R # {}
    PROVE  Latest(Q) >= Latest(R)
<1>1. Latest(Q) \in Nat /\ \A r \in Q : r.at <= Latest(Q)
    BY LatestOfRows
<1>2. Latest(R) \in Nat /\ \E r \in R : r.at = Latest(R)
    BY LatestOfRows
<1> QED
    BY <1>1, <1>2

LEMMA RowsAreMetrics ==
    ASSUME NEW q \in Seq(Metric)
    PROVE  /\ {q[i] : i \in DOMAIN q} \in SUBSET Metric
           /\ q # <<>> => {q[i] : i \in DOMAIN q} # {}
<1>1. DOMAIN q = 1 .. Len(q) /\ Len(q) \in Nat /\ q \in [1 .. Len(q) -> Metric]
    BY LenProperties
<1>2. q # <<>> => Len(q) \in Nat \ {0}
    BY EmptySeq
<1>3. q # <<>> => 1 \in DOMAIN q
    BY <1>1, <1>2
<1> QED
    BY <1>1, <1>3

\* GetLatestMetric takes the row with the latest time, so a row that was
\* inserted late does not hide one that is newer.
THEOREM PageGoesOn == Spec => PageNeverGoesBack
<1>1. ASSUME AgentsInv, [Next]_vars
      PROVE  \A s \in exists' : LatestMetric(s)' >= LatestMetric(s)
    <2>1. metrics \in [Server -> Seq(Metric)] /\ exists \subseteq Server
        BY <1>1 DEF AgentsInv, StateOK
    <2>2. metrics' \in [Server -> Seq(Metric)]
        BY <1>1, TablesKeep
    <2> SUFFICES ASSUME NEW s \in Server, s \in exists'
                 PROVE  LatestMetric(s)' >= LatestMetric(s)
        BY <1>1, TablesKeep
    <2>3. metrics[s] \in Seq(Metric) /\ metrics'[s] \in Seq(Metric)
        BY <2>1, <2>2
    <2>4. /\ Rows(s) \in SUBSET Metric /\ (metrics[s] # <<>> => Rows(s) # {})
          /\ Rows(s)' \in SUBSET Metric /\ (metrics'[s] # <<>> => Rows(s)' # {})
        BY <2>3, RowsAreMetrics DEF Rows
    <2>5. /\ LatestMetric(s) = IF metrics[s] = <<>> THEN 0 ELSE Latest(Rows(s))
          /\ LatestMetric(s)' = IF metrics'[s] = <<>> THEN 0 ELSE Latest(Rows(s)')
        BY DEF LatestMetric, Latest
    <2>6. LatestMetric(s) \in Nat
        BY <2>4, <2>5, LatestOfRows
    <2>7. CASE metrics'[s] = metrics[s]
        <3>1. LatestMetric(s)' = LatestMetric(s)
            BY <2>7 DEF LatestMetric, Rows
        <3> QED
            BY <2>6, <3>1
    <2>8. CASE metrics'[s] # <<>> /\ Rows(s) \subseteq Rows(s)'
        <3>1. LatestMetric(s)' \in Nat
            BY <2>4, <2>5, <2>8, LatestOfRows
        <3>2. CASE metrics[s] = <<>>
            BY <2>5, <3>1, <3>2
        <3>3. CASE metrics[s] # <<>>
            BY <2>4, <2>5, <2>8, <3>3, LatestGrows
        <3> QED
            BY <3>2, <3>3
    <2>9. ASSUME NEW t \in Server, NEW row \in Metric, Inserts(t, row)
          PROVE  \/ metrics'[s] = metrics[s]
                 \/ metrics'[s] # <<>> /\ Rows(s) \subseteq Rows(s)'
        BY <2>1, <2>9, RowAppended DEF Inserts
    <2>10. ASSUME NEW t \in Server, Removes(t) PROVE metrics'[s] = metrics[s]
        BY <2>1, <2>10 DEF Removes
    <2> QED
        BY <1>1, <2>7, <2>8, <2>9, <2>10, TablesChange
<1> QED
    BY <1>1, SessionsInvariant, PTL DEF Spec, PageNeverGoesBack

===============================================================================

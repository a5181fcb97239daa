-------------------------------- MODULE Agents --------------------------------
(***************************************************************************)
(* The telemetry of the game servers: the collector's gRPC service, the    *)
(* client library the mods use, and the poller, which saves metric rows of *)
(* its own.  Sessions are in the memory of the collector and go with it;   *)
(* servers and metrics are in PostgreSQL.  A call takes one step per       *)
(* storage call or critical section, and its reply may be lost.            *)
(*                                                                         *)
(* Times are counted, one per row that takes the time; a session id is the *)
(* number of its registration, as a UUID is never given twice.             *)
(***************************************************************************)
EXTENDS Integers, Sequences, FiniteSets

CONSTANTS
    Agent,       \* mods that use the client library
    Server,      \* servers listed at the start
    ServerOf,    \* the server each agent is configured for
    Secret,      \* for each server, the agent token its owner was given
    Configured,  \* for each agent, the token it is configured with
    Column,      \* server.verification_token, NoToken where it is NULL
    MaxIds,      \* bound: sessions
    MaxTime,     \* bound: metric rows
    Restarts,    \* bound: restarts of the collector
    NoToken

ASSUME AgentsAssumption ==
    /\ IsFiniteSet(Agent)
    /\ ServerOf \in [Agent -> Server] /\ "poller" \notin Agent
    /\ DOMAIN Column = Server
    /\ MaxIds \in Nat /\ MaxTime \in Nat /\ Restarts \in Nat

VARIABLES
    exists,    \* rows of "server"
    metrics,   \* rows of "server_metrics" of each server, in order of insertion
    sessions,  \* the collector's map: session id -> server
    pc,        \* what each agent's call does next
    session,   \* the id each agent holds, 0 if none
    stamp,     \* the time each call took for its row
    polling,   \* the time the poller's task took for each server, 0 if none
    ids,       \* sessions given so far
    now,       \* times given so far
    acked,     \* history: rows whose report was acknowledged
    inactive,  \* history: ids an agent was told are not active
    restarts   \* history: restarts so far

vars == <<exists, metrics, sessions, pc, session, stamp, polling, ids, now,
          acked, inactive, restarts>>
tables == <<exists, metrics>>
memory == <<sessions, ids>>
history == <<acked, inactive, restarts>>
poller == <<polling>>

Init ==
    /\ exists = Server
    /\ metrics = [s \in Server |-> <<>>]
    /\ sessions = <<>>
    /\ pc = [a \in Agent |-> "off"]
    /\ session = [a \in Agent |-> 0]
    /\ stamp = [a \in Agent |-> 0]
    /\ polling = [s \in Server |-> 0]
    /\ ids = 0 /\ now = 0
    /\ acked = {} /\ inactive = {} /\ restarts = 0

Goto(a, step) == pc' = [pc EXCEPT ![a] = step]

-----------------------------------------------------------------------------
(* Connect and RegisterAgent.                                              *)

Connect(a) ==
    /\ pc[a] = "off" /\ Goto(a, "lookup")
    /\ UNCHANGED <<tables, memory, session, stamp, poller, now, history>>

\* A server without a token lets any agent in.
Admits(a) ==
    /\ ServerOf[a] \in exists
    /\ Column[ServerOf[a]] \in {NoToken, Configured[a]}

IdsLeft == ids + Cardinality({a \in Agent : pc[a] = "grant"}) < MaxIds

Lookup(a) ==
    /\ pc[a] = "lookup"
    /\ Goto(a, "off") \/ (Admits(a) /\ IdsLeft /\ Goto(a, "grant"))
    /\ UNCHANGED <<tables, memory, session, stamp, poller, now, history>>

\* Mutant: ids are counted per process.
GrantByCount(a) ==
    /\ pc[a] = "grant"
    /\ ids' = ids + 1
    /\ LET id == Cardinality(DOMAIN sessions) + 1
       IN  /\ sessions' = [i \in DOMAIN sessions \cup {id} |->
                              IF i = id THEN ServerOf[a] ELSE sessions[i]]
           /\ Goto(a, "on") /\ session' = [session EXCEPT ![a] = id]
    /\ UNCHANGED <<tables, stamp, poller, now, history>>

\* The reply may be lost; the session stays.
Grant(a) ==
    /\ pc[a] = "grant"
    /\ ids' = ids + 1
    /\ sessions' = [i \in DOMAIN sessions \cup {ids'} |->
                       IF i = ids' THEN ServerOf[a] ELSE sessions[i]]
    /\ \/ Goto(a, "on") /\ session' = [session EXCEPT ![a] = ids']
       \/ Goto(a, "off") /\ UNCHANGED session
    /\ UNCHANGED <<tables, stamp, poller, now, history>>

Close(a) ==
    /\ pc[a] = "on" /\ Goto(a, "off") /\ session' = [session EXCEPT ![a] = 0]
    /\ UNCHANGED <<tables, memory, stamp, poller, now, history>>

(* Report and ReportMetrics.                                               *)

\* An id that is not in the map is answered with Unauthenticated; the
\* client keeps it.
Report(a) ==
    /\ pc[a] = "on" /\ now < MaxTime
    /\ session[a] \in DOMAIN sessions
    /\ now' = now + 1 /\ stamp' = [stamp EXCEPT ![a] = now']
    /\ Goto(a, "save")
    /\ UNCHANGED <<tables, memory, session, poller, history>>

\* SaveMetric: the foreign key wants the server.
SaveMetric(s, row) ==
    /\ s \in exists
    /\ metrics' = [metrics EXCEPT ![s] = Append(@, row)]

\* Mutant: the error of SaveMetric is dropped, as the poller does.
SaveReportAnyway(a) ==
    LET s == sessions[session[a]]
        row == [at |-> stamp[a], by |-> a]
    IN  /\ pc[a] = "save" /\ Goto(a, "on")
        /\ acked' = acked \cup {<<s, row>>}
        /\ SaveMetric(s, row) \/ UNCHANGED metrics
        /\ UNCHANGED <<exists, memory, session, stamp, poller, now, inactive, restarts>>

SaveReport(a) ==
    LET s == sessions[session[a]]
        row == [at |-> stamp[a], by |-> a]
    IN  /\ pc[a] = "save" /\ Goto(a, "on")
        /\ \/ SaveMetric(s, row) /\ acked' \in {acked, acked \cup {<<s, row>>}}
           \/ UNCHANGED <<metrics, acked>>
        /\ UNCHANGED <<exists, memory, session, stamp, poller, now, inactive, restarts>>

\* The answer to a ping of a session that is known changes nothing.
Ping(a) ==
    /\ pc[a] = "on"
    /\ session[a] \notin DOMAIN sessions
    /\ inactive' = inactive \cup {session[a]}
    /\ UNCHANGED <<tables, memory, pc, session, stamp, poller, now, acked, restarts>>

(* The poller's task: the time is taken before the row is written.         *)

Poll(s) ==
    /\ s \in exists /\ polling[s] = 0 /\ now < MaxTime
    /\ now' = now + 1 /\ polling' = [polling EXCEPT ![s] = now']
    /\ UNCHANGED <<tables, memory, pc, session, stamp, history>>

SavePoll(s) ==
    /\ polling[s] # 0 /\ polling' = [polling EXCEPT ![s] = 0]
    /\ SaveMetric(s, [at |-> polling[s], by |-> "poller"]) \/ UNCHANGED metrics
    /\ UNCHANGED <<exists, memory, pc, session, stamp, now, history>>

(* Surroundings.                                                           *)

DeleteServer(s) ==
    /\ s \in exists /\ exists' = exists \ {s}
    /\ metrics' = [metrics EXCEPT ![s] = <<>>]
    /\ UNCHANGED <<memory, pc, session, stamp, poller, now, history>>

\* Mutant: the sessions are kept, their numbering is not.
RestartRenumbers ==
    /\ restarts < Restarts /\ restarts' = restarts + 1
    /\ ids' = 0 /\ pc' = [a \in Agent |-> "off"]
    /\ polling' = [s \in Server |-> 0]
    /\ UNCHANGED <<tables, sessions, session, stamp, now, acked, inactive>>

\* The collector ends and is started again; calls under way fail.
Restart ==
    /\ restarts < Restarts /\ restarts' = restarts + 1
    /\ sessions' = <<>>
    /\ pc' = [a \in Agent |-> CASE pc[a] = "save" -> "on"
                                [] pc[a] \in {"lookup", "grant"} -> "off"
                                [] OTHER -> pc[a]]
    /\ polling' = [s \in Server |-> 0]
    /\ UNCHANGED <<tables, session, stamp, ids, now, acked, inactive>>

-----------------------------------------------------------------------------
Handle(a) == Lookup(a) \/ Grant(a) \/ SaveReport(a)

Next ==
    \/ \E a \in Agent : Connect(a) \/ Close(a) \/ Report(a) \/ Ping(a) \/ Handle(a)
    \/ \E s \in Server : Poll(s) \/ SavePoll(s) \/ DeleteServer(s)
    \/ Restart

\* A call that has reached the collector is handled.
Spec == Init /\ [][Next]_vars /\ \A a \in Agent : WF_vars(Handle(a))

-----------------------------------------------------------------------------
Metric == [at : 1 .. MaxTime, by : Agent \cup {"poller"}]

TypeOK ==
    /\ exists \subseteq Server
    /\ metrics \in [Server -> Seq(Metric)]
    /\ DOMAIN sessions \subseteq 1 .. ids
    /\ \A i \in DOMAIN sessions : sessions[i] \in Server
    /\ pc \in [Agent -> {"off", "lookup", "grant", "on", "save"}]
    /\ session \in [Agent -> 0 .. MaxIds]
    /\ stamp \in [Agent -> 0 .. MaxTime] /\ polling \in [Server -> 0 .. MaxTime]
    /\ ids \in 0 .. MaxIds /\ now \in 0 .. MaxTime
    /\ acked \subseteq (Server \X Metric) /\ inactive \subseteq 0 .. MaxIds
    /\ restarts \in 0 .. Restarts

Rows(s) == {metrics[s][i] : i \in DOMAIN metrics[s]}

\* Mutant: ORDER BY id DESC.
LatestInserted(s) == IF metrics[s] = <<>> THEN 0 ELSE metrics[s][Len(metrics[s])].at

\* The time of the row GetLatestMetric finds: ORDER BY recorded_at DESC.
LatestMetric(s) ==
    IF metrics[s] = <<>> THEN 0
    ELSE CHOOSE t \in {r.at : r \in Rows(s)} : \A r \in Rows(s) : r.at <= t

\* A session serves the agents it was given to and nobody else: what an
\* agent reports is saved for its own server, whatever sessions were given
\* and lost before, and an id it was told is not active never is again.
ReportsReachOwnServer ==
    /\ \A s \in Server : \A r \in Rows(s) : r.by # "poller" => ServerOf[r.by] = s
    /\ inactive \cap DOMAIN sessions = {}

\* An acknowledged report is in the table as long as its server is listed,
\* even if the server was removed while the report was under way.
AcknowledgedIsSaved ==
    \A p \in acked : p[1] \in exists => p[2] \in Rows(p[1])

\* The latest row that a read finds of a listed server is never older than
\* the one found before, though rows are inserted out of order.
PageNeverGoesBack ==
    [][\A s \in exists' : LatestMetric(s)' >= LatestMetric(s)]_vars

\* "RegisterAgent authenticates the mod agent with the server's secret
\* token."
SessionsAuthenticated ==
    \A a \in Agent :
        pc[a] \in {"grant", "on", "save"} => Configured[a] = Secret[ServerOf[a]]
=============================================================================

------------------------------- MODULE MCAgents -------------------------------
(* Values for the constants of Agents that a .cfg cannot write: which      *)
(* server the agents report for and which tokens they have.                *)
EXTENDS Agents

CONSTANTS a1, a2, a3, s1, s2

\* a1 and a3 are configured for one server, a2 for the other.
ServerOfEach == [a \in Agent |-> IF a = a2 THEN s2 ELSE s1]

SecretToken == [s \in Server |-> "secret"]
Tokens == [a \in Agent |-> IF a = a3 THEN "guess" ELSE "secret"]

\* As agentclient's test has it, and as CreateServer leaves it.
ColumnMixed == [s \in Server |-> IF s = s1 THEN "secret" ELSE NoToken]
ColumnNull == [s \in Server |-> NoToken]
=============================================================================

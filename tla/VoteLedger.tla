----------------------------- MODULE VoteLedger -----------------------------
(***************************************************************************)
(* What the like button promises: every vote is one unit of its server's   *)
(* tally.  Casting and retracting a vote change the vote and the tally in  *)
(* one step.  A guest's vote may lapse (its Redis key lives for a day): it *)
(* stays in the tally, and the guest may vote again.  Likes implements     *)
(* this ledger as long as no voter has two requests under way and no       *)
(* storage call fails after it took effect.                                *)
(***************************************************************************)
EXTENDS Integers, FiniteSets

CONSTANTS Voter, Server

VARIABLES
    open,    \* the servers that are listed
    voted,   \* the votes that stand, as pairs <<voter, server>>
    tally,   \* the number shown for each server
    lapsed   \* how many votes in the tally have lapsed

vars == <<open, voted, tally, lapsed>>

Votes(s) == {v \in Voter : <<v, s>> \in voted}

Init ==
    /\ open = Server
    /\ voted = {}
    /\ tally = [s \in Server |-> 0]
    /\ lapsed = [s \in Server |-> 0]

Cast(v, s) ==
    /\ s \in open
    /\ <<v, s>> \notin voted
    /\ voted' = voted \cup {<<v, s>>}
    /\ tally' = [tally EXCEPT ![s] = @ + 1]
    /\ UNCHANGED <<open, lapsed>>

Retract(v, s) ==
    /\ s \in open
    /\ <<v, s>> \in voted
    /\ voted' = voted \ {<<v, s>>}
    /\ tally' = [tally EXCEPT ![s] = @ - 1]
    /\ UNCHANGED <<open, lapsed>>

Lapse(v, s) ==
    /\ s \in open
    /\ <<v, s>> \in voted
    /\ voted' = voted \ {<<v, s>>}
    /\ lapsed' = [lapsed EXCEPT ![s] = @ + 1]
    /\ UNCHANGED <<open, tally>>

\* A retraction decided on before its vote lapsed.
RetractLapsed(s) ==
    /\ s \in open
    /\ lapsed[s] > 0
    /\ lapsed' = [lapsed EXCEPT ![s] = @ - 1]
    /\ tally' = [tally EXCEPT ![s] = @ - 1]
    /\ UNCHANGED <<open, voted>>

Close(s) ==
    /\ s \in open
    /\ open' = open \ {s}
    /\ voted' = {p \in voted : p[2] # s}
    /\ tally' = [tally EXCEPT ![s] = 0]
    /\ lapsed' = [lapsed EXCEPT ![s] = 0]

Next ==
    \E s \in Server :
        \/ \E v \in Voter : Cast(v, s) \/ Retract(v, s) \/ Lapse(v, s)
        \/ RetractLapsed(s)
        \/ Close(s)

Spec == Init /\ [][Next]_vars

-----------------------------------------------------------------------------
\* The tally of a listed server counts exactly the votes cast for it.
TallyCounts ==
    \A s \in open : tally[s] = Cardinality(Votes(s)) + lapsed[s]
=============================================================================

--------------------------- MODULE MCRegistration ---------------------------
(* Values for the constants of Registration that a .cfg cannot write: who  *)
(* uses which browser.                                                     *)
EXTENDS Registration, TLC

CONSTANTS c1, c2, p1, p2

\* p1 has two browsers, one of which p2 uses too.
TwoShareOne == (c1 :> {p1}) @@ (c2 :> {p1, p2})
OneEach == (c1 :> {"discord"}) @@ (c2 :> {"google"})

\* Google tells no address of p2, and not always p1's, whom Discord knows.
MixedOrNone == (p1 :> {"mixed", "empty"}) @@ (p2 :> {"empty"})
SignedIn ==
    {[person |-> p2, email |-> "empty", by |-> "google"],
     [person |-> p1, email |-> "none", by |-> "discord"]}

\* p1 has asked for two codes before.
Twice == <<p1, p1>>
=============================================================================

------------------------------ MODULE MCLikes ------------------------------
(* Small instances of Likes for TLC: who sends requests from which tab.    *)
EXTENDS Likes, TLC

CONSTANTS c1, c2, c3, u1, u2, g1, g2

\* A tab that starts signed in and is signed out later, one that never is.
MixedTabs == c1 :> {u1, g1} @@ c2 :> {g2}
\* Two tabs of a user, one of them signed out at times, and a removal.
TwoUserTabs == c1 :> {u1} @@ c2 :> {u1, g1} @@ c3 :> {}
SameUser == c1 :> {u1} @@ c2 :> {u1}
=============================================================================

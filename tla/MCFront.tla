------------------------------- MODULE MCFront -------------------------------
(* Values for the constants of Front that a .cfg cannot write: what is     *)
(* done in which tab.                                                      *)
EXTENDS Front

CONSTANTS t1, t2

TwoTabs == [t \in Tab |-> IF t = t1 THEN {"login", "get", "set", "logout"}
                          ELSE {"callback", "refresh", "me", "delete", "other"}]
=============================================================================

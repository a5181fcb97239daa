------------------------------ MODULE MCCatalog ------------------------------
(* Clients are alike.                                                      *)
EXTENDS Catalog, TLC
Alike == Permutations(Client)
=============================================================================

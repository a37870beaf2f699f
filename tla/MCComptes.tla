----------------------------- MODULE MCComptes -----------------------------
(***************************************************************************)
(* An instance of Comptes for TLC: an address written in two cases,        *)
(* and the empty address.                                                  *)
(***************************************************************************)
EXTENDS Comptes, TLC

CONSTANTS w1, w2

MCWorkers == {w1, w2}

MCPli == [e \in Emails |-> IF e = "Anne@x" THEN "anne@x" ELSE e]

MCOperations == {"register", "new", "edit", "updateMe", "delete", "login"}
MCSymetrie == Permutations(MCWorkers)
=============================================================================

---------------------------- MODULE MCCatalogue ----------------------------
(***************************************************************************)
(* An instance of Catalogue for TLC.                                       *)
(***************************************************************************)
EXTENDS Catalogue, TLC

CONSTANTS w1, w2, l1, a1, a2, c1

MCWorkers == {w1, w2}
MCLivres == {l1}
MCAuteurs == {a1, a2}
MCCategories == {c1}

MCSymetrie == Permutations(MCWorkers) \cup Permutations(MCAuteurs)
=============================================================================

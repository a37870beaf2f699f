-------------------------- MODULE MCCatalogueListe --------------------------
(***************************************************************************)
(* Instances of CatalogueListe for TLC: two searches that 0 to MaxLivres   *)
(* books match, two to a page.                                             *)
(***************************************************************************)
EXTENDS CatalogueListe
=============================================================================

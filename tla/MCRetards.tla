----------------------------- MODULE MCRetards -----------------------------
(***************************************************************************)
(* An instance of Retards for TLC: seconds of two ticks and a limit of one *)
(* day of two seconds, that loans reach, miss by a fraction of a second    *)
(* and miss by a second and more.                                          *)
(***************************************************************************)
EXTENDS Retards, TLC

CONSTANTS w1, w2

MCWorkers == {w1, w2}
MCSymetrie == Permutations(MCWorkers)
=============================================================================

--------------------------- MODULE MCSessionAuth ---------------------------
(***************************************************************************)
(* Instances of SessionAuth for TLC: a librarian and a member.             *)
(***************************************************************************)
EXTENDS SessionAuth

CONSTANTS t1, t2

MCOnglets == {t1, t2}
=============================================================================

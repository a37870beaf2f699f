------------------------------ MODULE MCProfil ------------------------------
(***************************************************************************)
(* Instances of Profil for TLC: two books, reserved or not, one of which   *)
(* may be lent to the member.                                              *)
(***************************************************************************)
EXTENDS Profil

CONSTANTS moi, l1, l2

MCUtilisateurs == {moi}
MCLivres == {l1, l2}

MCReservation(i, l) == [id |-> i, livre |-> l, utilisateur |-> moi]
MCInitiales == {MCReservation(1, l1), MCReservation(2, l2)}

MCPretables == {[id |-> 1, livre |-> l1, utilisateur |-> moi, dateRetour |-> "null"]}
=============================================================================

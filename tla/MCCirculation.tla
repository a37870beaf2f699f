--------------------------- MODULE MCCirculation ---------------------------
(***************************************************************************)
(* Instances of Circulation for TLC: small sets of rows and workers, and   *)
(* the kinds of request each run lets the clients send.                    *)
(***************************************************************************)
EXTENDS Circulation, TLC

CONSTANTS u1, u2, l1, l2, w1, w2

MCUtilisateurs == {u1, u2}
MCLivres == {l1, l2}
MCUnWorker == {w1}
MCDeuxWorkers == {w1, w2}

\* The loan desk: reservations, loans, returns.
MCGuichet == {"reserver", "empruntNew", "transformer", "rendre"}

\* Reservations from the site and the back office, what uses them up or removes
\* them, and the deletions that race their creation.
MCReservations == {"reserver", "reservationNew", "empruntNew", "transformer"}
                      \cup OpsSuppression

MCSymetrieLignes == Permutations(MCUtilisateurs) \cup Permutations(MCLivres)
MCSymetrie == MCSymetrieLignes \cup Permutations(MCDeuxWorkers)
=============================================================================

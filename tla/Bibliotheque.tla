---------------------------- MODULE Bibliotheque ----------------------------
(***************************************************************************)
(* What the library promises its members, with every request one atomic    *)
(* step: the rules of EmpruntRulesValidator, ReservationRulesValidator and *)
(* ReservationsController::create as guards on the tables themselves.      *)
(* Tolerance is how many rows a rule may be overshot by; 0 is the rule as  *)
(* the application words it.  Circulation implements this specification.   *)
(***************************************************************************)
EXTENDS Naturals, FiniteSets

CONSTANTS Utilisateurs, Livres, MaxEmprunts, MaxReservations, Tolerance

VARIABLES emprunts, reservations, livres, utilisateurs

bibliotheque == <<emprunts, reservations, livres, utilisateurs>>

EnCours(S) == {e \in S : e.dateRetour = "null"}

De(S, u) == {x \in S : x.utilisateur = u}

Sur(S, l) == {x \in S : x.livre = l}

Init ==
    /\ emprunts = {} /\ reservations = {}
    /\ livres = Livres /\ utilisateurs = Utilisateurs

\* A member may have the loan e in addition to the loans S.
PretPermis(S, e) == e.dateRetour = "null" =>
    /\ Cardinality(De(EnCours(S), e.utilisateur)) < MaxEmprunts + Tolerance
    /\ Cardinality(Sur(EnCours(S), e.livre)) < 1 + Tolerance

\* A member may have the reservation r in addition to the reservations S.
ReservationPermise(S, r) ==
    /\ Cardinality(De(S, r.utilisateur)) < MaxReservations + Tolerance
    /\ Cardinality(Sur(S, r.livre)) < 1 + Tolerance
    /\ Cardinality(Sur(EnCours(emprunts), r.livre)) < 1 + Tolerance

Existe(x) == x.utilisateur \in utilisateurs /\ x.livre \in livres

NouvelId(S, x) == \A y \in S : y.id # x.id

\* A loan is recorded.  It uses up a reservation of the same member on the
\* same book: the one there is, when the rules are kept exactly.
Preter(e, honorees) ==
    /\ Existe(e) /\ NouvelId(emprunts, e) /\ PretPermis(emprunts, e)
    /\ honorees \subseteq Sur(De(reservations, e.utilisateur), e.livre)
    /\ Cardinality(honorees) <= 1
    /\ Tolerance = 0 => honorees = Sur(De(reservations, e.utilisateur), e.livre)
    /\ emprunts' = emprunts \cup {e}
    /\ reservations' = reservations \ honorees
    /\ UNCHANGED <<livres, utilisateurs>>

Reserver(r) ==
    /\ Existe(r) /\ NouvelId(reservations, r)
    /\ ReservationPermise(reservations, r)
    /\ reservations' = reservations \cup {r}
    /\ UNCHANGED <<emprunts, livres, utilisateurs>>

Rendre(e) ==
    /\ e \in EnCours(emprunts)
    /\ emprunts' = (emprunts \ {e}) \cup {[e EXCEPT !.dateRetour = "posee"]}
    /\ UNCHANGED <<reservations, livres, utilisateurs>>

Annuler(r) ==
    /\ r \in reservations
    /\ reservations' = reservations \ {r}
    /\ UNCHANGED <<emprunts, livres, utilisateurs>>

OublierPret(e) ==
    /\ e \in emprunts
    /\ emprunts' = emprunts \ {e}
    /\ UNCHANGED <<reservations, livres, utilisateurs>>

\* A correction replaces a row by one that the other rows permit.
CorrigerPret(e, f) ==
    /\ e \in emprunts /\ f.id = e.id /\ Existe(f)
    /\ PretPermis(emprunts \ {e}, f)
    /\ emprunts' = (emprunts \ {e}) \cup {f}
    /\ UNCHANGED <<reservations, livres, utilisateurs>>

CorrigerReservation(r, s) ==
    /\ r \in reservations /\ s.id = r.id /\ Existe(s)
    /\ ReservationPermise(reservations \ {r}, s)
    /\ reservations' = (reservations \ {r}) \cup {s}
    /\ UNCHANGED <<emprunts, livres, utilisateurs>>

\* A book leaves the catalogue with its reservations, never with its loans.
RetirerLivre(l) ==
    /\ Sur(emprunts, l) = {}
    /\ livres' = livres \ {l}
    /\ reservations' = reservations \ Sur(reservations, l)
    /\ UNCHANGED <<emprunts, utilisateurs>>

RadierUtilisateur(u) ==
    /\ De(emprunts, u) = {}
    /\ utilisateurs' = utilisateurs \ {u}
    /\ reservations' = reservations \ De(reservations, u)
    /\ UNCHANGED <<emprunts, livres>>

Next ==
    \/ \E e \in emprunts' : \E R \in SUBSET reservations : Preter(e, R)
    \/ \E r \in reservations' : Reserver(r)
    \/ \E e \in emprunts : Rendre(e) \/ OublierPret(e)
    \/ \E r \in reservations : Annuler(r)
    \/ \E e \in emprunts : \E f \in emprunts' : CorrigerPret(e, f)
    \/ \E r \in reservations : \E s \in reservations' : CorrigerReservation(r, s)
    \/ \E l \in Livres : RetirerLivre(l)
    \/ \E u \in Utilisateurs : RadierUtilisateur(u)

Spec == Init /\ [][Next]_bibliotheque
=============================================================================

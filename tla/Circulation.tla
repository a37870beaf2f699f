---------------------------- MODULE Circulation ----------------------------
(***************************************************************************)
(* The circulation of books in the Symfony application poc_articles: the   *)
(* tables emprunt (loans) and reservations, and every HTTP request of the  *)
(* REST API and of the EasyAdmin back office that writes them.             *)
(*                                                                         *)
(* A PHP worker serves one request at a time.  Doctrine runs each SELECT   *)
(* of a handler on its own (autocommit) and sends all the writes of a      *)
(* handler in one transaction, at flush().  So one step of a worker is one *)
(* query, or one flush, and the workers interleave between these steps.    *)
(*                                                                         *)
(* A request that is refused, that finds its row missing, or whose flush   *)
(* the database rejects, writes nothing.  Requests refused at their very   *)
(* first query (404, 403, "introuvable", "deja ete retourne") change       *)
(* nothing at all and are stuttering steps.                                *)
(***************************************************************************)
EXTENDS Naturals, FiniteSets

CONSTANTS
    Utilisateurs,     \* rows of table utilisateur
    Livres,           \* rows of table livre
    Workers,          \* PHP workers, each serving one request at a time
    Operations,       \* the kinds of request the clients send
    MaxEmprunts,      \* loans in progress per member: 5 in the code
    MaxReservations,  \* reservations per member: 3 in the code
    MaxIdEmprunt,     \* bound: the largest value of the INT column emprunt.id
    MaxIdReservation, \* bound: the largest value of reservations.id
    Nul               \* PHP null, for a member or a book

VARIABLES
    emprunts,         \* rows of table emprunt
    reservations,     \* rows of table reservations
    livres,           \* rows of table livre that still exist
    utilisateurs,     \* rows of table utilisateur that still exist
    seqEmprunt,       \* next AUTO_INCREMENT value of emprunt.id
    seqReservation,   \* next AUTO_INCREMENT value of reservations.id
    requetes          \* the request each worker is serving

tables == <<emprunts, reservations, livres, utilisateurs,
            seqEmprunt, seqReservation>>
vars == <<tables, requetes>>

\* date_retour is NULL while the loan is in progress, set once returned.
DateRetour == {"null", "posee"}

\* Handlers that save a loan, respectively a reservation.
OpsPretNeuf == {"empruntNew", "transformer"}
OpsPretMaj == {"empruntEdit", "rendre"}
OpsResaNeuve == {"reserver", "reservationNew"}
OpsSuppression ==
    {"reservationDelete", "empruntDelete", "livreDelete", "utilisateurDelete"}
\* The EasyAdmin edit forms, that overwrite the columns of an existing row.
OpsEdition == {"empruntEdit", "reservationEdit"}
ToutesOps == OpsPretNeuf \cup OpsPretMaj \cup OpsResaNeuve
                \cup OpsSuppression \cup OpsEdition

\* The places between two queries of a handler.
Pas == {"repos", "r1", "r2", "r3", "livre", "quota", "resa", "flush"}

ASSUME CirculationHypotheses ==
    /\ IsFiniteSet(Workers) /\ Workers # {}
    /\ Operations \subseteq ToutesOps
    /\ MaxEmprunts \in Nat \ {0} /\ MaxReservations \in Nat \ {0}
    /\ MaxIdEmprunt \in Nat /\ MaxIdReservation \in Nat
    /\ Nul \notin Utilisateurs /\ Nul \notin Livres

-----------------------------------------------------------------------------
(* Rows and requests. *)

Emprunt == [id : Nat, utilisateur : Utilisateurs, livre : Livres,
            dateRetour : DateRetour]
Reservation == [id : Nat, utilisateur : Utilisateurs, livre : Livres]

\* A request in progress: the handler, the next query, and what PHP memory
\* holds: the entity being saved (u, l, d, and id, 0 for a new one), the
\* columns in its change set, the reservations scheduled for removal, whether
\* the validator has reported a violation, and the identity map, that is the
\* loans already hydrated with the dateRetour they had then.
Requete == [op : ToutesOps \cup {"repos"}, pas : Pas,
            u : Utilisateurs \cup {Nul}, l : Livres \cup {Nul}, d : DateRetour,
            id : Nat, colonnes : SUBSET {"utilisateur", "livre", "dateRetour"},
            supprime : SUBSET Nat, erreur : BOOLEAN,
            lus : SUBSET [id : Nat, dateRetour : DateRetour]]

Repos == [op |-> "repos", pas |-> "repos", u |-> Nul, l |-> Nul, d |-> "null",
          id |-> 0, colonnes |-> {}, supprime |-> {}, erreur |-> FALSE,
          lus |-> {}]

\* The queries of the repositories, validators and collections.
EnCoursUtilisateur(u) ==
    {e \in emprunts : e.utilisateur = u /\ e.dateRetour = "null"}

EnCoursLivre(l) ==
    {e \in emprunts : e.livre = l /\ e.dateRetour = "null"}

ReservationsUtilisateur(u) == {r \in reservations : r.utilisateur = u}

ReservationsLivre(l) == {r \in reservations : r.livre = l}

SansId(lignes, id) == {x \in lignes : x.id # id}

Init ==
    /\ emprunts = {} /\ reservations = {}
    /\ livres = Livres /\ utilisateurs = Utilisateurs
    /\ seqEmprunt = 1 /\ seqReservation = 1
    /\ requetes = [w \in Workers |-> Repos]

Suite(w, r) == requetes' = [requetes EXCEPT ![w] = r]

Fin(w) == Suite(w, Repos)

\* A free worker takes up request r.
Recevoir(w, r) ==
    /\ requetes[w].op = "repos"
    /\ r.op \in Operations
    /\ Suite(w, r)
    /\ UNCHANGED tables

-----------------------------------------------------------------------------
(* Reception of a request: the handler loads the entities it works on. *)

\* POST /api/reservations/{livre} by the member u.
Reserver(w) == \E u \in utilisateurs, l \in livres :
    Recevoir(w, [Repos EXCEPT !.op = "reserver", !.pas = "r1",
                              !.u = u, !.l = l])

\* The back office's form for a new reservation.
NouvelleReservation(w) == \E u \in utilisateurs, l \in livres :
    Recevoir(w, [Repos EXCEPT !.op = "reservationNew", !.pas = "r1",
                              !.u = u, !.l = l])

\* Columns in which the submitted form (u, l) differs from the loaded row x.
Colonnes(x, u, l) ==
    {c \in {"utilisateur", "livre"} :
        \/ c = "utilisateur" /\ u # x.utilisateur
        \/ c = "livre" /\ l # x.livre}

\* The back office's form that edits a reservation.
EditerReservation(w) ==
    \E r \in reservations, u \in utilisateurs, l \in livres :
        Recevoir(w, [Repos EXCEPT !.op = "reservationEdit", !.pas = "r1",
                                  !.u = u, !.l = l, !.id = r.id,
                                  !.colonnes = Colonnes(r, u, l)])

\* The link "Transformer en emprunt" on a reservation.
TransformerEnEmprunt(w) == \E r \in reservations :
    Recevoir(w, [Repos EXCEPT !.op = "transformer", !.pas = "r1",
                              !.u = r.utilisateur, !.l = r.livre,
                              !.supprime = {r.id}])

\* The back office's form for a new loan.  The validator lets a loan with a
\* return date through: persistEntity is then the next to run.
NouvelEmprunt(w) ==
    \E u \in utilisateurs, l \in livres, d \in DateRetour :
        Recevoir(w, [Repos EXCEPT !.op = "empruntNew",
                                  !.pas = IF d = "null" THEN "r1" ELSE "livre",
                                  !.u = u, !.l = l, !.d = d])

\* The back office's form that edits a loan.  A return date may be replaced by
\* another one: the column is then written although it stays set.
EditerEmprunt(w) ==
    \E e \in emprunts, u \in utilisateurs, l \in livres, d \in DateRetour :
    \E autreDate \in IF d = "posee" THEN BOOLEAN ELSE {FALSE} :
        Recevoir(w, [Repos EXCEPT !.op = "empruntEdit",
                                  !.pas = IF d = "null" THEN "r1" ELSE "flush",
                                  !.u = u, !.l = l, !.d = d, !.id = e.id,
                                  !.colonnes = Colonnes(e, u, l) \cup
                                      IF d # e.dateRetour \/ autreDate
                                      THEN {"dateRetour"} ELSE {}])

\* The link "Enregistrer le retour" on a loan that has no return date.
RendreLivre(w) == \E e \in emprunts :
    /\ e.dateRetour = "null"
    /\ Recevoir(w, [Repos EXCEPT !.op = "rendre", !.pas = "flush",
                                 !.d = "posee", !.id = e.id,
                                 !.colonnes = {"dateRetour"}])

\* DELETE /api/reservations/{id} by its owner, or deletion in the back office.
SupprimerReservation(w) == \E r \in reservations :
    Recevoir(w, [Repos EXCEPT !.op = "reservationDelete", !.pas = "flush",
                              !.supprime = {r.id}])

\* Deletion of a loan in the back office.
SupprimerEmprunt(w) == \E e \in emprunts :
    Recevoir(w, [Repos EXCEPT !.op = "empruntDelete", !.pas = "flush",
                              !.id = e.id])

\* Deletion of a book: remove() cascades to the reservations it finds.
SupprimerLivre(w) == \E l \in livres :
    Recevoir(w, [Repos EXCEPT !.op = "livreDelete", !.pas = "flush", !.l = l,
                 !.supprime = {r.id : r \in ReservationsLivre(l)}])

\* Deletion of a member: remove() cascades to the reservations it finds.
SupprimerUtilisateur(w) == \E u \in utilisateurs :
    Recevoir(w, [Repos EXCEPT !.op = "utilisateurDelete", !.pas = "flush",
                 !.u = u,
                 !.supprime = {r.id : r \in ReservationsUtilisateur(u)}])

Reception(w) ==
    \/ Reserver(w)             \/ NouvelleReservation(w)
    \/ EditerReservation(w)    \/ TransformerEnEmprunt(w)
    \/ NouvelEmprunt(w)        \/ EditerEmprunt(w)
    \/ RendreLivre(w)          \/ SupprimerReservation(w)
    \/ SupprimerEmprunt(w)     \/ SupprimerLivre(w)
    \/ SupprimerUtilisateur(w)

-----------------------------------------------------------------------------
(* The rules.  The API answers 409 at the first one broken; a validator      *)
(* checks them all, and the form is shown again if it reported a violation.  *)

Regle(w, viole, suivant) ==
    LET r == requetes[w]
    IN  IF viole /\ r.op = "reserver"
        THEN Fin(w)
        ELSE Suite(w, [r EXCEPT !.erreur = r.erreur \/ viole, !.pas = suivant])

DerniereRegle(w, viole, suivant) ==
    LET r == requetes[w]
    IN  IF viole \/ r.erreur
        THEN Fin(w)
        ELSE Suite(w, [r EXCEPT !.pas = suivant])

OpsRegleReservation == OpsResaNeuve \cup {"reservationEdit"}

\* Mutant: off by one, > for >=.
TropDeReservations_decale(r) ==
    Cardinality(SansId(ReservationsUtilisateur(r.u), r.id)) > MaxReservations

TropDeReservations(r) ==
    Cardinality(SansId(ReservationsUtilisateur(r.u), r.id)) >= MaxReservations

\* Mutant: only the member's own reservations of the book are looked at.
DejaReserve_parSoi(r) ==
    SansId(ReservationsLivre(r.l) \cap ReservationsUtilisateur(r.u), r.id) # {}

DejaReserve(r) == SansId(ReservationsLivre(r.l), r.id) # {}

ReservationRegle1(w) ==
    /\ requetes[w].op \in OpsRegleReservation /\ requetes[w].pas = "r1"
    /\ Regle(w, TropDeReservations(requetes[w]), "r2")
    /\ UNCHANGED tables

ReservationRegle2(w) ==
    /\ requetes[w].op \in OpsRegleReservation /\ requetes[w].pas = "r2"
    /\ Regle(w, DejaReserve(requetes[w]), "r3")
    /\ UNCHANGED tables

ReservationRegle3(w) ==
    /\ requetes[w].op \in OpsRegleReservation /\ requetes[w].pas = "r3"
    /\ DerniereRegle(w, EnCoursLivre(requetes[w].l) # {}, "flush")
    /\ UNCHANGED tables

OpsRegleEmprunt == OpsPretNeuf \cup {"empruntEdit"}

\* Mutant: the quota of loans is not checked.
TropDEmprunts_oublie(r) == FALSE

TropDEmprunts(r) ==
    Cardinality(SansId(EnCoursUtilisateur(r.u), r.id)) >= MaxEmprunts

\* Mutant: only the member's own loans of the book are looked at.
DejaEmprunte_parSoi(r) ==
    SansId(EnCoursLivre(r.l) \cap EnCoursUtilisateur(r.u), r.id) # {}

DejaEmprunte(r) == SansId(EnCoursLivre(r.l), r.id) # {}

\* What a query leaves in the identity map.  Only persistEntity looks there.
Hydrate(r, lignes) ==
    r.lus \cup {[id |-> e.id, dateRetour |-> e.dateRetour] : e \in lignes}

EmpruntRegle1(w) ==
    LET r == requetes[w]
        suite == [r EXCEPT !.erreur = TropDEmprunts(r), !.pas = "r2"]
    IN  /\ r.op \in OpsRegleEmprunt /\ r.pas = "r1"
        /\ Suite(w, IF r.op = "empruntNew"
                    THEN [suite EXCEPT
                             !.lus = Hydrate(r, EnCoursUtilisateur(r.u))]
                    ELSE suite)
        /\ UNCHANGED tables

EmpruntRegle2(w) ==
    /\ requetes[w].op \in OpsRegleEmprunt /\ requetes[w].pas = "r2"
    /\ DerniereRegle(w, DejaEmprunte(requetes[w]),
                     IF requetes[w].op = "empruntNew" THEN "livre" ELSE "flush")
    /\ UNCHANGED tables

-----------------------------------------------------------------------------
(* EmpruntCrudController::persistEntity, before it calls its parent.  A loan *)
(* that the identity map already holds is not refreshed by a later query.    *)

ParaitEnCours(r, e) ==
    \/ [id |-> e.id, dateRetour |-> "null"] \in r.lus
    \/ /\ e.dateRetour = "null"
       /\ [id |-> e.id, dateRetour |-> "posee"] \notin r.lus

EmpruntsLivre(l) == {e \in emprunts : e.livre = l}

EmpruntsUtilisateur(u) == {e \in emprunts : e.utilisateur = u}

IsEmprunte(r) == \E e \in EmpruntsLivre(r.l) : ParaitEnCours(r, e)

QuotaAtteint(r) ==
    Cardinality({e \in EmpruntsUtilisateur(r.u) : ParaitEnCours(r, e)})
        >= MaxEmprunts

PersistLivre(w) ==
    LET r == requetes[w]
    IN  /\ r.pas = "livre"
        /\ IF IsEmprunte(r)
           THEN Fin(w)
           ELSE Suite(w, [r EXCEPT !.pas = "quota",
                                   !.lus = Hydrate(r, EmpruntsLivre(r.l))])
        /\ UNCHANGED tables

PersistQuota(w) ==
    LET r == requetes[w]
    IN  /\ r.pas = "quota"
        /\ IF QuotaAtteint(r)
           THEN Fin(w)
           ELSE Suite(w, [r EXCEPT !.pas = "resa", !.lus = {}])
        /\ UNCHANGED tables

\* Mutant: any reservation of the book, whoever made it.
ReservationsDuPret_duLivre(r) == {x.id : x \in ReservationsLivre(r.l)}

\* Mutant: the reservation is not looked for.
ReservationsDuPret_oubliee(r) == {}

\* findOneBy has no ORDER BY: any reservation of this member and book.
ReservationsDuPret(r) ==
    {x.id : x \in ReservationsLivre(r.l) \cap ReservationsUtilisateur(r.u)}

PersistReservation(w) ==
    LET r == requetes[w]
    IN  /\ r.pas = "resa"
        /\ \/ \E id \in ReservationsDuPret(r) :
                Suite(w, [r EXCEPT !.pas = "flush", !.supprime = {id}])
           \/ /\ ReservationsDuPret(r) = {}
              /\ Suite(w, [r EXCEPT !.pas = "flush"])
        /\ UNCHANGED tables

-----------------------------------------------------------------------------
(* flush(): one transaction.  It needs a free id and the rows its foreign    *)
(* keys refer to; otherwise the database rejects it and Echec is what        *)
(* happens.  An UPDATE or DELETE of a row that is gone touches no row.       *)

Flush(w, ops) ==
    /\ requetes[w].op \in ops /\ requetes[w].pas = "flush"
    /\ Fin(w)

\* Mutant: the tables have no foreign keys.
ClesEtrangeres_absentes(r) == TRUE

ClesEtrangeres(r) == r.u \in utilisateurs /\ r.l \in livres

SansReservations(ids) == {r \in reservations : r.id \notin ids}

FlushNouvelEmprunt(w) ==
    LET r == requetes[w]
    IN  /\ Flush(w, OpsPretNeuf)
        /\ seqEmprunt <= MaxIdEmprunt
        /\ ClesEtrangeres(r)
        /\ emprunts' = emprunts \cup {[id |-> seqEmprunt, utilisateur |-> r.u,
                                       livre |-> r.l, dateRetour |-> r.d]}
        /\ seqEmprunt' = seqEmprunt + 1
        /\ reservations' = SansReservations(r.supprime)
        /\ UNCHANGED <<livres, utilisateurs, seqReservation>>

FlushNouvelleReservation(w) ==
    LET r == requetes[w]
    IN  /\ Flush(w, OpsResaNeuve)
        /\ seqReservation <= MaxIdReservation
        /\ ClesEtrangeres(r)
        /\ reservations' = reservations \cup
               {[id |-> seqReservation, utilisateur |-> r.u, livre |-> r.l]}
        /\ seqReservation' = seqReservation + 1
        /\ UNCHANGED <<emprunts, livres, utilisateurs, seqEmprunt>>

\* Only the changed columns are written, whatever the row holds by now.
ColonnesValides(r) ==
    /\ "utilisateur" \in r.colonnes => r.u \in utilisateurs
    /\ "livre" \in r.colonnes => r.l \in livres

Ecrit(r, colonne, nouveau, ancien) ==
    IF colonne \in r.colonnes THEN nouveau ELSE ancien

FlushEmprunt(w) ==
    LET r == requetes[w]
    IN  /\ Flush(w, OpsPretMaj)
        /\ ColonnesValides(r)
        /\ emprunts' = SansId(emprunts, r.id) \cup
               {[e EXCEPT
                    !.utilisateur = Ecrit(r, "utilisateur", r.u, e.utilisateur),
                    !.livre = Ecrit(r, "livre", r.l, e.livre),
                    !.dateRetour = Ecrit(r, "dateRetour", r.d, e.dateRetour)]
                : e \in {x \in emprunts : x.id = r.id}}
        /\ UNCHANGED <<reservations, livres, utilisateurs,
                       seqEmprunt, seqReservation>>

FlushReservation(w) ==
    LET r == requetes[w]
    IN  /\ Flush(w, {"reservationEdit"})
        /\ ColonnesValides(r)
        /\ reservations' = SansId(reservations, r.id) \cup
               {[x EXCEPT
                    !.utilisateur = Ecrit(r, "utilisateur", r.u, x.utilisateur),
                    !.livre = Ecrit(r, "livre", r.l, x.livre)]
                : x \in {y \in reservations : y.id = r.id}}
        /\ UNCHANGED <<emprunts, livres, utilisateurs,
                       seqEmprunt, seqReservation>>

FlushSuppressionReservation(w) ==
    /\ Flush(w, {"reservationDelete"})
    /\ reservations' = SansReservations(requetes[w].supprime)
    /\ UNCHANGED <<emprunts, livres, utilisateurs, seqEmprunt, seqReservation>>

FlushSuppressionEmprunt(w) ==
    /\ Flush(w, {"empruntDelete"})
    /\ emprunts' = SansId(emprunts, requetes[w].id)
    /\ UNCHANGED <<reservations, livres, utilisateurs,
                   seqEmprunt, seqReservation>>

\* RESTRICT: a row that a loan or a remaining reservation refers to stays.
FlushSuppressionLivre(w) ==
    LET r == requetes[w]
    IN  /\ Flush(w, {"livreDelete"})
        /\ EmpruntsLivre(r.l) = {}
        /\ reservations' = SansReservations(r.supprime)
        /\ \A x \in reservations' : x.livre # r.l
        /\ livres' = livres \ {r.l}
        /\ UNCHANGED <<emprunts, utilisateurs, seqEmprunt, seqReservation>>

FlushSuppressionUtilisateur(w) ==
    LET r == requetes[w]
    IN  /\ Flush(w, {"utilisateurDelete"})
        /\ EmpruntsUtilisateur(r.u) = {}
        /\ reservations' = SansReservations(r.supprime)
        /\ \A x \in reservations' : x.utilisateur # r.u
        /\ utilisateurs' = utilisateurs \ {r.u}
        /\ UNCHANGED <<emprunts, livres, seqEmprunt, seqReservation>>

\* A request that dies at any of its steps: the database rejects the flush (a
\* foreign key, no id left), the connection is lost, PHP stops.
Echec(w) ==
    /\ requetes[w].op # "repos"
    /\ Fin(w)
    /\ UNCHANGED tables

Etape(w) ==
    \/ ReservationRegle1(w)         \/ ReservationRegle2(w)
    \/ ReservationRegle3(w)         \/ EmpruntRegle1(w)
    \/ EmpruntRegle2(w)             \/ PersistLivre(w)
    \/ PersistQuota(w)              \/ PersistReservation(w)
    \/ FlushNouvelEmprunt(w)        \/ FlushNouvelleReservation(w)
    \/ FlushEmprunt(w)              \/ FlushReservation(w)
    \/ FlushSuppressionReservation(w) \/ FlushSuppressionEmprunt(w)
    \/ FlushSuppressionLivre(w)     \/ FlushSuppressionUtilisateur(w)

Next == \E w \in Workers : Reception(w) \/ Etape(w) \/ Echec(w)

Spec == Init /\ [][Next]_vars

-----------------------------------------------------------------------------
(* Properties. *)

\* Every table and every request stays within its type, every loan and every
\* reservation refers to a member and a book that still exist (the foreign keys
\* of the migration, under concurrent deletions), and no row has an id that
\* AUTO_INCREMENT has yet to hand out.
TypeOK ==
    /\ emprunts \subseteq Emprunt
    /\ reservations \subseteq Reservation
    /\ livres \subseteq Livres /\ utilisateurs \subseteq Utilisateurs
    /\ \A x \in emprunts \cup reservations :
            x.utilisateur \in utilisateurs /\ x.livre \in livres
    /\ seqEmprunt \in Nat \ {0} /\ seqReservation \in Nat \ {0}
    /\ \A e \in emprunts : e.id \in 1 .. seqEmprunt - 1
    /\ \A r \in reservations : r.id \in 1 .. seqReservation - 1
    /\ requetes \in [Workers -> Requete]

\* How far concurrent requests may overshoot a rule: each rule is checked by a
\* query and relied upon by a later flush, so every other worker may slip one
\* row in between.
Tolerance == Cardinality(Workers) - 1

\* RÈGLE 1 of EmpruntRulesValidator: a member has at most MaxEmprunts loans in
\* progress, plus one per other worker.
QuotaEmprunts == \A u \in Utilisateurs :
    Cardinality(EnCoursUtilisateur(u)) <= MaxEmprunts + Tolerance

\* RÈGLE 2 of EmpruntRulesValidator: a book is on loan to one member at a time,
\* plus one per other worker.
PretsParLivre == \A l \in Livres :
    Cardinality(EnCoursLivre(l)) <= 1 + Tolerance

\* Rule 1 of ReservationsController::create and of ReservationRulesValidator: a
\* member has at most MaxReservations reservations, plus one per other worker.
QuotaReservations == \A u \in Utilisateurs :
    Cardinality(ReservationsUtilisateur(u)) <= MaxReservations + Tolerance

\* Rule 2 of the same: a book has one reservation, plus one per other worker.
ReservationsParLivre == \A l \in Livres :
    Cardinality(ReservationsLivre(l)) <= 1 + Tolerance

\* The requests that have passed a rule and still rely on it: a loan being
\* saved, after rule 1 for the member's quota, after rule 2 for the book ...
AttendPretDe(r, u) ==
    /\ r.op \in OpsPretNeuf /\ r.d = "null" /\ r.u = u /\ ~r.erreur
    /\ r.pas \in {"r2", "livre", "quota", "resa", "flush"}

AttendPretSur(r, l) ==
    /\ r.op \in OpsPretNeuf /\ r.d = "null" /\ r.l = l
    /\ r.pas \in {"livre", "quota", "resa", "flush"}

\* ... and a reservation being saved, likewise.
AttendResaDe(r, u) ==
    /\ r.op \in OpsResaNeuve /\ r.u = u /\ ~r.erreur
    /\ r.pas \in {"r2", "r3", "flush"}

AttendResaSur(r, l) ==
    /\ r.op \in OpsResaNeuve /\ r.l = l /\ ~r.erreur
    /\ r.pas \in {"r3", "flush"}

\* What the memory of a request holds at each of its steps, as its handler left
\* it there.
RequeteCoherente(r) ==
    /\ r.op \in Operations \cup {"repos"}
    /\ r.op \in OpsPretNeuf \cup OpsResaNeuve => r.id = 0
    /\ r.op = "rendre" => r.d = "posee" /\ r.colonnes = {"dateRetour"}
    /\ r.pas \notin {"r2", "r3"} => ~r.erreur
    /\ r.pas \in {"livre", "quota", "resa"} => r.op = "empruntNew"

\* Why the overshoot is bounded, without the edit forms: the rows that a rule
\* counts, together with the requests that have passed this rule and are about
\* to add such a row, never exceed the rule by more than the tolerance.  A
\* request joins them only when the rows alone are within the rule, and a flush
\* turns one such request into one such row.
RegleRespectee(lignes, attente, maximum) ==
    /\ IsFiniteSet(lignes)
    /\ Cardinality(lignes) + Cardinality(attente) <= maximum + Tolerance

InvInductif ==
    /\ \A w \in Workers : RequeteCoherente(requetes[w])
    /\ \A u \in Utilisateurs :
        /\ RegleRespectee(EnCoursUtilisateur(u),
               {w \in Workers : AttendPretDe(requetes[w], u)}, MaxEmprunts)
        /\ RegleRespectee(ReservationsUtilisateur(u),
               {w \in Workers : AttendResaDe(requetes[w], u)}, MaxReservations)
    /\ \A l \in Livres :
        /\ RegleRespectee(EnCoursLivre(l),
               {w \in Workers : AttendPretSur(requetes[w], l)}, 1)
        /\ RegleRespectee(ReservationsLivre(l),
               {w \in Workers : AttendResaSur(requetes[w], l)}, 1)

\* A reservation disappears only because its deletion was asked for, because
\* its book or its member is deleted, or because the same flush records a loan
\* of that book to that member (persistEntity, transformerEnEmprunt), however
\* long ago the handler found the reservation.
PerteJustifiee ==
    \A x \in reservations \ reservations' :
        \/ \E w \in Workers : /\ requetes[w].op = "reservationDelete"
                              /\ x.id \in requetes[w].supprime
        \/ x.livre \notin livres' \/ x.utilisateur \notin utilisateurs'
        \/ \E e \in emprunts' \ emprunts :
              e.livre = x.livre /\ e.utilisateur = x.utilisateur

ReservationHonoree == [][PerteJustifiee]_vars

\* When requests are served one by one, a new loan that the validator accepted
\* is never stopped by the two LogicExceptions of persistEntity, that repeat
\* the validator's rules over the entity's collections.
ControleRedondant == \A w \in Workers :
    LET r == requetes[w]
    IN  r.op = "empruntNew" /\ r.d = "null" =>
            /\ r.pas = "livre" => ~IsEmprunte(r)
            /\ r.pas = "quota" => ~QuotaAtteint(r)

\* The members with a reservation for a book they have on loan.
DoublesTitres == {<<r.utilisateur, r.livre>> : r \in {s \in reservations :
    \E e \in EnCoursLivre(s.livre) : e.utilisateur = s.utilisateur}}

\* When requests are served one by one, only an edit form can give a member a
\* reservation for a book they have on loan: recording a loan removes the
\* reservation (persistEntity, transformerEnEmprunt), and rule 3 refuses a new one.
PasDeDoubleTitre ==
    [][Cardinality(Workers) = 1 =>
        \/ DoublesTitres' \subseteq DoublesTitres
        \/ \E w \in Workers : requetes[w].op \in OpsEdition]_vars

\* The tables behave as Bibliotheque promises, within the tolerance: every
\* handler, seen from the database, is one step that keeps the rules.
Promesse == INSTANCE Bibliotheque WITH
    Tolerance <- Cardinality(Workers) - 1,
    emprunts <- emprunts, reservations <- reservations,
    livres <- livres, utilisateurs <- utilisateurs
TientPromesse == Promesse!Spec

\* "Ce livre est déjà emprunté par un autre adhérent." (EmpruntRules): a book is
\* never on loan twice at the same time.
JamaisEmprunteDeuxFois == \A l \in Livres : Cardinality(EnCoursLivre(l)) <= 1

\* "3 réservations max" (ReservationsController::create).
JamaisTropDeReservations == \A u \in Utilisateurs :
    Cardinality(ReservationsUtilisateur(u)) <= MaxReservations

\* "Si l'emprunt a une date de retour, on ne bloque pas" (EmpruntRulesValidator):
\* a loan entered with its return date is not refused.
HistoriqueJamaisBloque == \A w \in Workers :
    LET r == requetes[w]
    IN  r.op = "empruntNew" /\ r.d = "posee" =>
            /\ r.pas = "livre" => ~IsEmprunte(r)
            /\ r.pas = "quota" => ~QuotaAtteint(r)
=============================================================================

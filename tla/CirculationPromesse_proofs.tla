--------------------- MODULE CirculationPromesse_proofs ---------------------
(***************************************************************************)
(* No reservation is lost: whatever the workers interleave, one disappears *)
(* only for a reason its member or the library can name.  The handlers     *)
(* hold ids of reservations found by an earlier query, so the argument is  *)
(* about what those ids still stand for when the flush deletes them.       *)
(*                                                                         *)
(* With that and the limits of Circulation_proofs, the tables behave as    *)
(* Bibliotheque promises: for any number of workers without the edit       *)
(* forms, and with them for one worker.  With one worker, a reservation of *)
(* a book the member has on loan never appears but by an edit, and the     *)
(* checks that persistEntity repeats never refuse a loan.                  *)
(***************************************************************************)
EXTENDS Circulation_proofs

-----------------------------------------------------------------------------
(* What else a flush relies on: rule 3, and the reservation it uses up. *)

\* A reservation about to be flushed passed rule 3, that found its book free:
\* since then at most the other workers have lent it, or are about to.
LivreLibre == \A v \in Workers :
    requetes[v].op \in OpsResaNeuve /\ requetes[v].pas = "flush" =>
        \A l \in Livres : l = requetes[v].l =>
            RegleRespectee(EnCoursLivre(l),
                {w \in Workers : AttendPretSur(requetes[w], l)}, 0)

\* A single worker knows of the reservation that its loan uses up.
ReservationConnue == Cardinality(Workers) = 1 => \A w \in Workers :
    \/ requetes[w].op = "transformer"
    \/ requetes[w].op = "empruntNew" /\ requetes[w].pas = "flush"
    => \A x \in reservations :
          x.utilisateur = requetes[w].u /\ x.livre = requetes[w].l =>
              x.id \in requetes[w].supprime

\* What the refinement needs besides the limits and the ids.
InvPromesse == LivreLibre /\ ReservationConnue

\* What is known already: the types, the ids, the limits and the edits.
InvBase == /\ TypeOK /\ IdsEmprunts /\ IdsReservations
           /\ InvInductif /\ InvEdition

\* All of it is invariant.
LEMMA BaseInvariante ==
    ASSUME SansCourse
    PROVE  Spec => []InvBase
  BY TypeCorrect, IdsUniques, DepassementBorne, PTL DEF InvBase

\* No row is counted and one worker does not rely on the rule.
LEMMA BilanVide ==
    ASSUME NEW v \in Workers, NEW Q \in SUBSET Workers, v \notin Q
    PROVE  RegleRespectee({}, Q, 0)
  <1>1. IsFiniteSet(Workers) /\ Cardinality(Workers) \in Nat
    BY CirculationHypotheses, FS_CardinalityType
  <1>2. /\ IsFiniteSet(Workers \ {v})
        /\ Cardinality(Workers \ {v}) = Cardinality(Workers) - 1
    BY <1>1, FS_RemoveElement
  <1>3. IsFiniteSet(Q) /\ Cardinality(Q) <= Cardinality(Workers \ {v})
    BY <1>2, FS_Subset
  <1>4. IsFiniteSet({}) /\ Cardinality({}) = 0 /\ Cardinality(Q) \in Nat
    BY <1>3, FS_EmptySet, FS_CardinalityType
  <1> QED
    BY <1>1, <1>2, <1>3, <1>4 DEF RegleRespectee, Tolerance

\* A request that relies on a rule leaves room for its own row.
LEMMA Place ==
    ASSUME NEW A, NEW P \in SUBSET Workers, NEW w \in P, NEW M \in Nat,
           RegleRespectee(A, P, M)
    PROVE  Cardinality(A) < M + (Cardinality(Workers) - 1)
  <1>1. IsFiniteSet(A) /\ IsFiniteSet(P) /\ IsFiniteSet(Workers)
    BY FS_Subset, CirculationHypotheses DEF RegleRespectee
  <1>2. /\ Cardinality(A) \in Nat /\ Cardinality(P) \in Nat
        /\ Cardinality(Workers) \in Nat
    BY <1>1, FS_CardinalityType
  <1>3. Cardinality(P) # 0
    BY <1>1, FS_EmptySet
  <1> QED
    BY <1>2, <1>3 DEF RegleRespectee, Tolerance

\* Served by one worker, a book has one reservation.
LEMMA UneReservation ==
    ASSUME TypeOK, InvInductif, Cardinality(Workers) = 1,
           NEW x \in reservations, NEW y \in reservations, x.livre = y.livre
    PROVE  x = y
  <1> DEFINE A == ReservationsLivre(x.livre)
  <1>1. x.livre \in Livres
    BY DEF TypeOK, Reservation
  <1>2. IsFiniteSet(A) /\ Cardinality(A) <= 1 + Tolerance
    BY Zenon, <1>1, InvariantLimites DEF InvInductif, RegleRespectee,
         ReservationsParLivre
  <1>3. Cardinality(A) \in Nat /\ Cardinality(A) <= 1
    BY <1>2, FS_CardinalityType DEF Tolerance
  <1>4. x \in A /\ y \in A
    BY DEF ReservationsLivre
  <1> HIDE DEF A
  <1>5. Cardinality(A) # 0
    BY <1>2, <1>4, FS_EmptySet
  <1>6. Cardinality(A) = 1
    BY <1>3, <1>5
  <1>7. \E z : A = {z}
    BY Zenon, <1>2, <1>6, FS_Singleton
  <1> QED
    BY <1>4, <1>7

\* A step that only moves a request on keeps the book of a reservation free.
LEMMA ProgresLibre ==
    ASSUME TypeOK, InvInductif, LivreLibre, NEW w \in Workers, NEW s,
           Progres(requetes[w], s), Suite(w, s), UNCHANGED tables
    PROVE  LivreLibre'
  <1>1. requetes'[w] = s /\ \A v \in Workers \ {w} : requetes'[v] = requetes[v]
    BY DEF Suite, TypeOK
  <1>2. SUFFICES ASSUME NEW v \in Workers, NEW l \in Livres,
                        requetes'[v].op \in OpsResaNeuve,
                        requetes'[v].pas = "flush", l = requetes'[v].l
                 PROVE  RegleRespectee(EnCoursLivre(l),
                          {x \in Workers : AttendPretSur(requetes[x], l)}, 0)'
    BY DEF LivreLibre
  <1> DEFINE A == EnCoursLivre(l)
             P == {x \in Workers : AttendPretSur(requetes[x], l)}
  <1>3. A' = A
    BY DEF EnCoursLivre, tables
  <1>4. v \notin P'
    BY <1>2 DEF AttendPretSur, OpsResaNeuve, OpsPretNeuf
  <1>5. A = {} \/ (v # w /\ P' \subseteq P)
    <2>1. CASE v = w
      BY <1>1, <1>2, <2>1 DEF Progres
    <2>2. CASE v # w /\ ~(P' \subseteq P)
      <3>1. Cardinality(A) < 1
        BY <1>1, <2>2 DEF Progres, AttendPretSur
      <3>2. IsFiniteSet(A)
        BY Zenon DEF InvInductif, RegleRespectee
      <3> HIDE DEF A
      <3>3. Cardinality(A) = 0
        BY <3>1, <3>2, FS_CardinalityType
      <3> QED
        BY <3>2, <3>3, FS_EmptySet
    <2> QED
      BY <2>1, <2>2
  <1>6. CASE A = {}
    <2>1. RegleRespectee({}, P', 0)
      BY <1>4, BilanVide
    <2> QED
      BY <1>3, <1>6, <2>1 DEF RegleRespectee, Tolerance
  <1>7. CASE v # w /\ P' \subseteq P
    <2>1. RegleRespectee(A, P, 0)
      BY <1>1, <1>2, <1>7 DEF LivreLibre
    <2>2. RegleRespectee(A', P', 0)
      <3> HIDE DEF A
      <3> QED BY Zenon, <1>3, <1>7, <2>1, Bilan
    <2> QED
      BY <2>2 DEF RegleRespectee, Tolerance
  <1> QED
    BY <1>5, <1>6, <1>7

\* So does a flush: it turns a request that relies on rule 2 into a loan.
LEMMA EnregistreLibre ==
    ASSUME TypeOK, InvInductif, LivreLibre, NEW w \in Workers,
           Suite(w, Repos), Enregistre(w)
    PROVE  LivreLibre'
  <1>1. /\ requetes'[w] = Repos
        /\ \A v \in Workers \ {w} : requetes'[v] = requetes[v]
    BY DEF Suite, TypeOK
  <1>2. SUFFICES ASSUME NEW v \in Workers, NEW l \in Livres,
                        requetes'[v].op \in OpsResaNeuve,
                        requetes'[v].pas = "flush", l = requetes'[v].l
                 PROVE  RegleRespectee(EnCoursLivre(l),
                          {x \in Workers : AttendPretSur(requetes[x], l)}, 0)'
    BY DEF LivreLibre
  <1> DEFINE A == EnCoursLivre(l)
             P == {x \in Workers : AttendPretSur(requetes[x], l)}
  <1>3. v # w
    BY <1>1, <1>2 DEF Repos
  <1>4. RegleRespectee(A, P, 0)
    BY <1>1, <1>2, <1>3 DEF LivreLibre
  <1>5. P' \subseteq P \ {w}
    BY <1>1 DEF AttendPretSur, Repos, OpsPretNeuf
  <1>6. \/ A' \subseteq A
        \/ w \in P /\ \E x : A' \subseteq A \cup {x}
    BY DEF Enregistre
  <1>7. \/ A' \subseteq A /\ P' \subseteq P
        \/ \E x : \E y \in P : A' \subseteq A \cup {x} /\ P' \subseteq P \ {y}
    BY <1>5, <1>6
  <1>8. RegleRespectee(A', P', 0)
    <2> HIDE DEF A
    <2> QED BY Zenon, <1>4, <1>7, Bilan
  <1> QED
    BY <1>8 DEF RegleRespectee, Tolerance

\* Receiving a request: the link found its reservation, the form looks later.
LEMMA ReceptionConnue ==
    ASSUME TypeOK, InvInductif, NEW w \in Workers, Reception(w)
    PROVE  ReservationConnue'
  <1>1. PICK s \in Requete : Recevoir(w, s) /\ Fraiche(s)
    BY ReceptionForme
  <1>2. requetes'[w] = s /\ reservations' = reservations
    BY <1>1 DEF Recevoir, Suite, TypeOK, tables
  <1>3. SUFFICES ASSUME Cardinality(Workers) = 1, NEW x \in reservations,
                        x.livre = s.l, s.op = "transformer"
                 PROVE  x.id \in s.supprime
    BY <1>1, <1>2, SeulWorker DEF ReservationConnue, Fraiche
  <1>4. PICK y \in reservations : s.supprime = {y.id} /\ s.l = y.livre
    BY <1>1, <1>3 DEF Fraiche
  <1>5. x = y
    BY <1>3, <1>4, UneReservation
  <1> QED
    BY <1>4, <1>5

\* The rules and persistEntity: findOneBy finds the only reservation there is.
LEMMA VerificationConnue ==
    ASSUME TypeOK, InvInductif, ReservationConnue, NEW w \in Workers,
           Suite(w, requetes'[w]), UNCHANGED tables,
           \/ requetes'[w] = Repos
           \/ Continue(requetes[w], requetes'[w])
           \/ PersistReservation(w)
    PROVE  ReservationConnue'
  <1> DEFINE r == requetes[w]
             s == requetes'[w]
  <1>1. r \in Requete /\ RequeteCoherente(r) /\ reservations' = reservations
    BY DEF TypeOK, InvInductif, tables
  <1>2. SUFFICES ASSUME Cardinality(Workers) = 1, NEW x \in reservations,
                        \/ s.op = "transformer"
                        \/ s.op = "empruntNew" /\ s.pas = "flush",
                        x.utilisateur = s.u, x.livre = s.l
                 PROVE  x.id \in s.supprime
    BY <1>1, SeulWorker DEF ReservationConnue
  <1>3. CASE s = Repos
    BY <1>2, <1>3 DEF Repos
  <1>4. CASE Continue(r, s)
    BY <1>2, <1>4 DEF Continue, ReservationConnue
  <1>5. CASE PersistReservation(w)
    <2>1. ASSUME NEW y, Suite(w, y)
          PROVE  s = y
      BY <2>1 DEF Suite, TypeOK
    <2>2. CASE ReservationsDuPret(r) = {} /\ Suite(w, [r EXCEPT !.pas = "flush"])
      <3>1. s.u = r.u /\ s.l = r.l
        BY <1>1, <2>1, <2>2 DEF Requete
      <3>2. x.id \in ReservationsDuPret(r)
        BY <1>2, <3>1 DEF ReservationsDuPret, ReservationsLivre,
             ReservationsUtilisateur
      <3> QED
        BY <2>2, <3>2
    <2>3. ASSUME NEW id \in ReservationsDuPret(r),
                 Suite(w, [r EXCEPT !.pas = "flush", !.supprime = {id}])
          PROVE  x.id \in s.supprime
      <3>1. s.l = r.l /\ s.supprime = {id}
        BY Zenon, <1>1, <2>1, <2>3 DEF Requete
      <3>2. PICK y \in reservations : id = y.id /\ y.livre = r.l
        BY DEF ReservationsDuPret, ReservationsLivre
      <3>3. x = y
        BY <1>2, <3>1, <3>2, UneReservation
      <3> QED
        BY <3>1, <3>2, <3>3
    <2> QED
      BY Zenon, <1>5, <2>2, <2>3 DEF PersistReservation
  <1> QED
    BY <1>3, <1>4, <1>5

\* An UPDATE of a loan that is no edit sets its return date: it replaces the
\* loan by a returned one, or finds no row.
LEMMA FlushRendre ==
    ASSUME TypeOK, InvInductif, IdsEmprunts, NEW w \in Workers,
           FlushEmprunt(w), requetes[w].op \notin OpsEdition
    PROVE  \/ emprunts' = emprunts
           \/ \E e \in emprunts : /\ e.id = requetes[w].id
                 /\ emprunts' = (emprunts \ {e})
                                   \cup {[e EXCEPT !.dateRetour = "posee"]}
  <1> DEFINE r == requetes[w]
  <1>1. r.d = "posee" /\ r.colonnes = {"dateRetour"}
    BY Zenon DEF FlushEmprunt, Flush, InvInductif, RequeteCoherente, OpsPretMaj,
         OpsEdition
  <1>2. ASSUME NEW e \in emprunts, NEW f \in Emprunt, PretMisAJour(r, e, f)
        PROVE  e.id = r.id /\ f = [e EXCEPT !.dateRetour = "posee"]
    <2>1. /\ e.id = r.id /\ f.id = e.id /\ f.utilisateur = e.utilisateur
          /\ f.livre = e.livre /\ f.dateRetour = "posee"
      BY <1>1, <1>2 DEF PretMisAJour, Ecrit
    <2>2. e \in Emprunt
      BY DEF TypeOK
    <2> QED
      BY <2>1, <2>2 DEF Emprunt
  <1> QED
    BY <1>2, FlushEmpruntForme

\* A flush keeps the book of a reservation free: that of an edit leaves a single
\* worker with nothing to save.
LEMMA FlushLibre ==
    ASSUME SansCourse, TypeOK, InvInductif, LivreLibre, NEW w \in Workers,
           Ecriture(w)
    PROVE  LivreLibre'
  <1>1. CASE requetes[w].op \notin OpsEdition
    BY <1>1, FlushEnregistre, EnregistreLibre
  <1>2. CASE requetes[w].op \in OpsEdition
    <2>1. Cardinality(Workers) = 1
      BY <1>2 DEF SansCourse, InvInductif, RequeteCoherente, OpsEdition
    <2>2. \A v \in Workers : requetes'[v] = Repos
      BY <2>1, FlushRepos, SeulWorker
    <2> QED
      BY <2>2 DEF LivreLibre, Repos, OpsResaNeuve
  <1> QED
    BY <1>1, <1>2

\* The facts that the refinement rests on are invariant.
THEOREM InvariantPromesse ==
    ASSUME SansCourse
    PROVE  Spec => []InvPromesse
  <1>1. Init => InvPromesse
    BY DEF Init, InvPromesse, LivreLibre, ReservationConnue, Repos, OpsResaNeuve
  <1>2. InvBase /\ InvPromesse /\ [Next]_vars => InvPromesse'
    <2>1. SUFFICES ASSUME TypeOK, IdsEmprunts, IdsReservations, InvInductif,
                          InvPromesse, [Next]_vars
                   PROVE  InvPromesse'
      BY DEF InvBase
    <2>2. LivreLibre /\ ReservationConnue
      BY <2>1 DEF InvPromesse
    <2>3. CASE UNCHANGED vars
      BY <2>2, <2>3 DEF vars, tables, InvPromesse, LivreLibre,
           ReservationConnue, RegleRespectee, EnCoursLivre, AttendPretSur,
           Tolerance
    <2>4. ASSUME NEW w \in Workers, Reception(w)
          PROVE  InvPromesse'
      <3>1. PICK s : Progres(requetes[w], s) /\ Suite(w, s) /\ UNCHANGED tables
        BY <2>1, <2>4, ReceptionProgres
      <3>2. LivreLibre'
        BY <2>1, <2>2, <3>1, ProgresLibre
      <3>3. ReservationConnue'
        BY <2>1, <2>4, ReceptionConnue
      <3> QED
        BY <3>2, <3>3 DEF InvPromesse
    <2>5. ASSUME NEW w \in Workers, Verification(w)
          PROVE  InvPromesse'
      <3>1. PICK s : Progres(requetes[w], s) /\ Suite(w, s) /\ UNCHANGED tables
        BY <2>1, <2>5, VerificationProgres
      <3>2. LivreLibre'
        BY <2>1, <2>2, <3>1, ProgresLibre
      <3>3. ReservationConnue'
        BY <2>1, <2>2, <2>5, VerificationForme, VerificationConnue
      <3> QED
        BY <3>2, <3>3 DEF InvPromesse
    <2>6. ASSUME NEW w \in Workers, Ecriture(w)
          PROVE  InvPromesse'
      <3>1. LivreLibre'
        BY <2>1, <2>2, <2>6, FlushLibre
      <3>2. requetes'[w] = Repos
        BY <2>1, <2>6, FlushRepos
      <3>3. ReservationConnue'
        BY <3>2, SeulWorker DEF ReservationConnue, Repos
      <3> QED
        BY <3>1, <3>3 DEF InvPromesse
    <2> QED
      BY <2>1, <2>3, <2>4, <2>5, <2>6, UneEtape
  <1> QED
    BY <1>1, <1>2, BaseInvariante, PTL DEF Spec

-----------------------------------------------------------------------------
(* The reservations that requests hold the ids of. *)

\* What the ids that request s holds stand for: reservations of the member and
\* book of the loan it is saving, or of the book or the member it is deleting.
IdsDe(s) ==
    /\ \A i \in s.supprime : i \in Nat /\ i < seqReservation
    /\ s.op \in OpsPretNeuf \cup {"reservationDelete"} =>
          \A i, j \in s.supprime : i = j
    /\ \A x \in reservations : x.id \in s.supprime =>
        /\ s.op \in OpsPretNeuf => x.utilisateur = s.u /\ x.livre = s.l
        /\ s.op = "livreDelete" => x.livre = s.l
        /\ s.op = "utilisateurDelete" => x.utilisateur = s.u

\* Ids are never used again, so they keep standing for the same.
InvIds == \A w \in Workers :
    requetes[w].op \in Operations \cup {"repos"} /\ IdsDe(requetes[w])

\* The edit form of reservations is not used, or one worker serves all requests.
SansCourseReservation ==
    "reservationEdit" \notin Operations \/ Cardinality(Workers) = 1

\* A step that only moves request w on keeps InvIds if the new request does.
LEMMA SuiteIds ==
    ASSUME TypeOK, InvIds, NEW w \in Workers, NEW s, Suite(w, s),
           UNCHANGED tables, s.op \in Operations \cup {"repos"}, IdsDe(s)
    PROVE  InvIds'
  <1>1. /\ requetes'[w] = s
        /\ \A v \in Workers \ {w} : requetes'[v] = requetes[v]
    BY DEF Suite, TypeOK
  <1> QED
    BY <1>1 DEF InvIds, IdsDe, tables

\* Receiving a request: the ids it holds are those of rows it has just read.
LEMMA ReceptionIds ==
    ASSUME TypeOK, IdsReservations, InvIds, NEW w \in Workers, Reception(w)
    PROVE  InvIds'
  <1>1. PICK s \in Requete : Recevoir(w, s) /\ Fraiche(s)
    BY ReceptionForme
  <1>2. s.op \in ToutesOps
    BY <1>1, CirculationHypotheses DEF Recevoir
  <1>3. s.supprime \subseteq {x.id : x \in reservations}
    BY <1>1, <1>2 DEF Fraiche, ToutesOps, OpsPretNeuf, OpsPretMaj, OpsResaNeuve,
         OpsSuppression, OpsEdition, ReservationsLivre, ReservationsUtilisateur
  <1>4. \A i \in s.supprime : i \in Nat /\ i < seqReservation
    BY <1>3 DEF TypeOK, Reservation
  <1>5. ASSUME NEW x \in reservations, x.id \in s.supprime
        PROVE  /\ s.op \in OpsPretNeuf => x.utilisateur = s.u /\ x.livre = s.l
               /\ s.op = "livreDelete" => x.livre = s.l
               /\ s.op = "utilisateurDelete" => x.utilisateur = s.u
    BY <1>1, <1>5 DEF Fraiche, IdsReservations, OpsPretNeuf, ReservationsLivre,
         ReservationsUtilisateur
  <1>6. s.op \in OpsPretNeuf \cup {"reservationDelete"} =>
            \A i, j \in s.supprime : i = j
    BY <1>1 DEF Fraiche, OpsPretNeuf
  <1>7. IdsDe(s)
    BY <1>4, <1>5, <1>6 DEF IdsDe
  <1> QED
    BY <1>1, <1>7, SuiteIds DEF Recevoir

\* The ids are kept, or looked up anew.
LEMMA VerificationIds ==
    ASSUME TypeOK, IdsReservations, InvIds, NEW w \in Workers,
           Suite(w, requetes'[w]), UNCHANGED tables,
           \/ requetes'[w] = Repos
           \/ Continue(requetes[w], requetes'[w])
           \/ PersistReservation(w)
    PROVE  InvIds'
  <1> DEFINE r == requetes[w]
             s == requetes'[w]
  <1>1. r \in Requete /\ IdsDe(r) /\ r.op \in Operations \cup {"repos"}
    BY DEF TypeOK, InvIds
  <1>2. ASSUME NEW x, Suite(w, x)
        PROVE  s = x
    BY <1>2 DEF Suite, TypeOK
  <1>4. CASE s = Repos
    BY <1>4, SuiteIds DEF Repos, IdsDe, OpsPretNeuf
  <1>5. ASSUME s.op = r.op, s.u = r.u, s.l = r.l, s.supprime = r.supprime
        PROVE  InvIds'
    <2>1. IdsDe(s) /\ s.op \in Operations \cup {"repos"}
      BY <1>1, <1>5 DEF IdsDe
    <2> QED
      BY <2>1, SuiteIds
  <1>6. CASE PersistReservation(w)
    <2>1. CASE Suite(w, [r EXCEPT !.pas = "flush"])
      BY <1>1, <1>2, <1>5, <2>1 DEF Requete
    <2>2. ASSUME NEW id \in ReservationsDuPret(r),
                 Suite(w, [r EXCEPT !.pas = "flush", !.supprime = {id}])
          PROVE  InvIds'
      <3>1. s.op = r.op /\ s.u = r.u /\ s.l = r.l /\ s.supprime = {id}
        BY Zenon, <1>1, <1>2, <2>2 DEF Requete
      <3>2. PICK y \in reservations :
               id = y.id /\ y.utilisateur = r.u /\ y.livre = r.l
        BY DEF ReservationsDuPret, ReservationsLivre, ReservationsUtilisateur
      <3>3. \A x \in reservations : x.id = id => x = y
        BY <3>2 DEF IdsReservations
      <3>4. id \in Nat /\ id < seqReservation
        BY <3>2 DEF TypeOK, Reservation
      <3>5. IdsDe(s)
        BY <3>1, <3>2, <3>3, <3>4 DEF IdsDe
      <3>6. Suite(w, s) /\ s.op \in Operations \cup {"repos"}
        BY <1>1, <3>1
      <3> HIDE DEF s
      <3> QED
        BY <3>5, <3>6, SuiteIds
    <2> QED
      BY Zenon, <1>6, <2>1, <2>2 DEF PersistReservation
  <1> QED
    BY <1>4, <1>5, <1>6 DEF Continue

\* A flush: deleted ids are gone, a new reservation has an id no request can hold
\* yet, and an edit leaves a single worker holding none.
LEMMA FlushIds ==
    ASSUME SansCourseReservation, TypeOK, InvIds, NEW w \in Workers, Ecriture(w)
    PROVE  InvIds'
  <1> DEFINE r == requetes[w]
  <1>1. Suite(w, Repos)
    BY Zenon DEF Ecriture, FlushNouvelEmprunt, FlushNouvelleReservation,
         FlushEmprunt, FlushReservation, FlushSuppressionReservation,
         FlushSuppressionEmprunt, FlushSuppressionLivre,
         FlushSuppressionUtilisateur, Flush, Fin
  <1>2. /\ requetes'[w] = Repos
        /\ \A v \in Workers \ {w} : requetes'[v] = requetes[v]
    BY <1>1 DEF Suite, TypeOK
  <1>3. CASE reservations' \subseteq reservations
             /\ seqReservation' = seqReservation
    BY <1>2, <1>3 DEF InvIds, IdsDe, Repos, OpsPretNeuf
  <1>4. CASE FlushNouvelleReservation(w)
    <2> DEFINE x == [id |-> seqReservation, utilisateur |-> r.u, livre |-> r.l]
    <2>1. /\ x.id = seqReservation /\ reservations' = reservations \cup {x}
          /\ seqReservation' = seqReservation + 1 /\ seqReservation \in Nat
      BY <1>4 DEF FlushNouvelleReservation, TypeOK
    <2>2. \A y \in reservations : y.id \in Nat /\ y.id < seqReservation
      BY DEF TypeOK, Reservation
    <2> HIDE DEF x
    <2>3. ASSUME NEW v \in Workers
          PROVE  IdsDe(requetes[v])'
      <3>1. CASE v = w
        BY <1>2, <3>1 DEF IdsDe, Repos, OpsPretNeuf
      <3>2. CASE v # w
        <4>1. requetes'[v] = requetes[v] /\ IdsDe(requetes[v])
          BY <1>2, <3>2 DEF InvIds
        <4> QED
          BY <2>1, <4>1 DEF IdsDe
      <3> QED
        BY <3>1, <3>2
    <2> QED
      BY <1>2, <2>3 DEF InvIds, Repos
  <1>5. CASE FlushReservation(w)
    <2>1. Cardinality(Workers) = 1
      BY Zenon, <1>5 DEF FlushReservation, Flush, InvIds, SansCourseReservation
    <2>2. \A v \in Workers : requetes'[v] = Repos
      BY <1>2, <2>1, SeulWorker
    <2> QED
      BY <2>2 DEF InvIds, IdsDe, Repos, OpsPretNeuf
  <1> QED
    BY Zenon, <1>3, <1>4, <1>5
       DEF Ecriture, FlushNouvelEmprunt, FlushEmprunt, SansReservations,
           FlushSuppressionReservation, FlushSuppressionEmprunt,
           FlushSuppressionLivre, FlushSuppressionUtilisateur

\* The ids held by requests keep standing for the same reservations.
THEOREM IdsReperes ==
    ASSUME SansCourseReservation
    PROVE  Spec => []InvIds
  <1>1. Init => InvIds
    BY DEF Init, InvIds, IdsDe, Repos
  <1>2. TypeOK /\ (IdsEmprunts /\ IdsReservations) /\ InvIds /\ [Next]_vars
            => InvIds'
    <2>1. SUFFICES ASSUME TypeOK, IdsReservations, InvIds, [Next]_vars
                   PROVE  InvIds'
      OBVIOUS
    <2>2. CASE UNCHANGED vars
      BY <2>1, <2>2 DEF vars, tables, InvIds, IdsDe
    <2>3. ASSUME NEW w \in Workers, \/ Reception(w) \/ Verification(w)
                                 \/ Ecriture(w)
          PROVE  InvIds'
      BY <2>1, <2>3, ReceptionIds, VerificationForme, VerificationIds, FlushIds
    <2> QED
      BY <2>1, <2>2, <2>3, UneEtape
  <1> QED
    BY <1>1, <1>2, TypeCorrect, IdsUniques, PTL DEF Spec

\* One step loses no reservation without a reason.
LEMMA PasJustifie ==
    ASSUME TypeOK, InvIds, "reservationEdit" \notin Operations, Next
    PROVE  PerteJustifiee
  <1>1. SUFFICES ASSUME NEW w \in Workers,
                        Reception(w) \/ Verification(w) \/ Ecriture(w),
                        NEW x \in reservations \ reservations'
                 PROVE  \/ /\ requetes[w].op = "reservationDelete"
                           /\ x.id \in requetes[w].supprime
                        \/ x.livre \notin livres'
                        \/ x.utilisateur \notin utilisateurs'
                        \/ \E e \in emprunts' \ emprunts :
                              /\ e.livre = x.livre
                              /\ e.utilisateur = x.utilisateur
    BY UneEtape DEF PerteJustifiee
  <1> DEFINE r == requetes[w]
  <1>2. IdsDe(r) /\ r.op \in Operations \cup {"repos"}
    BY DEF InvIds
  <1>3. ~Reception(w)
    <2>1. Reception(w) => UNCHANGED tables
      BY ReceptionForme DEF Recevoir
    <2> QED
      BY <1>1, <2>1 DEF tables
  <1>4. CASE FlushNouvelEmprunt(w)
    <2> DEFINE e == [id |-> seqEmprunt, utilisateur |-> r.u,
                     livre |-> r.l, dateRetour |-> r.d]
    <2>1. /\ e.id = seqEmprunt /\ e.utilisateur = r.u /\ e.livre = r.l
          /\ e \in emprunts' /\ x.id \in r.supprime /\ r.op \in OpsPretNeuf
      BY <1>1, <1>4 DEF FlushNouvelEmprunt, SansReservations, Flush
    <2> HIDE DEF e
    <2>2. e \notin emprunts
      BY <2>1 DEF TypeOK, Emprunt
    <2>3. x.utilisateur = r.u /\ x.livre = r.l
      BY <1>2, <2>1 DEF IdsDe
    <2> QED
      BY <2>1, <2>2, <2>3
  <1>5. CASE FlushSuppressionReservation(w)
    BY <1>1, <1>5 DEF FlushSuppressionReservation, SansReservations, Flush
  <1>6. CASE FlushSuppressionLivre(w)
    BY <1>1, <1>2, <1>6 DEF FlushSuppressionLivre, SansReservations, Flush,
         IdsDe
  <1>7. CASE FlushSuppressionUtilisateur(w)
    BY <1>1, <1>2, <1>7 DEF FlushSuppressionUtilisateur, SansReservations,
         Flush, IdsDe
  <1>8. ~FlushReservation(w)
    BY Zenon, <1>2 DEF FlushReservation, Flush
  <1> QED
    BY Zenon, <1>1, <1>3, <1>4, <1>5, <1>6, <1>7, <1>8
       DEF Verification, Ecriture, ReservationRegle1, ReservationRegle2,
           ReservationRegle3, EmpruntRegle1, EmpruntRegle2, PersistLivre, PersistQuota,
           PersistReservation, FlushNouvelleReservation, FlushEmprunt,
           FlushSuppressionEmprunt, Echec, tables

\* However many workers interleave their requests, a reservation disappears
\* only by its deletion, with its book or member, or by the very flush that
\* records the loan it was waiting for.
THEOREM ReservationsHonorees ==
    ASSUME "reservationEdit" \notin Operations
    PROVE  Spec => ReservationHonoree
  <1>1. TypeOK /\ InvIds /\ [Next]_vars => [PerteJustifiee]_vars
    BY PasJustifie
  <1> QED
    BY <1>1, TypeCorrect, IdsReperes, PTL
       DEF Spec, ReservationHonoree, SansCourseReservation

-----------------------------------------------------------------------------
(* The tables keep the promise of Bibliotheque. *)

\* The instance counts as this module does.
LEMMA MemeTaille ==
    ASSUME NEW S
    PROVE  Promesse!Cardinality(S) = Cardinality(S)
  BY DEF Promesse!Cardinality, Cardinality

\* Saving a loan lends a book: the limits leave room for it, and it uses up a
\* reservation of its member and book, the only one if there is one worker.
LEMMA PromessePreter ==
    ASSUME TypeOK, IdsReservations, InvInductif, InvIds, InvPromesse,
           NEW w \in Workers, FlushNouvelEmprunt(w)
    PROVE  Promesse!Next
  <1> DEFINE r == requetes[w]
             e == [id |-> seqEmprunt, utilisateur |-> r.u,
                   livre |-> r.l, dateRetour |-> r.d]
             R == {x \in reservations : x.id \in r.supprime}
             B == Promesse!Sur(Promesse!De(reservations, r.u), r.l)
  <1>1. r.op \in OpsPretNeuf /\ r.pas = "flush" /\ ClesEtrangeres(r)
    BY DEF FlushNouvelEmprunt, Flush
  <1>2. /\ emprunts' = emprunts \cup {e} /\ reservations' = reservations \ R
        /\ livres' = livres /\ utilisateurs' = utilisateurs
    BY DEF FlushNouvelEmprunt, SansReservations
  <1>3. /\ e.id = seqEmprunt /\ e.utilisateur = r.u /\ e.livre = r.l
        /\ e.dateRetour = r.d
    OBVIOUS
  <1> HIDE DEF e
  <1>4. Promesse!Existe(e) /\ Promesse!NouvelId(emprunts, e)
    BY <1>1, <1>3 DEF ClesEtrangeres, Promesse!Existe, Promesse!NouvelId, TypeOK
  <1>5. Promesse!PretPermis(emprunts, e)
    <2>1. SUFFICES ASSUME r.d = "null"
                   PROVE  /\ Cardinality(EnCoursUtilisateur(r.u))
                                < MaxEmprunts + (Cardinality(Workers) - 1)
                          /\ Cardinality(EnCoursLivre(r.l))
                                < 1 + (Cardinality(Workers) - 1)
      <3>1. /\ Promesse!De(Promesse!EnCours(emprunts), r.u)
                  = EnCoursUtilisateur(r.u)
            /\ Promesse!Sur(Promesse!EnCours(emprunts), r.l)
                  = EnCoursLivre(r.l)
        BY DEF Promesse!De, Promesse!Sur, Promesse!EnCours, EnCoursUtilisateur,
             EnCoursLivre
      <3> QED
        BY <1>3, <3>1, MemeTaille DEF Promesse!PretPermis
    <2>2. r.u \in Utilisateurs /\ r.l \in Livres
      BY <1>1 DEF ClesEtrangeres, TypeOK
    <2>3. ~r.erreur
      BY <1>1 DEF InvInductif, RequeteCoherente
    <2>4. AttendPretDe(r, r.u) /\ AttendPretSur(r, r.l)
      BY <1>1, <2>1, <2>3 DEF AttendPretDe, AttendPretSur
    <2> DEFINE P == {v \in Workers : AttendPretDe(requetes[v], r.u)}
               Q == {v \in Workers : AttendPretSur(requetes[v], r.l)}
    <2>5. /\ RegleRespectee(EnCoursUtilisateur(r.u), P, MaxEmprunts)
          /\ RegleRespectee(EnCoursLivre(r.l), Q, 1)
      BY Zenon, <2>2 DEF InvInductif
    <2>6. w \in P /\ w \in Q /\ P \subseteq Workers /\ Q \subseteq Workers
      BY <2>4
    <2> HIDE DEF P, Q
    <2> QED
      BY <2>5, <2>6, Place, CirculationHypotheses
  <1>6. IdsDe(r)
    BY DEF InvIds
  <1>7. R \subseteq B
    BY <1>1, <1>6 DEF IdsDe, Promesse!Sur, Promesse!De
  <1>8. Cardinality(R) <= 1
    <2>1. \A x, y \in R : x = y
      BY <1>1, <1>6 DEF IdsDe, IdsReservations
    <2>2. R = {} \/ \E x : R = {x}
      BY <2>1
    <2> HIDE DEF R
    <2>3. Cardinality(R) = 0 \/ Cardinality(R) = 1
      BY Zenon, <2>2, FS_EmptySet, FS_Singleton
    <2> QED
      BY <2>3
  <1>9. Cardinality(Workers) - 1 = 0 => R = B
    <2>1. SUFFICES ASSUME Cardinality(Workers) - 1 = 0, NEW x \in B
                   PROVE  x \in R
      BY <1>7
    <2>2. Cardinality(Workers) = 1
      BY <2>1, CirculationHypotheses, FS_CardinalityType
    <2>3. x \in reservations /\ x.utilisateur = r.u /\ x.livre = r.l
      BY DEF Promesse!Sur, Promesse!De
    <2> QED
      BY <1>1, <2>2, <2>3 DEF InvPromesse, ReservationConnue, OpsPretNeuf
  <1>10. Promesse!Preter(e, R)
    <2> HIDE DEF R
    <2> QED
      BY <1>2, <1>3, <1>4, <1>5, <1>7, <1>8, <1>9, MemeTaille
         DEF Promesse!Preter
  <1>11. e \in emprunts' /\ R \in SUBSET reservations
    BY <1>2
  <1> QED
    BY <1>10, <1>11 DEF Promesse!Next

\* Saving a reservation reserves a book: the limits leave room for it, and its
\* book is lent at most to as many members as there are other workers.
LEMMA PromesseReserver ==
    ASSUME TypeOK, InvInductif, InvPromesse, NEW w \in Workers,
           FlushNouvelleReservation(w)
    PROVE  Promesse!Next
  <1> DEFINE r == requetes[w]
             x == [id |-> seqReservation, utilisateur |-> r.u, livre |-> r.l]
  <1>1. r.op \in OpsResaNeuve /\ r.pas = "flush" /\ ClesEtrangeres(r)
    BY DEF FlushNouvelleReservation, Flush
  <1>2. /\ reservations' = reservations \cup {x} /\ emprunts' = emprunts
        /\ livres' = livres /\ utilisateurs' = utilisateurs
    BY DEF FlushNouvelleReservation
  <1>3. x.id = seqReservation /\ x.utilisateur = r.u /\ x.livre = r.l
    OBVIOUS
  <1> HIDE DEF x
  <1>4. Promesse!Existe(x) /\ Promesse!NouvelId(reservations, x)
    BY <1>1, <1>3 DEF ClesEtrangeres, Promesse!Existe, Promesse!NouvelId, TypeOK
  <1>5. r.u \in Utilisateurs /\ r.l \in Livres /\ ~r.erreur
    BY <1>1 DEF ClesEtrangeres, TypeOK, InvInductif, RequeteCoherente
  <1>6. AttendResaDe(r, r.u) /\ AttendResaSur(r, r.l)
    BY <1>1, <1>5 DEF AttendResaDe, AttendResaSur
  <1> DEFINE P == {v \in Workers : AttendResaDe(requetes[v], r.u)}
             Q == {v \in Workers : AttendResaSur(requetes[v], r.l)}
             L == {v \in Workers : AttendPretSur(requetes[v], r.l)}
  <1>7. /\ RegleRespectee(ReservationsUtilisateur(r.u), P, MaxReservations)
        /\ RegleRespectee(ReservationsLivre(r.l), Q, 1)
        /\ RegleRespectee(EnCoursLivre(r.l), L, 0)
    BY Zenon, <1>1, <1>5 DEF InvInductif, InvPromesse, LivreLibre
  <1>8. /\ w \in P /\ w \in Q
        /\ P \subseteq Workers /\ Q \subseteq Workers /\ L \subseteq Workers
    BY <1>6
  <1> HIDE DEF P, Q, L
  <1>9. /\ Cardinality(ReservationsUtilisateur(r.u))
              < MaxReservations + (Cardinality(Workers) - 1)
        /\ Cardinality(ReservationsLivre(r.l)) < 1 + (Cardinality(Workers) - 1)
    BY <1>7, <1>8, Place, CirculationHypotheses
  <1>10. Cardinality(EnCoursLivre(r.l)) < 1 + (Cardinality(Workers) - 1)
    <2>1. Cardinality(EnCoursLivre(r.l)) <= 0 + (Cardinality(Workers) - 1)
      BY <1>7, <1>8, LignesBornees DEF Tolerance
    <2>2. /\ Cardinality(EnCoursLivre(r.l)) \in Nat
          /\ Cardinality(Workers) \in Nat
      BY <1>7, CirculationHypotheses, FS_CardinalityType DEF RegleRespectee
    <2> QED
      BY <2>1, <2>2
  <1>11. Promesse!ReservationPermise(reservations, x)
    <2>1. /\ Promesse!De(reservations, r.u) = ReservationsUtilisateur(r.u)
          /\ Promesse!Sur(reservations, r.l) = ReservationsLivre(r.l)
          /\ Promesse!Sur(Promesse!EnCours(emprunts), r.l) = EnCoursLivre(r.l)
      BY DEF Promesse!De, Promesse!Sur, Promesse!EnCours, EnCoursLivre,
           ReservationsUtilisateur, ReservationsLivre
    <2> QED
      BY <1>3, <1>9, <1>10, <2>1, MemeTaille
         DEF Promesse!ReservationPermise
  <1>12. Promesse!Reserver(x) /\ x \in reservations'
    BY <1>2, <1>4, <1>11 DEF Promesse!Reserver
  <1> QED
    BY <1>12 DEF Promesse!Next

\* Setting a return date returns the loan, if it is there and not returned yet.
LEMMA PromesseRendre ==
    ASSUME TypeOK, IdsEmprunts, InvInductif, NEW w \in Workers,
           FlushEmprunt(w), requetes[w].op \notin OpsEdition
    PROVE  Promesse!Next \/ UNCHANGED Promesse!bibliotheque
  <1>1. /\ reservations' = reservations /\ livres' = livres
        /\ utilisateurs' = utilisateurs
    BY Zenon DEF FlushEmprunt
  <1>2. CASE emprunts' = emprunts
    BY <1>1, <1>2 DEF Promesse!bibliotheque
  <1>3. ASSUME NEW e \in emprunts,
               emprunts' = (emprunts \ {e})
                             \cup {[e EXCEPT !.dateRetour = "posee"]}
        PROVE  Promesse!Next \/ UNCHANGED Promesse!bibliotheque
    <2>1. e \in Emprunt
      BY DEF TypeOK
    <2>2. CASE e.dateRetour = "null"
      <3>1. Promesse!Rendre(e)
        BY <1>1, <1>3, <2>2 DEF Promesse!Rendre, Promesse!EnCours
      <3> QED
        BY <3>1 DEF Promesse!Next
    <2>3. CASE e.dateRetour = "posee"
      <3>1. [e EXCEPT !.dateRetour = "posee"] = e
        BY <2>1, <2>3 DEF Emprunt
      <3> QED
        BY <1>2, <1>3, <3>1
    <2> QED
      BY <2>1, <2>2, <2>3 DEF Emprunt, DateRetour
  <1> QED
    BY <1>2, <1>3, FlushRendre

\* The edit of a loan by a single worker corrects that loan, if it is there:
\* the other loans permit it as the form showed it.
LEMMA PromesseCorrigerPret ==
    ASSUME TypeOK, IdsEmprunts, InvInductif, Cardinality(Workers) = 1,
           NEW w \in Workers, FlushEmprunt(w),
           requetes[w].op = "empruntEdit", EditionConforme(requetes[w])
    PROVE  Promesse!Next \/ UNCHANGED Promesse!bibliotheque
  <1> DEFINE r == requetes[w]
  <1>1. /\ reservations' = reservations /\ livres' = livres
        /\ utilisateurs' = utilisateurs /\ r.pas = "flush"
    BY Zenon DEF FlushEmprunt, Flush
  <1>2. CASE emprunts' = emprunts
    BY <1>1, <1>2 DEF Promesse!bibliotheque
  <1>3. ASSUME NEW e \in emprunts, NEW f \in Emprunt, e.id = r.id, f.id = e.id,
               f.utilisateur = r.u, f.livre = r.l, f.dateRetour = r.d,
               emprunts' = (emprunts \ {e}) \cup {f}
        PROVE  Promesse!Next
    <2>1. Promesse!Existe(f) /\ f \in emprunts'
      <3>1. TypeOK'
        BY FlushType DEF Ecriture
      <3> QED
        BY <1>1, <1>3, <3>1 DEF TypeOK, Promesse!Existe
    <2>2. Promesse!PretPermis(emprunts \ {e}, f)
      <3>1. SUFFICES ASSUME r.d = "null"
                     PROVE  /\ Cardinality(SansId(EnCoursUtilisateur(r.u), r.id))
                                  < MaxEmprunts + (Cardinality(Workers) - 1)
                            /\ Cardinality(SansId(EnCoursLivre(r.l), r.id))
                                  < 1 + (Cardinality(Workers) - 1)
        <4>1. /\ Promesse!De(Promesse!EnCours(emprunts \ {e}), r.u)
                    = SansId(EnCoursUtilisateur(r.u), r.id)
              /\ Promesse!Sur(Promesse!EnCours(emprunts \ {e}), r.l)
                    = SansId(EnCoursLivre(r.l), r.id)
          BY <1>3 DEF Promesse!De, Promesse!Sur, Promesse!EnCours, SansId,
               EnCoursUtilisateur, EnCoursLivre, IdsEmprunts
        <4> QED
          BY <1>3, <4>1, MemeTaille DEF Promesse!PretPermis
      <3>2. ~r.erreur
        BY <1>1 DEF InvInductif, RequeteCoherente
      <3>3. ~TropDEmprunts(r) /\ ~DejaEmprunte(r)
        BY <1>1, <3>1, <3>2 DEF EditionConforme, EditionPret
      <3>4. r.u \in Utilisateurs
        BY <1>3 DEF Emprunt
      <3>5. IsFiniteSet(EnCoursUtilisateur(r.u))
        BY Zenon, <3>4 DEF InvInductif, RegleRespectee
      <3>6. Cardinality(SansId(EnCoursUtilisateur(r.u), r.id)) < MaxEmprunts
        BY <3>3, <3>5, SousLeMaximum, CirculationHypotheses DEF TropDEmprunts
      <3>7. Cardinality(SansId(EnCoursLivre(r.l), r.id)) = 0
        BY <3>3, FS_EmptySet DEF DejaEmprunte
      <3> QED
        BY <3>6, <3>7, CirculationHypotheses
    <2>3. Promesse!CorrigerPret(e, f)
      BY <1>1, <1>3, <2>1, <2>2 DEF Promesse!CorrigerPret
    <2> QED
      BY <2>1, <2>3 DEF Promesse!Next
  <1> QED
    BY <1>2, <1>3, FlushPretEdite

\* The same for the edit of a reservation, whose book is free.
LEMMA PromesseCorrigerReservation ==
    ASSUME TypeOK, IdsReservations, InvInductif, Cardinality(Workers) = 1,
           NEW w \in Workers, FlushReservation(w), EditionConforme(requetes[w])
    PROVE  Promesse!Next \/ UNCHANGED Promesse!bibliotheque
  <1> DEFINE r == requetes[w]
  <1>1. /\ emprunts' = emprunts /\ livres' = livres
        /\ utilisateurs' = utilisateurs
        /\ r.op = "reservationEdit" /\ r.pas = "flush"
    BY Zenon DEF FlushReservation, Flush
  <1>2. CASE reservations' = reservations
    BY <1>1, <1>2 DEF Promesse!bibliotheque
  <1>3. ASSUME NEW x \in reservations, NEW y \in Reservation, x.id = r.id,
               y.id = x.id, y.utilisateur = r.u, y.livre = r.l,
               reservations' = (reservations \ {x}) \cup {y}
        PROVE  Promesse!Next
    <2>1. Promesse!Existe(y) /\ y \in reservations'
      <3>1. TypeOK'
        BY FlushType DEF Ecriture
      <3> QED
        BY <1>1, <1>3, <3>1 DEF TypeOK, Promesse!Existe
    <2>2. Promesse!ReservationPermise(reservations \ {x}, y)
      <3>1. ~r.erreur
        BY <1>1 DEF InvInductif, RequeteCoherente
      <3>2. /\ ~TropDeReservations(r) /\ ~DejaReserve(r)
            /\ EnCoursLivre(r.l) = {}
        BY <1>1, <3>1 DEF EditionConforme, EditionReservation
      <3>3. r.u \in Utilisateurs
        BY <1>3 DEF Reservation
      <3>4. IsFiniteSet(ReservationsUtilisateur(r.u))
        BY Zenon, <3>3 DEF InvInductif, RegleRespectee
      <3>5. Cardinality(SansId(ReservationsUtilisateur(r.u), r.id))
                < MaxReservations
        BY <3>2, <3>4, SousLeMaximum, CirculationHypotheses
           DEF TropDeReservations
      <3>6. /\ Cardinality(SansId(ReservationsLivre(r.l), r.id)) = 0
            /\ Cardinality(EnCoursLivre(r.l)) = 0
        BY <3>2, FS_EmptySet DEF DejaReserve
      <3>7. /\ Promesse!De(reservations \ {x}, r.u)
                  = SansId(ReservationsUtilisateur(r.u), r.id)
            /\ Promesse!Sur(reservations \ {x}, r.l)
                  = SansId(ReservationsLivre(r.l), r.id)
            /\ Promesse!Sur(Promesse!EnCours(emprunts), r.l) = EnCoursLivre(r.l)
        BY <1>3 DEF Promesse!De, Promesse!Sur, Promesse!EnCours, SansId,
             ReservationsUtilisateur, ReservationsLivre, EnCoursLivre,
             IdsReservations
      <3>8. /\ Cardinality(SansId(ReservationsUtilisateur(r.u), r.id))
                  < MaxReservations + (Cardinality(Workers) - 1)
            /\ Cardinality(SansId(ReservationsLivre(r.l), r.id))
                  < 1 + (Cardinality(Workers) - 1)
            /\ Cardinality(EnCoursLivre(r.l)) < 1 + (Cardinality(Workers) - 1)
        BY <3>5, <3>6, CirculationHypotheses
      <3> QED
        BY <1>3, <3>7, <3>8, MemeTaille DEF Promesse!ReservationPermise
    <2>3. Promesse!CorrigerReservation(x, y)
      BY <1>1, <1>3, <2>1, <2>2 DEF Promesse!CorrigerReservation
    <2> QED
      BY <2>1, <2>3 DEF Promesse!Next
  <1> QED
    BY <1>2, <1>3, FlushReservationEditee

\* Deleting a row deletes at most that row.
LEMMA PromesseSupprimer ==
    ASSUME TypeOK, IdsEmprunts, IdsReservations, InvIds, NEW w \in Workers,
           FlushSuppressionReservation(w) \/ FlushSuppressionEmprunt(w)
    PROVE  Promesse!Next \/ UNCHANGED Promesse!bibliotheque
  <1> DEFINE r == requetes[w]
  <1>1. CASE FlushSuppressionReservation(w)
    <2> DEFINE R == {x \in reservations : x.id \in r.supprime}
    <2>1. /\ reservations' = reservations \ R /\ emprunts' = emprunts
          /\ livres' = livres /\ utilisateurs' = utilisateurs
          /\ r.op = "reservationDelete"
      BY <1>1 DEF FlushSuppressionReservation, SansReservations, Flush
    <2>2. \A x, y \in R : x = y
      BY <2>1 DEF InvIds, IdsDe, IdsReservations
    <2>3. CASE R = {}
      BY <2>1, <2>3 DEF Promesse!bibliotheque
    <2>4. ASSUME NEW x \in R
          PROVE  Promesse!Next
      <3>1. R = {x} /\ x \in reservations
        BY <2>2
      <3> HIDE DEF R
      <3>2. Promesse!Annuler(x)
        BY <2>1, <3>1 DEF Promesse!Annuler
      <3> QED
        BY <3>1, <3>2 DEF Promesse!Next
    <2> QED
      BY <2>3, <2>4
  <1>2. CASE FlushSuppressionEmprunt(w)
    <2>1. /\ emprunts' = SansId(emprunts, r.id) /\ reservations' = reservations
          /\ livres' = livres /\ utilisateurs' = utilisateurs
      BY <1>2 DEF FlushSuppressionEmprunt
    <2>2. CASE \A e \in emprunts : e.id # r.id
      BY <2>1, <2>2 DEF SansId, Promesse!bibliotheque
    <2>3. ASSUME NEW e \in emprunts, e.id = r.id
          PROVE  Promesse!Next
      <3>1. emprunts' = emprunts \ {e}
        BY <2>1, <2>3 DEF SansId, IdsEmprunts
      <3>2. Promesse!OublierPret(e)
        BY <2>1, <3>1 DEF Promesse!OublierPret
      <3> QED
        BY <3>2 DEF Promesse!Next
    <2> QED
      BY <2>2, <2>3
  <1> QED
    BY <1>1, <1>2

\* Deleting a book or a member takes its reservations, all of them, with it.
LEMMA PromesseRetirer ==
    ASSUME TypeOK, InvIds, NEW w \in Workers,
           FlushSuppressionLivre(w) \/ FlushSuppressionUtilisateur(w)
    PROVE  Promesse!Next \/ UNCHANGED Promesse!bibliotheque
  <1> DEFINE r == requetes[w]
  <1>1. r \in Requete /\ IdsDe(r)
    BY DEF TypeOK, InvIds
  <1>2. CASE FlushSuppressionLivre(w)
    <2>1. /\ livres' = livres \ {r.l} /\ emprunts' = emprunts
          /\ utilisateurs' = utilisateurs /\ r.op = "livreDelete"
          /\ \A e \in emprunts : e.livre # r.l
      BY <1>2 DEF FlushSuppressionLivre, Flush, EmpruntsLivre
    <2>2. reservations' = {x \in reservations : x.livre # r.l}
      BY <1>1, <1>2, <2>1 DEF FlushSuppressionLivre, SansReservations, IdsDe
    <2>3. CASE r.l \in Livres
      <3>1. Promesse!RetirerLivre(r.l)
        BY <2>1, <2>2 DEF Promesse!RetirerLivre, Promesse!Sur
      <3> QED
        BY <2>3, <3>1 DEF Promesse!Next
    <2>4. CASE r.l = Nul
      <3>1. livres' = livres /\ reservations' = reservations
        BY <2>1, <2>2, <2>4, CirculationHypotheses DEF TypeOK, Reservation
      <3> QED
        BY <2>1, <3>1 DEF Promesse!bibliotheque
    <2> QED
      BY <1>1, <2>3, <2>4 DEF Requete
  <1>3. CASE FlushSuppressionUtilisateur(w)
    <2>1. /\ utilisateurs' = utilisateurs \ {r.u} /\ emprunts' = emprunts
          /\ livres' = livres /\ r.op = "utilisateurDelete"
          /\ \A e \in emprunts : e.utilisateur # r.u
      BY <1>3 DEF FlushSuppressionUtilisateur, Flush, EmpruntsUtilisateur
    <2>2. reservations' = {x \in reservations : x.utilisateur # r.u}
      BY <1>1, <1>3, <2>1 DEF FlushSuppressionUtilisateur, SansReservations,
           IdsDe
    <2>3. CASE r.u \in Utilisateurs
      <3>1. Promesse!RadierUtilisateur(r.u)
        BY <2>1, <2>2 DEF Promesse!RadierUtilisateur, Promesse!De
      <3> QED
        BY <2>3, <3>1 DEF Promesse!Next
    <2>4. CASE r.u = Nul
      <3>1. utilisateurs' = utilisateurs /\ reservations' = reservations
        BY <2>1, <2>2, <2>4, CirculationHypotheses DEF TypeOK, Reservation
      <3> QED
        BY <2>1, <3>1 DEF Promesse!bibliotheque
    <2> QED
      BY <1>1, <2>3, <2>4 DEF Requete
  <1> QED
    BY <1>2, <1>3

\* The flush of an edit is a correction: only a single worker is in an edit.
LEMMA PromesseCorriger ==
    ASSUME SansCourse, InvBase, NEW w \in Workers,
           requetes[w].op \in OpsEdition, FlushEmprunt(w) \/ FlushReservation(w)
    PROVE  Promesse!Next \/ UNCHANGED Promesse!bibliotheque
  <1>1. Cardinality(Workers) = 1
    BY DEF SansCourse, InvBase, InvInductif, RequeteCoherente, OpsEdition
  <1>2. EditionConforme(requetes[w])
    BY <1>1 DEF InvBase, InvEdition
  <1>3. CASE FlushEmprunt(w)
    <2>1. requetes[w].op = "empruntEdit"
      BY Zenon, <1>3 DEF FlushEmprunt, Flush, OpsPretMaj, OpsEdition
    <2> QED
      BY <1>1, <1>2, <1>3, <2>1, PromesseCorrigerPret DEF InvBase
  <1>4. CASE FlushReservation(w)
    BY <1>1, <1>2, <1>4, PromesseCorrigerReservation DEF InvBase
  <1> QED
    BY <1>3, <1>4

\* Whatever the workers interleave, the tables change as Bibliotheque says: one
\* flush is one of its steps, everything else is none, and its rules hold
\* within one row per other worker, exactly when there is one worker.
THEOREM ImplementeBibliotheque ==
    ASSUME SansCourse
    PROVE  Spec => TientPromesse
  <1>1. Init => Promesse!Init
    BY DEF Init, Promesse!Init
  <1>2. InvBase /\ InvIds /\ InvPromesse /\ [Next]_vars
            => [Promesse!Next]_(Promesse!bibliotheque)
    <2>1. SUFFICES ASSUME InvBase, InvIds, InvPromesse, [Next]_vars
                   PROVE  Promesse!Next \/ UNCHANGED Promesse!bibliotheque
      OBVIOUS
    <2> USE <2>1 DEF InvBase
    <2>2. CASE UNCHANGED tables
      BY <2>2 DEF tables, Promesse!bibliotheque
    <2>3. ASSUME NEW w \in Workers, Reception(w)
          PROVE  UNCHANGED tables
      BY <2>3, ReceptionProgres
    <2>4. ASSUME NEW w \in Workers, Verification(w)
          PROVE  UNCHANGED tables
      BY <2>4, VerificationForme
    <2>5. ASSUME NEW w \in Workers, FlushEmprunt(w) \/ FlushReservation(w)
          PROVE  Promesse!Next \/ UNCHANGED Promesse!bibliotheque
      <3>1. CASE requetes[w].op \in OpsEdition
        BY <2>5, <3>1, PromesseCorriger
      <3>2. CASE requetes[w].op \notin OpsEdition
        <4>1. FlushEmprunt(w)
          BY Zenon, <2>5, <3>2 DEF FlushReservation, Flush, OpsEdition
        <4> QED
          BY <3>2, <4>1, PromesseRendre
      <3> QED
        BY <3>1, <3>2
    <2>6. ASSUME NEW w \in Workers,
                 \/ FlushNouvelEmprunt(w) \/ FlushNouvelleReservation(w)
                 \/ FlushSuppressionReservation(w) \/ FlushSuppressionEmprunt(w)
                 \/ FlushSuppressionLivre(w) \/ FlushSuppressionUtilisateur(w)
          PROVE  Promesse!Next \/ UNCHANGED Promesse!bibliotheque
      BY <2>6, PromessePreter, PromesseReserver, PromesseSupprimer,
         PromesseRetirer
    <2> QED
      BY <2>2, <2>3, <2>4, <2>5, <2>6, UneEtape DEF Ecriture, vars
  <1>3. Spec => []InvIds
    <2>1. SansCourseReservation
      BY DEF SansCourse, SansCourseReservation, OpsEdition
    <2> QED
      BY <2>1, IdsReperes
  <1> QED
    BY <1>1, <1>2, <1>3, BaseInvariante, InvariantPromesse, PTL
       DEF Spec, TientPromesse, Promesse!Spec

-----------------------------------------------------------------------------
(* One worker. *)

\* One worker gives a member a reservation for a book they have on loan only by
\* an edit: the loan uses the reservation up, and rule 3 still holds at the
\* flush of a new reservation.
THEOREM SansDoubleTitre ==
    ASSUME SansCourse
    PROVE  Spec => PasDeDoubleTitre
  <1>1. ASSUME InvBase, InvPromesse, Next, Cardinality(Workers) = 1,
               \A w \in Workers : requetes[w].op \notin OpsEdition
        PROVE  DoublesTitres' \subseteq DoublesTitres
    <2> USE DEF InvBase
    <2>1. PICK w \in Workers : Reception(w) \/ Verification(w) \/ Ecriture(w)
      BY <1>1, UneEtape
    <2> DEFINE r == requetes[w]
    <2>2. ASSUME \A x \in reservations' : \A e \in emprunts' :
                    /\ e.dateRetour = "null" /\ e.livre = x.livre
                    /\ e.utilisateur = x.utilisateur
                    => x \in reservations /\ e \in emprunts
          PROVE  DoublesTitres' \subseteq DoublesTitres
      <3>1. SUFFICES ASSUME NEW x \in reservations', NEW e \in emprunts',
                            e.dateRetour = "null", e.livre = x.livre,
                            e.utilisateur = x.utilisateur
                     PROVE  <<x.utilisateur, x.livre>> \in DoublesTitres
        BY DEF DoublesTitres, EnCoursLivre
      <3>2. x \in reservations /\ e \in emprunts
        BY <2>2, <3>1
      <3> QED
        BY <3>1, <3>2 DEF DoublesTitres, EnCoursLivre
    <2>3. CASE FlushNouvelEmprunt(w)
      <3> DEFINE e == [id |-> seqEmprunt, utilisateur |-> r.u,
                       livre |-> r.l, dateRetour |-> r.d]
      <3>1. /\ e.utilisateur = r.u /\ e.livre = r.l
            /\ emprunts' = emprunts \cup {e}
            /\ reservations' = SansReservations(r.supprime)
            /\ r.op \in OpsPretNeuf /\ r.pas = "flush"
        BY <2>3 DEF FlushNouvelEmprunt, Flush
      <3> HIDE DEF e
      <3>2. \A x \in reservations' : x \in reservations /\
                ~(x.utilisateur = r.u /\ x.livre = r.l)
        BY <1>1, <3>1 DEF InvPromesse, ReservationConnue, SansReservations,
             OpsPretNeuf
      <3> QED
        BY <2>2, <3>1, <3>2
    <2>4. CASE FlushNouvelleReservation(w)
      <3> DEFINE x == [id |-> seqReservation, utilisateur |-> r.u, livre |-> r.l]
                 L == {v \in Workers : AttendPretSur(requetes[v], r.l)}
      <3>1. /\ x.livre = r.l /\ emprunts' = emprunts /\ r.l \in Livres
            /\ reservations' = reservations \cup {x}
            /\ r.op \in OpsResaNeuve /\ r.pas = "flush"
        BY <1>1, <2>4 DEF FlushNouvelleReservation, Flush, ClesEtrangeres,
             TypeOK
      <3>2. RegleRespectee(EnCoursLivre(r.l), L, 0) /\ L \subseteq Workers
        BY <1>1, <3>1 DEF InvPromesse, LivreLibre
      <3> HIDE DEF x, L
      <3>3. /\ IsFiniteSet(EnCoursLivre(r.l))
            /\ Cardinality(EnCoursLivre(r.l)) <= 0
        BY <1>1, <3>2, LignesBornees DEF RegleRespectee, Tolerance
      <3>4. EnCoursLivre(r.l) = {}
        BY <3>3, FS_CardinalityType, FS_EmptySet
      <3> QED
        BY <2>2, <3>1, <3>4 DEF EnCoursLivre
    <2>5. CASE FlushEmprunt(w)
      <3>1. ASSUME NEW e \in emprunts,
                   emprunts' = (emprunts \ {e})
                                 \cup {[e EXCEPT !.dateRetour = "posee"]}
            PROVE  DoublesTitres' \subseteq DoublesTitres
        <4> DEFINE f == [e EXCEPT !.dateRetour = "posee"]
        <4>1. f.dateRetour = "posee" /\ emprunts' = (emprunts \ {e}) \cup {f}
          BY <1>1, <3>1 DEF TypeOK, Emprunt
        <4> HIDE DEF f
        <4> QED
          BY Zenon, <2>2, <2>5, <4>1 DEF FlushEmprunt
      <3> QED
        BY Zenon, <1>1, <2>2, <2>5, <3>1, FlushRendre DEF FlushEmprunt
    <2>6. CASE Reception(w)
      BY <1>1, <2>2, <2>6, ReceptionProgres DEF tables
    <2>7. ~FlushReservation(w)
      BY Zenon, <1>1 DEF FlushReservation, Flush, OpsEdition
    <2> QED
      BY Zenon, <2>1, <2>2, <2>3, <2>4, <2>5, <2>6, <2>7
         DEF Verification, Ecriture, ReservationRegle1, ReservationRegle2,
             ReservationRegle3, EmpruntRegle1, EmpruntRegle2, PersistLivre, PersistQuota,
             PersistReservation, FlushSuppressionReservation,
             FlushSuppressionEmprunt, FlushSuppressionLivre,
             FlushSuppressionUtilisateur, SansReservations, SansId, Echec,
             tables
  <1>2. InvBase /\ InvPromesse /\ [Next]_vars =>
          [Cardinality(Workers) = 1 =>
            \/ DoublesTitres' \subseteq DoublesTitres
            \/ \E w \in Workers : requetes[w].op \in OpsEdition]_vars
    BY <1>1
  <1> QED
    BY <1>2, BaseInvariante, InvariantPromesse, PTL
       DEF Spec, PasDeDoubleTitre

\* One worker's identity map is up to date: a loan it has hydrated still has the
\* return date it had then.
LusFrais == Cardinality(Workers) = 1 => \A w \in Workers :
    \A m \in requetes[w].lus : \A e \in emprunts :
        e.id = m.id => e.dateRetour = m.dateRetour

\* The identity map of a single worker stays up to date.
THEOREM IdentityMapFraiche == Spec => []LusFrais
  <1>1. Init => LusFrais
    BY DEF Init, LusFrais
  <1>2. TypeOK /\ (IdsEmprunts /\ IdsReservations) /\ LusFrais /\ [Next]_vars
            => LusFrais'
    <2>1. SUFFICES ASSUME TypeOK, IdsEmprunts, LusFrais,
                          [Next]_vars, Cardinality(Workers) = 1
                   PROVE  LusFrais'
      BY DEF LusFrais
    <2>2. CASE UNCHANGED vars
      BY <2>1, <2>2 DEF LusFrais, vars, tables
    <2>3. ASSUME NEW w \in Workers, requetes'[w].lus = {}
          PROVE  LusFrais'
      BY <2>1, <2>3, SeulWorker DEF LusFrais
    <2>4. ASSUME NEW w \in Workers, Reception(w)
          PROVE  LusFrais'
      <3>1. PICK s \in Requete : Recevoir(w, s) /\ Fraiche(s)
        BY <2>1, <2>4, ReceptionForme
      <3>2. requetes'[w] = s /\ s.lus = {}
        BY <2>1, <3>1 DEF Recevoir, Suite, TypeOK, Fraiche
      <3> QED
        BY <2>3, <3>2
    <2>5. ASSUME NEW w \in Workers, Verification(w)
          PROVE  LusFrais'
      <3>1. /\ emprunts' = emprunts
            /\ \/ requetes'[w].lus \subseteq requetes[w].lus
               \/ \E L \in SUBSET emprunts :
                     requetes'[w].lus = Hydrate(requetes[w], L)
        BY Zenon, <2>1, <2>5, VerificationLus
      <3>2. ASSUME NEW m \in requetes'[w].lus, NEW e \in emprunts, e.id = m.id
            PROVE  e.dateRetour = m.dateRetour
        <4>1. CASE m \in requetes[w].lus
          BY <2>1, <3>2, <4>1 DEF LusFrais
        <4>2. CASE m \notin requetes[w].lus
          <5>1. PICK f \in emprunts : m = [id |-> f.id, dateRetour |-> f.dateRetour]
            BY <3>1, <4>2 DEF Hydrate
          <5>2. m.id = f.id /\ m.dateRetour = f.dateRetour
            BY <5>1
          <5> QED
            BY <2>1, <3>2, <5>2 DEF IdsEmprunts
        <4> QED
          BY <4>1, <4>2
      <3> QED
        BY <2>1, <3>1, <3>2, SeulWorker DEF LusFrais
    <2>6. ASSUME NEW w \in Workers, Ecriture(w)
          PROVE  LusFrais'
      <3>1. requetes'[w].lus = {}
        BY <2>1, <2>6, FlushRepos DEF Repos
      <3> QED
        BY <2>3, <3>1
    <2> QED
      BY <2>1, <2>2, <2>4, <2>5, <2>6, UneEtape
  <1> QED
    BY <1>1, <1>2, TypeCorrect, IdsUniques, PTL DEF Spec

\* Served by one worker, edits included, persistEntity repeats the validator's
\* rules in vain: it sees the loans the validator saw, and none has been added
\* since.
THEOREM ControleRedondantSeul ==
    ASSUME Cardinality(Workers) = 1
    PROVE  Spec => []ControleRedondant
  <1>1. ASSUME TypeOK, InvInductif, LusFrais
        PROVE  ControleRedondant
    <2>1. SUFFICES ASSUME NEW w \in Workers, requetes[w].op = "empruntNew",
                          requetes[w].d = "null"
                   PROVE  /\ requetes[w].pas = "livre" => ~IsEmprunte(requetes[w])
                          /\ requetes[w].pas = "quota" => ~QuotaAtteint(requetes[w])
      BY DEF ControleRedondant
    <2> DEFINE r == requetes[w]
    <2>2. r \in Requete /\ RequeteCoherente(r)
      BY <1>1 DEF TypeOK, InvInductif
    <2>3. ASSUME NEW e \in emprunts, ParaitEnCours(r, e)
          PROVE  e.dateRetour = "null"
      <3> DEFINE m == [id |-> e.id, dateRetour |-> "null"]
      <3>1. m.id = e.id /\ m.dateRetour = "null"
        OBVIOUS
      <3>2. m \in r.lus \/ e.dateRetour = "null"
        BY <2>3 DEF ParaitEnCours
      <3> HIDE DEF m
      <3> QED
        BY <1>1, <3>1, <3>2 DEF LusFrais
    <2>4. CASE r.pas = "livre"
      <3>1. SUFFICES ASSUME NEW e \in emprunts, e.livre = r.l,
                            e.dateRetour = "null"
                     PROVE  FALSE
        BY <2>3, <2>4 DEF IsEmprunte, EmpruntsLivre
      <3>2. r.l \in Livres
        BY <1>1, <3>1 DEF TypeOK, Emprunt
      <3>3. AttendPretSur(r, r.l)
        BY <2>1, <2>4 DEF AttendPretSur, OpsPretNeuf
      <3> DEFINE A == EnCoursLivre(r.l)
                 P == {v \in Workers : AttendPretSur(requetes[v], r.l)}
      <3>4. RegleRespectee(A, P, 1) /\ w \in P /\ P \subseteq Workers /\ e \in A
        BY Zenon, <1>1, <3>1, <3>2, <3>3 DEF InvInductif, EnCoursLivre
      <3> HIDE DEF A, P
      <3>5. Cardinality(A) < 1
        BY <3>4, Place
      <3>6. IsFiniteSet(A)
        BY <3>4 DEF RegleRespectee
      <3>7. Cardinality(A) = 0
        BY <3>5, <3>6, FS_CardinalityType
      <3> QED
        BY <3>4, <3>6, <3>7, FS_EmptySet
    <2>5. CASE r.pas = "quota"
      <3> DEFINE S == {e \in EmpruntsUtilisateur(r.u) : ParaitEnCours(r, e)}
                 A == EnCoursUtilisateur(r.u)
                 P == {v \in Workers : AttendPretDe(requetes[v], r.u)}
      <3>1. S \subseteq A
        BY <2>3 DEF EmpruntsUtilisateur, EnCoursUtilisateur
      <3>2. CASE r.u \in Utilisateurs
        <4>1. AttendPretDe(r, r.u)
          BY <2>1, <2>2, <2>5 DEF AttendPretDe, OpsPretNeuf, RequeteCoherente
        <4>2. /\ RegleRespectee(A, P, MaxEmprunts) /\ w \in P
              /\ P \subseteq Workers
          BY Zenon, <1>1, <3>2, <4>1 DEF InvInductif
        <4> HIDE DEF S, A, P
        <4>3. Cardinality(A) < MaxEmprunts + 0
          BY <4>2, Place, CirculationHypotheses
        <4>4. IsFiniteSet(A)
          BY <4>2 DEF RegleRespectee
        <4>5. IsFiniteSet(S) /\ Cardinality(S) <= Cardinality(A)
          BY <3>1, <4>4, FS_Subset
        <4>6. Cardinality(A) \in Nat /\ Cardinality(S) \in Nat
          BY <4>4, <4>5, FS_CardinalityType
        <4>7. ~(Cardinality(S) >= MaxEmprunts)
          BY <4>3, <4>5, <4>6, CirculationHypotheses
        <4> QED
          BY <2>5, <4>7 DEF QuotaAtteint, S
      <3>3. CASE r.u = Nul
        <4>1. S = {}
          BY <1>1, <3>3, CirculationHypotheses DEF TypeOK, Emprunt,
               EmpruntsUtilisateur
        <4>2. ~(Cardinality(S) >= MaxEmprunts)
          <5> HIDE DEF S
          <5>1. Cardinality(S) = 0
            BY <4>1, FS_EmptySet
          <5> QED
            BY <5>1, CirculationHypotheses
        <4> QED
          BY <2>5, <4>2 DEF QuotaAtteint
      <3> QED
        BY <2>2, <3>2, <3>3 DEF Requete
    <2> QED
      BY <2>4, <2>5
  <1> QED
    BY <1>1, TypeCorrect, DepassementBorne, IdentityMapFraiche, PTL
       DEF SansCourse
=============================================================================

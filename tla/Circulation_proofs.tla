------------------------- MODULE Circulation_proofs -------------------------
(***************************************************************************)
(* Theorems about Circulation, for any members, books, workers, requests   *)
(* and limits: types, unique ids, and how far concurrent requests can      *)
(* break the library's limits.  For any number W of workers that is by at  *)
(* most W - 1 rows, as long as nobody uses the edit forms of the back      *)
(* office; with one worker the limits are exact, edits included.           *)
(***************************************************************************)
EXTENDS Circulation, FiniteSetTheorems, TLAPS

\* The steps of a request after its reception: those that only query, or end
\* it, and those that write.
Verification(w) ==
    \/ ReservationRegle1(w) \/ ReservationRegle2(w) \/ ReservationRegle3(w)
    \/ EmpruntRegle1(w) \/ EmpruntRegle2(w)
    \/ PersistLivre(w) \/ PersistQuota(w) \/ PersistReservation(w)
    \/ Echec(w)

Ecriture(w) ==
    \/ FlushNouvelEmprunt(w) \/ FlushNouvelleReservation(w)
    \/ FlushEmprunt(w) \/ FlushReservation(w)
    \/ FlushSuppressionReservation(w) \/ FlushSuppressionEmprunt(w)
    \/ FlushSuppressionLivre(w) \/ FlushSuppressionUtilisateur(w)

\* There are no other steps.
LEMMA UneEtape ==
    ASSUME Next
    PROVE  \E w \in Workers : Reception(w) \/ Verification(w) \/ Ecriture(w)
  BY Zenon DEF Next, Etape, Verification, Ecriture

-----------------------------------------------------------------------------
(* Types. *)

\* A worker's new request is the only change that Suite makes to requetes.
LEMMA SuiteType ==
    ASSUME TypeOK, NEW w \in Workers, NEW r \in Requete, Suite(w, r)
    PROVE  requetes' \in [Workers -> Requete]
  BY DEF TypeOK, Suite

\* The idle request is a request.
LEMMA ReposType == Repos \in Requete
  BY DEF Repos, Requete, ToutesOps, Pas, DateRetour

\* The columns that the edit form r leaves alone hold in row x what it showed.
Fidele(r, x) ==
    /\ "utilisateur" \in r.colonnes \/ x.utilisateur = r.u
    /\ "livre" \in r.colonnes \/ x.livre = r.l

PretFidele(r, e) ==
    Fidele(r, e) /\ ("dateRetour" \in r.colonnes \/ e.dateRetour = r.d)

\* What a handler has loaded when it starts.
Fraiche(s) ==
    /\ ~s.erreur /\ s.lus = {}
    /\ s.op \in OpsPretNeuf \cup OpsResaNeuve =>
          /\ s.id = 0
          /\ \/ s.pas = "r1"
             \/ s.op = "empruntNew" /\ s.d = "posee"
    /\ s.pas \in {"livre", "quota", "resa"} => s.op = "empruntNew"
    /\ s.op = "empruntNew" => s.pas # "flush"
    /\ s.op = "rendre" => s.d = "posee" /\ s.colonnes = {"dateRetour"}
    /\ s.op = "transformer" => \E x \in reservations :
          s.supprime = {x.id} /\ s.u = x.utilisateur /\ s.l = x.livre
    /\ s.op = "livreDelete" =>
          s.supprime = {x.id : x \in ReservationsLivre(s.l)}
    /\ s.op = "utilisateurDelete" =>
          s.supprime = {x.id : x \in ReservationsUtilisateur(s.u)}
    /\ s.op = "reservationDelete" => \E x \in reservations : s.supprime = {x.id}
    /\ s.op \in {"empruntNew", "reserver", "reservationNew", "reservationEdit",
                 "empruntEdit", "rendre", "empruntDelete"} => s.supprime = {}
    /\ s.op = "empruntEdit" =>
          /\ s.d = "null" => s.pas = "r1"
          /\ \E e \in emprunts : e.id = s.id /\ PretFidele(s, e)
    /\ s.op = "reservationEdit" =>
          s.pas = "r1" /\ \E x \in reservations : x.id = s.id /\ Fidele(s, x)

\* Every reception is that of a well-typed request with just these contents.
LEMMA ReceptionForme ==
    ASSUME TypeOK, NEW w \in Workers, Reception(w)
    PROVE  \E s \in Requete : Recevoir(w, s) /\ Fraiche(s)
  <1> USE DEF OpsPretNeuf, OpsPretMaj, OpsResaNeuve, OpsSuppression, OpsEdition,
              Pas, DateRetour
  <1>1. CASE Reserver(w)
    <2>1. PICK u \in utilisateurs, l \in livres :
            Recevoir(w, [Repos EXCEPT
              !.op = "reserver", !.pas = "r1", !.u = u, !.l = l])
      BY Zenon, <1>1 DEF Reserver
    <2> DEFINE s == [Repos EXCEPT
                       !.op = "reserver", !.pas = "r1", !.u = u, !.l = l]
    <2>2. /\ u \in Utilisateurs /\ l \in Livres
      BY DEF TypeOK
    <2>3. s \in Requete
      BY Zenon, <2>2 DEF Requete, ToutesOps, Repos
    <2>4. Fraiche(s)
      BY <2>2 DEF Fraiche, Repos
    <2>5. Recevoir(w, s)
      BY <2>1
    <2> HIDE DEF s
    <2> QED
      BY <2>3, <2>4, <2>5
  <1>2. CASE NouvelleReservation(w)
    <2>1. PICK u \in utilisateurs, l \in livres :
            Recevoir(w, [Repos EXCEPT
              !.op = "reservationNew", !.pas = "r1", !.u = u, !.l = l])
      BY Zenon, <1>2 DEF NouvelleReservation
    <2> DEFINE s == [Repos EXCEPT
                       !.op = "reservationNew", !.pas = "r1", !.u = u, !.l = l]
    <2>2. /\ u \in Utilisateurs /\ l \in Livres
      BY DEF TypeOK
    <2>3. s \in Requete
      BY Zenon, <2>2 DEF Requete, ToutesOps, Repos
    <2>4. Fraiche(s)
      BY <2>2 DEF Fraiche, Repos
    <2>5. Recevoir(w, s)
      BY <2>1
    <2> HIDE DEF s
    <2> QED
      BY <2>3, <2>4, <2>5
  <1>3. CASE EditerReservation(w)
    <2>1. PICK x \in reservations, u \in utilisateurs, l \in livres :
            Recevoir(w, [Repos EXCEPT
              !.op = "reservationEdit", !.pas = "r1", !.u = u, !.l = l,
              !.id = x.id, !.colonnes = Colonnes(x, u, l)])
      BY Zenon, <1>3 DEF EditerReservation
    <2> DEFINE cols == Colonnes(x, u, l)
               s == [Repos EXCEPT
                       !.op = "reservationEdit", !.pas = "r1", !.u = u,
                       !.l = l, !.id = x.id, !.colonnes = cols]
    <2>2. /\ u \in Utilisateurs /\ l \in Livres
          /\ x.id \in Nat /\ cols \in SUBSET {"utilisateur", "livre", "dateRetour"}
          /\ "utilisateur" \in cols \/ x.utilisateur = u
          /\ "livre" \in cols \/ x.livre = l
      BY DEF TypeOK, Reservation, Colonnes
    <2>3. s \in Requete
      <3> HIDE DEF cols
      <3> QED BY Zenon, <2>2 DEF Requete, ToutesOps, Repos
    <2>4. Fraiche(s)
      <3> HIDE DEF cols
      <3>1. /\ s.op = "reservationEdit" /\ s.pas = "r1" /\ s.id = x.id
            /\ ~s.erreur /\ s.lus = {} /\ s.supprime = {} /\ Fidele(s, x)
        BY <2>2 DEF Repos, Fidele
      <3> HIDE DEF s
      <3> QED
        BY <3>1 DEF Fraiche
    <2>5. Recevoir(w, s)
      BY <2>1
    <2> HIDE DEF s
    <2> QED
      BY <2>3, <2>4, <2>5
  <1>4. CASE TransformerEnEmprunt(w)
    <2>1. PICK x \in reservations :
            Recevoir(w, [Repos EXCEPT
              !.op = "transformer", !.pas = "r1", !.u = x.utilisateur,
              !.l = x.livre, !.supprime = {x.id}])
      BY Zenon, <1>4 DEF TransformerEnEmprunt
    <2> DEFINE s == [Repos EXCEPT
                       !.op = "transformer", !.pas = "r1", !.u = x.utilisateur,
                       !.l = x.livre, !.supprime = {x.id}]
    <2>2. /\ x.utilisateur \in Utilisateurs /\ x.livre \in Livres
          /\ {x.id} \in SUBSET Nat
      BY DEF TypeOK, Reservation
    <2>3. s \in Requete
      BY Zenon, <2>2 DEF Requete, ToutesOps, Repos
    <2>4. Fraiche(s)
      BY <2>2 DEF Fraiche, Repos
    <2>5. Recevoir(w, s)
      BY <2>1
    <2> HIDE DEF s
    <2> QED
      BY <2>3, <2>4, <2>5
  <1>5. CASE NouvelEmprunt(w)
    <2>1. PICK u \in utilisateurs, l \in livres, d \in DateRetour :
            Recevoir(w, [Repos EXCEPT
              !.op = "empruntNew",
              !.pas = IF d = "null" THEN "r1" ELSE "livre", !.u = u, !.l = l,
              !.d = d])
      BY Zenon, <1>5 DEF NouvelEmprunt
    <2> DEFINE place == IF d = "null" THEN "r1" ELSE "livre"
               s == [Repos EXCEPT
                       !.op = "empruntNew", !.pas = place, !.u = u, !.l = l,
                       !.d = d]
    <2>2. /\ u \in Utilisateurs /\ l \in Livres
          /\ place \in Pas /\ (place = "r1" \/ d = "posee")
      BY DEF TypeOK
    <2>3. s \in Requete
      <3> HIDE DEF place
      <3> QED BY Zenon, <2>2 DEF Requete, ToutesOps, Repos
    <2>4. Fraiche(s)
      BY <2>2 DEF Fraiche, Repos
    <2>5. Recevoir(w, s)
      BY <2>1
    <2> HIDE DEF s
    <2> QED
      BY <2>3, <2>4, <2>5
  <1>6. CASE EditerEmprunt(w)
    <2>1. PICK e \in emprunts, u \in utilisateurs, l \in livres,
               d \in DateRetour, b \in BOOLEAN :
            Recevoir(w, [Repos EXCEPT
              !.op = "empruntEdit",
              !.pas = IF d = "null" THEN "r1" ELSE "flush", !.u = u, !.l = l,
              !.d = d, !.id = e.id,
              !.colonnes = Colonnes(e, u, l) \cup
                    IF d # e.dateRetour \/ b THEN {"dateRetour"} ELSE {}])
      BY <1>6, ZenonT(60) DEF EditerEmprunt
    <2> DEFINE place == IF d = "null" THEN "r1" ELSE "flush"
               cols == Colonnes(e, u, l) \cup
                    IF d # e.dateRetour \/ b THEN {"dateRetour"} ELSE {}
               s == [Repos EXCEPT
                       !.op = "empruntEdit", !.pas = place, !.u = u, !.l = l,
                       !.d = d, !.id = e.id, !.colonnes = cols]
    <2>2. /\ u \in Utilisateurs /\ l \in Livres
          /\ e.id \in Nat /\ place \in Pas
          /\ cols \in SUBSET {"utilisateur", "livre", "dateRetour"}
          /\ "utilisateur" \in cols \/ e.utilisateur = u
          /\ "livre" \in cols \/ e.livre = l
          /\ "dateRetour" \in cols \/ e.dateRetour = d
          /\ d = "null" => place = "r1"
          /\ place = "r1" \/ place = "flush"
      BY DEF TypeOK, Emprunt, Colonnes
    <2>3. s \in Requete
      <3> HIDE DEF place, cols
      <3> QED BY <2>2 DEF Requete, ToutesOps, Repos
    <2>4. Fraiche(s)
      <3> HIDE DEF place, cols
      <3>1. /\ s.op = "empruntEdit" /\ s.pas = place /\ s.id = e.id /\ s.d = d
            /\ ~s.erreur /\ s.lus = {} /\ s.supprime = {} /\ PretFidele(s, e)
        BY <2>2 DEF Repos, PretFidele, Fidele
      <3> HIDE DEF s
      <3> QED
        BY <2>2, <3>1 DEF Fraiche
    <2>5. Recevoir(w, s)
      BY <2>1
    <2> HIDE DEF s
    <2> QED
      BY <2>3, <2>4, <2>5
  <1>7. CASE RendreLivre(w)
    <2>1. PICK e \in emprunts :
            Recevoir(w, [Repos EXCEPT
              !.op = "rendre", !.pas = "flush", !.d = "posee", !.id = e.id,
              !.colonnes = {"dateRetour"}])
      BY Zenon, <1>7 DEF RendreLivre
    <2> DEFINE s == [Repos EXCEPT
                       !.op = "rendre", !.pas = "flush", !.d = "posee",
                       !.id = e.id, !.colonnes = {"dateRetour"}]
    <2>2. /\ e.id \in Nat
      BY DEF TypeOK, Emprunt
    <2>3. s \in Requete
      BY Zenon, <2>2 DEF Requete, ToutesOps, Repos
    <2>4. Fraiche(s)
      BY <2>2 DEF Fraiche, Repos
    <2>5. Recevoir(w, s)
      BY <2>1
    <2> HIDE DEF s
    <2> QED
      BY <2>3, <2>4, <2>5
  <1>8. CASE SupprimerReservation(w)
    <2>1. PICK x \in reservations :
            Recevoir(w, [Repos EXCEPT
              !.op = "reservationDelete", !.pas = "flush", !.supprime = {x.id}])
      BY Zenon, <1>8 DEF SupprimerReservation
    <2> DEFINE s == [Repos EXCEPT
                       !.op = "reservationDelete", !.pas = "flush",
                       !.supprime = {x.id}]
    <2>2. /\ {x.id} \in SUBSET Nat
      BY DEF TypeOK, Reservation
    <2>3. s \in Requete
      BY Zenon, <2>2 DEF Requete, ToutesOps, Repos
    <2>4. Fraiche(s)
      BY <2>2 DEF Fraiche, Repos
    <2>5. Recevoir(w, s)
      BY <2>1
    <2> HIDE DEF s
    <2> QED
      BY <2>3, <2>4, <2>5
  <1>9. CASE SupprimerEmprunt(w)
    <2>1. PICK e \in emprunts :
            Recevoir(w, [Repos EXCEPT
              !.op = "empruntDelete", !.pas = "flush", !.id = e.id])
      BY Zenon, <1>9 DEF SupprimerEmprunt
    <2> DEFINE s == [Repos EXCEPT
                       !.op = "empruntDelete", !.pas = "flush", !.id = e.id]
    <2>2. /\ e.id \in Nat
      BY DEF TypeOK, Emprunt
    <2>3. s \in Requete
      BY Zenon, <2>2 DEF Requete, ToutesOps, Repos
    <2>4. Fraiche(s)
      BY <2>2 DEF Fraiche, Repos
    <2>5. Recevoir(w, s)
      BY <2>1
    <2> HIDE DEF s
    <2> QED
      BY <2>3, <2>4, <2>5
  <1>10. CASE SupprimerLivre(w)
    <2>1. PICK l \in livres :
            Recevoir(w, [Repos EXCEPT
              !.op = "livreDelete", !.pas = "flush", !.l = l,
              !.supprime = {x.id : x \in ReservationsLivre(l)}])
      BY Zenon, <1>10 DEF SupprimerLivre
    <2> DEFINE ids == {x.id : x \in ReservationsLivre(l)}
               s == [Repos EXCEPT
                       !.op = "livreDelete", !.pas = "flush", !.l = l,
                       !.supprime = ids]
    <2>2. /\ l \in Livres /\ ids \in SUBSET Nat
      BY DEF TypeOK, Reservation, ReservationsLivre
    <2>3. s \in Requete
      <3> HIDE DEF ids
      <3> QED BY Zenon, <2>2 DEF Requete, ToutesOps, Repos
    <2>4. Fraiche(s)
      BY <2>2 DEF Fraiche, Repos
    <2>5. Recevoir(w, s)
      BY <2>1
    <2> HIDE DEF s
    <2> QED
      BY <2>3, <2>4, <2>5
  <1>11. CASE SupprimerUtilisateur(w)
    <2>1. PICK u \in utilisateurs :
            Recevoir(w, [Repos EXCEPT
              !.op = "utilisateurDelete", !.pas = "flush", !.u = u,
              !.supprime = {x.id : x \in ReservationsUtilisateur(u)}])
      BY Zenon, <1>11 DEF SupprimerUtilisateur
    <2> DEFINE ids == {x.id : x \in ReservationsUtilisateur(u)}
               s == [Repos EXCEPT
                       !.op = "utilisateurDelete", !.pas = "flush", !.u = u,
                       !.supprime = ids]
    <2>2. /\ u \in Utilisateurs /\ ids \in SUBSET Nat
      BY DEF TypeOK, Reservation, ReservationsUtilisateur
    <2>3. s \in Requete
      <3> HIDE DEF ids
      <3> QED BY Zenon, <2>2 DEF Requete, ToutesOps, Repos
    <2>4. Fraiche(s)
      BY <2>2 DEF Fraiche, Repos
    <2>5. Recevoir(w, s)
      BY <2>1
    <2> HIDE DEF s
    <2> QED
      BY <2>3, <2>4, <2>5
  <1> QED
    BY <1>1, <1>2, <1>3, <1>4, <1>5, <1>6, <1>7, <1>8, <1>9, <1>10, <1>11
       DEF Reception

\* Receiving a request keeps the types: the handler only loads rows.
LEMMA ReceptionType ==
    ASSUME TypeOK, NEW w \in Workers, Reception(w)
    PROVE  TypeOK'
  <1>1. PICK s \in Requete : Recevoir(w, s)
    BY ReceptionForme
  <1> QED
    BY <1>1, SuiteType DEF Recevoir, TypeOK, tables

\* The rules and persistEntity only move a request on.
LEMMA VerificationType ==
    ASSUME TypeOK, NEW w \in Workers, Verification(w)
    PROVE  TypeOK'
  <1> DEFINE r == requetes[w]
  <1>1. r \in Requete
    BY DEF TypeOK
  <1>2. ASSUME NEW x \in Requete, Suite(w, x), UNCHANGED tables
        PROVE  TypeOK'
    BY <1>2, SuiteType DEF TypeOK, tables
  <1>3. ASSUME Fin(w), UNCHANGED tables
        PROVE  TypeOK'
    BY <1>2, <1>3, ReposType DEF Fin
  <1>4. ASSUME NEW viole \in BOOLEAN, NEW pas \in Pas, Regle(w, viole, pas),
               UNCHANGED tables
        PROVE  TypeOK'
    <2>1. [r EXCEPT !.erreur = r.erreur \/ viole, !.pas = pas] \in Requete
      BY Zenon, <1>1 DEF Requete
    <2> QED
      BY <1>2, <1>3, <1>4, <2>1 DEF Regle
  <1>5. ASSUME NEW viole \in BOOLEAN, NEW pas \in Pas,
               DerniereRegle(w, viole, pas), UNCHANGED tables
        PROVE  TypeOK'
    <2>1. [r EXCEPT !.pas = pas] \in Requete
      BY <1>1 DEF Requete
    <2> QED
      BY <1>2, <1>3, <1>5, <2>1 DEF DerniereRegle
  <1>6. \A lignes \in SUBSET emprunts :
            Hydrate(r, lignes) \in SUBSET [id : Nat, dateRetour : DateRetour]
    BY <1>1 DEF Hydrate, TypeOK, Emprunt, Requete
  <1>7. CASE ReservationRegle1(w)
    <2>1. TropDeReservations(r) \in BOOLEAN
      BY DEF TropDeReservations
    <2> QED
      BY <1>4, <1>7, <2>1 DEF ReservationRegle1, Pas
  <1>8. CASE ReservationRegle2(w)
    BY Zenon, <1>4, <1>8 DEF ReservationRegle2, DejaReserve, Pas
  <1>9. CASE ReservationRegle3(w)
    BY Zenon, <1>5, <1>9 DEF ReservationRegle3, Pas
  <1>10. CASE EmpruntRegle1(w)
    <2> DEFINE suite == [r EXCEPT !.erreur = TropDEmprunts(r), !.pas = "r2"]
               lus == Hydrate(r, EnCoursUtilisateur(r.u))
    <2>1. TropDEmprunts(r) \in BOOLEAN
      BY DEF TropDEmprunts
    <2>2. suite \in Requete
      BY Zenon, <1>1, <2>1 DEF Requete, Pas
    <2>3. lus \in SUBSET [id : Nat, dateRetour : DateRetour]
      BY <1>6 DEF EnCoursUtilisateur
    <2>4. [suite EXCEPT !.lus = lus] \in Requete
      <3> HIDE DEF suite, lus
      <3> QED BY <2>2, <2>3 DEF Requete
    <2> QED
      BY <1>2, <1>10, <2>2, <2>4 DEF EmpruntRegle1
  <1>11. CASE EmpruntRegle2(w)
    BY Zenon, <1>5, <1>11 DEF EmpruntRegle2, DejaEmprunte, Pas
  <1>12. CASE PersistLivre(w)
    <2> DEFINE lus == Hydrate(r, EmpruntsLivre(r.l))
    <2>1. lus \in SUBSET [id : Nat, dateRetour : DateRetour]
      BY <1>6 DEF EmpruntsLivre
    <2>2. [r EXCEPT !.pas = "quota", !.lus = lus] \in Requete
      <3> HIDE DEF lus
      <3> QED BY Zenon, <1>1, <2>1 DEF Requete, Pas
    <2> QED
      BY <1>2, <1>3, <1>12, <2>2 DEF PersistLivre
  <1>13. CASE PersistQuota(w)
    <2>1. [r EXCEPT !.pas = "resa", !.lus = {}] \in Requete
      BY Zenon, <1>1 DEF Requete, Pas
    <2> QED
      BY <1>2, <1>3, <1>13, <2>1 DEF PersistQuota
  <1>14. CASE PersistReservation(w)
    <2>1. \A id \in ReservationsDuPret(r) : {id} \in SUBSET Nat
      BY DEF ReservationsDuPret, ReservationsLivre, TypeOK, Reservation
    <2>2. \A id \in ReservationsDuPret(r) :
            [r EXCEPT !.pas = "flush", !.supprime = {id}] \in Requete
      BY Zenon, <1>1, <2>1 DEF Requete, Pas
    <2>3. [r EXCEPT !.pas = "flush"] \in Requete
      BY <1>1 DEF Requete, Pas
    <2> QED
      BY Zenon, <1>2, <1>14, <2>2, <2>3 DEF PersistReservation
  <1>15. CASE Echec(w)
    BY <1>3, <1>15 DEF Echec
  <1> QED
    BY <1>7, <1>8, <1>9, <1>10, <1>11, <1>12, <1>13, <1>14, <1>15
       DEF Verification

\* A flush writes rows of the right type that refer to existing rows, and a
\* deletion leaves no row that refers to what it deletes.
LEMMA FlushType ==
    ASSUME TypeOK, NEW w \in Workers, Ecriture(w)
    PROVE  TypeOK'
  <1> DEFINE r == requetes[w]
  <1>1. r \in Requete
    BY DEF TypeOK
  <1>2. ASSUME NEW ops, Flush(w, ops)
        PROVE  requetes' \in [Workers -> Requete]
    BY <1>2, SuiteType, ReposType DEF Flush, Fin
  <1>3. CASE FlushNouvelEmprunt(w)
    <2>1. requetes' \in [Workers -> Requete]
      BY <1>2, <1>3 DEF FlushNouvelEmprunt
    <2> DEFINE e == [id |-> seqEmprunt, utilisateur |-> r.u,
                     livre |-> r.l, dateRetour |-> r.d]
    <2>2. e \in Emprunt /\ e.utilisateur \in utilisateurs /\ e.livre \in livres
      BY <1>1, <1>3
         DEF FlushNouvelEmprunt, TypeOK, Emprunt, Requete, ClesEtrangeres
    <2>3. /\ emprunts' = emprunts \cup {e} /\ seqEmprunt' = seqEmprunt + 1
          /\ reservations' \subseteq reservations
          /\ UNCHANGED <<livres, utilisateurs, seqReservation>>
      BY <1>3 DEF FlushNouvelEmprunt, SansReservations
    <2>4. e.id = seqEmprunt
      OBVIOUS
    <2> HIDE DEF e
    <2> QED
      BY <2>1, <2>2, <2>3, <2>4 DEF TypeOK
  <1>4. CASE FlushNouvelleReservation(w)
    <2>1. requetes' \in [Workers -> Requete]
      BY <1>2, <1>4 DEF FlushNouvelleReservation
    <2> DEFINE x == [id |-> seqReservation, utilisateur |-> r.u, livre |-> r.l]
    <2>2. x \in Reservation /\ x.utilisateur \in utilisateurs /\ x.livre \in livres
      BY <1>1, <1>4
         DEF FlushNouvelleReservation, TypeOK, Reservation, Requete,
             ClesEtrangeres
    <2>3. /\ reservations' = reservations \cup {x}
          /\ seqReservation' = seqReservation + 1
          /\ UNCHANGED <<emprunts, livres, utilisateurs, seqEmprunt>>
      BY <1>4 DEF FlushNouvelleReservation
    <2>4. x.id = seqReservation
      OBVIOUS
    <2> HIDE DEF x
    <2> QED
      BY <2>1, <2>2, <2>3, <2>4 DEF TypeOK
  <1>5. CASE FlushEmprunt(w)
    <2>1. requetes' \in [Workers -> Requete]
      BY Zenon, <1>2, <1>5 DEF FlushEmprunt
    <2>2. ASSUME NEW e \in emprunts'
          PROVE  /\ e \in Emprunt /\ e.id \in 1 .. seqEmprunt - 1
                 /\ e.utilisateur \in utilisateurs /\ e.livre \in livres
      <3>1. CASE e \in emprunts
        BY <3>1 DEF TypeOK
      <3>2. CASE e \notin emprunts
        <4>1. PICK y \in emprunts :
                e = [y EXCEPT
                    !.utilisateur = Ecrit(r, "utilisateur", r.u, y.utilisateur),
                    !.livre = Ecrit(r, "livre", r.l, y.livre),
                    !.dateRetour = Ecrit(r, "dateRetour", r.d, y.dateRetour)]
          BY Zenon, <1>5, <2>2, <3>2 DEF FlushEmprunt, SansId
        <4>2. /\ Ecrit(r, "utilisateur", r.u, y.utilisateur) \in utilisateurs
              /\ Ecrit(r, "livre", r.l, y.livre) \in livres
              /\ Ecrit(r, "dateRetour", r.d, y.dateRetour) \in DateRetour
          BY Zenon, <1>1, <1>5
             DEF FlushEmprunt, ColonnesValides, Ecrit, TypeOK, Emprunt, Requete
        <4> QED
          BY Zenon, <4>1, <4>2 DEF TypeOK, Emprunt
      <3> QED
        BY <3>1, <3>2
    <2>3. UNCHANGED <<reservations, livres, utilisateurs,
                      seqEmprunt, seqReservation>>
      BY Zenon, <1>5 DEF FlushEmprunt
    <2> QED
      BY <2>1, <2>2, <2>3 DEF TypeOK
  <1>6. CASE FlushReservation(w)
    <2>1. requetes' \in [Workers -> Requete]
      BY Zenon, <1>2, <1>6 DEF FlushReservation
    <2>2. ASSUME NEW e \in reservations'
          PROVE  /\ e \in Reservation /\ e.id \in 1 .. seqReservation - 1
                 /\ e.utilisateur \in utilisateurs /\ e.livre \in livres
      <3>1. CASE e \in reservations
        BY <3>1 DEF TypeOK
      <3>2. CASE e \notin reservations
        <4>1. PICK y \in reservations :
                e = [y EXCEPT
                    !.utilisateur = Ecrit(r, "utilisateur", r.u, y.utilisateur),
                    !.livre = Ecrit(r, "livre", r.l, y.livre)]
          BY Zenon, <1>6, <2>2, <3>2 DEF FlushReservation, SansId
        <4>2. /\ Ecrit(r, "utilisateur", r.u, y.utilisateur) \in utilisateurs
              /\ Ecrit(r, "livre", r.l, y.livre) \in livres
          BY Zenon, <1>1, <1>6
             DEF FlushReservation, ColonnesValides, Ecrit, TypeOK, Requete
        <4> QED
          BY Zenon, <4>1, <4>2 DEF TypeOK, Reservation
      <3> QED
        BY <3>1, <3>2
    <2>3. UNCHANGED <<emprunts, livres, utilisateurs,
                      seqEmprunt, seqReservation>>
      BY Zenon, <1>6 DEF FlushReservation
    <2> QED
      BY <2>1, <2>2, <2>3 DEF TypeOK
  <1>7. CASE FlushSuppressionReservation(w)
    BY <1>2, <1>7 DEF FlushSuppressionReservation, SansReservations, TypeOK
  <1>8. CASE FlushSuppressionEmprunt(w)
    BY <1>2, <1>8 DEF FlushSuppressionEmprunt, SansId, TypeOK
  <1>9. CASE FlushSuppressionLivre(w)
    BY <1>2, <1>9
       DEF FlushSuppressionLivre, SansReservations, EmpruntsLivre, TypeOK
  <1>10. CASE FlushSuppressionUtilisateur(w)
    BY <1>2, <1>10
       DEF FlushSuppressionUtilisateur, SansReservations, EmpruntsUtilisateur,
           TypeOK
  <1> QED
    BY <1>3, <1>4, <1>5, <1>6, <1>7, <1>8, <1>9, <1>10 DEF Ecriture

\* Types and foreign keys hold in every state, whatever the interleaving of
\* deletions with the requests that refer to the rows they delete.
THEOREM TypeCorrect == Spec => []TypeOK
  <1>1. Init => TypeOK
    <2> SUFFICES ASSUME Init PROVE TypeOK
      OBVIOUS
    <2>1. requetes \in [Workers -> Requete]
      BY ReposType DEF Init
    <2> QED
      BY <2>1 DEF Init, TypeOK
  <1>2. TypeOK /\ [Next]_vars => TypeOK'
    <2> SUFFICES ASSUME TypeOK, [Next]_vars PROVE TypeOK'
      OBVIOUS
    <2>1. CASE UNCHANGED vars
      BY <2>1 DEF vars, tables, TypeOK
    <2>2. ASSUME NEW w \in Workers, \/ Reception(w) \/ Verification(w)
                                 \/ Ecriture(w)
          PROVE  TypeOK'
      BY <2>2, ReceptionType, VerificationType, FlushType
    <2> QED
      BY <2>1, <2>2, UneEtape
  <1> QED
    BY <1>1, <1>2, PTL DEF Spec

-----------------------------------------------------------------------------
(* What the rules and persistEntity leave in PHP memory. *)

\* The request s goes on from r with its entity and the ids it holds; a new loan
\* is not ready to be flushed.
Continue(r, s) ==
    /\ s.op = r.op /\ s.u = r.u /\ s.l = r.l /\ s.supprime = r.supprime
    /\ s.op = "empruntNew" => s.pas # "flush"

\* The rules and persistEntity: the request ends or goes on, or its reservation
\* has been looked up.
LEMMA VerificationForme ==
    ASSUME TypeOK, NEW w \in Workers, Verification(w)
    PROVE  /\ Suite(w, requetes'[w]) /\ UNCHANGED tables
           /\ \/ requetes'[w] = Repos
              \/ Continue(requetes[w], requetes'[w])
              \/ PersistReservation(w)
  <1> DEFINE r == requetes[w]
             s == requetes'[w]
  <1>1. r \in Requete
    BY DEF TypeOK
  <1>2. ASSUME NEW x, Suite(w, x)
        PROVE  s = x
    BY <1>2 DEF Suite, TypeOK
  <1>3. UNCHANGED tables /\ Suite(w, s)
    BY Zenon, <1>2 DEF Verification, ReservationRegle1, ReservationRegle2,
         ReservationRegle3, Regle, DerniereRegle, EmpruntRegle1,
         EmpruntRegle2, PersistLivre, PersistQuota, PersistReservation, Echec,
         Fin
  <1>4. CASE ReservationRegle1(w) \/ ReservationRegle2(w)
    <2>1. ASSUME NEW viole, NEW pas, Regle(w, viole, pas)
          PROVE  s = Repos \/ s = [r EXCEPT !.erreur = r.erreur \/ viole, !.pas = pas]
      BY <1>2, <2>1 DEF Regle, Fin
    <2>2. r.op # "empruntNew"
      BY <1>4 DEF ReservationRegle1, ReservationRegle2, OpsRegleReservation,
           OpsResaNeuve
    <2>3. ASSUME NEW viole, NEW pas, Regle(w, viole, pas)
          PROVE  s = Repos \/ Continue(r, s)
      BY Zenon, <1>1, <2>1, <2>2, <2>3 DEF Requete, Continue
    <2> QED
      BY <1>3, <1>4, <2>3 DEF ReservationRegle1, ReservationRegle2
  <1>5. CASE ReservationRegle3(w) \/ EmpruntRegle2(w)
    <2>1. PICK pas : /\ s = Repos \/ s = [r EXCEPT !.pas = pas]
                     /\ r.op = "empruntNew" => pas = "livre"
      BY Zenon, <1>2, <1>5 DEF ReservationRegle3, EmpruntRegle2, DerniereRegle, Fin,
           OpsRegleReservation, OpsResaNeuve
    <2>2. s = Repos \/ Continue(r, s)
      BY <1>1, <2>1 DEF Requete, Continue
    <2> QED
      BY <1>3, <2>2
  <1>6. CASE EmpruntRegle1(w)
    <2> DEFINE lus == Hydrate(r, EnCoursUtilisateur(r.u))
               viole == TropDEmprunts(r)
               suite == [r EXCEPT !.erreur = viole, !.pas = "r2"]
    <2>1. s = IF r.op = "empruntNew" THEN [suite EXCEPT !.lus = lus] ELSE suite
      BY <1>2, <1>6 DEF EmpruntRegle1
    <2>2. Continue(r, s)
      <3> HIDE DEF lus, viole
      <3> QED BY <1>1, <2>1 DEF Requete, Continue
    <2> QED
      BY <1>3, <2>2
  <1>7. CASE PersistLivre(w)
    <2> DEFINE lus == Hydrate(r, EmpruntsLivre(r.l))
    <2>1. s = Repos \/ s = [r EXCEPT !.pas = "quota", !.lus = lus]
      BY <1>2, <1>7 DEF PersistLivre, Fin
    <2>2. s = Repos \/ Continue(r, s)
      <3> HIDE DEF lus
      <3> QED BY Zenon, <1>1, <2>1 DEF Requete, Continue
    <2> QED
      BY <1>3, <2>2
  <1>8. CASE PersistQuota(w)
    <2>1. s = Repos \/ s = [r EXCEPT !.pas = "resa", !.lus = {}]
      BY <1>2, <1>8 DEF PersistQuota, Fin
    <2>2. s = Repos \/ Continue(r, s)
      BY Zenon, <1>1, <2>1 DEF Requete, Continue
    <2> QED
      BY <1>3, <2>2
  <1>9. CASE Echec(w)
    BY <1>2, <1>3, <1>9 DEF Echec, Fin
  <1> QED
    BY <1>3, <1>4, <1>5, <1>6, <1>7, <1>8, <1>9 DEF Verification

\* The rules and persistEntity: the identity map is kept, emptied, or completed
\* with loans just read.
LEMMA VerificationLus ==
    ASSUME TypeOK, NEW w \in Workers, Verification(w)
    PROVE  /\ emprunts' = emprunts
           /\ \/ requetes'[w].lus \subseteq requetes[w].lus
              \/ \E L \in SUBSET emprunts :
                    requetes'[w].lus = Hydrate(requetes[w], L)
  <1> DEFINE r == requetes[w]
             s == requetes'[w]
  <1>1. r \in Requete
    BY DEF TypeOK
  <1>2. ASSUME NEW x, Suite(w, x)
        PROVE  s = x
    BY <1>2 DEF Suite, TypeOK
  <1>3. emprunts' = emprunts
    BY VerificationForme DEF tables
  <1>4. CASE s = Repos
    BY <1>3, <1>4 DEF Repos
  <1>5. CASE ReservationRegle1(w) \/ ReservationRegle2(w)
    <2>1. ASSUME NEW viole, NEW pas, Regle(w, viole, pas)
          PROVE  s = Repos \/ s.lus = r.lus
      <3>1. s = Repos \/ s = [r EXCEPT !.erreur = r.erreur \/ viole, !.pas = pas]
        BY <1>2, <2>1 DEF Regle, Fin
      <3> QED
        BY Zenon, <1>1, <3>1 DEF Requete
    <2>2. s = Repos \/ s.lus = r.lus
      BY <1>5, <2>1 DEF ReservationRegle1, ReservationRegle2
    <2> QED
      BY <1>3, <1>4, <2>2
  <1>6. CASE ReservationRegle3(w) \/ EmpruntRegle2(w)
    <2>1. PICK pas : s = Repos \/ s = [r EXCEPT !.pas = pas]
      BY Zenon, <1>2, <1>6 DEF ReservationRegle3, EmpruntRegle2, DerniereRegle, Fin
    <2> QED
      BY <1>1, <1>3, <2>1 DEF Requete, Repos
  <1>7. CASE EmpruntRegle1(w)
    <2> DEFINE lus == Hydrate(r, EnCoursUtilisateur(r.u))
               viole == TropDEmprunts(r)
               suite == [r EXCEPT !.erreur = viole, !.pas = "r2"]
    <2>1. s = IF r.op = "empruntNew" THEN [suite EXCEPT !.lus = lus] ELSE suite
      BY <1>2, <1>7 DEF EmpruntRegle1
    <2>2. s.lus = lus \/ s.lus = r.lus
      <3> HIDE DEF lus, viole
      <3> QED BY <1>1, <2>1 DEF Requete
    <2>3. EnCoursUtilisateur(r.u) \in SUBSET emprunts
      BY DEF EnCoursUtilisateur
    <2> QED
      BY <1>3, <2>2, <2>3
  <1>8. CASE PersistLivre(w)
    <2> DEFINE lus == Hydrate(r, EmpruntsLivre(r.l))
    <2>1. s = Repos \/ s = [r EXCEPT !.pas = "quota", !.lus = lus]
      BY <1>2, <1>8 DEF PersistLivre, Fin
    <2>2. s = Repos \/ s.lus = lus
      <3> HIDE DEF lus
      <3> QED BY Zenon, <1>1, <2>1 DEF Requete
    <2>3. EmpruntsLivre(r.l) \in SUBSET emprunts
      BY DEF EmpruntsLivre
    <2> QED
      BY <1>3, <1>4, <2>2, <2>3
  <1>9. CASE PersistQuota(w)
    <2>1. s = Repos \/ s = [r EXCEPT !.pas = "resa", !.lus = {}]
      BY <1>2, <1>9 DEF PersistQuota, Fin
    <2>2. s = Repos \/ s.lus = {}
      BY Zenon, <1>1, <2>1 DEF Requete
    <2> QED
      BY <1>3, <1>4, <2>2
  <1>10. CASE PersistReservation(w)
    <2>1. \/ s = [r EXCEPT !.pas = "flush"]
          \/ \E id : s = [r EXCEPT !.pas = "flush", !.supprime = {id}]
      BY Zenon, <1>2, <1>10 DEF PersistReservation
    <2> QED
      BY Zenon, <1>1, <1>3, <2>1 DEF Requete
  <1>11. CASE Echec(w)
    BY <1>2, <1>4, <1>11 DEF Echec, Fin
  <1> QED
    BY <1>5, <1>6, <1>7, <1>8, <1>9, <1>10, <1>11 DEF Verification

\* A single worker is the only one.
LEMMA SeulWorker ==
    ASSUME Cardinality(Workers) = 1, NEW v \in Workers, NEW w \in Workers
    PROVE  v = w
  <1>1. \E z : Workers = {z}
    BY CirculationHypotheses, FS_Singleton
  <1> QED
    BY <1>1

-----------------------------------------------------------------------------
(* Ids, and what an UPDATE does. *)

\* Ids of loans are unique.
IdsEmprunts == \A e, f \in emprunts : e.id = f.id => e = f

\* Ids of reservations are unique.
IdsReservations == \A x, y \in reservations : x.id = y.id => x = y

\* f is row e after the UPDATE that the flush of request r sends.
PretMisAJour(r, e, f) ==
    /\ e.id = r.id /\ f.id = e.id
    /\ f.utilisateur = Ecrit(r, "utilisateur", r.u, e.utilisateur)
    /\ f.livre = Ecrit(r, "livre", r.l, e.livre)
    /\ f.dateRetour = Ecrit(r, "dateRetour", r.d, e.dateRetour)

ReservationMiseAJour(r, x, y) ==
    /\ x.id = r.id /\ y.id = x.id
    /\ y.utilisateur = Ecrit(r, "utilisateur", r.u, x.utilisateur)
    /\ y.livre = Ecrit(r, "livre", r.l, x.livre)

\* In a table with unique ids an UPDATE finds one row, or none.
LEMMA UneLigne ==
    ASSUME NEW T, \A x, y \in T : x.id = y.id => x = y, NEW i
    PROVE  \/ SansId(T, i) = T /\ {y \in T : y.id = i} = {}
           \/ \E x \in T : /\ x.id = i /\ SansId(T, i) = T \ {x}
                           /\ {y \in T : y.id = i} = {x}
  BY DEF SansId

\* The UPDATE of a loan replaces one row by its update, or finds no row.
LEMMA FlushEmpruntForme ==
    ASSUME TypeOK, IdsEmprunts, NEW w \in Workers, FlushEmprunt(w)
    PROVE  \/ emprunts' = emprunts
           \/ \E e \in emprunts : \E f \in Emprunt :
                 /\ PretMisAJour(requetes[w], e, f)
                 /\ emprunts' = (emprunts \ {e}) \cup {f}
  <1> DEFINE r == requetes[w]
             maj(e) == [e EXCEPT
                    !.utilisateur = Ecrit(r, "utilisateur", r.u, e.utilisateur),
                    !.livre = Ecrit(r, "livre", r.l, e.livre),
                    !.dateRetour = Ecrit(r, "dateRetour", r.d, e.dateRetour)]
  <1>1. ASSUME NEW e \in emprunts, e.id = r.id
        PROVE  PretMisAJour(r, e, maj(e)) /\ maj(e) \in Emprunt
    <2> DEFINE u == Ecrit(r, "utilisateur", r.u, e.utilisateur)
               l == Ecrit(r, "livre", r.l, e.livre)
               d == Ecrit(r, "dateRetour", r.d, e.dateRetour)
    <2>1. e \in Emprunt /\ r \in Requete /\ ColonnesValides(r)
      BY Zenon DEF TypeOK, FlushEmprunt
    <2>2. u \in Utilisateurs /\ l \in Livres /\ d \in DateRetour
      BY <2>1 DEF Ecrit, ColonnesValides, TypeOK, Emprunt, Requete
    <2>3. maj(e) = [e EXCEPT !.utilisateur = u, !.livre = l, !.dateRetour = d]
      OBVIOUS
    <2> HIDE DEF u, l, d, maj
    <2>4. /\ maj(e) \in Emprunt /\ maj(e).id = e.id /\ maj(e).livre = l
          /\ maj(e).utilisateur = u /\ maj(e).dateRetour = d
      BY Zenon, <2>1, <2>2, <2>3 DEF Emprunt
    <2> QED
      BY <1>1, <2>4 DEF PretMisAJour, u, l, d
  <1>2. emprunts' = SansId(emprunts, r.id)
                      \cup {maj(e) : e \in {x \in emprunts : x.id = r.id}}
    BY Zenon DEF FlushEmprunt
  <1> HIDE DEF maj
  <1> DEFINE S == SansId(emprunts, r.id)
             V == {x \in emprunts : x.id = r.id}
  <1>3. \/ S = emprunts /\ V = {}
        \/ \E e \in emprunts : e.id = r.id /\ S = emprunts \ {e} /\ V = {e}
    <2>1. \A x, y \in emprunts : x.id = y.id => x = y
      BY DEF IdsEmprunts
    <2> QED
      BY Zenon, <2>1, UneLigne
  <1>4. emprunts' = S \cup {maj(e) : e \in V}
    BY <1>2
  <1> HIDE DEF S, V
  <1>5. \/ emprunts' = emprunts
        \/ \E e \in emprunts : /\ e.id = r.id
                                /\ emprunts' = (emprunts \ {e}) \cup {maj(e)}
    BY <1>3, <1>4
  <1> QED
    BY <1>1, <1>5

\* So does the UPDATE of a reservation.
LEMMA FlushReservationForme ==
    ASSUME TypeOK, IdsReservations, NEW w \in Workers, FlushReservation(w)
    PROVE  \/ reservations' = reservations
           \/ \E x \in reservations : \E y \in Reservation :
                 /\ ReservationMiseAJour(requetes[w], x, y)
                 /\ reservations' = (reservations \ {x}) \cup {y}
  <1> DEFINE r == requetes[w]
             maj(x) == [x EXCEPT
                    !.utilisateur = Ecrit(r, "utilisateur", r.u, x.utilisateur),
                    !.livre = Ecrit(r, "livre", r.l, x.livre)]
  <1>1. ASSUME NEW x \in reservations, x.id = r.id
        PROVE  ReservationMiseAJour(r, x, maj(x)) /\ maj(x) \in Reservation
    <2> DEFINE u == Ecrit(r, "utilisateur", r.u, x.utilisateur)
               l == Ecrit(r, "livre", r.l, x.livre)
    <2>1. x \in Reservation /\ r \in Requete /\ ColonnesValides(r)
      BY Zenon DEF TypeOK, FlushReservation
    <2>2. u \in Utilisateurs /\ l \in Livres
      BY <2>1 DEF Ecrit, ColonnesValides, TypeOK, Reservation, Requete
    <2>3. maj(x) = [x EXCEPT !.utilisateur = u, !.livre = l]
      OBVIOUS
    <2> HIDE DEF u, l, maj
    <2>4. /\ maj(x) \in Reservation /\ maj(x).id = x.id /\ maj(x).livre = l
          /\ maj(x).utilisateur = u
      BY Zenon, <2>1, <2>2, <2>3 DEF Reservation
    <2> QED
      BY <1>1, <2>4 DEF ReservationMiseAJour, u, l
  <1>2. reservations' = SansId(reservations, r.id)
                      \cup {maj(x) : x \in {y \in reservations : y.id = r.id}}
    BY Zenon DEF FlushReservation
  <1> HIDE DEF maj
  <1> DEFINE S == SansId(reservations, r.id)
             V == {y \in reservations : y.id = r.id}
  <1>3. \/ S = reservations /\ V = {}
        \/ \E x \in reservations :
              x.id = r.id /\ S = reservations \ {x} /\ V = {x}
    <2>1. \A x, y \in reservations : x.id = y.id => x = y
      BY DEF IdsReservations
    <2> QED
      BY Zenon, <2>1, UneLigne
  <1>4. reservations' = S \cup {maj(x) : x \in V}
    BY <1>2
  <1> HIDE DEF S, V
  <1>5. \/ reservations' = reservations
        \/ \E x \in reservations :
              x.id = r.id /\ reservations' = (reservations \ {x}) \cup {maj(x)}
    BY <1>3, <1>4
  <1> QED
    BY <1>1, <1>5

\* A flush keeps ids unique: AUTO_INCREMENT gives a new one, and an UPDATE
\* keeps the id.
LEMMA FlushIdsUniques ==
    ASSUME TypeOK, IdsEmprunts, IdsReservations, NEW w \in Workers, Ecriture(w)
    PROVE  IdsEmprunts' /\ IdsReservations'
  <1> DEFINE r == requetes[w]
  <1>1. ASSUME emprunts' \subseteq emprunts
        PROVE  IdsEmprunts'
    BY <1>1 DEF IdsEmprunts
  <1>2. ASSUME reservations' \subseteq reservations
        PROVE  IdsReservations'
    BY <1>2 DEF IdsReservations
  <1>3. CASE FlushNouvelEmprunt(w)
    <2> DEFINE e == [id |-> seqEmprunt, utilisateur |-> r.u,
                     livre |-> r.l, dateRetour |-> r.d]
    <2>1. /\ e.id = seqEmprunt /\ emprunts' = emprunts \cup {e}
          /\ reservations' \subseteq reservations
      BY <1>3 DEF FlushNouvelEmprunt, SansReservations
    <2> HIDE DEF e
    <2>2. \A f \in emprunts : f.id # seqEmprunt
      BY DEF TypeOK
    <2> QED
      BY <1>2, <2>1, <2>2 DEF IdsEmprunts
  <1>4. CASE FlushNouvelleReservation(w)
    <2> DEFINE x == [id |-> seqReservation, utilisateur |-> r.u, livre |-> r.l]
    <2>1. /\ x.id = seqReservation /\ reservations' = reservations \cup {x}
          /\ emprunts' = emprunts
      BY <1>4 DEF FlushNouvelleReservation
    <2> HIDE DEF x
    <2>2. \A y \in reservations : y.id # seqReservation
      BY DEF TypeOK
    <2> QED
      BY <1>1, <2>1, <2>2 DEF IdsReservations
  <1>5. CASE FlushEmprunt(w)
    <2>1. reservations' = reservations
      BY Zenon, <1>5 DEF FlushEmprunt
    <2>2. IdsEmprunts'
      BY <1>1, <1>5, FlushEmpruntForme DEF IdsEmprunts, PretMisAJour
    <2> QED
      BY <1>2, <2>1, <2>2
  <1>6. CASE FlushReservation(w)
    <2>1. emprunts' = emprunts
      BY Zenon, <1>6 DEF FlushReservation
    <2>2. IdsReservations'
      BY <1>2, <1>6, FlushReservationForme
         DEF IdsReservations, ReservationMiseAJour
    <2> QED
      BY <1>1, <2>1, <2>2
  <1> QED
    BY Zenon, <1>1, <1>2, <1>3, <1>4, <1>5, <1>6
       DEF Ecriture, SansId, SansReservations, FlushSuppressionReservation,
           FlushSuppressionEmprunt, FlushSuppressionLivre,
           FlushSuppressionUtilisateur

\* Whatever the workers interleave, edits included, no two loans and no two
\* reservations ever have the same id.
THEOREM IdsUniques == Spec => [](IdsEmprunts /\ IdsReservations)
  <1>1. Init => IdsEmprunts /\ IdsReservations
    BY DEF Init, IdsEmprunts, IdsReservations
  <1>2. TypeOK /\ (IdsEmprunts /\ IdsReservations) /\ [Next]_vars
            => (IdsEmprunts /\ IdsReservations)'
    <2>1. SUFFICES ASSUME TypeOK, IdsEmprunts, IdsReservations, [Next]_vars
                   PROVE  IdsEmprunts' /\ IdsReservations'
      OBVIOUS
    <2>2. CASE UNCHANGED tables
      BY <2>1, <2>2 DEF tables, IdsEmprunts, IdsReservations
    <2>3. ASSUME NEW w \in Workers, Reception(w)
          PROVE  UNCHANGED tables
      BY <2>1, <2>3, ReceptionForme DEF Recevoir
    <2>4. ASSUME NEW w \in Workers, Verification(w) \/ Ecriture(w),
                 ~UNCHANGED tables
          PROVE  IdsEmprunts' /\ IdsReservations'
      BY <2>1, <2>4, VerificationForme, FlushIdsUniques
    <2> QED
      BY <2>1, <2>2, <2>3, <2>4, UneEtape DEF vars
  <1> QED
    BY <1>1, <1>2, TypeCorrect, PTL DEF Spec

-----------------------------------------------------------------------------
(* The limits: a rule is checked by one query and relied upon by a later     *)
(* flush, so rows and requests that rely on the rule are counted together.   *)

\* One step of bookkeeping: the rows shrink and so do the requests relying on
\* the rule; or one such request becomes one row; or a request joins while the
\* rows are below the limit.
LEMMA Bilan ==
    ASSUME NEW A, NEW B, NEW P \in SUBSET Workers, NEW Q \in SUBSET Workers,
           NEW M \in Nat, RegleRespectee(A, P, M),
           \/ B \subseteq A /\ Q \subseteq P
           \/ \E x : \E w \in P : B \subseteq A \cup {x} /\ Q \subseteq P \ {w}
           \/ B \subseteq A /\ Cardinality(A) < M
    PROVE  RegleRespectee(B, Q, M)
  <1>1. /\ IsFiniteSet(A) /\ IsFiniteSet(P) /\ IsFiniteSet(Q)
        /\ IsFiniteSet(Workers)
    BY FS_Subset, CirculationHypotheses DEF RegleRespectee
  <1>2. /\ Cardinality(A) \in Nat /\ Cardinality(P) \in Nat
        /\ Cardinality(Q) \in Nat /\ Cardinality(Workers) \in Nat
    BY <1>1, FS_CardinalityType
  <1>3. Cardinality(A) + Cardinality(P) <= M + (Cardinality(Workers) - 1)
    BY DEF RegleRespectee, Tolerance
  <1>4. CASE B \subseteq A /\ Q \subseteq P
    <2>1. /\ IsFiniteSet(B) /\ Cardinality(B) <= Cardinality(A)
          /\ Cardinality(Q) <= Cardinality(P)
      BY <1>1, <1>4, FS_Subset
    <2>2. Cardinality(B) \in Nat
      BY <2>1, FS_CardinalityType
    <2> QED
      BY <1>2, <1>3, <2>1, <2>2 DEF RegleRespectee, Tolerance
  <1>5. CASE \E x : \E w \in P : B \subseteq A \cup {x} /\ Q \subseteq P \ {w}
    <2>1. PICK x : \E w \in P : B \subseteq A \cup {x} /\ Q \subseteq P \ {w}
      BY <1>5
    <2>2. PICK w \in P : B \subseteq A \cup {x} /\ Q \subseteq P \ {w}
      BY <2>1
    <2>3. /\ IsFiniteSet(A \cup {x})
          /\ Cardinality(A \cup {x}) <= Cardinality(A) + 1
      <3>1. /\ IsFiniteSet(A \cup {x})
            /\ Cardinality(A \cup {x}) =
                 IF x \in A THEN Cardinality(A) ELSE Cardinality(A) + 1
        BY <1>1, FS_AddElement
      <3> QED BY <1>2, <3>1
    <2>4. IsFiniteSet(B) /\ Cardinality(B) <= Cardinality(A \cup {x})
      BY <2>2, <2>3, FS_Subset
    <2>5. IsFiniteSet(P \ {w}) /\ Cardinality(P \ {w}) = Cardinality(P) - 1
      BY <1>1, FS_RemoveElement
    <2>6. Cardinality(Q) <= Cardinality(P \ {w})
      BY <2>2, <2>5, FS_Subset
    <2>7. Cardinality(B) \in Nat /\ Cardinality(A \cup {x}) \in Nat
      BY <2>3, <2>4, FS_CardinalityType
    <2> QED
      BY <1>2, <1>3, <2>3, <2>4, <2>5, <2>6, <2>7 DEF RegleRespectee, Tolerance
  <1>6. CASE B \subseteq A /\ Cardinality(A) < M
    <2>1. /\ IsFiniteSet(B) /\ Cardinality(B) <= Cardinality(A)
          /\ Cardinality(Q) <= Cardinality(Workers)
      BY <1>1, <1>6, FS_Subset
    <2>2. Cardinality(B) \in Nat
      BY <2>1, FS_CardinalityType
    <2> QED
      BY <1>2, <1>6, <2>1, <2>2 DEF RegleRespectee, Tolerance
  <1> QED
    BY <1>4, <1>5, <1>6

-----------------------------------------------------------------------------
(* Edit forms.  The theorems hold for any number of workers when the edit    *)
(* forms are not used, and for a single worker when they are: between the    *)
(* rules and the UPDATE of an edit, nothing else then runs.                  *)

SansCourse == Operations \cap OpsEdition = {} \/ Cardinality(Workers) = 1

\* What a single worker's edit of a loan knows: the columns it will not write
\* still hold what the form showed, and the rules it has passed still hold.
EditionPret(r) == r.op = "empruntEdit" =>
    /\ \A e \in emprunts : e.id = r.id => PretFidele(r, e)
    /\ r.d = "null" =>
          /\ r.pas \in {"r2", "flush"} /\ ~r.erreur => ~TropDEmprunts(r)
          /\ r.pas = "flush" => ~DejaEmprunte(r)

\* The same for its edit of a reservation.
EditionReservation(r) == r.op = "reservationEdit" =>
    /\ \A x \in reservations : x.id = r.id => Fidele(r, x)
    /\ r.pas \in {"r2", "r3", "flush"} /\ ~r.erreur => ~TropDeReservations(r)
    /\ r.pas \in {"r3", "flush"} /\ ~r.erreur => ~DejaReserve(r)
    /\ r.pas = "flush" => EnCoursLivre(r.l) = {}

EditionConforme(r) == EditionPret(r) /\ EditionReservation(r)

InvEdition == Cardinality(Workers) = 1 =>
    \A w \in Workers : EditionConforme(requetes[w])

-----------------------------------------------------------------------------
(* Steps that only move a request on. *)

\* A request s may follow r: it is coherent, and it relies on a rule only if r
\* did, or if the rows are below the limit now; the last rule of a reservation
\* has just found its book free; an edit keeps what it knows.
Progres(r, s) ==
    /\ RequeteCoherente(s)
    /\ EditionConforme(r) => EditionConforme(s)
    /\ s.op \in OpsResaNeuve /\ s.pas = "flush" => EnCoursLivre(s.l) = {}
    /\ \A u \in Utilisateurs :
        /\ AttendPretDe(s, u) =>
            \/ AttendPretDe(r, u)
            \/ Cardinality(EnCoursUtilisateur(u)) < MaxEmprunts
        /\ AttendResaDe(s, u) =>
            \/ AttendResaDe(r, u)
            \/ Cardinality(ReservationsUtilisateur(u)) < MaxReservations
    /\ \A l \in Livres :
        /\ AttendPretSur(s, l) =>
            \/ AttendPretSur(r, l)
            \/ Cardinality(EnCoursLivre(l)) < 1
        /\ AttendResaSur(s, l) =>
            \/ AttendResaSur(r, l)
            \/ Cardinality(ReservationsLivre(l)) < 1

\* Such a step keeps the invariant.
LEMMA ProgresInvariant ==
    ASSUME TypeOK, InvInductif, NEW w \in Workers, NEW s,
           Progres(requetes[w], s), Suite(w, s), UNCHANGED tables
    PROVE  InvInductif'
  <1>1. requetes' = [requetes EXCEPT ![w] = s]
    BY DEF Suite
  <1>2. requetes'[w] = s /\ \A v \in Workers \ {w} : requetes'[v] = requetes[v]
    BY <1>1 DEF TypeOK
  <1>3. \A v \in Workers : RequeteCoherente(requetes[v])'
    BY <1>2 DEF InvInductif, Progres, RequeteCoherente
  <1>4. ASSUME NEW u \in Utilisateurs
        PROVE  RegleRespectee(EnCoursUtilisateur(u),
                 {v \in Workers : AttendPretDe(requetes[v], u)}, MaxEmprunts)'
    <2> DEFINE A == EnCoursUtilisateur(u)
               P == {v \in Workers : AttendPretDe(requetes[v], u)}
    <2>1. A' = A
      BY DEF EnCoursUtilisateur, tables
    <2>2. P' \subseteq P \/ Cardinality(A) < MaxEmprunts
      BY <1>2 DEF Progres, AttendPretDe
    <2>3. RegleRespectee(A, P, MaxEmprunts)
      BY Zenon DEF InvInductif
    <2>4. RegleRespectee(A', P', MaxEmprunts)
      <3> HIDE DEF A
      <3> QED BY Zenon, <2>1, <2>2, <2>3, Bilan, CirculationHypotheses
    <2> QED
      BY <2>4 DEF RegleRespectee, Tolerance
  <1>5. ASSUME NEW u \in Utilisateurs
        PROVE  RegleRespectee(ReservationsUtilisateur(u),
                 {v \in Workers : AttendResaDe(requetes[v], u)}, MaxReservations)'
    <2> DEFINE A == ReservationsUtilisateur(u)
               P == {v \in Workers : AttendResaDe(requetes[v], u)}
    <2>1. A' = A
      BY DEF ReservationsUtilisateur, tables
    <2>2. P' \subseteq P \/ Cardinality(A) < MaxReservations
      BY <1>2 DEF Progres, AttendResaDe
    <2>3. RegleRespectee(A, P, MaxReservations)
      BY Zenon DEF InvInductif
    <2>4. RegleRespectee(A', P', MaxReservations)
      <3> HIDE DEF A
      <3> QED BY Zenon, <2>1, <2>2, <2>3, Bilan, CirculationHypotheses
    <2> QED
      BY <2>4 DEF RegleRespectee, Tolerance
  <1>6. ASSUME NEW l \in Livres
        PROVE  RegleRespectee(EnCoursLivre(l),
                 {v \in Workers : AttendPretSur(requetes[v], l)}, 1)'
    <2> DEFINE A == EnCoursLivre(l)
               P == {v \in Workers : AttendPretSur(requetes[v], l)}
    <2>1. A' = A
      BY DEF EnCoursLivre, tables
    <2>2. P' \subseteq P \/ Cardinality(A) < 1
      BY <1>2 DEF Progres, AttendPretSur
    <2>3. RegleRespectee(A, P, 1)
      BY Zenon DEF InvInductif
    <2>4. RegleRespectee(A', P', 1)
      <3> HIDE DEF A
      <3> QED BY Zenon, <2>1, <2>2, <2>3, Bilan, CirculationHypotheses
    <2> QED
      BY <2>4 DEF RegleRespectee, Tolerance
  <1>7. ASSUME NEW l \in Livres
        PROVE  RegleRespectee(ReservationsLivre(l),
                 {v \in Workers : AttendResaSur(requetes[v], l)}, 1)'
    <2> DEFINE A == ReservationsLivre(l)
               P == {v \in Workers : AttendResaSur(requetes[v], l)}
    <2>1. A' = A
      BY DEF ReservationsLivre, tables
    <2>2. P' \subseteq P \/ Cardinality(A) < 1
      BY <1>2 DEF Progres, AttendResaSur
    <2>3. RegleRespectee(A, P, 1)
      BY Zenon DEF InvInductif
    <2>4. RegleRespectee(A', P', 1)
      <3> HIDE DEF A
      <3> QED BY Zenon, <2>1, <2>2, <2>3, Bilan, CirculationHypotheses
    <2> QED
      BY <2>4 DEF RegleRespectee, Tolerance
  <1> QED
    BY <1>3, <1>4, <1>5, <1>6, <1>7 DEF InvInductif

\* It also keeps what a single worker's edit knows.
LEMMA ProgresEdition ==
    ASSUME TypeOK, InvEdition, NEW w \in Workers, NEW s,
           Progres(requetes[w], s), Suite(w, s), UNCHANGED tables
    PROVE  InvEdition'
  <1>1. SUFFICES ASSUME Cardinality(Workers) = 1, NEW v \in Workers
                 PROVE  EditionConforme(requetes[v])'
    BY DEF InvEdition
  <1>2. v = w /\ requetes'[w] = s
    BY <1>1, SeulWorker DEF Suite, TypeOK
  <1>3. EditionConforme(s)
    BY <1>1 DEF InvEdition, Progres
  <1>4. /\ \A x : EnCoursLivre(x)' = EnCoursLivre(x)
        /\ \A x : EnCoursUtilisateur(x)' = EnCoursUtilisateur(x)
        /\ \A x : ReservationsLivre(x)' = ReservationsLivre(x)
        /\ \A x : ReservationsUtilisateur(x)' = ReservationsUtilisateur(x)
        /\ emprunts' = emprunts /\ reservations' = reservations
    BY DEF tables, EnCoursLivre, EnCoursUtilisateur, ReservationsLivre,
         ReservationsUtilisateur
  <1> QED
    BY <1>2, <1>3, <1>4
       DEF EditionConforme, EditionPret, EditionReservation, PretFidele, Fidele,
           TropDEmprunts, DejaEmprunte, TropDeReservations, DejaReserve

\* Receiving a request: it relies on no rule yet, and an edit has just read the
\* row it shows.
LEMMA ReceptionProgres ==
    ASSUME TypeOK, IdsEmprunts, IdsReservations, NEW w \in Workers, Reception(w)
    PROVE  \E s : Progres(requetes[w], s) /\ Suite(w, s) /\ UNCHANGED tables
  <1>1. PICK s \in Requete : Recevoir(w, s) /\ Fraiche(s)
    BY ReceptionForme
  <1>2. RequeteCoherente(s)
    BY <1>1 DEF RequeteCoherente, Recevoir, Fraiche
  <1>3. EditionConforme(s)
    <2>1. EditionPret(s)
      BY <1>1 DEF EditionPret, Fraiche, IdsEmprunts
    <2>2. EditionReservation(s)
      BY <1>1 DEF EditionReservation, Fraiche, IdsReservations
    <2> QED
      BY <2>1, <2>2 DEF EditionConforme
  <1>4. Progres(requetes[w], s)
    BY <1>1, <1>2, <1>3 DEF Progres, AttendPretDe, AttendPretSur, AttendResaDe,
                      AttendResaSur, Fraiche, OpsPretNeuf, OpsResaNeuve
  <1> QED
    BY <1>1, <1>4 DEF Recevoir

\* A request that ends relies on nothing any more.
LEMMA ReposProgres ==
    ASSUME NEW r
    PROVE  Progres(r, Repos)
  BY Zenon DEF Progres, Repos, RequeteCoherente, OpsPretNeuf, OpsResaNeuve,
         EditionConforme, EditionPret, EditionReservation,
         AttendPretDe, AttendPretSur, AttendResaDe, AttendResaSur

\* No row has id 0, the id of an entity that is yet to be inserted: for a new
\* row the rules count every row.
LEMMA SansIdZero ==
    ASSUME TypeOK, NEW u, NEW l
    PROVE  /\ SansId(EnCoursUtilisateur(u), 0) = EnCoursUtilisateur(u)
           /\ SansId(EnCoursLivre(l), 0) = EnCoursLivre(l)
           /\ SansId(ReservationsUtilisateur(u), 0) = ReservationsUtilisateur(u)
           /\ SansId(ReservationsLivre(l), 0) = ReservationsLivre(l)
  BY DEF TypeOK, SansId, EnCoursUtilisateur, EnCoursLivre,
         ReservationsUtilisateur, ReservationsLivre

\* The sets the rules count are finite, and have a size.
LEMMA LignesFinies ==
    ASSUME InvInductif
    PROVE  /\ \A u \in Utilisateurs :
                 /\ Cardinality(EnCoursUtilisateur(u)) \in Nat
                 /\ Cardinality(ReservationsUtilisateur(u)) \in Nat
           /\ \A l \in Livres :
                 /\ EnCoursLivre(l) = {} => Cardinality(EnCoursLivre(l)) < 1
                 /\ ReservationsLivre(l) = {} =>
                        Cardinality(ReservationsLivre(l)) < 1
  <1>1. Cardinality({}) = 0
    BY FS_EmptySet
  <1>2. \A l \in Livres :
            /\ EnCoursLivre(l) = {} => Cardinality(EnCoursLivre(l)) = 0
            /\ ReservationsLivre(l) = {} =>
                   Cardinality(ReservationsLivre(l)) = 0
    BY <1>1
  <1>3. \A u \in Utilisateurs : /\ IsFiniteSet(EnCoursUtilisateur(u))
                                /\ IsFiniteSet(ReservationsUtilisateur(u))
    BY Zenon DEF InvInductif, RegleRespectee
  <1>4. \A u \in Utilisateurs :
            /\ Cardinality(EnCoursUtilisateur(u)) \in Nat
            /\ Cardinality(ReservationsUtilisateur(u)) \in Nat
    BY <1>3, FS_CardinalityType
  <1> QED
    BY <1>2, <1>4

\* The step keeps the entity being saved.
MemeEntite(r, s) ==
    /\ s.op = r.op /\ s.u = r.u /\ s.l = r.l /\ s.d = r.d /\ s.id = r.id
    /\ s.colonnes = r.colonnes

\* The rules then say the same of it.
LEMMA MemesControles ==
    ASSUME NEW r, NEW s, MemeEntite(r, s)
    PROVE  /\ TropDEmprunts(s) <=> TropDEmprunts(r)
           /\ DejaEmprunte(s) <=> DejaEmprunte(r)
           /\ TropDeReservations(s) <=> TropDeReservations(r)
           /\ DejaReserve(s) <=> DejaReserve(r)
           /\ \A x : Fidele(s, x) <=> Fidele(r, x)
           /\ \A x : PretFidele(s, x) <=> PretFidele(r, x)
  BY DEF MemeEntite, TropDEmprunts, DejaEmprunte, TropDeReservations,
         DejaReserve, Fidele, PretFidele

\* The rules and persistEntity: a request comes to rely on a rule only when the
\* query it has just made found the rows below the limit.
LEMMA VerificationProgres ==
    ASSUME TypeOK, InvInductif, NEW w \in Workers, Verification(w)
    PROVE  \E s : Progres(requetes[w], s) /\ Suite(w, s) /\ UNCHANGED tables
  <1> DEFINE r == requetes[w]
  <1>2. r \in Requete /\ RequeteCoherente(r)
    BY DEF TypeOK, InvInductif
  <1> USE DEF OpsPretNeuf, OpsResaNeuve
  <1>3. CASE Suite(w, Repos) /\ UNCHANGED tables
    BY <1>3, ReposProgres
  <1>4. CASE ReservationRegle1(w) /\ ~Suite(w, Repos)
    <2> DEFINE viole == TropDeReservations(r)
               s == [r EXCEPT !.erreur = r.erreur \/ viole, !.pas = "r2"]
    <2>1. viole \in BOOLEAN
      BY DEF TropDeReservations
    <2>2. ASSUME NEW u \in Utilisateurs, r.u = u, r.op \in OpsResaNeuve, ~viole
          PROVE  Cardinality(ReservationsUtilisateur(u)) < MaxReservations
      <3>1. r.id = 0
        BY <1>2, <2>2 DEF RequeteCoherente
      <3>2. Cardinality(ReservationsUtilisateur(u)) \in Nat
        BY LignesFinies
      <3> QED
        BY <2>2, <3>1, <3>2, SansIdZero, CirculationHypotheses
           DEF TropDeReservations
    <2>3. Suite(w, s) /\ UNCHANGED tables
      BY <1>4 DEF ReservationRegle1, Regle, Fin
    <2>4. MemeEntite(r, s) /\ r.pas = "r1" /\ s.pas = "r2"
      BY <1>2, <1>4 DEF ReservationRegle1, Requete, MemeEntite
    <2>5. ~s.erreur => ~viole
      BY <1>2, <2>1 DEF Requete
    <2> HIDE DEF s
    <2>6. EditionConforme(r) => EditionConforme(s)
      BY <1>4, <2>4, <2>5, MemesControles
         DEF EditionConforme, EditionPret, EditionReservation, MemeEntite,
             ReservationRegle1, OpsRegleReservation
    <2> HIDE DEF viole
    <2>7. Progres(r, s)
      BY <1>2, <1>4, <2>2, <2>4, <2>5, <2>6
         DEF Progres, RequeteCoherente, MemeEntite, ReservationRegle1,
             OpsRegleReservation, AttendPretDe, AttendPretSur, AttendResaDe,
             AttendResaSur
    <2> QED
      BY <2>3, <2>7
  <1>5. CASE ReservationRegle2(w) /\ ~Suite(w, Repos)
    <2> DEFINE viole == DejaReserve(r)
               s == [r EXCEPT !.erreur = r.erreur \/ viole, !.pas = "r3"]
    <2>1. viole \in BOOLEAN
      BY DEF DejaReserve
    <2>2. ASSUME NEW l \in Livres, r.l = l, r.op \in OpsResaNeuve, ~viole
          PROVE  Cardinality(ReservationsLivre(l)) < 1
      <3>1. r.id = 0
        BY <1>2, <2>2 DEF RequeteCoherente
      <3>2. ReservationsLivre(l) = {}
        BY <2>2, <3>1, SansIdZero DEF DejaReserve
      <3> QED
        BY <3>2, LignesFinies
    <2>3. Suite(w, s) /\ UNCHANGED tables
      BY <1>5 DEF ReservationRegle2, Regle, Fin
    <2>4. MemeEntite(r, s) /\ r.pas = "r2" /\ s.pas = "r3"
      BY <1>2, <1>5 DEF ReservationRegle2, Requete, MemeEntite
    <2>5. ~s.erreur => ~viole /\ ~r.erreur
      BY <1>2, <2>1 DEF Requete
    <2> HIDE DEF s
    <2>6. EditionConforme(r) => EditionConforme(s)
      BY <1>5, <2>4, <2>5, MemesControles
         DEF EditionConforme, EditionPret, EditionReservation, MemeEntite,
             ReservationRegle2, OpsRegleReservation
    <2> HIDE DEF viole
    <2>7. Progres(r, s)
      BY <1>2, <1>5, <2>2, <2>4, <2>5, <2>6
         DEF Progres, RequeteCoherente, MemeEntite, ReservationRegle2,
             OpsRegleReservation, AttendPretDe, AttendPretSur, AttendResaDe,
             AttendResaSur
    <2> QED
      BY <2>3, <2>7
  <1>6. CASE ReservationRegle3(w) /\ ~Suite(w, Repos)
    <2> DEFINE s == [r EXCEPT !.pas = "flush"]
    <2>1. /\ Suite(w, s) /\ UNCHANGED tables /\ ~r.erreur
          /\ EnCoursLivre(r.l) = {}
      BY <1>6 DEF ReservationRegle3, DerniereRegle, Fin
    <2>2. MemeEntite(r, s) /\ r.pas = "r3" /\ s.pas = "flush" /\ ~s.erreur
      BY <1>2, <1>6, <2>1 DEF ReservationRegle3, Requete, MemeEntite
    <2> HIDE DEF s
    <2>3. EditionConforme(r) => EditionConforme(s)
      BY Zenon, <1>6, <2>1, <2>2, MemesControles
         DEF EditionConforme, EditionPret, EditionReservation, MemeEntite,
             ReservationRegle3, OpsRegleReservation
    <2>4. Progres(r, s)
      BY <1>2, <1>6, <2>1, <2>2, <2>3
         DEF Progres, RequeteCoherente, MemeEntite, ReservationRegle3,
             OpsRegleReservation, AttendPretDe, AttendPretSur, AttendResaDe,
             AttendResaSur
    <2> QED
      BY <2>1, <2>4
  <1>7. CASE EmpruntRegle1(w)
    <2> DEFINE viole == TropDEmprunts(r)
               suite == [r EXCEPT !.erreur = viole, !.pas = "r2"]
               s == IF r.op = "empruntNew"
                    THEN [suite EXCEPT
                             !.lus = Hydrate(r, EnCoursUtilisateur(r.u))]
                    ELSE suite
    <2>1. viole \in BOOLEAN
      BY DEF TropDEmprunts
    <2>2. ASSUME NEW u \in Utilisateurs, r.u = u, r.op \in OpsPretNeuf, ~viole
          PROVE  Cardinality(EnCoursUtilisateur(u)) < MaxEmprunts
      <3>1. r.id = 0
        BY <1>2, <2>2 DEF RequeteCoherente
      <3>2. Cardinality(EnCoursUtilisateur(u)) \in Nat
        BY LignesFinies
      <3> QED
        BY <2>2, <3>1, <3>2, SansIdZero, CirculationHypotheses
           DEF TropDEmprunts
    <2>3. Suite(w, s) /\ UNCHANGED tables
      BY <1>7 DEF EmpruntRegle1
    <2>4. MemeEntite(r, s) /\ r.pas = "r1" /\ s.pas = "r2" /\ s.erreur = viole
      <3> HIDE DEF viole
      <3>1. /\ MemeEntite(r, suite) /\ suite.pas = "r2"
            /\ suite.erreur = viole
        BY <1>2 DEF Requete, MemeEntite
      <3>2. MemeEntite(r, s) /\ s.pas = "r2" /\ s.erreur = viole
        BY <1>2, <3>1 DEF Requete, MemeEntite
      <3> QED
        BY <1>7, <3>2 DEF EmpruntRegle1
    <2> HIDE DEF s, suite
    <2>5. EditionConforme(r) => EditionConforme(s)
      BY <1>7, <2>4, MemesControles
         DEF EditionConforme, EditionPret, EditionReservation, MemeEntite,
             EmpruntRegle1, OpsRegleEmprunt
    <2> HIDE DEF viole
    <2>6. Progres(r, s)
      BY <1>2, <1>7, <2>2, <2>4, <2>5
         DEF Progres, RequeteCoherente, MemeEntite, EmpruntRegle1,
             OpsRegleEmprunt, AttendPretDe, AttendPretSur, AttendResaDe,
             AttendResaSur
    <2> QED
      BY <2>3, <2>6
  <1>8. CASE EmpruntRegle2(w) /\ ~Suite(w, Repos)
    <2> DEFINE viole == DejaEmprunte(r)
               place == IF r.op = "empruntNew" THEN "livre" ELSE "flush"
               s == [r EXCEPT !.pas = place]
    <2>1. Suite(w, s) /\ UNCHANGED tables /\ ~viole /\ ~r.erreur
      BY <1>8 DEF EmpruntRegle2, DerniereRegle, Fin
    <2>2. ASSUME NEW l \in Livres, r.l = l, r.op \in OpsPretNeuf
          PROVE  Cardinality(EnCoursLivre(l)) < 1
      <3>1. r.id = 0
        BY <1>2, <2>2 DEF RequeteCoherente
      <3>2. EnCoursLivre(l) = {}
        BY <2>1, <2>2, <3>1, SansIdZero DEF DejaEmprunte
      <3> QED
        BY Zenon, <3>2, LignesFinies
    <2>3. /\ MemeEntite(r, s) /\ r.pas = "r2" /\ s.pas = place
          /\ s.erreur = r.erreur
      <3> HIDE DEF place
      <3> QED BY <1>2, <1>8 DEF EmpruntRegle2, Requete, MemeEntite
    <2> HIDE DEF s
    <2>4. EditionConforme(r) => EditionConforme(s)
      BY <1>8, <2>1, <2>3, MemesControles
         DEF EditionConforme, EditionPret, EditionReservation, MemeEntite,
             EmpruntRegle2, OpsRegleEmprunt
    <2> HIDE DEF viole
    <2>5. Progres(r, s)
      BY <1>2, <1>8, <2>1, <2>2, <2>3, <2>4
         DEF Progres, RequeteCoherente, MemeEntite, EmpruntRegle2,
             OpsRegleEmprunt, AttendPretDe, AttendPretSur, AttendResaDe,
             AttendResaSur
    <2> QED
      BY <2>1, <2>5
  <1>9. ASSUME NEW s, Suite(w, s), UNCHANGED tables, MemeEntite(r, s),
               s.erreur = r.erreur, r.pas \in {"livre", "quota", "resa"},
               s.pas \in {"quota", "resa", "flush"}
        PROVE  Progres(r, s)
    <2>1. EditionConforme(s)
      BY <1>2, <1>9 DEF EditionConforme, EditionPret, EditionReservation,
           MemeEntite, RequeteCoherente
    <2> QED
      BY <1>2, <1>9, <2>1
         DEF Progres, RequeteCoherente, MemeEntite,
             AttendPretDe, AttendPretSur, AttendResaDe, AttendResaSur
  <1>10. CASE PersistLivre(w) /\ ~Suite(w, Repos)
    <2> DEFINE lus == Hydrate(r, EmpruntsLivre(r.l))
               s == [r EXCEPT !.pas = "quota", !.lus = lus]
    <2>1. Suite(w, s) /\ UNCHANGED tables /\ r.pas = "livre"
      BY <1>10 DEF PersistLivre, Fin
    <2>2. MemeEntite(r, s) /\ s.pas = "quota" /\ s.erreur = r.erreur
      <3> HIDE DEF lus
      <3> QED BY <1>2 DEF Requete, MemeEntite
    <2> HIDE DEF s
    <2> QED
      BY <1>9, <2>1, <2>2
  <1>11. CASE PersistQuota(w) /\ ~Suite(w, Repos)
    <2> DEFINE s == [r EXCEPT !.pas = "resa", !.lus = {}]
    <2>1. Suite(w, s) /\ UNCHANGED tables /\ r.pas = "quota"
      BY <1>11 DEF PersistQuota, Fin
    <2>2. MemeEntite(r, s) /\ s.pas = "resa" /\ s.erreur = r.erreur
      BY <1>2 DEF Requete, MemeEntite
    <2> HIDE DEF s
    <2> QED
      BY <1>9, <2>1, <2>2
  <1>12. CASE PersistReservation(w)
    <2>1. r.pas = "resa" /\ UNCHANGED tables
      BY Zenon, <1>12 DEF PersistReservation
    <2>2. CASE Suite(w, [r EXCEPT !.pas = "flush"])
      <3> DEFINE s == [r EXCEPT !.pas = "flush"]
      <3>1. MemeEntite(r, s) /\ s.pas = "flush" /\ s.erreur = r.erreur
        BY <1>2 DEF Requete, MemeEntite
      <3>2. Suite(w, s)
        BY <2>2
      <3> HIDE DEF s
      <3> QED
        BY <1>9, <2>1, <3>1, <3>2
    <2>3. ASSUME NEW id, Suite(w, [r EXCEPT !.pas = "flush", !.supprime = {id}])
          PROVE  \E s : Progres(r, s) /\ Suite(w, s) /\ UNCHANGED tables
      <3> DEFINE s == [r EXCEPT !.pas = "flush", !.supprime = {id}]
      <3>1. MemeEntite(r, s) /\ s.pas = "flush" /\ s.erreur = r.erreur
        BY <1>2 DEF Requete, MemeEntite
      <3>2. Suite(w, s)
        BY <2>3
      <3> HIDE DEF s
      <3> QED
        BY <1>9, <2>1, <3>1, <3>2
    <2> QED
      BY Zenon, <1>12, <2>2, <2>3 DEF PersistReservation
  <1> QED
    BY <1>3, <1>4, <1>5, <1>6, <1>7, <1>8, <1>10, <1>11, <1>12
       DEF Verification, ReservationRegle1, ReservationRegle2,
           ReservationRegle3,
           EmpruntRegle2, PersistLivre, PersistQuota, Echec, Fin

-----------------------------------------------------------------------------
(* Steps that write the tables. *)

\* The flush of w adds no row that a rule counts, or just one, and then w was
\* among those that rely on that rule.
Enregistre(w) ==
    /\ \A u \in Utilisateurs :
        /\ \/ EnCoursUtilisateur(u)' \subseteq EnCoursUtilisateur(u)
           \/ /\ AttendPretDe(requetes[w], u)
              /\ \E x : EnCoursUtilisateur(u)'
                            \subseteq EnCoursUtilisateur(u) \cup {x}
        /\ \/ ReservationsUtilisateur(u)' \subseteq ReservationsUtilisateur(u)
           \/ /\ AttendResaDe(requetes[w], u)
              /\ \E x : ReservationsUtilisateur(u)'
                            \subseteq ReservationsUtilisateur(u) \cup {x}
    /\ \A l \in Livres :
        /\ \/ EnCoursLivre(l)' \subseteq EnCoursLivre(l)
           \/ /\ AttendPretSur(requetes[w], l)
              /\ \E x : EnCoursLivre(l)' \subseteq EnCoursLivre(l) \cup {x}
        /\ \/ ReservationsLivre(l)' \subseteq ReservationsLivre(l)
           \/ /\ AttendResaSur(requetes[w], l)
              /\ \E x : ReservationsLivre(l)'
                            \subseteq ReservationsLivre(l) \cup {x}

\* A worker at rest is past no rule.
LEMMA ReposNAttendRien ==
    \A x : /\ ~AttendPretDe(Repos, x) /\ ~AttendPretSur(Repos, x)
           /\ ~AttendResaDe(Repos, x) /\ ~AttendResaSur(Repos, x)
  <1>1. Repos.op = "repos"
    BY DEF Repos
  <1> QED
    BY <1>1 DEF AttendPretDe, AttendPretSur, AttendResaDe, AttendResaSur,
         OpsPretNeuf, OpsResaNeuve

\* Such a step keeps the invariant.
LEMMA EnregistreInvariant ==
    ASSUME TypeOK, InvInductif, NEW w \in Workers, Suite(w, Repos),
           Enregistre(w)
    PROVE  InvInductif'
  <1>1. /\ requetes'[w] = Repos
        /\ \A v \in Workers \ {w} : requetes'[v] = requetes[v]
    BY DEF Suite, TypeOK
  <1>2. \A v \in Workers : RequeteCoherente(requetes[v])'
    BY Zenon, <1>1, ReposProgres DEF InvInductif, Progres, RequeteCoherente
  <1>3. ASSUME NEW u \in Utilisateurs
        PROVE  RegleRespectee(EnCoursUtilisateur(u),
                 {v \in Workers : AttendPretDe(requetes[v], u)}, MaxEmprunts)'
    <2> DEFINE A == EnCoursUtilisateur(u)
               P == {v \in Workers : AttendPretDe(requetes[v], u)}
    <2>1. P' \subseteq P \ {w}
      BY <1>1, ReposNAttendRien DEF AttendPretDe
    <2>2. \/ A' \subseteq A
          \/ w \in P /\ \E x : A' \subseteq A \cup {x}
      BY DEF Enregistre
    <2>3. RegleRespectee(A, P, MaxEmprunts)
      BY Zenon DEF InvInductif
    <2>4. RegleRespectee(A', P', MaxEmprunts)
      <3>1. \/ A' \subseteq A /\ P' \subseteq P
            \/ \E x : \E v \in P : A' \subseteq A \cup {x} /\ P' \subseteq P \ {v}
        BY <2>1, <2>2
      <3> HIDE DEF A
      <3> QED BY Zenon, <2>3, <3>1, Bilan, CirculationHypotheses
    <2> QED
      BY <2>4 DEF RegleRespectee, Tolerance
  <1>4. ASSUME NEW u \in Utilisateurs
        PROVE  RegleRespectee(ReservationsUtilisateur(u),
                 {v \in Workers : AttendResaDe(requetes[v], u)}, MaxReservations)'
    <2> DEFINE A == ReservationsUtilisateur(u)
               P == {v \in Workers : AttendResaDe(requetes[v], u)}
    <2>1. P' \subseteq P \ {w}
      BY <1>1, ReposNAttendRien DEF AttendResaDe
    <2>2. \/ A' \subseteq A
          \/ w \in P /\ \E x : A' \subseteq A \cup {x}
      BY DEF Enregistre
    <2>3. RegleRespectee(A, P, MaxReservations)
      BY Zenon DEF InvInductif
    <2>4. RegleRespectee(A', P', MaxReservations)
      <3>1. \/ A' \subseteq A /\ P' \subseteq P
            \/ \E x : \E v \in P : A' \subseteq A \cup {x} /\ P' \subseteq P \ {v}
        BY <2>1, <2>2
      <3> HIDE DEF A
      <3> QED BY Zenon, <2>3, <3>1, Bilan, CirculationHypotheses
    <2> QED
      BY <2>4 DEF RegleRespectee, Tolerance
  <1>5. ASSUME NEW l \in Livres
        PROVE  RegleRespectee(EnCoursLivre(l),
                 {v \in Workers : AttendPretSur(requetes[v], l)}, 1)'
    <2> DEFINE A == EnCoursLivre(l)
               P == {v \in Workers : AttendPretSur(requetes[v], l)}
    <2>1. P' \subseteq P \ {w}
      BY <1>1, ReposNAttendRien DEF AttendPretSur
    <2>2. \/ A' \subseteq A
          \/ w \in P /\ \E x : A' \subseteq A \cup {x}
      BY DEF Enregistre
    <2>3. RegleRespectee(A, P, 1)
      BY Zenon DEF InvInductif
    <2>4. RegleRespectee(A', P', 1)
      <3>1. \/ A' \subseteq A /\ P' \subseteq P
            \/ \E x : \E v \in P : A' \subseteq A \cup {x} /\ P' \subseteq P \ {v}
        BY <2>1, <2>2
      <3> HIDE DEF A
      <3> QED BY Zenon, <2>3, <3>1, Bilan, CirculationHypotheses
    <2> QED
      BY <2>4 DEF RegleRespectee, Tolerance
  <1>6. ASSUME NEW l \in Livres
        PROVE  RegleRespectee(ReservationsLivre(l),
                 {v \in Workers : AttendResaSur(requetes[v], l)}, 1)'
    <2> DEFINE A == ReservationsLivre(l)
               P == {v \in Workers : AttendResaSur(requetes[v], l)}
    <2>1. P' \subseteq P \ {w}
      BY <1>1, ReposNAttendRien DEF AttendResaSur
    <2>2. \/ A' \subseteq A
          \/ w \in P /\ \E x : A' \subseteq A \cup {x}
      BY DEF Enregistre
    <2>3. RegleRespectee(A, P, 1)
      BY Zenon DEF InvInductif
    <2>4. RegleRespectee(A', P', 1)
      <3>1. \/ A' \subseteq A /\ P' \subseteq P
            \/ \E x : \E v \in P : A' \subseteq A \cup {x} /\ P' \subseteq P \ {v}
        BY <2>1, <2>2
      <3> HIDE DEF A
      <3> QED BY Zenon, <2>3, <3>1, Bilan, CirculationHypotheses
    <2> QED
      BY <2>4 DEF RegleRespectee, Tolerance
  <1> QED
    BY <1>2, <1>3, <1>4, <1>5, <1>6 DEF InvInductif

\* Every flush but that of an edit is such a step: the only other UPDATE sets a
\* return date.
LEMMA FlushEnregistre ==
    ASSUME TypeOK, InvInductif, NEW w \in Workers,
           requetes[w].op \notin OpsEdition, Ecriture(w)
    PROVE  Suite(w, Repos) /\ Enregistre(w)
  <1> DEFINE r == requetes[w]
  <1>2. r \in Requete /\ RequeteCoherente(r)
    BY DEF TypeOK, InvInductif
  <1> USE DEF EnCoursUtilisateur, EnCoursLivre, ReservationsUtilisateur,
              ReservationsLivre, Flush, Fin
  <1>3. CASE FlushNouvelEmprunt(w)
    <2> DEFINE e == [id |-> seqEmprunt, utilisateur |-> r.u,
                     livre |-> r.l, dateRetour |-> r.d]
    <2>1. /\ e.utilisateur = r.u /\ e.livre = r.l /\ e.dateRetour = r.d
          /\ emprunts' = emprunts \cup {e} /\ reservations' \subseteq reservations
      BY <1>3 DEF FlushNouvelEmprunt, SansReservations
    <2>2. r.op \in OpsPretNeuf /\ r.pas = "flush" /\ ~r.erreur
      BY <1>2, <1>3 DEF FlushNouvelEmprunt, RequeteCoherente
    <2> HIDE DEF e
    <2>3. ASSUME NEW u \in Utilisateurs
          PROVE  \/ EnCoursUtilisateur(u)' \subseteq EnCoursUtilisateur(u)
                 \/ /\ AttendPretDe(r, u)
                    /\ EnCoursUtilisateur(u)'
                           \subseteq EnCoursUtilisateur(u) \cup {e}
      BY <2>1, <2>2 DEF AttendPretDe
    <2>4. ASSUME NEW l \in Livres
          PROVE  \/ EnCoursLivre(l)' \subseteq EnCoursLivre(l)
                 \/ /\ AttendPretSur(r, l)
                    /\ EnCoursLivre(l)' \subseteq EnCoursLivre(l) \cup {e}
      BY <2>1, <2>2 DEF AttendPretSur
    <2>5. /\ \A u : ReservationsUtilisateur(u)' \subseteq ReservationsUtilisateur(u)
          /\ \A l : ReservationsLivre(l)' \subseteq ReservationsLivre(l)
      BY <2>1
    <2>6. Suite(w, Repos)
      BY <1>3 DEF FlushNouvelEmprunt
    <2> QED
      BY <2>3, <2>4, <2>5, <2>6 DEF Enregistre
  <1>4. CASE FlushNouvelleReservation(w)
    <2> DEFINE x == [id |-> seqReservation, utilisateur |-> r.u, livre |-> r.l]
    <2>1. /\ x.utilisateur = r.u /\ x.livre = r.l
          /\ reservations' = reservations \cup {x} /\ emprunts' = emprunts
      BY <1>4 DEF FlushNouvelleReservation
    <2>2. r.op \in OpsResaNeuve /\ r.pas = "flush" /\ ~r.erreur
      BY <1>2, <1>4 DEF FlushNouvelleReservation, RequeteCoherente
    <2> HIDE DEF x
    <2>3. ASSUME NEW u \in Utilisateurs
          PROVE  \/ ReservationsUtilisateur(u)'
                        \subseteq ReservationsUtilisateur(u)
                 \/ /\ AttendResaDe(r, u)
                    /\ ReservationsUtilisateur(u)'
                           \subseteq ReservationsUtilisateur(u) \cup {x}
      BY <2>1, <2>2 DEF AttendResaDe
    <2>4. ASSUME NEW l \in Livres
          PROVE  \/ ReservationsLivre(l)' \subseteq ReservationsLivre(l)
                 \/ /\ AttendResaSur(r, l)
                    /\ ReservationsLivre(l)'
                           \subseteq ReservationsLivre(l) \cup {x}
      BY <2>1, <2>2 DEF AttendResaSur
    <2>5. /\ \A u : EnCoursUtilisateur(u)' \subseteq EnCoursUtilisateur(u)
          /\ \A l : EnCoursLivre(l)' \subseteq EnCoursLivre(l)
      BY <2>1
    <2>6. Suite(w, Repos)
      BY <1>4 DEF FlushNouvelleReservation
    <2> QED
      BY <2>3, <2>4, <2>5, <2>6 DEF Enregistre
  <1>5. ASSUME Suite(w, Repos), reservations' \subseteq reservations,
               \A e \in emprunts' : e \in emprunts \/ e.dateRetour # "null"
        PROVE  Suite(w, Repos) /\ Enregistre(w)
    <2>1. /\ \A u : EnCoursUtilisateur(u)' \subseteq EnCoursUtilisateur(u)
          /\ \A l : EnCoursLivre(l)' \subseteq EnCoursLivre(l)
          /\ \A u : ReservationsUtilisateur(u)' \subseteq ReservationsUtilisateur(u)
          /\ \A l : ReservationsLivre(l)' \subseteq ReservationsLivre(l)
      BY <1>5
    <2> QED
      BY <1>5, <2>1 DEF Enregistre
  <1>6. CASE FlushEmprunt(w)
    <2>1. r.op = "rendre"
      BY Zenon, <1>2, <1>6 DEF FlushEmprunt, RequeteCoherente, OpsPretMaj, OpsEdition
    <2>2. r.d = "posee" /\ r.colonnes = {"dateRetour"}
      BY <1>2, <2>1 DEF RequeteCoherente
    <2>3. \A e \in emprunts : Ecrit(r, "dateRetour", r.d, e.dateRetour) = "posee"
      BY <2>2 DEF Ecrit
    <2>4. ASSUME NEW e \in emprunts'
          PROVE  e \in emprunts \/ e.dateRetour # "null"
      <3>1. CASE e \in SansId(emprunts, r.id)
        BY <3>1 DEF SansId
      <3>2. CASE e \notin SansId(emprunts, r.id)
        <4>1. PICK x \in {y \in emprunts : y.id = r.id} :
                 e = [x EXCEPT
                    !.utilisateur = Ecrit(r, "utilisateur", r.u, x.utilisateur),
                    !.livre = Ecrit(r, "livre", r.l, x.livre),
                    !.dateRetour = Ecrit(r, "dateRetour", r.d, x.dateRetour)]
          BY Zenon, <1>6, <3>2 DEF FlushEmprunt
        <4>2. x \in Emprunt
          BY <4>1 DEF TypeOK
        <4>3. e.dateRetour = Ecrit(r, "dateRetour", r.d, x.dateRetour)
          BY <4>1, <4>2 DEF Emprunt
        <4> QED
          BY <2>3, <4>3
      <3> QED
        BY <3>1, <3>2
    <2>5. Suite(w, Repos) /\ reservations' = reservations
      BY Zenon, <1>6 DEF FlushEmprunt
    <2> QED
      BY <1>5, <2>4, <2>5
  <1>7. CASE FlushReservation(w)
    BY Zenon, <1>2, <1>7 DEF FlushReservation, RequeteCoherente, OpsEdition
  <1>8. CASE FlushSuppressionReservation(w)
    BY <1>5, <1>8 DEF FlushSuppressionReservation, SansReservations
  <1>9. CASE FlushSuppressionEmprunt(w)
    BY <1>5, <1>9 DEF FlushSuppressionEmprunt, SansId
  <1>10. CASE FlushSuppressionLivre(w)
    BY <1>5, <1>10 DEF FlushSuppressionLivre, SansReservations
  <1>11. CASE FlushSuppressionUtilisateur(w)
    BY <1>5, <1>11 DEF FlushSuppressionUtilisateur, SansReservations
  <1> QED
    BY <1>3, <1>4, <1>6, <1>7, <1>8, <1>9, <1>10, <1>11 DEF Ecriture

-----------------------------------------------------------------------------
(* The flush of an edit, by a single worker. *)

\* The rows B that a rule counts after an edit: no new one, or the edited one
\* besides rows that the rule leaves room for.
Corrige(A, B, M) ==
    \/ B \subseteq A
    \/ \E S, x : IsFiniteSet(S) /\ Cardinality(S) < M /\ B \subseteq S \cup {x}

\* The rule is then kept, when no request relies on it any more.
LEMMA BilanCorrige ==
    ASSUME NEW A, NEW B, NEW P \in SUBSET Workers, NEW M \in Nat,
           RegleRespectee(A, P, M), Cardinality(Workers) = 1, Corrige(A, B, M)
    PROVE  RegleRespectee(B, {}, M)
  <1>1. IsFiniteSet({}) /\ Cardinality({}) = 0
    BY FS_EmptySet
  <1>2. CASE B \subseteq A
    BY Zenon, <1>1, <1>2, Bilan
  <1>3. ASSUME NEW S, NEW x, IsFiniteSet(S), Cardinality(S) < M,
               B \subseteq S \cup {x}
        PROVE  RegleRespectee(B, {}, M)
    <2>1. /\ IsFiniteSet(S \cup {x})
          /\ Cardinality(S \cup {x}) =
                 IF x \in S THEN Cardinality(S) ELSE Cardinality(S) + 1
      BY <1>3, FS_AddElement
    <2>2. IsFiniteSet(B) /\ Cardinality(B) <= Cardinality(S \cup {x})
      BY <1>3, <2>1, FS_Subset
    <2>3. Cardinality(S) \in Nat /\ Cardinality(B) \in Nat
      BY <1>3, <2>2, FS_CardinalityType
    <2> QED
      BY <1>1, <1>3, <2>1, <2>2, <2>3 DEF RegleRespectee, Tolerance
  <1> QED
    BY <1>2, <1>3 DEF Corrige

\* Such a step by the only worker keeps the invariant.
LEMMA CorrigeInvariant ==
    ASSUME TypeOK, InvInductif, Cardinality(Workers) = 1, NEW w \in Workers,
           Suite(w, Repos),
           \A u \in Utilisateurs :
             /\ Corrige(EnCoursUtilisateur(u), EnCoursUtilisateur(u)', MaxEmprunts)
             /\ Corrige(ReservationsUtilisateur(u), ReservationsUtilisateur(u)',
                        MaxReservations),
           \A l \in Livres :
             /\ Corrige(EnCoursLivre(l), EnCoursLivre(l)', 1)
             /\ Corrige(ReservationsLivre(l), ReservationsLivre(l)', 1)
    PROVE  InvInductif'
  <1>1. \A v \in Workers : requetes'[v] = Repos
    BY SeulWorker DEF Suite, TypeOK
  <1>2. \A v \in Workers : RequeteCoherente(requetes[v])'
    BY <1>1, ReposProgres DEF Progres, RequeteCoherente
  <1>3. ASSUME NEW x
        PROVE  /\ {v \in Workers : AttendPretDe(requetes[v], x)}' = {}
               /\ {v \in Workers : AttendPretSur(requetes[v], x)}' = {}
               /\ {v \in Workers : AttendResaDe(requetes[v], x)}' = {}
               /\ {v \in Workers : AttendResaSur(requetes[v], x)}' = {}
    <2>1. {v \in Workers : AttendPretDe(requetes[v], x)}' = {}
      BY <1>1, ReposNAttendRien DEF AttendPretDe
    <2>2. {v \in Workers : AttendPretSur(requetes[v], x)}' = {}
      BY <1>1, ReposNAttendRien DEF AttendPretSur
    <2>3. {v \in Workers : AttendResaDe(requetes[v], x)}' = {}
      BY <1>1, ReposNAttendRien DEF AttendResaDe
    <2>4. {v \in Workers : AttendResaSur(requetes[v], x)}' = {}
      BY <1>1, ReposNAttendRien DEF AttendResaSur
    <2> QED
      BY <2>1, <2>2, <2>3, <2>4
  <1>4. ASSUME NEW u \in Utilisateurs
        PROVE  /\ RegleRespectee(EnCoursUtilisateur(u)', {}, MaxEmprunts)
               /\ RegleRespectee(ReservationsUtilisateur(u)', {}, MaxReservations)
    <2> DEFINE P == {v \in Workers : AttendPretDe(requetes[v], u)}
               Q == {v \in Workers : AttendResaDe(requetes[v], u)}
    <2>1. /\ RegleRespectee(EnCoursUtilisateur(u), P, MaxEmprunts)
          /\ RegleRespectee(ReservationsUtilisateur(u), Q, MaxReservations)
      BY Zenon DEF InvInductif
    <2>2. P \in SUBSET Workers /\ Q \in SUBSET Workers
      OBVIOUS
    <2> HIDE DEF P, Q
    <2> QED
      BY Zenon, <2>1, <2>2, BilanCorrige, CirculationHypotheses
  <1>5. ASSUME NEW l \in Livres
        PROVE  /\ RegleRespectee(EnCoursLivre(l)', {}, 1)
               /\ RegleRespectee(ReservationsLivre(l)', {}, 1)
    <2> DEFINE P == {v \in Workers : AttendPretSur(requetes[v], l)}
               Q == {v \in Workers : AttendResaSur(requetes[v], l)}
    <2>1. /\ RegleRespectee(EnCoursLivre(l), P, 1)
          /\ RegleRespectee(ReservationsLivre(l), Q, 1)
      BY Zenon DEF InvInductif
    <2>2. P \in SUBSET Workers /\ Q \in SUBSET Workers
      OBVIOUS
    <2> HIDE DEF P, Q
    <2> QED
      BY <2>1, <2>2, BilanCorrige
  <1> QED
    BY Zenon, <1>2, <1>3, <1>4, <1>5 DEF InvInductif, RegleRespectee, Tolerance

\* The edit of a loan writes what the form showed: the row that was loaded is
\* still the one that is there.
LEMMA FlushPretEdite ==
    ASSUME TypeOK, IdsEmprunts, NEW w \in Workers, FlushEmprunt(w),
           requetes[w].op = "empruntEdit", EditionConforme(requetes[w])
    PROVE  \/ emprunts' = emprunts
           \/ \E e \in emprunts : \E f \in Emprunt :
                 /\ e.id = requetes[w].id /\ f.id = e.id
                 /\ f.utilisateur = requetes[w].u /\ f.livre = requetes[w].l
                 /\ f.dateRetour = requetes[w].d
                 /\ emprunts' = (emprunts \ {e}) \cup {f}
  <1> DEFINE r == requetes[w]
  <1>1. ASSUME NEW e \in emprunts, NEW f \in Emprunt, PretMisAJour(r, e, f)
        PROVE  /\ e.id = r.id /\ f.id = e.id /\ f.utilisateur = r.u
               /\ f.livre = r.l /\ f.dateRetour = r.d
    <2>1. PretFidele(r, e)
      BY <1>1 DEF EditionConforme, EditionPret, PretMisAJour
    <2> QED
      BY <1>1, <2>1 DEF PretMisAJour, PretFidele, Fidele, Ecrit
  <1> QED
    BY <1>1, FlushEmpruntForme

\* So does the edit of a reservation.
LEMMA FlushReservationEditee ==
    ASSUME TypeOK, IdsReservations, NEW w \in Workers, FlushReservation(w),
           EditionConforme(requetes[w])
    PROVE  \/ reservations' = reservations
           \/ \E x \in reservations : \E y \in Reservation :
                 /\ x.id = requetes[w].id /\ y.id = x.id
                 /\ y.utilisateur = requetes[w].u /\ y.livre = requetes[w].l
                 /\ reservations' = (reservations \ {x}) \cup {y}
  <1> DEFINE r == requetes[w]
  <1>1. r.op = "reservationEdit"
    BY Zenon DEF FlushReservation, Flush
  <1>2. ASSUME NEW x \in reservations, NEW y \in Reservation,
               ReservationMiseAJour(r, x, y)
        PROVE  /\ x.id = r.id /\ y.id = x.id /\ y.utilisateur = r.u
               /\ y.livre = r.l
    <2>1. Fidele(r, x)
      BY <1>1, <1>2 DEF EditionConforme, EditionReservation, ReservationMiseAJour
    <2> QED
      BY <1>2, <2>1 DEF ReservationMiseAJour, Fidele, Ecrit
  <1> QED
    BY <1>2, FlushReservationForme

\* A rule that was not broken leaves room beside the row it does not count.
LEMMA SousLeMaximum ==
    ASSUME NEW S, IsFiniteSet(S), NEW i, NEW M \in Nat,
           ~(Cardinality(SansId(S, i)) >= M)
    PROVE  IsFiniteSet(SansId(S, i)) /\ Cardinality(SansId(S, i)) < M
  <1>1. IsFiniteSet(SansId(S, i))
    BY FS_Subset DEF SansId
  <1>2. Cardinality(SansId(S, i)) \in Nat
    BY <1>1, FS_CardinalityType
  <1> QED
    BY <1>1, <1>2

\* The flush of an edit by a single worker keeps the invariant: the rules still
\* leave room for the row as the form showed it.
LEMMA FlushEdition ==
    ASSUME TypeOK, IdsEmprunts, IdsReservations, InvInductif,
           Cardinality(Workers) = 1, NEW w \in Workers,
           requetes[w].op \in OpsEdition, EditionConforme(requetes[w]),
           FlushEmprunt(w) \/ FlushReservation(w)
    PROVE  InvInductif'
  <1> DEFINE r == requetes[w]
  <1> USE DEF EnCoursUtilisateur, EnCoursLivre, ReservationsUtilisateur,
              ReservationsLivre
  <1>1. Suite(w, Repos) /\ r.pas = "flush" /\ ~r.erreur /\ r.id \in Nat
    <2>1. Suite(w, Repos) /\ r.pas = "flush"
      BY Zenon DEF FlushEmprunt, FlushReservation, Flush, Fin
    <2> QED
      BY <2>1 DEF InvInductif, RequeteCoherente, TypeOK, Requete
  <1>2. /\ \A u \in Utilisateurs : /\ IsFiniteSet(EnCoursUtilisateur(u))
                                   /\ IsFiniteSet(ReservationsUtilisateur(u))
        /\ \A l \in Livres : /\ IsFiniteSet(EnCoursLivre(l))
                             /\ IsFiniteSet(ReservationsLivre(l))
    BY Zenon DEF InvInductif, RegleRespectee
  <1>3. IsFiniteSet({}) /\ Cardinality({}) < 1
    BY FS_EmptySet
  <1>4. CASE FlushEmprunt(w)
    <2>1. reservations' = reservations
      BY Zenon, <1>4 DEF FlushEmprunt
    <2>2. r.op = "empruntEdit"
      BY Zenon, <1>4 DEF FlushEmprunt, Flush, OpsPretMaj, OpsEdition
    <2>3. CASE \A e \in emprunts' : e \in emprunts \/ e.dateRetour # "null"
      BY <1>1, <2>1, <2>3, CorrigeInvariant DEF Corrige
    <2>4. ASSUME NEW e \in emprunts, NEW f \in Emprunt, e.id = r.id, f.id = e.id,
                 f.utilisateur = r.u, f.livre = r.l, f.dateRetour = r.d,
                 emprunts' = (emprunts \ {e}) \cup {f}, r.d = "null"
          PROVE  InvInductif'
      <3>1. ~TropDEmprunts(r) /\ ~DejaEmprunte(r)
        BY <1>1, <2>2, <2>4 DEF EditionConforme, EditionPret
      <3>2. emprunts' = SansId(emprunts, r.id) \cup {f}
        BY <2>4 DEF IdsEmprunts, SansId
      <3>3. ASSUME NEW u \in Utilisateurs
            PROVE  Corrige(EnCoursUtilisateur(u), EnCoursUtilisateur(u)',
                           MaxEmprunts)
        <4>1. CASE u # r.u
          BY <2>4, <4>1 DEF Corrige
        <4>2. CASE u = r.u
          <5> DEFINE S == SansId(EnCoursUtilisateur(u), r.id)
          <5>1. EnCoursUtilisateur(u)' \subseteq S \cup {f}
            BY <3>2 DEF SansId
          <5>2. IsFiniteSet(S) /\ Cardinality(S) < MaxEmprunts
            BY Zenon, <1>2, <3>1, <4>2, SousLeMaximum, CirculationHypotheses
               DEF TropDEmprunts
          <5> HIDE DEF S
          <5> QED
            BY <5>1, <5>2 DEF Corrige
        <4> QED
          BY <4>1, <4>2
      <3>4. ASSUME NEW l \in Livres
            PROVE  Corrige(EnCoursLivre(l), EnCoursLivre(l)', 1)
        <4>1. CASE l # r.l
          BY <2>4, <4>1 DEF Corrige
        <4>2. CASE l = r.l
          <5>1. EnCoursLivre(l)' \subseteq {} \cup {f}
            BY <3>1, <3>2, <4>2 DEF SansId, DejaEmprunte
          <5> QED
            BY <1>3, <5>1 DEF Corrige
        <4> QED
          BY <4>1, <4>2
      <3>5. /\ \A u : ReservationsUtilisateur(u)' \subseteq ReservationsUtilisateur(u)
            /\ \A l : ReservationsLivre(l)' \subseteq ReservationsLivre(l)
        BY <2>1
      <3> QED
        BY Zenon, <1>1, <3>3, <3>4, <3>5, CorrigeInvariant DEF Corrige
    <2>5. r.d \in {"null", "posee"}
      BY DEF TypeOK, Requete, DateRetour
    <2> QED
      BY <1>4, <2>2, <2>3, <2>4, <2>5, FlushPretEdite
  <1>5. CASE FlushReservation(w)
    <2>1. emprunts' = emprunts
      BY Zenon, <1>5 DEF FlushReservation
    <2>2. r.op = "reservationEdit"
      BY Zenon, <1>5 DEF FlushReservation, Flush
    <2>3. CASE reservations' = reservations
      BY <1>1, <2>1, <2>3, CorrigeInvariant DEF Corrige
    <2>4. ASSUME NEW x \in reservations, NEW y \in Reservation, x.id = r.id,
                 y.id = x.id, y.utilisateur = r.u, y.livre = r.l,
                 reservations' = (reservations \ {x}) \cup {y}
          PROVE  InvInductif'
      <3>1. ~TropDeReservations(r) /\ ~DejaReserve(r)
        BY <1>1, <2>2 DEF EditionConforme, EditionReservation
      <3>2. reservations' = SansId(reservations, r.id) \cup {y}
        BY <2>4 DEF IdsReservations, SansId
      <3>3. ASSUME NEW u \in Utilisateurs
            PROVE  Corrige(ReservationsUtilisateur(u),
                           ReservationsUtilisateur(u)', MaxReservations)
        <4>1. CASE u # r.u
          BY <2>4, <4>1 DEF Corrige
        <4>2. CASE u = r.u
          <5> DEFINE S == SansId(ReservationsUtilisateur(u), r.id)
          <5>1. ReservationsUtilisateur(u)' \subseteq S \cup {y}
            BY <3>2 DEF SansId
          <5>2. IsFiniteSet(S) /\ Cardinality(S) < MaxReservations
            BY Zenon, <1>2, <3>1, <4>2, SousLeMaximum, CirculationHypotheses
               DEF TropDeReservations
          <5> HIDE DEF S
          <5> QED
            BY <5>1, <5>2 DEF Corrige
        <4> QED
          BY <4>1, <4>2
      <3>4. ASSUME NEW l \in Livres
            PROVE  Corrige(ReservationsLivre(l), ReservationsLivre(l)', 1)
        <4>1. CASE l # r.l
          BY <2>4, <4>1 DEF Corrige
        <4>2. CASE l = r.l
          <5>1. ReservationsLivre(l)' \subseteq {} \cup {y}
            BY <3>1, <3>2, <4>2 DEF SansId, DejaReserve
          <5> QED
            BY <1>3, <5>1 DEF Corrige
        <4> QED
          BY <4>1, <4>2
      <3>5. /\ \A u : EnCoursUtilisateur(u)' \subseteq EnCoursUtilisateur(u)
            /\ \A l : EnCoursLivre(l)' \subseteq EnCoursLivre(l)
        BY <2>1
      <3> QED
        BY <1>1, <3>3, <3>4, <3>5, CorrigeInvariant DEF Corrige
    <2> QED
      BY <1>5, <2>3, <2>4, FlushReservationEditee
  <1> QED
    BY <1>4, <1>5

-----------------------------------------------------------------------------

\* At the start there are no rows and no requests.
LEMMA InitInvariant ==
    ASSUME Init
    PROVE  InvInductif
  <1>1. \A w \in Workers : requetes[w] = Repos
    BY DEF Init
  <1>2. \A w \in Workers : RequeteCoherente(requetes[w])
    BY <1>1, ReposProgres DEF Progres
  <1>3. \A x : /\ EnCoursUtilisateur(x) = {} /\ EnCoursLivre(x) = {}
               /\ ReservationsUtilisateur(x) = {} /\ ReservationsLivre(x) = {}
    BY DEF Init, EnCoursUtilisateur, EnCoursLivre, ReservationsUtilisateur,
           ReservationsLivre
  <1>4. \A x : /\ {w \in Workers : AttendPretDe(requetes[w], x)} = {}
               /\ {w \in Workers : AttendPretSur(requetes[w], x)} = {}
               /\ {w \in Workers : AttendResaDe(requetes[w], x)} = {}
               /\ {w \in Workers : AttendResaSur(requetes[w], x)} = {}
    BY <1>1 DEF Repos, AttendPretDe, AttendPretSur, AttendResaDe, AttendResaSur,
                OpsPretNeuf, OpsResaNeuve
  <1>5. ASSUME NEW M \in Nat
        PROVE  RegleRespectee({}, {}, M)
    <2>1. Cardinality(Workers) \in Nat /\ Cardinality(Workers) # 0
      BY CirculationHypotheses, FS_CardinalityType, FS_EmptySet
    <2>2. IsFiniteSet({}) /\ Cardinality({}) = 0
      BY FS_EmptySet
    <2> QED
      BY <2>1, <2>2 DEF RegleRespectee, Tolerance
  <1> QED
    BY <1>2, <1>3, <1>4, <1>5, CirculationHypotheses DEF InvInductif

\* A flush leaves its worker at rest, and a single worker with no edit under way.
LEMMA FlushRepos ==
    ASSUME TypeOK, NEW w \in Workers, Ecriture(w)
    PROVE  requetes'[w] = Repos /\ InvEdition'
  <1>1. Suite(w, Repos)
    BY Zenon DEF Ecriture, FlushNouvelEmprunt, FlushNouvelleReservation,
         FlushEmprunt, FlushReservation, FlushSuppressionReservation,
         FlushSuppressionEmprunt, FlushSuppressionLivre,
         FlushSuppressionUtilisateur, Flush, Fin
  <1>2. requetes'[w] = Repos
    BY <1>1 DEF Suite, TypeOK
  <1>3. ASSUME Cardinality(Workers) = 1, NEW v \in Workers
        PROVE  EditionConforme(requetes[v])'
    <2>1. requetes'[v] = Repos
      BY <1>2, <1>3, SeulWorker
    <2>2. requetes'[v].op = "repos"
      BY <2>1 DEF Repos
    <2> QED
      BY <2>2 DEF EditionConforme, EditionPret, EditionReservation
  <1> QED
    BY <1>2, <1>3 DEF InvEdition

\* A flush keeps the invariant: that of an edit because one worker runs alone.
LEMMA FlushInvariant ==
    ASSUME SansCourse, TypeOK, IdsEmprunts, IdsReservations, InvInductif,
           InvEdition, NEW w \in Workers, Ecriture(w)
    PROVE  InvInductif'
  <1>1. CASE requetes[w].op \notin OpsEdition
    BY <1>1, FlushEnregistre, EnregistreInvariant
  <1>2. CASE requetes[w].op \in OpsEdition
    <2>1. Cardinality(Workers) = 1
      BY <1>2 DEF SansCourse, InvInductif, RequeteCoherente, OpsEdition
    <2>2. EditionConforme(requetes[w])
      BY <2>1 DEF InvEdition
    <2>3. FlushEmprunt(w) \/ FlushReservation(w)
      BY Zenon, <1>2 DEF Ecriture, FlushNouvelEmprunt,
           FlushNouvelleReservation, FlushSuppressionReservation,
           FlushSuppressionEmprunt,
           FlushSuppressionLivre, FlushSuppressionUtilisateur, Flush,
           OpsEdition, OpsPretNeuf, OpsResaNeuve
    <2> QED
      BY <1>2, <2>1, <2>2, <2>3, FlushEdition
  <1> QED
    BY <1>1, <1>2

\* The invariant that bounds the overshoot: whatever the workers interleave,
\* rows counted by a rule plus requests past that rule stay within it and the
\* tolerance, as long as the edit forms are not used or one worker serves all
\* requests; and what a single worker's edit has checked stays true.
THEOREM DepassementBorne ==
    ASSUME SansCourse
    PROVE  Spec => [](InvInductif /\ InvEdition)
  <1>1. Init => InvInductif /\ InvEdition
    <2>1. Init => InvEdition
      BY DEF Init, InvEdition, EditionConforme, EditionPret, EditionReservation,
           Repos
    <2> QED
      BY <2>1, InitInvariant
  <1>2. TypeOK /\ (IdsEmprunts /\ IdsReservations) /\ (InvInductif /\ InvEdition)
            /\ [Next]_vars => (InvInductif /\ InvEdition)'
    <2>1. SUFFICES ASSUME TypeOK, IdsEmprunts, IdsReservations, InvInductif,
                          InvEdition, [Next]_vars
                   PROVE  InvInductif' /\ InvEdition'
      OBVIOUS
    <2>2. CASE UNCHANGED vars
      <3>1. InvInductif'
        BY Zenon, <2>1, <2>2 DEF vars, tables, InvInductif, RequeteCoherente,
           RegleRespectee, Tolerance, EnCoursUtilisateur, EnCoursLivre,
           ReservationsUtilisateur, ReservationsLivre, AttendPretDe,
           AttendPretSur, AttendResaDe, AttendResaSur
      <3>2. InvEdition'
        BY Zenon, <2>1, <2>2 DEF vars, tables, InvEdition, EditionConforme,
           EditionPret, EditionReservation, PretFidele, Fidele, TropDEmprunts,
           DejaEmprunte, TropDeReservations, DejaReserve, EnCoursUtilisateur,
           EnCoursLivre, ReservationsUtilisateur, ReservationsLivre, SansId
      <3> QED
        BY <3>1, <3>2
    <2>3. ASSUME NEW w \in Workers, Reception(w)
          PROVE  InvInductif' /\ InvEdition'
      BY <2>1, <2>3, ReceptionProgres, ProgresInvariant, ProgresEdition
    <2>4. ASSUME NEW w \in Workers, Verification(w) \/ Ecriture(w)
          PROVE  InvInductif' /\ InvEdition'
      BY <2>1, <2>4, VerificationProgres, ProgresInvariant, ProgresEdition,
         FlushInvariant, FlushRepos
    <2> QED
      BY <2>1, <2>2, <2>3, <2>4, UneEtape
  <1> QED
    BY <1>1, <1>2, TypeCorrect, IdsUniques, PTL DEF Spec

\* The bound on the rows alone.
LEMMA LignesBornees ==
    ASSUME NEW A, NEW P \in SUBSET Workers, NEW M \in Nat,
           RegleRespectee(A, P, M)
    PROVE  Cardinality(A) <= M + Tolerance
  <1>1. IsFiniteSet(A) /\ IsFiniteSet(P) /\ IsFiniteSet(Workers)
    BY FS_Subset, CirculationHypotheses DEF RegleRespectee
  <1>2. /\ Cardinality(A) \in Nat /\ Cardinality(P) \in Nat
        /\ Cardinality(Workers) \in Nat
    BY <1>1, FS_CardinalityType
  <1> QED
    BY <1>2 DEF RegleRespectee, Tolerance

\* The limits are what the invariant says of the rows alone.
LEMMA InvariantLimites ==
    ASSUME InvInductif
    PROVE  QuotaEmprunts /\ PretsParLivre /\ QuotaReservations
           /\ ReservationsParLivre
  <1>1. ASSUME NEW u \in Utilisateurs
        PROVE  /\ Cardinality(EnCoursUtilisateur(u)) <= MaxEmprunts + Tolerance
               /\ Cardinality(ReservationsUtilisateur(u))
                      <= MaxReservations + Tolerance
    BY Zenon, LignesBornees, CirculationHypotheses DEF InvInductif
  <1>2. ASSUME NEW l \in Livres
        PROVE  /\ Cardinality(EnCoursLivre(l)) <= 1 + Tolerance
               /\ Cardinality(ReservationsLivre(l)) <= 1 + Tolerance
    BY Zenon, LignesBornees DEF InvInductif
  <1> QED
    BY <1>1, <1>2 DEF QuotaEmprunts, PretsParLivre, QuotaReservations,
                      ReservationsParLivre

\* RÈGLE 1 of EmpruntRulesValidator: with W workers and without edits, or
\* with one worker, a member never has more than MaxEmprunts + W - 1 loans in
\* progress.
THEOREM QuotaEmpruntsTenu ==
    ASSUME SansCourse
    PROVE  Spec => []QuotaEmprunts
  BY DepassementBorne, InvariantLimites, PTL

\* RÈGLE 2 of EmpruntRulesValidator: likewise, a book is never on loan more
\* than W times at once.
THEOREM PretsParLivreTenu ==
    ASSUME SansCourse
    PROVE  Spec => []PretsParLivre
  BY DepassementBorne, InvariantLimites, PTL

\* Rule 1 of ReservationsController::create: likewise, a member never has more
\* than MaxReservations + W - 1 reservations.
THEOREM QuotaReservationsTenu ==
    ASSUME SansCourse
    PROVE  Spec => []QuotaReservations
  BY DepassementBorne, InvariantLimites, PTL

\* Rule 2 of ReservationsController::create: likewise, a book never has more
\* than W reservations.
THEOREM ReservationsParLivreTenu ==
    ASSUME SansCourse
    PROVE  Spec => []ReservationsParLivre
  BY DepassementBorne, InvariantLimites, PTL

\* Served by one worker, whatever the operations, the messages of EmpruntRules
\* and ReservationRules say what is true: no book is on loan twice, and nobody
\* has more reservations than allowed.
THEOREM SansConcurrenceExact ==
    ASSUME Cardinality(Workers) = 1
    PROVE  Spec => [](JamaisEmprunteDeuxFois /\ JamaisTropDeReservations)
  <1>1. InvInductif => JamaisEmprunteDeuxFois /\ JamaisTropDeReservations
    BY InvariantLimites, CirculationHypotheses
       DEF PretsParLivre, QuotaReservations, JamaisEmprunteDeuxFois,
           JamaisTropDeReservations, Tolerance
  <1> QED
    BY <1>1, DepassementBorne, PTL DEF SansCourse
=============================================================================

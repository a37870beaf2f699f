------------------------------- MODULE Profil -------------------------------
(***************************************************************************)
(* "Mon Espace Adhérent": the Angular component Profil of one member, the  *)
(* requests it has in flight, and the library behind them, that keeps the  *)
(* promise of Bibliotheque.  The page is filled by forkJoin from three     *)
(* requests that the server answers independently; cancelling a            *)
(* reservation fills it again.  The profile form is reduced to one field   *)
(* other than the address (a change of address ends in logout()).          *)
(***************************************************************************)
EXTENDS Naturals, FiniteSets

CONSTANTS
    Moi,                         \* the member
    Utilisateurs, Livres, MaxEmprunts, MaxReservations,
    Pretables,                   \* bound: loans that may be recorded
    Initiales,                   \* reservations there may be at first
    Coordonnees,                 \* values of the field of the profile form
    MaxJeux,                     \* bound: times the page is filled
    MaxSauvegardes,              \* bound: times the form is saved
    MaxEnvois,                   \* bound: both together
    Nul                          \* no answer yet

VARIABLES
    emprunts, reservations, livres, utilisateurs,   \* the tables
    coord,                       \* the column of the profile form
    isLoading,
    affEmprunts, affReservations, user,             \* signals shown
    champ,                       \* the field, as typed
    succes,                      \* "Profil mis à jour avec succès." is shown
    jeux,                        \* forkJoins under way
    remplissages,                \* number of forkJoins so far
    annulations,                 \* DELETE requests under way
    annulees,                    \* reservations the page knows cancelled
    sauvegardes, nbSauvegardes,  \* PUT requests under way, and so far
    ecarts                       \* history: what has gone otherwise than simply

bibliotheque == <<emprunts, reservations, livres, utilisateurs>>
ecran == <<isLoading, affEmprunts, affReservations, user, champ, succes>>
envois == <<jeux, remplissages, annulations, annulees, sauvegardes, nbSauvegardes>>
vars == <<bibliotheque, coord, ecran, envois, ecarts>>

\* Rows of the tables: the loans that may be recorded, and the same once returned.
Reservation == [id : Nat, livre : Livres, utilisateur : Utilisateurs]
PretEnCours == [id : Nat, livre : Livres, utilisateur : Utilisateurs,
                dateRetour : {"null"}]
Prets == Pretables \cup {[e EXCEPT !.dateRetour = "posee"] : e \in Pretables}

ASSUME ProfilHypotheses ==
    /\ Initiales \subseteq Reservation /\ Pretables \subseteq PretEnCours
    /\ MaxJeux \in Nat \ {0} /\ MaxSauvegardes \in Nat
    /\ Nul \notin Coordonnees
    /\ \A S \in SUBSET Initiales : S # Nul
    /\ \A S \in SUBSET Prets : S # Nul

\* "hate": the member acted before every answer had come; "erreur": a request
\* failed; "guichet": a librarian acted meanwhile at the desk; "compte": the back
\* office edited the account since the member last sent the form.
Ecart == {"hate", "erreur", "guichet", "compte"}

\* The library, its rules kept exactly.
B == INSTANCE Bibliotheque WITH Tolerance <- 0

Mes(S) == {x \in S : x.utilisateur = Moi}

\* Mutant: the reservations shown are taken for an answer (a cache).
Jeu_cache(n) ==
    [n |-> n, emprunts |-> Nul, user |-> Nul,
     reservations |-> IF n = 1 THEN Nul ELSE affReservations]

\* forkJoin: what each of the three requests has answered.
Jeu(n) == [n |-> n, emprunts |-> Nul, reservations |-> Nul, user |-> Nul]

Init ==
    /\ emprunts = {} /\ reservations \in SUBSET Initiales
    /\ livres = Livres /\ utilisateurs = Utilisateurs
    /\ coord \in Coordonnees
    /\ isLoading = TRUE
    /\ affEmprunts = {} /\ affReservations = {} /\ user = Nul /\ champ = Nul
    /\ succes = FALSE
    /\ jeux = {Jeu(1)} /\ remplissages = 1
    /\ annulations = {} /\ annulees = {}
    /\ sauvegardes = {} /\ nbSauvegardes = 0
    /\ ecarts = {}

-----------------------------------------------------------------------------
(* The server answers the three requests of a forkJoin, in any order. *)

Lire(j) ==
    /\ \/ j.emprunts = Nul
          /\ jeux' = (jeux \ {j}) \cup {[j EXCEPT !.emprunts = Mes(emprunts)]}
       \/ j.reservations = Nul
          /\ jeux' = (jeux \ {j}) \cup
                {[j EXCEPT !.reservations = Mes(reservations)]}
       \/ j.user = Nul
          /\ jeux' = (jeux \ {j}) \cup {[j EXCEPT !.user = coord]}
    /\ UNCHANGED <<bibliotheque, coord, ecran, remplissages, annulations,
                   annulees, sauvegardes, nbSauvegardes, ecarts>>

\* Mutant: the page is filled before the profile has come.
Complet_partiel(j) == j.emprunts # Nul /\ j.reservations # Nul

Complet(j) == j.emprunts # Nul /\ j.reservations # Nul /\ j.user # Nul

\* refreshData: next.
Remplir(j) ==
    /\ Complet(j)
    /\ jeux' = jeux \ {j}
    /\ affEmprunts' = j.emprunts /\ affReservations' = j.reservations
    /\ user' = j.user /\ champ' = j.user
    /\ isLoading' = FALSE
    /\ UNCHANGED <<bibliotheque, coord, succes, remplissages, annulations,
                   annulees, sauvegardes, nbSauvegardes, ecarts>>

\* Mutant: the spinner is left turning.
FinErreur_oubliee == isLoading' = isLoading

FinErreur == isLoading' = FALSE

\* refreshData: error, as soon as one of the three fails.
RemplirErreur(j) ==
    /\ ecarts' = ecarts \cup {"erreur"}
    /\ jeux' = jeux \ {j}
    /\ FinErreur
    /\ UNCHANGED <<bibliotheque, coord, affEmprunts, affReservations, user,
                   champ, succes, remplissages, annulations, annulees,
                   sauvegardes, nbSauvegardes>>

-----------------------------------------------------------------------------
(* onAnnuler *)

\* Nothing under way.
Calme == jeux = {} /\ annulations = {} /\ sauvegardes = {}

\* The page is there; the member may not wait for the answers under way.
PeutAgir ==
    /\ ~isLoading
    /\ remplissages + Cardinality(annulations) + nbSauvegardes < MaxEnvois
Hate == IF Calme THEN {} ELSE {"hate"}

\* Confirmed by the member; a second click sends a second request.  One sent
\* before the server has dealt with the first might as well be sent just after:
\* nothing it depends on has changed.
OnAnnuler(r) ==
    /\ PeutAgir
    /\ remplissages + Cardinality(annulations) < MaxJeux
    /\ ecarts' = ecarts \cup Hate
    /\ annulations' = annulations \cup {[resa |-> r, etat |-> "partie"]}
    /\ UNCHANGED <<bibliotheque, coord, ecran, jeux, remplissages, annulees,
                   sauvegardes, nbSauvegardes>>

\* ReservationsController::delete; 404 when the reservation is gone.
Delete(a) ==
    /\ a.etat = "partie"
    /\ \/ /\ B!Annuler(a.resa)
          /\ annulations' = (annulations \ {a}) \cup {[a EXCEPT !.etat = "faite"]}
       \/ /\ a.resa \notin reservations
          /\ annulations' = (annulations \ {a}) \cup {[a EXCEPT !.etat = "404"]}
          /\ UNCHANGED bibliotheque
    /\ UNCHANGED <<coord, ecran, jeux, remplissages, annulees, sauvegardes,
                   nbSauvegardes, ecarts>>

\* Mutant: the page is not filled again.
Rafraichir_oublie == UNCHANGED <<isLoading, jeux, remplissages>>

\* refreshData of a member who is logged in.  The page is behind authGuard, and
\* isLoggedIn goes false only in localLogout, when the browser leaves the page.
Rafraichir ==
    /\ isLoading' = TRUE
    /\ jeux' = jeux \cup {Jeu(remplissages + 1)}
    /\ remplissages' = remplissages + 1

Annulee(a) ==
    /\ a.etat = "faite"
    /\ annulations' = annulations \ {a}
    /\ annulees' = annulees \cup {a.resa}
    /\ Rafraichir
    /\ UNCHANGED <<bibliotheque, coord, affEmprunts, affReservations, user,
                   champ, succes, sauvegardes, nbSauvegardes, ecarts>>

\* The error is logged, nothing is shown.
AnnulerErreur(a) ==
    /\ ecarts' = IF a.etat = "404" THEN ecarts ELSE ecarts \cup {"erreur"}
    /\ annulations' = annulations \ {a}
    /\ UNCHANGED <<bibliotheque, coord, ecran, jeux, remplissages, annulees,
                   sauvegardes, nbSauvegardes>>

-----------------------------------------------------------------------------
(* onSaveProfil *)

Saisir == \E k \in Coordonnees \ {champ} :
    /\ ~isLoading /\ user # Nul
    /\ champ' = k
    /\ UNCHANGED <<bibliotheque, coord, isLoading, affEmprunts,
                   affReservations, user, succes, envois, ecarts>>

\* Mutant: the message of the save before is left.
EffaceMessages_oublie == succes' = succes

\* successMessage.set('')
EffaceMessages == succes' = FALSE

OnSaveProfil ==
    /\ PeutAgir /\ user # Nul
    /\ nbSauvegardes < MaxSauvegardes
    /\ EffaceMessages
    /\ ecarts' = (ecarts \ {"compte"}) \cup Hate
    /\ sauvegardes' = sauvegardes \cup
          {[n |-> nbSauvegardes + 1, valeur |-> champ, lu |-> Nul, etat |-> "partie"]}
    /\ nbSauvegardes' = nbSauvegardes + 1
    /\ UNCHANGED <<bibliotheque, coord, isLoading, affEmprunts,
                   affReservations, user, champ, jeux, remplissages,
                   annulations, annulees>>

\* updateMe is given the account as the table holds it now.
Charger(s) ==
    /\ s.etat = "partie"
    /\ sauvegardes' = (sauvegardes \ {s}) \cup
          {[s EXCEPT !.etat = "lue", !.lu = coord]}
    /\ UNCHANGED <<bibliotheque, coord, ecran, jeux, remplissages, annulations,
                   annulees, nbSauvegardes, ecarts>>

\* Its flush writes the column only when the form changed what was read.
UpdateMe(s) ==
    /\ s.etat = "lue"
    /\ coord' = IF s.valeur = s.lu THEN coord ELSE s.valeur
    /\ sauvegardes' = (sauvegardes \ {s}) \cup {[s EXCEPT !.etat = "faite"]}
    /\ UNCHANGED <<bibliotheque, ecran, jeux, remplissages, annulations,
                   annulees, nbSauvegardes, ecarts>>

\* Mutant: the message without the new values.
MajUser_oubliee(s) == user' = user

\* user.set(updatedUser)
MajUser(s) == user' = s.valeur

Sauvegarde(s) ==
    /\ s.etat = "faite"
    /\ sauvegardes' = sauvegardes \ {s}
    /\ MajUser(s)
    /\ succes' = TRUE
    /\ UNCHANGED <<bibliotheque, coord, isLoading, affEmprunts,
                   affReservations, champ, jeux, remplissages, annulations,
                   annulees, nbSauvegardes, ecarts>>

SauvegardeErreur(s) ==
    /\ ecarts' = ecarts \cup {"erreur"}
    /\ sauvegardes' = sauvegardes \ {s}
    /\ UNCHANGED <<bibliotheque, coord, ecran, jeux, remplissages, annulations,
                   annulees, nbSauvegardes>>

-----------------------------------------------------------------------------
(* The others: a librarian lends a book, to the member or not, takes it back, *)
(* removes a reservation or edits the account.                               *)

Guichet ==
    /\ ecarts' = ecarts \cup {"guichet"}
    /\ \/ \E e \in Pretables : B!Preter(e, {r \in reservations :
                    r.utilisateur = e.utilisateur /\ r.livre = e.livre})
       \/ \E e \in emprunts : B!Rendre(e)
       \/ \E r \in reservations : B!Annuler(r)
    /\ UNCHANGED <<coord, ecran, envois>>

\* UtilisateurCrudController::updateEntity, with another value of the field.
Compte ==
    /\ ecarts' = ecarts \cup {"compte"}
    /\ coord' \in Coordonnees \ {coord}
    /\ UNCHANGED <<bibliotheque, ecran, envois>>

AvancerJeu(j) == Lire(j) \/ Remplir(j) \/ RemplirErreur(j)
AvancerAnnulation(a) == Delete(a) \/ Annulee(a) \/ AnnulerErreur(a)
AvancerSauvegarde(s) ==
    Charger(s) \/ UpdateMe(s) \/ Sauvegarde(s) \/ SauvegardeErreur(s)

Next ==
    \/ \E j \in jeux : AvancerJeu(j)
    \/ \E a \in annulations : AvancerAnnulation(a)
    \/ \E s \in sauvegardes : AvancerSauvegarde(s)
    \/ \E r \in affReservations : OnAnnuler(r)
    \/ Saisir \/ OnSaveProfil
    \/ Guichet \/ Compte

Spec == Init /\ [][Next]_vars

\* The server answers every request and the browser delivers every answer or
\* failure; nothing is asked of the member or of the librarian.
Equite ==
    /\ \A n \in 1 .. MaxJeux :
        WF_vars(\E j \in jeux : j.n = n /\ AvancerJeu(j))
    /\ \A r \in Initiales :
        WF_vars(\E a \in annulations : a.resa = r /\ AvancerAnnulation(a))
    /\ \A n \in 1 .. MaxSauvegardes :
        WF_vars(\E s \in sauvegardes : s.n = n /\ AvancerSauvegarde(s))

FairSpec == Spec /\ Equite

-----------------------------------------------------------------------------
(* Properties. *)

TypeOK ==
    /\ emprunts \subseteq Prets /\ reservations \subseteq Initiales
    /\ coord \in Coordonnees
    /\ isLoading \in BOOLEAN /\ succes \in BOOLEAN
    /\ affEmprunts \in SUBSET Mes(Prets)
    /\ affReservations \in SUBSET Mes(Initiales)
    /\ user \in Coordonnees \cup {Nul} /\ champ \in Coordonnees \cup {Nul}
    /\ user # Nul \/ sauvegardes # {} => champ # Nul
    /\ jeux \subseteq [n : 1 .. remplissages,
                       emprunts : (SUBSET Mes(Prets)) \cup {Nul},
                       reservations : (SUBSET Mes(Initiales)) \cup {Nul},
                       user : Coordonnees \cup {Nul}]
    /\ annulations \subseteq [resa : Mes(Initiales), etat : {"partie", "faite", "404"}]
    /\ IsFiniteSet(annulations)
    /\ remplissages \in Nat /\ remplissages + Cardinality(annulations) <= MaxJeux
    /\ sauvegardes \subseteq [n : 1 .. nbSauvegardes, valeur : Coordonnees,
                              lu : Coordonnees \cup {Nul},
                              etat : {"partie", "lue", "faite"}]
    /\ nbSauvegardes \in 0 .. MaxSauvegardes
    /\ ecarts \subseteq Ecart

\* Once every answer has come, a member who acts one step at a time sees their
\* loans and reservations as they are in the tables (refreshData), as long as no
\* request has failed and no librarian has acted at the desk; and their profile, as
\* long as the account has not been edited since they last saved it.
ProfilAJour ==
    Calme /\ ecarts \subseteq {"compte"} =>
        /\ ~isLoading
        /\ affEmprunts = Mes(emprunts)
        /\ affReservations = Mes(reservations)
        /\ "compte" \notin ecarts => user = coord

\* A reservation whose cancellation has been answered is no longer listed once
\* every answer has come (onAnnuler, then refreshData), whatever a librarian does
\* meanwhile.  It may be listed again when the member cancels two in haste, the
\* older of two refreshes ending last, or when the refresh fails.
AnnuleeInvisible ==
    Calme /\ ecarts \subseteq {"guichet", "compte"} => affReservations \cap annulees = {}

\* "Profil mis à jour avec succès." (onSaveProfil): while the message is shown
\* and nothing is under way, the page holds the profile of the table, even after
\* a save or a refresh that failed, for a member who waits for the answers, unless
\* the back office has edited the account since that save was sent.  An edit made
\* before does no harm, although the save writes only what differs from what it
\* reads (updateMe, updateEntity).
SuccesVrai ==
    Calme /\ succes /\ ecarts \cap {"hate", "compte"} = {} => user = coord

\* Why: a member who waits has one thing under way at most, and the spinner turns
\* exactly while it is a refresh.
UneChoseALaFois ==
    /\ \A j, k \in jeux : j = k
    /\ \A a, b \in annulations : a = b
    /\ \A s, t \in sauvegardes : s = t
    /\ jeux = {} \/ annulations = {}
    /\ sauvegardes = {} \/ (jeux = {} /\ annulations = {})
    /\ isLoading <=> jeux # {}

\* The message goes when a save begins, and comes back with what that save wrote;
\* nobody else writes the profile, as long as the account has not been edited since.
ProfilSuivi ==
    /\ succes => sauvegardes = {}
    /\ "compte" \notin ecarts =>
        /\ succes => user = coord
        /\ \A j \in jeux : j.user \in {Nul, coord}
        /\ \A s \in sauvegardes : /\ s.etat = "lue" => s.lu = coord
                                  /\ s.etat = "faite" => s.valeur = coord

\* A cancelled reservation has left the table, and reservations never come back.
AnnuleesParties ==
    /\ annulees \cap reservations = {}
    /\ \A a \in annulations : a.etat = "faite" => a.resa \notin reservations

\* So a refresh that began since the last answer to a cancellation never sees it.
SansAnnulees ==
    /\ \A j \in jeux : j.reservations # Nul => j.reservations \cap annulees = {}
    /\ "erreur" \notin ecarts /\ jeux = {} => affReservations \cap annulees = {}

\* What a refresh has read is still true, and so is the page without a refresh,
\* but for what the one request under way has just written or is about to.
PageSuivie ==
    /\ \A j \in jeux : /\ j.emprunts \in {Nul, Mes(emprunts)}
                       /\ j.reservations \in {Nul, Mes(reservations)}
    /\ jeux = {} =>
        /\ affEmprunts = Mes(emprunts)
        /\ \/ affReservations = Mes(reservations)
           \/ \E a \in annulations : a.etat = "faite"
        /\ "compte" \notin ecarts => user = coord \/ sauvegardes # {}

\* The types, and why the page of a member who waits follows the tables through
\* refreshData, onAnnuler and onSaveProfil: what the proofs rest on.
Inv ==
    /\ TypeOK
    /\ AnnuleesParties
    /\ "hate" \notin ecarts => UneChoseALaFois /\ ProfilSuivi /\ SansAnnulees
    /\ ecarts \subseteq {"compte"} => PageSuivie

\* The spinner stops, whatever fails, however the librarian interferes and
\* however often the member clicks.
PageRepond == isLoading ~> ~isLoading

\* A reservation that the member asks to cancel leaves the list (onAnnuler), or
\* the member was hasty, a request failed or a librarian acted at the desk.
AnnulationVue == \A r \in Initiales :
    (\E a \in annulations : a.resa = r) ~>
        (r \notin affReservations /\ ~isLoading) \/ ecarts \ {"compte"} # {}
=============================================================================

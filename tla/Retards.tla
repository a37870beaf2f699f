------------------------------ MODULE Retards ------------------------------
(***************************************************************************)
(* The dates of a loan: when it began, when it was returned, and whether   *)
(* it is late.  The handlers are those of Circulation seen from the date   *)
(* columns only: who borrows which book, and whether a rule refuses the    *)
(* request, is Circulation's business, and here a request may fail at will *)
(* (Echec).  The clock is finer than the DATETIME columns: it counts ticks,  *)
(* TicsParSeconde to a second, and the columns hold whole seconds.         *)
(***************************************************************************)
EXTENDS Integers, FiniteSets

CONSTANTS
    Workers,       \* PHP workers, each serving one request at a time
    Duree,         \* days a member may keep a book: 15 in the code
    TicsParSeconde,\* ticks of the server's clock in a second
    TicsParJour,   \* ticks in a day
    Saisies,       \* dates a librarian may type in a form, in whole seconds
    MaxHorloge,    \* bound: the last tick
    MaxIdEmprunt,  \* bound: the largest id
    Nul            \* PHP null, an empty date

VARIABLES
    horloge,       \* the server's clock
    emprunts,      \* rows of table emprunt
    seqEmprunt,    \* next AUTO_INCREMENT value
    requetes,      \* the request each worker is serving
    saisis         \* history: ids of the loans whose dates were typed in a form

vars == <<horloge, emprunts, seqEmprunt, requetes, saisis>>

ASSUME RetardsHypotheses ==
    /\ Duree \in Nat /\ TicsParSeconde \in Nat \ {0}
    /\ TicsParJour \in Nat \ {0}
    /\ MaxHorloge \in Nat /\ MaxIdEmprunt \in Nat
    /\ Saisies \subseteq Nat /\ Nul \notin Nat

ASSUME SecondesEntieres ==
    \A d \in Saisies \cup {TicsParJour} : d % TicsParSeconde = 0

Emprunt == [id : Nat, dateEmprunt : Nat, dateRetour : Nat \cup {Nul}]

\* A request in progress: the loan being saved, with its id (0 for a new one) and
\* the date columns in its change set.  History: main, a date of the new loan was
\* typed; seul, nobody has written the loan since the request read it; recu, when
\* the return was asked for.
Requete == [op : {"repos", "emprunter", "rendre", "editer"}, id : Nat,
            dateEmprunt : Nat \cup {Nul}, dateRetour : Nat \cup {Nul},
            colonnes : SUBSET {"dateEmprunt", "dateRetour"},
            main : BOOLEAN, seul : BOOLEAN, recu : Nat]

Repos == [op |-> "repos", id |-> 0, dateEmprunt |-> Nul, dateRetour |-> Nul,
          colonnes |-> {}, main |-> FALSE, seul |-> FALSE, recu |-> 0]

-----------------------------------------------------------------------------
(* Emprunt::getIsEnRetard, and the status line of the printed sheet, that    *)
(* computes the limit again.                                                 *)

Limite(e) == e.dateEmprunt + Duree * TicsParJour

\* Mutant: a returned loan is given one second of grace.
IsEnRetard_grace(e, maintenant) ==
    IF e.dateRetour # Nul THEN e.dateRetour > Limite(e) + TicsParSeconde
                          ELSE maintenant > Limite(e)

IsEnRetard(e, maintenant) ==
    IF e.dateRetour # Nul THEN e.dateRetour > Limite(e)
                          ELSE maintenant > Limite(e)

LimiteFiche(e) == e.dateEmprunt + Duree * TicsParJour

StatutFiche(e, maintenant) ==
    CASE e.dateRetour # Nul        -> "clos"
      [] e.dateRetour = Nul /\ maintenant > LimiteFiche(e) -> "retard"
      [] OTHER                     -> "en cours"

-----------------------------------------------------------------------------
Init ==
    /\ horloge = 0
    /\ emprunts = {} /\ seqEmprunt = 1
    /\ requetes = [w \in Workers |-> Repos]
    /\ saisis = {}

Recevoir(w, r) ==
    /\ requetes[w].op = "repos"
    /\ requetes' = [requetes EXCEPT ![w] = r]
    /\ UNCHANGED <<horloge, emprunts, seqEmprunt, saisis>>

\* The form for a new loan, and "Transformer en emprunt", that leaves both
\* dates empty.  An empty loan date becomes the current one.
Emprunter(w) == \E de, dr \in Saisies \cup {Nul} :
    Recevoir(w, [Repos EXCEPT !.op = "emprunter", !.dateRetour = dr,
                              !.dateEmprunt = IF de = Nul THEN horloge ELSE de,
                              !.main = {de, dr} # {Nul}])

\* Mutant: the return date is the day's first tick, not the current one.
DateDuRetour_minuit == horloge - (horloge % TicsParJour)

DateDuRetour == horloge

\* Mutant: a loan already returned can be returned again.
PeutRendre_toujours(e) == TRUE

PeutRendre(e) == e.dateRetour = Nul

\* The link "Enregistrer le retour".
RendreLivre(w) == \E e \in emprunts :
    /\ PeutRendre(e)
    /\ Recevoir(w, [Repos EXCEPT !.op = "rendre", !.id = e.id,
                                 !.dateRetour = DateDuRetour,
                                 !.colonnes = {"dateRetour"}, !.seul = TRUE,
                                 !.recu = horloge])

\* The edit form: both dates as they were, typed anew, or, for the return, empty.
EditerEmprunt(w) == \E e \in emprunts :
    \E de \in Saisies \cup {e.dateEmprunt},
       dr \in Saisies \cup {e.dateRetour, Nul} :
        Recevoir(w, [Repos EXCEPT !.op = "editer", !.id = e.id,
                                  !.dateEmprunt = de, !.dateRetour = dr,
                                  !.colonnes =
                        {c \in {"dateEmprunt", "dateRetour"} :
                            \/ c = "dateEmprunt" /\ de # e.dateEmprunt
                            \/ c = "dateRetour" /\ dr # e.dateRetour}])

-----------------------------------------------------------------------------
(* flush(): an INSERT, or an UPDATE of the changed columns, that touches no  *)
(* row when the loan is gone.  Doctrine writes a date as 'Y-m-d H:i:s': what *)
(* the clock had beyond the second is dropped.                               *)

Tronque(d) == d - (d % TicsParSeconde)

Colonne(d) == IF d = Nul THEN Nul ELSE Tronque(d)

Fin(w) == requetes' = [requetes EXCEPT ![w] = Repos]

FlushNouveau(w) ==
    LET r == requetes[w]
    IN  /\ r.op = "emprunter"
        /\ seqEmprunt <= MaxIdEmprunt
        /\ emprunts' = emprunts \cup {[id |-> seqEmprunt,
                                       dateEmprunt |-> Colonne(r.dateEmprunt),
                                       dateRetour |-> Colonne(r.dateRetour)]}
        /\ seqEmprunt' = seqEmprunt + 1
        /\ saisis' = IF r.main THEN saisis \cup {seqEmprunt} ELSE saisis
        /\ Fin(w)
        /\ UNCHANGED horloge

Ecrit(r, colonne, nouveau, ancien) ==
    IF colonne \in r.colonnes THEN Colonne(nouveau) ELSE ancien

EcritLigne(r, e) ==
    [e EXCEPT
        !.dateEmprunt = Ecrit(r, "dateEmprunt", r.dateEmprunt, e.dateEmprunt),
        !.dateRetour = Ecrit(r, "dateRetour", r.dateRetour, e.dateRetour)]

\* The request ends; what the others read of the loan may be out of date.
FinEcrite(w) == requetes' = [v \in Workers |->
    IF v = w THEN Repos
    ELSE [requetes[v] EXCEPT !.seul = @ /\ requetes[v].id # requetes[w].id]]

FlushDates(w) ==
    LET r == requetes[w]
    IN  /\ r.op \in {"rendre", "editer"}
        /\ emprunts' = {IF e.id = r.id THEN EcritLigne(r, e) ELSE e
                            : e \in emprunts}
        /\ saisis' = IF r.op = "editer" /\ r.colonnes # {}
                     THEN saisis \cup {r.id} ELSE saisis
        /\ FinEcrite(w)
        /\ UNCHANGED <<horloge, seqEmprunt>>

Supprimer == \E e \in emprunts :
    /\ emprunts' = emprunts \ {e}
    /\ UNCHANGED <<horloge, seqEmprunt, requetes, saisis>>

\* A rule refuses the request, or it dies: nothing is written.
Echec(w) ==
    /\ requetes[w].op # "repos"
    /\ Fin(w)
    /\ UNCHANGED <<horloge, emprunts, seqEmprunt, saisis>>

Tic ==
    /\ horloge < MaxHorloge
    /\ horloge' = horloge + 1
    /\ UNCHANGED <<emprunts, seqEmprunt, requetes, saisis>>

Next ==
    \/ Tic
    \/ Supprimer
    \/ \E w \in Workers :
        \/ Emprunter(w) \/ RendreLivre(w) \/ EditerEmprunt(w)
        \/ FlushNouveau(w) \/ FlushDates(w) \/ Echec(w)

Spec == Init /\ [][Next]_vars

-----------------------------------------------------------------------------
(* Properties. *)

TypeOK ==
    /\ horloge \in Nat
    /\ emprunts \subseteq Emprunt
    /\ seqEmprunt \in Nat \ {0}
    /\ requetes \in [Workers -> Requete]
    /\ saisis \subseteq Nat

\* A loan whose dates nobody typed begins and ends in the past and ends after it
\* began (persistEntity, transformerEnEmprunt, rendreLivre), whatever the
\* interleaving and however slow the requests are.
Chronologie == \A e \in emprunts : e.id \notin saisis =>
    /\ e.dateEmprunt <= horloge
    /\ e.dateRetour # Nul =>
            e.dateEmprunt <= e.dateRetour /\ e.dateRetour <= horloge

\* Why: an id stands for one loan; its first date is a whole number of seconds, so
\* that dropping the rest of a later date cannot put it before; a return in progress
\* is dated when it was asked for, after the loan it is about, and that loan is not
\* returned as long as nobody else wrote it.
InvChronologie ==
    /\ Chronologie
    /\ \A e, f \in emprunts : e.id = f.id => e = f
    /\ \A e \in emprunts : e.id \in 1 .. seqEmprunt - 1
    /\ \A e \in emprunts : Tronque(e.dateEmprunt) = e.dateEmprunt
    /\ \A w \in Workers :
        LET r == requetes[w]
        IN  /\ r.id < seqEmprunt
            /\ r.op = "emprunter" =>
                    /\ r.dateEmprunt \in Nat
                    /\ ~r.main => r.dateEmprunt <= horloge /\ r.dateRetour = Nul
            /\ "dateEmprunt" \in r.colonnes => r.dateEmprunt \in Nat
            /\ r.op = "rendre" =>
                    /\ r.colonnes = {"dateRetour"}
                    /\ r.dateRetour = r.recu /\ r.recu <= horloge
                    /\ \A e \in emprunts : e.id = r.id =>
                          /\ e.id \notin saisis => e.dateEmprunt <= r.dateRetour
                          /\ r.seul => e.dateRetour = Nul

\* The types and the inductive invariant.
Inv == TypeOK /\ InvChronologie

\* What the list and the sheet say of a loan, at the precision of the columns.
ListeEnRetard(e, t) == IsEnRetard(e, Tronque(t))
FicheEnRetard(e, t) == StatutFiche(e, Tronque(t)) = "retard"

\* Once the list (getIsEnRetard, both branches) or the printed sheet says that a
\* loan whose dates nobody typed is late, by a full second at least, the list says
\* so for ever, and the sheet until the book is back, whatever is written
\* meanwhile; unless a return asked for within the limit was on its way.
\* Within the second after the limit it is not so: the loan is late, and the
\* return, written without its fraction, is in time.
ResteEnRetard ==
    \A e \in emprunts : \A f \in emprunts' :
        /\ f.id = e.id /\ e.id \notin saisis'
        /\ ListeEnRetard(e, horloge) \/ FicheEnRetard(e, horloge)
        /\ \A w \in Workers : requetes[w].op = "rendre" /\ requetes[w].id = e.id
                                => Tronque(requetes[w].recu) > Limite(e)
        => /\ ListeEnRetard(f, horloge')
           /\ f.dateRetour = Nul => FicheEnRetard(f, horloge')

RetardPermanent == [][ResteEnRetard]_vars

\* "Ce livre a déjà été retourné." (rendreLivre): a recorded return is changed only
\* by the edit form, or by a click whose test was made before somebody else wrote
\* the loan.
RetourStable ==
    \A e \in emprunts : \A f \in emprunts' :
        f.id = e.id /\ e.dateRetour # Nul /\ f.dateRetour # e.dateRetour =>
            \E w \in Workers :
                /\ requetes[w].id = e.id
                /\ \/ requetes[w].op = "editer"
                   \/ requetes[w].op = "rendre" /\ ~requetes[w].seul

RetourUneFois == [][RetourStable]_vars
=============================================================================

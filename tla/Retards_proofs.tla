--------------------------- MODULE Retards_proofs ---------------------------
(***************************************************************************)
(* Proofs about Retards, for any number of workers, any duration of a loan *)
(* and any division of the day and of the second: Inv is inductive, the    *)
(* chronology of the loans follows, a loan once late stays late, and a     *)
(* return is recorded once.                                                *)
(***************************************************************************)
EXTENDS Retards, TLAPS

-----------------------------------------------------------------------------
(* Dates in whole seconds: what Doctrine keeps of a date. *)

\* Seconds and fraction of a date of the clock.
LEMMA SecondesEtFraction ==
    ASSUME NEW d \in Nat
    PROVE  /\ d \div TicsParSeconde \in Nat
           /\ d % TicsParSeconde \in 0 .. TicsParSeconde - 1
           /\ d = TicsParSeconde * (d \div TicsParSeconde) + (d % TicsParSeconde)
BY RetardsHypotheses

\* A second more is TicsParSeconde ticks more, at least.
LEMMA UneSecondeDePlus ==
    ASSUME NEW p \in Nat, NEW q \in Nat, p >= q + 1
    PROVE  TicsParSeconde * p >= TicsParSeconde * q + TicsParSeconde
<1>1. PICK k \in Nat : p = q + 1 + k
    <2>1. p - q - 1 \in Nat /\ p = q + 1 + (p - q - 1)
        OBVIOUS
    <2> QED
        BY <2>1
<1>2. /\ TicsParSeconde * p
            = TicsParSeconde * q + TicsParSeconde + TicsParSeconde * k
      /\ TicsParSeconde * k \in Nat /\ TicsParSeconde * q \in Nat
    BY <1>1, RetardsHypotheses
<1> QED
    BY <1>2, RetardsHypotheses

\* Dropping the fraction of two dates keeps their order (the format
\* 'Y-m-d H:i:s' of the DATETIME columns).
LEMMA TronqueCroissante ==
    ASSUME NEW a \in Nat, NEW b \in Nat, a <= b
    PROVE  Tronque(a) <= Tronque(b)
<1> DEFINE p == a \div TicsParSeconde
           q == b \div TicsParSeconde
<1>1. /\ p \in Nat /\ a % TicsParSeconde \in 0 .. TicsParSeconde - 1
      /\ q \in Nat /\ b % TicsParSeconde \in 0 .. TicsParSeconde - 1
      /\ a = TicsParSeconde * p + (a % TicsParSeconde)
      /\ b = TicsParSeconde * q + (b % TicsParSeconde)
    BY SecondesEtFraction
<1> HIDE DEF p, q
<1>2. TicsParSeconde * p \in Nat /\ TicsParSeconde * q \in Nat
    BY <1>1, RetardsHypotheses
<1>3. CASE p >= q + 1
    BY <1>1, <1>2, <1>3, UneSecondeDePlus, RetardsHypotheses
<1>4. CASE p <= q
    <2>1. TicsParSeconde * p <= TicsParSeconde * q
        BY <1>1, <1>4, UneSecondeDePlus, RetardsHypotheses
    <2> QED
        BY <1>1, <1>2, <2>1, RetardsHypotheses DEF Tronque
<1> QED
    BY <1>1, <1>3, <1>4

\* What is left is a date, not later, with no fraction to drop.
LEMMA TronqueEntiere ==
    ASSUME NEW d \in Nat
    PROVE  Tronque(d) \in Nat /\ Tronque(d) <= d /\ Tronque(Tronque(d)) = Tronque(d)
<1> DEFINE p == d \div TicsParSeconde
<1>1. /\ p \in Nat /\ d % TicsParSeconde \in 0 .. TicsParSeconde - 1
      /\ d = TicsParSeconde * p + (d % TicsParSeconde)
    BY SecondesEtFraction
<1> HIDE DEF p
<1>2. TicsParSeconde * p \in Nat /\ Tronque(d) = TicsParSeconde * p
    BY <1>1, RetardsHypotheses DEF Tronque
<1>3. (TicsParSeconde * p) % TicsParSeconde = 0
    BY <1>1, RetardsHypotheses
<1>4. Tronque(TicsParSeconde * p) = TicsParSeconde * p
    BY <1>2, <1>3 DEF Tronque
<1>5. TicsParSeconde * p <= d
    BY <1>1, <1>2, RetardsHypotheses
<1> QED
    BY <1>2, <1>4, <1>5

\* What a column holds of a date, or of none.
LEMMA ColonneEntiere ==
    /\ Colonne(Nul) = Nul
    /\ \A d \in Nat : Colonne(d) = Tronque(d) /\ Colonne(d) \in Nat
                        /\ Colonne(d) <= d /\ Tronque(Colonne(d)) = Colonne(d)
BY TronqueEntiere, RetardsHypotheses DEF Colonne

-----------------------------------------------------------------------------
(* The inductive invariant. *)

\* What Inv says of one request.
RequeteOK(r) ==
    /\ r.id < seqEmprunt
    /\ r.op = "emprunter" =>
            /\ r.dateEmprunt \in Nat
            /\ ~r.main => r.dateEmprunt <= horloge /\ r.dateRetour = Nul
    /\ "dateEmprunt" \in r.colonnes => r.dateEmprunt \in Nat
    /\ r.op = "rendre" =>
            /\ r.colonnes = {"dateRetour"}
            /\ r.dateRetour = r.recu /\ r.recu <= horloge
            /\ \A e \in emprunts : e.id = r.id =>
                  /\ e.id \notin saisis => e.dateEmprunt <= r.dateRetour
                  /\ r.seul => e.dateRetour = Nul

\* What Inv says of the loans.
EmpruntsOK ==
    /\ Chronologie
    /\ \A e, f \in emprunts : e.id = f.id => e = f
    /\ \A e \in emprunts : e.id \in 1 .. seqEmprunt - 1
    /\ \A e \in emprunts : Tronque(e.dateEmprunt) = e.dateEmprunt

\* Inv in two parts.
LEMMA InvEnParties ==
    Inv <=> TypeOK /\ EmpruntsOK /\ \A w \in Workers : RequeteOK(requetes[w])
BY DEF Inv, InvChronologie, EmpruntsOK, RequeteOK

\* A worker at rest satisfies its part, as soon as ids start at 1.
LEMMA ReposOK == ASSUME seqEmprunt \in Nat \ {0} PROVE RequeteOK(Repos)
BY DEF RequeteOK, Repos

\* Repos is a request.
LEMMA ReposType == Repos \in Requete
BY DEF Repos, Requete

\* The invariant holds at first.
LEMMA InitInv == Init => Inv
<1> SUFFICES ASSUME Init PROVE Inv
    OBVIOUS
<1>1. TypeOK
    BY ReposType DEF Init, TypeOK
<1>2. EmpruntsOK
    BY DEF Init, EmpruntsOK, Chronologie
<1>3. \A w \in Workers : RequeteOK(requetes[w])
    BY <1>1, ReposOK DEF Init, TypeOK
<1> QED
    BY <1>1, <1>2, <1>3, InvEnParties

\* A request that satisfies its part may be received.
LEMMA RecevoirInv ==
    ASSUME Inv, NEW w \in Workers, NEW r \in Requete, RequeteOK(r),
           Recevoir(w, r)
    PROVE  Inv'
<1>1. TypeOK /\ EmpruntsOK /\ \A v \in Workers : RequeteOK(requetes[v])
    BY InvEnParties
<1>2. requetes' = [requetes EXCEPT ![w] = r]
      /\ UNCHANGED <<horloge, emprunts, seqEmprunt, saisis>>
    BY DEF Recevoir
<1>3. TypeOK'
    BY <1>1, <1>2 DEF TypeOK
<1>4. EmpruntsOK'
    BY <1>1, <1>2 DEF EmpruntsOK, Chronologie
<1>5. ASSUME NEW v \in Workers PROVE RequeteOK(requetes[v])'
    <2>1. requetes'[v] = r \/ requetes'[v] = requetes[v]
        BY <1>1, <1>2 DEF TypeOK
    <2> QED
        BY <2>1, <1>1, <1>2 DEF RequeteOK
<1> QED
    BY <1>3, <1>4, <1>5 DEF Inv, InvChronologie, EmpruntsOK, RequeteOK

\* Emprunter: the date is typed, or is the current one.
LEMMA EmprunterInv ==
    ASSUME Inv, NEW w \in Workers, Emprunter(w) PROVE Inv'
<1>0. horloge \in Nat /\ seqEmprunt \in Nat \ {0}
    BY Zenon DEF Inv, TypeOK
<1>1. PICK de \in Saisies \cup {Nul}, dr \in Saisies \cup {Nul} :
        Recevoir(w, [Repos EXCEPT !.op = "emprunter", !.dateRetour = dr,
                                  !.dateEmprunt = IF de = Nul THEN horloge ELSE de,
                                  !.main = {de, dr} # {Nul}])
    BY Zenon DEF Emprunter
<1> DEFINE d == IF de = Nul THEN horloge ELSE de
           m == {de, dr} # {Nul}
           r == [Repos EXCEPT !.op = "emprunter", !.dateRetour = dr,
                              !.dateEmprunt = d, !.main = m]
<1>2. d \in Nat /\ dr \in Nat \cup {Nul} /\ m \in BOOLEAN
    BY <1>0, RetardsHypotheses
<1>3. ~m => d = horloge /\ dr = Nul
    OBVIOUS
<1>4. Recevoir(w, r)
    BY <1>1
<1> HIDE DEF d, m
<1>5. /\ r \in Requete /\ r.op = "emprunter" /\ r.id = 0 /\ r.colonnes = {}
      /\ r.dateEmprunt = d /\ r.dateRetour = dr /\ r.main = m
    BY Zenon, <1>2 DEF Requete, Repos
<1> HIDE DEF r
<1>6. RequeteOK(r)
    BY <1>0, <1>2, <1>3, <1>5 DEF RequeteOK
<1> QED
    BY <1>4, <1>5, <1>6, RecevoirInv

\* RendreLivre: the return is dated now, after every loan began.
LEMMA RendreLivreInv ==
    ASSUME Inv, NEW w \in Workers, RendreLivre(w) PROVE Inv'
<1>0. horloge \in Nat /\ seqEmprunt \in Nat \ {0} /\ emprunts \subseteq Emprunt
    BY DEF Inv, TypeOK
<1>1. PICK e \in emprunts :
        /\ e.dateRetour = Nul
        /\ Recevoir(w, [Repos EXCEPT !.op = "rendre", !.id = e.id,
                                     !.dateRetour = DateDuRetour,
                                     !.colonnes = {"dateRetour"}, !.seul = TRUE,
                                     !.recu = horloge])
    BY Zenon DEF RendreLivre, PeutRendre
<1> DEFINE r == [Repos EXCEPT !.op = "rendre", !.id = e.id,
                              !.dateRetour = horloge,
                              !.colonnes = {"dateRetour"}, !.seul = TRUE,
                              !.recu = horloge]
<1>2. Recevoir(w, r)
    BY <1>1 DEF DateDuRetour
<1>3. e.id \in Nat /\ e.id < seqEmprunt
    BY <1>0 DEF Inv, InvChronologie, Emprunt
<1>4. r \in Requete
    BY Zenon, <1>0, <1>3 DEF Requete, Repos
<1>5. r.op = "rendre" /\ r.id = e.id /\ r.dateRetour = horloge
      /\ r.colonnes = {"dateRetour"} /\ r.recu = horloge
    BY DEF Repos
<1> HIDE DEF r
<1>6. /\ \A f \in emprunts : f.id \notin saisis => f.dateEmprunt <= horloge
      /\ \A f \in emprunts : f.id = e.id => f.dateRetour = Nul
    BY <1>1 DEF Inv, InvChronologie, Chronologie
<1>7. RequeteOK(r)
    BY <1>0, <1>3, <1>5, <1>6 DEF RequeteOK
<1> QED
    BY <1>2, <1>4, <1>7, RecevoirInv

\* EditerEmprunt: a date column is written only with a date, or empty for the
\* return.
LEMMA EditerEmpruntInv ==
    ASSUME Inv, NEW w \in Workers, EditerEmprunt(w) PROVE Inv'
<1>0. seqEmprunt \in Nat \ {0} /\ emprunts \subseteq Emprunt
    BY DEF Inv, TypeOK
<1>1. PICK e \in emprunts : \E de \in Saisies \cup {e.dateEmprunt},
                               dr \in Saisies \cup {e.dateRetour, Nul} :
        Recevoir(w, [Repos EXCEPT !.op = "editer", !.id = e.id,
                                  !.dateEmprunt = de, !.dateRetour = dr,
                                  !.colonnes =
                        {x \in {"dateEmprunt", "dateRetour"} :
                            \/ x = "dateEmprunt" /\ de # e.dateEmprunt
                            \/ x = "dateRetour" /\ dr # e.dateRetour}])
    BY Zenon DEF EditerEmprunt
<1>a. PICK de \in Saisies \cup {e.dateEmprunt},
           dr \in Saisies \cup {e.dateRetour, Nul} :
        Recevoir(w, [Repos EXCEPT !.op = "editer", !.id = e.id,
                                  !.dateEmprunt = de, !.dateRetour = dr,
                                  !.colonnes =
                        {x \in {"dateEmprunt", "dateRetour"} :
                            \/ x = "dateEmprunt" /\ de # e.dateEmprunt
                            \/ x = "dateRetour" /\ dr # e.dateRetour}])
    BY Zenon, <1>1
<1> DEFINE c == {x \in {"dateEmprunt", "dateRetour"} :
                    \/ x = "dateEmprunt" /\ de # e.dateEmprunt
                    \/ x = "dateRetour" /\ dr # e.dateRetour}
<1>b. c \in SUBSET {"dateEmprunt", "dateRetour"}
    BY Zenon
<1>2. /\ e.id \in Nat /\ e.id < seqEmprunt
      /\ de \in Nat /\ dr \in Nat \cup {Nul}
    BY <1>0, RetardsHypotheses DEF Inv, InvChronologie, Emprunt
<1> DEFINE r == [Repos EXCEPT !.op = "editer", !.id = e.id, !.dateEmprunt = de,
                              !.dateRetour = dr, !.colonnes = c]
<1>5. Recevoir(w, r)
    BY Zenon, <1>a
<1> HIDE DEF c
<1>3. r \in Requete /\ r.op = "editer" /\ r.id = e.id /\ r.dateEmprunt = de
    BY Zenon, <1>2, <1>b DEF Requete, Repos
<1> HIDE DEF r
<1>4. RequeteOK(r)
    BY <1>2, <1>3 DEF RequeteOK
<1> QED
    BY <1>3, <1>4, <1>5, RecevoirInv

\* The other requests go on, with what they read and what they will write.
LEMMA AutresRequetes ==
    ASSUME TypeOK, NEW w \in Workers, Fin(w) \/ FinEcrite(w)
    PROVE  /\ requetes' \in [Workers -> Requete]
           /\ requetes'[w] = Repos
           /\ \A v \in Workers \ {w} :
                /\ requetes'[v].op = requetes[v].op
                /\ requetes'[v].id = requetes[v].id
                /\ requetes'[v].dateEmprunt = requetes[v].dateEmprunt
                /\ requetes'[v].dateRetour = requetes[v].dateRetour
                /\ requetes'[v].colonnes = requetes[v].colonnes
                /\ requetes'[v].main = requetes[v].main
                /\ requetes'[v].recu = requetes[v].recu
                /\ requetes'[v].seul =>
                      /\ requetes[v].seul
                      /\ Fin(w) \/ requetes[v].id # requetes[w].id
<1>1. CASE Fin(w)
    BY <1>1, ReposType DEF Fin, TypeOK
<1>2. CASE FinEcrite(w)
    <2>1. ASSUME NEW v \in Workers, v # w
          PROVE  /\ requetes'[v] \in Requete
                 /\ requetes'[v].op = requetes[v].op
                 /\ requetes'[v].id = requetes[v].id
                 /\ requetes'[v].dateEmprunt = requetes[v].dateEmprunt
                 /\ requetes'[v].dateRetour = requetes[v].dateRetour
                 /\ requetes'[v].colonnes = requetes[v].colonnes
                 /\ requetes'[v].main = requetes[v].main
                 /\ requetes'[v].recu = requetes[v].recu
                 /\ requetes'[v].seul =>
                       requetes[v].seul /\ requetes[v].id # requetes[w].id
        <3> DEFINE b == requetes[v].seul /\ requetes[v].id # requetes[w].id
        <3>1. requetes[v] \in Requete /\ b \in BOOLEAN
            BY DEF TypeOK
        <3>2. requetes'[v] = [requetes[v] EXCEPT !.seul = b]
            BY <1>2, <2>1 DEF FinEcrite
        <3>3. requetes'[v].seul = b
            BY <3>1, <3>2 DEF Requete
        <3> HIDE DEF b
        <3>4. /\ requetes'[v] \in Requete
              /\ requetes'[v].op = requetes[v].op
              /\ requetes'[v].id = requetes[v].id
              /\ requetes'[v].dateEmprunt = requetes[v].dateEmprunt
              /\ requetes'[v].dateRetour = requetes[v].dateRetour
              /\ requetes'[v].colonnes = requetes[v].colonnes
              /\ requetes'[v].main = requetes[v].main
              /\ requetes'[v].recu = requetes[v].recu
            BY <3>1, <3>2 DEF Requete
        <3> QED
            BY Zenon, <3>3, <3>4 DEF b
    <2>2. requetes'[w] = Repos
        BY <1>2 DEF FinEcrite
    <2>3. requetes' \in [Workers -> Requete]
        BY <1>2, <2>1, <2>2, ReposType DEF FinEcrite
    <2> QED
        BY <2>1, <2>2, <2>3
<1> QED
    BY <1>1, <1>2

\* The end of a request: what remains to be shown is that the loans and the other
\* requests satisfy their part.
LEMMA FinInv ==
    ASSUME TypeOK, (emprunts \subseteq Emprunt)', EmpruntsOK', horloge' \in Nat,
           (seqEmprunt \in Nat \ {0})', (saisis \subseteq Nat)',
           NEW w \in Workers, Fin(w) \/ FinEcrite(w),
           \A v \in Workers \ {w} : RequeteOK(requetes[v])'
    PROVE  Inv'
<1>1. TypeOK'
    BY AutresRequetes DEF TypeOK
<1>2. RequeteOK(requetes[w])'
    BY AutresRequetes DEF RequeteOK, Repos
<1>3. \A v \in Workers : RequeteOK(requetes[v])'
    BY <1>2
<1> QED
    BY <1>1, <1>3 DEF Inv, InvChronologie, EmpruntsOK, RequeteOK

\* FlushNouveau: the new loan has a new id.
LEMMA FlushNouveauInv ==
    ASSUME Inv, NEW w \in Workers, FlushNouveau(w) PROVE Inv'
<1> DEFINE r == requetes[w]
           n == [id |-> seqEmprunt, dateEmprunt |-> Colonne(r.dateEmprunt),
                 dateRetour |-> Colonne(r.dateRetour)]
<1>0. TypeOK /\ EmpruntsOK /\ \A v \in Workers : RequeteOK(requetes[v])
    BY InvEnParties
<1>1. /\ emprunts' = emprunts \cup {n} /\ seqEmprunt' = seqEmprunt + 1
      /\ saisis' = IF r.main THEN saisis \cup {seqEmprunt} ELSE saisis
      /\ horloge' = horloge /\ Fin(w) /\ r.op = "emprunter"
    BY DEF FlushNouveau
<1>2. r \in Requete /\ r.dateEmprunt \in Nat /\ r.dateRetour \in Nat \cup {Nul}
    BY <1>0, <1>1 DEF TypeOK, RequeteOK, Requete
<1>3. ~r.main => r.dateEmprunt <= horloge /\ r.dateRetour = Nul
    BY <1>0, <1>1 DEF RequeteOK
<1>b. /\ Colonne(r.dateEmprunt) \in Nat /\ Colonne(r.dateEmprunt) <= r.dateEmprunt
      /\ Tronque(Colonne(r.dateEmprunt)) = Colonne(r.dateEmprunt)
      /\ Colonne(r.dateRetour) \in Nat \cup {Nul}
      /\ r.dateRetour = Nul => Colonne(r.dateRetour) = Nul
    BY <1>2, ColonneEntiere
<1>4. n \in Emprunt /\ n.id = seqEmprunt /\ n.dateEmprunt = Colonne(r.dateEmprunt)
      /\ n.dateRetour = Colonne(r.dateRetour)
    BY <1>0, <1>b DEF Emprunt, TypeOK
<1> HIDE DEF n
<1>a. saisis \subseteq saisis' /\ saisis' \subseteq Nat /\ r.main \in BOOLEAN
      /\ (r.main => seqEmprunt \in saisis')
    BY <1>0, <1>1, <1>2 DEF TypeOK, Requete
<1>5. EmpruntsOK'
    <2>1. Chronologie'
        <3> SUFFICES ASSUME NEW e \in emprunts', e.id \notin saisis'
                     PROVE  /\ e.dateEmprunt <= horloge'
                            /\ e.dateRetour # Nul =>
                                    /\ e.dateEmprunt <= e.dateRetour
                                    /\ e.dateRetour <= horloge'
            BY DEF Chronologie
        <3>1. CASE e = n
            <4>1. r.dateEmprunt <= horloge /\ r.dateRetour = Nul
                BY <1>3, <1>4, <1>a, <3>1
            <4>2. Colonne(r.dateEmprunt) <= horloge
                BY <1>0, <1>2, <1>b, <4>1 DEF TypeOK
            <4> QED
                BY <1>1, <1>4, <1>b, <3>1, <4>1, <4>2
        <3>2. CASE e \in emprunts
            BY <1>0, <1>1, <1>a, <3>2 DEF EmpruntsOK, Chronologie
        <3> QED
            BY <1>1, <3>1, <3>2
    <2>2. \A e \in emprunts : e.id # seqEmprunt
        BY <1>0 DEF EmpruntsOK, TypeOK
    <2>3. (\A e, f \in emprunts : e.id = f.id => e = f)'
        BY <1>0, <1>1, <1>4, <2>2 DEF EmpruntsOK
    <2>4. (\A e \in emprunts : e.id \in 1 .. seqEmprunt - 1)'
        BY <1>0, <1>1, <1>4 DEF EmpruntsOK, TypeOK
    <2>5. (\A e \in emprunts : Tronque(e.dateEmprunt) = e.dateEmprunt)'
        BY <1>0, <1>1, <1>4, <1>b DEF EmpruntsOK, Tronque
    <2> QED
        BY <2>1, <2>3, <2>4, <2>5 DEF EmpruntsOK
<1>6. ASSUME NEW v \in Workers \ {w} PROVE RequeteOK(requetes[v])'
    <2>1. requetes[v].id < seqEmprunt /\ requetes[v].id \in Nat
        BY <1>0 DEF RequeteOK, TypeOK, Requete
    <2>2. requetes'[v] = requetes[v]
        BY <1>0, <1>1 DEF Fin, TypeOK
    <2>3. \A e \in emprunts' : e.id = requetes[v].id => e \in emprunts
        BY <1>0, <1>1, <1>4, <2>1 DEF TypeOK
    <2>4. requetes[v].id < seqEmprunt'
        BY <1>0, <1>1, <2>1 DEF TypeOK
    <2> QED
        BY <1>0, <1>1, <1>a, <2>2, <2>3, <2>4 DEF RequeteOK
<1>7. (emprunts \subseteq Emprunt)' /\ horloge' \in Nat
      /\ (seqEmprunt \in Nat \ {0})'
    BY <1>0, <1>1, <1>4 DEF TypeOK
<1> QED
    BY <1>0, <1>1, <1>a, <1>5, <1>6, <1>7, FinInv

\* What FlushDates makes of a loan: another id is left alone; the edit form marks
\* the loan as typed, a return writes its date only.
LEMMA LigneEcrite ==
    ASSUME Inv, NEW w \in Workers, FlushDates(w), NEW e \in emprunts,
           NEW f, f = (IF e.id = requetes[w].id THEN EcritLigne(requetes[w], e) ELSE e)
    PROVE  /\ f \in Emprunt /\ f.id = e.id
           /\ Tronque(f.dateEmprunt) = f.dateEmprunt
           /\ \/ f = e
              \/ /\ requetes[w].op = "editer" /\ requetes[w].id = e.id
                 /\ e.id \in saisis'
              \/ /\ requetes[w].op = "rendre" /\ requetes[w].id = e.id
                 /\ f.dateEmprunt = e.dateEmprunt
                 /\ f.dateRetour = Tronque(requetes[w].recu)
                 /\ f.dateRetour \in Nat
<1> DEFINE r == requetes[w]
<1>0. TypeOK /\ EmpruntsOK /\ RequeteOK(r)
    BY InvEnParties
<1>1. e \in Emprunt /\ r \in Requete /\ Tronque(e.dateEmprunt) = e.dateEmprunt
    BY <1>0 DEF TypeOK, EmpruntsOK
<1>2. /\ r.op \in {"rendre", "editer"}
      /\ saisis' = IF r.op = "editer" /\ r.colonnes # {}
                   THEN saisis \cup {r.id} ELSE saisis
    BY DEF FlushDates
<1>3. "dateEmprunt" \in r.colonnes => r.dateEmprunt \in Nat
    BY <1>0 DEF RequeteOK
<1> DEFINE de == Ecrit(r, "dateEmprunt", r.dateEmprunt, e.dateEmprunt)
           dr == Ecrit(r, "dateRetour", r.dateRetour, e.dateRetour)
<1>b. de \in Nat /\ Tronque(de) = de
    BY <1>1, <1>3, ColonneEntiere DEF Ecrit, Emprunt
<1>c. dr \in Nat \cup {Nul}
    BY <1>1, ColonneEntiere DEF Ecrit, Emprunt, Requete
<1>d. EcritLigne(r, e) = [e EXCEPT !.dateEmprunt = de, !.dateRetour = dr]
    BY DEF EcritLigne
<1> HIDE DEF de, dr
<1>4. f \in Emprunt /\ f.id = e.id /\ Tronque(f.dateEmprunt) = f.dateEmprunt
    BY Zenon, <1>1, <1>b, <1>c, <1>d DEF Emprunt
<1>5. CASE e.id # r.id
    BY <1>4, <1>5
<1>6. CASE e.id = r.id /\ r.op = "rendre"
    <2>1. r.colonnes = {"dateRetour"} /\ r.dateRetour = r.recu /\ r.recu \in Nat
        BY <1>0, <1>1, <1>6 DEF RequeteOK, Requete
    <2>2. de = e.dateEmprunt /\ dr = Tronque(r.recu) /\ dr \in Nat
        BY <2>1, ColonneEntiere DEF Ecrit, de, dr
    <2>3. f.dateEmprunt = e.dateEmprunt /\ f.dateRetour = dr
        BY <1>1, <1>6, <1>d, <2>2 DEF Emprunt
    <2> QED
        BY <1>4, <1>6, <2>2, <2>3
<1>7. CASE e.id = r.id /\ r.op = "editer" /\ r.colonnes # {}
    BY <1>2, <1>4, <1>7
<1>8. CASE e.id = r.id /\ r.op = "editer" /\ r.colonnes = {}
    BY Zenon, <1>1, <1>4, <1>8 DEF EcritLigne, Ecrit, Emprunt
<1> QED
    BY <1>2, <1>5, <1>6, <1>7, <1>8

\* FlushDates: an UPDATE keeps the ids, and the other requests on the loan know
\* that it was written.
LEMMA FlushDatesInv ==
    ASSUME Inv, NEW w \in Workers, FlushDates(w) PROVE Inv'
<1> DEFINE r == requetes[w]
           g(e) == IF e.id = r.id THEN EcritLigne(r, e) ELSE e
<1>0. TypeOK /\ EmpruntsOK /\ \A v \in Workers : RequeteOK(requetes[v])
    BY InvEnParties
<1>1. /\ emprunts' = {g(e) : e \in emprunts} /\ seqEmprunt' = seqEmprunt
      /\ horloge' = horloge /\ FinEcrite(w)
      /\ saisis \subseteq saisis' /\ saisis' \subseteq Nat
    <2>1. r.id \in Nat
        BY <1>0 DEF TypeOK, Requete
    <2> QED
        BY Zenon, <1>0, <2>1 DEF FlushDates, TypeOK
<1>2. ASSUME NEW e \in emprunts
      PROVE  /\ g(e) \in Emprunt /\ g(e).id = e.id
             /\ Tronque(g(e).dateEmprunt) = g(e).dateEmprunt
             /\ \/ g(e) = e
                \/ r.op = "editer" /\ r.id = e.id /\ e.id \in saisis'
                \/ /\ r.op = "rendre" /\ r.id = e.id
                   /\ g(e).dateEmprunt = e.dateEmprunt
                   /\ g(e).dateRetour = Tronque(r.recu) /\ g(e).dateRetour \in Nat
    BY LigneEcrite
<1>3. r.op = "rendre" =>
        /\ Tronque(r.recu) <= horloge
        /\ \A e \in emprunts : e.id = r.id /\ e.id \notin saisis
                => e.dateEmprunt <= Tronque(r.recu)
    <2> SUFFICES ASSUME r.op = "rendre" PROVE
            /\ Tronque(r.recu) <= horloge
            /\ \A e \in emprunts : e.id = r.id /\ e.id \notin saisis
                    => e.dateEmprunt <= Tronque(r.recu)
        OBVIOUS
    <2>1. r.recu \in Nat /\ horloge \in Nat
        BY <1>0 DEF TypeOK, Requete
    <2>2. /\ r.recu <= horloge
          /\ \A e \in emprunts : e.id = r.id /\ e.id \notin saisis
                => e.dateEmprunt <= r.recu
        BY <1>0 DEF RequeteOK
    <2>3. \A e \in emprunts : e.dateEmprunt \in Nat
                               /\ Tronque(e.dateEmprunt) = e.dateEmprunt
        BY <1>0 DEF TypeOK, EmpruntsOK, Emprunt
    <2>4. Tronque(r.recu) \in Nat /\ Tronque(r.recu) <= horloge
        BY <2>1, <2>2, TronqueEntiere
    <2> QED
        BY <2>1, <2>2, <2>3, <2>4, TronqueCroissante
<1> HIDE DEF g
<1>4. EmpruntsOK'
    <2>1. Chronologie'
        BY <1>0, <1>1, <1>2, <1>3 DEF EmpruntsOK, Chronologie
    <2>2. (\A e, f \in emprunts : e.id = f.id => e = f)'
        BY <1>0, <1>1, <1>2 DEF EmpruntsOK
    <2>3. (\A e \in emprunts : e.id \in 1 .. seqEmprunt - 1)'
        BY <1>0, <1>1, <1>2 DEF EmpruntsOK
    <2>4. (\A e \in emprunts : Tronque(e.dateEmprunt) = e.dateEmprunt)'
        BY <1>1, <1>2 DEF Tronque
    <2> QED
        BY <2>1, <2>2, <2>3, <2>4 DEF EmpruntsOK
<1>5. ASSUME NEW v \in Workers \ {w} PROVE RequeteOK(requetes[v])'
    <2> DEFINE q == requetes[v]
    <2>1. /\ requetes'[v].op = q.op /\ requetes'[v].id = q.id
          /\ requetes'[v].dateEmprunt = q.dateEmprunt
          /\ requetes'[v].dateRetour = q.dateRetour
          /\ requetes'[v].colonnes = q.colonnes /\ requetes'[v].main = q.main
          /\ requetes'[v].recu = q.recu
          /\ requetes'[v].seul => q.seul /\ (Fin(w) \/ q.id # r.id)
        BY <1>0, <1>1, AutresRequetes
    <2>2. RequeteOK(q)
        BY <1>0
    <2>3. ASSUME q.op = "rendre", NEW f \in emprunts', f.id = q.id
          PROVE  /\ f.id \notin saisis' => f.dateEmprunt <= q.dateRetour
                 /\ requetes'[v].seul => f.dateRetour = Nul
        <3>1. PICK e \in emprunts : f = g(e)
            BY <1>1
        <3>2. e.id = q.id /\ f.id = e.id
            BY <1>2, <2>3, <3>1
        <3>3. f.id \notin saisis' => f.dateEmprunt = e.dateEmprunt
            BY <1>2, <3>1, <3>2
        <3>4. f.id \notin saisis' => e.dateEmprunt <= q.dateRetour
            BY Zenon, <1>1, <2>2, <2>3, <3>2 DEF RequeteOK
        <3>5. ASSUME requetes'[v].seul PROVE f.dateRetour = Nul
            <4>1. requetes'[v].seul => q.id # r.id
                <5>1. requetes'[v] = [q EXCEPT !.seul = q.seul /\ q.id # r.id]
                    BY <1>1 DEF FinEcrite
                <5>2. q \in Requete
                    BY <1>0 DEF TypeOK
                <5> QED
                    BY Zenon, <5>1, <5>2 DEF Requete
            <4>2. f = e
                BY <1>2, <3>1, <3>2, <3>5, <4>1
            <4> QED
                BY <2>1, <2>2, <2>3, <3>2, <3>5, <4>2 DEF RequeteOK
        <3> QED
            BY <3>3, <3>4, <3>5
    <2> HIDE DEF q
    <2> QED
        BY <1>1, <2>1, <2>2, <2>3 DEF RequeteOK
<1>6. (emprunts \subseteq Emprunt)'
    BY <1>1, <1>2
<1> QED
    BY <1>0, <1>1, <1>4, <1>5, <1>6, FinInv DEF TypeOK

\* Supprimer: a loan less.
LEMMA SupprimerInv == ASSUME Inv, Supprimer PROVE Inv'
<1>1. PICK e \in emprunts : emprunts' = emprunts \ {e}
                            /\ UNCHANGED <<horloge, seqEmprunt, requetes, saisis>>
    BY DEF Supprimer
<1>2. TypeOK'
    BY <1>1 DEF Inv, TypeOK
<1> QED
    BY <1>1, <1>2 DEF Inv, InvChronologie, Chronologie

\* Echec: a worker goes back to rest.
LEMMA EchecInv == ASSUME Inv, NEW w \in Workers, Echec(w) PROVE Inv'
<1>0. TypeOK /\ EmpruntsOK /\ \A v \in Workers : RequeteOK(requetes[v])
    BY InvEnParties
<1>1. Fin(w) /\ UNCHANGED <<horloge, emprunts, seqEmprunt, saisis>>
    BY DEF Echec
<1>2. EmpruntsOK'
    BY <1>0, <1>1 DEF EmpruntsOK, Chronologie
<1>3. ASSUME NEW v \in Workers \ {w} PROVE RequeteOK(requetes[v])'
    <2>1. requetes'[v] = requetes[v]
        BY <1>0, <1>1 DEF Fin, TypeOK
    <2> QED
        BY <1>0, <1>1, <2>1 DEF RequeteOK
<1> QED
    BY <1>0, <1>1, <1>2, <1>3, FinInv DEF TypeOK

\* Tic: what was in the past stays there.
LEMMA TicInv == ASSUME Inv, Tic PROVE Inv'
<1>0. TypeOK /\ EmpruntsOK /\ \A v \in Workers : RequeteOK(requetes[v])
    BY InvEnParties
<1>1. horloge' = horloge + 1 /\ UNCHANGED <<emprunts, seqEmprunt, requetes, saisis>>
    BY DEF Tic
<1>2. TypeOK'
    BY <1>0, <1>1 DEF TypeOK
<1>3. EmpruntsOK'
    BY <1>0, <1>1 DEF EmpruntsOK, Chronologie, TypeOK, Emprunt
<1>4. ASSUME NEW v \in Workers PROVE RequeteOK(requetes[v])'
    <2>1. requetes[v] \in Requete /\ RequeteOK(requetes[v])
        BY <1>0 DEF TypeOK
    <2> QED
        BY <1>0, <1>1, <2>1 DEF RequeteOK, TypeOK, Requete
<1> QED
    BY <1>2, <1>3, <1>4 DEF Inv, InvChronologie, EmpruntsOK, RequeteOK

\* Every step keeps the invariant.
LEMMA NextInv == Inv /\ [Next]_vars => Inv'
<1> SUFFICES ASSUME Inv, [Next]_vars PROVE Inv'
    OBVIOUS
<1>1. CASE Tic
    BY <1>1, TicInv
<1>2. CASE Supprimer
    BY <1>2, SupprimerInv
<1>3. ASSUME NEW w \in Workers,
             \/ Emprunter(w) \/ RendreLivre(w) \/ EditerEmprunt(w)
             \/ FlushNouveau(w) \/ FlushDates(w) \/ Echec(w)
      PROVE  Inv'
    BY <1>3, EmprunterInv, RendreLivreInv, EditerEmpruntInv, FlushNouveauInv,
       FlushDatesInv, EchecInv
<1>4. CASE UNCHANGED vars
    BY <1>4 DEF vars, Inv, TypeOK, InvChronologie, Chronologie
<1> QED
    BY <1>1, <1>2, <1>3, <1>4 DEF Next

\* The types and the inductive invariant hold in every reachable state, however
\* many requests run at once (every handler that writes a date of a loan).
THEOREM InvariantDesDates == Spec => []Inv
BY InitInv, NextInv, PTL DEF Spec

\* A loan whose dates nobody typed begins and ends in the past and ends after it
\* began (persistEntity, transformerEnEmprunt, rendreLivre).
THEOREM ChronologieTenue == Spec => []Chronologie
<1>1. Inv => Chronologie
    BY DEF Inv, InvChronologie
<1> QED
    BY <1>1, InvariantDesDates, PTL

-----------------------------------------------------------------------------
(* A loan once late stays late. *)

\* What a step makes of a loan: nothing, what the edit form asked for, or the
\* return that was on its way.
LEMMA DevenirDuPret ==
    ASSUME Inv, [Next]_vars,
           NEW e \in emprunts, NEW f \in emprunts', f.id = e.id
    PROVE  /\ horloge' \in Nat /\ horloge' >= horloge
           /\ \/ f = e
              \/ \E w \in Workers :
                  /\ requetes[w].op = "editer" /\ requetes[w].id = e.id
                  /\ e.id \in saisis'
              \/ \E w \in Workers :
                  /\ requetes[w].op = "rendre" /\ requetes[w].id = e.id
                  /\ f.dateEmprunt = e.dateEmprunt
                  /\ f.dateRetour = Tronque(requetes[w].recu)
                  /\ f.dateRetour \in Nat
<1>0. TypeOK /\ EmpruntsOK
    BY InvEnParties
<1>1. CASE emprunts' \subseteq emprunts
           /\ (horloge' = horloge \/ horloge' = horloge + 1)
    BY <1>0, <1>1 DEF EmpruntsOK, TypeOK
<1>2. ASSUME NEW w \in Workers, FlushNouveau(w)
      PROVE  horloge' = horloge /\ f = e
    <2>1. horloge' = horloge /\ (f \in emprunts \/ f.id = seqEmprunt)
        BY <1>2 DEF FlushNouveau
    <2> QED
        BY <2>1, <1>0 DEF EmpruntsOK, TypeOK
<1>3. ASSUME NEW w \in Workers, FlushDates(w)
      PROVE  /\ horloge' = horloge
             /\ \/ f = e
                \/ /\ requetes[w].op = "editer" /\ requetes[w].id = e.id
                   /\ e.id \in saisis'
                \/ /\ requetes[w].op = "rendre" /\ requetes[w].id = e.id
                   /\ f.dateEmprunt = e.dateEmprunt
                   /\ f.dateRetour = Tronque(requetes[w].recu)
                   /\ f.dateRetour \in Nat
    <2>1. PICK x \in emprunts :
            f = IF x.id = requetes[w].id THEN EcritLigne(requetes[w], x) ELSE x
        BY <1>3 DEF FlushDates
    <2>2. f.id = x.id
        BY <1>3, <2>1, LigneEcrite
    <2>3. x = e
        BY Zenon, <1>0, <2>2 DEF EmpruntsOK
    <2>4. horloge' = horloge
        BY <1>3 DEF FlushDates
    <2> QED
        BY <1>3, <2>1, <2>3, <2>4, LigneEcrite
<1>4. ASSUME NEW w \in Workers,
             \/ Emprunter(w) \/ RendreLivre(w) \/ EditerEmprunt(w) \/ Echec(w)
      PROVE  emprunts' = emprunts /\ horloge' = horloge
    BY Zenon, <1>4 DEF Emprunter, RendreLivre, EditerEmprunt, Echec, Recevoir
<1>5. CASE Tic \/ Supprimer \/ UNCHANGED vars
    BY <1>5, <1>1 DEF Tic, Supprimer, vars
<1> QED
    BY <1>0, <1>1, <1>2, <1>3, <1>4, <1>5 DEF Next, TypeOK

\* The sheet says "En retard" of the loans not yet returned that the list marks as
\* late: the limit is computed twice, and the same.
LEMMA FicheEtListe ==
    ASSUME NEW e, NEW t
    PROVE  FicheEnRetard(e, t) <=> e.dateRetour = Nul /\ ListeEnRetard(e, t)
BY DEF FicheEnRetard, StatutFiche, LimiteFiche, ListeEnRetard, IsEnRetard, Limite

\* One step.
LEMMA EtapeRetard == Inv /\ [Next]_vars => [ResteEnRetard]_vars
<1> SUFFICES ASSUME Inv, [Next]_vars, NEW e \in emprunts, NEW f \in emprunts',
                    f.id = e.id, e.id \notin saisis',
                    ListeEnRetard(e, horloge) \/ FicheEnRetard(e, horloge),
                    \A w \in Workers :
                        requetes[w].op = "rendre" /\ requetes[w].id = e.id
                            => Tronque(requetes[w].recu) > Limite(e)
             PROVE  /\ ListeEnRetard(f, horloge')
                    /\ f.dateRetour = Nul => FicheEnRetard(f, horloge')
    BY DEF ResteEnRetard
<1>1. e \in Emprunt /\ horloge \in Nat /\ Limite(e) \in Nat
    BY RetardsHypotheses DEF Inv, TypeOK, Emprunt, Limite
<1>2. horloge' \in Nat /\ Tronque(horloge) <= Tronque(horloge')
      /\ Tronque(horloge) \in Nat /\ Tronque(horloge') \in Nat
    BY <1>1, DevenirDuPret, TronqueCroissante, TronqueEntiere
<1>3. IsEnRetard(e, Tronque(horloge))
    BY FicheEtListe DEF ListeEnRetard
<1>4. IsEnRetard(f, Tronque(horloge'))
    <2>1. CASE f = e
        BY <1>1, <1>2, <1>3, <2>1 DEF IsEnRetard, Emprunt
    <2>2. CASE f # e
        <3>1. f.dateEmprunt = e.dateEmprunt /\ f.dateRetour \in Nat
              /\ f.dateRetour > Limite(e)
            BY <2>2, DevenirDuPret
        <3>2. Limite(f) = Limite(e) /\ f.dateRetour # Nul
            BY <3>1, RetardsHypotheses DEF Limite
        <3> QED
            BY <3>1, <3>2 DEF IsEnRetard
    <2> QED
        BY <2>1, <2>2
<1> QED
    BY <1>4, FicheEtListe DEF ListeEnRetard

\* Once the list or the printed sheet says that a loan whose dates nobody typed is
\* late, by a full second at least, the list says so for ever, and the sheet until
\* the book is back, unless a return asked for within the limit was on its way
\* (getIsEnRetard, rendreLivre, the status line of the sheet).
THEOREM RetardResteRetard == Spec => RetardPermanent
BY InvariantDesDates, EtapeRetard, PTL DEF Spec, RetardPermanent

-----------------------------------------------------------------------------
(* A return is recorded once. *)

\* One step: a return that nobody overtook finds the loan not yet returned.
LEMMA EtapeRetour == Inv /\ [Next]_vars => [RetourStable]_vars
<1> SUFFICES ASSUME Inv, [Next]_vars, NEW e \in emprunts, NEW f \in emprunts',
                    f.id = e.id, e.dateRetour # Nul, f.dateRetour # e.dateRetour
             PROVE  \E w \in Workers :
                        /\ requetes[w].id = e.id
                        /\ \/ requetes[w].op = "editer"
                           \/ requetes[w].op = "rendre" /\ ~requetes[w].seul
    BY DEF RetourStable
<1>1. \A w \in Workers : requetes[w].op = "rendre" /\ requetes[w].id = e.id
                            => ~requetes[w].seul
    BY DEF Inv, InvChronologie
<1> QED
    BY <1>1, DevenirDuPret

\* "Ce livre a déjà été retourné.": a recorded return is changed only by the edit
\* form, or by a click whose test was made before somebody else wrote the loan
\* (rendreLivre).
THEOREM RetourEnregistreUneFois == Spec => RetourUneFois
BY InvariantDesDates, EtapeRetour, PTL DEF Spec, RetourUneFois
=============================================================================

--------------------------- MODULE Profil_proofs ---------------------------
(***************************************************************************)
(* Proofs about Profil, for any reservations the member has, any loans and *)
(* values of the profile form, and any number of refreshes and saves: Inv  *)
(* is inductive; the page then shows what the tables hold, a cancelled     *)
(* reservation is not listed again, and the message of a save is true.     *)
(***************************************************************************)
EXTENDS Profil, FiniteSetTheorems, TLAPS

\* The requests of a refresh, of a cancellation and of a save.
JeuDe(m) == [n : 1 .. m, emprunts : (SUBSET Mes(Prets)) \cup {Nul},
             reservations : (SUBSET Mes(Initiales)) \cup {Nul},
             user : Coordonnees \cup {Nul}]
JeuT == JeuDe(remplissages)
AnnulationT == [resa : Mes(Initiales), etat : {"partie", "faite", "404"}]
SauvegardeT == [n : 1 .. nbSauvegardes, valeur : Coordonnees,
                lu : Coordonnees \cup {Nul}, etat : {"partie", "lue", "faite"}]

\* What Inv says of a member who waits for the answers.
Attente == UneChoseALaFois /\ ProfilSuivi /\ SansAnnulees

\* TypeOK with its three kinds of requests named.
LEMMA TypeEnParties ==
    TypeOK <=>
        /\ emprunts \subseteq Prets /\ reservations \subseteq Initiales
        /\ coord \in Coordonnees
        /\ isLoading \in BOOLEAN /\ succes \in BOOLEAN
        /\ affEmprunts \in SUBSET Mes(Prets)
        /\ affReservations \in SUBSET Mes(Initiales)
        /\ user \in Coordonnees \cup {Nul} /\ champ \in Coordonnees \cup {Nul}
        /\ user # Nul \/ sauvegardes # {} => champ # Nul
        /\ jeux \subseteq JeuT /\ annulations \subseteq AnnulationT
        /\ IsFiniteSet(annulations)
        /\ remplissages \in Nat
        /\ remplissages + Cardinality(annulations) <= MaxJeux
        /\ sauvegardes \subseteq SauvegardeT
        /\ nbSauvegardes \in 0 .. MaxSauvegardes
        /\ ecarts \subseteq Ecart
BY DEF TypeOK, JeuT, JeuDe, AnnulationT, SauvegardeT

\* A table that never grows only loses reservations of the member, and a set of
\* loans of the member is a set of loans.
LEMMA MesMonotone ==
    ASSUME NEW S, NEW T, S \subseteq T PROVE Mes(S) \subseteq Mes(T)
BY DEF Mes

\* An answer is a set or a value of the form, never the mark of no answer.
LEMMA ReponseVraie ==
    ASSUME TypeOK
    PROVE  /\ Mes(emprunts) \in SUBSET Mes(Prets) /\ Mes(emprunts) # Nul
           /\ Mes(reservations) \in SUBSET Mes(Initiales) /\ Mes(reservations) # Nul
           /\ coord \in Coordonnees /\ coord # Nul
BY ProfilHypotheses DEF TypeOK, Mes

\* A refresh that begins has no answer yet.
LEMMA JeuNeuf ==
    ASSUME NEW m, NEW n \in 1 .. m
    PROVE  /\ Jeu(n).emprunts = Nul /\ Jeu(n).reservations = Nul
           /\ Jeu(n).user = Nul /\ Jeu(n) \in JeuDe(m)
<1> DEFINE E == (SUBSET Mes(Prets)) \cup {Nul}
           R == (SUBSET Mes(Initiales)) \cup {Nul}
           C == Coordonnees \cup {Nul}
<1>1. Nul \in E /\ Nul \in R /\ Nul \in C
    OBVIOUS
<1> HIDE DEF E, R, C
<1>2. Jeu(n) \in [n : 1 .. m, emprunts : E, reservations : R, user : C]
    BY <1>1 DEF Jeu
<1>3. Jeu(n) \in JeuDe(m)
    BY <1>2 DEF JeuDe, E, R, C
<1> QED
    BY <1>3 DEF Jeu

\* The invariant holds when the page opens.
LEMMA InitInv == Init => Inv
<1> SUFFICES ASSUME Init PROVE Inv
    OBVIOUS
<1>1. Cardinality(annulations) = 0 /\ IsFiniteSet(annulations)
    BY FS_EmptySet DEF Init
<1>2. jeux \subseteq JeuT
    <2>1. 1 \in 1 .. remplissages
        BY DEF Init
    <2> QED
        BY <2>1, JeuNeuf DEF Init, JeuT
<1>3. TypeOK
    <2>1. /\ remplissages \in Nat /\ nbSauvegardes \in 0 .. MaxSauvegardes
          /\ remplissages + Cardinality(annulations) <= MaxJeux
        BY <1>1, ProfilHypotheses DEF Init
    <2> QED
        BY Zenon, <1>1, <1>2, <2>1, TypeEnParties DEF Init
<1>4. AnnuleesParties /\ Attente
    <2>1. \A j \in jeux : j.user = Nul /\ j.reservations = Nul
        BY DEF Init, Jeu
    <2>2. isLoading <=> jeux # {}
        BY DEF Init
    <2> QED
        BY <2>1, <2>2 DEF Init, AnnuleesParties, Attente, UneChoseALaFois,
           ProfilSuivi, SansAnnulees
<1>5. PageSuivie
    <2>1. \A j \in jeux : j.emprunts = Nul /\ j.reservations = Nul
        BY DEF Init, Jeu
    <2> QED
        BY <2>1 DEF Init, PageSuivie
<1> QED
    BY <1>3, <1>4, <1>5 DEF Inv, Attente

-----------------------------------------------------------------------------
(* One lemma per step. *)

\* Lire: one of the three answers comes, and is what the table holds.
LEMMA LireInv == ASSUME Inv, NEW j \in jeux, Lire(j) PROVE Inv'
<1>1. TypeOK /\ j \in JeuT /\ jeux \subseteq JeuT
    BY TypeEnParties DEF Inv
<1>2. PICK k \in JeuT :
        /\ jeux' = (jeux \ {j}) \cup {k}
        /\ k.emprunts = j.emprunts \/ k.emprunts = Mes(emprunts)
        /\ k.reservations = j.reservations \/ k.reservations = Mes(reservations)
        /\ k.user = j.user \/ k.user = coord
    <2> DEFINE E == (SUBSET Mes(Prets)) \cup {Nul}
               R == (SUBSET Mes(Initiales)) \cup {Nul}
               C == Coordonnees \cup {Nul}
    <2>1. Mes(emprunts) \in E /\ Mes(reservations) \in R /\ coord \in C
        BY <1>1, ReponseVraie
    <2>2. JeuT = [n : 1 .. remplissages, emprunts : E, reservations : R, user : C]
        BY DEF JeuT, JeuDe
    <2> HIDE DEF E, R, C
    <2>3. CASE jeux' = (jeux \ {j}) \cup {[j EXCEPT !.emprunts = Mes(emprunts)]}
        BY Zenon, <1>1, <2>1, <2>2, <2>3
    <2>4. CASE jeux' = (jeux \ {j}) \cup
                    {[j EXCEPT !.reservations = Mes(reservations)]}
        <3> DEFINE k == [j EXCEPT !.reservations = Mes(reservations)]
        <3>1. k \in JeuT /\ k.reservations = Mes(reservations)
            BY <1>1, <2>1, <2>2
        <3>2. k.emprunts = j.emprunts /\ k.user = j.user
            BY <1>1, <2>2
        <3> QED
            BY Zenon, <2>4, <3>1, <3>2
    <2>5. CASE jeux' = (jeux \ {j}) \cup {[j EXCEPT !.user = coord]}
        <3> DEFINE k == [j EXCEPT !.user = coord]
        <3>1. k \in JeuT /\ k.user = coord
            BY <1>1, <2>1, <2>2
        <3>2. k.emprunts = j.emprunts /\ k.reservations = j.reservations
            BY <1>1, <2>2
        <3> QED
            BY Zenon, <2>5, <3>1, <3>2
    <2> QED
        BY <2>3, <2>4, <2>5 DEF Lire
<1>3. UNCHANGED <<emprunts, reservations, coord, isLoading, affEmprunts,
                  affReservations, user, champ, succes, remplissages, annulations,
                  annulees, sauvegardes, nbSauvegardes, ecarts>>
    BY DEF Lire, bibliotheque, ecran
<1>4. jeux' # {}
    BY <1>2
<1>5. TypeOK'
    BY <1>1, <1>2, <1>3, TypeEnParties DEF TypeOK, JeuT, JeuDe
<1>6. AnnuleesParties'
    BY <1>3 DEF Inv, AnnuleesParties
<1>7. ASSUME "hate" \notin ecarts PROVE Attente'
    <2>1. Attente /\ AnnuleesParties
        BY <1>7 DEF Inv, Attente
    <2>2. jeux = {j} /\ jeux' = {k}
        BY <2>1, <1>2 DEF Attente, UneChoseALaFois
    <2> QED
        BY <2>1, <2>2, <1>2, <1>3, <1>4 DEF Attente, UneChoseALaFois, ProfilSuivi,
           SansAnnulees, AnnuleesParties, Mes
<1>8. ASSUME ecarts \subseteq {"compte"} PROVE PageSuivie'
    BY <1>8, <1>2, <1>3, <1>4 DEF Inv, PageSuivie, Mes
<1> QED
    BY <1>3, <1>5, <1>6, <1>7, <1>8 DEF Inv, Attente

\* Remplir: the page shows what the refresh has read.
LEMMA RemplirInv == ASSUME Inv, NEW j \in jeux, Remplir(j) PROVE Inv'
<1>1. TypeOK /\ j \in JeuT /\ jeux \subseteq JeuT
    BY TypeEnParties DEF Inv
<1>2. /\ jeux' = jeux \ {j} /\ affEmprunts' = j.emprunts
      /\ affReservations' = j.reservations
      /\ user' = j.user /\ champ' = j.user /\ isLoading' = FALSE
      /\ j.emprunts # Nul /\ j.reservations # Nul /\ j.user # Nul
    BY DEF Remplir, Complet
<1>3. UNCHANGED <<emprunts, reservations, coord, succes, remplissages, annulations,
                  annulees, sauvegardes, nbSauvegardes, ecarts>>
    BY DEF Remplir, bibliotheque
<1>4. TypeOK'
    <2>1. /\ j.emprunts \in SUBSET Mes(Prets) /\ j.user \in Coordonnees
          /\ j.reservations \in SUBSET Mes(Initiales)
        BY <1>1, <1>2 DEF JeuT, JeuDe
    <2> QED
        BY Zenon, <1>1, <1>2, <1>3, <2>1 DEF TypeOK
<1>5. AnnuleesParties'
    BY <1>3 DEF Inv, AnnuleesParties
<1>6. ASSUME "hate" \notin ecarts PROVE Attente'
    <2>1. Attente
        BY <1>6 DEF Inv, Attente
    <2>2. jeux' = {}
        BY <2>1, <1>2 DEF Attente, UneChoseALaFois
    <2> QED
        BY <2>1, <2>2, <1>2, <1>3 DEF Attente, UneChoseALaFois, ProfilSuivi,
           SansAnnulees
<1>7. ASSUME ecarts \subseteq {"compte"} PROVE PageSuivie'
    <2>1. "compte" \notin ecarts => j.user = coord
        BY <1>7, <1>2 DEF Inv, ProfilSuivi
    <2> QED
        BY <2>1, <1>7, <1>2, <1>3 DEF Inv, PageSuivie, Mes
<1> QED
    BY <1>3, <1>4, <1>5, <1>6, <1>7 DEF Inv, Attente

\* RemplirErreur: the page keeps what it showed.
LEMMA RemplirErreurInv == ASSUME Inv, NEW j \in jeux, RemplirErreur(j) PROVE Inv'
<1>1. TypeOK
    BY DEF Inv
<1>2. jeux' = jeux \ {j} /\ isLoading' = FALSE /\ ecarts' = ecarts \cup {"erreur"}
    BY DEF RemplirErreur, FinErreur
<1>3. UNCHANGED <<emprunts, reservations, coord, affEmprunts, affReservations, user,
                  champ, succes, remplissages, annulations, annulees, sauvegardes,
                  nbSauvegardes>>
    BY DEF RemplirErreur, bibliotheque
<1>4. TypeOK'
    BY Zenon, <1>1, <1>2, <1>3 DEF TypeOK, Ecart
<1>5. AnnuleesParties'
    BY <1>3 DEF Inv, AnnuleesParties
<1>6. ASSUME "hate" \notin ecarts' PROVE Attente'
    <2>1. Attente
        BY <1>6, <1>2 DEF Inv, Attente
    <2>2. jeux' = {}
        BY <2>1, <1>2 DEF Attente, UneChoseALaFois
    <2> QED
        BY <2>1, <2>2, <1>2, <1>3 DEF Attente, UneChoseALaFois, ProfilSuivi,
           SansAnnulees
<1> QED
    BY <1>2, <1>4, <1>5, <1>6 DEF Inv, Attente

-----------------------------------------------------------------------------
(* Cancellations. *)

\* A request that ends is one request less.
LEMMA Terminer ==
    ASSUME NEW S, IsFiniteSet(S), NEW a \in S
    PROVE  /\ IsFiniteSet(S \ {a}) /\ Cardinality(S) \in Nat
           /\ Cardinality(S \ {a}) \in Nat
           /\ Cardinality(S \ {a}) = Cardinality(S) - 1
BY FS_RemoveElement, FS_CardinalityType

\* A request that changes state leaves no more requests than before.
LEMMA Remplacer ==
    ASSUME NEW S, IsFiniteSet(S), NEW a \in S, NEW b
    PROVE  /\ IsFiniteSet((S \ {a}) \cup {b})
           /\ Cardinality((S \ {a}) \cup {b}) <= Cardinality(S)
           /\ Cardinality(S) \in Nat
<1>1. /\ IsFiniteSet((S \ {a}) \cup {b})
      /\ \/ Cardinality((S \ {a}) \cup {b}) = Cardinality(S \ {a})
         \/ Cardinality((S \ {a}) \cup {b}) = Cardinality(S \ {a}) + 1
    BY Terminer, FS_AddElement
<1> QED
    BY <1>1, Terminer

\* Nothing is under way when a member who has waited acts.
LEMMA AgirCalme ==
    /\ PeutAgir => ~isLoading
    /\ Hate \subseteq {"hate"} /\ ("hate" \notin Hate => Calme)
BY DEF PeutAgir, Hate

\* OnAnnuler: one more DELETE is sent.
LEMMA OnAnnulerInv ==
    ASSUME Inv, NEW r \in affReservations, OnAnnuler(r) PROVE Inv'
<1> DEFINE d == [resa |-> r, etat |-> "partie"]
<1>1. TypeOK /\ r \in Mes(Initiales)
    BY DEF Inv, TypeOK
<1>2. annulations' = annulations \cup {d} /\ PeutAgir
      /\ remplissages + Cardinality(annulations) < MaxJeux
      /\ ecarts' = ecarts \cup Hate
    BY DEF OnAnnuler
<1>3. UNCHANGED <<emprunts, reservations, coord, isLoading, affEmprunts,
                  affReservations, user, champ, succes, jeux, remplissages, annulees,
                  sauvegardes, nbSauvegardes>>
    BY DEF OnAnnuler, bibliotheque, ecran
<1>4. d \in AnnulationT /\ d.etat # "faite"
    BY <1>1 DEF AnnulationT
<1> HIDE DEF d
<1>5. /\ IsFiniteSet(annulations') /\ remplissages \in Nat
      /\ remplissages + Cardinality(annulations') <= MaxJeux
    <2>1. /\ IsFiniteSet(annulations') /\ Cardinality(annulations) \in Nat
          /\ \/ Cardinality(annulations') = Cardinality(annulations)
             \/ Cardinality(annulations') = Cardinality(annulations) + 1
        BY <1>1, <1>2, FS_AddElement, FS_CardinalityType DEF TypeOK
    <2> QED
        BY <1>1, <1>2, <2>1, ProfilHypotheses DEF TypeOK
<1>6. TypeOK'
    <2>1. ecarts' \subseteq Ecart
        BY Zenon, <1>1, <1>2, AgirCalme DEF TypeOK, Ecart
    <2>2. annulations' \subseteq AnnulationT
        BY <1>1, <1>2, <1>4, TypeEnParties
    <2> QED
        BY <1>1, <1>3, <1>5, <2>1, <2>2 DEF TypeOK, AnnulationT
<1>7. AnnuleesParties'
    BY <1>2, <1>3, <1>4 DEF Inv, AnnuleesParties
<1>8. ASSUME "hate" \notin ecarts' PROVE Attente'
    <2>1. Attente /\ Calme /\ ecarts' = ecarts
        BY <1>8, <1>2, AgirCalme DEF Inv, Attente
    <2>2. annulations' = {d}
        BY <2>1, <1>2 DEF Calme
    <2> QED
        BY <2>1, <2>2, <1>3 DEF Attente, UneChoseALaFois, ProfilSuivi, SansAnnulees,
           Calme
<1>9. ASSUME ecarts' \subseteq {"compte"} PROVE PageSuivie'
    <2>1. PageSuivie /\ Calme
        BY <1>9, <1>2, AgirCalme DEF Inv
    <2> QED
        BY <2>1, <1>2, <1>3 DEF PageSuivie, Mes, Calme
<1> QED
    BY <1>6, <1>7, <1>8, <1>9 DEF Inv, Attente

\* Delete: the reservation leaves the table, or had left it.
LEMMA DeleteInv == ASSUME Inv, NEW a \in annulations, Delete(a) PROVE Inv'
<1>1. TypeOK /\ a \in AnnulationT /\ annulations \subseteq AnnulationT
    BY TypeEnParties DEF Inv
<1>2. PICK b \in AnnulationT :
        /\ annulations' = (annulations \ {a}) \cup {b} /\ b.resa = a.resa
        /\ \/ b.etat = "faite" /\ reservations' = reservations \ {a.resa}
           \/ b.etat = "404" /\ reservations' = reservations
    <2>1. CASE annulations' = (annulations \ {a}) \cup {[a EXCEPT !.etat = "faite"]}
               /\ reservations' = reservations \ {a.resa}
        <3> DEFINE b == [a EXCEPT !.etat = "faite"]
        <3>1. b \in AnnulationT /\ b.resa = a.resa /\ b.etat = "faite"
            BY <1>1 DEF AnnulationT
        <3> QED
            BY Zenon, <2>1, <3>1
    <2>2. CASE annulations' = (annulations \ {a}) \cup {[a EXCEPT !.etat = "404"]}
               /\ reservations' = reservations
        <3> DEFINE b == [a EXCEPT !.etat = "404"]
        <3>1. b \in AnnulationT /\ b.resa = a.resa /\ b.etat = "404"
            BY <1>1 DEF AnnulationT
        <3> QED
            BY Zenon, <2>2, <3>1
    <2> QED
        BY <2>1, <2>2 DEF Delete, B!Annuler, bibliotheque
<1>3. UNCHANGED <<emprunts, coord, isLoading, affEmprunts, affReservations, user,
                  champ, succes, jeux, remplissages, annulees, sauvegardes,
                  nbSauvegardes, ecarts>>
    BY DEF Delete, B!Annuler, bibliotheque, ecran
<1>4. /\ IsFiniteSet(annulations') /\ remplissages \in Nat
      /\ remplissages + Cardinality(annulations') <= MaxJeux
    <2>1. /\ IsFiniteSet(annulations')
          /\ Cardinality(annulations') <= Cardinality(annulations)
          /\ Cardinality(annulations) \in Nat /\ Cardinality(annulations') \in Nat
        BY Zenon, <1>1, <1>2, Remplacer, FS_CardinalityType DEF TypeOK
    <2> QED
        BY <1>1, <2>1, ProfilHypotheses DEF TypeOK
<1>5. TypeOK'
    <2>1. annulations' \subseteq AnnulationT /\ reservations' \subseteq Initiales
        BY <1>1, <1>2 DEF TypeOK
    <2> QED
        BY <1>1, <1>3, <1>4, <2>1 DEF TypeOK, AnnulationT
<1>6. AnnuleesParties'
    BY <1>2, <1>3 DEF Inv, AnnuleesParties
<1>7. ASSUME "hate" \notin ecarts PROVE Attente'
    <2>1. Attente
        BY <1>7 DEF Inv, Attente
    <2>2. annulations' = {b} /\ jeux = {} /\ sauvegardes = {}
        BY <2>1, <1>2 DEF Attente, UneChoseALaFois
    <2> QED
        BY <2>1, <2>2, <1>3 DEF Attente, UneChoseALaFois, ProfilSuivi, SansAnnulees
<1>8. ASSUME ecarts \subseteq {"compte"} PROVE PageSuivie'
    <2>1. PageSuivie /\ Attente
        BY <1>8 DEF Inv, Attente
    <2>2. jeux = {} /\ sauvegardes = {} /\ annulations = {a} /\ a.etat = "partie"
        BY <2>1 DEF Attente, UneChoseALaFois, Delete
    <2>3. affReservations' = Mes(reservations)' \/ \E c \in annulations' : c.etat = "faite"
        BY <2>1, <2>2, <1>2, <1>3 DEF PageSuivie, Mes
    <2> QED
        BY <2>1, <2>2, <2>3, <1>3 DEF PageSuivie, Mes
<1> QED
    BY <1>3, <1>5, <1>6, <1>7, <1>8 DEF Inv, Attente

\* Annulee: the answer starts a refresh, that finds the reservation gone.
LEMMA AnnuleeInv == ASSUME Inv, NEW a \in annulations, Annulee(a) PROVE Inv'
<1> DEFINE j == Jeu(remplissages + 1)
<1>1. TypeOK /\ annulations \subseteq AnnulationT
    BY TypeEnParties DEF Inv
<1>2. /\ a.etat = "faite" /\ annulations' = annulations \ {a}
      /\ annulees' = annulees \cup {a.resa} /\ isLoading' = TRUE
      /\ jeux' = jeux \cup {j} /\ remplissages' = remplissages + 1
    BY DEF Annulee, Rafraichir
<1>3. UNCHANGED <<emprunts, reservations, coord, affEmprunts, affReservations, user,
                  champ, succes, sauvegardes, nbSauvegardes, ecarts>>
    BY DEF Annulee, bibliotheque
<1>4. /\ j \in JeuT' /\ j.emprunts = Nul /\ j.reservations = Nul /\ j.user = Nul
    <2>1. remplissages + 1 \in 1 .. remplissages'
        BY <1>1, <1>2 DEF TypeOK
    <2> QED
        BY <2>1, JeuNeuf DEF JeuT
<1> HIDE DEF j
<1>5. /\ IsFiniteSet(annulations') /\ remplissages' \in Nat
      /\ remplissages' + Cardinality(annulations') <= MaxJeux
    <2>1. /\ IsFiniteSet(annulations') /\ Cardinality(annulations) \in Nat
          /\ Cardinality(annulations') = Cardinality(annulations) - 1
        BY <1>1, <1>2, Terminer DEF TypeOK
    <2> QED
        BY <1>1, <1>2, <2>1, ProfilHypotheses DEF TypeOK
<1>6. TypeOK'
    <2>1. jeux' \subseteq JeuT'
        BY <1>1, <1>2, <1>4 DEF TypeOK, JeuT, JeuDe
    <2> QED
        BY <1>1, <1>2, <1>3, <1>5, <2>1 DEF TypeOK, JeuT, JeuDe
<1>7. AnnuleesParties'
    BY <1>2, <1>3 DEF Inv, AnnuleesParties
<1>8. ASSUME "hate" \notin ecarts PROVE Attente'
    <2>1. Attente
        BY <1>8 DEF Inv, Attente
    <2>2. annulations' = {} /\ jeux' = {j} /\ sauvegardes = {}
        BY <2>1, <1>2 DEF Attente, UneChoseALaFois
    <2> QED
        BY <2>1, <2>2, <1>2, <1>3, <1>4 DEF Attente, UneChoseALaFois, ProfilSuivi,
           SansAnnulees
<1>9. ASSUME ecarts \subseteq {"compte"} PROVE PageSuivie'
    <2>1. jeux' = {j}
        BY <1>9, <1>2 DEF Inv, UneChoseALaFois
    <2> QED
        BY <2>1, <1>4 DEF PageSuivie
<1> QED
    BY <1>3, <1>6, <1>7, <1>8, <1>9 DEF Inv, Attente

\* AnnulerErreur: the page is left as it was.
LEMMA AnnulerErreurInv ==
    ASSUME Inv, NEW a \in annulations, AnnulerErreur(a) PROVE Inv'
<1>1. TypeOK
    BY DEF Inv
<1>2. annulations' = annulations \ {a} /\ ecarts \subseteq ecarts'
      /\ ecarts' \subseteq ecarts \cup {"erreur"} /\ (a.etat # "404" => "erreur" \in ecarts')
    BY DEF AnnulerErreur
<1>3. UNCHANGED <<emprunts, reservations, coord, isLoading, affEmprunts,
                  affReservations, user, champ, succes, jeux, remplissages, annulees,
                  sauvegardes, nbSauvegardes>>
    BY DEF AnnulerErreur, bibliotheque, ecran
<1>4. /\ IsFiniteSet(annulations') /\ remplissages \in Nat
      /\ remplissages + Cardinality(annulations') <= MaxJeux
    BY <1>1, <1>2, Terminer, ProfilHypotheses DEF TypeOK
<1>5. TypeOK'
    BY <1>1, <1>2, <1>3, <1>4 DEF TypeOK, Ecart
<1>6. AnnuleesParties'
    BY <1>2, <1>3 DEF Inv, AnnuleesParties
<1>7. ASSUME "hate" \notin ecarts' PROVE Attente'
    <2>1. Attente
        BY <1>7, <1>2 DEF Inv, Attente
    <2>2. annulations' = {} /\ jeux = {} /\ sauvegardes = {}
        BY <2>1, <1>2 DEF Attente, UneChoseALaFois
    <2> QED
        BY <2>1, <2>2, <1>2, <1>3 DEF Attente, UneChoseALaFois, ProfilSuivi,
           SansAnnulees
<1>8. ASSUME ecarts' \subseteq {"compte"} PROVE PageSuivie'
    <2>1. PageSuivie /\ Attente /\ a.etat = "404"
        BY <1>8, <1>2 DEF Inv, Attente
    <2>2. annulations = {a}
        BY <2>1 DEF Attente, UneChoseALaFois
    <2> QED
        BY <2>1, <2>2, <1>2, <1>3 DEF PageSuivie, Mes
<1> QED
    BY <1>5, <1>6, <1>7, <1>8 DEF Inv, Attente

-----------------------------------------------------------------------------
(* The profile form. *)

\* Saisir: only the field changes.
LEMMA SaisirInv == ASSUME Inv, Saisir PROVE Inv'
<1>1. PICK k \in Coordonnees : champ' = k
    BY DEF Saisir
<1>2. UNCHANGED <<emprunts, reservations, coord, isLoading, affEmprunts,
                  affReservations, user, succes, jeux, remplissages, annulations,
                  annulees, sauvegardes, nbSauvegardes, ecarts>>
    BY DEF Saisir, bibliotheque, envois
<1>3. TypeOK'
    BY <1>1, <1>2, ProfilHypotheses DEF Inv, TypeOK
<1>4. AnnuleesParties' /\ ("hate" \notin ecarts => Attente')
    BY <1>2 DEF Inv, AnnuleesParties, Attente, UneChoseALaFois, ProfilSuivi,
       SansAnnulees
<1>5. ecarts \subseteq {"compte"} => PageSuivie'
    BY <1>2 DEF Inv, PageSuivie, Mes
<1> QED
    BY <1>2, <1>3, <1>4, <1>5 DEF Inv, Attente

\* OnSaveProfil: the message goes and a PUT is sent.
LEMMA OnSaveProfilInv == ASSUME Inv, OnSaveProfil PROVE Inv'
<1> DEFINE s == [n |-> nbSauvegardes + 1, valeur |-> champ, lu |-> Nul,
                 etat |-> "partie"]
<1>1. TypeOK
    BY DEF Inv
<1>2. /\ PeutAgir /\ user # Nul /\ nbSauvegardes < MaxSauvegardes /\ succes' = FALSE
      /\ sauvegardes' = sauvegardes \cup {s} /\ nbSauvegardes' = nbSauvegardes + 1
      /\ ecarts' = (ecarts \ {"compte"}) \cup Hate
    BY DEF OnSaveProfil, EffaceMessages
<1>3. UNCHANGED <<emprunts, reservations, coord, isLoading, affEmprunts,
                  affReservations, user, champ, jeux, remplissages, annulations,
                  annulees>>
    BY DEF OnSaveProfil, bibliotheque
<1>4. champ \in Coordonnees /\ ecarts' \subseteq Ecart
    BY Zenon, <1>1, <1>2, AgirCalme DEF TypeOK, Ecart
<1>5. s \in SauvegardeT' /\ s.etat = "partie" /\ nbSauvegardes' \in 0 .. MaxSauvegardes
    BY <1>1, <1>2, <1>4, ProfilHypotheses DEF TypeOK, SauvegardeT
<1> HIDE DEF s
<1>6. TypeOK'
    <2>1. sauvegardes' \subseteq SauvegardeT'
        <3>1. SauvegardeT \subseteq SauvegardeT'
            BY <1>1, <1>2 DEF TypeOK, SauvegardeT
        <3> QED
            BY <1>1, <1>2, <1>5, <3>1 DEF TypeOK, SauvegardeT
    <2> QED
        BY Zenon, <1>1, <1>2, <1>3, <1>4, <1>5, <2>1 DEF TypeOK, SauvegardeT
<1>7. AnnuleesParties'
    BY <1>3 DEF Inv, AnnuleesParties
<1>8. ASSUME "hate" \notin ecarts' PROVE Attente'
    <2>1. Attente /\ Calme /\ ("erreur" \notin ecarts' => "erreur" \notin ecarts)
        BY <1>8, <1>2, AgirCalme DEF Inv, Attente
    <2>2. sauvegardes' = {s}
        BY <2>1, <1>2 DEF Calme
    <2> QED
        BY <2>1, <2>2, <1>2, <1>3, <1>5 DEF Attente, UneChoseALaFois, ProfilSuivi,
           SansAnnulees, Calme
<1>9. ASSUME ecarts' \subseteq {"compte"} PROVE PageSuivie'
    <2>1. PageSuivie /\ Calme
        BY <1>9, <1>2, AgirCalme DEF Inv
    <2>2. sauvegardes' # {}
        BY <1>2
    <2> QED
        BY <2>1, <2>2, <1>3 DEF PageSuivie, Mes, Calme
<1> QED
    BY <1>6, <1>7, <1>8, <1>9 DEF Inv, Attente

\* Charger: the server reads the account.
LEMMA ChargerInv == ASSUME Inv, NEW s \in sauvegardes, Charger(s) PROVE Inv'
<1> DEFINE t == [s EXCEPT !.etat = "lue", !.lu = coord]
<1>1. TypeOK /\ s \in SauvegardeT /\ sauvegardes \subseteq SauvegardeT
    BY TypeEnParties DEF Inv
<1>2. sauvegardes' = (sauvegardes \ {s}) \cup {t}
    BY DEF Charger
<1>3. UNCHANGED <<emprunts, reservations, coord, isLoading, affEmprunts,
                  affReservations, user, champ, succes, jeux, remplissages,
                  annulations, annulees, nbSauvegardes, ecarts>>
    BY DEF Charger, bibliotheque, ecran
<1>4. t \in SauvegardeT /\ t.etat = "lue" /\ t.lu = coord
    BY <1>1 DEF SauvegardeT, TypeOK
<1> HIDE DEF t
<1>5. TypeOK'
    <2>1. sauvegardes' \subseteq SauvegardeT
        BY <1>1, <1>2, <1>4
    <2> QED
        BY <1>1, <1>3, <2>1 DEF TypeOK, SauvegardeT
<1>6. AnnuleesParties'
    BY <1>3 DEF Inv, AnnuleesParties
<1>7. ASSUME "hate" \notin ecarts PROVE Attente' /\ sauvegardes' = {t}
    <2>1. Attente
        BY <1>7 DEF Inv, Attente
    <2>2. sauvegardes' = {t} /\ jeux = {} /\ annulations = {} /\ ~succes
        BY <2>1, <1>2 DEF Attente, UneChoseALaFois, ProfilSuivi
    <2> QED
        BY <2>1, <2>2, <1>3, <1>4 DEF Attente, UneChoseALaFois, ProfilSuivi,
           SansAnnulees
<1>8. ASSUME ecarts \subseteq {"compte"} PROVE PageSuivie'
    BY <1>8, <1>2, <1>3 DEF Inv, PageSuivie, Mes
<1> QED
    BY <1>3, <1>5, <1>6, <1>7, <1>8 DEF Inv, Attente

\* UpdateMe: the column takes the value of the save.
LEMMA UpdateMeInv == ASSUME Inv, NEW s \in sauvegardes, UpdateMe(s) PROVE Inv'
<1> DEFINE t == [s EXCEPT !.etat = "faite"]
<1>1. TypeOK /\ s \in SauvegardeT /\ sauvegardes \subseteq SauvegardeT
    BY TypeEnParties DEF Inv
<1>2. /\ coord' = IF s.valeur = s.lu THEN coord ELSE s.valeur
      /\ sauvegardes' = (sauvegardes \ {s}) \cup {t} /\ s.etat = "lue"
    BY DEF UpdateMe
<1>3. UNCHANGED <<emprunts, reservations, isLoading, affEmprunts, affReservations,
                  user, champ, succes, jeux, remplissages, annulations, annulees,
                  nbSauvegardes, ecarts>>
    BY DEF UpdateMe, bibliotheque, ecran
<1>4. t \in SauvegardeT /\ t.etat = "faite" /\ t.valeur = s.valeur
    BY <1>1 DEF SauvegardeT
<1> HIDE DEF t
<1>5. TypeOK'
    <2>1. sauvegardes' \subseteq SauvegardeT /\ coord' \in Coordonnees
        BY <1>1, <1>2, <1>4 DEF SauvegardeT, TypeOK
    <2> QED
        BY <1>1, <1>3, <2>1 DEF TypeOK, SauvegardeT
<1>6. AnnuleesParties'
    BY <1>3 DEF Inv, AnnuleesParties
<1>7. ASSUME "hate" \notin ecarts PROVE Attente' /\ sauvegardes' = {t}
    <2>1. Attente
        BY <1>7 DEF Inv, Attente
    <2>2. sauvegardes' = {t} /\ jeux = {} /\ annulations = {} /\ ~succes
        BY <2>1, <1>2 DEF Attente, UneChoseALaFois, ProfilSuivi
    <2>3. "compte" \notin ecarts => coord' = t.valeur
        BY <2>1, <1>2, <1>4 DEF Attente, ProfilSuivi
    <2> QED
        BY <2>1, <2>2, <2>3, <1>3, <1>4 DEF Attente, UneChoseALaFois, ProfilSuivi,
           SansAnnulees
<1>8. ASSUME ecarts \subseteq {"compte"} PROVE PageSuivie'
    <2>1. PageSuivie /\ Attente /\ sauvegardes' = {t}
        BY <1>8, <1>7 DEF Inv, Attente
    <2>2. jeux = {}
        BY <2>1 DEF Attente, UneChoseALaFois
    <2> QED
        BY <2>1, <2>2, <1>3, <1>4 DEF PageSuivie, Mes
<1> QED
    BY <1>3, <1>5, <1>6, <1>7, <1>8 DEF Inv, Attente

\* Sauvegarde: the page takes what the server wrote, and says so.
LEMMA SauvegardeInv == ASSUME Inv, NEW s \in sauvegardes, Sauvegarde(s) PROVE Inv'
<1>1. TypeOK /\ s \in SauvegardeT
    BY TypeEnParties DEF Inv
<1>2. /\ s.etat = "faite" /\ sauvegardes' = sauvegardes \ {s}
      /\ user' = s.valeur /\ succes' = TRUE
    BY DEF Sauvegarde, MajUser
<1>3. UNCHANGED <<emprunts, reservations, coord, isLoading, affEmprunts,
                  affReservations, champ, jeux, remplissages, annulations, annulees,
                  nbSauvegardes, ecarts>>
    BY DEF Sauvegarde, bibliotheque
<1>4. TypeOK'
    BY <1>1, <1>2, <1>3 DEF TypeOK, SauvegardeT
<1>5. AnnuleesParties'
    BY <1>3 DEF Inv, AnnuleesParties
<1>6. ASSUME "hate" \notin ecarts
      PROVE  Attente' /\ ("compte" \notin ecarts => user' = coord)
    <2>1. Attente
        BY <1>6 DEF Inv, Attente
    <2>2. sauvegardes' = {} /\ ("compte" \notin ecarts => s.valeur = coord)
        BY <2>1, <1>2 DEF Attente, UneChoseALaFois, ProfilSuivi
    <2> QED
        BY Zenon, <2>1, <2>2, <1>2, <1>3 DEF Attente, UneChoseALaFois, ProfilSuivi,
           SansAnnulees
<1>7. ASSUME ecarts \subseteq {"compte"} PROVE PageSuivie'
    BY <1>6, <1>7, <1>3 DEF Inv, PageSuivie, Mes
<1> QED
    BY <1>3, <1>4, <1>5, <1>6, <1>7 DEF Inv, Attente

\* SauvegardeErreur: the page is left as it was.
LEMMA SauvegardeErreurInv ==
    ASSUME Inv, NEW s \in sauvegardes, SauvegardeErreur(s) PROVE Inv'
<1>1. TypeOK
    BY DEF Inv
<1>2. sauvegardes' = sauvegardes \ {s} /\ ecarts' = ecarts \cup {"erreur"}
    BY DEF SauvegardeErreur
<1>3. UNCHANGED <<emprunts, reservations, coord, isLoading, affEmprunts,
                  affReservations, user, champ, succes, jeux, remplissages,
                  annulations, annulees, nbSauvegardes>>
    BY DEF SauvegardeErreur, bibliotheque, ecran
<1>4. TypeOK'
    BY <1>1, <1>2, <1>3 DEF TypeOK, Ecart
<1>5. AnnuleesParties'
    BY <1>3 DEF Inv, AnnuleesParties
<1>6. ASSUME "hate" \notin ecarts' PROVE Attente'
    <2>1. Attente
        BY <1>6, <1>2 DEF Inv, Attente
    <2>2. sauvegardes' = {}
        BY <2>1, <1>2 DEF Attente, UneChoseALaFois
    <2> QED
        BY <2>1, <2>2, <1>2, <1>3 DEF Attente, UneChoseALaFois, ProfilSuivi,
           SansAnnulees
<1> QED
    BY <1>2, <1>4, <1>5, <1>6 DEF Inv, Attente

-----------------------------------------------------------------------------
(* The librarian, and the conclusion. *)

\* A returned loan is still a loan.
LEMMA PretRendu ==
    ASSUME NEW e \in Prets, e.dateRetour = "null"
    PROVE  [e EXCEPT !.dateRetour = "posee"] \in Prets
<1>1. e \in Pretables
    <2>1. ASSUME NEW p \in Pretables PROVE [p EXCEPT !.dateRetour = "posee"] # e
        BY ProfilHypotheses DEF PretEnCours
    <2> QED
        BY <2>1 DEF Prets
<1> QED
    BY <1>1 DEF Prets

\* Guichet: the tables change under the page; reservations only leave.
LEMMA GuichetInv == ASSUME Inv, Guichet PROVE Inv'
<1>1. TypeOK
    BY DEF Inv
<1>2. ecarts' = ecarts \cup {"guichet"} /\ UNCHANGED <<coord, ecran, envois>>
    BY DEF Guichet
<1>3. UNCHANGED <<isLoading, affEmprunts, affReservations, user, champ, succes, jeux,
                  remplissages, annulations, annulees, sauvegardes, nbSauvegardes>>
    BY <1>2 DEF ecran, envois
<1>4. reservations' \subseteq reservations /\ emprunts' \subseteq Prets
    <2>1. ASSUME NEW e \in Pretables, NEW R, B!Preter(e, R)
          PROVE  reservations' \subseteq reservations /\ emprunts' \subseteq Prets
        BY <2>1, <1>1 DEF B!Preter, TypeOK, Prets
    <2>2. ASSUME NEW e \in emprunts, B!Rendre(e)
          PROVE  reservations' \subseteq reservations /\ emprunts' \subseteq Prets
        BY <2>2, <1>1, PretRendu DEF B!Rendre, B!EnCours, TypeOK
    <2>3. ASSUME NEW r \in reservations, B!Annuler(r)
          PROVE  reservations' \subseteq reservations /\ emprunts' \subseteq Prets
        BY <2>3, <1>1 DEF B!Annuler, TypeOK
    <2> QED
        BY Zenon, <2>1, <2>2, <2>3 DEF Guichet
<1>5. TypeOK'
    BY <1>1, <1>2, <1>3, <1>4 DEF TypeOK, Ecart
<1>6. AnnuleesParties'
    BY <1>3, <1>4 DEF Inv, AnnuleesParties
<1>7. "hate" \notin ecarts' => Attente'
    BY <1>2, <1>3 DEF Inv, Attente, UneChoseALaFois, ProfilSuivi, SansAnnulees
<1> QED
    BY <1>2, <1>5, <1>6, <1>7 DEF Inv, Attente

\* Compte: the profile changes under the page.
LEMMA CompteInv == ASSUME Inv, Compte PROVE Inv'
<1>1. TypeOK
    BY DEF Inv
<1>2. /\ ecarts' = ecarts \cup {"compte"} /\ coord' \in Coordonnees
      /\ UNCHANGED <<bibliotheque, ecran, envois>>
    BY DEF Compte
<1>3. UNCHANGED <<emprunts, reservations, isLoading, affEmprunts, affReservations,
                  user, champ, succes, jeux, remplissages, annulations, annulees,
                  sauvegardes, nbSauvegardes>>
    BY <1>2 DEF bibliotheque, ecran, envois
<1>4. TypeOK'
    BY <1>1, <1>2, <1>3 DEF TypeOK, Ecart
<1>5. AnnuleesParties'
    BY <1>3 DEF Inv, AnnuleesParties
<1>6. "hate" \notin ecarts' => Attente'
    BY <1>2, <1>3 DEF Inv, Attente, UneChoseALaFois, ProfilSuivi, SansAnnulees
<1>7. ASSUME ecarts' \subseteq {"compte"} PROVE PageSuivie'
    BY <1>7, <1>2, <1>3 DEF Inv, PageSuivie, Mes
<1> QED
    BY <1>4, <1>5, <1>6, <1>7 DEF Inv, Attente

\* Every step keeps the invariant.
LEMMA EtapeInv == Inv /\ [Next]_vars => Inv'
<1> SUFFICES ASSUME Inv, [Next]_vars PROVE Inv'
    OBVIOUS
<1>1. ASSUME NEW j \in jeux, AvancerJeu(j) PROVE Inv'
    BY <1>1, LireInv, RemplirInv, RemplirErreurInv DEF AvancerJeu
<1>2. ASSUME NEW a \in annulations, AvancerAnnulation(a) PROVE Inv'
    BY <1>2, DeleteInv, AnnuleeInv, AnnulerErreurInv DEF AvancerAnnulation
<1>3. ASSUME NEW s \in sauvegardes, AvancerSauvegarde(s) PROVE Inv'
    BY <1>3, ChargerInv, UpdateMeInv, SauvegardeInv, SauvegardeErreurInv
    DEF AvancerSauvegarde
<1>4. CASE UNCHANGED vars
    <2>1. TypeOK' /\ AnnuleesParties'
        BY <1>4 DEF Inv, TypeOK, AnnuleesParties, vars, bibliotheque, ecran, envois
    <2>2. "hate" \notin ecarts' => Attente'
        BY <1>4 DEF Inv, Attente, UneChoseALaFois, ProfilSuivi, SansAnnulees, vars,
           bibliotheque, ecran, envois
    <2>3. ecarts' \subseteq {"compte"} => PageSuivie'
        BY <1>4 DEF Inv, PageSuivie, Mes, vars, bibliotheque, ecran, envois
    <2> QED
        BY <2>1, <2>2, <2>3 DEF Inv, Attente
<1> QED
    BY <1>1, <1>2, <1>3, <1>4, OnAnnulerInv, SaisirInv, OnSaveProfilInv, GuichetInv,
       CompteInv DEF Next

\* The types, and what makes the page follow the tables: a member who waits for the
\* answers has one request under way at most (onAnnuler, onSaveProfil, refreshData).
THEOREM InvariantDuProfil == Spec => []Inv
BY InitInv, EtapeInv, PTL DEF Spec

\* Once every answer has come, the page of a member who acts one step at a time
\* shows their loans, reservations and profile as the tables hold them, as long as no
\* request fails and librarians change neither the loans nor the account under it
\* (refreshData).
THEOREM ProfilFidele == Spec => []ProfilAJour
<1>1. Inv => ProfilAJour
    BY DEF Inv, ProfilAJour, PageSuivie, UneChoseALaFois, Calme
<1> QED
    BY <1>1, InvariantDuProfil, PTL

\* A reservation whose cancellation has been answered is not listed again once every
\* answer has come, whatever a librarian does meanwhile (onAnnuler, refreshData), as
\* long as the member waits and no request fails.
THEOREM AnnuleeNeRevientPas == Spec => []AnnuleeInvisible
<1>1. Inv => AnnuleeInvisible
    BY DEF Inv, AnnuleeInvisible, SansAnnulees, Calme
<1> QED
    BY <1>1, InvariantDuProfil, PTL

\* "Profil mis à jour avec succès." (onSaveProfil) is only shown over the profile
\* that the table holds, to a member who waits for the answers, unless the back
\* office has edited the account since that save was sent.
THEOREM MessageVrai == Spec => []SuccesVrai
<1>1. Inv => SuccesVrai
    BY DEF Inv, SuccesVrai, ProfilSuivi
<1> QED
    BY <1>1, InvariantDuProfil, PTL
=============================================================================

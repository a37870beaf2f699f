----------------------- MODULE CatalogueListe_proofs ------------------------
(***************************************************************************)
(* Proofs about the list of books, for any page size, any number of books  *)
(* and any number of requests: the arithmetic of the pages, the spinner,   *)
(* the list a patient reader sees, and the steps of VueListe.              *)
(***************************************************************************)
EXTENDS CatalogueListe, FiniteSetTheorems, TLAPS

-----------------------------------------------------------------------------
(* Pagination. *)

\* Products by the page size are ordered like their factors.
LEMMA Facteurs ==
    ASSUME NEW a \in Int, NEW b \in Int, a * Limite < b * Limite PROVE a < b
<1>1. Limite \in Nat \ {0}
    BY LimiteHypothese
<1>2. ASSUME b <= a PROVE b * Limite <= a * Limite
    <2>1. (a - b) * Limite >= 0
        BY <1>1, <1>2
    <2> QED
        BY <2>1, <1>1
<1> QED
    BY <1>1, <1>2

\* And the other way round.
LEMMA Produits ==
    ASSUME NEW a \in Int, NEW b \in Int, a <= b PROVE a * Limite <= b * Limite
<1>1. Limite \in Nat \ {0}
    BY LimiteHypothese
<1>2. (b - a) * Limite >= 0
    BY <1>1
<1> QED
    BY <1>1, <1>2

\* The quotient by the page size.
LEMMA Quotient ==
    ASSUME NEW a \in Nat
    PROVE  /\ a \div Limite \in Nat
           /\ (a \div Limite) * Limite <= a
           /\ a < (a \div Limite) * Limite + Limite
BY LimiteHypothese

\* totalPages is the least number of pages, and at least 1, that holds n rows.
LEMMA Plafond ==
    ASSUME NEW n \in Nat
    PROVE  /\ TotalPages(n) \in Nat \ {0}
           /\ n <= TotalPages(n) * Limite
           /\ n > 0 => (TotalPages(n) - 1) * Limite < n
<1> DEFINE t == (n + Limite - 1) \div Limite
<1>1. Limite \in Nat \ {0} /\ n + Limite - 1 \in Nat
    BY LimiteHypothese
<1>2. t \in Nat /\ t * Limite <= n + Limite - 1 /\ n + Limite - 1 < t * Limite + Limite
    BY <1>1, Quotient
<1>3. TotalPages(n) = IF t > 0 THEN t ELSE 1
    BY DEF TotalPages
<1> HIDE DEF t
<1>4. n <= t * Limite
    BY <1>1, <1>2
<1>5. (t - 1) * Limite = t * Limite - Limite
    BY <1>1, <1>2
<1>6. (t - 1) * Limite < n \/ n = 0
    BY <1>1, <1>2, <1>5
<1>7. CASE t > 0
    BY <1>2, <1>3, <1>4, <1>6, <1>7
<1>8. CASE t = 0
    BY <1>1, <1>2, <1>3, <1>4, <1>8
<1> QED
    BY <1>2, <1>7, <1>8

\* The positions of a page.
LEMMA DansTranche ==
    ASSUME NEW n \in Nat, NEW p \in Nat \ {0}, NEW i \in 1 .. n
    PROVE  i \in Tranche(n, p)
             <=> (p - 1) * Limite < i /\ i <= (p - 1) * Limite + Limite
BY DEF Tranche, Decalage

\* Every page up to totalPages shows a row, as soon as one matches.
LEMMA PageNonVide ==
    ASSUME NEW n \in Nat, n > 0, NEW p \in 1 .. TotalPages(n)
    PROVE  Tranche(n, p) # {}
<1>1. Limite \in Nat \ {0} /\ TotalPages(n) \in Nat \ {0}
    BY LimiteHypothese, Plafond
<1>2. (p - 1) * Limite <= (TotalPages(n) - 1) * Limite
    BY <1>1, Produits
<1>3. /\ (p - 1) * Limite \in Nat /\ (TotalPages(n) - 1) * Limite \in Nat
    BY <1>1
<1>4. (p - 1) * Limite + 1 \in 1 .. n
    BY <1>2, <1>3, Plafond
<1> QED
    BY <1>1, <1>3, <1>4, DansTranche

\* For every page size and every number of rows, each position among the rows that
\* match is on exactly one page of 1 .. totalPages, and no such page is empty unless
\* nothing matches (the ceiling and the offset of findBySearchCriteria; which book
\* has a position is the order of the query, that has no ORDER BY).
THEOREM PagesToujoursCorrectes == \A n \in Nat : PaginationCorrecte(n)
<1> SUFFICES ASSUME NEW n \in Nat PROVE PaginationCorrecte(n)
    OBVIOUS
<1>0. Limite \in Nat \ {0} /\ TotalPages(n) \in Nat \ {0}
    BY LimiteHypothese, Plafond
<1>1. ASSUME NEW i \in 1 .. n
      PROVE  \E p \in 1 .. TotalPages(n) :
                /\ i \in Tranche(n, p)
                /\ \A q \in 1 .. TotalPages(n) : i \in Tranche(n, q) => q = p
    <2> DEFINE c == (i - 1) \div Limite
               p == c + 1
    <2>1. c \in Nat /\ c * Limite <= i - 1 /\ i - 1 < c * Limite + Limite
        BY Quotient
    <2> HIDE DEF c
    <2>2. c * Limite \in Nat /\ TotalPages(n) * Limite \in Nat
        BY <1>0, <2>1
    <2>3. c * Limite < TotalPages(n) * Limite
        BY <2>1, <2>2, Plafond
    <2>4. c < TotalPages(n)
        BY <1>0, <2>1, <2>3, Facteurs
    <2>5. p \in 1 .. TotalPages(n) /\ p - 1 = c
        BY <1>0, <2>1, <2>4
    <2>6. i \in Tranche(n, p)
        BY <1>0, <2>1, <2>2, <2>5, DansTranche
    <2>7. ASSUME NEW q \in 1 .. TotalPages(n), i \in Tranche(n, q) PROVE q = p
        <3>1. (q - 1) * Limite < i /\ i <= (q - 1) * Limite + Limite
            BY <1>0, <2>7, DansTranche
        <3>2. (q - 1) * Limite \in Nat /\ (q - 1) * Limite + Limite = q * Limite
              /\ c * Limite + Limite = (c + 1) * Limite
            BY <1>0, <2>1
        <3>3. (q - 1) * Limite < (c + 1) * Limite /\ c * Limite < q * Limite
            BY <1>0, <2>1, <2>2, <3>1, <3>2
        <3>4. q - 1 < c + 1 /\ c < q
            BY <2>1, <3>3, Facteurs
        <3> QED
            BY <2>1, <3>4
    <2> QED
        BY <2>5, <2>6, <2>7
<1> QED
    BY <1>0, <1>1, PageNonVide DEF PaginationCorrecte

\* How many rows a page holds: at most Limite; the pages before the last are full,
\* and the last holds the rest.
LEMMA TailleTranche ==
    ASSUME NEW n \in Nat, NEW p \in Nat \ {0}
    PROVE  /\ IsFiniteSet(Tranche(n, p))
           /\ Cardinality(Tranche(n, p)) \in 0 .. Limite
           /\ p < TotalPages(n) => Cardinality(Tranche(n, p)) = Limite
           /\ p = TotalPages(n) => Cardinality(Tranche(n, p)) = n - Decalage(p)
<1> DEFINE d == (p - 1) * Limite
           f == IF n <= d + Limite THEN n ELSE d + Limite
<1>1. Limite \in Nat \ {0} /\ d \in Nat /\ Decalage(p) = d
    BY LimiteHypothese DEF Decalage
<1>2. d + Limite = p * Limite
    BY LimiteHypothese
<1> HIDE DEF d
<1>3. f \in Nat /\ f <= d + Limite
    BY <1>1
<1>4. Tranche(n, p) = (d + 1) .. f
    BY <1>1 DEF Tranche
<1>5. /\ IsFiniteSet(Tranche(n, p))
      /\ Cardinality(Tranche(n, p)) = IF d + 1 > f THEN 0 ELSE f - (d + 1) + 1
    <2>1. d + 1 \in Int /\ f \in Int
        BY <1>1, <1>3
    <2> HIDE DEF f
    <2> QED
        BY <1>4, <2>1, FS_Interval
<1>6. Cardinality(Tranche(n, p)) \in 0 .. Limite
    BY <1>1, <1>3, <1>5
<1>7. ASSUME p < TotalPages(n) PROVE Cardinality(Tranche(n, p)) = Limite
    <2>1. TotalPages(n) \in Nat \ {0} /\ p <= TotalPages(n) - 1
        BY <1>7, Plafond
    <2>2. p * Limite <= (TotalPages(n) - 1) * Limite
        BY <2>1, Produits
    <2>3. n > 0
        <3>1. CASE n = 0
            <4>1. TotalPages(0) = 1
                BY <1>1 DEF TotalPages
            <4> QED
                BY <1>7, <3>1, <4>1
        <3> QED
            BY <3>1
    <2>4. (TotalPages(n) - 1) * Limite \in Nat /\ (TotalPages(n) - 1) * Limite < n
        BY <1>1, <2>1, <2>3, Plafond
    <2>5. d + Limite < n
        BY <1>1, <1>2, <2>2, <2>4
    <2> QED
        BY <1>1, <1>5, <2>5
<1>8. ASSUME p = TotalPages(n) PROVE Cardinality(Tranche(n, p)) = n - d
    <2>1. n <= d + Limite
        BY <1>2, <1>8, Plafond
    <2>2. d <= n
        <3>1. CASE n > 0
            BY <1>8, <3>1, Plafond, <1>1 DEF d
        <3>2. CASE n = 0
            <4>1. TotalPages(0) = 1
                BY <1>1 DEF TotalPages
            <4>2. d = 0
                BY <1>1, <1>8, <3>2, <4>1 DEF d
            <4> QED
                BY <3>2, <4>2
        <3> QED
            BY <3>1, <3>2
    <2> QED
        BY <1>1, <1>5, <2>1, <2>2
<1> QED
    BY <1>1, <1>5, <1>6, <1>7, <1>8

-----------------------------------------------------------------------------
(* Requests. *)

\* The requests under way have each their number; as long as the reader has waited
\* there is one at most, and it is the last one, for the page the pagination
\* shows, as long as none has failed.
RequetesOK ==
    /\ \A q, s \in enVol : q.n = s.n => q = s
    /\ \A q \in enVol : q.n <= envois
    /\ "hate" \notin ecarts => \A q, s \in enVol : q = s
    /\ ecarts \cap {"hate", "erreur"} = {} =>
            \A q \in enVol : q.n = envois /\ q.page = page

\* The inductive invariant.
Inv == TypeOK /\ RequetesOK /\ SablierJustifie /\ ListeAJour

\* The request that loadLivres sends is a request.
LEMMA NouvelType ==
    ASSUME NEW n \in 1 .. MaxRequetes, NEW r \in Recherches, NEW p \in Nat \ {0}
    PROVE  Nouvel(n, r, p) \in Envoi
BY LimiteHypothese, ListeHypotheses DEF Nouvel, Envoi

\* The invariant holds once ngOnInit has sent the first request.
LEMMA InitInv == Init => Inv
<1> SUFFICES ASSUME Init PROVE Inv
    OBVIOUS
<1>1. MaxRequetes \in Nat \ {0} /\ Vide \in Recherches /\ Limite \in Nat \ {0}
    BY ListeHypotheses, LimiteHypothese
<1>2. Nouvel(1, Vide, 1) \in Envoi
    BY <1>1, NouvelType
<1>3. TypeOK
    BY <1>1, <1>2, ListeHypotheses DEF Init, TypeOK, Ecart
<1>4. RequetesOK
    BY DEF Init, RequetesOK, Nouvel
<1> QED
    BY <1>3, <1>4 DEF Init, Inv, SablierJustifie, ListeAJour

\* LoadLivres, with the page number it is called with.
LEMMA LoadLivresInv ==
    ASSUME Inv, NEW p \in Nat \ {0}, NEW e \in SUBSET Ecart, page' = p,
           LoadLivres(p, e)
    PROVE  Inv'
<1> DEFINE q == Nouvel(envois + 1, saisie, p)
<1>1. /\ envois < MaxRequetes
      /\ isLoading' = TRUE /\ envois' = envois + 1 /\ enVol' = enVol \cup {q}
      /\ UNCHANGED <<nb, saisie, totalPages, liste, modifs>>
    BY DEF LoadLivres
<1>a. ecarts' \subseteq Ecart /\ ecarts \subseteq ecarts'
    BY DEF LoadLivres, Inv, TypeOK, Ecart
<1>b. "hate" \notin ecarts' => "hate" \notin ecarts /\ ~isLoading
    BY DEF LoadLivres
<1>2. envois + 1 \in 1 .. MaxRequetes /\ MaxRequetes \in Nat /\ envois \in Nat
    BY <1>1, ListeHypotheses DEF Inv, TypeOK
<1>3. q \in Envoi /\ q.n = envois + 1 /\ q.page = p
    BY <1>2, NouvelType DEF Inv, TypeOK, Nouvel
<1> HIDE DEF q
<1>4. TypeOK'
    BY <1>1, <1>2, <1>3, <1>a DEF Inv, TypeOK
<1>5. "hate" \notin ecarts' => enVol = {}
    BY <1>b DEF Inv, SablierJustifie
<1>6. \A s \in enVol : s.n \in Nat /\ s.n <= envois
    BY DEF Inv, RequetesOK, TypeOK, Envoi
<1>7. RequetesOK'
    <2>1. (\A t, s \in enVol : t.n = s.n => t = s)'
        BY <1>1, <1>2, <1>3, <1>6 DEF Inv, RequetesOK
    <2>2. (\A t \in enVol : t.n <= envois)'
        BY <1>1, <1>2, <1>3, <1>6
    <2>3. "hate" \notin ecarts' => enVol' = {q}
        BY <1>1, <1>5
    <2> QED
        BY <1>1, <1>3, <2>1, <2>2, <2>3 DEF RequetesOK
<1> QED
    BY <1>1, <1>4, <1>7 DEF Inv, SablierJustifie, ListeAJour

\* The reader: OnSearch and GoToPage.
LEMMA LecteurInv == ASSUME Inv, OnSearch \/ GoToPage PROVE Inv'
<1>1. CASE OnSearch
    BY <1>1, LoadLivresInv DEF OnSearch
<1>2. CASE GoToPage
    <2>1. PICK p \in (1 .. totalPages) \cup {page - 1, page + 1} :
            /\ p >= 1 /\ p <= totalPages /\ page' = p
            /\ LoadLivres(p, EcartSaisie)
        BY <1>2 DEF GoToPage
    <2>2. p \in Nat \ {0}
        BY <2>1 DEF Inv, TypeOK
    <2>3. EcartSaisie \in SUBSET Ecart
        BY DEF EcartSaisie, Ecart
    <2> QED
        BY <2>1, <2>2, <2>3, LoadLivresInv
<1> QED
    BY <1>1, <1>2

\* The server: a request goes on, with its number and page.
LEMMA ServeurForme ==
    ASSUME Inv, NEW q \in enVol, Serveur(q)
    PROVE  /\ UNCHANGED <<nb, saisie, page, totalPages, isLoading, liste, envois,
                        modifs, ecarts>>
           /\ \E s \in Envoi :
                /\ s.n = q.n /\ s.page = q.page /\ s.recherche = q.recherche
                /\ enVol' = (enVol \ {q}) \cup {s}
                /\ \/ /\ q.etat = "partie" /\ s.etat = "comptee"
                      /\ s.pages = TotalPages(nb[q.recherche])
                   \/ /\ q.etat = "comptee" /\ s.etat = "choisie"
                      /\ s.pages = q.pages /\ s.modifs = modifs
                      /\ s.taille = Cardinality(Tranche(nb[q.recherche], q.page))
<1>0. q \in Envoi /\ nb[q.recherche] \in Nat
    BY ListeHypotheses DEF Inv, TypeOK, Comptages, Envoi
<1>1. CASE Compter(q)
    <2> DEFINE t == TotalPages(nb[q.recherche])
               s == [q EXCEPT !.etat = "comptee", !.pages = t]
    <2>1. t \in Nat \ {0}
        BY <1>0, Plafond
    <2>2. enVol' = (enVol \ {q}) \cup {s} /\ q.etat = "partie"
          /\ UNCHANGED <<nb, saisie, page, totalPages, isLoading, liste, envois,
                        modifs, ecarts>>
        BY <1>1 DEF Compter
    <2> HIDE DEF t
    <2>3. s \in Envoi /\ s.n = q.n /\ s.page = q.page
          /\ s.recherche = q.recherche /\ s.etat = "comptee" /\ s.pages = t
        BY <1>0, <2>1 DEF Envoi
    <2> HIDE DEF s
    <2> QED
        BY <2>2, <2>3 DEF t
<1>2. CASE Choisir(q)
    <2> DEFINE t == Cardinality(Tranche(nb[q.recherche], q.page))
               s == [q EXCEPT !.etat = "choisie", !.modifs = modifs, !.taille = t]
    <2>0. q.page \in Nat \ {0}
        BY <1>0 DEF Envoi
    <2>1. t \in 0 .. Limite /\ modifs \in 0 .. MaxModifs
        BY <1>0, <2>0, TailleTranche DEF Inv, TypeOK
    <2>2. enVol' = (enVol \ {q}) \cup {s} /\ q.etat = "comptee"
          /\ UNCHANGED <<nb, saisie, page, totalPages, isLoading, liste, envois,
                        modifs, ecarts>>
        BY <1>2 DEF Choisir
    <2> HIDE DEF t
    <2>3. s \in Envoi /\ s.n = q.n /\ s.page = q.page
          /\ s.recherche = q.recherche /\ s.etat = "choisie"
          /\ s.pages = q.pages /\ s.taille = t /\ s.modifs = modifs
        BY <1>0, <2>1 DEF Envoi
    <2> HIDE DEF s
    <2> QED
        BY <2>2, <2>3 DEF t
<1> QED
    BY <1>1, <1>2 DEF Serveur

\* The server's steps.
LEMMA ServeurInv == ASSUME Inv, NEW q \in enVol, Serveur(q) PROVE Inv'
<1>1. PICK s \in Envoi : s.n = q.n /\ s.page = q.page
                         /\ enVol' = (enVol \ {q}) \cup {s}
    BY ServeurForme
<1>2. UNCHANGED <<nb, saisie, page, totalPages, isLoading, liste, envois,
                        modifs, ecarts>>
    BY ServeurForme
<1>3. TypeOK'
    BY <1>1, <1>2 DEF Inv, TypeOK
<1>4. RequetesOK'
    BY <1>1, <1>2 DEF Inv, RequetesOK
<1> QED
    BY <1>1, <1>2, <1>3, <1>4 DEF Inv, SablierJustifie, ListeAJour

\* What an answer shows is the request's, with as many rows as were chosen when the
\* catalogue did not change.
LEMMA ReponseForme ==
    ASSUME NEW q \in Envoi, NEW v \in Reponse(q)
    PROVE  /\ v \in [n : 0 .. MaxRequetes, recherche : Recherches,
                     page : Nat \ {0}, taille : 0 .. Limite]
           /\ v.n = q.n /\ v.page = q.page /\ v.recherche = q.recherche
           /\ modifs = 0 => v.taille = q.taille
<1>1. PICK t \in 0 .. q.taille :
        /\ q.taille - t <= modifs - q.modifs
        /\ v = [n |-> q.n, recherche |-> q.recherche, page |-> q.page, taille |-> t]
    BY DEF Reponse
<1>2. /\ q.n \in 0 .. MaxRequetes /\ q.recherche \in Recherches
      /\ q.page \in Nat \ {0} /\ q.taille \in 0 .. Limite /\ q.modifs \in Nat
    BY ListeHypotheses DEF Envoi
<1>3. t \in 0 .. Limite /\ (modifs = 0 => t = q.taille)
    BY <1>1, <1>2, LimiteHypothese
<1> QED
    BY <1>1, <1>2, <1>3

\* The answers and the failures.
LEMMA ReseauInv == ASSUME Inv, NEW q \in enVol, Reseau(q) PROVE Inv'
<1>0. q \in Envoi
    BY DEF Inv, TypeOK
<1>1. CASE RecevoirReponse(q)
    <2>1. /\ enVol' = enVol \ {q} /\ liste' \in Reponse(q)
          /\ totalPages' = q.pages /\ isLoading' = FALSE
          /\ UNCHANGED <<nb, saisie, page, envois, modifs, ecarts>>
        BY <1>1 DEF RecevoirReponse
    <2>2. liste' \in [n : 0 .. MaxRequetes, recherche : Recherches,
                      page : Nat \ {0}, taille : 0 .. Limite]
          /\ liste'.n = q.n /\ liste'.page = q.page
        BY <1>0, <2>1, ReponseForme
    <2>3. TypeOK'
        BY <1>0, <2>1, <2>2 DEF Inv, TypeOK, Envoi
    <2>4. RequetesOK'
        BY <2>1 DEF Inv, RequetesOK
    <2> QED
        BY <2>1, <2>2, <2>3, <2>4
        DEF Inv, RequetesOK, SablierJustifie, ListeAJour
<1>2. CASE RecevoirErreur(q)
    <2>1. /\ enVol' = enVol \ {q} /\ isLoading' = FALSE
          /\ ecarts' = ecarts \cup {"erreur"}
          /\ UNCHANGED <<nb, saisie, page, totalPages, liste, envois, modifs>>
        BY <1>2 DEF RecevoirErreur, FinErreur
    <2>2. TypeOK'
        BY <2>1 DEF Inv, TypeOK, Ecart
    <2> QED
        BY <2>1, <2>2 DEF Inv, RequetesOK, SablierJustifie, ListeAJour
<1> QED
    BY <1>1, <1>2 DEF Reseau

\* Every step keeps the invariant.
LEMMA NextInv == Inv /\ [Next]_vars => Inv'
<1> SUFFICES ASSUME Inv, [Next]_vars PROVE Inv'
    OBVIOUS
<1>1. CASE Saisir \/ ModifierCatalogue \/ UNCHANGED vars
    <2>1. UNCHANGED <<page, isLoading, liste, enVol, envois, ecarts>>
        BY <1>1 DEF Saisir, ModifierCatalogue, vars
    <2>2. TypeOK'
        BY <1>1, ListeHypotheses DEF Inv, TypeOK, Saisir, ModifierCatalogue, vars
    <2> QED
        BY <2>1, <2>2 DEF Inv, RequetesOK, SablierJustifie, ListeAJour
<1>2. ASSUME NEW q \in enVol, Serveur(q) \/ Reseau(q) PROVE Inv'
    BY <1>2, ServeurInv, ReseauInv
<1> QED
    BY <1>1, <1>2, LecteurInv DEF Next

\* Types and the inductive invariant, in every reachable state.
LEMMA InvariantDeLaListe == Spec => []Inv
BY InitInv, NextInv, PTL DEF Spec

\* The spinner turns only while a request is under way, and exactly then as long as
\* the reader has waited for it to stop (loadLivres, next and error).
THEOREM SablierToujoursJustifie == Spec => []SablierJustifie
<1>1. Inv => SablierJustifie
    BY DEF Inv
<1> QED
    BY <1>1, InvariantDeLaListe, PTL

\* As long as the reader has waited for the spinner and no request has failed, they
\* see the answer to their last request, at the page shown as active (onSearch,
\* goToPage, loadLivres).
THEOREM ListeToujoursAJour == Spec => []ListeAJour
<1>1. Inv => ListeAJour
    BY DEF Inv
<1> QED
    BY <1>1, InvariantDeLaListe, PTL

-----------------------------------------------------------------------------
(* "Aucun livre ne correspond à votre recherche.", and the pages. *)

\* So far the reader has waited and submitted what they typed, no request has
\* failed and the catalogue has not changed.
Paisible == ecarts = {} /\ modifs = 0

\* The page asked for exists, and what the server has read is what it had to.
DemandeJuste(q) ==
    /\ q.page <= TotalPages(nb[q.recherche])
    /\ q.etat \in {"comptee", "choisie"} => q.pages = TotalPages(nb[q.recherche])
    /\ q.etat = "choisie" =>
          q.taille = Cardinality(Tranche(nb[q.recherche], q.page))

\* Once the spinner has stopped, the list and the pagination are those of the
\* search answered.
VueJuste ==
    /\ totalPages = TotalPages(nb[liste.recherche])
    /\ liste.page <= totalPages
    /\ liste.taille = Cardinality(Tranche(nb[liste.recherche], liste.page))

InvPages == Paisible =>
    /\ \A q \in enVol : DemandeJuste(q)
    /\ ~isLoading => VueJuste

\* It holds at first: page 1 always exists.
LEMMA InitPages == Init => InvPages
<1> SUFFICES ASSUME Init PROVE InvPages
    OBVIOUS
<1>1. nb[Vide] \in Nat
    BY ListeHypotheses DEF Init, Comptages
<1>2. TotalPages(nb[Vide]) \in Nat \ {0}
    BY <1>1, Plafond
<1>3. DemandeJuste(Nouvel(1, Vide, 1))
    BY <1>2 DEF DemandeJuste, Nouvel
<1> QED
    BY <1>3 DEF Init, InvPages

\* A request for a page that exists may be sent.
LEMMA LoadLivresPages ==
    ASSUME Inv, InvPages, Paisible, NEW p \in Nat \ {0},
           p <= TotalPages(nb[saisie]), NEW e, LoadLivres(p, e)
    PROVE  InvPages'
<1> DEFINE q == Nouvel(envois + 1, saisie, p)
<1>1. isLoading' = TRUE /\ enVol' = enVol \cup {q} /\ nb' = nb
    BY DEF LoadLivres
<1>2. q.page = p /\ q.recherche = saisie /\ q.etat = "partie"
    BY DEF Nouvel
<1> HIDE DEF q
<1>3. DemandeJuste(q)
    BY <1>2 DEF DemandeJuste
<1> QED
    BY <1>1, <1>3 DEF InvPages, DemandeJuste

\* One step.
LEMMA EtapePages ==
    ASSUME Inv, InvPages, [Next]_vars PROVE InvPages'
<1> SUFFICES ASSUME Paisible' PROVE InvPages'
    BY DEF InvPages
<1>a. Paisible
    <2>1. ecarts \subseteq ecarts'
        BY DEF Next, Saisir, OnSearch, GoToPage, LoadLivres, Serveur, Compter, Choisir,
               Reseau, RecevoirReponse, RecevoirErreur, ModifierCatalogue, vars
    <2>2. modifs' = modifs \/ ModifierCatalogue
        BY DEF Next, Saisir, OnSearch, GoToPage, LoadLivres, Serveur, Compter, Choisir,
               Reseau, RecevoirReponse, RecevoirErreur, vars
    <2>3. modifs \in Nat
        BY ListeHypotheses DEF Inv, TypeOK
    <2> QED
        BY <2>1, <2>2, <2>3 DEF Paisible, ModifierCatalogue
<1>0. /\ saisie \in Recherches /\ \A r \in Recherches : nb[r] \in Nat
      /\ liste.recherche \in Recherches /\ totalPages \in Nat \ {0}
      /\ enVol \subseteq Envoi /\ page \in Nat \ {0}
    BY ListeHypotheses DEF Inv, TypeOK, Comptages
<1>1. CASE OnSearch
    <2>1. 1 <= TotalPages(nb[saisie])
        BY <1>0, Plafond
    <2> QED
        BY <1>1, <1>a, <2>1, LoadLivresPages DEF OnSearch
<1>2. CASE GoToPage
    <2>1. PICK p \in (1 .. totalPages) \cup {page - 1, page + 1} :
            p >= 1 /\ p <= totalPages /\ LoadLivres(p, EcartSaisie)
        BY <1>2 DEF GoToPage
    <2>2. p \in Nat \ {0}
        BY <1>0, <2>1
    <2>3. ~isLoading /\ saisie = liste.recherche
        BY <2>1 DEF LoadLivres, EcartSaisie, Paisible
    <2>4. p <= TotalPages(nb[saisie])
        BY <1>a, <2>1, <2>3 DEF InvPages, VueJuste
    <2> QED
        BY <1>a, <2>1, <2>2, <2>4, LoadLivresPages
<1>3. ASSUME NEW q \in enVol, Serveur(q) PROVE InvPages'
    <2>1. PICK s \in Envoi :
            /\ s.n = q.n /\ s.page = q.page /\ s.recherche = q.recherche
            /\ enVol' = (enVol \ {q}) \cup {s}
            /\ \/ /\ q.etat = "partie" /\ s.etat = "comptee"
                  /\ s.pages = TotalPages(nb[q.recherche])
               \/ /\ q.etat = "comptee" /\ s.etat = "choisie"
                  /\ s.pages = q.pages
                  /\ s.taille = Cardinality(Tranche(nb[q.recherche], q.page))
        BY <1>3, ServeurForme
    <2>2. UNCHANGED <<nb, totalPages, isLoading, liste>>
        BY <1>3, ServeurForme
    <2>3. DemandeJuste(s)
        BY <1>a, <2>1 DEF InvPages, DemandeJuste
    <2> QED
        BY <1>a, <2>1, <2>2, <2>3 DEF InvPages, DemandeJuste, VueJuste
<1>4. ASSUME NEW q \in enVol, Reseau(q) PROVE InvPages'
    <2>0. /\ q.etat = "choisie" /\ enVol' = enVol \ {q} /\ nb' = nb
          /\ totalPages' = q.pages /\ liste' \in Reponse(q)
        BY <1>4 DEF Reseau, RecevoirReponse, RecevoirErreur, Paisible
    <2>1. /\ q.etat = "choisie" /\ enVol' = enVol \ {q} /\ nb' = nb
          /\ totalPages' = q.pages
          /\ liste'.recherche = q.recherche /\ liste'.page = q.page
          /\ liste'.taille = q.taille
        BY <1>0, <1>a, <2>0, ReponseForme DEF Paisible
    <2>2. DemandeJuste(q)
        BY <1>a DEF InvPages
    <2>3. VueJuste'
        BY <2>1, <2>2 DEF DemandeJuste, VueJuste
    <2> QED
        BY <1>a, <2>1, <2>3 DEF InvPages, DemandeJuste
<1>5. CASE Saisir \/ ModifierCatalogue \/ UNCHANGED vars
    <2>1. UNCHANGED <<nb, totalPages, isLoading, liste, enVol>>
        <3>1. ~ModifierCatalogue
            BY <1>a, ListeHypotheses DEF ModifierCatalogue, Paisible
        <3> QED
            BY <1>5, <3>1 DEF Saisir, vars
    <2> QED
        BY <1>a, <2>1 DEF InvPages, DemandeJuste, VueJuste
<1> QED
    BY <1>1, <1>2, <1>3, <1>4, <1>5 DEF Next

\* InvPages in every reachable state.
LEMMA InvariantDesPages == Spec => []InvPages
<1>1. Inv /\ InvPages /\ [Next]_vars => InvPages'
    BY EtapePages
<1> QED
    BY <1>1, InitPages, InvariantDeLaListe, PTL DEF Spec

\* As long as the reader waits and submits what they type, no request fails and the
\* catalogue does not change, the message is shown only when no book matches
\* (livres-list.html, with loadLivres and findBySearchCriteria).
THEOREM MessageVrai == Spec => []AucunLivre
<1>1. Inv /\ InvPages => AucunLivre
    <2> SUFFICES ASSUME Inv, InvPages, Paisible, ~isLoading, liste.taille = 0,
                        nb[liste.recherche] # 0
                 PROVE  FALSE
        BY DEF AucunLivre, Paisible
    <2> DEFINE n == nb[liste.recherche]
               p == liste.page
    <2>1. n \in Nat /\ p \in Nat \ {0} /\ n > 0
        BY ListeHypotheses DEF Inv, TypeOK, Comptages
    <2>2. p <= TotalPages(n) /\ Cardinality(Tranche(n, p)) = 0
        BY DEF InvPages, VueJuste
    <2> HIDE DEF n, p
    <2>3. TotalPages(n) \in Nat /\ p \in 1 .. TotalPages(n)
        BY <2>1, <2>2, Plafond
    <2>4. Tranche(n, p) = {}
        BY <2>1, <2>2, TailleTranche, FS_EmptySet
    <2> QED
        BY <2>1, <2>3, <2>4, PageNonVide
<1> QED
    BY <1>1, InvariantDesPages, InvariantDeLaListe, PTL

\* Under the same conditions the page shown is one of 1 .. totalPages, the pages
\* before the last are full and the last holds the rest: the links of the pages lead
\* past as many rows as match (goToPage, findBySearchCriteria).
THEOREM PagesToujoursRemplies == Spec => []PagesRemplies
<1>1. Inv /\ InvPages => PagesRemplies
    <2> SUFFICES ASSUME Inv, InvPages, Paisible, ~isLoading PROVE PagesRemplies
        BY DEF PagesRemplies, Paisible
    <2>1. /\ nb[liste.recherche] \in Nat /\ liste.page \in Nat \ {0}
          /\ totalPages \in Nat \ {0}
        BY ListeHypotheses DEF Inv, TypeOK, Comptages
    <2>2. VueJuste
        BY DEF InvPages
    <2>3. CASE liste.page < totalPages
        BY <2>1, <2>2, <2>3, TailleTranche DEF VueJuste, PagesRemplies
    <2>4. CASE liste.page = totalPages
        BY <2>1, <2>2, <2>4, TailleTranche DEF VueJuste, PagesRemplies
    <2> QED
        BY <2>1, <2>2, <2>3, <2>4 DEF VueJuste
<1> QED
    BY <1>1, InvariantDesPages, InvariantDeLaListe, PTL

-----------------------------------------------------------------------------
(* The component takes the steps of VueListe. *)

\* The demand that a request stands for.
Dem(q) == [n |-> q.n, recherche |-> q.recherche, page |-> q.page]

\* Requests with different numbers are different demands.
LEMMA DemandesDistinctes ==
    ASSUME NEW q, NEW s, Dem(q) = Dem(s) PROVE q.n = s.n
BY DEF Dem

\* A request that ends takes its demand, and no other, away.
LEMMA DemandeRetiree ==
    ASSUME Inv, NEW q \in enVol, enVol' = enVol \ {q}
    PROVE  {Dem(s) : s \in enVol'} = {Dem(s) : s \in enVol} \ {Dem(q)}
BY DemandesDistinctes DEF Inv, RequetesOK

\* The initial states are those of VueListe.
LEMMA PromesseInit == Init => Promesse!Init
BY ListeHypotheses DEF Init, Promesse!Init, Nouvel

\* Every step is a step of VueListe or changes nothing of it.
LEMMA PromesseEtape == Inv /\ [Next]_vars => [Promesse!Next]_(Promesse!vars)
<1> SUFFICES ASSUME Inv, [Next]_vars PROVE [Promesse!Next]_(Promesse!vars)
    OBVIOUS
<1> DEFINE D == {Dem(q) : q \in enVol}
<1>0. /\ D = {[n |-> q.n, recherche |-> q.recherche, page |-> q.page]
                 : q \in enVol}
      /\ D' = {[n |-> q.n, recherche |-> q.recherche, page |-> q.page]
                 : q \in enVol'}
    BY DEF Dem
<1>1. ASSUME NEW p, NEW e, LoadLivres(p, e) PROVE Promesse!Demander
    <2> DEFINE q == Nouvel(envois + 1, saisie, p)
    <2>1. /\ isLoading' = TRUE /\ liste' = liste /\ enVol' = enVol \cup {q}
        BY <1>1 DEF LoadLivres
    <2>2. q.n = envois + 1 /\ Dem(q).n = envois + 1
        BY DEF Nouvel, Dem
    <2> HIDE DEF q
    <2>3. \A d \in D : d.n < Dem(q).n
        <3>1. envois \in Nat /\ \A s \in enVol : s.n \in Nat /\ s.n <= envois
            BY ListeHypotheses DEF Inv, RequetesOK, TypeOK, Envoi
        <3> QED
            BY <2>2, <3>1 DEF Dem
    <2>4. D' = D \cup {Dem(q)}
        BY <2>1
    <2>5. Dem(q) \notin D
        BY <2>2, <2>3, ListeHypotheses DEF Inv, TypeOK
    <2> HIDE DEF D
    <2> QED
        BY <1>0, <2>1, <2>3, <2>4, <2>5 DEF Promesse!Demander
<1>2. CASE OnSearch \/ GoToPage
    BY <1>1, <1>2 DEF OnSearch, GoToPage, Promesse!Next
<1>3. ASSUME NEW q \in enVol, Serveur(q) PROVE UNCHANGED Promesse!vars
    <2>1. PICK s \in Envoi :
            /\ s.n = q.n /\ s.page = q.page /\ s.recherche = q.recherche
            /\ enVol' = (enVol \ {q}) \cup {s}
        BY <1>3, ServeurForme
    <2>2. isLoading' = isLoading /\ liste' = liste
        BY <1>3, ServeurForme
    <2>3. Dem(s) = Dem(q)
        BY <2>1 DEF Dem
    <2>4. D' = D
        BY <2>1, <2>3
    <2> QED
        BY <1>0, <2>2, <2>4 DEF Promesse!vars
<1>4. ASSUME NEW q \in enVol, Reseau(q) PROVE Promesse!Next
    <2>1. enVol' = enVol \ {q} /\ isLoading' = FALSE
        BY <1>4 DEF Reseau, RecevoirReponse, RecevoirErreur, FinErreur
    <2>2. D' = D \ {Dem(q)} /\ Dem(q) \in D
        BY <2>1, DemandeRetiree
    <2>3. CASE RecevoirReponse(q)
        <3>1. PICK t \in 0 .. q.taille :
                liste' = [n |-> q.n, recherche |-> q.recherche, page |-> q.page,
                          taille |-> t]
            BY <2>3 DEF RecevoirReponse, Reponse
        <3>2. /\ t \in 0 .. Limite
              /\ liste' = [n |-> Dem(q).n, recherche |-> Dem(q).recherche,
                           page |-> Dem(q).page, taille |-> t]
            BY <3>1, LimiteHypothese DEF Inv, TypeOK, Envoi, Dem
        <3> HIDE DEF D
        <3>3. Promesse!Repondre(Dem(q))
            BY <1>0, <2>1, <2>2, <3>2 DEF Promesse!Repondre
        <3> QED
            BY <1>0, <2>2, <3>3 DEF Promesse!Next
    <2>4. CASE RecevoirErreur(q)
        <3> HIDE DEF D
        <3>1. Promesse!Echouer(Dem(q))
            BY <1>0, <2>1, <2>2, <2>4 DEF RecevoirErreur, Promesse!Echouer
        <3> QED
            BY <1>0, <2>2, <3>1 DEF Promesse!Next
    <2> QED
        BY <1>4, <2>3, <2>4 DEF Reseau
<1>5. CASE Saisir \/ ModifierCatalogue \/ UNCHANGED vars
    BY <1>5 DEF Saisir, ModifierCatalogue, vars, Promesse!vars
<1> QED
    BY <1>2, <1>3, <1>4, <1>5 DEF Next

\* The component implements the safety of VueListe: it shows one answer at a
\* time, whole, and the spinner turns from a request to the next answer or failure
\* (LivresList; that every request is answered is left to model checking).
THEOREM ImplementeVueListe ==
    Spec => Promesse!Init /\ [][Promesse!Next]_(Promesse!vars)
BY PromesseInit, PromesseEtape, InvariantDeLaListe, PTL DEF Spec
=============================================================================

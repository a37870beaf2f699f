-------------------------- MODULE Catalogue_proofs --------------------------
(***************************************************************************)
(* Proofs about Catalogue, for any number of workers, books, authors and   *)
(* categories: the join tables stay valid, a form leaves the links it was  *)
(* submitted with, and the search is exact.                                *)
(***************************************************************************)
EXTENDS Catalogue, TLAPS

\* What Inv says of one request.
RequeteOK(r) ==
    /\ r.op \in {"edit", "delete"} => r.id \in Ids \ neufs
    /\ r.op = "edit" /\ r.choix \cup r.lu # {} => r.id \in Livres
    /\ r.op = "new" => /\ r.lu = {}
                       /\ r.choix # {} => r.table = "livre"
    /\ r.choix \cap neufs = {}
    /\ r.op = "edit" /\ r.seul => r.lu = LiensDe(r.id)

\* Inv in two parts.
LEMMA InvEnParties ==
    Inv <=> TypeOK /\ LiensValides /\ \A w \in Workers : RequeteOK(requetes[w])
BY DEF Inv, RequeteOK

\* Repos is a request.
LEMMA ReposType == Repos \in Requete
BY DEF Repos, Requete

\* The ids of the table of books are those of Livres.
LEMMA TableLivre == Table("livre") = Livres
BY DEF Table

\* The invariant holds at first.
LEMMA InitInv == Init => Inv
BY ReposType DEF Init, Inv, TypeOK, LiensValides, Repos

\* A request that satisfies its part may be received.
LEMMA RecevoirInv ==
    ASSUME Inv, NEW w \in Workers, NEW r \in Requete, RequeteOK(r),
           Recevoir(w, r)
    PROVE  Inv'
<1>0. TypeOK /\ LiensValides /\ \A v \in Workers : RequeteOK(requetes[v])
    BY InvEnParties
<1>1. requetes' = [requetes EXCEPT ![w] = r]
      /\ UNCHANGED <<lignes, neufs, liens, texte>>
    BY DEF Recevoir
<1>2. TypeOK' /\ LiensValides'
    BY <1>0, <1>1 DEF TypeOK, LiensValides
<1>3. ASSUME NEW v \in Workers PROVE RequeteOK(requetes[v])'
    <2>1. requetes'[v] = r \/ requetes'[v] = requetes[v]
        BY <1>0, <1>1 DEF TypeOK
    <2> QED
        BY <2>1, <1>0, <1>1 DEF RequeteOK, LiensDe
<1> QED
    BY <1>2, <1>3 DEF Inv, RequeteOK

\* Nouveau: only a book has links, to rows of the tables.
LEMMA NouveauInv == ASSUME Inv, NEW w \in Workers, Nouveau(w) PROVE Inv'
<1>0. PICK t \in {"livre", "auteur", "categorie"}, m \in SUBSET Mots :
        \E s \in Choix(t = "livre") :
            Recevoir(w, [Repos EXCEPT !.op = "new", !.table = t, !.choix = s,
                                      !.mots = m, !.texteChange = TRUE])
    BY DEF Nouveau
<1>1. PICK s \in Choix(t = "livre") :
        Recevoir(w, [Repos EXCEPT !.op = "new", !.table = t, !.choix = s,
                                  !.mots = m, !.texteChange = TRUE])
    BY <1>0
<1> DEFINE r == [Repos EXCEPT !.op = "new", !.table = t, !.choix = s,
                              !.mots = m, !.texteChange = TRUE]
<1>2. s \subseteq lignes \cap Notices /\ (s # {} => t = "livre")
    BY DEF Choix
<1>3. r \in Requete
    BY <1>2 DEF Requete, Repos
<1>4. r.op = "new" /\ r.table = t /\ r.choix = s /\ r.lu = {}
    BY DEF Repos
<1> HIDE DEF r
<1>5. RequeteOK(r)
    BY <1>2, <1>4 DEF RequeteOK, Inv, LiensValides
<1>6. Recevoir(w, r)
    BY <1>1 DEF r
<1> QED
    BY <1>3, <1>5, <1>6, RecevoirInv

\* Editer: a row of the tables, and links for a book only.
LEMMA EditerInv == ASSUME Inv, NEW w \in Workers, Editer(w) PROVE Inv'
<1>0. PICK i \in lignes, m \in SUBSET Mots : \E s \in Choix(i \in Livres) :
        Recevoir(w, [op |-> "edit", id |-> i, table |-> "aucune",
                     lu |-> LiensDe(i), choix |-> s,
                     mots |-> IF m # texte[i] THEN m ELSE {},
                     texteChange |-> m # texte[i], seul |-> TRUE])
    BY DEF Editer
<1>1. PICK s \in Choix(i \in Livres) :
        Recevoir(w, [op |-> "edit", id |-> i, table |-> "aucune",
                     lu |-> LiensDe(i), choix |-> s,
                     mots |-> IF m # texte[i] THEN m ELSE {},
                     texteChange |-> m # texte[i], seul |-> TRUE])
    BY <1>0
<1> DEFINE b == m # texte[i]
           d == LiensDe(i)
           t == IF m # texte[i] THEN m ELSE {}
           r == [op |-> "edit", id |-> i, table |-> "aucune", lu |-> d,
                 choix |-> s, mots |-> t, texteChange |-> b,
                 seul |-> TRUE]
<1>2. s \subseteq lignes \cap Notices /\ (s # {} => i \in Livres)
    BY DEF Choix
<1>3. d \subseteq Notices /\ (d # {} => i \in Livres)
    BY DEF LiensDe, Inv, TypeOK
<1>4. b \in BOOLEAN /\ t \in SUBSET Mots /\ i \in Ids \ neufs
    BY DEF Inv, TypeOK, LiensValides
<1>5. Recevoir(w, r)
    BY <1>1
<1>6. d = LiensDe(i)
    OBVIOUS
<1> HIDE DEF b, d, t
<1>7. r \in Requete
    BY <1>2, <1>3, <1>4 DEF Requete
<1>8. RequeteOK(r)
    BY <1>2, <1>3, <1>4, <1>6 DEF RequeteOK, Inv, LiensValides
<1> HIDE DEF r
<1> QED
    BY <1>5, <1>7, <1>8, RecevoirInv

\* Supprimer: a row of the tables.
LEMMA SupprimerInv == ASSUME Inv, NEW w \in Workers, Supprimer(w) PROVE Inv'
<1>1. PICK i \in lignes : Recevoir(w, [Repos EXCEPT !.op = "delete", !.id = i])
    BY DEF Supprimer
<1> DEFINE r == [Repos EXCEPT !.op = "delete", !.id = i]
<1>2. i \in Ids \ neufs
    BY DEF Inv, TypeOK, LiensValides
<1>3. r \in Requete
    BY <1>2 DEF Requete, Repos
<1>4. r.op = "delete" /\ r.id = i /\ r.choix = {}
    BY DEF Repos
<1> HIDE DEF r
<1>5. RequeteOK(r)
    BY <1>2, <1>4 DEF RequeteOK
<1>6. Recevoir(w, r)
    BY <1>1 DEF r
<1> QED
    BY <1>3, <1>5, <1>6, RecevoirInv

\* A request that ends leaves the others as they were; ids are only used up.
LEMMA FinInv ==
    ASSUME Inv, NEW w \in Workers, Fin(w), neufs' \subseteq neufs,
           LiensValides', (lignes \subseteq Ids)',
           (liens \subseteq Livres \X Notices)', (texte \in [Ids -> SUBSET Mots])'
    PROVE  Inv'
<1>0. TypeOK /\ \A v \in Workers : RequeteOK(requetes[v])
    BY InvEnParties
<1>1. requetes'[w] = Repos
    BY DEF Fin
<1>2. ASSUME NEW v \in Workers, v # w
      PROVE  requetes'[v] \in Requete /\ RequeteOK(requetes[v])'
    <2>1. PICK r \in Requete : r = requetes[v] /\ RequeteOK(r)
        BY <1>0 DEF TypeOK
    <2>2. PICK b \in BOOLEAN :
            b = (r.seul /\ \A n \in Notices : ~Change(<<r.id, n>>))
        OBVIOUS
    <2>3. PICK s : s = [r EXCEPT !.seul = b]
        OBVIOUS
    <2>4. requetes'[v] = s
        BY <1>2, <2>1, <2>2, <2>3 DEF Fin
    <2>5. b => r.seul /\ LiensDe(r.id)' = LiensDe(r.id)
        BY <2>2 DEF LiensDe, Change
    <2>6. s \in Requete
        BY <2>3 DEF Requete
    <2>7. /\ s.op = r.op /\ s.id = r.id /\ s.table = r.table /\ s.lu = r.lu
          /\ s.choix = r.choix /\ s.seul = b
        BY <2>3 DEF Requete
    <2>8. RequeteOK(s)'
        BY <2>1, <2>5, <2>7 DEF RequeteOK
    <2> QED
        BY <2>4, <2>6, <2>8 DEF RequeteOK
<1>3. RequeteOK(requetes[w])'
    BY <1>1 DEF RequeteOK, Repos
<1>4. (requetes \in [Workers -> Requete])'
    BY <1>1, <1>2, ReposType DEF Fin
<1>5. TypeOK'
    BY <1>0, <1>4 DEF TypeOK
<1> QED
    BY <1>2, <1>3, <1>5 DEF Inv, RequeteOK

\* FlushNouveau: the foreign keys hold, and the id is used up.
LEMMA FlushNouveauInv ==
    ASSUME Inv, NEW w \in Workers, FlushNouveau(w) PROVE Inv'
<1> DEFINE r == requetes[w]
<1>0. TypeOK /\ LiensValides /\ RequeteOK(r)
    BY InvEnParties
<1>1. PICK i \in neufs \cap Table(r.table) :
        /\ ClesEtrangeres(r, i)
        /\ lignes' = lignes \cup {i} /\ neufs' = neufs \ {i}
        /\ liens' = LiensApres(r, i)
        /\ texte' = [texte EXCEPT ![i] = r.mots]
    BY DEF FlushNouveau
<1>2. r \in Requete /\ i \in Ids
    BY <1>0 DEF TypeOK
<1>3. r.op = "new" /\ Fin(w)
    BY DEF FlushNouveau
<1>4. Ajout(r) \subseteq Notices \cap lignes /\ (Ajout(r) # {} => i \in Livres)
    BY <1>0, <1>1, <1>2, <1>3, TableLivre
    DEF RequeteOK, ClesEtrangeres, Requete, Ajout
<1>5. \A k \in liens' : k \in liens \/ (k \in {i} \X Ajout(r))
    BY <1>1 DEF LiensApres
<1>6. (liens \subseteq Livres \X Notices)'
    BY <1>0, <1>4, <1>5 DEF TypeOK
<1>7. LiensValides'
    BY <1>0, <1>1, <1>4, <1>5 DEF LiensValides
<1>8. (texte \in [Ids -> SUBSET Mots])' /\ (lignes \subseteq Ids)'
    BY <1>0, <1>1, <1>2 DEF TypeOK, Requete
<1> QED
    BY <1>1, <1>3, <1>6, <1>7, <1>8, FinInv

\* FlushEdition: a book that is gone cannot be linked again.
LEMMA FlushEditionInv ==
    ASSUME Inv, NEW w \in Workers, FlushEdition(w) PROVE Inv'
<1> DEFINE r == requetes[w]
<1>0. TypeOK /\ LiensValides /\ RequeteOK(r) /\ r \in Requete
    BY InvEnParties DEF TypeOK
<1>1. /\ r.op = "edit" /\ ClesEtrangeres(r, r.id) /\ Fin(w)
      /\ liens' = LiensApres(r, r.id) /\ UNCHANGED <<lignes, neufs>>
    BY DEF FlushEdition
<1>2. /\ Ajout(r) \subseteq Notices \cap lignes
      /\ Ajout(r) # {} => r.id \in Livres \cap lignes
    BY <1>0, <1>1 DEF RequeteOK, ClesEtrangeres, Requete, Ajout
<1>3. \A k \in liens' : k \in liens \/ (k \in {r.id} \X Ajout(r))
    BY <1>1 DEF LiensApres
<1>4. (liens \subseteq Livres \X Notices)'
    BY <1>0, <1>2, <1>3 DEF TypeOK
<1>5. LiensValides'
    BY <1>0, <1>1, <1>2, <1>3 DEF LiensValides
<1>6. (texte \in [Ids -> SUBSET Mots])'
    BY <1>0 DEF TypeOK, Requete, FlushEdition
<1> QED
    BY <1>0, <1>1, <1>4, <1>5, <1>6, FinInv DEF TypeOK

\* FlushSuppression: the links of the row go with it.
LEMMA FlushSuppressionInv ==
    ASSUME Inv, NEW w \in Workers, FlushSuppression(w) PROVE Inv'
<1>0. TypeOK /\ LiensValides
    BY InvEnParties
<1>1. /\ Fin(w) /\ neufs' = neufs /\ lignes' = lignes \ {requetes[w].id}
      /\ liens' = SansLiens(requetes[w].id)
      /\ texte' = [texte EXCEPT ![requetes[w].id] = {}]
    BY DEF FlushSuppression
<1>2. LiensValides' /\ (liens \subseteq Livres \X Notices)'
    BY <1>0, <1>1 DEF LiensValides, TypeOK, SansLiens
<1>3. (texte \in [Ids -> SUBSET Mots])' /\ (lignes \subseteq Ids)'
    BY <1>0, <1>1 DEF TypeOK
<1> QED
    BY <1>1, <1>2, <1>3, FinInv

\* Echec: nothing but the worker's rest.
LEMMA EchecInv == ASSUME Inv, NEW w \in Workers, Echec(w) PROVE Inv'
<1>0. TypeOK /\ LiensValides
    BY InvEnParties
<1> QED
    BY <1>0, FinInv DEF Echec, TypeOK, LiensValides

\* Every step keeps the invariant.
LEMMA NextInv == Inv /\ [Next]_vars => Inv'
<1> SUFFICES ASSUME Inv, [Next]_vars PROVE Inv'
    OBVIOUS
<1>1. CASE Next
    BY <1>1, NouveauInv, EditerInv, SupprimerInv, FlushNouveauInv,
       FlushEditionInv, FlushSuppressionInv, EchecInv DEF Next
<1>2. CASE UNCHANGED vars
    BY <1>2 DEF vars, Inv, TypeOK, LiensValides, LiensDe
<1> QED
    BY <1>1, <1>2

\* Types and the inductive invariant, in every reachable state.
LEMMA InvariantDuCatalogue == Spec => []Inv
BY InitInv, NextInv, PTL DEF Spec

\* No link is left to a book, an author or a category that is gone, whichever
\* forms and deletions race (the join tables, their keys and their cascades).
THEOREM LiensToujoursValides == Spec => []LiensValides
<1>1. Inv => LiensValides
    BY DEF Inv
<1> QED
    BY <1>1, InvariantDuCatalogue, PTL

-----------------------------------------------------------------------------
(* A form leaves the links it was submitted with. *)

\* One step: what the request read is still there when nobody changed it, and the
\* difference is made to what the others left.
LEMMA EtapeDuFormulaire == Inv => [ChoixEnregistre]_vars
<1> SUFFICES ASSUME Inv, NEW w \in Workers, FlushEdition(w), NEW n \in Notices
             PROVE  LET r == requetes[w]
                        k == <<r.id, n>>
                    IN  /\ r.seul => (k \in liens' <=> n \in r.choix)
                        /\ (n \in r.lu) # (k \in liens) => ~Change(k)
    BY DEF ChoixEnregistre
<1> DEFINE r == requetes[w]
           k == <<r.id, n>>
<1>1. r.op = "edit" /\ liens' = LiensApres(r, r.id)
    BY DEF FlushEdition
<1>2. k \in liens' <=> (k \in liens /\ n \notin Retrait(r)) \/ n \in Ajout(r)
    BY <1>1 DEF LiensApres
<1>3. n \in Ajout(r) => k \notin liens
    BY DEF FlushEdition, ClePrimaire, LiensDe
<1>4. r.seul => (n \in r.lu <=> k \in liens)
    BY <1>1 DEF Inv, LiensDe
<1> QED
    BY <1>2, <1>3, <1>4 DEF Ajout, Retrait, Change

\* A submitted form leaves exactly the links that were chosen in it, whatever the
\* others saved since it was displayed, unless another request changed links of the
\* book while it was being handled: then what was added or taken away meanwhile
\* stays as that request left it (addAuteur, removeAuteur, the difference Doctrine
\* saves and the primary key of the join tables).
THEOREM FormulaireEnregistre == Spec => DernierFormulaire
BY InvariantDuCatalogue, EtapeDuFormulaire, PTL DEF Spec, DernierFormulaire

-----------------------------------------------------------------------------
(* The search. *)

\* The left join meets a criterion on a table when a linked row of it does, or
\* when the field is empty.
LEMMA JointureJuste ==
    ASSUME NEW l \in Livres, NEW T, T = Auteurs \/ T = Categories, NEW mot
    PROVE  (\E i \in JointureGauche(l, T) : mot # Vide => Contient(i, mot))
               <=> (mot # Vide => \E i \in LiensDe(l) \cap T : mot \in texte[i])
<1>1. \A i \in LiensDe(l) \cap T : i # Nul
    BY CatalogueHypotheses DEF Ids, Notices
<1>2. CASE LiensDe(l) \cap T = {}
    <2>1. JointureGauche(l, T) = {Nul}
        BY <1>2 DEF JointureGauche
    <2> QED
        BY <1>2, <2>1 DEF Contient
<1>3. CASE LiensDe(l) \cap T # {}
    <2>1. JointureGauche(l, T) = LiensDe(l) \cap T
        BY <1>3 DEF JointureGauche
    <2> QED
        BY <1>1, <1>3, <2>1 DEF Contient
<1> QED
    BY <1>2, <1>3

\* The books found, in every state.
LEMMA LivresTrouves ==
    ASSUME NEW k \in Criteres, NEW l \in lignes \cap Livres
    PROVE  l \in Trouves(k) <=>
             /\ k.titre # Vide => k.titre \in texte[l]
             /\ k.auteur # Vide =>
                 \E a \in LiensDe(l) \cap Auteurs : k.auteur \in texte[a]
             /\ k.categorie # Vide =>
                 \E c \in LiensDe(l) \cap Categories : k.categorie \in texte[c]
<1>1. /\ JointureGauche(l, Auteurs) \subseteq Auteurs \cup {Nul}
      /\ JointureGauche(l, Categories) \subseteq Categories \cup {Nul}
    BY DEF JointureGauche
<1>2. l # Nul
    BY CatalogueHypotheses DEF Ids
<1>3. l \in Trouves(k) <=>
        /\ k.titre # Vide => Contient(l, k.titre)
        /\ \E a \in JointureGauche(l, Auteurs) :
              k.auteur # Vide => Contient(a, k.auteur)
        /\ \E c \in JointureGauche(l, Categories) :
              k.categorie # Vide => Contient(c, k.categorie)
    <2>1. ASSUME l \in Trouves(k)
          PROVE  /\ k.titre # Vide => Contient(l, k.titre)
                 /\ \E a \in JointureGauche(l, Auteurs) :
                       k.auteur # Vide => Contient(a, k.auteur)
                 /\ \E c \in JointureGauche(l, Categories) :
                       k.categorie # Vide => Contient(c, k.categorie)
        BY <2>1 DEF Trouves, RangeesGardees
    <2>2. ASSUME k.titre # Vide => Contient(l, k.titre),
                 NEW a \in JointureGauche(l, Auteurs),
                 k.auteur # Vide => Contient(a, k.auteur),
                 NEW c \in JointureGauche(l, Categories),
                 k.categorie # Vide => Contient(c, k.categorie)
          PROVE  l \in Trouves(k)
        <3> DEFINE t == <<l, a, c>>
        <3>1. t \in Livres \X (Auteurs \cup {Nul}) \X (Categories \cup {Nul})
            BY <1>1
        <3>2. t[1] = l /\ t[2] = a /\ t[3] = c
            OBVIOUS
        <3> HIDE DEF t
        <3>3. t \in RangeesGardees(k)
            BY <2>2, <3>1, <3>2 DEF RangeesGardees
        <3> QED
            BY <3>2, <3>3 DEF Trouves
    <2> QED
        BY <2>1, <2>2
<1>4. (k.titre # Vide => Contient(l, k.titre))
        <=> (k.titre # Vide => k.titre \in texte[l])
    BY <1>2 DEF Contient
<1>5. (\E a \in JointureGauche(l, Auteurs) :
          k.auteur # Vide => Contient(a, k.auteur))
        <=> (k.auteur # Vide =>
                \E a \in LiensDe(l) \cap Auteurs : k.auteur \in texte[a])
    BY JointureJuste
<1>6. (\E c \in JointureGauche(l, Categories) :
          k.categorie # Vide => Contient(c, k.categorie))
        <=> (k.categorie # Vide =>
                \E c \in LiensDe(l) \cap Categories : k.categorie \in texte[c])
    BY JointureJuste
<1> QED
    BY <1>3, <1>4, <1>5, <1>6

\* The authors that come with a book found, in every state.
LEMMA AuteursTrouves ==
    ASSUME NEW k \in Criteres, NEW l \in lignes \cap Livres, l \in Trouves(k)
    PROVE  AuteursMontres(k, l) =
             {a \in LiensDe(l) \cap Auteurs :
                 k.auteur # Vide => k.auteur \in texte[a]}
<1>1. PICK t \in RangeesGardees(k) : t[1] = l
    BY DEF Trouves
<1>2. ASSUME NEW a \in AuteursMontres(k, l)
      PROVE  a \in LiensDe(l) \cap Auteurs /\ (k.auteur # Vide => k.auteur \in texte[a])
    <2>1. PICK x \in RangeesGardees(k) : x[1] = l /\ x[2] = a /\ a # Nul
        BY DEF AuteursMontres
    <2>2. a \in JointureGauche(l, Auteurs) /\ (k.auteur # Vide => Contient(a, k.auteur))
        BY <2>1 DEF RangeesGardees
    <2> QED
        BY <2>1, <2>2 DEF JointureGauche, Contient
<1>3. ASSUME NEW a \in LiensDe(l) \cap Auteurs, k.auteur # Vide => k.auteur \in texte[a]
      PROVE  a \in AuteursMontres(k, l)
    <2> DEFINE x == <<l, a, t[3]>>
    <2>1. a # Nul
        BY CatalogueHypotheses DEF Ids, Notices
    <2>2. a \in JointureGauche(l, Auteurs) /\ (k.auteur # Vide => Contient(a, k.auteur))
        BY <1>3, <2>1 DEF JointureGauche, Contient
    <2>3. x \in Livres \X (Auteurs \cup {Nul}) \X (Categories \cup {Nul})
        BY <1>1 DEF RangeesGardees
    <2>4. x[1] = l /\ x[2] = a /\ x[3] = t[3]
        OBVIOUS
    <2> HIDE DEF x
    <2>5. x \in RangeesGardees(k)
        BY <1>1, <2>2, <2>3, <2>4 DEF RangeesGardees
    <2> QED
        BY <2>1, <2>4, <2>5 DEF AuteursMontres
<1> QED
    BY <1>2, <1>3

\* Both parts, in every state.
LEMMA RechercheExacte == RechercheJuste
BY LivresTrouves, AuteursTrouves DEF RechercheJuste

\* A search finds exactly the books whose title, one of whose authors and one of
\* whose categories contain the words asked for, each with the authors that match
\* (findBySearchCriteria), in every reachable catalogue.
THEOREM RechercheToujoursJuste == Spec => []RechercheJuste
BY RechercheExacte, PTL
=============================================================================

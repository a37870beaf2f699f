----------------------------- MODULE Catalogue -----------------------------
(***************************************************************************)
(* The catalogue: books, authors and categories, the join tables           *)
(* livre_auteur and livre_categorie, the back-office forms that write them *)
(* and the search over them.  Authors and categories are called notices: a *)
(* book is linked to both in the same way.  A form that is submitted reads *)
(* the links of its book as they are then, whatever it was displayed with, *)
(* and its flush deletes and inserts the difference with what was chosen.  *)
(***************************************************************************)
EXTENDS Integers, FiniteSets

CONSTANTS
    Workers,              \* PHP workers, each serving one request at a time
    Livres, Auteurs, Categories,   \* ids the tables may give (bounds)
    Mots,                 \* words of a title or a name that a search may ask for
    Vide,                 \* a search field that PHP's empty() skips: '' or '0'
    Nul                   \* the right side of a left join that finds no row

Notices == Auteurs \cup Categories
Ids == Livres \cup Notices

\* The three tables, each with its own ids.
Table(t) == CASE t = "livre" -> Livres
              [] t = "auteur" -> Auteurs
              [] t = "categorie" -> Categories
              [] OTHER -> {}

VARIABLES
    lignes,               \* ids of the rows of the three tables
    neufs,                \* ids not yet given: AUTO_INCREMENT gives none twice
    liens,                \* the join tables: pairs <<book, notice>>
    texte,                \* texte[i]: the words of the title or the names of i
    requetes              \* the request each worker is serving

vars == <<lignes, neufs, liens, texte, requetes>>

ASSUME CatalogueHypotheses ==
    /\ Livres \cap Notices = {} /\ Auteurs \cap Categories = {}
    /\ Vide \notin Mots /\ Nul \notin Ids

\* id: the row the form is about, Nul for a new row of the table; lu: the links of
\* the book as the request read them; choix: those the form was submitted with;
\* mots: the text to write, when it changed (texteChange); seul (history): no other
\* request changed the links of the book since.
Requete == [op : {"repos", "new", "edit", "delete"}, id : Ids \cup {Nul},
            table : {"livre", "auteur", "categorie", "aucune"},
            lu : SUBSET Notices, choix : SUBSET Notices,
            mots : SUBSET Mots, texteChange : BOOLEAN, seul : BOOLEAN]

Repos == [op |-> "repos", id |-> Nul, table |-> "aucune", lu |-> {},
          choix |-> {}, mots |-> {}, texteChange |-> FALSE, seul |-> TRUE]

\* The links to insert and to delete: PersistentCollection::getInsertDiff and
\* getDeleteDiff.
Ajout(r) == r.choix \ r.lu
Retrait(r) == r.lu \ r.choix

LiensDe(l) == {n \in Notices : <<l, n>> \in liens}

Init ==
    /\ lignes = {} /\ neufs = Ids /\ liens = {}
    /\ texte = [i \in Ids |-> {}]
    /\ requetes = [w \in Workers |-> Repos]

-----------------------------------------------------------------------------
(* A form is submitted. *)

Recevoir(w, r) ==
    /\ requetes[w].op = "repos"
    /\ requetes' = [requetes EXCEPT ![w] = r]
    /\ UNCHANGED <<lignes, neufs, liens, texte>>

\* The notices a form may choose: those of the tables, for a book only.
Choix(livre) == IF livre THEN SUBSET (lignes \cap Notices) ELSE {{}}

Nouveau(w) == \E t \in {"livre", "auteur", "categorie"}, m \in SUBSET Mots :
    \E s \in Choix(t = "livre") :
        Recevoir(w, [Repos EXCEPT !.op = "new", !.table = t, !.choix = s,
                                  !.mots = m, !.texteChange = TRUE])

\* by_reference is false: the form calls addAuteur and removeAuteur for what
\* differs from the collection as it is now.  The form was displayed by an earlier
\* request, that leaves nothing on the server.
Editer(w) == \E i \in lignes, m \in SUBSET Mots : \E s \in Choix(i \in Livres) :
    Recevoir(w, [op |-> "edit", id |-> i, table |-> "aucune",
                 lu |-> LiensDe(i), choix |-> s,
                 mots |-> IF m # texte[i] THEN m ELSE {},
                 texteChange |-> m # texte[i], seul |-> TRUE])

Supprimer(w) == \E i \in lignes :
    Recevoir(w, [Repos EXCEPT !.op = "delete", !.id = i])

-----------------------------------------------------------------------------
(* flush() *)

Change(k) == (k \in liens) # (k \in liens')

Fin(w) == requetes' = [v \in Workers |->
    IF v = w THEN Repos
    ELSE [requetes[v] EXCEPT
             !.seul = @ /\ \A n \in Notices : ~Change(<<requetes[v].id, n>>)]]

\* The foreign keys of the join tables.
ClesEtrangeres(r, i) ==
    /\ Ajout(r) # {} => i \in lignes \cup neufs
    /\ Ajout(r) \subseteq lignes

\* The primary key of the join tables.
ClePrimaire(r) == Ajout(r) \cap LiensDe(r.id) = {}

\* Mutant: the links of the book are replaced by the ones the form added.
LiensApres_remplaces(r, i) ==
    (liens \ ({i} \X Notices)) \cup ({i} \X Ajout(r))

LiensApres(r, i) ==
    (liens \ ({i} \X Retrait(r))) \cup ({i} \X Ajout(r))

FlushNouveau(w) ==
    LET r == requetes[w]
    IN  /\ r.op = "new"
        /\ \E i \in neufs \cap Table(r.table) :
            /\ ClesEtrangeres(r, i)
            /\ lignes' = lignes \cup {i} /\ neufs' = neufs \ {i}
            /\ liens' = LiensApres(r, i)
            /\ texte' = [texte EXCEPT ![i] = r.mots]
        /\ Fin(w)

\* An UPDATE of a row that is gone writes nothing.
FlushEdition(w) ==
    LET r == requetes[w]
    IN  /\ r.op = "edit"
        /\ ClesEtrangeres(r, r.id) /\ ClePrimaire(r)
        /\ liens' = LiensApres(r, r.id)
        /\ texte' = IF r.texteChange /\ r.id \in lignes
                    THEN [texte EXCEPT ![r.id] = r.mots] ELSE texte
        /\ Fin(w)
        /\ UNCHANGED <<lignes, neufs>>

\* Mutant: the deletion of a notice leaves its links.
SansLiens_livres(i) == {k \in liens : k[1] # i}

\* ON DELETE CASCADE
SansLiens(i) == {k \in liens : k[1] # i /\ k[2] # i}

FlushSuppression(w) ==
    LET r == requetes[w]
    IN  /\ r.op = "delete"
        /\ lignes' = lignes \ {r.id}
        /\ liens' = SansLiens(r.id)
        /\ texte' = [texte EXCEPT ![r.id] = {}]
        /\ Fin(w)
        /\ UNCHANGED neufs

\* A constraint fails, a loan holds the book, or the request dies.
Echec(w) ==
    /\ requetes[w].op # "repos"
    /\ UNCHANGED <<lignes, neufs, liens, texte>>
    /\ Fin(w)

Next == \E w \in Workers :
    \/ Nouveau(w) \/ Editer(w) \/ Supprimer(w)
    \/ FlushNouveau(w) \/ FlushEdition(w) \/ FlushSuppression(w)
    \/ Echec(w)

Spec == Init /\ [][Next]_vars

-----------------------------------------------------------------------------
(* LivreRepository::findBySearchCriteria: the rows of two left joins, kept   *)
(* when they satisfy every criterion.                                        *)

Criteres == [titre : Mots \cup {Vide}, auteur : Mots \cup {Vide},
             categorie : Mots \cup {Vide}]

\* Mutant: an inner join.
JointureGauche_interne(l, table) == LiensDe(l) \cap table

JointureGauche(l, table) ==
    IF LiensDe(l) \cap table = {} THEN {Nul} ELSE LiensDe(l) \cap table

\* WHERE x LIKE '%mot%', that is false when x is NULL.
Contient(i, mot) == i # Nul /\ mot \in texte[i]

\* The rows <<book, author or NULL, category or NULL>> of the query.
RangeesGardees(k) ==
    {t \in Livres \X (Auteurs \cup {Nul}) \X (Categories \cup {Nul}) :
        /\ t[1] \in lignes
        /\ t[2] \in JointureGauche(t[1], Auteurs)
        /\ t[3] \in JointureGauche(t[1], Categories)
        /\ k.titre # Vide => Contient(t[1], k.titre)
        /\ k.auteur # Vide => Contient(t[2], k.auteur)
        /\ k.categorie # Vide => Contient(t[3], k.categorie)}

Trouves(k) == {t[1] : t \in RangeesGardees(k)}

\* The authors the answer gives with a book: those of the rows kept.
AuteursMontres(k, l) ==
    {t[2] : t \in {x \in RangeesGardees(k) : x[1] = l}} \ {Nul}

-----------------------------------------------------------------------------
(* Properties. *)

TypeOK ==
    /\ lignes \subseteq Ids /\ neufs \subseteq Ids
    /\ liens \subseteq Livres \X Notices
    /\ texte \in [Ids -> SUBSET Mots]
    /\ requetes \in [Workers -> Requete]

\* No link is left to a book, an author or a category that is gone, and an id is
\* never given twice, whichever forms and deletions race: the lists of a book
\* show only notices that exist.
LiensValides ==
    /\ \A k \in liens : k[1] \in lignes /\ k[2] \in lignes
    /\ lignes \cap neufs = {}

Inv ==
    /\ TypeOK /\ LiensValides
    /\ \A w \in Workers :
        LET r == requetes[w]
        IN  /\ r.op \in {"edit", "delete"} => r.id \in Ids \ neufs
            /\ r.op = "edit" /\ r.choix \cup r.lu # {} => r.id \in Livres
            /\ r.op = "new" => /\ r.lu = {}
                               /\ r.choix # {} => r.table = "livre"
            /\ r.choix \cap neufs = {}
            /\ r.op = "edit" /\ r.seul => r.lu = LiensDe(r.id)

\* A submitted form leaves exactly the links that were chosen in it, those the
\* others added since it was displayed taken away and those they took away put
\* back, unless another request changed links of the book while this one was being
\* handled: then what was added or taken away meanwhile stays as that request left
\* it (addAuteur, removeAuteur, the difference Doctrine saves).
ChoixEnregistre == \A w \in Workers : FlushEdition(w) =>
    LET r == requetes[w]
    IN  \A n \in Notices : LET k == <<r.id, n>> IN
            /\ r.seul => (k \in liens' <=> n \in r.choix)
            /\ (n \in r.lu) # (k \in liens) => ~Change(k)

DernierFormulaire == [][ChoixEnregistre]_vars

\* A book is found exactly when its title, one of its authors and one of its
\* categories contain the words asked for, an empty field asking for nothing; a
\* book with no author is found by its title.  It comes with all its authors, or
\* with those whose name contains the word asked of the author.
RechercheJuste == \A k \in Criteres : \A l \in lignes \cap Livres :
    LET trouve == l \in Trouves(k)
    IN  /\ trouve <=>
            /\ k.titre # Vide => k.titre \in texte[l]
            /\ k.auteur # Vide =>
                    \E a \in LiensDe(l) \cap Auteurs : k.auteur \in texte[a]
            /\ k.categorie # Vide =>
                    \E c \in LiensDe(l) \cap Categories : k.categorie \in texte[c]
        /\ trouve =>
            AuteursMontres(k, l) = {a \in LiensDe(l) \cap Auteurs :
                                        k.auteur # Vide => k.auteur \in texte[a]}
=============================================================================

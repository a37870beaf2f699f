-------------------------- MODULE CatalogueListe ---------------------------
(***************************************************************************)
(* The list of books: the Angular component LivresList (AuteursList is the *)
(* same component with one search field), the HTTP requests it has in      *)
(* flight and the API that answers them.  Several requests may be under    *)
(* way, they are answered in any order, and the component applies every    *)
(* answer that arrives.  Rows are told apart by their number only: nb[r]   *)
(* books match the search r.                                               *)
(***************************************************************************)
EXTENDS Pagination

CONSTANTS
    Recherches,       \* contents of the search fields
    Vide,             \* empty fields
    MaxLivres,        \* bound: books that match a search
    MaxRequetes,      \* bound: requests the page sends
    MaxModifs         \* bound: changes the back office makes

VARIABLES
    nb,               \* nb[r]: the books that match r
    saisie,           \* signals searchTitre, searchAuteur, searchCategorie
    page, totalPages, isLoading,
    liste,            \* signal livres: how many, and which request they answer
    enVol,            \* requests sent whose answer has not arrived
    envois,           \* number of requests sent so far
    modifs,           \* number of changes the back office made so far
    ecarts            \* history: what a quiet reader does not do or meet

vars ==
    <<nb, saisie, page, totalPages, isLoading, liste, enVol, envois, modifs, ecarts>>

\* hate: a request sent while the spinner turned; saisie: a page asked for with
\* fields typed and not submitted; erreur: a request that failed.
Ecart == {"hate", "saisie", "erreur"}

ASSUME ListeHypotheses ==
    /\ Vide \in Recherches
    /\ MaxLivres \in Nat /\ MaxRequetes \in Nat \ {0} /\ MaxModifs \in Nat

\* A request: its criteria, how far the server is, and what it has read; modifs:
\* the changes made when the ids of the page were read.
Envoi == [n : 1 .. MaxRequetes, recherche : Recherches, page : Nat \ {0},
          etat : {"partie", "comptee", "choisie"},
          taille : 0 .. Limite, pages : Nat \ {0}, modifs : 0 .. MaxModifs]

Nouvel(n, r, p) == [n |-> n, recherche |-> r, page |-> p, etat |-> "partie",
                    taille |-> 0, pages |-> 1, modifs |-> 0]

\* Empty fields match every book.
Comptages == {f \in [Recherches -> 0 .. MaxLivres] : \A r \in Recherches : f[r] <= f[Vide]}

\* ngOnInit has called loadLivres.
Init ==
    /\ nb \in Comptages
    /\ saisie = Vide /\ page = 1 /\ totalPages = 1
    /\ isLoading = TRUE
    /\ liste = [n |-> 0, recherche |-> Vide, page |-> 1, taille |-> 0]
    /\ enVol = {Nouvel(1, Vide, 1)} /\ envois = 1
    /\ modifs = 0 /\ ecarts = {}

-----------------------------------------------------------------------------
(* The reader. *)

\* loadLivres: the fields as they stand, submitted or not.
LoadLivres(p, ecart) ==
    /\ envois < MaxRequetes
    /\ isLoading' = TRUE
    /\ envois' = envois + 1
    /\ enVol' = enVol \cup {Nouvel(envois + 1, saisie, p)}
    /\ ecarts' = ecarts \cup ecart \cup (IF isLoading THEN {"hate"} ELSE {})
    /\ UNCHANGED <<nb, saisie, totalPages, liste, modifs>>

Saisir == \E r \in Recherches \ {saisie} :
    /\ saisie' = r
    /\ UNCHANGED <<nb, page, totalPages, isLoading, liste, enVol, envois, modifs, ecarts>>

\* Mutant: the page number is kept.
OnSearch_memePage == page' = page /\ LoadLivres(page, {})

OnSearch == page' = 1 /\ LoadLivres(1, {})

EcartSaisie == IF saisie = liste.recherche THEN {} ELSE {"saisie"}

\* Mutant: the rows are asked for before the page number is set.
GoToPage_chargeAvant == \E p \in (1 .. totalPages) \cup {page - 1, page + 1} :
    /\ p >= 1 /\ p <= totalPages
    /\ page' = p
    /\ LoadLivres(page, EcartSaisie)

\* The links of the pages, the previous and the next one.
GoToPage == \E p \in (1 .. totalPages) \cup {page - 1, page + 1} :
    /\ p >= 1 /\ p <= totalPages
    /\ page' = p
    /\ LoadLivres(p, EcartSaisie)

-----------------------------------------------------------------------------
(* findBySearchCriteria: Doctrine's Paginator counts, then reads the ids of  *)
(* the page, then the rows of these ids, in three queries; the last one is   *)
(* taken with the answer, at the latest moment it can run.                   *)

Compter(q) ==
    /\ q.etat = "partie"
    /\ enVol' = (enVol \ {q}) \cup
          {[q EXCEPT !.etat = "comptee", !.pages = TotalPages(nb[q.recherche])]}
    /\ UNCHANGED <<nb, saisie, page, totalPages, isLoading, liste, envois, modifs, ecarts>>

Choisir(q) ==
    /\ q.etat = "comptee"
    /\ enVol' = (enVol \ {q}) \cup
          {[q EXCEPT !.etat = "choisie", !.modifs = modifs,
                     !.taille = Cardinality(Tranche(nb[q.recherche], q.page))]}
    /\ UNCHANGED <<nb, saisie, page, totalPages, isLoading, liste, envois, modifs, ecarts>>

-----------------------------------------------------------------------------
(* The answers. *)

\* Mutant: the spinner is stopped by answers only, not by errors.
FinErreur_oubliee == isLoading' = isLoading

FinErreur == isLoading' = FALSE

\* The answer shown: of the rows chosen, each change made since may have taken one
\* away before the third query.
Reponse(q) == {[n |-> q.n, recherche |-> q.recherche, page |-> q.page, taille |-> t]
    : t \in {u \in 0 .. q.taille : q.taille - u <= modifs - q.modifs}}

\* Mutant: the rows are shown when the request is the last one sent only, and
\* the spinner goes on turning otherwise.
RecevoirReponse_derniere(q) ==
    /\ q.etat = "choisie"
    /\ enVol' = enVol \ {q}
    /\ IF q.n = envois
       THEN /\ liste' \in Reponse(q)
            /\ totalPages' = q.pages
            /\ isLoading' = FALSE
       ELSE UNCHANGED <<liste, totalPages, isLoading>>
    /\ UNCHANGED <<nb, saisie, page, envois, modifs, ecarts>>

\* subscribe: next.
RecevoirReponse(q) ==
    /\ q.etat = "choisie"
    /\ enVol' = enVol \ {q}
    /\ liste' \in Reponse(q)
    /\ totalPages' = q.pages
    /\ isLoading' = FALSE
    /\ UNCHANGED <<nb, saisie, page, envois, modifs, ecarts>>

\* subscribe: error, before or after the server has done its work.
RecevoirErreur(q) ==
    /\ enVol' = enVol \ {q}
    /\ FinErreur
    /\ ecarts' = ecarts \cup {"erreur"}
    /\ UNCHANGED <<nb, saisie, page, totalPages, liste, envois, modifs>>

\* The back office adds, edits or deletes a book.
ModifierCatalogue ==
    /\ nb' \in {f \in Comptages : \A r \in Recherches : f[r] - nb[r] \in -1 .. 1}
    /\ modifs < MaxModifs /\ modifs' = modifs + 1
    /\ UNCHANGED <<saisie, page, totalPages, isLoading, liste, enVol, envois, ecarts>>

Serveur(q) == Compter(q) \/ Choisir(q)

Reseau(q) == RecevoirReponse(q) \/ RecevoirErreur(q)

Next ==
    \/ Saisir \/ OnSearch \/ GoToPage
    \/ \E q \in enVol : Serveur(q) \/ Reseau(q)
    \/ ModifierCatalogue

Spec == Init /\ [][Next]_vars

\* PHP runs a request to its end or to max_execution_time, and the browser
\* hands every answer, or the failure of the connection, to its subscriber.
\* Nothing is asked of the reader.
Equite == \A n \in 1 .. MaxRequetes :
    WF_vars(\E q \in enVol : q.n = n /\ (Serveur(q) \/ Reseau(q)))

FairSpec == Spec /\ Equite

-----------------------------------------------------------------------------
(* Properties. *)

TypeOK ==
    /\ nb \in Comptages
    /\ saisie \in Recherches
    /\ page \in Nat \ {0} /\ totalPages \in Nat \ {0}
    /\ isLoading \in BOOLEAN
    /\ envois \in 1 .. MaxRequetes
    /\ liste \in [n : 0 .. MaxRequetes, recherche : Recherches,
                  page : Nat \ {0}, taille : 0 .. Limite]
    /\ enVol \subseteq Envoi
    /\ modifs \in 0 .. MaxModifs /\ ecarts \subseteq Ecart

\* The spinner turns only while a request is under way (loadLivres, next and
\* error), however many the reader sends; exactly then, as long as they have
\* always waited for it to stop.
SablierJustifie ==
    /\ isLoading => enVol # {}
    /\ "hate" \notin ecarts /\ enVol # {} => isLoading

\* As long as the reader has waited for the spinner and no request has failed,
\* they see the answer to their last request, at the page the pagination shows as
\* active (onSearch, goToPage, loadLivres).
ListeAJour ==
    ecarts \cap {"hate", "erreur"} = {} /\ ~isLoading =>
        liste.n = envois /\ liste.page = page

\* "Aucun livre ne correspond à votre recherche." (livres-list.html): as long as
\* the reader waits and submits what they type, no request fails and the catalogue
\* does not change, the message is shown only when no book matches the search
\* answered.
AucunLivre ==
    ecarts = {} /\ modifs = 0 /\ ~isLoading /\ liste.taille = 0 => nb[liste.recherche] = 0

\* Following the links of the pages, a reader comes past all the books that match:
\* under the same conditions the page shown is one of 1 .. totalPages, the pages
\* before the last are full and the last holds the rest (goToPage and
\* findBySearchCriteria).
PagesRemplies ==
    ecarts = {} /\ modifs = 0 /\ ~isLoading =>
        /\ liste.page <= totalPages
        /\ liste.taille = IF liste.page < totalPages THEN Limite
                          ELSE nb[liste.recherche] - Decalage(totalPages)

\* However many requests are sent and whichever fail, a spinner that turns stops
\* in the end (loadLivres, next and error).
ChargementFinit == isLoading ~> ~isLoading

\* What LivresList promises its reader, with the requests under way as demands.
Promesse == INSTANCE VueListe WITH
    demandes <- {[n |-> q.n, recherche |-> q.recherche, page |-> q.page]
                    : q \in enVol},
    vue <- liste,
    attente <- isLoading

\* The component implements VueListe: it shows one answer at a time, whole, the
\* spinner turns from a request to the next answer or failure, and every request
\* is answered or fails (loadLivres and the API behind it).
TientPromesse == Promesse!Spec
=============================================================================

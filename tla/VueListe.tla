----------------------------- MODULE VueListe ------------------------------
(***************************************************************************)
(* What a list page promises its reader: it shows the answer to one of the *)
(* requests made, whole, and every request made is answered or fails; the  *)
(* spinner turns from a request to the next answer or failure.             *)
(***************************************************************************)
EXTENDS Integers

CONSTANTS
    Recherches,   \* what may be searched for
    Limite,       \* rows on a page
    MaxRequetes   \* bound: the number of requests

VARIABLES
    demandes,     \* requests made and not yet answered
    vue,          \* the request that the rows shown answer, and their number
    attente       \* the spinner

vars == <<demandes, vue, attente>>

Demande == [n : 1 .. MaxRequetes, recherche : Recherches, page : Nat \ {0}]

Init ==
    /\ \E r \in Recherches :
        /\ demandes = {[n |-> 1, recherche |-> r, page |-> 1]}
        /\ vue = [n |-> 0, recherche |-> r, page |-> 1, taille |-> 0]
    /\ attente = TRUE

Demander ==
    /\ \E d \in demandes' \ demandes :
        /\ \A e \in demandes : e.n < d.n
        /\ demandes' = demandes \cup {d}
    /\ attente' = TRUE
    /\ UNCHANGED vue

Repondre(d) ==
    /\ demandes' = demandes \ {d}
    /\ \E t \in 0 .. Limite :
        vue' = [n |-> d.n, recherche |-> d.recherche, page |-> d.page,
                taille |-> t]
    /\ attente' = FALSE

Echouer(d) ==
    /\ demandes' = demandes \ {d}
    /\ attente' = FALSE
    /\ UNCHANGED vue

Next ==
    \/ Demander
    \/ \E d \in demandes : Repondre(d) \/ Echouer(d)

\* Every request is eventually answered or fails.
Servies == \A n \in 1 .. MaxRequetes :
    (\E d \in demandes : d.n = n) ~> (\A d \in demandes : d.n # n)

Spec == Init /\ [][Next]_vars /\ Servies
=============================================================================

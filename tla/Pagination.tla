---------------------------- MODULE Pagination -----------------------------
(***************************************************************************)
(* The arithmetic of a paginated answer, the same in LivreRepository and   *)
(* AuteurRepository: n rows match, a page holds Limite of them (9).  The   *)
(* queries have no ORDER BY: a position is a place in the order that one   *)
(* query happens to use, and no book keeps it from a query to the next.    *)
(***************************************************************************)
EXTENDS Integers, FiniteSets

CONSTANT Limite

ASSUME LimiteHypothese == Limite \in Nat \ {0}

\* Mutant: the last, incomplete page is not counted.
TotalPages_plancher(n) == IF n \div Limite > 0 THEN n \div Limite ELSE 1

\* ceil(n / Limite), and 1 when nothing matches.
TotalPages(n) ==
    LET t == (n + Limite - 1) \div Limite
    IN  IF t > 0 THEN t ELSE 1

\* setFirstResult
Decalage(page) == (page - 1) * Limite

\* The positions, among the n rows, that setFirstResult and setMaxResults keep.
Tranche(n, page) ==
    {i \in 1 .. n : Decalage(page) < i /\ i <= Decalage(page) + Limite}

\* Every position is on one page of 1 .. totalPages and on no other, and no such
\* page is empty unless nothing matches.
PaginationCorrecte(n) ==
    /\ \A i \in 1 .. n :
        \E p \in 1 .. TotalPages(n) :
            /\ i \in Tranche(n, p)
            /\ \A q \in 1 .. TotalPages(n) : i \in Tranche(n, q) => q = p
    /\ n > 0 => \A p \in 1 .. TotalPages(n) : Tranche(n, p) # {}
=============================================================================

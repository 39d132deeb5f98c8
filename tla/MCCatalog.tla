------------------------------ MODULE MCCatalog ------------------------------
(* TLC instance of Catalog.                                                *)
EXTENDS Catalog
CONSTANTS s1, s2
Symmetry == Permutations(Sessions)

\* Two methods meet, or two statements of one session have another's
\* method between them.
MCWorkloads == {[statements |-> 2, methods |-> 2], [statements |-> 3, methods |-> 1]}
=============================================================================

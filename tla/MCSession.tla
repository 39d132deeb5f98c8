------------------------------ MODULE MCSession ------------------------------
(* TLC instance of Session: connections are interchangeable.               *)
EXTENDS Session, TLC

Symmetry == Permutations(Sessions)
=============================================================================

---------------------------- MODULE MCBufferPool ----------------------------
(* TLC instance of BufferPool: goroutines are interchangeable.             *)
EXTENDS BufferPool, TLC

Symmetry == Permutations(Clients)
=============================================================================

---------------------------- MODULE MCUniqueIndex ----------------------------
(* TLC instance of UniqueIndex.                                            *)
EXTENDS UniqueIndex, TLC

\* Three transactions insert one key into an empty table, one after the
\* other's failure or beside it; two send three statements of every kind, a
\* CREATE INDEX among them.
MCWorkloads ==
    { [rows |-> 0, txns |-> 3, calls |-> 6, keys |-> {1}, kinds |-> {"insert"}],
      [rows |-> 1, txns |-> 2, calls |-> 5, keys |-> {1, 2},
       kinds |-> {"insert", "update", "delete", "build"}] }

\* One row that three transactions may update.
OneRow == {[rows |-> 1, txns |-> 3, calls |-> 5, keys |-> {1, 2}, kinds |-> {"update"}]}
=============================================================================

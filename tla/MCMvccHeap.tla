----------------------------- MODULE MCMvccHeap -----------------------------
(* TLC instance of MvccHeap.                                               *)
EXTENDS MvccHeap, TLC

RC == "ReadCommitted"
RR == "RepeatableRead"

\* Three writers queue for one row; three transactions with two statements,
\* or two with three, race for it; readers and writers over two rows; a
\* transaction among its own and others' inserts.
MCWorkloads ==
    { [rows |-> 1, txns |-> 3, calls |-> 6, levels |-> {RC}, kinds |-> {"update"},
       quals |-> {"any"}],
      [rows |-> 1, txns |-> 3, calls |-> 5, levels |-> {RC}, kinds |-> {"update", "delete"},
       quals |-> {"any", "untouched"}],
      [rows |-> 2, txns |-> 2, calls |-> 5, levels |-> {RC, RR},
       kinds |-> {"select", "update", "delete"}, quals |-> {"any", "untouched"}],
      [rows |-> 1, txns |-> 2, calls |-> 5, levels |-> {RC, RR},
       kinds |-> {"select", "insert", "delete"}, quals |-> {"any"}] }
=============================================================================

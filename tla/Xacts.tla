-------------------------------- MODULE Xacts --------------------------------
(***************************************************************************)
(* What internal/txn.Manager promises the rest of the system, with files,  *)
(* crashes and locks left out: an ID is assigned once, in increasing       *)
(* order, runs, and then has one verdict for good.  TxnManager is checked  *)
(* to implement this module, and the modules above the transaction manager *)
(* (MvccHeap, UniqueIndex) are built on it.                                *)
(***************************************************************************)
EXTENDS Integers, FiniteSets

CONSTANT MaxXid    \* bound: the highest transaction ID a run hands out

InvalidXID     == 0
BootstrapXID   == 1
FrozenXID      == 2
FirstNormalXID == 3

ASSUME XidAssumption == MaxXid \in Nat /\ MaxXid >= FirstNormalXID

Xids == FirstNormalXID .. MaxXid

VARIABLE status    \* what Manager.Status answers, for every ordinary ID

Statuses == {"unassigned", "running", "committed", "aborted"}
Assigned == {x \in Xids : status[x] # "unassigned"}
Running  == {x \in Xids : status[x] = "running"}

XactInit == status = [x \in Xids |-> "unassigned"]

\* IDs are handed out in increasing order; a Begin that dies after writing
\* the control file leaves a gap.
XactBegin(x) ==
    /\ \A y \in Assigned : y < x
    /\ status' = [status EXCEPT ![x] = "running"]

XactFinish(x, verdict) ==
    /\ status[x] = "running"
    /\ status' = [status EXCEPT ![x] = verdict]

\* The process ends: whatever was running is aborted, except that one
\* transaction may have been in the middle of its Commit.
XactRestart ==
    /\ Running # {}
    /\ \E C \in SUBSET Running :
        /\ \A x, y \in C : x = y
        /\ status' = [x \in Xids |-> IF x \in C THEN "committed"
                                     ELSE IF x \in Running THEN "aborted"
                                     ELSE status[x]]

XactNext ==
    \/ \E x \in Xids : \/ XactBegin(x)
                       \/ XactFinish(x, "committed")
                       \/ XactFinish(x, "aborted")
    \/ XactRestart

XactSpec == XactInit /\ [][XactNext]_status

\* The answer for any ID below the next one, the reserved ones included.
StatusOf(x) ==
    IF x = InvalidXID THEN "aborted"
    ELSE IF x < FirstNormalXID THEN "committed"
    ELSE status[x]

=============================================================================

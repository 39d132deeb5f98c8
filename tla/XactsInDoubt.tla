---------------------------- MODULE XactsInDoubt ----------------------------
(***************************************************************************)
(* Xacts with the transactions whose Commit was cut short after its code   *)
(* was written: internal/txn keeps them running so that the call can be    *)
(* repeated, but what they become when the process or the machine stops is *)
(* open, and may be one verdict after one restart and the other after the  *)
(* next.  A transaction is put in doubt by its own Commit and by nothing   *)
(* else; every other one keeps its verdict for good.                       *)
(***************************************************************************)
EXTENDS Xacts

VARIABLE inDoubt

DoubtInit == XactInit /\ inDoubt = {}

\* A Commit is cut short: the call fails after its write, or it writes where
\* a crash may lose the file.
CommitCut(x) ==
    /\ x \in Running
    /\ inDoubt' = inDoubt \cup {x}
    /\ UNCHANGED status

\* The process ends: the Commit under way may come to be in doubt by that.
DoubtRestart ==
    /\ inDoubt' \in {inDoubt} \cup {inDoubt \cup {x} : x \in Running}
    /\ \E C \in SUBSET Assigned :
        /\ \A x, y \in (C \cap Running) \ inDoubt' : x = y
        /\ status' = [x \in Xids |-> IF x \in Running \/ (x \in inDoubt' /\ x \in Assigned)
                                     THEN IF x \in C THEN "committed" ELSE "aborted"
                                     ELSE status[x]]

DoubtNext ==
    \/ \E x \in Xids : \/ XactBegin(x) /\ UNCHANGED inDoubt
                       \/ XactFinish(x, "committed") /\ UNCHANGED inDoubt
                       \/ XactFinish(x, "aborted") /\ UNCHANGED inDoubt
                       \/ CommitCut(x)
    \/ DoubtRestart

DoubtSpec == DoubtInit /\ [][DoubtNext]_<<status, inDoubt>>

=============================================================================

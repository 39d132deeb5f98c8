------------------------------- MODULE Session -------------------------------
(***************************************************************************)
(* internal/session and the part of internal/catalog that lives as long as *)
(* a transaction: transaction blocks, snapshots per isolation level, the   *)
(* flush before the commit bit, and the files CREATE TABLE and DROP TABLE  *)
(* create and remove at the end of the transaction.  Sessions run on one   *)
(* cluster; it may crash between any two steps, and the flush, Commit,     *)
(* Abort and every Unlink may fail.                                        *)
(*                                                                         *)
(* pg_class has one row per table, found by OID (names do not matter       *)
(* here); pg_attribute and pg_index rows go with it.  A statement is       *)
(* CREATE TABLE, DROP TABLE or "other", any statement that leaves the      *)
(* catalog alone; each may fail.  Its analysis counts as running.          *)
(***************************************************************************)
EXTENDS Mvcc, XactsInDoubt

CONSTANTS
    Sessions,   \* connections to the cluster
    MaxTables,  \* bound: tables created during a run
    MaxWork,    \* bound: transactions and tables, and one less than those
                \* and the calls that fail
    MaxCrashes  \* bound: crashes

ASSUME SessionAssumption == MaxTables \in Nat /\ MaxWork \in Nat /\ MaxCrashes \in Nat

Oids   == 1 .. MaxTables
NoTx   == 0
NoOid  == 0
NoSnap == [xmin |-> 0, xmax |-> 0, xip |-> {}, xid |-> 0]
Levels == {"ReadCommitted", "RepeatableRead"}
NoRow  == [xmin |-> InvalidXID, xmax |-> InvalidXID, ctid |-> 0, hints |-> {}]

VARIABLES
    class,    \* pg_class: the row of each table
    files,    \* the relation files under base/
    nextOid,  \* the OID counter of the control file
    ss,       \* the Sessions
    pending,  \* Catalog.pending of each session's catalog
    crashes,  \* crashes so far
    faults,   \* calls that have failed so far
    \* History.
    answer,   \* what the client of each transaction was told
    stuck,    \* transactions whose Abort failed, running with nobody to end them
    stray,    \* files whose Unlink failed
    bereft    \* files removed for a verdict that was in doubt

xactVars == <<status, inDoubt>>
diskVars == <<class, files, nextOid>>
histVars == <<answer, stuck, stray, bereft>>
cntVars  == <<crashes, faults>>
vars     == <<xactVars, diskVars, ss, pending, cntVars, histVars>>

NewSession == [tx |-> NoTx, explicit |-> FALSE, failed |-> FALSE, isolation |-> "ReadCommitted",
               snap |-> NoSnap, pc |-> "idle", oid |-> NoOid, wait |-> InvalidXID,
               err |-> FALSE]

Init ==
    /\ DoubtInit
    /\ class = [o \in Oids |-> NoRow]
    /\ files = {}
    /\ nextOid = 1
    /\ ss = [s \in Sessions |-> NewSession]
    /\ pending = [s \in Sessions |-> {}]
    /\ crashes = 0
    /\ faults = 0
    /\ answer = [x \in Xids |-> "none"]
    /\ stuck = {}
    /\ stray = {}
    /\ bereft = {}

Work     == Cardinality(Assigned) + nextOid - 1
WorkLeft == Work < MaxWork /\ Work + faults <= MaxWork

\* A call to the layers below fails.
Fault == Work + faults <= MaxWork /\ faults' = faults + 1

At(s, pc) == ss[s].pc = pc /\ ss[s].wait = InvalidXID

\* pendingFile: a created file goes at abort, a dropped one at commit.
Created(o) == [oid |-> o, atCommit |-> FALSE]
Removed(o) == [oid |-> o, atCommit |-> TRUE]

-----------------------------------------------------------------------------
(* Exec: a statement, or BEGIN, COMMIT and ROLLBACK (control).             *)

\* Outside a block the statement begins a transaction of its own.
StartStatement(s) ==
    /\ At(s, "idle") /\ ~ss[s].failed
    /\ IF ss[s].tx = NoTx
       THEN \E x \in Xids : /\ x = NextXid /\ WorkLeft /\ XactBegin(x)
                            /\ ss' = [ss EXCEPT ![s] = [ss[s] EXCEPT !.tx = x, !.pc = "snapshot"]]
       ELSE ss' = [ss EXCEPT ![s].pc = "snapshot"] /\ UNCHANGED status
    /\ UNCHANGED <<inDoubt, diskVars, pending, cntVars, histVars>>

\* Slip: the first snapshot serves the whole block at either level.
KeepsSnapAlways(s) == ss[s].snap # NoSnap

\* A snapshot per statement, or one per block under REPEATABLE READ.
KeepsSnap(s) == ss[s].isolation = "RepeatableRead" /\ ss[s].snap # NoSnap

TakeSnapshot(s) ==
    /\ At(s, "snapshot")
    /\ ss' = [ss EXCEPT ![s] = [ss[s] EXCEPT
                    !.snap = IF KeepsSnap(s) THEN ss[s].snap ELSE Take(ss[s].tx), !.pc = "run"]]
    /\ UNCHANGED <<xactVars, diskVars, pending, cntVars, histVars>>

Begin(s, level) ==
    /\ At(s, "idle") /\ ss[s].tx = NoTx
    /\ \E x \in Xids : /\ x = NextXid /\ WorkLeft /\ XactBegin(x)
                       /\ ss' = [ss EXCEPT ![s] = [ss[s] EXCEPT
                              !.tx = x, !.explicit = TRUE, !.isolation = level]]
    /\ UNCHANGED <<inDoubt, diskVars, pending, cntVars, histVars>>

Commit(s) ==
    /\ At(s, "idle") /\ ss[s].explicit /\ ~ss[s].failed
    /\ ss' = [ss EXCEPT ![s].pc = "flush"]
    /\ UNCHANGED <<xactVars, diskVars, pending, cntVars, histVars>>

\* tx.Abort.  When it fails the session goes on as if it had not, and the
\* transaction stays running; the client is told of the error.
AbortTx(s, next) ==
    /\ \/ /\ XactFinish(ss[s].tx, "aborted")
          /\ ss' = [ss EXCEPT ![s] = next]
          /\ UNCHANGED <<stuck, faults>>
       \/ /\ Fault
          /\ stuck' = stuck \cup {ss[s].tx}
          /\ ss' = [ss EXCEPT ![s] = [next EXCEPT !.err = TRUE]]
          /\ UNCHANGED status
    /\ UNCHANGED <<inDoubt, diskVars, pending, crashes, answer, stray, bereft>>

\* ROLLBACK, or the Close of a session with a transaction left open.
Rollback(s) ==
    /\ At(s, "idle") /\ ss[s].tx # NoTx /\ ~ss[s].failed
    /\ AbortTx(s, [ss[s] EXCEPT !.pc = "aborted"])

\* Slip: a COMMIT of a failed block is answered like any other.
EndFailedBlockCommits(s) ==
    /\ At(s, "idle") /\ ss[s].failed
    /\ ss' = [ss EXCEPT ![s] = [ss[s] EXCEPT !.pc = "committed", !.failed = FALSE]]
    /\ UNCHANGED <<xactVars, diskVars, pending, cntVars, histVars>>

\* COMMIT and ROLLBACK of a failed block, whose abort is recorded already,
\* or was to be: the session does not remember that it could not.
EndFailedBlock(s) ==
    /\ At(s, "idle") /\ ss[s].failed
    /\ ss' = [ss EXCEPT ![s] = [ss[s] EXCEPT !.pc = "aborted", !.failed = FALSE, !.err = FALSE]]
    /\ UNCHANGED <<xactVars, diskVars, pending, cntVars, histVars>>

-----------------------------------------------------------------------------
(* Statements.                                                             *)

\* A statement succeeds: in a block its effects wait for the COMMIT.
Succeed(rec) == [rec EXCEPT !.pc = IF rec.explicit THEN "idle" ELSE "flush", !.oid = NoOid]

Other(s) ==
    /\ At(s, "run")
    /\ ss' = [ss EXCEPT ![s] = Succeed(@)]
    /\ UNCHANGED <<xactVars, diskVars, pending, cntVars, histVars>>

\* Slip: the created file is not noted for an abort.
CreateFileUnnoted(s) ==
    /\ At(s, "run")
    /\ nextOid \in Oids /\ WorkLeft
    /\ nextOid' = nextOid + 1
    /\ files' = files \cup {nextOid}
    /\ ss' = [ss EXCEPT ![s] = [ss[s] EXCEPT !.pc = "row", !.oid = nextOid]]
    /\ UNCHANGED <<xactVars, class, pending, cntVars, histVars>>

\* CreateTable: allocate an OID, create the file, then write the row.
CreateFile(s) ==
    /\ At(s, "run")
    /\ nextOid \in Oids /\ WorkLeft
    /\ nextOid' = nextOid + 1
    /\ files' = files \cup {nextOid}
    /\ pending' = [pending EXCEPT ![s] = @ \cup {Created(nextOid)}]
    /\ ss' = [ss EXCEPT ![s] = [ss[s] EXCEPT !.pc = "row", !.oid = nextOid]]
    /\ UNCHANGED <<xactVars, class, cntVars, histVars>>

WriteRow(s) ==
    /\ At(s, "row")
    /\ class' = [class EXCEPT ![ss[s].oid] = [NoRow EXCEPT !.xmin = ss[s].tx]]
    /\ ss' = [ss EXCEPT ![s] = Succeed(@)]
    /\ UNCHANGED <<xactVars, files, nextOid, pending, cntVars, histVars>>

\* DropTable: a table the catalog sees with a fresh snapshot, not the block's.
Row(o) == class[o].xmin # InvalidXID

FindTable(s, o) ==
    /\ At(s, "run")
    /\ Row(o) /\ Visible(Take(ss[s].tx), class[o])
    /\ ss' = [ss EXCEPT ![s] = [ss[s] EXCEPT !.pc = "drop", !.oid = o]]
    /\ UNCHANGED <<xactVars, diskVars, pending, cntVars, histVars>>

TM(s) == Modify(Take(ss[s].tx), class[ss[s].oid], 0)

\* Slip: the file goes with the statement.
DropRowAndFile(s) ==
    /\ At(s, "drop")
    /\ TM(s) = "TMOk"
    /\ class' = [class EXCEPT ![ss[s].oid].xmax = ss[s].tx]
    /\ files' = files \ {ss[s].oid}
    /\ ss' = [ss EXCEPT ![s] = Succeed(@)]
    /\ UNCHANGED <<xactVars, nextOid, pending, cntVars, histVars>>

DropRow(s) ==
    /\ At(s, "drop")
    /\ TM(s) = "TMOk"
    /\ class' = [class EXCEPT ![ss[s].oid].xmax = ss[s].tx]
    /\ pending' = [pending EXCEPT ![s] = @ \cup {Removed(ss[s].oid)}]
    /\ ss' = [ss EXCEPT ![s] = Succeed(@)]
    /\ UNCHANGED <<xactVars, files, nextOid, cntVars, histVars>>

DropWaits(s) ==
    /\ At(s, "drop")
    /\ TM(s) = "TMBeingModified"
    /\ ss' = [ss EXCEPT ![s].wait = class[ss[s].oid].xmax]
    /\ UNCHANGED <<xactVars, diskVars, pending, cntVars, histVars>>

Wake(s) ==
    /\ ss[s].wait # InvalidXID
    /\ StatusOf(ss[s].wait) # "running"
    /\ ss' = [ss EXCEPT ![s].wait = InvalidXID]
    /\ UNCHANGED <<xactVars, diskVars, pending, cntVars, histVars>>

\* Slip: a statement that fails in a block marks it and records no abort.
FailMarksOnly(s) ==
    /\ At(s, "run") \/ At(s, "row") \/ At(s, "drop")
    /\ IF ss[s].explicit
       THEN /\ ss' = [ss EXCEPT ![s] = [ss[s] EXCEPT !.failed = TRUE, !.pc = "idle", !.oid = NoOid]]
            /\ UNCHANGED <<xactVars, diskVars, pending, cntVars, histVars>>
       ELSE AbortTx(s, [ss[s] EXCEPT !.pc = "aborted", !.oid = NoOid])

\* Any statement may fail at any point, and a DROP of a table another
\* session has dropped does ("tuple concurrently updated").  Inside a block
\* the abort is recorded at once and the block stays, failed; the catalog's
\* EndTransaction runs then or when the block ends.
Fail(s) ==
    /\ At(s, "run") \/ At(s, "row") \/ At(s, "drop")
    /\ IF ss[s].explicit
       THEN \E pc \in {"idle", "aborted"} :
               AbortTx(s, [ss[s] EXCEPT !.failed = TRUE, !.pc = pc, !.oid = NoOid])
       ELSE AbortTx(s, [ss[s] EXCEPT !.pc = "aborted", !.oid = NoOid])

-----------------------------------------------------------------------------
(* The end of a transaction.                                               *)

\* pool.FlushAll and store.SyncAll: see BufferPool for what they do.
Flush(s) ==
    /\ At(s, "flush")
    /\ ss' = [ss EXCEPT ![s].pc = "bit"]
    /\ UNCHANGED <<xactVars, diskVars, pending, cntVars, histVars>>

\* Commit has written the bit, but it may not stay: the sync to come fails
\* or the process dies before it, or the machine may lose the file.
WriteBit(s) ==
    /\ At(s, "bit")
    /\ Fault
    /\ CommitCut(ss[s].tx)
    /\ UNCHANGED <<diskVars, ss, pending, crashes, histVars>>

CommitBit(s) ==
    /\ At(s, "bit")
    /\ XactFinish(ss[s].tx, "committed")
    /\ ss' = [ss EXCEPT ![s].pc = "committed"]
    /\ UNCHANGED <<inDoubt, diskVars, pending, cntVars, histVars>>

\* The flush or Commit fails.  A statement is then aborted; the contract
\* leaves open whether a block is, or stays open for another COMMIT.
CommitFails(s) ==
    /\ At(s, "flush") \/ At(s, "bit")
    /\ Fault
    /\ \E pc \in IF ss[s].explicit THEN {"idle", "undo"} ELSE {"undo"} :
          ss' = [ss EXCEPT ![s].pc = pc]
    /\ UNCHANGED <<xactVars, diskVars, pending, crashes, histVars>>

\* The abort after it ends the transaction, or leaves a failed block.
Undo(s) ==
    /\ At(s, "undo")
    /\ \/ AbortTx(s, [ss[s] EXCEPT !.pc = "aborted", !.err = TRUE])
       \/ /\ ss[s].explicit
          /\ \E pc \in {"idle", "aborted"} :
                AbortTx(s, [ss[s] EXCEPT !.failed = TRUE, !.pc = pc])

\* Catalog.EndTransaction(commit), one file at a time, then endTransaction.
Matching(s) == {f \in pending[s] : f.atCommit = (ss[s].pc = "committed")}

RemoveFile(s) ==
    /\ At(s, "committed") \/ At(s, "aborted")
    /\ \E f \in Matching(s) :
        /\ files' = files \ {f.oid}
        /\ pending' = [pending EXCEPT ![s] = @ \ {f}]
        /\ bereft' = IF ss[s].tx \in inDoubt THEN bereft \cup {f.oid} ELSE bereft
    /\ UNCHANGED <<xactVars, class, nextOid, ss, cntVars, answer, stuck, stray>>

\* The file stays and its entry goes; the other entries are still worked
\* off, and the first error is what EndTransaction returns.
RemoveFileFails(s) ==
    /\ At(s, "committed") \/ At(s, "aborted")
    /\ Fault
    /\ \E f \in Matching(s) :
        /\ stray' = stray \cup {f.oid}
        /\ pending' = [pending EXCEPT ![s] = @ \ {f}]
    /\ ss' = [ss EXCEPT ![s].err = TRUE]
    /\ UNCHANGED <<xactVars, diskVars, crashes, answer, stuck, bereft>>

EndTransaction(s) ==
    /\ At(s, "committed") \/ At(s, "aborted")
    /\ Matching(s) = {}
    /\ pending' = [pending EXCEPT ![s] = {}]
    /\ IF ss[s].failed
       THEN /\ ss' = [ss EXCEPT ![s].pc = "idle"]
            /\ UNCHANGED answer
       ELSE /\ ss' = [ss EXCEPT ![s] = NewSession]
            /\ answer' = [answer EXCEPT ![ss[s].tx] =
                            IF ss[s].err THEN "error"
                            ELSE IF ss[s].pc = "committed" THEN "COMMIT" ELSE "ROLLBACK"]
    /\ UNCHANGED <<xactVars, diskVars, cntVars, stuck, stray, bereft>>

\* A crash and a new cluster: a transaction whose Commit was under way may
\* have committed, one in doubt may be either, every other one that was
\* running is aborted.
Crash ==
    /\ crashes < MaxCrashes
    /\ crashes' = crashes + 1
    /\ \E C \in SUBSET (inDoubt \cup {ss[s].tx : s \in {s \in Sessions : ss[s].pc = "bit"}}) :
        /\ \A x, y \in C \ inDoubt : x = y
        /\ status' = [x \in Xids |-> IF status[x] # "running" /\ x \notin inDoubt THEN status[x]
                                     ELSE IF x \in C THEN "committed" ELSE "aborted"]
    /\ ss' = [s \in Sessions |-> NewSession]
    /\ pending' = [s \in Sessions |-> {}]
    /\ stuck' = {}
    /\ UNCHANGED <<inDoubt, diskVars, faults, answer, stray, bereft>>

-----------------------------------------------------------------------------
Next ==
    \/ \E s \in Sessions :
        \/ StartStatement(s) \/ TakeSnapshot(s)
        \/ \E level \in Levels : Begin(s, level)
        \/ Commit(s) \/ Rollback(s) \/ EndFailedBlock(s)
        \/ Other(s) \/ CreateFile(s) \/ WriteRow(s)
        \/ \E o \in Oids : FindTable(s, o)
        \/ DropRow(s) \/ DropWaits(s) \/ Wake(s) \/ Fail(s)
        \/ Flush(s) \/ WriteBit(s) \/ CommitBit(s) \/ CommitFails(s) \/ Undo(s)
        \/ RemoveFile(s) \/ RemoveFileFails(s) \/ EndTransaction(s)
    \/ Crash

Spec == Init /\ [][Next]_vars

-----------------------------------------------------------------------------
\* Every running transaction is some session's, and only one's: nothing
\* stays running that nobody will end, so nobody waits for it forever, but
\* for a transaction whose Abort failed, until the process ends.
RunningHasSession ==
    \A x \in Xids :
        status[x] = "running" <=>
            \/ x \in stuck
            \/ \E s \in Sessions : /\ ss[s].tx = x /\ ~ss[s].failed
                                  /\ ss[s].pc \notin {"committed", "aborted"}
                                  /\ \A t \in Sessions \ {s} : ss[t].tx # x

\* What the client is told is the verdict, for good, however many flushes,
\* Commits, Aborts and removals fail on the way: no COMMIT of a failed block
\* and no statement reported as done is undone by a crash.  A failing Commit,
\* Abort or removal is answered by its error, which says nothing.  Commit may
\* put a transaction in doubt, and a ROLLBACK of a failed block whose Abort
\* had failed is answered while the transaction still runs.
AnswerIsVerdict ==
    \A x \in Xids \ inDoubt :
        /\ answer[x] = "COMMIT"   => status[x] = "committed"
        /\ answer[x] = "ROLLBACK" => status[x] = "aborted" \/ x \in stuck

\* A table anybody can see has its file, through rollbacks of CREATE and
\* DROP, concurrent DROPs and a crash between the bit and the removals.  A
\* transaction whose Abort failed is seen by nobody; what it created goes.
\* One in doubt may have files removed for one verdict and get the other.
TableHasFile ==
    \A o \in Oids :
        /\ Row(o) /\ StatusOf(class[o].xmin) # "aborted" /\ class[o].xmin \notin stuck
        /\ class[o].xmax = InvalidXID \/ StatusOf(class[o].xmax) # "committed"
        => o \in files \cup bereft

\* Unless the cluster crashed, nothing is left behind: between transactions
\* the files are those of the tables that exist and those whose Unlink failed.
NoLeftoverFile ==
    crashes = 0 /\ (\A s \in Sessions : ss[s].tx = NoTx) =>
        \A o \in files \ stray : /\ Row(o) /\ StatusOf(class[o].xmin) = "committed"
                                 /\ StatusOf(class[o].xmax) # "committed"

\* A statement reads with a snapshot of its own transaction: under REPEATABLE
\* READ the block's first, under READ COMMITTED one that takes in every
\* transaction that has committed by then.
SnapshotFits ==
    [][\A s \in Sessions : LET a == ss[s]  b == ss'[s] IN
          /\ b.snap # NoSnap => b.snap.xid = b.tx
          /\ a.snap # NoSnap /\ b.tx = a.tx /\ a.isolation = "RepeatableRead" => b.snap = a.snap
          /\ a.pc = "snapshot" /\ b.pc = "run" /\ a.isolation = "ReadCommitted" =>
                \A x \in Xids : status[x] = "committed" => ~InProgressFor(b.snap, x)]_vars

=============================================================================

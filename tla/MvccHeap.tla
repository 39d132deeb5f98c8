------------------------------ MODULE MvccHeap ------------------------------
(***************************************************************************)
(* One heap relation under concurrent transactions: internal/heap with a   *)
(* snapshot, and the executor's modifyTable loop that drives it.  A step   *)
(* is what one goroutine does under one lock: read a block, write hint     *)
(* bits back, ask Modify about a tuple and stamp it, insert a version.     *)
(*                                                                         *)
(* Blocks hold one tuple each, the finest interleaving of a scan with the  *)
(* writers; a TID is the tuple's place in heap.  A row's value counts the  *)
(* updates it has had: every UPDATE is SET val = val + 1.  Transactions    *)
(* come from Xacts; process x is the session that runs transaction x.      *)
(***************************************************************************)
EXTENDS Mvcc, Sequences

CONSTANTS
    MaxTuples,  \* bound: versions the relation may hold
    Workloads   \* bound: what the clients of a run do, see below

ASSUME HeapAssumption ==
    /\ MaxTuples \in Nat
    /\ \A w \in Workloads :
          /\ w.rows \in 0 .. MaxTuples      \* rows committed before the run
          /\ w.txns \in 1 .. MaxXid - FirstNormalXID + 1
          /\ w.calls \in Nat               \* BEGINs and statements of all clients together
          /\ w.levels \subseteq {"ReadCommitted", "RepeatableRead"}
          /\ w.kinds \subseteq {"select", "insert", "update", "delete"}
          /\ w.quals \subseteq {"any", "untouched"}   \* WHERE clauses

Tids   == 1 .. MaxTuples
NoTid  == 0
NoSnap == [xmin |-> 0, xmax |-> 0, xip |-> {}, xid |-> 0]

\* A WHERE clause accepts every row, or the rows no update has touched.
Qual(q, t) == q = "any" \/ t.val = 0

VARIABLES
    heap,    \* the relation's tuples, in TID order
    iso,     \* Session.isolation
    snap,    \* Session.snap
    proc,    \* where each session is in its statement
    load,    \* the workload, chosen at the start
    stmts,   \* statements sent so far
    \* History.
    atSnap,  \* the versions that were live when snap was taken
    wrote    \* rows the command tags of x have reported written, per row

vars == <<status, heap, iso, snap, proc, load, stmts, atSnap, wrote>>

NoHint == [xmin |-> 0, xmax |-> 0, add |-> {}]
Off == [pc |-> "off", kind |-> "select", qual |-> "any", pos |-> 0, nblocks |-> 0,
        out |-> {}, hint |-> NoHint, todo |-> {}, target |-> NoTid, new |-> NoTid,
        wait |-> InvalidXID]

NewTuple(row, val, xid, tid) ==
    [row |-> row, val |-> val, xmin |-> xid, xmax |-> InvalidXID, ctid |-> tid, hints |-> {}]

Init ==
    /\ XactInit
    /\ load \in Workloads
    /\ heap = [i \in 1 .. load.rows |-> NewTuple(i, 0, FrozenXID, i)]
    /\ iso = [x \in Xids |-> "ReadCommitted"]
    /\ snap = [x \in Xids |-> NoSnap]
    /\ proc = [x \in Xids |-> Off]
    /\ stmts = 0
    /\ atSnap = [x \in Xids |-> {}]
    /\ wrote = [x \in Xids |-> [r \in Tids |-> 0]]

\* The session of x is at pc and not blocked in Wait.
At(x, pc) == proc[x].pc = pc /\ proc[x].wait = InvalidXID

\* It goes on at p.
Moves(x, p) == proc' = [proc EXCEPT ![x] = p]

-----------------------------------------------------------------------------
(* Transactions and statements.                                            *)

CallsLeft == stmts + Cardinality(Assigned) < load.calls

Begin(x, level) ==
    /\ x < FirstNormalXID + load.txns /\ CallsLeft
    /\ x = NextXid    \* an ID lost to a crash in Begin is on no tuple
    /\ XactBegin(x)
    /\ iso' = [iso EXCEPT ![x] = level]
    /\ Moves(x, [proc[x] EXCEPT !.pc = "idle"])
    /\ UNCHANGED <<heap, snap, atSnap, wrote, load, stmts>>

\* The versions that have committed and have not been deleted, as of now.
LiveNow == {i \in DOMAIN heap : /\ StatusOf(heap[i].xmin) = "committed"
                                /\ \/ heap[i].xmax = InvalidXID
                                   \/ StatusOf(heap[i].xmax) # "committed"}

\* Session.statement: a snapshot per statement under READ COMMITTED, one
\* for the block under REPEATABLE READ; the scan reads its block count.
KeepsSnap(x) == iso[x] = "RepeatableRead" /\ snap[x] # NoSnap

StartStmt(x, kind, qual) ==
    /\ At(x, "idle")
    /\ CallsLeft
    /\ stmts' = stmts + 1
    /\ snap' = [snap EXCEPT ![x] = IF KeepsSnap(x) THEN @ ELSE Take(x)]
    /\ atSnap' = [atSnap EXCEPT ![x] = IF KeepsSnap(x) THEN @ ELSE LiveNow]
    /\ Moves(x, [Off EXCEPT !.pc = IF kind = "insert" THEN "insert" ELSE "scan",
                            !.kind = kind, !.qual = qual, !.pos = 1, !.nblocks = Len(heap)])
    /\ UNCHANGED <<status, heap, iso, load, wrote>>

EndStmt(x) ==
    /\ Moves(x, [Off EXCEPT !.pc = "idle"])
    /\ snap' = [snap EXCEPT ![x] = IF iso[x] = "RepeatableRead" THEN @ ELSE NoSnap]
    /\ atSnap' = [atSnap EXCEPT ![x] = IF iso[x] = "RepeatableRead" THEN @ ELSE {}]

\* An error inside a block aborts the transaction at once.
Finish(x, verdict) ==
    /\ IF verdict = "committed" THEN At(x, "idle") ELSE At(x, "idle") \/ At(x, "error")
    /\ XactFinish(x, verdict)
    /\ Moves(x, Off)
    /\ snap' = [snap EXCEPT ![x] = NoSnap]
    /\ atSnap' = [atSnap EXCEPT ![x] = {}]
    /\ UNCHANGED <<heap, iso, wrote, load, stmts>>

-----------------------------------------------------------------------------
(* heap.Scan: copy and judge under the shared lock, write the hint bits    *)
(* back later under the exclusive one.                                     *)

ReadBlock(x) ==
    /\ At(x, "scan")
    /\ proc[x].pos <= proc[x].nblocks
    /\ LET i == proc[x].pos
           h == VisibleHints(snap[x], heap[i])
           seen == [proc[x] EXCEPT !.out = IF Visible(snap[x], heap[i]) THEN @ \cup {i} ELSE @]
       IN  \/ h = {} /\ Moves(x, [seen EXCEPT !.pos = i + 1])
           \/ h # {} /\ Moves(x, [seen EXCEPT !.pc = "hints",
                  !.hint = [xmin |-> heap[i].xmin, xmax |-> heap[i].xmax, add |-> h]])
    /\ UNCHANGED <<status, heap, iso, snap, atSnap, wrote, load, stmts>>

\* Slip: the bits go onto whatever the tuple has become.
StillSameAssumed(t, hint) == TRUE

\* Only onto a tuple whose xmin and xmax are still the ones judged.
StillSame(t, hint) == t.xmin = hint.xmin /\ t.xmax = hint.xmax

SetHints(x) ==
    /\ At(x, "hints")
    /\ LET hint == proc[x].hint IN
       heap' = [heap EXCEPT ![proc[x].pos].hints =
                  IF StillSame(heap[proc[x].pos], hint) THEN @ \cup hint.add ELSE @]
    /\ Moves(x, [proc[x] EXCEPT !.pc = "scan", !.pos = @ + 1, !.hint = NoHint])
    /\ UNCHANGED <<status, iso, snap, atSnap, wrote, load, stmts>>

\* modifyTable reads its whole input before the first write.
EndScan(x) ==
    /\ At(x, "scan")
    /\ proc[x].pos > proc[x].nblocks
    /\ IF proc[x].kind = "select" THEN EndStmt(x)
       ELSE /\ Moves(x, [proc[x] EXCEPT !.pc = "next",
                            !.todo = {i \in proc[x].out : Qual(proc[x].qual, heap[i])}])
            /\ UNCHANGED <<snap, atSnap>>
    /\ UNCHANGED <<status, heap, iso, wrote, load, stmts>>

-----------------------------------------------------------------------------
(* modifyTable.write, one target at a time.                                *)

\* apply: an UPDATE calls h.Lock first, a DELETE goes straight to the stamp.
FirstPc(kind) == IF kind = "update" THEN "lock" ELSE "stamp"

NextTarget(x) ==
    /\ At(x, "next")
    /\ IF proc[x].todo = {} THEN EndStmt(x)
       ELSE LET i == CHOOSE i \in proc[x].todo : \A j \in proc[x].todo : i <= j IN
            /\ Moves(x, [proc[x] EXCEPT !.todo = @ \ {i}, !.target = i,
                                        !.pc = FirstPc(proc[x].kind)])
            /\ UNCHANGED <<snap, atSnap>>
    /\ UNCHANGED <<status, heap, iso, wrote, load, stmts>>

\* The verdict markDeleted gets for x's target under the exclusive lock.
TM(x) == Modify(snap[x], heap[proc[x].target], proc[x].target)

Conflicts == {"TMUpdated", "TMDeleted", "TMSelfModified"}

\* TMBeingModified: the lock is released, the transaction waited for, and
\* the loop starts over at the same place.
WaitForOther(x) ==
    /\ \E pc \in {"lock", "check", "stamp"} : At(x, pc)
    /\ TM(x) = "TMBeingModified"
    /\ Moves(x, [proc[x] EXCEPT !.wait = heap[proc[x].target].xmax])
    /\ UNCHANGED <<status, heap, iso, snap, atSnap, wrote, load, stmts>>

Wake(x) ==
    /\ proc[x].wait # InvalidXID
    /\ StatusOf(proc[x].wait) # "running"
    /\ Moves(x, [proc[x] EXCEPT !.wait = InvalidXID])
    /\ UNCHANGED <<status, heap, iso, snap, atSnap, wrote, load, stmts>>

\* Lock, and Update's first half: check, write nothing.
CheckTarget(x) ==
    /\ At(x, "lock") \/ At(x, "check")
    /\ TM(x) # "TMBeingModified"
    /\ Moves(x, [proc[x] EXCEPT !.pc =
                    CASE TM(x) = "TMOk"        -> IF @ = "lock" THEN "check" ELSE "insert"
                      [] TM(x) \in Conflicts   -> "conflict"
                      [] TM(x) = "TMInvisible" -> "error"])
    /\ UNCHANGED <<status, heap, iso, snap, atSnap, wrote, load, stmts>>

\* Relation.Insert: the statement INSERT, or the new version of an UPDATE.
InsertTuple(x) ==
    /\ At(x, "insert")
    /\ Len(heap) < MaxTuples
    /\ LET tid == Len(heap) + 1
           old == heap[proc[x].target]
       IN  IF proc[x].kind = "insert"
           THEN /\ heap' = Append(heap, NewTuple(tid, 0, x, tid))
                /\ EndStmt(x)
           ELSE /\ heap' = Append(heap, NewTuple(old.row, old.val + 1, x, tid))
                /\ Moves(x, [proc[x] EXCEPT !.pc = "stamp", !.new = tid])
                /\ UNCHANGED <<snap, atSnap>>
    /\ UNCHANGED <<status, iso, wrote, load, stmts>>

\* TMOk under the exclusive lock: xmax, the xmax hints and, for an UPDATE,
\* the ctid in one step.  SetCtid is called only with a new version's TID.
Stamped(t, x, new) ==
    [t EXCEPT !.xmax = x,
              !.hints = @ \ {"XmaxCommitted", "XmaxInvalid"},
              !.ctid = IF new = NoTid THEN @ ELSE new]

\* Slip: what Lock said is not asked again.
StampUnasked(x) ==
    /\ At(x, "stamp")
    /\ proc[x].new # NoTid \/ TM(x) = "TMOk"
    /\ heap' = [heap EXCEPT ![proc[x].target] = Stamped(@, x, proc[x].new)]
    /\ wrote' = [wrote EXCEPT ![x][heap[proc[x].target].row] = @ + 1]
    /\ Moves(x, [proc[x] EXCEPT !.pc = "next", !.new = NoTid, !.target = NoTid])
    /\ UNCHANGED <<status, iso, snap, atSnap, load, stmts>>

StampTarget(x) ==
    /\ At(x, "stamp")
    /\ TM(x) = "TMOk"
    /\ heap' = [heap EXCEPT ![proc[x].target] = Stamped(@, x, proc[x].new)]
    /\ wrote' = [wrote EXCEPT ![x][heap[proc[x].target].row] = @ + 1]
    /\ Moves(x, [proc[x] EXCEPT !.pc = "next", !.new = NoTid, !.target = NoTid])
    /\ UNCHANGED <<status, iso, snap, atSnap, load, stmts>>

\* The stamp asks Modify again and may lose: an UPDATE then has a version to bury.
StampFails(x) ==
    /\ At(x, "stamp")
    /\ TM(x) \in Conflicts \cup {"TMInvisible"}
    /\ Moves(x, [proc[x] EXCEPT !.pc = IF proc[x].new # NoTid THEN "bury"
                                       ELSE IF TM(x) \in Conflicts THEN "conflict"
                                       ELSE "error"])
    /\ UNCHANGED <<status, heap, iso, snap, atSnap, wrote, load, stmts>>

\* markDeleted on the version just inserted, with x's own ID and no
\* snapshot: it carries no xmax, so the stamp cannot be refused.
Bury(x) ==
    /\ At(x, "bury")
    /\ heap' = [heap EXCEPT ![proc[x].new] = Stamped(@, x, NoTid)]
    /\ Moves(x, [proc[x] EXCEPT !.pc = IF TM(x) = "TMInvisible" THEN "error" ELSE "conflict",
                                !.new = NoTid])
    /\ UNCHANGED <<status, iso, snap, atSnap, wrote, load, stmts>>

\* Slip: the chain is followed under REPEATABLE READ too.
ConflictFollows(x) ==
    /\ At(x, "conflict")
    /\ LET old == heap[proc[x].target] IN
       Moves(x, IF old.ctid = proc[x].target THEN [proc[x] EXCEPT !.pc = "next", !.target = NoTid]
                ELSE [proc[x] EXCEPT !.pc = "recheck", !.target = old.ctid])
    /\ UNCHANGED <<status, heap, iso, snap, atSnap, wrote, load, stmts>>

\* ErrAlreadyDeleted: a serialization failure under REPEATABLE READ, the
\* next version of the row under READ COMMITTED.
Conflict(x) ==
    /\ At(x, "conflict")
    /\ LET old == heap[proc[x].target] IN
       Moves(x, IF iso[x] = "RepeatableRead" THEN [proc[x] EXCEPT !.pc = "error"]
                ELSE IF old.ctid = proc[x].target
                     THEN [proc[x] EXCEPT !.pc = "next", !.target = NoTid]
                ELSE [proc[x] EXCEPT !.pc = "recheck", !.target = old.ctid])
    /\ UNCHANGED <<status, heap, iso, snap, atSnap, wrote, load, stmts>>

\* Slip: the new version is written without asking.
RecheckNothing(x) ==
    /\ At(x, "recheck")
    /\ Moves(x, [proc[x] EXCEPT !.pc = FirstPc(proc[x].kind)])
    /\ UNCHANGED <<status, heap, iso, snap, atSnap, wrote, load, stmts>>

\* The quals are evaluated again, against the version the chain led to.
Recheck(x) ==
    /\ At(x, "recheck")
    /\ Moves(x, IF Qual(proc[x].qual, heap[proc[x].target])
                THEN [proc[x] EXCEPT !.pc = FirstPc(proc[x].kind)]
                ELSE [proc[x] EXCEPT !.pc = "next", !.target = NoTid])
    /\ UNCHANGED <<status, heap, iso, snap, atSnap, wrote, load, stmts>>

-----------------------------------------------------------------------------
Next ==
    \E x \in Xids :
        \/ \E level \in load.levels : Begin(x, level)
        \/ \E kind \in load.kinds, qual \in load.quals :
              /\ kind \in {"select", "insert"} => qual = "any"
              /\ StartStmt(x, kind, qual)
        \/ Finish(x, "committed") \/ Finish(x, "aborted")
        \/ ReadBlock(x) \/ SetHints(x) \/ EndScan(x)
        \/ NextTarget(x) \/ WaitForOther(x) \/ Wake(x) \/ CheckTarget(x)
        \/ InsertTuple(x) \/ StampTarget(x) \/ StampFails(x) \/ Bury(x)
        \/ Conflict(x) \/ Recheck(x)

Spec == Init /\ [][Next]_vars

-----------------------------------------------------------------------------
\* What a hint bit says is what the log says of the xmin or xmax the tuple
\* has now ("a hint can never lie", ch. 17): it survives the gap between the
\* judgement under the shared lock and the write under the exclusive one, and
\* a new xmax over an aborted one.
HintsAreTrue ==
    \A i \in DOMAIN heap : LET t == heap[i] IN
        /\ "XminCommitted" \in t.hints => StatusOf(t.xmin) = "committed"
        /\ "XminInvalid"   \in t.hints => StatusOf(t.xmin) = "aborted"
        /\ "XmaxCommitted" \in t.hints => t.xmax # 0 /\ StatusOf(t.xmax) = "committed"
        /\ "XmaxInvalid"   \in t.hints => t.xmax # 0 /\ StatusOf(t.xmax) = "aborted"

\* A scan that takes many steps returns what was committed when its snapshot
\* was taken, plus the transaction's own inserts, less its own deletes, no
\* matter who wrote, committed or aborted meanwhile.
ScanDone(x) == proc[x].pc = "scan" /\ proc[x].pos > proc[x].nblocks

ScanIsExact ==
    \A x \in Xids : ScanDone(x) =>
        proc[x].out = {i \in atSnap[x] : heap[i].xmax # x} \cup
                      {i \in DOMAIN heap : heap[i].xmin = x /\ heap[i].xmax # x}

\* No update is lost: the value of a row's committed version is the number of
\* updates the committed transactions were told they had made to it.
Total(w) ==
    LET sum[n \in 0 .. MaxXid] ==
            IF n = 0 THEN 0 ELSE sum[n - 1] + (IF n \in Xids THEN w[n] ELSE 0)
    IN  sum[MaxXid]

CountOf(row) == Total([x \in Xids |-> IF status[x] = "committed" THEN wrote[x][row] ELSE 0])

NoLostUpdate ==
    \A i \in LiveNow : heap[i].val = CountOf(heap[i].row)

\* First updater wins: the xmax and ctid a committed transaction left on a
\* version are there for good.
CommittedDeleteStays ==
    [][\A i \in DOMAIN heap :
          heap[i].xmax # 0 /\ StatusOf(heap[i].xmax) = "committed"
             => heap'[i].xmax = heap[i].xmax /\ heap'[i].ctid = heap[i].ctid]_vars

\* A REPEATABLE READ transaction changes only versions its snapshot sees.
RepeatableReadWrites ==
    \A x \in Xids, i \in DOMAIN heap :
        iso[x] = "RepeatableRead" /\ status[x] = "running" /\ heap[i].xmax = x
            => i \in atSnap[x] \/ heap[i].xmin = x

\* A statement changes no row its WHERE clause rejects: the version it
\* stamps passes the quals, also when it is not the one the scan chose.
QualsHold ==
    [][\A x \in Xids, i \in DOMAIN heap :
          heap'[i].xmax = x /\ heap[i].xmax # x /\ i # proc[x].new
             => Qual(proc[x].qual, heap[i])]_vars

=============================================================================

----------------------------- MODULE TxnManager -----------------------------
(***************************************************************************)
(* internal/txn.Manager and the control file it shares with                *)
(* catalog.NewOID: handing out transaction IDs, recording their verdicts   *)
(* in pg_xact/, answering Status, blocking in Wait, and what a crash of    *)
(* the process or of the machine leaves behind.  Every call to the file    *)
(* system that changes something may fail, at any step.                    *)
(*                                                                         *)
(* Every file is kept twice: what a read returns now, and what a crash of  *)
(* the machine may leave.  log[x] is the two-bit code the segment file     *)
(* holds, survive[x] the codes that may be there after such a crash: a     *)
(* write adds a code, a sync leaves only the written one.  A crash of the  *)
(* process changes neither.  The manager's mutex is op: while op.kind is   *)
(* not "none" its holder is between two steps of one call.  ctl is         *)
(* controlMu in the same way.                                              *)
(***************************************************************************)
EXTENDS Integers, FiniteSets

CONSTANTS
    MaxXid,           \* bound: the highest transaction ID a run hands out
    MaxOid,           \* bound: the highest object ID a run hands out
    Waiters,          \* goroutines that call Wait
    XactsPerSegment   \* transactions per pg_xact segment file

InvalidXID     == 0
BootstrapXID   == 1
FrozenXID      == 2
FirstNormalXID == 3
FirstOid       == 1   \* stands for FirstNormalObjectId, 16384

ASSUME XidAssumption  == MaxXid \in Nat /\ MaxXid >= FirstNormalXID
ASSUME OidAssumption  == MaxOid \in Nat
ASSUME SegAssumption  == XactsPerSegment \in Nat \ {0}

\* txn.Status: the two-bit codes of the log.
InProgress == 0
Committed  == 1
Aborted    == 2
Codes      == {InProgress, Committed, Aborted}

Xids     == FirstNormalXID .. MaxXid
Oids     == FirstOid .. MaxOid
Control  == [oid : FirstOid .. MaxOid + 1, xid : FirstNormalXID .. MaxXid + 1]
Segment(x) == x \div XactsPerSegment
Segments == {Segment(x) : x \in Xids}

NoOp  == [kind |-> "none", xid |-> 0, status |-> 0, pc |-> "idle"]
Ops   == [kind : {"none", "begin", "finish"}, xid : Xids \cup {0}, status : Codes,
          pc : {"idle", "control", "segment", "syncdir", "write", "sync", "return"}]

NoCtl == [by |-> "none", val |-> [oid |-> FirstOid, xid |-> FirstNormalXID],
          pc |-> "idle"]
Ctls  == [by : {"none", "begin", "oid"}, val : Control,
          pc : {"idle", "rename", "sync", "return"}]

VARIABLES
    open,        \* a Manager is open on the data directory
    next,        \* Manager.next
    running,     \* keys of Manager.running
    closed,      \* transactions whose channel was closed on a goroutine blocked on it
    op,          \* the call that holds Manager.mu
    log,         \* the codes the segment files hold
    survive,     \* the codes a crash may leave in them
    files,       \* the segment files that exist
    filesSynced, \* those whose directory entry a crash cannot lose
    control,     \* the content of global/control
    ctlSurvive,  \* the contents a crash may leave there
    ctl,         \* the UpdateControl that holds controlMu
    waitsFor,    \* the transaction each goroutine is blocked on, 0 if none
    \* History: what the callers have been told.
    issued,      \* transaction IDs Begin has returned
    oids,        \* object IDs NewOID has returned
    acked,       \* verdict of the Commit or Abort that returned nil, 0 if none
    told,        \* final verdicts Status has answered
    doubt,       \* transactions with a Commit cut short after its write
    cut,         \* segments created by a call cut short before SyncDir
    adrift       \* transactions whose Commit was written to one of those

mgrVars  == <<open, next, running, closed, op>>
logVars  == <<log, survive, files, filesSynced>>
ctlVars  == <<control, ctlSurvive, ctl>>
histVars == <<issued, oids, acked, told, doubt, cut, adrift>>
vars     == <<mgrVars, logVars, ctlVars, waitsFor, histVars>>

Init ==
    /\ open = TRUE
    /\ next = FirstNormalXID
    /\ running = {}
    /\ closed = {}
    /\ op = NoOp
    /\ log = [x \in Xids |-> InProgress]
    /\ survive = [x \in Xids |-> {InProgress}]
    /\ files = {}
    /\ filesSynced = {}
    /\ control = [oid |-> FirstOid, xid |-> FirstNormalXID]
    /\ ctlSurvive = {control}
    /\ ctl = NoCtl
    /\ waitsFor = [w \in Waiters |-> 0]
    /\ issued = {}
    /\ oids = {}
    /\ acked = [x \in Xids |-> 0]
    /\ told = [x \in Xids |-> {}]
    /\ doubt = {}
    /\ cut = {}
    /\ adrift = {}

Awaited == {waitsFor[w] : w \in Waiters}

MuFree == open /\ op = NoOp

-----------------------------------------------------------------------------
(* Status, without its lock: the four rules in their order.                *)

FutureXID == 3   \* stands for the error ErrFutureXID

\* Slip: the log's code is believed, 00 included.
VerdictRaw(x) ==
    CASE x = InvalidXID                  -> Aborted
      [] x \in {BootstrapXID, FrozenXID} -> Committed
      [] x >= next                       -> FutureXID
      [] OTHER                           -> log[x]

Verdict(x) ==
    CASE x = InvalidXID                  -> Aborted
      [] x \in {BootstrapXID, FrozenXID} -> Committed
      [] x >= next                       -> FutureXID
      [] x \in running                   -> InProgress
      [] OTHER -> IF log[x] = InProgress THEN Aborted ELSE log[x]

\* Readers ask about the IDs they find in tuples, which Begin handed out.
Status(x) ==
    /\ MuFree
    /\ x \in issued
    /\ Verdict(x) \in {Committed, Aborted}
    /\ told' = [told EXCEPT ![x] = @ \cup {Verdict(x)}]
    /\ UNCHANGED <<mgrVars, logVars, ctlVars, waitsFor, issued, oids, acked,
                   doubt, cut, adrift>>

-----------------------------------------------------------------------------
(* UpdateControl: under controlMu read the file, change one field, write   *)
(* control.tmp, rename it, sync global/.                                   *)

LockControl(by, val) ==
    /\ ctl = NoCtl
    /\ ctl' = [by |-> by, val |-> val, pc |-> "rename"]

\* Slip: global/ is not synced after the rename.
ControlRenameUnsynced ==
    /\ ctl.pc = "rename"
    /\ control' = ctl.val
    /\ ctlSurvive' = ctlSurvive \cup {ctl.val}
    /\ ctl' = [ctl EXCEPT !.pc = "return"]
    /\ UNCHANGED <<mgrVars, logVars, waitsFor, histVars>>

ControlRename ==
    /\ ctl.pc = "rename"
    /\ control' = ctl.val
    /\ ctlSurvive' = ctlSurvive \cup {ctl.val}
    /\ ctl' = [ctl EXCEPT !.pc = "sync"]
    /\ UNCHANGED <<mgrVars, logVars, waitsFor, histVars>>

ControlSync ==
    /\ ctl.pc = "sync"
    /\ ctlSurvive' = {control}
    /\ ctl' = [ctl EXCEPT !.pc = "return"]
    /\ UNCHANGED <<mgrVars, logVars, control, waitsFor, histVars>>

\* WriteControl fails before or after the rename; the caller gets the error.
ControlFails ==
    /\ ctl.pc \in {"rename", "sync"}
    /\ ctl' = NoCtl
    /\ op' = IF ctl.by = "begin" THEN NoOp ELSE op
    /\ UNCHANGED <<open, next, running, closed, logVars, control, ctlSurvive,
                   waitsFor, histVars>>

-----------------------------------------------------------------------------
(* Begin: the control file first, then next and the running set.           *)

BeginStart ==
    /\ MuFree
    /\ next <= MaxXid
    /\ op' = [kind |-> "begin", xid |-> next, status |-> 0, pc |-> "control"]
    /\ LockControl("begin", [control EXCEPT !.xid = next + 1])
    /\ UNCHANGED <<open, next, running, closed, logVars, control, ctlSurvive,
                   waitsFor, histVars>>

BeginReturn ==
    /\ ctl.by = "begin"
    /\ ctl.pc = "return"
    /\ next' = next + 1
    /\ running' = running \cup {op.xid}
    /\ issued' = issued \cup {op.xid}
    /\ op' = NoOp
    /\ ctl' = NoCtl
    /\ UNCHANGED <<open, closed, logVars, control, ctlSurvive, waitsFor,
                   oids, acked, told, doubt, cut, adrift>>

(* catalog.NewOID: the closure takes the current OID and increments it.    *)

NewOIDStart ==
    /\ open
    /\ control.oid <= MaxOid
    /\ LockControl("oid", [control EXCEPT !.oid = @ + 1])
    /\ UNCHANGED <<mgrVars, logVars, control, ctlSurvive, waitsFor, histVars>>

NewOIDReturn ==
    /\ ctl.by = "oid"
    /\ ctl.pc = "return"
    /\ oids' = oids \cup {ctl.val.oid - 1}
    /\ ctl' = NoCtl
    /\ UNCHANGED <<mgrVars, logVars, control, ctlSurvive, waitsFor,
                   issued, acked, told, doubt, cut, adrift>>

-----------------------------------------------------------------------------
(* finish(status, sync): Commit syncs the segment file, Abort does not.    *)
(* A transaction not in the running set is ErrFinished and changes nothing.*)

\* Slip: a transaction that has ended may be ended again.
FinishStartAgain(x, status) ==
    /\ MuFree
    /\ x \in issued
    /\ op' = [kind |-> "finish", xid |-> x, status |-> status, pc |-> "segment"]
    /\ UNCHANGED <<open, next, running, closed, logVars, ctlVars, waitsFor, histVars>>

FinishStart(x, status) ==
    /\ MuFree
    /\ x \in running
    /\ op' = [kind |-> "finish", xid |-> x, status |-> status, pc |-> "segment"]
    /\ UNCHANGED <<open, next, running, closed, logVars, ctlVars, waitsFor, histVars>>

Commit(x) == FinishStart(x, Committed)
Abort(x)  == FinishStart(x, Aborted)

\* Slip: the directory of a new segment file is not synced.
OpenSegmentOnly ==
    /\ op.pc = "segment"
    /\ files' = files \cup {Segment(op.xid)}
    /\ op' = [op EXCEPT !.pc = "write"]
    /\ UNCHANGED <<open, next, running, closed, log, survive, filesSynced,
                   ctlVars, waitsFor, histVars>>

\* segment(xid): opens the file, creating it on first use.
OpenSegment ==
    /\ op.pc = "segment"
    /\ files' = files \cup {Segment(op.xid)}
    /\ op' = [op EXCEPT !.pc = IF Segment(op.xid) \in files THEN "write" ELSE "syncdir"]
    /\ UNCHANGED <<open, next, running, closed, log, survive, filesSynced,
                   ctlVars, waitsFor, histVars>>

SyncDir ==
    /\ op.pc = "syncdir"
    /\ filesSynced' = files
    /\ cut' = {}
    /\ op' = [op EXCEPT !.pc = "write"]
    /\ UNCHANGED <<open, next, running, closed, log, survive, files, ctlVars,
                   waitsFor, issued, oids, acked, told, doubt, adrift>>

WriteCode ==
    /\ op.pc = "write"
    /\ log' = [log EXCEPT ![op.xid] = op.status]
    /\ survive' = [survive EXCEPT ![op.xid] = @ \cup {op.status}]
    /\ adrift' = IF op.status = Committed /\ Segment(op.xid) \in cut
                 THEN adrift \cup {op.xid} ELSE adrift
    /\ UNCHANGED <<open, next, running, closed, files, filesSynced, ctlVars,
                   waitsFor, issued, oids, acked, told, doubt, cut>>

\* Slip: Commit does not sync either.
FinishWriteUnsynced ==
    /\ WriteCode
    /\ op' = [op EXCEPT !.pc = "return"]

FinishWrite ==
    /\ WriteCode
    /\ op' = [op EXCEPT !.pc = IF op.status = Committed THEN "sync" ELSE "return"]

\* fsync covers the whole segment file, so also the aborts written before it.
FinishSync ==
    /\ op.pc = "sync"
    /\ survive' = [y \in Xids |-> IF Segment(y) = Segment(op.xid)
                                  THEN {log[y]} ELSE survive[y]]
    /\ op' = [op EXCEPT !.pc = "return"]
    /\ UNCHANGED <<open, next, running, closed, log, files, filesSynced,
                   ctlVars, waitsFor, histVars>>

\* What the call that holds the mutex leaves behind when it is cut short: a
\* written Commit code without a sync, or a segment file whose directory
\* entry is not synced, which no later call syncs, since only the call that
\* creates the file does.
CutShort ==
    /\ doubt' = IF op.pc = "sync" THEN doubt \cup {op.xid} ELSE doubt
    /\ cut' = IF op.pc = "syncdir" THEN cut \cup {Segment(op.xid)} ELSE cut

\* The open of the segment file fails, or the sync of its directory, or the
\* write, or the sync after it: the transaction stays in the running set,
\* "so a failed write can be retried".
FinishFails ==
    /\ op.pc \in {"segment", "syncdir", "write", "sync"}
    /\ op' = NoOp
    /\ CutShort
    /\ UNCHANGED <<open, next, running, closed, logVars, ctlVars, waitsFor,
                   issued, oids, acked, told, adrift>>

\* Slip: the transaction's channel stays open.
FinishReturnSilent ==
    /\ op.pc = "return"
    /\ running' = running \ {op.xid}
    /\ acked' = [acked EXCEPT ![op.xid] = op.status]
    /\ op' = NoOp
    /\ UNCHANGED <<open, next, closed, logVars, ctlVars, waitsFor, issued, oids, told,
                   doubt, cut, adrift>>

FinishReturn ==
    /\ op.pc = "return"
    /\ running' = running \ {op.xid}
    /\ closed' = closed \cup ({op.xid} \cap Awaited)
    /\ acked' = [acked EXCEPT ![op.xid] = op.status]
    /\ op' = NoOp
    /\ UNCHANGED <<open, next, logVars, ctlVars, waitsFor, issued, oids, told,
                   doubt, cut, adrift>>

-----------------------------------------------------------------------------
(* Wait: looks the channel up under the lock, then blocks on it unlocked.  *)

Wait(w, x) ==
    /\ MuFree
    /\ waitsFor[w] = 0
    /\ x \in running
    /\ waitsFor' = [waitsFor EXCEPT ![w] = x]
    /\ UNCHANGED <<mgrVars, logVars, ctlVars, histVars>>

Wake(w) ==
    /\ waitsFor[w] \in closed
    /\ op = NoOp      \* Wait retakes the mutex to lower the counter
    /\ waitsFor' = [waitsFor EXCEPT ![w] = 0]
    /\ UNCHANGED <<mgrVars, logVars, ctlVars, histVars>>

-----------------------------------------------------------------------------
(* Close forgets the running transactions; Open reads the control file; a  *)
(* crash of the process loses what is in memory, one of the machine what   *)
(* was not synced as well.                                                 *)

Close ==
    /\ MuFree
    /\ ctl = NoCtl
    /\ open' = FALSE
    /\ running' = {}
    /\ closed' = closed \cup (running \cap Awaited)
    /\ UNCHANGED <<next, op, logVars, ctlVars, waitsFor, histVars>>

Open ==
    /\ ~open
    /\ open' = TRUE
    /\ next' = control.xid
    /\ UNCHANGED <<running, closed, op, logVars, ctlVars, waitsFor, histVars>>

MemoryLost ==
    /\ open' = FALSE
    /\ running' = {}
    /\ closed' = {}
    /\ op' = NoOp
    /\ ctl' = NoCtl
    /\ waitsFor' = [w \in Waiters |-> 0]

\* The files stay as they are, so a later manager reads what was written and
\* a later crash of the machine may still lose it.
ProcessCrash ==
    /\ open
    /\ MemoryLost
    /\ CutShort
    /\ UNCHANGED <<next, logVars, control, ctlSurvive, issued, oids, acked, told, adrift>>

Crash ==
    /\ MemoryLost
    /\ control' \in ctlSurvive
    /\ ctlSurvive' = {control'}
    /\ files' \in {F \in SUBSET files : filesSynced \subseteq F}
    /\ filesSynced' = files'
    /\ log' \in [Xids -> Codes]
    /\ \A x \in Xids : IF Segment(x) \in files' THEN log'[x] \in survive[x]
                                                ELSE log'[x] = InProgress
    /\ survive' = [x \in Xids |-> {log'[x]}]
    /\ cut' = {}
    /\ UNCHANGED <<next, issued, oids, acked, told, doubt, adrift>>

-----------------------------------------------------------------------------
ControlStep == ControlRename \/ ControlSync \/ BeginReturn \/ NewOIDReturn
FinishStep  == OpenSegment \/ SyncDir \/ FinishWrite \/ FinishSync \/ FinishReturn

Next ==
    \/ BeginStart \/ NewOIDStart
    \/ ControlRename \/ ControlSync \/ ControlFails \/ BeginReturn \/ NewOIDReturn
    \/ \E x \in Xids : Commit(x) \/ Abort(x) \/ Status(x)
    \/ OpenSegment \/ SyncDir \/ FinishWrite \/ FinishSync \/ FinishFails \/ FinishReturn
    \/ \E w \in Waiters : Wake(w) \/ \E x \in Xids : Wait(w, x)
    \/ Close \/ Open \/ ProcessCrash \/ Crash

Spec == Init /\ [][Next]_vars

\* The holder of a mutex keeps running, and a goroutine whose channel is
\* closed gets to run although others take the mutex meanwhile.
FairSpec ==
    /\ Spec
    /\ WF_vars(ControlStep)
    /\ WF_vars(FinishStep)
    /\ \A w \in Waiters : SF_vars(Wake(w))

-----------------------------------------------------------------------------
(* The abstract transaction table: XactsInDoubt, and Xacts under it.       *)

XactStatus(x) ==
    IF x \notin issued THEN "unassigned"
    ELSE IF x \in running THEN "running"
    ELSE IF log[x] = Committed THEN "committed"
    ELSE "aborted"

Xact == INSTANCE XactsInDoubt WITH
    status  <- [x \in Xids |-> XactStatus(x)],
    inDoubt <- doubt \cup adrift

-----------------------------------------------------------------------------
TypeOK ==
    /\ open \in BOOLEAN
    /\ next \in FirstNormalXID .. MaxXid + 1
    /\ running \subseteq Xids
    /\ closed \subseteq Xids
    /\ op \in Ops
    /\ log \in [Xids -> Codes]
    /\ survive \in [Xids -> SUBSET Codes]
    /\ files \subseteq Segments
    /\ filesSynced \subseteq files
    /\ control \in Control
    /\ ctlSurvive \subseteq Control
    /\ ctl \in Ctls
    /\ waitsFor \in [Waiters -> Xids \cup {0}]
    /\ issued \subseteq Xids
    /\ oids \subseteq Oids
    /\ acked \in [Xids -> Codes]
    /\ told \in [Xids -> SUBSET {Committed, Aborted}]
    /\ doubt \subseteq Xids
    /\ cut \subseteq Segments
    /\ adrift \subseteq Xids

\* "IDs never repeat across restarts" (txn.go, Begin; catalog.go, NewOID):
\* the ID a Begin or a NewOID is about to return has never been returned,
\* whatever crashed, failed or was rewritten by the other one in between.
IdsNeverRepeat ==
    ctl.pc = "return" =>
        IF ctl.by = "begin" THEN op.xid \notin issued
                            ELSE ctl.val.oid - 1 \notin oids

\* A Commit that returned nil is Committed in every later manager, a crash of
\* the process or the machine at any point included (txn.go, Commit: "so a
\* commit survives a crash"), unless its segment file was created by a call
\* that was cut short before it synced the directory: no later call does, and
\* the machine may lose the file.
CommitSurvives ==
    \A x \in Xids : open /\ acked[x] = Committed /\ x \notin adrift => Verdict(x) = Committed

\* An Abort that returned nil reads as Aborted ever after, although its log
\* write is never synced, unless an earlier Commit of the same transaction
\* had failed in its sync.
AbortSurvives ==
    \A x \in Xids : open /\ acked[x] = Aborted /\ x \notin doubt => Verdict(x) = Aborted

\* The same without the exception: txn.go says of Abort that "a transaction
\* that is not recorded as committed counts as aborted anyway".
AbortIsFinal ==
    \A x \in Xids : open /\ acked[x] = Aborted => Verdict(x) = Aborted

\* A transaction starts with a clean slate: nothing is recorded for an ID
\* that is running and has not tried to finish, so no reader can take its
\* rows for committed (ch. 16: "handing a new transaction an ID whose commit
\* bit is already set").
NoInheritedVerdict ==
    \A x \in running :
        op.xid # x /\ x \notin doubt => log[x] = InProgress /\ survive[x] = {InProgress}

\* Verdicts are final: no two Status calls, before or after any number of
\* crashes, give different final answers for one transaction, which is what
\* makes it safe to cache a verdict in a tuple's hint bits.  The exceptions
\* are a Commit cut short between its write and the end of its sync, by an
\* error or by the end of the process, and the lost segment file above.
OneVerdict ==
    \A x \in Xids : told[x] = {Committed, Aborted} => x \in doubt \cup adrift

\* The manager implements XactsInDoubt: IDs are assigned once and in order,
\* and a verdict, once there, stays through every crash, but for the
\* transactions in doubt.  As long as there are none it implements Xacts.
ImplementsXacts == Xact!DoubtSpec

\* A caller blocked in Wait on a transaction that has ended, or whose
\* manager was closed, is released.
WaitersReleased ==
    \A w \in Waiters : (waitsFor[w] # 0 /\ waitsFor[w] \notin running) ~> (waitsFor[w] = 0)

=============================================================================

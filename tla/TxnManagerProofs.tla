-------------------------- MODULE TxnManagerProofs --------------------------
(***************************************************************************)
(* The safety of the transaction manager for every number of transactions, *)
(* object IDs, waiters and every segment size.  IndInv is the inductive    *)
(* invariant; its parts are named for what they say.                       *)
(***************************************************************************)
EXTENDS TxnManager, TLAPS

\* The lock holders: who holds what, and what controlMu protects.
LockInv ==
    /\ op.kind = "none" => op = NoOp
    /\ op.kind = "begin" => op.pc = "control"
    /\ op.kind = "finish" <=> op.pc \in {"segment", "syncdir", "write", "sync", "return"}
    /\ op.kind = "finish" => op.xid \in running /\ op.status \in {Committed, Aborted}
    /\ ctl.by = "none" => ctl = NoCtl
    /\ ctl.pc = "idle" => ctl = NoCtl
    /\ ctl.by = "oid" => ctl.val.oid > FirstOid
    /\ op # NoOp => open
    /\ ctl # NoCtl => open
    /\ op.kind = "begin" <=> ctl.by = "begin"
    /\ op.kind = "begin" => op.xid = next /\ ctl.val.xid = next + 1
    /\ ctl.pc \in {"sync", "return"} => control = ctl.val
    /\ ctl.pc = "return" => ctlSurvive = {control}
    /\ running \subseteq issued
    /\ ~open => running = {}

\* The counters: every control file a crash may leave is past every ID
\* handed out, and so is the one an update is about to install.
CounterInv ==
    /\ control \in ctlSurvive
    /\ \A c \in ctlSurvive : /\ \A x \in issued : x < c.xid
                             /\ \A o \in oids : o < c.oid
    /\ open => \A x \in issued : x < next
    /\ ctl # NoCtl => /\ \A x \in issued : x < ctl.val.xid
                      /\ \A o \in oids : o < ctl.val.oid
    /\ ctl.by = "oid" => \A o \in oids : o < ctl.val.oid - 1

\* The call that holds the mutex has x's Commit code written.
Committing(x) == op.xid = x /\ op.status = Committed /\ op.pc \in {"sync", "return"}
Writing(x)    == op.kind = "finish" /\ op.xid = x /\ op.pc \in {"sync", "return"}

\* A committed record no crash can lose, unless x is adrift.
Durable(x) == /\ log[x] = Committed
              /\ survive[x] = {Committed}
              /\ x \notin adrift => Segment(x) \in filesSynced

\* The transactions whose verdict a restart may change.
Unsure == doubt \cup adrift

LogInv ==
    /\ op.pc # "syncdir" => files \subseteq filesSynced \cup cut
    /\ op.pc = "syncdir" => files \subseteq filesSynced \cup cut \cup {Segment(op.xid)}
    /\ op.pc = "syncdir" => Segment(op.xid) \in files
    /\ op.pc \in {"write", "sync", "return"} => Segment(op.xid) \in filesSynced \cup cut
    /\ op.pc \in {"sync", "return"} /\ op.status = Committed /\ op.xid \notin adrift
          => Segment(op.xid) \in filesSynced
    /\ op.pc = "sync" => op.status = Committed /\ log[op.xid] = Committed
    /\ op.pc = "return" /\ op.status = Committed => Durable(op.xid)
    /\ op.pc = "return" /\ op.xid \notin doubt /\ op.status = Aborted
          => Committed \notin survive[op.xid]
    /\ \A x \in Xids : log[x] \in survive[x]

\* What is on disk for a transaction nobody has started to finish, and for
\* one that has ended.
VerdictInv ==
    /\ doubt \subseteq issued
    /\ adrift \subseteq issued
    /\ \A x \in Xids :
        /\ x \notin issued => survive[x] = {InProgress}
        /\ x \in running /\ x \notin doubt /\ ~Writing(x) => survive[x] = {InProgress}
        /\ x \in issued /\ x \notin running /\ x \notin Unsure
              => Durable(x) \/ Committed \notin survive[x]
        /\ acked[x] # 0 => x \in issued /\ x \notin running
        /\ acked[x] = Committed /\ x \notin adrift => Durable(x)
        /\ acked[x] = Aborted /\ x \notin doubt => Committed \notin survive[x]
        /\ told[x] # {} => x \in issued /\ x \notin running
        /\ x \notin Unsure /\ Committed \in told[x] => Durable(x)
        /\ x \notin Unsure /\ Aborted \in told[x] => Committed \notin survive[x]

IndInv == TypeOK /\ LockInv /\ CounterInv /\ LogInv /\ VerdictInv

-----------------------------------------------------------------------------
\* The values the calls leave in op and ctl.
LEMMA CallTypes ==
    ASSUME IndInv
    PROVE  /\ NoOp \in Ops /\ NoCtl \in Ctls
           /\ \A x \in Xids, status \in {Committed, Aborted} :
                 [kind |-> "finish", xid |-> x, status |-> status, pc |-> "segment"] \in Ops
           /\ op.kind = "finish" => op.xid \in Xids /\ op.status \in {Committed, Aborted}
           /\ op.pc \in {"segment", "syncdir", "write", "sync", "return"} => op.kind = "finish"
           /\ \A pc \in {"write", "syncdir", "sync", "return"} : [op EXCEPT !.pc = pc] \in Ops
           /\ \A pc \in {"sync", "return"} : [ctl EXCEPT !.pc = pc] \in Ctls
           /\ ctl.val \in Control
<1>1. op \in Ops /\ ctl \in Ctls /\ running \subseteq Xids
  BY DEF IndInv, TypeOK
<1>2. NoCtl \in Ctls
  BY OidAssumption, XidAssumption DEF NoCtl, Ctls, Control, FirstOid, FirstNormalXID
<1>3. /\ op.kind = "finish" => op.xid \in Xids /\ op.status \in {Committed, Aborted}
      /\ op.pc \in {"segment", "syncdir", "write", "sync", "return"} => op.kind = "finish"
  BY <1>1 DEF IndInv, LockInv
<1>4. ctl.val \in Control /\ \A pc \in {"sync", "return"} : [ctl EXCEPT !.pc = pc] \in Ctls
  BY <1>1 DEF Ctls
<1>5. NoOp \in Ops
  BY DEF NoOp, Ops, Codes, InProgress
<1>6. \A x \in Xids, status \in {Committed, Aborted} :
         [kind |-> "finish", xid |-> x, status |-> status, pc |-> "segment"] \in Ops
  BY DEF Ops, Codes
<1>7. \A pc \in {"write", "syncdir", "sync", "return"} : [op EXCEPT !.pc = pc] \in Ops
  BY <1>1 DEF Ops
<1> QED
  BY <1>2, <1>3, <1>4, <1>5, <1>6, <1>7

\* Every step keeps every variable in its type.
LEMMA TypeStep ==
    ASSUME IndInv, [Next]_vars
    PROVE  TypeOK'
<1> USE DEF IndInv, TypeOK
<1>1. CASE BeginStart
  <2>1. next \in Xids /\ next + 1 \in FirstNormalXID .. MaxXid + 1
    BY <1>1, XidAssumption DEF BeginStart, Xids, FirstNormalXID
  <2>2. op' \in Ops
    BY <1>1, <2>1 DEF BeginStart, Ops, Codes, InProgress
  <2>3. [control EXCEPT !.xid = next + 1] \in Control
    BY <2>1 DEF Control
  <2>4. ctl' \in Ctls
    BY <1>1, <2>3 DEF BeginStart, LockControl, Ctls
  <2> QED
    BY <1>1, <2>2, <2>4 DEF BeginStart, logVars, histVars
<1>2. CASE NewOIDStart
  <2>1. [control EXCEPT !.oid = @ + 1] \in Control
    BY <1>2, OidAssumption DEF NewOIDStart, Control, FirstOid
  <2>2. ctl' \in Ctls
    BY <1>2, <2>1 DEF NewOIDStart, LockControl, Ctls
  <2> QED
    BY <1>2, <2>2 DEF NewOIDStart, mgrVars, logVars, histVars
<1>3. CASE ControlRename
  BY <1>3, CallTypes DEF ControlRename, mgrVars, logVars, histVars
<1>4. CASE ControlSync
  BY <1>4, CallTypes DEF ControlSync, mgrVars, logVars, histVars
<1>5. CASE ControlFails
  BY <1>5, CallTypes DEF ControlFails, logVars, histVars
<1>6. CASE BeginReturn
  <2>1. op.xid = next /\ ctl.val.xid = next + 1
    BY <1>6 DEF BeginReturn, LockInv
  <2>2. next \in Xids /\ next + 1 \in FirstNormalXID .. MaxXid + 1
    BY <2>1, CallTypes, XidAssumption DEF Control, Xids, FirstNormalXID
  <2> QED
    BY <1>6, <2>1, <2>2, CallTypes DEF BeginReturn, logVars
<1>7. CASE NewOIDReturn
  <2>1. ctl.val.oid - 1 \in Oids
    BY <1>7, CallTypes, OidAssumption DEF NewOIDReturn, LockInv, Control, Oids, FirstOid
  <2> QED
    BY <1>7, <2>1, CallTypes DEF NewOIDReturn, mgrVars, logVars
<1>8. CASE \E x \in Xids, status \in {Committed, Aborted} : FinishStart(x, status)
  <2>1. op' \in Ops
    BY <1>8, CallTypes DEF FinishStart
  <2>2. UNCHANGED <<open, next, running, closed, logVars, ctlVars, waitsFor, histVars>>
    BY <1>8 DEF FinishStart
  <2> QED
    BY <2>1, <2>2 DEF logVars, ctlVars, histVars
<1>9. CASE \E x \in Xids : Status(x)
  <2>1. PICK x \in Xids : Status(x)
    BY <1>9
  <2>2. told' = [told EXCEPT ![x] = told[x] \cup {Verdict(x)}] /\ Verdict(x) \in {Committed, Aborted}
    BY <2>1 DEF Status
  <2>3. told' \in [Xids -> SUBSET {Committed, Aborted}]
    BY <2>2
  <2> QED
    BY <2>1, <2>3 DEF Status, mgrVars, logVars, ctlVars
<1>10. CASE OpenSegment
  <2>1. op.xid \in Xids /\ op' \in Ops
    BY <1>10, CallTypes DEF OpenSegment
  <2> QED
    BY <1>10, <2>1 DEF OpenSegment, Segments, ctlVars, histVars
<1>11. CASE SyncDir
  BY <1>11, CallTypes DEF SyncDir, ctlVars
<1>12. CASE FinishWrite
  <2>1. op.xid \in Xids /\ op.status \in Codes /\ op' \in Ops
    BY <1>12, CallTypes DEF FinishWrite, WriteCode, Codes
  <2>2. /\ log' \in [Xids -> Codes] /\ survive' \in [Xids -> SUBSET Codes]
        /\ adrift' \subseteq Xids
    BY <1>12, <2>1 DEF FinishWrite, WriteCode
  <2> QED
    BY <1>12, <2>1, <2>2 DEF FinishWrite, WriteCode, ctlVars
<1>13. CASE FinishSync
  <2>1. op' \in Ops
    BY <1>13, CallTypes DEF FinishSync
  <2>2. survive' \in [Xids -> SUBSET Codes]
    BY <1>13 DEF FinishSync
  <2> QED
    BY <1>13, <2>1, <2>2 DEF FinishSync, ctlVars, histVars
<1>14. CASE FinishFails
  <2>1. op.xid \in Xids
    BY <1>14, CallTypes DEF FinishFails
  <2>2. doubt' \subseteq Xids /\ cut' \subseteq Segments
    BY <1>14, <2>1 DEF FinishFails, CutShort, Segments
  <2> QED
    BY <1>14, <2>2, CallTypes DEF FinishFails, logVars, ctlVars
<1>15. CASE FinishReturn
  <2>1. op.xid \in Xids /\ op.status \in Codes /\ op' \in Ops
    BY <1>15, CallTypes DEF FinishReturn, Codes
  <2> QED
    BY <1>15, <2>1 DEF FinishReturn, logVars, ctlVars
<1>16. CASE \E w \in Waiters : Wake(w)
  BY <1>16 DEF Wake, mgrVars, logVars, ctlVars, histVars
<1>17. CASE \E w \in Waiters, x \in Xids : Wait(w, x)
  BY <1>17 DEF Wait, mgrVars, logVars, ctlVars, histVars
<1>18. CASE Close
  BY <1>18 DEF Close, logVars, ctlVars, histVars
<1>19. CASE Open
  <2>1. next' \in FirstNormalXID .. MaxXid + 1
    BY <1>19 DEF Open, Control
  <2> QED
    BY <1>19, <2>1 DEF Open, logVars, ctlVars, histVars
<1>20. CASE Crash
  <2>1. log' \in [Xids -> Codes] /\ survive' \in [Xids -> SUBSET Codes]
    BY <1>20 DEF Crash
  <2>2. filesSynced' \subseteq files' /\ files' \subseteq Segments
    BY <1>20 DEF Crash
  <2>3. control' \in Control /\ ctlSurvive' \subseteq Control
    BY <1>20 DEF Crash
  <2>4. op' \in Ops /\ ctl' \in Ctls /\ waitsFor' \in [Waiters -> Xids \cup {0}]
    BY <1>20, CallTypes DEF Crash, MemoryLost
  <2>5. open' \in BOOLEAN /\ running' \subseteq Xids /\ closed' \subseteq Xids
    BY <1>20 DEF Crash, MemoryLost
  <2>6. cut' \subseteq Segments /\ UNCHANGED <<next, issued, oids, acked, told, doubt, adrift>>
    BY <1>20 DEF Crash
  <2> QED
    BY <2>1, <2>2, <2>3, <2>4, <2>5, <2>6
<1>22. CASE ProcessCrash
  <2>1. op' \in Ops /\ ctl' \in Ctls /\ waitsFor' \in [Waiters -> Xids \cup {0}]
    BY <1>22, CallTypes DEF ProcessCrash, MemoryLost
  <2>2. open' \in BOOLEAN /\ running' \subseteq Xids /\ closed' \subseteq Xids
    BY <1>22 DEF ProcessCrash, MemoryLost
  <2>3. op.pc \in {"sync", "syncdir"} => op.xid \in Xids
    BY CallTypes
  <2>4. doubt' \subseteq Xids /\ cut' \subseteq Segments
    BY <1>22, <2>3 DEF ProcessCrash, CutShort, Segments
  <2> QED
    BY <1>22, <2>1, <2>2, <2>4 DEF ProcessCrash, logVars
<1>21. CASE UNCHANGED vars
  BY <1>21 DEF vars, mgrVars, logVars, ctlVars, histVars
<1> QED
  BY <1>1, <1>2, <1>3, <1>4, <1>5, <1>6, <1>7, <1>8, <1>9, <1>10, <1>11, <1>12, <1>13, <1>14,
     <1>15, <1>16, <1>17, <1>18, <1>19, <1>20, <1>22, <1>21 DEF Next, Commit, Abort

\* Every step keeps the locks' bookkeeping.
LEMMA LockStep ==
    ASSUME IndInv, [Next]_vars
    PROVE  LockInv'
<1> USE XidAssumption, OidAssumption, SegAssumption DEF IndInv, TypeOK, LockInv, NoOp, Ops, NoCtl, Ctls, Control, Codes, Xids, Oids, Segments, InProgress, Committed, Aborted, FirstOid, FirstNormalXID
<1>1. CASE BeginStart
  BY <1>1 DEF BeginStart, LockControl, MuFree, mgrVars, logVars, ctlVars, histVars
<1>2. CASE NewOIDStart
  BY <1>2 DEF NewOIDStart, LockControl, mgrVars, logVars, ctlVars, histVars
<1>3. CASE ControlRename
  BY <1>3 DEF ControlRename, mgrVars, logVars, ctlVars, histVars
<1>4. CASE ControlSync
  BY <1>4 DEF ControlSync, mgrVars, logVars, ctlVars, histVars
<1>5. CASE ControlFails
  BY <1>5 DEF ControlFails, mgrVars, logVars, ctlVars, histVars
<1>6. CASE BeginReturn
  <2>1. op.kind = "begin" /\ op.pc = "control" /\ open
    BY <1>6 DEF BeginReturn
  <2> QED
    BY <1>6, <2>1 DEF BeginReturn, mgrVars, logVars, ctlVars, histVars
<1>7. CASE NewOIDReturn
  BY <1>7 DEF NewOIDReturn, mgrVars, logVars, ctlVars, histVars
<1>8. CASE \E x \in Xids, status \in {Committed, Aborted} : FinishStart(x, status)
  BY <1>8 DEF FinishStart, MuFree, mgrVars, logVars, ctlVars, histVars
<1>9. CASE \E x \in Xids : Status(x)
  BY <1>9 DEF Status, MuFree, Verdict, mgrVars, logVars, ctlVars, histVars
<1>10. CASE OpenSegment
  BY <1>10 DEF OpenSegment, mgrVars, logVars, ctlVars, histVars
<1>11. CASE SyncDir
  BY <1>11 DEF SyncDir, mgrVars, logVars, ctlVars, histVars
<1>12. CASE FinishWrite
  BY <1>12 DEF FinishWrite, WriteCode, mgrVars, logVars, ctlVars, histVars
<1>13. CASE FinishSync
  BY <1>13 DEF FinishSync, mgrVars, logVars, ctlVars, histVars
<1>14. CASE FinishFails
  BY <1>14 DEF FinishFails, CutShort, mgrVars, logVars, ctlVars, histVars
<1>15. CASE FinishReturn
  BY <1>15 DEF FinishReturn, mgrVars, logVars, ctlVars, histVars
<1>16. CASE \E w \in Waiters : Wake(w)
  BY <1>16 DEF Wake, mgrVars, logVars, ctlVars, histVars
<1>17. CASE \E w \in Waiters, x \in Xids : Wait(w, x)
  BY <1>17 DEF Wait, MuFree, mgrVars, logVars, ctlVars, histVars
<1>18. CASE Close
  BY <1>18 DEF Close, MuFree, mgrVars, logVars, ctlVars, histVars
<1>19. CASE Open
  BY <1>19 DEF Open, mgrVars, logVars, ctlVars, histVars
<1>20. CASE Crash
  BY <1>20 DEF Crash, MemoryLost, mgrVars, logVars, ctlVars, histVars
<1>22. CASE ProcessCrash
  BY <1>22 DEF ProcessCrash, MemoryLost, CutShort, mgrVars, logVars, ctlVars, histVars
<1>21. CASE UNCHANGED vars
  BY <1>21 DEF vars, mgrVars, logVars, ctlVars, histVars
<1> QED
  BY <1>1, <1>2, <1>3, <1>4, <1>5, <1>6, <1>7, <1>8, <1>9, <1>10, <1>11, <1>12, <1>13, <1>14, <1>15, <1>16, <1>17, <1>18, <1>19, <1>20, <1>22, <1>21 DEF Next, Commit, Abort, vars

\* Every step keeps the control file ahead of every ID handed out.
LEMMA CounterStep ==
    ASSUME IndInv, [Next]_vars
    PROVE  CounterInv'
<1> USE XidAssumption, OidAssumption, SegAssumption DEF IndInv, TypeOK, LockInv, CounterInv, NoOp, Ops, NoCtl, Ctls, Control, Codes, Xids, Oids, Segments, InProgress, Committed, Aborted, FirstOid, FirstNormalXID
<1>1. CASE BeginStart
  <2>1. ctl'.val.xid = next + 1 /\ ctl'.val.oid = control.oid /\ ctl'.by = "begin" /\ open
    BY <1>1 DEF BeginStart, LockControl, MuFree
  <2>2. control \in ctlSurvive /\ control \in Control
    OBVIOUS
  <2>3. UNCHANGED <<control, ctlSurvive, issued, oids, next, open>>
    BY <1>1 DEF BeginStart, histVars
  <2> QED
    BY <2>1, <2>2, <2>3
<1>2. CASE NewOIDStart
  <2>1. ctl'.val.xid = control.xid /\ ctl'.val.oid = control.oid + 1 /\ ctl'.by = "oid"
    BY <1>2 DEF NewOIDStart, LockControl
  <2>2. control \in ctlSurvive /\ control \in Control
    OBVIOUS
  <2>3. UNCHANGED <<control, ctlSurvive, issued, oids, next, open>>
    BY <1>2 DEF NewOIDStart, mgrVars, logVars, ctlVars, histVars
  <2> QED
    BY <2>1, <2>2, <2>3
<1>3. CASE ControlRename
  BY <1>3 DEF ControlRename, mgrVars, logVars, ctlVars, histVars
<1>4. CASE ControlSync
  <2>1. /\ ctlSurvive' = {control} /\ control \in ctlSurvive
        /\ ctl'.by = ctl.by /\ ctl'.val = ctl.val /\ ctl # NoCtl
    BY <1>4 DEF ControlSync
  <2>2. UNCHANGED <<control, issued, oids, next, open>>
    BY <1>4 DEF ControlSync, mgrVars, histVars
  <2> QED
    BY <2>1, <2>2
<1>5. CASE ControlFails
  BY <1>5 DEF ControlFails, mgrVars, logVars, ctlVars, histVars
<1>6. CASE BeginReturn
  BY <1>6 DEF BeginReturn, mgrVars, logVars, ctlVars, histVars
<1>7. CASE NewOIDReturn
  BY <1>7 DEF NewOIDReturn, mgrVars, logVars, ctlVars, histVars
<1>8. CASE \E x \in Xids, status \in {Committed, Aborted} : FinishStart(x, status)
  BY <1>8 DEF FinishStart, MuFree, mgrVars, logVars, ctlVars, histVars
<1>9. CASE \E x \in Xids : Status(x)
  BY <1>9 DEF Status, MuFree, Verdict, mgrVars, logVars, ctlVars, histVars
<1>10. CASE OpenSegment
  BY <1>10 DEF OpenSegment, mgrVars, logVars, ctlVars, histVars
<1>11. CASE SyncDir
  BY <1>11 DEF SyncDir, mgrVars, logVars, ctlVars, histVars
<1>12. CASE FinishWrite
  BY <1>12 DEF FinishWrite, WriteCode, mgrVars, logVars, ctlVars, histVars
<1>13. CASE FinishSync
  BY <1>13 DEF FinishSync, mgrVars, logVars, ctlVars, histVars
<1>14. CASE FinishFails
  BY <1>14 DEF FinishFails, CutShort, mgrVars, logVars, ctlVars, histVars
<1>15. CASE FinishReturn
  BY <1>15 DEF FinishReturn, mgrVars, logVars, ctlVars, histVars
<1>16. CASE \E w \in Waiters : Wake(w)
  BY <1>16 DEF Wake, mgrVars, logVars, ctlVars, histVars
<1>17. CASE \E w \in Waiters, x \in Xids : Wait(w, x)
  BY <1>17 DEF Wait, MuFree, mgrVars, logVars, ctlVars, histVars
<1>18. CASE Close
  BY <1>18 DEF Close, MuFree, mgrVars, logVars, ctlVars, histVars
<1>19. CASE Open
  BY <1>19 DEF Open, mgrVars, logVars, ctlVars, histVars
<1>20. CASE Crash
  BY <1>20 DEF Crash, MemoryLost, mgrVars, logVars, ctlVars, histVars
<1>22. CASE ProcessCrash
  BY <1>22 DEF ProcessCrash, MemoryLost, CutShort, mgrVars, logVars, ctlVars, histVars
<1>21. CASE UNCHANGED vars
  BY <1>21 DEF vars, mgrVars, logVars, ctlVars, histVars
<1> QED
  BY <1>1, <1>2, <1>3, <1>4, <1>5, <1>6, <1>7, <1>8, <1>9, <1>10, <1>11, <1>12, <1>13, <1>14, <1>15, <1>16, <1>17, <1>18, <1>19, <1>20, <1>22, <1>21 DEF Next, Commit, Abort, vars

\* Every step keeps the log consistent with the call writing it.
LEMMA LogStep ==
    ASSUME IndInv, [Next]_vars
    PROVE  LogInv'
<1> USE XidAssumption, OidAssumption, SegAssumption DEF IndInv, TypeOK, LockInv, LogInv, Durable, NoOp, Ops, NoCtl, Ctls, Control, Codes, Xids, Oids, Segments, InProgress, Committed, Aborted, FirstOid, FirstNormalXID
<1>1. CASE BeginStart
  BY <1>1 DEF BeginStart, LockControl, MuFree, mgrVars, logVars, ctlVars, histVars
<1>2. CASE NewOIDStart
  BY <1>2 DEF NewOIDStart, LockControl, mgrVars, logVars, ctlVars, histVars
<1>3. CASE ControlRename
  BY <1>3 DEF ControlRename, mgrVars, logVars, ctlVars, histVars
<1>4. CASE ControlSync
  BY <1>4 DEF ControlSync, mgrVars, logVars, ctlVars, histVars
<1>5. CASE ControlFails
  BY <1>5 DEF ControlFails, mgrVars, logVars, ctlVars, histVars
<1>6. CASE BeginReturn
  BY <1>6 DEF BeginReturn, mgrVars, logVars, ctlVars, histVars
<1>7. CASE NewOIDReturn
  BY <1>7 DEF NewOIDReturn, mgrVars, logVars, ctlVars, histVars
<1>8. CASE \E x \in Xids, status \in {Committed, Aborted} : FinishStart(x, status)
  BY <1>8 DEF FinishStart, MuFree, mgrVars, logVars, ctlVars, histVars
<1>9. CASE \E x \in Xids : Status(x)
  BY <1>9 DEF Status, MuFree, Verdict, mgrVars, logVars, ctlVars, histVars
<1>10. CASE OpenSegment
  BY <1>10 DEF OpenSegment, mgrVars, logVars, ctlVars, histVars
<1>11. CASE SyncDir
  BY <1>11 DEF SyncDir, mgrVars, logVars, ctlVars, histVars
<1>12. CASE FinishWrite
  <2>1. op.xid \in Xids /\ op.kind = "finish" /\ Segment(op.xid) \in filesSynced \cup cut
    BY <1>12 DEF FinishWrite, WriteCode
  <2>2. log'[op.xid] = op.status /\ survive'[op.xid] = survive[op.xid] \cup {op.status}
    BY <1>12, <2>1 DEF FinishWrite, WriteCode
  <2>3. \A x \in Xids : log'[x] \in survive'[x]
    BY <1>12, <2>1, <2>2 DEF FinishWrite, WriteCode
  <2>4. op.status = Aborted /\ op.xid \notin doubt => Committed \notin survive'[op.xid]
    BY <1>12, <2>1, <2>2 DEF FinishWrite, WriteCode, VerdictInv, Writing
  <2>5. op.status = Committed /\ op.xid \notin adrift' => Segment(op.xid) \in filesSynced
    BY <1>12, <2>1 DEF FinishWrite, WriteCode
  <2> QED
    BY <1>12, <2>1, <2>2, <2>3, <2>4, <2>5
    DEF FinishWrite, WriteCode, mgrVars, logVars, ctlVars, histVars
<1>13. CASE FinishSync
  BY <1>13 DEF FinishSync, mgrVars, logVars, ctlVars, histVars
<1>14. CASE FinishFails
  BY <1>14 DEF FinishFails, CutShort, mgrVars, logVars, ctlVars, histVars
<1>15. CASE FinishReturn
  BY <1>15 DEF FinishReturn, mgrVars, logVars, ctlVars, histVars
<1>16. CASE \E w \in Waiters : Wake(w)
  BY <1>16 DEF Wake, mgrVars, logVars, ctlVars, histVars
<1>17. CASE \E w \in Waiters, x \in Xids : Wait(w, x)
  BY <1>17 DEF Wait, MuFree, mgrVars, logVars, ctlVars, histVars
<1>18. CASE Close
  BY <1>18 DEF Close, MuFree, mgrVars, logVars, ctlVars, histVars
<1>19. CASE Open
  BY <1>19 DEF Open, mgrVars, logVars, ctlVars, histVars
<1>20. CASE Crash
  BY <1>20 DEF Crash, MemoryLost, mgrVars, logVars, ctlVars, histVars
<1>22. CASE ProcessCrash
  BY <1>22 DEF ProcessCrash, MemoryLost, CutShort, mgrVars, logVars, ctlVars, histVars
<1>21. CASE UNCHANGED vars
  BY <1>21 DEF vars, mgrVars, logVars, ctlVars, histVars
<1> QED
  BY <1>1, <1>2, <1>3, <1>4, <1>5, <1>6, <1>7, <1>8, <1>9, <1>10, <1>11, <1>12, <1>13, <1>14, <1>15, <1>16, <1>17, <1>18, <1>19, <1>20, <1>22, <1>21 DEF Next, Commit, Abort, vars

\* A step that writes nothing and takes nothing back keeps the verdicts.
LEMMA VerdictKeeps ==
    ASSUME VerdictInv, UNCHANGED <<log, survive, doubt, adrift, issued, running, acked, told>>,
           filesSynced \subseteq filesSynced', \A x \in Xids : Writing(x) => Writing(x)'
    PROVE  VerdictInv'
<1>1. \A x \in Xids : Durable(x) => Durable(x)'
  BY DEF Durable
<1> QED
  BY <1>1 DEF VerdictInv, Unsure

\* Every step keeps what the log says of transactions that have ended.
LEMMA VerdictStep ==
    ASSUME IndInv, [Next]_vars
    PROVE  VerdictInv'
<1> USE DEF IndInv
<1>0. /\ op.kind = "finish" => op.xid \in running /\ op.status \in {Committed, Aborted}
      /\ op.kind = "finish" <=> op.pc \in {"segment", "syncdir", "write", "sync", "return"}
      /\ running \subseteq issued /\ issued \subseteq Xids /\ op \in Ops /\ filesSynced \subseteq files
  BY DEF LockInv, TypeOK
<1>1. CASE BeginStart \/ (\E x \in Xids, status \in {Committed, Aborted} : FinishStart(x, status))
  <2>1. op = NoOp /\ UNCHANGED <<running, logVars, histVars>>
    BY <1>1 DEF BeginStart, FinishStart, MuFree
  <2> QED
    BY <2>1, VerdictKeeps DEF NoOp, Writing, logVars, histVars
<1>2. CASE NewOIDStart \/ ControlRename \/ ControlSync \/ NewOIDReturn
  BY <1>2, VerdictKeeps DEF NewOIDStart, ControlRename, ControlSync, NewOIDReturn,
                            Writing, mgrVars, logVars, histVars
<1>3. CASE ControlFails
  <2>1. op.kind = "begin" <=> ctl.by = "begin"
    BY DEF LockInv
  <2> QED
    BY <1>3, <2>1, VerdictKeeps DEF ControlFails, Writing, logVars, histVars
<1>4. CASE BeginReturn
  <2>1. op.kind = "begin" /\ op.xid = next /\ open /\ next \notin issued
    <3>1. op.kind = "begin" /\ op.xid = next /\ open
      BY <1>4 DEF BeginReturn, LockInv, NoOp
    <3>2. \A x \in issued : x < next
      BY <3>1 DEF CounterInv
    <3> QED
      BY <3>1, <3>2 DEF TypeOK
  <2>2. /\ running' = running \cup {next} /\ issued' = issued \cup {next}
        /\ UNCHANGED <<doubt, adrift, acked, told, log, survive, filesSynced>>
    BY <1>4, <2>1 DEF BeginReturn, logVars
  <2>3. \A x \in Xids : ~Writing(x) /\ (Durable(x) => Durable(x)')
    BY <2>1, <2>2 DEF Writing, Durable
  <2> QED
    BY <1>0, <2>1, <2>2, <2>3 DEF VerdictInv, Unsure
<1>5. CASE \E x \in Xids : Status(x)
  <2>1. PICK x \in Xids : Status(x)
    BY <1>5
  <2>2. open /\ op = NoOp /\ x \in issued /\ Verdict(x) \in {Committed, Aborted}
    BY <2>1 DEF Status, MuFree
  <2>3. x < next /\ x >= FirstNormalXID /\ x \in Int
    BY <2>2 DEF CounterInv, Xids, FirstNormalXID
  <2>4. x \notin running /\ Verdict(x) = IF log[x] = InProgress THEN Aborted ELSE log[x]
    BY <2>2, <2>3 DEF Verdict, InvalidXID, BootstrapXID, FrozenXID, FutureXID,
                      FirstNormalXID, InProgress, Committed, Aborted, TypeOK
  <2>5. Committed \in survive[x] \/ log[x] # Committed
    BY DEF LogInv
  <2>6. x \notin Unsure => IF Verdict(x) = Committed THEN Durable(x)
                                                     ELSE Committed \notin survive[x]
    BY <2>2, <2>4, <2>5 DEF VerdictInv, Durable, Committed, Aborted, InProgress
  <2>7. UNCHANGED <<op, log, survive, filesSynced, doubt, adrift, issued, running, acked>>
    BY <2>1 DEF Status, mgrVars, logVars
  <2>8. /\ told'[x] = told[x] \cup {Verdict(x)}
        /\ \A y \in Xids \ {x} : told'[y] = told[y]
    BY <2>1 DEF Status, TypeOK
  <2>9. \A y \in Xids : Durable(y)' = Durable(y) /\ Writing(y)' = Writing(y)
    BY <2>7 DEF Durable, Writing
  <2> QED
    BY <2>2, <2>4, <2>6, <2>7, <2>8, <2>9 DEF VerdictInv, Unsure, Committed, Aborted
<1>6. CASE OpenSegment \/ SyncDir
  <2>1. op.pc \in {"segment", "syncdir"} /\ filesSynced \subseteq filesSynced'
    BY <1>0, <1>6 DEF OpenSegment, SyncDir
  <2>2. UNCHANGED <<log, survive, running, doubt, adrift, issued, acked, told>>
    BY <1>6 DEF OpenSegment, SyncDir, histVars
  <2> QED
    BY <2>1, <2>2, VerdictKeeps DEF Writing
<1>7. CASE FinishWrite
  <2>1. PICK t \in issued : op.xid = t /\ op.kind = "finish" /\ t \in running /\ t \in Xids
    BY <1>0, <1>7 DEF FinishWrite, WriteCode
  <2>2. /\ UNCHANGED <<doubt, issued, running, acked, told, filesSynced>>
        /\ adrift \subseteq adrift' /\ adrift' \subseteq adrift \cup {t}
    BY <1>7, <2>1 DEF FinishWrite, WriteCode
  <2>3. Writing(t)'
    BY <1>0, <1>7, <2>1 DEF FinishWrite, WriteCode, Writing, Ops
  <2>4. \A x \in Xids \ {t} : log'[x] = log[x] /\ survive'[x] = survive[x]
    BY <1>7, <2>1 DEF FinishWrite, WriteCode, TypeOK
  <2>5. \A x \in Xids \ {t} : ~Writing(x) /\ (Durable(x) => Durable(x)')
    BY <2>1, <2>2, <2>4 DEF Writing, Durable
  <2>6. \A x \in Xids \ {t} : VerdictInv!3!(x)'
    BY <2>1, <2>2, <2>4, <2>5 DEF VerdictInv, Unsure
  <2>7. VerdictInv!3!(t)'
    BY <2>1, <2>2, <2>3 DEF VerdictInv, Committed, Aborted
  <2>8. doubt' \subseteq issued' /\ adrift' \subseteq issued'
    BY <2>1, <2>2 DEF VerdictInv
  <2> QED
    BY <2>6, <2>7, <2>8 DEF VerdictInv
<1>8. CASE FinishSync
  <2>1. op.kind = "finish" /\ op.xid \in running /\ op.pc = "sync"
    BY <1>0, <1>8 DEF FinishSync
  <2>2. UNCHANGED <<doubt, adrift, issued, running, acked, told, log, filesSynced>>
    BY <1>8 DEF FinishSync, histVars
  <2>3. \A x \in Xids : survive'[x] = survive[x] \/ survive'[x] = {log[x]}
    BY <1>8 DEF FinishSync
  <2>4. \A x \in Xids : log[x] \in survive[x]
    BY DEF LogInv
  <2>5. \A x \in Xids : Writing(x) => Writing(x)'
    BY <1>0, <1>8, <2>1 DEF FinishSync, Writing, Ops
  <2>6. \A x \in Xids : /\ survive[x] = {InProgress} => survive'[x] = {InProgress}
                        /\ Committed \notin survive[x] => Committed \notin survive'[x]
                        /\ Durable(x) => Durable(x)'
    BY <2>2, <2>3, <2>4 DEF Durable
  <2> QED
    BY <2>2, <2>5, <2>6 DEF VerdictInv, Unsure
<1>9. CASE FinishFails
  <2>1. op.kind = "finish" /\ op.xid \in running /\ op.xid \in issued
    BY <1>0, <1>9 DEF FinishFails
  <2>2. UNCHANGED <<issued, running, acked, told, adrift, log, survive, filesSynced>>
    BY <1>9 DEF FinishFails, logVars
  <2>3. doubt \subseteq doubt' /\ doubt' \subseteq doubt \cup {op.xid}
    BY <1>9 DEF FinishFails, CutShort
  <2>4. ASSUME NEW x \in Xids, Writing(x) PROVE x \in doubt'
    BY <1>9, <2>4 DEF FinishFails, CutShort, Writing
  <2>5. \A x \in Xids : Durable(x) => Durable(x)'
    BY <2>2 DEF Durable
  <2> QED
    BY <2>1, <2>2, <2>3, <2>4, <2>5 DEF VerdictInv, Unsure
<1>10. CASE FinishReturn
  <2>1. PICK t \in issued : /\ op.xid = t /\ t \in running /\ t \in Xids
                            /\ op.kind = "finish" /\ op.status \in {Committed, Aborted}
    BY <1>0, <1>10 DEF FinishReturn
  <2>2. /\ running' = running \ {t}
        /\ UNCHANGED <<doubt, adrift, issued, told, log, survive, filesSynced>>
    BY <1>10, <2>1 DEF FinishReturn, logVars
  <2>3. acked'[t] = op.status /\ \A x \in Xids \ {t} : acked'[x] = acked[x]
    BY <1>10, <2>1 DEF FinishReturn, TypeOK
  <2>4. \A x \in Xids : Durable(x) => Durable(x)'
    BY <2>2 DEF Durable
  <2>5. IF op.status = Committed THEN Durable(t)
                                 ELSE t \notin doubt => Committed \notin survive[t]
    BY <1>10, <2>1 DEF FinishReturn, LogInv, Committed, Aborted
  <2>6. VerdictInv!3!(t)'
    BY <2>1, <2>2, <2>3, <2>4, <2>5 DEF VerdictInv, Unsure, Committed, Aborted
  <2>7. ASSUME NEW x \in Xids, x # t PROVE VerdictInv!3!(x)'
    <3>1. ~Writing(x)
      BY <2>1, <2>7 DEF Writing
    <3> QED
      BY <2>2, <2>3, <2>4, <2>7, <3>1 DEF VerdictInv, Unsure
  <2> QED
    BY <2>2, <2>6, <2>7 DEF VerdictInv
<1>11. CASE \E w \in Waiters : Wake(w) \/ \E x \in Xids : Wait(w, x)
  BY <1>11, VerdictKeeps DEF Wake, Wait, Writing, mgrVars, logVars, histVars
<1>12. CASE Close
  <2>1. op = NoOp /\ running' = {} /\ UNCHANGED <<log, survive, filesSynced, histVars>>
    BY <1>12 DEF Close, MuFree, logVars
  <2>2. \A x \in Xids : ~Writing(x) /\ (Durable(x) => Durable(x)')
    BY <2>1 DEF NoOp, Writing, Durable, histVars
  <2> QED
    BY <2>1, <2>2 DEF VerdictInv, Unsure, histVars, InProgress, Committed
<1>13. CASE Open
  BY <1>13, VerdictKeeps DEF Open, Writing, logVars, histVars
<1>14. CASE Crash
  <2>1. running' = {} /\ UNCHANGED <<doubt, adrift, issued, acked, told>>
    BY <1>14 DEF Crash, MemoryLost
  <2>2. \A x \in Xids : survive'[x] = {log'[x]}
    BY <1>14 DEF Crash
  <2>3. \A x \in Xids : IF Segment(x) \in files' THEN log'[x] \in survive[x]
                                                 ELSE log'[x] = InProgress
    BY <1>14 DEF Crash
  <2>4. filesSynced' = files' /\ filesSynced \subseteq files'
    BY <1>14 DEF Crash
  <2>5. \A x \in Xids \ adrift : Durable(x) => Durable(x)'
    BY <2>2, <2>3, <2>4 DEF Durable
  <2>6. \A x \in Xids : /\ Committed \notin survive[x] => Committed \notin survive'[x]
                        /\ survive[x] = {InProgress} => survive'[x] = {InProgress}
    BY <2>2, <2>3 DEF InProgress, Committed
  <2>7. \A x \in Xids : Durable(x)' \/ Committed \notin survive'[x]
    BY <2>2, <2>3, <2>4 DEF Durable, InProgress, Committed
  <2> QED
    BY <2>1, <2>5, <2>6, <2>7 DEF VerdictInv, Unsure
<1>16. CASE ProcessCrash
  <2>1. /\ running' = {} /\ op' = NoOp
        /\ UNCHANGED <<issued, acked, told, adrift, log, survive, filesSynced>>
    BY <1>16 DEF ProcessCrash, MemoryLost, logVars
  <2>2. doubt \subseteq doubt' /\ doubt' \subseteq issued
    BY <1>0, <1>16 DEF ProcessCrash, CutShort, VerdictInv
  <2>3. \A x \in Xids : Durable(x) => Durable(x)'
    BY <2>1 DEF Durable
  <2>4. ASSUME NEW x \in running, x \notin doubt', x \notin adrift
        PROVE  Durable(x) \/ Committed \notin survive[x]
    <3>1. x \in Xids /\ x \notin doubt /\ ~(op.pc = "sync" /\ op.xid = x)
      BY <1>16, <2>2, <2>4 DEF ProcessCrash, CutShort, TypeOK
    <3>2. CASE Writing(x)
      <4>1. op.pc = "return" /\ op.xid = x
        BY <3>1, <3>2 DEF Writing
      <4> QED
        BY <1>0, <3>1, <3>2, <4>1 DEF LogInv, Writing
    <3>3. CASE ~Writing(x)
      BY <3>1, <3>3 DEF VerdictInv, InProgress, Committed
    <3> QED
      BY <3>2, <3>3
  <2> QED
    BY <2>1, <2>2, <2>3, <2>4 DEF VerdictInv, Unsure
<1>15. CASE UNCHANGED vars
  BY <1>15, VerdictKeeps DEF Writing, vars, mgrVars, logVars, histVars
<1> QED
  BY <1>1, <1>2, <1>3, <1>4, <1>5, <1>6, <1>7, <1>8, <1>9, <1>10, <1>11, <1>12, <1>13, <1>14,
     <1>15, <1>16 DEF Next, Commit, Abort

-----------------------------------------------------------------------------
\* The inductive invariant holds of the initial states ...
LEMMA InitInv == Init => IndInv
  BY XidAssumption, OidAssumption, SegAssumption
  DEF Init, IndInv, TypeOK, LockInv, CounterInv, LogInv, VerdictInv, Unsure, Durable, Writing, NoOp, Ops, NoCtl, Ctls, Control, Codes, Xids, Oids, Segments, InProgress, Committed, Aborted, FirstOid, FirstNormalXID

\* ... and of every step.
LEMMA NextInv == IndInv /\ [Next]_vars => IndInv'
  BY TypeStep, LockStep, CounterStep, LogStep, VerdictStep DEF IndInv

LEMMA Invariance == Spec => []IndInv
  BY InitInv, NextInv, PTL DEF Spec

\* Every variable stays in its type.
THEOREM TypeCorrect == Spec => []TypeOK
<1>1. IndInv => TypeOK
  BY DEF IndInv
<1> QED
  BY <1>1, Invariance, PTL

\* No transaction ID and no object ID is handed out twice, across any
\* number of crashes, failed control file writes and reopenings, with
\* Begin and NewOID rewriting the one file they share.
THEOREM IdsAreFresh == Spec => []IdsNeverRepeat
<1>1. IndInv => IdsNeverRepeat
  BY DEF IndInv, TypeOK, LockInv, CounterInv, IdsNeverRepeat, NoOp, Ops, NoCtl, Ctls, Control, Codes, Xids, Oids, Segments, InProgress, Committed, Aborted, FirstOid, FirstNormalXID
<1> QED
  BY <1>1, Invariance, PTL

\* A Commit that returned stays committed whatever fails or crashes afterwards,
\* the process or the machine, unless the segment file it wrote to was created
\* by a call cut short before SyncDir.
THEOREM CommitIsDurable == Spec => []CommitSurvives
<1>1. IndInv => CommitSurvives
  <2> SUFFICES ASSUME IndInv, NEW x \in Xids, open, acked[x] = Committed, x \notin adrift
               PROVE  Verdict(x) = Committed
    BY DEF CommitSurvives
  <2>1. x \in issued /\ x \notin running /\ log[x] = Committed
    BY DEF IndInv, VerdictInv, Durable, NoOp, Ops, NoCtl, Ctls, Control, Codes, Xids, Oids, Segments, InProgress, Committed, Aborted, FirstOid, FirstNormalXID
  <2>2. x < next /\ x >= FirstNormalXID /\ x \in Int /\ next \in Int
    BY <2>1 DEF IndInv, CounterInv, TypeOK, NoOp, Ops, NoCtl, Ctls, Control, Codes, Xids, Oids, Segments, InProgress, Committed, Aborted, FirstOid, FirstNormalXID
  <2> QED
    BY <2>1, <2>2 DEF Verdict, InvalidXID, BootstrapXID, FrozenXID, FutureXID, NoOp, Ops, NoCtl, Ctls, Control, Codes, Xids, Oids, Segments, InProgress, Committed, Aborted, FirstOid, FirstNormalXID
<1> QED
  BY <1>1, Invariance, PTL

\* An Abort that returned reads as aborted for good, although its record
\* is never synced, unless a Commit of it had failed before.
THEOREM AbortIsDurable == Spec => []AbortSurvives
<1>1. IndInv => AbortSurvives
  <2> SUFFICES ASSUME IndInv, NEW x \in Xids, open, acked[x] = Aborted, x \notin doubt
               PROVE  Verdict(x) = Aborted
    BY DEF AbortSurvives
  <2>1. x \in issued /\ x \notin running /\ Committed \notin survive[x]
    BY DEF IndInv, VerdictInv, NoOp, Ops, NoCtl, Ctls, Control, Codes, Xids, Oids, Segments, InProgress, Committed, Aborted, FirstOid, FirstNormalXID
  <2>2. log[x] \in {InProgress, Aborted}
    BY <2>1 DEF IndInv, LogInv, TypeOK, NoOp, Ops, NoCtl, Ctls, Control, Codes, Xids, Oids, Segments, InProgress, Committed, Aborted, FirstOid, FirstNormalXID
  <2>3. x < next /\ x >= FirstNormalXID /\ x \in Int /\ next \in Int
    BY <2>1 DEF IndInv, CounterInv, TypeOK, NoOp, Ops, NoCtl, Ctls, Control, Codes, Xids, Oids, Segments, InProgress, Committed, Aborted, FirstOid, FirstNormalXID
  <2> QED
    BY <2>1, <2>2, <2>3 DEF Verdict, InvalidXID, BootstrapXID, FrozenXID, FutureXID, NoOp, Ops, NoCtl, Ctls, Control, Codes, Xids, Oids, Segments, InProgress, Committed, Aborted, FirstOid, FirstNormalXID
<1> QED
  BY <1>1, Invariance, PTL

\* A running transaction that has not tried to finish has nothing recorded.
THEOREM CleanSlate == Spec => []NoInheritedVerdict
<1>1. IndInv => NoInheritedVerdict
  BY DEF IndInv, TypeOK, LockInv, LogInv, VerdictInv, Writing, NoInheritedVerdict, NoOp, Ops, NoCtl, Ctls, Control, Codes, Xids, Oids, Segments, InProgress, Committed, Aborted, FirstOid, FirstNormalXID
<1> QED
  BY <1>1, Invariance, PTL

\* No two Status calls ever contradict each other about a transaction whose
\* Commit was not cut short between its write and the end of its sync, nor
\* written to a segment file the machine may lose.
THEOREM VerdictsAreFinal == Spec => []OneVerdict
<1>1. IndInv => OneVerdict
  BY DEF IndInv, TypeOK, VerdictInv, Unsure, Durable, OneVerdict, NoOp, Ops, NoCtl, Ctls, Control, Codes, Xids, Oids, Segments, InProgress, Committed, Aborted, FirstOid, FirstNormalXID
<1> QED
  BY <1>1, Invariance, PTL

-----------------------------------------------------------------------------
(* The manager implements XactsInDoubt, with the transactions of Unsure in *)
(* doubt, and Xacts as long as there are none.                             *)

\* The status XactsInDoubt is instantiated with; Unsure is its inDoubt.
absStatus == [x \in Xids |-> XactStatus(x)]

LEMMA SameXids == Xact!Xids = Xids
  BY DEF Xact!Xids, Xact!FirstNormalXID, Xids, FirstNormalXID

\* Who runs and who is assigned, in terms of the manager.
LEMMA AbsSets ==
    ASSUME IndInv
    PROVE  Xact!Running = running /\ Xact!Assigned = issued
<1>1. running \subseteq issued /\ issued \subseteq Xids
  BY DEF IndInv, TypeOK, LockInv
<1> QED
  BY <1>1, SameXids DEF Xact!Running, Xact!Assigned, XactStatus

\* A step that leaves issued, running and the ended transactions' log alone
\* leaves the mapped status alone.
LEMMA Stutter ==
    ASSUME issued' = issued, running' = running,
           \A x \in Xids : x \in issued /\ x \notin running
               => (log'[x] = Committed <=> log[x] = Committed)
    PROVE  UNCHANGED absStatus
  BY DEF absStatus, XactStatus

\* Begin's return is XactBegin: the ID is above every one assigned before.
LEMMA BeginMaps ==
    ASSUME IndInv, BeginReturn
    PROVE  Xact!XactBegin(op.xid) /\ op.xid \in Xids /\ UNCHANGED Unsure
<1>1. op.kind = "begin" /\ op.xid = next /\ open
  BY DEF IndInv, TypeOK, LockInv, BeginReturn, NoOp, NoCtl
<1>2. op.xid \in Xids /\ \A y \in issued : y < op.xid
  BY <1>1, XidAssumption DEF IndInv, TypeOK, LockInv, CounterInv, Ops, NoCtl, Ctls, Control, BeginReturn, Xids, FirstNormalXID
<1>3. \A y \in Xact!Assigned : y < op.xid
  BY <1>2, AbsSets
<1>4. absStatus' = [absStatus EXCEPT ![op.xid] = "running"]
  BY <1>2 DEF BeginReturn, logVars, absStatus, XactStatus
<1>5. UNCHANGED Unsure
  BY DEF BeginReturn, Unsure
<1> QED
  BY <1>2, <1>3, <1>4, <1>5 DEF Xact!XactBegin, absStatus

\* The return of Commit and of Abort is XactFinish with that verdict.
LEMMA FinishMaps ==
    ASSUME IndInv, FinishReturn
    PROVE  /\ \E x \in Xids : Xact!XactFinish(x, "committed") \/ Xact!XactFinish(x, "aborted")
           /\ UNCHANGED Unsure
<1> USE DEF IndInv, TypeOK, LockInv
<1>1. op.xid \in Xids /\ op.xid \in running /\ op.xid \in issued
  BY DEF FinishReturn
<1>2. op.status \in {Committed, Aborted}
  BY DEF FinishReturn
<1>3. running' = running \ {op.xid} /\ UNCHANGED <<issued, log, doubt, adrift>>
  BY DEF FinishReturn, logVars
<1>4. absStatus[op.xid] = "running"
  BY <1>1 DEF absStatus, XactStatus
<1>5. absStatus' = [absStatus EXCEPT ![op.xid] = IF log[op.xid] = Committed
                                                 THEN "committed" ELSE "aborted"]
  BY <1>1, <1>3 DEF absStatus, XactStatus
<1> QED
  BY <1>1, <1>3, <1>4, <1>5 DEF Xact!XactFinish, absStatus, Unsure

\* A Commit that may come to be in doubt is CommitCut.
LEMMA CutMaps ==
    ASSUME IndInv, FinishWrite \/ FinishFails
    PROVE  /\ UNCHANGED absStatus
           /\ (\E x \in Xids : Xact!CommitCut(x)) \/ UNCHANGED Unsure
<1>1. op.xid \in running /\ op.xid \in Xids
  BY DEF FinishWrite, WriteCode, FinishFails, IndInv, TypeOK, LockInv
<1>2. UNCHANGED absStatus
  <2>1. \A x \in Xids : x \notin running => log'[x] = log[x]
    BY <1>1 DEF FinishWrite, WriteCode, FinishFails, logVars, IndInv, TypeOK
  <2>2. UNCHANGED <<issued, running>>
    BY DEF FinishWrite, WriteCode, FinishFails
  <2> QED
    BY <2>1, <2>2, Stutter
<1>3. Unsure' = Unsure \/ Unsure' = Unsure \cup {op.xid}
  BY DEF FinishWrite, WriteCode, FinishFails, CutShort, Unsure
<1> QED
  BY <1>1, <1>2, <1>3, AbsSets DEF Xact!CommitCut, absStatus, Unsure

\* A Close or a crash is DoubtRestart; C are the transactions whose code is
\* Committed after it.
LEMMA RestartMaps ==
    ASSUME IndInv, running' = {}, issued' = issued,
           Unsure' = Unsure \/ \E x \in running : Unsure' = Unsure \cup {x},
           \A x, y \in running \ Unsure' :
               log'[x] = Committed /\ log'[y] = Committed => x = y,
           \A x \in issued \ running :
               x \notin Unsure' => (log'[x] = Committed <=> log[x] = Committed)
    PROVE  Xact!DoubtRestart
<1> DEFINE C == {x \in issued : log'[x] = Committed}
<1>1. running \subseteq issued /\ issued \subseteq Xids
  BY DEF IndInv, TypeOK, LockInv
<1>2. absStatus' = [x \in Xids |-> IF x \in running \/ (x \in Unsure' /\ x \in issued)
                                   THEN IF x \in C THEN "committed" ELSE "aborted"
                                   ELSE absStatus[x]]
  <2> SUFFICES ASSUME NEW x \in Xids
               PROVE  XactStatus(x)' = IF x \in running \/ (x \in Unsure' /\ x \in issued)
                                       THEN IF x \in C THEN "committed" ELSE "aborted"
                                       ELSE XactStatus(x)
    BY DEF absStatus
  <2>1. CASE x \notin issued
    BY <1>1, <2>1 DEF XactStatus
  <2>2. CASE x \in issued
    BY <2>2 DEF XactStatus
  <2> QED
    BY <2>1, <2>2
<1>3. C \in SUBSET issued /\ \A x, y \in (C \cap running) \ Unsure' : x = y
  OBVIOUS
<1>4. Unsure' \in {Unsure} \cup {Unsure \cup {x} : x \in running}
  OBVIOUS
<1> HIDE DEF C
<1> QED
  BY <1>2, <1>3, <1>4, AbsSets, SameXids DEF Xact!DoubtRestart, absStatus, Unsure

\* Of the running transactions outside doubt only the one in Commit has a
\* Committed code that may be read after the process has ended.
LEMMA OneCommitting ==
    ASSUME IndInv, NEW x \in running, x \notin doubt, Committed \in survive[x]
    PROVE  Writing(x)
  BY DEF IndInv, TypeOK, VerdictInv, InProgress, Committed

\* Close writes nothing, and no call is under way.
LEMMA CloseMaps ==
    ASSUME IndInv, Close
    PROVE  Xact!DoubtRestart
<1>1. running' = {} /\ UNCHANGED <<issued, log, doubt, adrift>> /\ op = NoOp
  BY DEF Close, MuFree, logVars, histVars
<1>2. \A x \in running \ Unsure : log[x] # Committed
  BY <1>1, OneCommitting DEF IndInv, TypeOK, LogInv, Writing, NoOp, Unsure
<1> QED
  BY <1>1, <1>2, RestartMaps DEF Unsure

\* A crash of the process leaves the log as it is.
LEMMA ProcessCrashMaps ==
    ASSUME IndInv, ProcessCrash
    PROVE  Xact!DoubtRestart
<1>1. running' = {} /\ UNCHANGED <<issued, log, adrift>> /\ doubt \subseteq doubt'
  BY DEF ProcessCrash, MemoryLost, CutShort, logVars
<1>2. Unsure' = Unsure \/ \E x \in running : Unsure' = Unsure \cup {x}
  BY DEF ProcessCrash, CutShort, Unsure, IndInv, TypeOK, LockInv
<1>3. ASSUME NEW x \in running \ Unsure', log[x] = Committed
      PROVE  op.xid = x
  BY <1>1, <1>3, OneCommitting DEF IndInv, TypeOK, LogInv, Writing, Unsure
<1> QED
  BY <1>1, <1>2, <1>3, RestartMaps

\* A crash of the machine: the transactions that had ended keep their
\* verdict unless they are in doubt.
LEMMA CrashMaps ==
    ASSUME IndInv, Crash
    PROVE  Xact!DoubtRestart
<1>1. running' = {} /\ UNCHANGED <<issued, doubt, adrift>>
  BY DEF Crash, MemoryLost
<1>2. \A x \in Xids : IF Segment(x) \in files' THEN log'[x] \in survive[x]
                                                ELSE log'[x] = InProgress
  BY DEF Crash
<1>3. filesSynced \subseteq files'
  BY DEF Crash
<1>4. ASSUME NEW x \in running \ Unsure, log'[x] = Committed
      PROVE  op.xid = x
  <2>1. x \in Xids /\ Committed \in survive[x]
    BY <1>2, <1>4 DEF IndInv, TypeOK, InProgress, Committed
  <2> QED
    BY <1>4, <2>1, OneCommitting DEF Writing, Unsure
<1>5. ASSUME NEW x \in issued \ running, x \notin Unsure
      PROVE  log'[x] = Committed <=> log[x] = Committed
  <2>1. x \in Xids /\ log[x] \in survive[x]
    BY DEF IndInv, TypeOK, LogInv
  <2>2. CASE Durable(x)
    BY <1>2, <1>3, <1>5, <2>1, <2>2 DEF Durable, Unsure
  <2>3. CASE Committed \notin survive[x]
    BY <1>2, <2>1, <2>3 DEF InProgress, Committed
  <2> QED
    BY <1>5, <2>1, <2>2, <2>3 DEF IndInv, VerdictInv, Unsure
<1> QED
  BY <1>1, <1>4, <1>5, RestartMaps DEF Unsure

\* Every step of the manager is a step of XactsInDoubt or a stutter.
LEMMA MapsToXacts ==
    ASSUME IndInv, [Next]_vars
    PROVE  Xact!DoubtNext \/ UNCHANGED <<absStatus, Unsure>>
<1>1. ASSUME UNCHANGED <<issued, running, log, doubt, adrift>>
      PROVE  UNCHANGED <<absStatus, Unsure>>
  BY <1>1, Stutter DEF Unsure
<1>2. CASE BeginReturn
  BY <1>2, BeginMaps, SameXids DEF Xact!DoubtNext, Unsure
<1>3. CASE FinishReturn
  BY <1>3, FinishMaps, SameXids DEF Xact!DoubtNext, Unsure
<1>4. CASE FinishWrite \/ FinishFails
  BY <1>4, CutMaps, SameXids DEF Xact!DoubtNext
<1>5. CASE Close
  BY <1>5, CloseMaps DEF Xact!DoubtNext
<1>6. CASE ProcessCrash
  BY <1>6, ProcessCrashMaps DEF Xact!DoubtNext
<1>7. CASE Crash
  BY <1>7, CrashMaps DEF Xact!DoubtNext
<1>8. CASE BeginStart \/ NewOIDStart \/ ControlRename \/ ControlSync \/ ControlFails
            \/ NewOIDReturn
  BY <1>1, <1>8 DEF BeginStart, NewOIDStart, ControlRename, ControlSync, ControlFails, NewOIDReturn, mgrVars, logVars, histVars
<1>9. CASE OpenSegment \/ SyncDir \/ FinishSync \/ Open
  BY <1>1, <1>9 DEF OpenSegment, SyncDir, FinishSync, Open, logVars, histVars
<1>10. CASE \E x \in Xids : Commit(x) \/ Abort(x) \/ Status(x)
  BY <1>1, <1>10 DEF Commit, Abort, FinishStart, Status, mgrVars, logVars, histVars
<1>11. CASE \E w \in Waiters : Wake(w) \/ \E x \in Xids : Wait(w, x)
  BY <1>1, <1>11 DEF Wake, Wait, mgrVars, logVars, histVars
<1>12. CASE UNCHANGED vars
  BY <1>1, <1>12 DEF vars, mgrVars, logVars, histVars
<1> QED
  BY <1>2, <1>3, <1>4, <1>5, <1>6, <1>7, <1>8, <1>9, <1>10, <1>11, <1>12 DEF Next

\* The manager, whatever fails, crashes and restarts, does what XactsInDoubt
\* says: every ID is assigned once and in order, and has one verdict for
\* good unless its own Commit put it in doubt.
THEOREM ManagerImplementsXacts == Spec => ImplementsXacts
<1>1. Init => Xact!DoubtInit
  BY SameXids DEF Init, Xact!DoubtInit, Xact!XactInit, XactStatus
<1>2. IndInv /\ [Next]_vars => [Xact!DoubtNext]_<<absStatus, Unsure>>
  BY MapsToXacts
<1> QED
  BY <1>1, <1>2, Invariance, PTL DEF Spec, ImplementsXacts, Xact!DoubtSpec, absStatus, Unsure

\* A step of XactsInDoubt that has and leaves nothing in doubt is one of Xacts.
LEMMA CertainStep ==
    ASSUME Unsure = {}, Unsure' = {}, [Xact!DoubtNext]_<<absStatus, Unsure>>
    PROVE  [Xact!XactNext]_absStatus
<1>1. CASE Xact!DoubtRestart
  <2>1. PICK C \in SUBSET Xact!Assigned :
          /\ \A x, y \in (C \cap Xact!Running) \ Unsure' : x = y
          /\ absStatus' = [x \in Xact!Xids |->
                             IF x \in Xact!Running \/ (x \in Unsure' /\ x \in Xact!Assigned)
                             THEN IF x \in C THEN "committed" ELSE "aborted"
                             ELSE absStatus[x]]
    BY <1>1 DEF Xact!DoubtRestart, absStatus, Unsure
  <2> DEFINE D == C \cap Xact!Running
  <2>2. D \in SUBSET Xact!Running /\ \A x, y \in D : x = y
    BY <2>1
  <2>3. absStatus' = [x \in Xact!Xids |-> IF x \in D THEN "committed"
                                          ELSE IF x \in Xact!Running THEN "aborted"
                                          ELSE absStatus[x]]
    BY <2>1
  <2>4. CASE Xact!Running = {}
    BY <2>3, <2>4, SameXids DEF absStatus
  <2>5. CASE Xact!Running # {}
    <3> HIDE DEF D
    <3> QED
      BY <2>2, <2>3, <2>5 DEF Xact!XactNext, Xact!XactRestart, absStatus
  <2> QED
    BY <2>4, <2>5
<1>2. ASSUME NEW x \in Xact!Xids, Xact!CommitCut(x)
      PROVE  FALSE
  BY <1>2 DEF Xact!CommitCut, Unsure
<1> QED
  BY <1>1, <1>2 DEF Xact!DoubtNext, Xact!XactNext, absStatus

\* As long as no Commit is cut short after its write, and none is written to
\* a file that may be lost, the manager implements the plain table the
\* modules above it are built on.
THEOREM ManagerWithoutDoubt == Spec /\ [](Unsure = {}) => Xact!XactSpec
<1>1. Init => Xact!XactInit
  BY SameXids DEF Init, Xact!XactInit, XactStatus
<1>2. IndInv /\ [Next]_vars => [Xact!DoubtNext]_<<absStatus, Unsure>>
  BY MapsToXacts
<1>3. /\ Unsure = {} /\ (Unsure = {})' /\ [Xact!DoubtNext]_<<absStatus, Unsure>>
      => [Xact!XactNext]_absStatus
  BY CertainStep
<1> QED
  BY <1>1, <1>2, <1>3, Invariance, PTL DEF Spec, Xact!XactSpec, absStatus

=============================================================================

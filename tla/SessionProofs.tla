---------------------------- MODULE SessionProofs ----------------------------
(***************************************************************************)
(* The promises of Session for every number of connections, tables,        *)
(* transactions, crashes and failing calls.  IndInv is the inductive       *)
(* invariant: types, what a session knows of its transaction, what a       *)
(* pending removal says of the catalog row of its file, and for what       *)
(* verdict a file went.  It speaks of a transaction's fate: the verdict in *)
(* the log, or "aborted" from the moment its Abort has failed.             *)
(***************************************************************************)
EXTENDS Session, TLAPS

Pcs  == {"idle", "snapshot", "run", "row", "drop", "flush", "bit", "undo", "committed", "aborted"}
XidOrNone == Xids \cup {InvalidXID}
Rows == [xmin : XidOrNone, xmax : XidOrNone, ctid : {0}, hints : {{}}]
PendingFiles == [oid : Oids, atCommit : BOOLEAN]
Ended == {"committed", "aborted"}

\* The lower bound of a snapshot is what Take's choice makes of Running.
Lowest == {CHOOSE m \in R : \A y \in R : m <= y : R \in SUBSET Xids}
Snaps  == [xmin : Lowest \cup (0 .. MaxXid + 1), xmax : 0 .. MaxXid + 1,
           xip : SUBSET Xids, xid : XidOrNone]
SessionRecs == [tx : XidOrNone, explicit : BOOLEAN, failed : BOOLEAN,
                isolation : Levels, snap : Snaps, pc : Pcs,
                oid : Oids \cup {NoOid}, wait : XidOrNone, err : BOOLEAN]

TypeInv ==
    /\ status \in [Xids -> Statuses]
    /\ inDoubt \subseteq Xids
    /\ class \in [Oids -> Rows]
    /\ files \subseteq Oids
    /\ nextOid \in 1 .. MaxTables + 1
    /\ ss \in [Sessions -> SessionRecs]
    /\ pending \in [Sessions -> SUBSET PendingFiles]
    /\ crashes \in Nat /\ faults \in Nat
    /\ answer \in [Xids -> {"none", "COMMIT", "ROLLBACK", "error"}]
    /\ stuck \subseteq Xids
    /\ stray \subseteq Oids /\ bereft \subseteq Oids

\* What becomes of a transaction, unless a crash decides otherwise.
fate == [x \in Xids |-> IF x \in stuck THEN "aborted" ELSE status[x]]

\* An Abort that failed leaves its transaction running; a Commit that was
\* cut short belongs to a transaction that began.
DoubtInv ==
    /\ \A x \in stuck : status[x] = "running"
    /\ \A x \in inDoubt : status[x] # "unassigned"

\* What a session knows of its transaction: it runs until the session has
\* recorded its end, or has tried to.
Verdict(s) == IF ss[s].failed \/ ss[s].pc = "aborted" THEN "aborted"
              ELSE IF ss[s].pc = "committed" THEN "committed" ELSE "running"

Knows(s) ==
    /\ ss[s].pc # "idle" \/ ss[s].failed \/ ss[s].explicit => ss[s].tx # NoTx
    /\ ss[s].failed => ss[s].pc \in {"idle", "aborted"}
    /\ ss[s].tx # NoTx => fate[ss[s].tx] = Verdict(s)

\* No other session has it, and none is left without a session.
LiveInv ==
    /\ \A s \in Sessions : Knows(s)
    /\ \A s, t \in Sessions : ss[s].tx = ss[t].tx /\ ss[s].tx # NoTx => s = t
    /\ \A x \in Xids : fate[x] = "running" => \E s \in Sessions : ss[s].tx = x

\* A row names transactions that began, and OIDs are not reused.
RowInv ==
    \A o \in Oids :
        /\ Row(o) => o < nextOid /\ status[class[o].xmin] # "unassigned"
        /\ class[o].xmax # InvalidXID => Row(o) /\ status[class[o].xmax] # "unassigned"

\* A file noted for removal at commit belongs to a row the transaction has
\* marked deleted, unless it aborted; one noted for removal at abort to a
\* row only this transaction wrote, or to none.
Noted(s, f) ==
    /\ ss[s].tx # NoTx /\ f.oid < nextOid
    /\ f.atCommit => Row(f.oid)
    /\ f.atCommit /\ fate[ss[s].tx] # "aborted" => class[f.oid].xmax = ss[s].tx
    /\ ~f.atCommit /\ Row(f.oid) => class[f.oid].xmin = ss[s].tx

\* Between CreateFile and WriteRow the file is there and the row is not.
InStatement(s) ==
    /\ ss[s].pc = "row" => /\ ss[s].oid \in files /\ ~Row(ss[s].oid)
                           /\ Created(ss[s].oid) \in pending[s]
    /\ ss[s].pc = "drop" => ss[s].oid \in Oids /\ Row(ss[s].oid)

PendingInv ==
    /\ \A s \in Sessions : \A f \in pending[s] : Noted(s, f)
    /\ \A s, t \in Sessions : \A o \in Oids :
          Created(o) \in pending[s] /\ Created(o) \in pending[t] => s = t
    /\ \A s \in Sessions : InStatement(s)

\* The session's snapshot is its transaction's.
SnapInv ==
    \A s \in Sessions :
        ss[s].snap # NoSnap => ss[s].tx # NoTx /\ ss[s].snap.xid = ss[s].tx

\* Transaction IDs are handed out without gaps.
GapInv ==
    \E n \in FirstNormalXID .. MaxXid + 1 :
        \A x \in Xids : status[x] # "unassigned" <=> x < n

\* A table's file is gone only because its creator has aborted or whoever
\* dropped it has committed, and no crash can change that; or the file went
\* for a verdict that was in doubt.
Doomed(o) ==
    \/ class[o].xmin \notin inDoubt /\ fate[class[o].xmin] = "aborted"
    \/ /\ class[o].xmax # InvalidXID
       /\ class[o].xmax \notin inDoubt /\ fate[class[o].xmax] = "committed"

TableInv == \A o \in Oids : Row(o) => o \in files \cup bereft \/ Doomed(o)

\* An answer is the fate of the transaction, unless Commit left it in doubt.
AnswerInv ==
    \A x \in Xids \ inDoubt : /\ answer[x] = "COMMIT"   => fate[x] = "committed"
                              /\ answer[x] = "ROLLBACK" => fate[x] = "aborted"

\* Without a crash, a file without a committed row, or with a row somebody
\* has deleted, is in the hands of the transaction that did it, or its
\* Unlink has failed.
MadeBy(s, o) ==
    /\ Created(o) \in pending[s]
    /\ fate[ss[s].tx] = "aborted" \/ Row(o) \/ (ss[s].pc = "row" /\ ss[s].oid = o)

RemovedBy(s, o) == ss[s].tx = class[o].xmax /\ Removed(o) \in pending[s]

Made(o) ==
    \/ Row(o) /\ fate[class[o].xmin] = "committed"
    \/ \E s \in Sessions : MadeBy(s, o)

Kept(o) ==
    \/ class[o].xmax = InvalidXID
    \/ fate[class[o].xmax] = "aborted"
    \/ \E s \in Sessions : RemovedBy(s, o)

LeftoverInv == crashes = 0 => \A o \in files \ stray : Made(o) /\ Kept(o)

IndInv ==
    /\ TypeInv /\ DoubtInv /\ LiveInv /\ RowInv /\ PendingInv
    /\ SnapInv /\ GapInv /\ TableInv /\ AnswerInv

AllInv == IndInv /\ LeftoverInv

\* The fields that matter of the one session an action moves.
Moves(s, tx, failed, pc, oid, snap) ==
    /\ ss'[s].tx = tx /\ ss'[s].failed = failed /\ ss'[s].pc = pc
    /\ ss'[s].oid = oid /\ ss'[s].snap = snap
    /\ ss'[s].explicit /\ tx = NoTx => ss[s].explicit /\ ss[s].tx = NoTx
    /\ \A t \in Sessions \ {s} : ss'[t] = ss[t]

\* What a session does to the log when its transaction ends.
Ends(s, verdict) ==
    /\ inDoubt' = inDoubt
    /\ \/ XactFinish(ss[s].tx, verdict) /\ stuck' = stuck
       \/ verdict = "aborted" /\ stuck' = stuck \cup {ss[s].tx} /\ status' = status

\* Nothing happens to any transaction.
Still == status' = status /\ stuck' = stuck /\ inDoubt' = inDoubt

-----------------------------------------------------------------------------
\* Fates are statuses, and an ID has one when it has the other.
LEMMA FateType ==
    ASSUME TypeInv, DoubtInv
    PROVE  /\ fate \in [Xids -> Statuses]
           /\ \A x \in Xids : /\ fate[x] = "unassigned" <=> status[x] = "unassigned"
                              /\ fate[x] = "running" => status[x] = "running"
                              /\ fate[x] = "committed" <=> status[x] = "committed"
                              /\ status[x] = "aborted" => fate[x] = "aborted"
                              /\ fate[x] = "aborted" => status[x] = "aborted" \/ x \in stuck
  BY DEF fate, TypeInv, DoubtInv, Statuses

\* Fates stay when the log does.
LEMMA StillFate == ASSUME Still PROVE fate' = fate
  BY DEF Still, fate

\* A transaction that begins runs.
LEMMA BeginFate ==
    ASSUME TypeInv, DoubtInv, NEW x \in Xids, status[x] = "unassigned", XactBegin(x),
           stuck' = stuck, inDoubt' = inDoubt
    PROVE  /\ fate' = [fate EXCEPT ![x] = "running"]
           /\ DoubtInv'
<1>1. \A y \in Xids : status'[y] = IF y = x THEN "running" ELSE status[y]
  BY DEF XactBegin, TypeInv
<1>2. x \notin stuck /\ stuck \subseteq Xids /\ inDoubt \subseteq Xids
  BY DEF DoubtInv, TypeInv
<1>3. fate' = [fate EXCEPT ![x] = "running"]
  BY <1>1, <1>2 DEF fate
<1>4. DoubtInv'
  BY <1>1, <1>2 DEF DoubtInv
<1> QED
  BY <1>3, <1>4

\* A transaction that ends has the fate it was given, recorded or not.
LEMMA EndFate ==
    ASSUME TypeInv, DoubtInv, NEW s \in Sessions, NEW verdict \in Ended,
           ss[s].tx \in Xids, fate[ss[s].tx] = "running", Ends(s, verdict)
    PROVE  /\ fate' = [fate EXCEPT ![ss[s].tx] = verdict]
           /\ DoubtInv'
<1>1. PICK x \in Xids : x = ss[s].tx
  OBVIOUS
<1>2. /\ x \notin stuck /\ status[x] = "running"
      /\ stuck \subseteq Xids /\ inDoubt \subseteq Xids /\ inDoubt' = inDoubt
  BY <1>1 DEF fate, TypeInv, Ends, Ended
<1>3. CASE XactFinish(x, verdict) /\ stuck' = stuck
  <2>1. \A y \in Xids : status'[y] = IF y = x THEN verdict ELSE status[y]
    BY <1>3 DEF XactFinish, TypeInv
  <2>2. fate' = [fate EXCEPT ![x] = verdict]
    BY <1>2, <1>3, <2>1 DEF fate
  <2>3. DoubtInv'
    BY <1>2, <1>3, <2>1 DEF DoubtInv, Ended
  <2> QED
    BY <1>1, <2>2, <2>3
<1>4. CASE verdict = "aborted" /\ stuck' = stuck \cup {x} /\ status' = status
  <2>1. fate' = [fate EXCEPT ![x] = verdict]
    BY <1>4 DEF fate
  <2>2. DoubtInv'
    BY <1>2, <1>4 DEF DoubtInv
  <2> QED
    BY <1>1, <2>1, <2>2
<1> QED
  BY <1>1, <1>3, <1>4 DEF Ends

\* Without gaps, the next ID is the one after those assigned.
LEMMA NextIsFree ==
    ASSUME GapInv
    PROVE  /\ NextXid \in FirstNormalXID .. MaxXid + 1
           /\ \A x \in Xids : status[x] # "unassigned" <=> x < NextXid
<1> USE XidAssumption DEF FirstNormalXID, Xids
<1>1. PICK n \in FirstNormalXID .. MaxXid + 1 :
         \A x \in Xids : status[x] # "unassigned" <=> x < n
  BY DEF GapInv
<1> DEFINE P(m) == (\A x \in Assigned : x < m) /\ (m = FirstNormalXID \/ m - 1 \in Assigned)
<1>2. Assigned = FirstNormalXID .. n - 1
  BY <1>1 DEF Assigned
<1>3. P(n)
  BY <1>2
<1>4. \A m \in FirstNormalXID .. MaxXid + 1 : P(m) => m = n
  BY <1>2
<1> HIDE DEF P
<1>5. NextXid = CHOOSE m \in FirstNormalXID .. MaxXid + 1 : P(m)
  BY DEF NextXid, P
<1>6. NextXid = n
  BY <1>3, <1>4, <1>5
<1> QED
  BY <1>1, <1>6

\* A snapshot of any transaction has the type of one.
LEMMA TakeType ==
    ASSUME GapInv, NEW x \in XidOrNone
    PROVE  Take(x) \in Snaps
<1>1. NextXid \in 0 .. MaxXid + 1
  BY NextIsFree, XidAssumption DEF FirstNormalXID
<1>2. Running \in SUBSET Xids
  BY DEF Running
<1> DEFINE low == CHOOSE m \in Running : \A y \in Running : m <= y
<1>3. low \in Lowest
  BY <1>2 DEF Lowest
<1> HIDE DEF low
<1>4. Take(x) = [xmin |-> IF Running = {} THEN NextXid ELSE low, xmax |-> NextXid,
                 xip |-> Running \ {x}, xid |-> x]
  BY DEF Take, low
<1> QED
  BY <1>1, <1>2, <1>3, <1>4 DEF Snaps

\* A session has an ordinary transaction or none.
LEMMA TxIsXid ==
    ASSUME TypeInv
    PROVE  /\ \A s \in Sessions : ss[s].tx # NoTx => ss[s].tx \in Xids
           /\ NoTx \notin Xids
  BY XidAssumption DEF TypeInv, SessionRecs, XidOrNone, NoTx, InvalidXID, Xids, FirstNormalXID

\* The records the actions give a session.
LEMMA NewSessionType == NewSession \in SessionRecs
<1>1. NoSnap \in Snaps
  BY XidAssumption DEF NoSnap, Snaps, XidOrNone, InvalidXID
<1> QED
  BY <1>1 DEF NewSession, SessionRecs, XidOrNone, NoTx, InvalidXID, Levels, Pcs

\* Every abort leaves the statement and records the verdict, or fails to.
LEMMA AbortRecord ==
    ASSUME TypeInv, NEW s \in Sessions, Rollback(s) \/ Fail(s) \/ Undo(s)
    PROVE  \E r \in SessionRecs :
              /\ ss' = [ss EXCEPT ![s] = r]
              /\ r.tx = ss[s].tx /\ r.snap = ss[s].snap /\ r.oid \in {ss[s].oid, NoOid}
              /\ r.explicit = ss[s].explicit
              /\ r.pc \in {"idle", "aborted"} /\ (r.failed \/ r.pc = "aborted")
              /\ Ends(s, "aborted") /\ faults' \in Nat
              /\ UNCHANGED <<class, files, nextOid, pending, crashes, answer, stray, bereft>>
<1>1. ss[s] \in SessionRecs
  BY DEF TypeInv
<1>2. \E next \in SessionRecs :
         /\ AbortTx(s, next)
         /\ next.tx = ss[s].tx /\ next.snap = ss[s].snap /\ next.oid \in {ss[s].oid, NoOid}
         /\ next.explicit = ss[s].explicit
         /\ next.pc \in {"idle", "aborted"} /\ (next.failed \/ next.pc = "aborted")
  <2> DEFINE r1 == [ss[s] EXCEPT !.pc = "aborted"]
             r2 == [ss[s] EXCEPT !.pc = "aborted", !.oid = NoOid]
             r3 == [ss[s] EXCEPT !.pc = "aborted", !.err = TRUE]
             r4(pc) == [ss[s] EXCEPT !.failed = TRUE, !.pc = pc, !.oid = NoOid]
             r5(pc) == [ss[s] EXCEPT !.failed = TRUE, !.pc = pc]
             Good(r) == /\ r \in SessionRecs
                        /\ r.tx = ss[s].tx /\ r.snap = ss[s].snap /\ r.oid \in {ss[s].oid, NoOid}
                        /\ r.explicit = ss[s].explicit
                        /\ r.pc \in {"idle", "aborted"} /\ (r.failed \/ r.pc = "aborted")
  <2>1. Good(r1)
    BY <1>1 DEF SessionRecs, Pcs
  <2>2. Good(r2)
    BY <1>1 DEF SessionRecs, Pcs
  <2>3. Good(r3)
    BY <1>1 DEF SessionRecs, Pcs
  <2>4. \A pc \in {"idle", "aborted"} : Good(r4(pc))
    BY <1>1 DEF SessionRecs, Pcs
  <2>5. \A pc \in {"idle", "aborted"} : Good(r5(pc))
    BY <1>1 DEF SessionRecs, Pcs
  <2>6. \/ AbortTx(s, r1) \/ AbortTx(s, r2) \/ AbortTx(s, r3)
        \/ \E pc \in {"idle", "aborted"} : AbortTx(s, r4(pc)) \/ AbortTx(s, r5(pc))
    BY Zenon DEF Rollback, Fail, Undo
  <2> HIDE DEF r1, r2, r3, r4, r5
  <2>7. \E r : Good(r) /\ AbortTx(s, r)
    BY <2>1, <2>2, <2>3, <2>4, <2>5, <2>6
  <2> QED
    BY <2>7
<1>3. PICK next \in SessionRecs :
         /\ AbortTx(s, next)
         /\ next.tx = ss[s].tx /\ next.snap = ss[s].snap /\ next.oid \in {ss[s].oid, NoOid}
         /\ next.explicit = ss[s].explicit
         /\ next.pc \in {"idle", "aborted"} /\ (next.failed \/ next.pc = "aborted")
  BY <1>2
<1>4. /\ inDoubt' = inDoubt
      /\ UNCHANGED <<class, files, nextOid, pending, crashes, answer, stray, bereft>>
  BY <1>3 DEF AbortTx, diskVars
<1>5. CASE /\ XactFinish(ss[s].tx, "aborted") /\ ss' = [ss EXCEPT ![s] = next]
           /\ stuck' = stuck /\ faults' = faults
  <2>1. Ends(s, "aborted") /\ faults' \in Nat
    BY <1>4, <1>5 DEF Ends, TypeInv
  <2> QED
    BY <1>3, <1>4, <1>5, <2>1
<1>6. CASE /\ Fault /\ stuck' = stuck \cup {ss[s].tx} /\ status' = status
           /\ ss' = [ss EXCEPT ![s] = [next EXCEPT !.err = TRUE]]
  <2> DEFINE r == [next EXCEPT !.err = TRUE]
  <2>1. Ends(s, "aborted") /\ faults' \in Nat
    BY <1>4, <1>6 DEF Ends, TypeInv, Fault
  <2>2. /\ r \in SessionRecs /\ r.tx = next.tx /\ r.snap = next.snap /\ r.oid = next.oid
        /\ r.explicit = next.explicit /\ r.pc = next.pc /\ r.failed = next.failed
    BY DEF SessionRecs
  <2>3. ss' = [ss EXCEPT ![s] = r]
    BY <1>6
  <2> HIDE DEF r
  <2> QED
    BY <1>3, <1>4, <2>1, <2>2, <2>3
<1>7. \/ /\ XactFinish(ss[s].tx, "aborted") /\ ss' = [ss EXCEPT ![s] = next]
         /\ stuck' = stuck /\ faults' = faults
      \/ /\ Fault /\ stuck' = stuck \cup {ss[s].tx} /\ status' = status
         /\ ss' = [ss EXCEPT ![s] = [next EXCEPT !.err = TRUE]]
  BY <1>3 DEF AbortTx
<1> QED
  BY <1>5, <1>6, <1>7

\* Every step keeps every variable in its type.
LEMMA TypeStep ==
    ASSUME IndInv, [Next]_vars
    PROVE  TypeInv'
<1> USE DEF IndInv
<1> DEFINE Logs == /\ status' \in [Xids -> Statuses] /\ inDoubt' \subseteq Xids
                   /\ stuck' \subseteq Xids
           Hists == /\ answer' \in [Xids -> {"none", "COMMIT", "ROLLBACK", "error"}]
                    /\ stray' \subseteq Oids /\ bereft' \subseteq Oids
           Counts == crashes' \in Nat /\ faults' \in Nat
           Disk == /\ class' \in [Oids -> Rows] /\ files' \subseteq Oids
                   /\ nextOid' \in 1 .. MaxTables + 1
           Pends == pending' \in [Sessions -> SUBSET PendingFiles]
<1>a. UNCHANGED xactVars /\ stuck' = stuck => Logs
  BY DEF xactVars, TypeInv
<1>b. UNCHANGED histVars => Hists /\ stuck' = stuck
  BY DEF histVars, TypeInv
<1>c. UNCHANGED cntVars => Counts
  BY DEF cntVars, TypeInv
<1>d. UNCHANGED diskVars => Disk
  BY DEF diskVars, TypeInv
<1>e. UNCHANGED pending => Pends
  BY DEF TypeInv
<1>f. Logs /\ Hists /\ Counts /\ Disk /\ Pends /\ ss' \in [Sessions -> SessionRecs] => TypeInv'
  BY DEF TypeInv
<1>g. ASSUME UNCHANGED <<xactVars, diskVars, pending, cntVars, histVars>>,
             ss' \in [Sessions -> SessionRecs]
      PROVE  TypeInv'
  BY <1>a, <1>b, <1>c, <1>d, <1>e, <1>f, <1>g, Zenon
<1>h. Fault => faults' \in Nat
  BY DEF Fault, TypeInv
<1>i. \A s \in Sessions : ss[s] \in SessionRecs
  BY DEF TypeInv
<1>j. ASSUME NEW s \in Sessions, NEW r \in SessionRecs, ss' = [ss EXCEPT ![s] = r]
      PROVE  ss' \in [Sessions -> SessionRecs]
  BY <1>j DEF TypeInv
<1>k. ASSUME NEW x \in Xids, XactBegin(x), inDoubt' = inDoubt, stuck' = stuck PROVE Logs
  BY <1>k DEF XactBegin, TypeInv, Statuses
<1> HIDE DEF Logs, Hists, Counts, Disk, Pends
<1>1. CASE \E s \in Sessions : StartStatement(s)
  <2> PICK s \in Sessions : StartStatement(s)
    BY <1>1
  <2>1. UNCHANGED <<inDoubt, diskVars, pending, cntVars, histVars>>
    BY Zenon DEF StartStatement
  <2>2. CASE ss[s].tx = NoTx
    <3>1. PICK x \in Xids : /\ ss' = [ss EXCEPT ![s] = [ss[s] EXCEPT !.tx = x, !.pc = "snapshot"]]
                            /\ XactBegin(x)
      BY <2>2, Zenon DEF StartStatement
    <3>2. [ss[s] EXCEPT !.tx = x, !.pc = "snapshot"] \in SessionRecs
      BY <1>i DEF SessionRecs, Pcs, XidOrNone
    <3>3. Logs
      BY <3>1, <2>1, <1>b, <1>k
    <3>4. ss' \in [Sessions -> SessionRecs]
      BY <3>1, <3>2, <1>j
    <3> QED
      BY <2>1, <3>3, <3>4, <1>b, <1>c, <1>d, <1>e, <1>f
  <2>3. CASE ss[s].tx # NoTx
    <3>1. [ss[s] EXCEPT !.pc = "snapshot"] \in SessionRecs
      BY <1>i DEF SessionRecs, Pcs
    <3>2. ss' = [ss EXCEPT ![s].pc = "snapshot"] /\ status' = status
      BY <2>3 DEF StartStatement
    <3>3. ss' \in [Sessions -> SessionRecs]
      BY <3>1, <3>2, <1>j
    <3> QED
      BY <2>1, <3>2, <3>3, <1>g DEF xactVars
  <2> QED
    BY <2>2, <2>3
<1>2. CASE \E s \in Sessions : TakeSnapshot(s)
  <2> PICK s \in Sessions : TakeSnapshot(s)
    BY <1>2
  <2>1. Take(ss[s].tx) \in Snaps
    BY <1>i, TakeType DEF SessionRecs
  <2>2. [ss[s] EXCEPT !.snap = IF KeepsSnap(s) THEN ss[s].snap ELSE Take(ss[s].tx),
                      !.pc = "run"] \in SessionRecs
    BY <1>i, <2>1 DEF SessionRecs, Pcs
  <2>3. ss' \in [Sessions -> SessionRecs]
    BY <2>2, <1>j DEF TakeSnapshot
  <2> QED
    BY <2>3, <1>g DEF TakeSnapshot
<1>3. CASE \E s \in Sessions, level \in Levels : Begin(s, level)
  <2> PICK s \in Sessions, level \in Levels : Begin(s, level)
    BY <1>3
  <2>1. PICK x \in Xids : /\ ss' = [ss EXCEPT ![s] = [ss[s] EXCEPT
                                       !.tx = x, !.explicit = TRUE, !.isolation = level]]
                          /\ XactBegin(x)
    BY Zenon DEF Begin
  <2>2. UNCHANGED <<inDoubt, diskVars, pending, cntVars, histVars>>
    BY Zenon DEF Begin
  <2>3. [ss[s] EXCEPT !.tx = x, !.explicit = TRUE, !.isolation = level] \in SessionRecs
    BY <1>i DEF SessionRecs, XidOrNone
  <2>4. ss' \in [Sessions -> SessionRecs]
    BY <2>1, <2>3, <1>j
  <2>5. Logs
    BY <2>1, <2>2, <1>b, <1>k
  <2> QED
    BY <2>2, <2>4, <2>5, <1>b, <1>c, <1>d, <1>e, <1>f
<1>4. CASE \E s \in Sessions : Commit(s)
  <2> PICK s \in Sessions : Commit(s)
    BY <1>4
  <2>1. [ss[s] EXCEPT !.pc = "flush"] \in SessionRecs
    BY <1>i DEF SessionRecs, Pcs
  <2> QED
    BY <2>1, <1>j, <1>g DEF Commit
<1>5. CASE \E s \in Sessions : Rollback(s) \/ Fail(s) \/ Undo(s)
  <2> PICK s \in Sessions : Rollback(s) \/ Fail(s) \/ Undo(s)
    BY <1>5
  <2>1. PICK r \in SessionRecs :
          /\ ss' = [ss EXCEPT ![s] = r] /\ r.tx = ss[s].tx
          /\ Ends(s, "aborted") /\ faults' \in Nat
          /\ UNCHANGED <<class, files, nextOid, pending, crashes, answer, stray, bereft>>
    BY AbortRecord
  <2>2. ss' \in [Sessions -> SessionRecs]
    BY <2>1, <1>j
  <2>3. CASE ss[s].tx # NoTx
    <3>1. ss[s].tx \in Xids
      BY <2>3, TxIsXid
    <3>2. Logs
      BY <2>1, <3>1 DEF Logs, Ends, XactFinish, TypeInv, Statuses
    <3> QED
      BY <2>1, <2>2, <3>2, <1>f DEF Hists, Counts, Disk, Pends, TypeInv
  <2>4. ss[s].tx # NoTx
    BY Zenon DEF LiveInv, Knows, Rollback, Fail, Undo, At
  <2> QED
    BY <2>3, <2>4
<1>6. CASE \E s \in Sessions : EndFailedBlock(s)
  <2> PICK s \in Sessions : EndFailedBlock(s)
    BY <1>6
  <2>1. [ss[s] EXCEPT !.pc = "aborted", !.failed = FALSE, !.err = FALSE] \in SessionRecs
    BY <1>i DEF SessionRecs, Pcs
  <2> QED
    BY <2>1, <1>j, <1>g DEF EndFailedBlock
<1>7. CASE \E s \in Sessions : Other(s)
  <2> PICK s \in Sessions : Other(s)
    BY <1>7
  <2>1. Succeed(ss[s]) \in SessionRecs
    BY <1>i DEF Succeed, SessionRecs, Pcs
  <2> QED
    BY <2>1, <1>j, <1>g DEF Other
<1>8. CASE \E s \in Sessions : CreateFile(s)
  <2> PICK s \in Sessions : CreateFile(s)
    BY <1>8
  <2>1. nextOid \in Oids /\ nextOid + 1 \in 1 .. MaxTables + 1
    BY SessionAssumption DEF CreateFile, Oids
  <2>2. [ss[s] EXCEPT !.pc = "row", !.oid = nextOid] \in SessionRecs
    BY <1>i, <2>1 DEF SessionRecs, Pcs
  <2>3. ss' \in [Sessions -> SessionRecs]
    BY <2>2, <1>j DEF CreateFile
  <2>4. Created(nextOid) \in PendingFiles
    BY <2>1 DEF PendingFiles, Created
  <2>5. Pends
    BY <2>4 DEF CreateFile, TypeInv, Pends
  <2>6. Disk
    BY <2>1 DEF CreateFile, TypeInv, Disk
  <2>7. UNCHANGED <<xactVars, cntVars, histVars>>
    BY DEF CreateFile
  <2> QED
    BY <2>3, <2>5, <2>6, <2>7, <1>a, <1>b, <1>c, <1>f
<1>9. CASE \E s \in Sessions : WriteRow(s)
  <2> PICK s \in Sessions : WriteRow(s)
    BY <1>9
  <2>1. Succeed(ss[s]) \in SessionRecs
    BY <1>i DEF Succeed, SessionRecs, Pcs
  <2>2. ss' \in [Sessions -> SessionRecs]
    BY <2>1, <1>j DEF WriteRow
  <2>3. [NoRow EXCEPT !.xmin = ss[s].tx] \in Rows
    BY <1>i DEF SessionRecs, NoRow, Rows, XidOrNone
  <2>4. Disk
    BY <2>3 DEF WriteRow, TypeInv, Disk
  <2>5. UNCHANGED <<xactVars, cntVars, histVars, pending>>
    BY DEF WriteRow
  <2> QED
    BY <2>2, <2>4, <2>5, <1>a, <1>b, <1>c, <1>e, <1>f
<1>10. CASE \E s \in Sessions, o \in Oids : FindTable(s, o)
  <2> PICK s \in Sessions, o \in Oids : FindTable(s, o)
    BY <1>10
  <2>1. [ss[s] EXCEPT !.pc = "drop", !.oid = o] \in SessionRecs
    BY <1>i DEF SessionRecs, Pcs
  <2> QED
    BY <2>1, <1>j, <1>g DEF FindTable
<1>11. CASE \E s \in Sessions : DropRow(s)
  <2> PICK s \in Sessions : DropRow(s)
    BY <1>11
  <2>1. Succeed(ss[s]) \in SessionRecs
    BY <1>i DEF Succeed, SessionRecs, Pcs
  <2>2. ss' \in [Sessions -> SessionRecs]
    BY <2>1, <1>j DEF DropRow
  <2>3. ss[s].oid \in Oids /\ ss[s].tx \in XidOrNone
    BY <1>i DEF DropRow, At, PendingInv, InStatement, SessionRecs
  <2>4. [class[ss[s].oid] EXCEPT !.xmax = ss[s].tx] \in Rows
    BY <2>3 DEF TypeInv, Rows
  <2>5. Removed(ss[s].oid) \in PendingFiles
    BY <2>3 DEF PendingFiles, Removed
  <2>6. Disk /\ Pends
    BY <2>4, <2>5 DEF DropRow, TypeInv, Disk, Pends
  <2>7. UNCHANGED <<xactVars, cntVars, histVars>>
    BY DEF DropRow
  <2> QED
    BY <2>2, <2>6, <2>7, <1>a, <1>b, <1>c, <1>f
<1>12. CASE \E s \in Sessions : DropWaits(s)
  <2> PICK s \in Sessions : DropWaits(s)
    BY <1>12
  <2>1. class[ss[s].oid].xmax \in XidOrNone
    BY DEF DropWaits, At, TypeInv, PendingInv, InStatement, Rows
  <2>2. [ss[s] EXCEPT !.wait = class[ss[s].oid].xmax] \in SessionRecs
    BY <1>i, <2>1 DEF SessionRecs, Pcs
  <2> QED
    BY <2>2, <1>j, <1>g DEF DropWaits
<1>13. CASE \E s \in Sessions : Wake(s)
  <2> PICK s \in Sessions : Wake(s)
    BY <1>13
  <2>1. [ss[s] EXCEPT !.wait = InvalidXID] \in SessionRecs
    BY <1>i DEF SessionRecs, XidOrNone
  <2> QED
    BY <2>1, <1>j, <1>g DEF Wake
<1>14. CASE \E s \in Sessions : Flush(s)
  <2> PICK s \in Sessions : Flush(s)
    BY <1>14
  <2>1. [ss[s] EXCEPT !.pc = "bit"] \in SessionRecs
    BY <1>i DEF SessionRecs, Pcs
  <2> QED
    BY <2>1, <1>j, <1>g DEF Flush
<1>15. CASE \E s \in Sessions : WriteBit(s)
  <2> PICK s \in Sessions : WriteBit(s)
    BY <1>15
  <2>1. Logs
    BY DEF WriteBit, CommitCut, Running, histVars, TypeInv, Logs
  <2>2. UNCHANGED <<diskVars, ss, pending, crashes, histVars>> /\ Fault
    BY DEF WriteBit
  <2>3. Counts
    BY <2>2, <1>h DEF Counts, TypeInv
  <2> QED
    BY <2>1, <2>2, <2>3, <1>b, <1>d, <1>e, <1>f DEF TypeInv
<1>16. CASE \E s \in Sessions : CommitBit(s)
  <2> PICK s \in Sessions : CommitBit(s)
    BY <1>16
  <2>1. [ss[s] EXCEPT !.pc = "committed"] \in SessionRecs
    BY <1>i DEF SessionRecs, Pcs
  <2>2. ss' \in [Sessions -> SessionRecs]
    BY <2>1, <1>j DEF CommitBit
  <2>3. Logs
    BY DEF CommitBit, XactFinish, Statuses, histVars, TypeInv, Logs
  <2>4. UNCHANGED <<diskVars, pending, cntVars, histVars>>
    BY DEF CommitBit
  <2> QED
    BY <2>2, <2>3, <2>4, <1>b, <1>c, <1>d, <1>e, <1>f
<1>17. CASE \E s \in Sessions : CommitFails(s)
  <2> PICK s \in Sessions : CommitFails(s)
    BY <1>17
  <2>1. PICK pc \in {"idle", "undo"} : ss' = [ss EXCEPT ![s].pc = pc]
    BY DEF CommitFails
  <2>2. [ss[s] EXCEPT !.pc = pc] \in SessionRecs
    BY <1>i DEF SessionRecs, Pcs
  <2>3. ss' \in [Sessions -> SessionRecs]
    BY <2>1, <2>2, <1>j
  <2>4. UNCHANGED <<xactVars, diskVars, pending, crashes, histVars>> /\ Fault
    BY DEF CommitFails
  <2>5. Counts
    BY <2>4, <1>h DEF Counts, TypeInv
  <2> QED
    BY <2>3, <2>4, <2>5, <1>a, <1>b, <1>d, <1>e, <1>f
<1>18. CASE \E s \in Sessions : RemoveFile(s) \/ RemoveFileFails(s)
  <2> PICK s \in Sessions : RemoveFile(s) \/ RemoveFileFails(s)
    BY <1>18
  <2>1. \A f \in Matching(s) : f.oid \in Oids
    BY DEF Matching, TypeInv, PendingFiles
  <2>2. PICK f \in Matching(s) : pending' = [pending EXCEPT ![s] = pending[s] \ {f}]
    BY DEF RemoveFile, RemoveFileFails
  <2>3. Pends
    BY <2>2 DEF Pends, TypeInv
  <2>4. CASE RemoveFile(s)
    <3>1. UNCHANGED <<xactVars, class, nextOid, ss, cntVars, answer, stuck, stray>>
      BY <2>4 DEF RemoveFile
    <3>2. files' \subseteq files /\ bereft' \subseteq Oids
      BY <2>4, <2>1 DEF RemoveFile, TypeInv
    <3>3. Disk /\ Hists
      BY <3>1, <3>2 DEF Disk, Hists, TypeInv
    <3>4. ss' \in [Sessions -> SessionRecs]
      BY <3>1 DEF TypeInv
    <3> QED
      BY <2>3, <3>1, <3>3, <3>4, <1>a, <1>c, <1>f
  <2>5. CASE RemoveFileFails(s)
    <3>1. UNCHANGED <<xactVars, diskVars, crashes, answer, stuck, bereft>> /\ Fault
      BY <2>5 DEF RemoveFileFails
    <3>2. stray' \subseteq Oids
      BY <2>5, <2>1 DEF RemoveFileFails, TypeInv
    <3>3. Hists /\ Counts
      BY <3>1, <3>2, <1>h DEF Hists, Counts, TypeInv
    <3>4. [ss[s] EXCEPT !.err = TRUE] \in SessionRecs
      BY <1>i DEF SessionRecs
    <3>5. ss' \in [Sessions -> SessionRecs]
      BY <2>5, <3>4, <1>j DEF RemoveFileFails
    <3> QED
      BY <2>3, <3>1, <3>3, <3>5, <1>a, <1>d, <1>f
  <2> QED
    BY <2>4, <2>5
<1>19. CASE \E s \in Sessions : EndTransaction(s)
  <2> PICK s \in Sessions : EndTransaction(s)
    BY <1>19
  <2>1. [ss[s] EXCEPT !.pc = "idle"] \in SessionRecs
    BY <1>i DEF SessionRecs, Pcs
  <2>2. ss' \in [Sessions -> SessionRecs]
    BY <2>1, NewSessionType, <1>j DEF EndTransaction
  <2>3. UNCHANGED <<xactVars, diskVars, cntVars, stuck, stray, bereft>>
    BY DEF EndTransaction
  <2>4. pending' = [pending EXCEPT ![s] = {}]
    BY DEF EndTransaction
  <2>5. answer' \in [Xids -> {"none", "COMMIT", "ROLLBACK", "error"}]
    BY DEF EndTransaction, TypeInv
  <2>6. Pends /\ Hists
    BY <2>3, <2>4, <2>5 DEF Pends, Hists, TypeInv
  <2> QED
    BY <2>2, <2>3, <2>6, <1>a, <1>c, <1>d, <1>f
<1>20. CASE Crash
  <2>1. ss' \in [Sessions -> SessionRecs]
    BY <1>20, NewSessionType DEF Crash
  <2>2. UNCHANGED <<inDoubt, diskVars, faults, answer, stray, bereft>> /\ stuck' = {}
    BY <1>20 DEF Crash
  <2>3. status' \in [Xids -> Statuses]
    BY <1>20 DEF Crash, TypeInv, Statuses
  <2>4. crashes' \in Nat /\ pending' \in [Sessions -> SUBSET PendingFiles]
    BY <1>20 DEF Crash, TypeInv
  <2> QED
    BY <2>1, <2>2, <2>3, <2>4, <1>d, <1>f DEF Logs, Hists, Counts, Pends, TypeInv
<1>21. CASE UNCHANGED vars
  <2>1. UNCHANGED <<xactVars, diskVars, ss, pending, cntVars, histVars>>
    BY <1>21 DEF vars
  <2> QED
    BY <2>1, <1>g DEF TypeInv
<1> QED
  BY <1>1, <1>2, <1>3, <1>4, <1>5, <1>6, <1>7, <1>8, <1>9, <1>10, <1>11, <1>12, <1>13,
     <1>14, <1>15, <1>16, <1>17, <1>18, <1>19, <1>20, <1>21 DEF Next

(* What each action makes of its session; every other stays.              *)

\* A statement reads with the snapshot the block keeps, or a new one.
LEMMA TakeSnapshotMoves ==
    ASSUME TypeInv, NEW s \in Sessions, TakeSnapshot(s)
    PROVE  Moves(s, ss[s].tx, ss[s].failed, "run", ss[s].oid,
                 IF KeepsSnap(s) THEN ss[s].snap ELSE Take(ss[s].tx))
  BY DEF TakeSnapshot, TypeInv, SessionRecs, Moves

\* COMMIT goes on to the flush.
LEMMA CommitMoves ==
    ASSUME TypeInv, NEW s \in Sessions, Commit(s)
    PROVE  Moves(s, ss[s].tx, ss[s].failed, "flush", ss[s].oid, ss[s].snap)
  BY DEF Commit, TypeInv, SessionRecs, Moves

\* The end of a failed block clears the mark.
LEMMA EndFailedBlockMoves ==
    ASSUME TypeInv, NEW s \in Sessions, EndFailedBlock(s)
    PROVE  Moves(s, ss[s].tx, FALSE, "aborted", ss[s].oid, ss[s].snap)
  BY DEF EndFailedBlock, TypeInv, SessionRecs, Moves

\* A statement that succeeds waits for COMMIT in a block.
LEMMA OtherMoves ==
    ASSUME TypeInv, NEW s \in Sessions, Other(s)
    PROVE  Moves(s, ss[s].tx, ss[s].failed, IF ss[s].explicit THEN "idle" ELSE "flush",
                 NoOid, ss[s].snap)
  BY DEF Other, TypeInv, SessionRecs, Moves, Succeed

\* CREATE TABLE holds the OID until the row is written.
LEMMA CreateFileMoves ==
    ASSUME TypeInv, NEW s \in Sessions, CreateFile(s)
    PROVE  Moves(s, ss[s].tx, ss[s].failed, "row", nextOid, ss[s].snap)
  BY DEF CreateFile, TypeInv, SessionRecs, Moves

\* CREATE TABLE succeeds.
LEMMA WriteRowMoves ==
    ASSUME TypeInv, NEW s \in Sessions, WriteRow(s)
    PROVE  Moves(s, ss[s].tx, ss[s].failed, IF ss[s].explicit THEN "idle" ELSE "flush",
                 NoOid, ss[s].snap)
  BY DEF WriteRow, TypeInv, SessionRecs, Moves, Succeed

\* DROP TABLE holds the table it found.
LEMMA FindTableMoves ==
    ASSUME TypeInv, NEW s \in Sessions, NEW o \in Oids, FindTable(s, o)
    PROVE  Moves(s, ss[s].tx, ss[s].failed, "drop", o, ss[s].snap)
  BY DEF FindTable, TypeInv, SessionRecs, Moves

\* DROP TABLE succeeds.
LEMMA DropRowMoves ==
    ASSUME TypeInv, NEW s \in Sessions, DropRow(s)
    PROVE  Moves(s, ss[s].tx, ss[s].failed, IF ss[s].explicit THEN "idle" ELSE "flush",
                 NoOid, ss[s].snap)
  BY DEF DropRow, TypeInv, SessionRecs, Moves, Succeed

\* Waiting changes nothing else.
LEMMA DropWaitsMoves ==
    ASSUME TypeInv, NEW s \in Sessions, DropWaits(s)
    PROVE  Moves(s, ss[s].tx, ss[s].failed, ss[s].pc, ss[s].oid, ss[s].snap)
  BY DEF DropWaits, TypeInv, SessionRecs, Moves

\* Nor does waking.
LEMMA WakeMoves ==
    ASSUME TypeInv, NEW s \in Sessions, Wake(s)
    PROVE  Moves(s, ss[s].tx, ss[s].failed, ss[s].pc, ss[s].oid, ss[s].snap)
  BY DEF Wake, TypeInv, SessionRecs, Moves

\* After the flush, the bit.
LEMMA FlushMoves ==
    ASSUME TypeInv, NEW s \in Sessions, Flush(s)
    PROVE  Moves(s, ss[s].tx, ss[s].failed, "bit", ss[s].oid, ss[s].snap)
  BY DEF Flush, TypeInv, SessionRecs, Moves

\* With the bit, the transaction is committed.
LEMMA CommitBitMoves ==
    ASSUME TypeInv, NEW s \in Sessions, CommitBit(s)
    PROVE  Moves(s, ss[s].tx, ss[s].failed, "committed", ss[s].oid, ss[s].snap)
  BY DEF CommitBit, TypeInv, SessionRecs, Moves

\* A statement joins the block's transaction or begins one of its own.
LEMMA StartMoves ==
    ASSUME TypeInv, NEW s \in Sessions, StartStatement(s)
    PROVE  \/ /\ ss[s].tx # NoTx /\ status' = status
              /\ Moves(s, ss[s].tx, ss[s].failed, "snapshot", ss[s].oid, ss[s].snap)
           \/ ss[s].tx = NoTx /\ \E x \in Xids :
              /\ x = NextXid /\ XactBegin(x)
              /\ Moves(s, x, ss[s].failed, "snapshot", ss[s].oid, ss[s].snap)
<1>1. CASE ss[s].tx = NoTx
  <2>1. PICK x \in Xids : /\ ss' = [ss EXCEPT ![s] = [ss[s] EXCEPT !.tx = x, !.pc = "snapshot"]]
                          /\ XactBegin(x) /\ x = NextXid
    BY <1>1, Zenon DEF StartStatement
  <2>2. Moves(s, x, ss[s].failed, "snapshot", ss[s].oid, ss[s].snap)
    BY <2>1, TxIsXid DEF TypeInv, SessionRecs, Moves
  <2> QED
    BY <1>1, <2>1, <2>2
<1>2. CASE ss[s].tx # NoTx
  BY <1>2 DEF StartStatement, TypeInv, SessionRecs, Moves
<1> QED
  BY <1>1, <1>2

\* BEGIN takes the next ID.
LEMMA BeginMoves ==
    ASSUME TypeInv, NEW s \in Sessions, NEW level \in Levels, Begin(s, level)
    PROVE  \E x \in Xids : /\ x = NextXid /\ XactBegin(x)
                           /\ Moves(s, x, ss[s].failed, ss[s].pc, ss[s].oid, ss[s].snap)
<1>1. PICK x \in Xids : /\ ss' = [ss EXCEPT ![s] = [ss[s] EXCEPT
                                     !.tx = x, !.explicit = TRUE, !.isolation = level]]
                        /\ XactBegin(x) /\ x = NextXid
  BY Zenon DEF Begin
<1>2. Moves(s, x, ss[s].failed, ss[s].pc, ss[s].oid, ss[s].snap)
  BY <1>1, TxIsXid DEF TypeInv, SessionRecs, Moves
<1> QED
  BY <1>1, <1>2

\* An abort marks the block or ends the transaction.
LEMMA AbortMoves ==
    ASSUME TypeInv, NEW s \in Sessions, Rollback(s) \/ Fail(s) \/ Undo(s)
    PROVE  \E pc \in {"idle", "aborted"}, failed \in BOOLEAN, oid \in Oids \cup {NoOid} :
              /\ failed \/ pc = "aborted"
              /\ Ends(s, "aborted")
              /\ Moves(s, ss[s].tx, failed, pc, oid, ss[s].snap)
              /\ UNCHANGED <<class, files, nextOid, pending, crashes, answer, stray, bereft>>
<1>1. PICK r \in SessionRecs :
              /\ ss' = [ss EXCEPT ![s] = r]
              /\ r.tx = ss[s].tx /\ r.snap = ss[s].snap /\ r.oid \in {ss[s].oid, NoOid}
              /\ r.explicit = ss[s].explicit
              /\ r.pc \in {"idle", "aborted"} /\ (r.failed \/ r.pc = "aborted")
              /\ Ends(s, "aborted")
              /\ UNCHANGED <<class, files, nextOid, pending, crashes, answer, stray, bereft>>
  BY AbortRecord
<1>2. Moves(s, ss[s].tx, r.failed, r.pc, r.oid, ss[s].snap)
  BY <1>1 DEF TypeInv, Moves
<1>3. r.failed \in BOOLEAN /\ r.oid \in Oids \cup {NoOid}
  BY DEF SessionRecs
<1> QED
  BY <1>1, <1>2, <1>3

\* A Commit that fails leaves the block open or goes on to the abort.
LEMMA CommitFailsMoves ==
    ASSUME TypeInv, NEW s \in Sessions, CommitFails(s)
    PROVE  \E pc \in {"idle", "undo"} :
              Moves(s, ss[s].tx, ss[s].failed, pc, ss[s].oid, ss[s].snap)
<1>1. PICK pc \in {"idle", "undo"} : ss' = [ss EXCEPT ![s].pc = pc]
  BY DEF CommitFails
<1>2. Moves(s, ss[s].tx, ss[s].failed, pc, ss[s].oid, ss[s].snap)
  BY <1>1 DEF TypeInv, SessionRecs, Moves
<1> QED
  BY <1>2

\* An Unlink that fails is remembered for the answer.
LEMMA RemoveFailsMoves ==
    ASSUME TypeInv, NEW s \in Sessions, RemoveFileFails(s)
    PROVE  Moves(s, ss[s].tx, ss[s].failed, ss[s].pc, ss[s].oid, ss[s].snap)
  BY DEF RemoveFileFails, TypeInv, SessionRecs, Moves

\* A block that failed stays, anything else leaves a fresh session.
LEMMA EndMoves ==
    ASSUME TypeInv, NEW s \in Sessions, EndTransaction(s)
    PROVE  IF ss[s].failed THEN Moves(s, ss[s].tx, TRUE, "idle", ss[s].oid, ss[s].snap)
                           ELSE Moves(s, NoTx, FALSE, "idle", NoOid, NoSnap)
  BY DEF EndTransaction, TypeInv, SessionRecs, Moves, NewSession

-----------------------------------------------------------------------------
(* Kinds of steps. *)

\* Nothing becomes of any transaction, and the catalog stays.
Quiet == Still /\ UNCHANGED <<class, files, nextOid, pending, crashes, answer, stray, bereft>>

\* A statement goes on: neither the log nor the catalog changes.
GoesOn(s) ==
    /\ Quiet
    /\ \E pc \in Pcs, oid \in Oids \cup {NoOid}, snap \in {ss[s].snap, Take(ss[s].tx)} :
        /\ Moves(s, ss[s].tx, ss[s].failed, pc, oid, snap)
        /\ pc # ss[s].pc => /\ ss[s].tx # NoTx /\ ~ss[s].failed
                            /\ ss[s].pc \notin Ended /\ pc \notin Ended
        /\ snap # ss[s].snap => ss[s].tx # NoTx /\ ~KeepsSnap(s)
        /\ ss[s].pc = "snapshot" /\ pc = "run" =>
              snap = IF KeepsSnap(s) THEN ss[s].snap ELSE Take(ss[s].tx)
        /\ ss[s].pc = "row" => pc = "row" /\ oid = ss[s].oid
        /\ pc = "row" => ss[s].pc = "row" /\ oid = ss[s].oid
        /\ pc = "drop" => (ss[s].pc = "drop" /\ oid = ss[s].oid) \/ (oid \in Oids /\ Row(oid))

\* A session begins a transaction, with or without a statement.
Begins(s) ==
    /\ UNCHANGED <<class, files, nextOid, pending, crashes, answer, stray, bereft>>
    /\ inDoubt' = inDoubt /\ stuck' = stuck
    /\ ss[s].tx = NoTx
    /\ \E x \in Xids, pc \in {"idle", "snapshot"} :
        /\ status[x] = "unassigned" /\ x = NextXid /\ XactBegin(x)
        /\ fate' = [fate EXCEPT ![x] = "running"]
        /\ Moves(s, x, ss[s].failed, pc, ss[s].oid, ss[s].snap)

\* The fate of a transaction is decided.
Finishes(s) ==
    /\ UNCHANGED <<class, files, nextOid, pending, crashes, answer, stray, bereft>>
    /\ inDoubt' = inDoubt
    /\ ss[s].tx # NoTx /\ fate[ss[s].tx] = "running"
    /\ \E verdict \in Ended, pc \in {"idle", "committed", "aborted"}, failed \in BOOLEAN,
          oid \in Oids \cup {NoOid} :
        /\ Ends(s, verdict) /\ fate' = [fate EXCEPT ![ss[s].tx] = verdict]
        /\ Moves(s, ss[s].tx, failed, pc, oid, ss[s].snap)
        /\ failed => pc # "committed"
        /\ ss[s].pc = "row" => verdict = "aborted"
        /\ verdict = IF failed \/ pc = "aborted" THEN "aborted"
                     ELSE IF pc = "committed" THEN "committed" ELSE "running"

\* The steps that are none of these.
Ending(s)   == EndFailedBlock(s) \/ EndTransaction(s)
OnDisk(s)   == CreateFile(s) \/ WriteRow(s) \/ DropRow(s)
Removing(s) == RemoveFile(s) \/ RemoveFileFails(s)

\* Every step is one of these or a crash.
LEMMA StepKinds ==
    ASSUME IndInv, [Next]_vars
    PROVE  \/ \E s \in Sessions : GoesOn(s) \/ Begins(s) \/ Finishes(s)
           \/ \E s \in Sessions : WriteBit(s) \/ Ending(s) \/ OnDisk(s) \/ Removing(s)
           \/ Crash \/ UNCHANGED vars
<1> USE DEF IndInv
<1>0. \A s \in Sessions : /\ ss[s].pc \in Pcs /\ ss[s].oid \in Oids \cup {NoOid}
                          /\ ss[s].tx \in XidOrNone /\ ss[s].failed \in BOOLEAN
                          /\ ss[s].explicit \in BOOLEAN /\ Knows(s)
  BY DEF TypeInv, SessionRecs, LiveInv
<1>a. ASSUME UNCHANGED <<xactVars, diskVars, pending, cntVars, histVars>> PROVE Quiet
  BY <1>a DEF Quiet, Still, xactVars, diskVars, cntVars, histVars
<1>b. ASSUME UNCHANGED <<inDoubt, diskVars, pending, cntVars, histVars>>
      PROVE  /\ UNCHANGED <<class, files, nextOid, pending, crashes, answer, stray, bereft>>
             /\ inDoubt' = inDoubt /\ stuck' = stuck
  BY <1>b DEF diskVars, cntVars, histVars
<1>c. ASSUME NEW x \in Xids, x = NextXid PROVE status[x] = "unassigned"
  BY <1>c, NextIsFree DEF Xids
<1>d. ASSUME NEW s \in Sessions, NEW pc \in Pcs, NEW oid \in Oids \cup {NoOid}, Quiet,
             Moves(s, ss[s].tx, ss[s].failed, pc, oid, ss[s].snap),
             pc # "drop" /\ pc # "row" /\ pc \notin Ended /\ pc # ss[s].pc,
             ss[s].pc \notin Ended /\ ss[s].pc # "row" /\ ss[s].pc # "snapshot",
             ss[s].pc # "idle" \/ ss[s].explicit, ~ss[s].failed
      PROVE  GoesOn(s)
  BY <1>0, <1>d DEF GoesOn, Knows
<1>1. ASSUME NEW s \in Sessions, TakeSnapshot(s) PROVE GoesOn(s)
  <2>1. PICK snap \in {ss[s].snap, Take(ss[s].tx)} :
          /\ snap = IF KeepsSnap(s) THEN ss[s].snap ELSE Take(ss[s].tx)
          /\ Moves(s, ss[s].tx, ss[s].failed, "run", ss[s].oid, snap)
    BY <1>1, TakeSnapshotMoves
  <2>2. Quiet /\ ss[s].pc = "snapshot"
    BY <1>1, <1>a DEF TakeSnapshot, At
  <2> QED
    BY <1>0, <2>1, <2>2 DEF GoesOn, Knows, Pcs, Ended
<1>2. ASSUME NEW s \in Sessions, StartStatement(s) PROVE GoesOn(s) \/ Begins(s)
  <2>1. /\ ss[s].pc = "idle" /\ ~ss[s].failed
        /\ UNCHANGED <<class, files, nextOid, pending, crashes, answer, stray, bereft>>
        /\ inDoubt' = inDoubt /\ stuck' = stuck
    BY <1>2, <1>b, Zenon DEF StartStatement, At
  <2>2. CASE ss[s].tx # NoTx
    <3>1. status' = status /\ Moves(s, ss[s].tx, ss[s].failed, "snapshot", ss[s].oid, ss[s].snap)
      BY <1>2, <2>2, StartMoves
    <3>2. Quiet
      BY <2>1, <3>1 DEF Quiet, Still
    <3> QED
      BY <1>0, <2>1, <2>2, <3>1, <3>2 DEF GoesOn, Pcs, Ended
  <2>3. CASE ss[s].tx = NoTx
    <3>1. PICK x \in Xids : /\ x = NextXid /\ XactBegin(x)
                            /\ Moves(s, x, ss[s].failed, "snapshot", ss[s].oid, ss[s].snap)
      BY <1>2, <2>3, StartMoves
    <3>2. status[x] = "unassigned" /\ fate' = [fate EXCEPT ![x] = "running"]
      BY <2>1, <3>1, <1>c, BeginFate
    <3> QED
      BY <2>1, <2>3, <3>1, <3>2 DEF Begins
  <2> QED
    BY <2>2, <2>3
<1>3. ASSUME NEW s \in Sessions, NEW level \in Levels, Begin(s, level) PROVE Begins(s)
  <2>1. /\ ss[s].pc = "idle" /\ ss[s].tx = NoTx
        /\ UNCHANGED <<class, files, nextOid, pending, crashes, answer, stray, bereft>>
        /\ inDoubt' = inDoubt /\ stuck' = stuck
    BY <1>3, <1>b, Zenon DEF Begin, At
  <2>2. PICK x \in Xids : /\ x = NextXid /\ XactBegin(x)
                          /\ Moves(s, x, ss[s].failed, "idle", ss[s].oid, ss[s].snap)
    BY <1>3, <2>1, BeginMoves
  <2>3. status[x] = "unassigned" /\ fate' = [fate EXCEPT ![x] = "running"]
    BY <2>1, <2>2, <1>c, BeginFate
  <2> QED
    BY <2>1, <2>2, <2>3, Zenon DEF Begins
<1>4. ASSUME NEW s \in Sessions, Commit(s) PROVE GoesOn(s)
  <2>1. Quiet /\ ss[s].pc = "idle" /\ ss[s].explicit /\ ~ss[s].failed
    BY <1>4, <1>a DEF Commit, At
  <2> QED
    BY <1>0, <1>4, <1>d, <2>1, CommitMoves DEF Pcs, Ended
<1>5. ASSUME NEW s \in Sessions, Rollback(s) \/ Fail(s) \/ Undo(s) PROVE Finishes(s)
  <2>1. /\ ss[s].tx # NoTx /\ ~ss[s].failed
        /\ ss[s].pc \in {"idle", "run", "row", "drop", "undo"}
    BY <1>0, <1>5, Zenon DEF Rollback, Fail, Undo, At, Knows
  <2>2. fate[ss[s].tx] = "running" /\ ss[s].tx \in Xids
    BY <1>0, <2>1, TxIsXid DEF Knows, Verdict
  <2>3. PICK pc \in {"idle", "aborted"}, failed \in BOOLEAN, oid \in Oids \cup {NoOid} :
              /\ failed \/ pc = "aborted"
              /\ Ends(s, "aborted")
              /\ Moves(s, ss[s].tx, failed, pc, oid, ss[s].snap)
              /\ UNCHANGED <<class, files, nextOid, pending, crashes, answer, stray, bereft>>
    BY <1>5, AbortMoves
  <2>4. fate' = [fate EXCEPT ![ss[s].tx] = "aborted"] /\ inDoubt' = inDoubt
    BY <2>2, <2>3, EndFate DEF Ended, Ends
  <2> QED
    BY <2>1, <2>2, <2>3, <2>4 DEF Finishes, Ended
<1>6. ASSUME NEW s \in Sessions, Other(s) PROVE GoesOn(s)
  <2>1. Quiet /\ ss[s].pc = "run"
    BY <1>6, <1>a DEF Other, At
  <2>2. ~ss[s].failed
    BY <1>0, <2>1 DEF Knows
  <2> QED
    BY <1>0, <1>6, <1>d, <2>1, <2>2, OtherMoves DEF Pcs, Ended
<1>7. ASSUME NEW s \in Sessions, NEW o \in Oids, FindTable(s, o) PROVE GoesOn(s)
  <2>1. Moves(s, ss[s].tx, ss[s].failed, "drop", o, ss[s].snap)
    BY <1>7, FindTableMoves
  <2>2. ss[s].pc = "run" /\ Row(o) /\ Quiet
    BY <1>7, <1>a, Zenon DEF FindTable, At
  <2> QED
    BY <1>0, <2>1, <2>2 DEF GoesOn, Knows, Pcs, Ended
<1>8. ASSUME NEW s \in Sessions, DropWaits(s) PROVE GoesOn(s)
  <2>1. Quiet /\ ss[s].pc = "drop"
    BY <1>8, <1>a DEF DropWaits, At
  <2> QED
    BY <1>0, <1>8, <2>1, DropWaitsMoves DEF GoesOn, PendingInv, InStatement
<1>9. ASSUME NEW s \in Sessions, Wake(s) PROVE GoesOn(s)
  <2>1. Quiet
    BY <1>9, <1>a DEF Wake
  <2> QED
    BY <1>0, <1>9, <2>1, WakeMoves DEF GoesOn
<1>10. ASSUME NEW s \in Sessions, CommitFails(s) PROVE GoesOn(s)
  <2>1. ss[s].pc \in {"flush", "bit"}
    BY <1>10, Zenon DEF CommitFails, At
  <2>2. Quiet
    BY <1>10 DEF CommitFails, Quiet, Still, xactVars, diskVars, histVars
  <2>3. ~ss[s].failed
    BY <1>0, <2>1 DEF Knows
  <2>4. PICK pc \in {"idle", "undo"} :
          Moves(s, ss[s].tx, ss[s].failed, pc, ss[s].oid, ss[s].snap)
    BY <1>10, CommitFailsMoves
  <2> QED
    BY <1>0, <1>d, <2>1, <2>2, <2>3, <2>4 DEF Pcs, Ended
<1>11. ASSUME NEW s \in Sessions, Flush(s) PROVE GoesOn(s)
  <2>1. Quiet /\ ss[s].pc = "flush"
    BY <1>11, <1>a DEF Flush, At
  <2>2. ~ss[s].failed
    BY <1>0, <2>1 DEF Knows
  <2> QED
    BY <1>0, <1>11, <1>d, <2>1, <2>2, FlushMoves DEF Pcs, Ended
<1>12. ASSUME NEW s \in Sessions, CommitBit(s) PROVE Finishes(s)
  <2>1. /\ ss[s].pc = "bit" /\ XactFinish(ss[s].tx, "committed")
        /\ UNCHANGED <<inDoubt, diskVars, pending, cntVars, histVars>>
    BY <1>12 DEF CommitBit, At
  <2>2. ss[s].tx \in Xids /\ ss[s].tx # NoTx /\ ~ss[s].failed
    BY <1>0, <2>1, TxIsXid DEF Knows
  <2>3. fate[ss[s].tx] = "running"
    BY <1>0, <2>1, <2>2 DEF Knows, Verdict
  <2>4. /\ UNCHANGED <<class, files, nextOid, pending, crashes, answer, stray, bereft>>
        /\ Ends(s, "committed") /\ inDoubt' = inDoubt
    BY <2>1, <1>b DEF Ends
  <2>5. fate' = [fate EXCEPT ![ss[s].tx] = "committed"]
    BY <2>2, <2>3, <2>4, EndFate DEF Ended
  <2>6. Moves(s, ss[s].tx, ss[s].failed, "committed", ss[s].oid, ss[s].snap)
    BY <1>12, CommitBitMoves
  <2> QED
    BY <1>0, <2>1, <2>2, <2>3, <2>4, <2>5, <2>6 DEF Finishes, Ended
<1> QED
  BY <1>1, <1>2, <1>3, <1>4, <1>5, <1>6, <1>7, <1>8, <1>9, <1>10, <1>11, <1>12
     DEF Next, Ending, OnDisk, Removing

\* No fate changes but by a crash, and an ID once assigned stays assigned.
Monotone ==
    \A x \in Xids : /\ fate[x] \in Ended => fate'[x] = fate[x]
                    /\ status[x] # "unassigned" => status'[x] # "unassigned"

\* What a crash leaves of that: fates not in doubt.
Certain ==
    /\ inDoubt \subseteq inDoubt'
    /\ \A x \in Xids : /\ fate[x] \in Ended /\ x \notin inDoubt =>
                             x \notin inDoubt' /\ fate'[x] = fate[x]
                       /\ status[x] # "unassigned" => status'[x] # "unassigned"

\* Outside these steps nothing happens to any transaction.
LEMMA OthersStill ==
    ASSUME NEW s \in Sessions, GoesOn(s) \/ Ending(s) \/ OnDisk(s) \/ Removing(s)
    PROVE  Still
<1>1. UNCHANGED xactVars /\ stuck' = stuck => Still
  BY DEF xactVars, Still
<1>2. GoesOn(s) => Still
  BY DEF GoesOn, Quiet
<1>3. Ending(s) => UNCHANGED xactVars /\ stuck' = stuck
  BY DEF Ending, EndFailedBlock, EndTransaction, histVars
<1>4. OnDisk(s) => UNCHANGED xactVars /\ stuck' = stuck
  BY DEF OnDisk, CreateFile, WriteRow, DropRow, histVars
<1>5. Removing(s) => UNCHANGED xactVars /\ stuck' = stuck
  BY DEF Removing, RemoveFile, RemoveFileFails
<1> QED
  BY <1>1, <1>2, <1>3, <1>4, <1>5

\* A Commit is cut short while its transaction runs, and changes no fate.
LEMMA CutFate ==
    ASSUME IndInv, NEW s \in Sessions, WriteBit(s)
    PROVE  /\ ss[s].tx \in Xids /\ fate[ss[s].tx] = "running" /\ status[ss[s].tx] = "running"
           /\ inDoubt' = inDoubt \cup {ss[s].tx} /\ fate' = fate /\ status' = status
           /\ UNCHANGED <<stuck, class, files, nextOid, ss, pending, crashes, answer, stray, bereft>>
<1>1. /\ ss[s].pc = "bit" /\ status[ss[s].tx] = "running"
      /\ inDoubt' = inDoubt \cup {ss[s].tx} /\ status' = status
      /\ UNCHANGED <<stuck, class, files, nextOid, ss, pending, crashes, answer, stray, bereft>>
  BY DEF WriteBit, At, CommitCut, Running, diskVars, histVars
<1>2. Knows(s) /\ TypeInv
  BY DEF IndInv, LiveInv
<1>3. ss[s].tx # NoTx /\ ~ss[s].failed /\ fate[ss[s].tx] = "running"
  BY <1>1, <1>2 DEF Knows, Verdict
<1> QED
  BY <1>1, <1>2, <1>3, TxIsXid DEF fate

\* What a crash does to the fates.
LEMMA CrashFate ==
    ASSUME IndInv, Crash
    PROVE  \A x \in Xids :
              /\ fate'[x] = status'[x]
              /\ x \in inDoubt => status'[x] \in Ended
              /\ x \notin inDoubt /\ fate[x] \in Ended => status'[x] = fate[x]
              /\ fate[x] = "running" => status'[x] \in Ended
              /\ fate[x] = "unassigned" => status'[x] = "unassigned"
<1>0. TypeInv /\ DoubtInv /\ LiveInv
  BY DEF IndInv
<1>1. PICK C \in SUBSET (inDoubt \cup {ss[s].tx : s \in {s \in Sessions : ss[s].pc = "bit"}}) :
         status' = [x \in Xids |-> IF status[x] # "running" /\ x \notin inDoubt THEN status[x]
                                   ELSE IF x \in C THEN "committed" ELSE "aborted"]
  BY Zenon DEF Crash
<1>2. stuck' = {}
  BY DEF Crash
<1>3. \A s \in Sessions : ss[s].pc = "bit" => ss[s].tx # NoTx /\ fate[ss[s].tx] = "running"
  BY <1>0 DEF LiveInv, Knows, Verdict
<1>4. \A x \in stuck : x \in Xids /\ fate[x] = "aborted" /\ status[x] = "running"
  BY <1>0 DEF fate, TypeInv, DoubtInv
<1>5. \A x \in stuck : x \notin inDoubt => x \notin C
  BY <1>3, <1>4
<1>6. \A x \in Xids : fate'[x] = status'[x]
  BY <1>2 DEF fate
<1>7. \A x \in Xids : /\ x \notin stuck => fate[x] = status[x]
                      /\ status'[x] = IF status[x] # "running" /\ x \notin inDoubt THEN status[x]
                                      ELSE IF x \in C THEN "committed" ELSE "aborted"
  BY <1>1 DEF fate
<1>8. \A x \in inDoubt : status[x] # "unassigned" /\ fate[x] # "unassigned"
  BY <1>0, FateType DEF TypeInv, DoubtInv
<1> QED
  BY <1>4, <1>5, <1>6, <1>7, <1>8 DEF Ended

\* No step takes an ID back, or a fate that is not in doubt.
LEMMA CertainStep ==
    ASSUME IndInv, [Next]_vars
    PROVE  Certain /\ (Monotone \/ Crash)
<1>0. TypeInv /\ DoubtInv
  BY DEF IndInv
<1>a. fate \in [Xids -> Statuses]
  BY <1>0, FateType
<1>1. ASSUME Monotone, inDoubt' = inDoubt PROVE Certain
  BY <1>1 DEF Monotone, Certain
<1>2. ASSUME NEW s \in Sessions, Begins(s) PROVE Monotone /\ inDoubt' = inDoubt
  <2>1. PICK x \in Xids : /\ status[x] = "unassigned" /\ XactBegin(x)
                          /\ fate' = [fate EXCEPT ![x] = "running"]
    BY <1>2 DEF Begins
  <2>2. fate[x] = "unassigned"
    BY <1>0, <2>1, FateType
  <2>3. \A y \in Xids : fate[y] \in Ended => fate'[y] = fate[y]
    BY <1>a, <2>1, <2>2 DEF Ended
  <2>4. \A y \in Xids : status[y] # "unassigned" => status'[y] # "unassigned"
    BY <1>0, <2>1 DEF XactBegin, TypeInv
  <2> QED
    BY <1>2, <2>3, <2>4 DEF Begins, Monotone
<1>3. ASSUME NEW s \in Sessions, Finishes(s) PROVE Monotone /\ inDoubt' = inDoubt
  <2>1. PICK verdict \in Ended : /\ Ends(s, verdict)
                                 /\ fate' = [fate EXCEPT ![ss[s].tx] = verdict]
    BY <1>3 DEF Finishes
  <2>2. fate[ss[s].tx] = "running"
    BY <1>3 DEF Finishes
  <2>3. \A y \in Xids : fate[y] \in Ended => fate'[y] = fate[y]
    BY <1>a, <2>1, <2>2 DEF Ended
  <2>4. \A y \in Xids : status[y] # "unassigned" => status'[y] # "unassigned"
    BY <1>0, <2>1 DEF Ends, Ended, XactFinish, TypeInv
  <2> QED
    BY <1>3, <2>3, <2>4 DEF Finishes, Monotone
<1>4. ASSUME Still PROVE Monotone /\ inDoubt' = inDoubt
  BY <1>4, StillFate DEF Still, Monotone
<1>5. ASSUME NEW s \in Sessions, WriteBit(s) PROVE Monotone /\ Certain
  BY <1>5, CutFate DEF Monotone, Certain, Ended
<1>6. CASE Crash
  <2>1. inDoubt' = inDoubt
    BY <1>6 DEF Crash
  <2>2. \A x \in Xids : fate[x] \in Ended /\ x \notin inDoubt => fate'[x] = fate[x]
    BY <1>6, CrashFate
  <2>3. \A x \in Xids : status[x] # "unassigned" => status'[x] # "unassigned"
    <3> SUFFICES ASSUME NEW x \in Xids, status[x] # "unassigned"
                 PROVE  status'[x] # "unassigned"
      OBVIOUS
    <3>1. fate[x] \in Ended \cup {"running"}
      BY <1>0, <1>a, FateType DEF Statuses, Ended
    <3> QED
      BY <1>6, <3>1, CrashFate DEF Ended
  <2> QED
    BY <1>6, <2>1, <2>2, <2>3 DEF Certain
<1>7. CASE UNCHANGED vars
  BY <1>1, <1>4, <1>7 DEF vars, xactVars, histVars, Still
<1> QED
  BY <1>1, <1>2, <1>3, <1>4, <1>5, <1>6, <1>7, StepKinds, OthersStill

\* Only a running transaction gets stuck, only one that began is in doubt.
LEMMA DoubtStep ==
    ASSUME IndInv, [Next]_vars
    PROVE  DoubtInv'
<1>0. TypeInv /\ DoubtInv
  BY DEF IndInv
<1>1. ASSUME NEW s \in Sessions, Begins(s) PROVE DoubtInv'
  BY <1>0, <1>1, BeginFate DEF Begins
<1>2. ASSUME NEW s \in Sessions, Finishes(s) PROVE DoubtInv'
  <2>1. PICK verdict \in Ended : Ends(s, verdict)
    BY <1>2 DEF Finishes
  <2>2. ss[s].tx \in Xids /\ fate[ss[s].tx] = "running"
    BY <1>0, <1>2, TxIsXid DEF Finishes
  <2> QED
    BY <1>0, <2>1, <2>2, EndFate
<1>3. ASSUME Still PROVE DoubtInv'
  BY <1>0, <1>3 DEF Still, DoubtInv
<1>4. ASSUME NEW s \in Sessions, WriteBit(s) PROVE DoubtInv'
  BY <1>0, <1>4, CutFate DEF DoubtInv
<1>5. CASE Crash
  <2>1. inDoubt' = inDoubt /\ stuck' = {}
    BY <1>5 DEF Crash
  <2>2. \A x \in inDoubt : x \in Xids /\ status'[x] \in Ended
    BY <1>0, <1>5, CrashFate DEF TypeInv
  <2> QED
    BY <2>1, <2>2 DEF DoubtInv, Ended
<1>6. CASE UNCHANGED vars
  BY <1>3, <1>6 DEF vars, xactVars, histVars, Still
<1> QED
  BY <1>1, <1>2, <1>3, <1>4, <1>5, <1>6, StepKinds, OthersStill

\* Rows nobody touches.
LEMMA RowKeeps ==
    ASSUME TypeInv, RowInv, Certain, class' = class, nextOid' \in {nextOid, nextOid + 1}
    PROVE  RowInv'
<1>1. \A o \in Oids : class[o].xmin \in XidOrNone /\ class[o].xmax \in XidOrNone
  BY DEF TypeInv, Rows
<1>2. \A o \in Oids : o \in Int /\ nextOid \in Int
  BY DEF TypeInv, Oids
<1> QED
  BY <1>1, <1>2 DEF RowInv, Row, Certain, XidOrNone

\* StatusOf is the log, except for no transaction at all.
LEMMA StatusOfXid ==
    ASSUME NEW x \in XidOrNone
    PROVE  StatusOf(x) = IF x = InvalidXID THEN "aborted" ELSE status[x]
  BY XidAssumption DEF StatusOf, XidOrNone, Xids, FirstNormalXID, InvalidXID

\* With the rows as they were and no file lost, tables keep their files.
LEMMA TablesKeep ==
    ASSUME TypeInv, TableInv, RowInv, Certain, class' = class, files \subseteq files',
           bereft \subseteq bereft'
    PROVE  TableInv'
<1>1. \A o \in Oids : class[o].xmin \in XidOrNone /\ class[o].xmax \in XidOrNone
  BY DEF TypeInv, Rows
<1>2. ASSUME NEW o \in Oids, Row(o), Doomed(o) PROVE Doomed(o)'
  BY <1>1, <1>2 DEF Doomed, Row, Certain, Ended, XidOrNone
<1> QED
  BY <1>2 DEF TableInv, Row

\* An answer given stays right.
LEMMA AnswersKeep ==
    ASSUME AnswerInv, Certain, answer' = answer
    PROVE  AnswerInv'
  BY DEF AnswerInv, Certain, Ended

\* The row a DROP marks is not another live transaction's deletion.
LEMMA DropAllowed ==
    ASSUME TypeInv, DoubtInv, PendingInv, NEW s \in Sessions, DropRow(s)
    PROVE  LET o == ss[s].oid IN
           /\ o \in Oids /\ Row(o)
           /\ class[o].xmax = InvalidXID \/ fate[class[o].xmax] = "aborted"
<1>1. ss[s].oid \in Oids /\ Row(ss[s].oid)
  BY DEF DropRow, At, PendingInv, InStatement
<1>2. class[ss[s].oid] \in Rows
  BY <1>1 DEF TypeInv
<1>3. class[ss[s].oid].hints = {} /\ class[ss[s].oid].xmax \in XidOrNone
  BY <1>2 DEF Rows
<1>4. class[ss[s].oid].xmax = InvalidXID \/ XmaxStatus(class[ss[s].oid]) = "aborted"
  BY DEF DropRow, TM, Modify
<1>5. class[ss[s].oid].xmax = InvalidXID \/ status[class[ss[s].oid].xmax] = "aborted"
  BY <1>3, <1>4, StatusOfXid DEF XmaxStatus
<1>6. class[ss[s].oid].xmax = InvalidXID \/ class[ss[s].oid].xmax \in Xids
  BY <1>3 DEF XidOrNone
<1> QED
  BY <1>1, <1>5, <1>6, FateType

\* What is noted for removal stays right while rows and files stay.
LEMMA PendingKeeps ==
    ASSUME TypeInv, PendingInv, Monotone, NEW s \in Sessions,
           UNCHANGED <<class, files, nextOid, pending>>,
           NEW tx, NEW failed, NEW pc, NEW oid, NEW snap, Moves(s, tx, failed, pc, oid, snap),
           tx = ss[s].tx \/ ss[s].tx = NoTx,
           pc = "row" => ss[s].pc = "row" /\ oid = ss[s].oid,
           pc = "drop" => \/ ss[s].pc = "drop" /\ oid = ss[s].oid
                          \/ oid \in Oids /\ Row(oid)
    PROVE  PendingInv'
<1>1. \A o : Row(o)' = Row(o)
  BY DEF Row
<1>2. ASSUME NEW t \in Sessions, NEW f \in pending'[t] PROVE Noted(t, f)'
  <2>1. Noted(t, f) /\ ss'[t].tx = ss[t].tx /\ ss[t].tx \in Xids
    BY <1>2, TxIsXid DEF PendingInv, Noted, Moves
  <2>2. fate[ss[t].tx] = "aborted" => fate'[ss[t].tx] = "aborted"
    BY <2>1 DEF Monotone, Ended
  <2> QED
    BY <2>1, <2>2, <1>1 DEF Noted
<1>3. ASSUME NEW t \in Sessions PROVE InStatement(t)'
  BY <1>1 DEF PendingInv, InStatement, Moves
<1> QED
  BY <1>2, <1>3 DEF PendingInv

\* A created file is noted for an abort before its row is there.
LEMMA PendingCreates ==
    ASSUME TypeInv, PendingInv, RowInv, NEW s \in Sessions, ss[s].tx # NoTx, CreateFile(s)
    PROVE  PendingInv'
<1>1. UNCHANGED <<class, fate>> /\ nextOid \in Oids /\ nextOid' = nextOid + 1
  BY OthersStill, StillFate DEF CreateFile, OnDisk
<1>2. Moves(s, ss[s].tx, ss[s].failed, "row", nextOid, ss[s].snap)
  BY CreateFileMoves
<1>3. \A o : Row(o)' = Row(o)
  BY <1>1 DEF Row
<1>4. ~Row(nextOid)
  BY <1>1 DEF RowInv, Oids
<1>5. \A t \in Sessions : pending'[t] = IF t = s THEN pending[t] \cup {Created(nextOid)}
                                                 ELSE pending[t]
  BY DEF CreateFile, TypeInv
<1>6. \A t \in Sessions : \A f \in pending[t] : f \in PendingFiles /\ f.oid \in Int /\ f.oid < nextOid
  BY DEF TypeInv, PendingInv, Noted, PendingFiles, Oids
<1>7. Created(nextOid).oid = nextOid /\ Created(nextOid).atCommit = FALSE
  BY DEF Created
<1>8. \A t \in Sessions : ss'[t].tx = ss[t].tx
  BY <1>2 DEF Moves
<1>9. ASSUME NEW t \in Sessions, NEW f \in pending'[t] PROVE Noted(t, f)'
  <2>1. CASE f \in pending[t]
    BY <2>1, <1>1, <1>3, <1>6, <1>8 DEF PendingInv, Noted, Oids
  <2>2. CASE f = Created(nextOid) /\ t = s
    BY <2>2, <1>1, <1>3, <1>4, <1>7, <1>8 DEF Noted, Oids
  <2> QED
    BY <2>1, <2>2, <1>5, <1>9
<1>10. ASSUME NEW t \in Sessions PROVE InStatement(t)'
  <2>1. CASE t = s
    BY <2>1, <1>1, <1>2, <1>3, <1>4, <1>5 DEF CreateFile, InStatement, Moves
  <2>2. CASE t # s
    <3>1. ss'[t] = ss[t] /\ pending'[t] = pending[t] /\ files \subseteq files' /\ InStatement(t)
      BY <2>2, <1>2, <1>5 DEF CreateFile, Moves, PendingInv
    <3> QED
      BY <3>1, <1>3 DEF InStatement
  <2> QED
    BY <2>1, <2>2
<1>11. \A o \in Oids : Created(o).oid = o
  BY DEF Created
<1>12. \A t \in Sessions : Created(nextOid) \notin pending[t]
  BY <1>1, <1>6, <1>7
<1>13. \A t, u \in Sessions : \A o \in Oids :
          Created(o) \in pending'[t] /\ Created(o) \in pending'[u] => t = u
  <2> SUFFICES ASSUME NEW t \in Sessions, NEW u \in Sessions, NEW o \in Oids,
                      Created(o) \in pending'[t], Created(o) \in pending'[u]
               PROVE  t = u
    OBVIOUS
  <2>1. CASE o = nextOid
    BY <2>1, <1>5, <1>12
  <2>2. CASE o # nextOid
    <3>1. Created(o) # Created(nextOid)
      BY <2>2, <1>7, <1>11
    <3> QED
      BY <3>1, <1>5 DEF PendingInv
  <2> QED
    BY <2>1, <2>2
<1> QED
  BY <1>9, <1>10, <1>13 DEF PendingInv

\* The row written is the one the pending removal is about.
LEMMA PendingWrites ==
    ASSUME TypeInv, PendingInv, NEW s \in Sessions, ss[s].tx # NoTx, WriteRow(s)
    PROVE  PendingInv'
<1> DEFINE o == ss[s].oid
<1>1. o \in Oids /\ ~Row(o) /\ Created(o) \in pending[s]
  BY DEF WriteRow, At, PendingInv, InStatement, TypeInv
<1>2. PICK pc \in {"idle", "flush"} : Moves(s, ss[s].tx, ss[s].failed, pc, NoOid, ss[s].snap)
  BY WriteRowMoves
<1>3. /\ UNCHANGED <<files, nextOid, pending, fate>>
      /\ class' = [class EXCEPT ![o] = [NoRow EXCEPT !.xmin = ss[s].tx]]
  BY OthersStill, StillFate DEF WriteRow, OnDisk
<1>4. \A p \in Oids \ {o} : class'[p] = class[p] /\ Row(p)' = Row(p)
  BY <1>3 DEF TypeInv, Row
<1>5. class'[o].xmin = ss[s].tx
  BY <1>1, <1>3 DEF TypeInv, NoRow
<1>6. \A t \in Sessions : ss'[t].tx = ss[t].tx
  BY <1>2 DEF Moves
<1> HIDE DEF o
<1>7. ASSUME NEW t \in Sessions, NEW f \in pending'[t] PROVE Noted(t, f)'
  <2>1. f \in pending[t] /\ Noted(t, f) /\ f \in PendingFiles
    BY <1>3, <1>7 DEF PendingInv, TypeInv
  <2>2. CASE f.oid # o
    BY <2>1, <2>2, <1>3, <1>4, <1>6 DEF Noted, PendingFiles
  <2>3. CASE f.oid = o
    <3>1. f = Created(o)
      BY <2>1, <2>3, <1>1 DEF Noted, PendingFiles, Created
    <3>2. t = s
      BY <2>1, <3>1, <1>1 DEF PendingInv
    <3> QED
      BY <2>1, <2>3, <3>1, <3>2, <1>3, <1>5, <1>6 DEF Noted, Created
  <2> QED
    BY <2>2, <2>3
<1>8. ASSUME NEW t \in Sessions PROVE InStatement(t)'
  <2>1. CASE t = s
    BY <2>1, <1>2 DEF InStatement, Moves
  <2>2. CASE t # s
    <3>1. ss'[t] = ss[t] /\ InStatement(t) /\ ss[t].oid \in Oids \cup {NoOid}
      BY <2>2, <1>2 DEF Moves, PendingInv, TypeInv, SessionRecs
    <3>2. ss[t].pc = "row" => ss[t].oid # o /\ ss[t].oid \in Oids
      BY <3>1, <2>2, <1>1 DEF InStatement, PendingInv, TypeInv
    <3>3. ss[t].pc = "drop" => ss[t].oid # o /\ ss[t].oid \in Oids
      BY <3>1, <1>1 DEF InStatement
    <3> QED
      BY <3>1, <3>2, <3>3, <1>3, <1>4 DEF InStatement
  <2> QED
    BY <2>1, <2>2
<1> QED
  BY <1>3, <1>7, <1>8 DEF PendingInv

\* A DROP notes the file of the row it marks, and takes no other's mark.
LEMMA PendingDrops ==
    ASSUME TypeInv, DoubtInv, PendingInv, RowInv, NEW s \in Sessions, ss[s].tx # NoTx,
           DropRow(s)
    PROVE  PendingInv'
<1> DEFINE o == ss[s].oid
<1>1. o \in Oids /\ Row(o) /\ (class[o].xmax = InvalidXID \/ fate[class[o].xmax] = "aborted")
  BY DropAllowed
<1>2. PICK pc \in {"idle", "flush"} : Moves(s, ss[s].tx, ss[s].failed, pc, NoOid, ss[s].snap)
  BY DropRowMoves
<1>3. /\ UNCHANGED <<files, nextOid, fate>>
      /\ class' = [class EXCEPT ![o].xmax = ss[s].tx]
      /\ pending' = [pending EXCEPT ![s] = pending[s] \cup {Removed(o)}]
  BY OthersStill, StillFate DEF DropRow, OnDisk
<1>4. /\ \A p \in Oids \ {o} : class'[p] = class[p]
      /\ \A p \in Oids : class'[p].xmin = class[p].xmin
      /\ class'[o].xmax = ss[s].tx
  BY <1>1, <1>3 DEF TypeInv, Rows
<1>5. \A p \in Oids : Row(p)' = Row(p)
  BY <1>4 DEF Row
<1>6. \A t \in Sessions : ss'[t].tx = ss[t].tx
  BY <1>2 DEF Moves
<1>7. \A t \in Sessions : pending'[t] = IF t = s THEN pending[t] \cup {Removed(o)} ELSE pending[t]
  BY <1>3 DEF TypeInv
<1>8. Removed(o).oid = o /\ Removed(o).atCommit = TRUE /\ \A p : Created(p).atCommit = FALSE
  BY DEF Removed, Created
<1> HIDE DEF o
<1>9. ASSUME NEW t \in Sessions, NEW f \in pending'[t] PROVE Noted(t, f)'
  <2>1. CASE f \in pending[t]
    <3>1. Noted(t, f) /\ f.oid \in Oids /\ ss[t].tx \in Xids
      BY <2>1, TxIsXid DEF PendingInv, Noted, TypeInv, PendingFiles
    <3>2. f.oid = o /\ f.atCommit /\ fate[ss[t].tx] # "aborted" => FALSE
      BY <3>1, <1>1, TxIsXid DEF Noted, NoTx, InvalidXID
    <3> QED
      BY <3>1, <3>2, <1>3, <1>4, <1>5, <1>6 DEF Noted
  <2>2. CASE f = Removed(o) /\ t = s
    <3>1. o < nextOid
      BY <1>1 DEF RowInv
    <3> QED
      BY <2>2, <3>1, <1>1, <1>3, <1>4, <1>5, <1>6, <1>8 DEF Noted
  <2> QED
    BY <2>1, <2>2, <1>7, <1>9
<1>10. ASSUME NEW t \in Sessions PROVE InStatement(t)'
  <2>1. CASE t = s
    BY <2>1, <1>2 DEF InStatement, Moves
  <2>2. CASE t # s
    <3>1. ss'[t] = ss[t] /\ pending'[t] = pending[t] /\ InStatement(t)
      BY <2>2, <1>2, <1>7 DEF Moves, PendingInv
    <3>2. ss[t].pc \in {"row", "drop"} => ss[t].oid \in Oids
      BY <3>1 DEF InStatement, TypeInv
    <3> QED
      BY <3>1, <3>2, <1>3, <1>5 DEF InStatement
  <2> QED
    BY <2>1, <2>2
<1>11. \A t, u \in Sessions : \A p \in Oids :
          Created(p) \in pending'[t] /\ Created(p) \in pending'[u] => t = u
  <2>1. \A t \in Sessions : \A p \in Oids : Created(p) \in pending'[t] => Created(p) \in pending[t]
    <3> SUFFICES ASSUME NEW p \in Oids PROVE Created(p) # Removed(o)
      BY <1>7
    <3> QED
      BY <1>8
  <2> QED
    BY <2>1 DEF PendingInv
<1> QED
  BY <1>9, <1>10, <1>11 DEF PendingInv

\* Removing one file, or failing to, leaves every other session's statement
\* its own.
LEMMA PendingRemoves ==
    ASSUME TypeInv, PendingInv, NEW s \in Sessions, Removing(s)
    PROVE  PendingInv'
<1>1. PICK f \in Matching(s) : /\ files \ {f.oid} \subseteq files'
                               /\ pending' = [pending EXCEPT ![s] = pending[s] \ {f}]
  BY DEF Removing, RemoveFile, RemoveFileFails, diskVars
<1>2. UNCHANGED <<fate, class, nextOid>> /\ ss[s].pc \in Ended
  BY OthersStill, StillFate DEF Removing, RemoveFile, RemoveFileFails, At, Ended, diskVars
<1>a. \A t \in Sessions : ss'[t].tx = ss[t].tx /\ ss'[t].pc = ss[t].pc /\ ss'[t].oid = ss[t].oid
  BY RemoveFailsMoves DEF Removing, RemoveFile, Moves
<1>3. f \in pending[s] /\ f \in PendingFiles /\ Noted(s, f)
  BY <1>1 DEF Matching, TypeInv, PendingInv
<1>4. \A t \in Sessions : pending'[t] \subseteq pending[t] /\ (t # s => pending'[t] = pending[t])
  BY <1>1 DEF TypeInv
<1>5. \A p : Row(p)' = Row(p)
  BY <1>2 DEF Row
<1>6. ASSUME NEW t \in Sessions, NEW g \in pending'[t] PROVE Noted(t, g)'
  BY <1>2, <1>4, <1>5, <1>6, <1>a DEF PendingInv, Noted
<1>7. ASSUME NEW t \in Sessions PROVE InStatement(t)'
  <2>1. InStatement(t)
    BY DEF PendingInv
  <2>2. CASE ss[t].pc = "row"
    <3>1. t # s
      BY <2>2, <1>2 DEF Ended
    <3>2. f.oid # ss[t].oid
      <4> SUFFICES ASSUME f.oid = ss[t].oid PROVE FALSE
        OBVIOUS
      <4>1. f = Created(f.oid) /\ f.oid \in Oids
        BY <1>3, <2>1, <2>2 DEF Noted, InStatement, PendingFiles, Created
      <4> QED
        BY <4>1, <3>1, <1>3, <2>1, <2>2 DEF InStatement, PendingInv
    <3> QED
      BY <2>1, <2>2, <3>1, <3>2, <1>1, <1>4, <1>5, <1>a DEF InStatement
  <2>3. CASE ss[t].pc # "row"
    BY <2>1, <2>3, <1>5, <1>a DEF InStatement
  <2> QED
    BY <2>2, <2>3
<1> QED
  BY <1>4, <1>6, <1>7 DEF PendingInv

\* The end of a transaction forgets its own removals only.
LEMMA PendingEnds ==
    ASSUME TypeInv, PendingInv, NEW s \in Sessions, EndTransaction(s)
    PROVE  PendingInv'
<1>1. UNCHANGED <<fate, class, files, nextOid>> /\ pending' = [pending EXCEPT ![s] = {}]
  BY OthersStill, StillFate DEF EndTransaction, diskVars, Ending
<1>2. ss'[s].pc = "idle" /\ \A t \in Sessions \ {s} : ss'[t] = ss[t]
  BY EndMoves DEF Moves
<1>3. \A t \in Sessions : pending'[t] = IF t = s THEN {} ELSE pending[t]
  BY <1>1 DEF TypeInv
<1>4. \A p : Row(p)' = Row(p)
  BY <1>1 DEF Row
<1>5. ASSUME NEW t \in Sessions, NEW f \in pending'[t] PROVE Noted(t, f)'
  BY <1>1, <1>2, <1>3, <1>4, <1>5 DEF PendingInv, Noted
<1>6. ASSUME NEW t \in Sessions PROVE InStatement(t)'
  BY <1>1, <1>2, <1>3, <1>4 DEF PendingInv, InStatement
<1> QED
  BY <1>3, <1>5, <1>6 DEF PendingInv

\* A session moves on, and what it knows of its transaction stays right.
LEMMA LiveKeeps ==
    ASSUME LiveInv, NEW s \in Sessions, fate' = fate,
           NEW failed \in BOOLEAN, NEW pc, NEW oid, NEW snap,
           Moves(s, ss[s].tx, failed, pc, oid, snap),
           \/ failed = ss[s].failed /\ pc = ss[s].pc
           \/ /\ ss[s].tx # NoTx
              /\ failed => pc \in {"idle", "aborted"}
              /\ fate[ss[s].tx] = IF failed \/ pc = "aborted" THEN "aborted"
                                    ELSE IF pc = "committed" THEN "committed" ELSE "running"
    PROVE  LiveInv'
<1>1. \A t \in Sessions : ss'[t].tx = ss[t].tx
  BY DEF Moves
<1>2. ASSUME NEW t \in Sessions PROVE Knows(t)'
  <2>1. Knows(t)
    BY DEF LiveInv
  <2>2. CASE t = s
    BY <2>1, <2>2, <1>1 DEF Knows, Verdict, Moves
  <2>3. CASE t # s
    BY <2>1, <2>3 DEF Knows, Verdict, Moves
  <2> QED
    BY <2>2, <2>3
<1> QED
  BY <1>1, <1>2 DEF LiveInv

\* A transaction that begins is its session's, and was nobody's.
LEMMA LiveBegins ==
    ASSUME TypeInv, DoubtInv, LiveInv, NEW s \in Sessions, Begins(s)
    PROVE  LiveInv'
<1>0. fate \in [Xids -> Statuses]
  BY FateType
<1>1. PICK x \in Xids, pc \in {"idle", "snapshot"} :
         /\ status[x] = "unassigned" /\ fate' = [fate EXCEPT ![x] = "running"]
         /\ Moves(s, x, ss[s].failed, pc, ss[s].oid, ss[s].snap)
  BY DEF Begins
<1>2. ss[s].tx = NoTx /\ ~ss[s].failed
  BY DEF Begins, LiveInv, Knows, TypeInv, SessionRecs
<1>3. fate[x] = "unassigned"
  BY <1>1, FateType
<1>4. \A y \in Xids : fate'[y] = IF y = x THEN "running" ELSE fate[y]
  BY <1>0, <1>1
<1>5. \A t \in Sessions : ss[t].tx # NoTx =>
         ss[t].tx \in Xids /\ fate[ss[t].tx] \in {"running", "committed", "aborted"}
  BY TxIsXid DEF LiveInv, Knows, Verdict
<1>6. \A t \in Sessions : ss[t].tx # x
  BY <1>3, <1>5, TxIsXid
<1>7. ASSUME NEW t \in Sessions PROVE Knows(t)'
  <2>1. CASE t = s
    BY <2>1, <1>1, <1>2, <1>4, TxIsXid DEF Knows, Verdict, Moves
  <2>2. CASE t # s
    <3>1. ss'[t] = ss[t] /\ Knows(t)
      BY <2>2, <1>1 DEF Moves, LiveInv
    <3>2. ss[t].tx # NoTx => fate'[ss[t].tx] = fate[ss[t].tx]
      BY <1>4, <1>5, <1>6
    <3> QED
      BY <3>1, <3>2 DEF Knows, Verdict
  <2> QED
    BY <2>1, <2>2
<1>8. ss'[s].tx = x /\ \A t \in Sessions \ {s} : ss'[t].tx = ss[t].tx
  BY <1>1 DEF Moves
<1>9. \A y \in Xids : fate'[y] = "running" => \E t \in Sessions : ss'[t].tx = y
  <2> SUFFICES ASSUME NEW y \in Xids, fate'[y] = "running"
               PROVE  \E t \in Sessions : ss'[t].tx = y
    OBVIOUS
  <2>1. CASE y = x
    BY <2>1, <1>8
  <2>2. CASE y # x
    <3>1. PICK t \in Sessions : ss[t].tx = y
      BY <2>2, <1>4 DEF LiveInv
    <3> QED
      BY <3>1, <1>2, <1>8, TxIsXid
  <2> QED
    BY <2>1, <2>2
<1>10. \A t, u \in Sessions : ss'[t].tx = ss'[u].tx /\ ss'[t].tx # NoTx => t = u
  BY <1>6, <1>8 DEF LiveInv
<1> QED
  BY <1>7, <1>9, <1>10 DEF LiveInv

\* The verdict recorded is the one the session knows.
LEMMA LiveFinishes ==
    ASSUME TypeInv, DoubtInv, LiveInv, NEW s \in Sessions, Finishes(s)
    PROVE  LiveInv'
<1>0. fate \in [Xids -> Statuses]
  BY FateType
<1>1. PICK verdict \in Ended, pc \in {"idle", "committed", "aborted"}, failed \in BOOLEAN,
           oid \in Oids \cup {NoOid} :
        /\ fate' = [fate EXCEPT ![ss[s].tx] = verdict]
        /\ Moves(s, ss[s].tx, failed, pc, oid, ss[s].snap)
        /\ failed => pc # "committed"
        /\ verdict = IF failed \/ pc = "aborted" THEN "aborted"
                     ELSE IF pc = "committed" THEN "committed" ELSE "running"
  BY DEF Finishes
<1>2. ss[s].tx # NoTx /\ ss[s].tx \in Xids
  BY TxIsXid DEF Finishes
<1>3. \A y \in Xids : fate'[y] = IF y = ss[s].tx THEN verdict ELSE fate[y]
  BY <1>0, <1>1
<1>4. \A t \in Sessions : ss'[t].tx = ss[t].tx
  BY <1>1 DEF Moves
<1>5. ASSUME NEW t \in Sessions PROVE Knows(t)'
  <2>1. CASE t = s
    BY <2>1, <1>1, <1>2, <1>3 DEF Knows, Verdict, Moves
  <2>2. CASE t # s
    <3>1. ss'[t] = ss[t] /\ Knows(t)
      BY <2>2, <1>1 DEF Moves, LiveInv
    <3>2. ss[t].tx # NoTx => fate'[ss[t].tx] = fate[ss[t].tx]
      BY <2>2, <1>2, <1>3, TxIsXid DEF LiveInv
    <3> QED
      BY <3>1, <3>2 DEF Knows, Verdict
  <2> QED
    BY <2>1, <2>2
<1>6. \A y \in Xids : fate'[y] = "running" => fate[y] = "running"
  BY <1>1, <1>3 DEF Ended
<1> QED
  BY <1>4, <1>5, <1>6 DEF LiveInv

\* A session lets go of a transaction only when it has its verdict.
LEMMA LiveEnds ==
    ASSUME TypeInv, LiveInv, NEW s \in Sessions, EndTransaction(s)
    PROVE  LiveInv'
<1>1. Knows(s) /\ fate' = fate /\ ss[s].pc \in Ended /\ ss[s].failed \in BOOLEAN
  BY OthersStill, StillFate DEF EndTransaction, At, LiveInv, Ended, TypeInv, SessionRecs, Ending
<1>2. CASE ss[s].failed
  <2>1. Moves(s, ss[s].tx, TRUE, "idle", ss[s].oid, ss[s].snap)
    BY <1>2, EndMoves
  <2>2. ss[s].tx # NoTx /\ fate[ss[s].tx] = "aborted"
    BY <1>1, <1>2 DEF Knows, Verdict, Ended
  <2> QED
    BY <1>1, <2>1, <2>2, LiveKeeps
<1>3. CASE ~ss[s].failed
  <2>1. Moves(s, NoTx, FALSE, "idle", NoOid, NoSnap)
    BY <1>3, EndMoves
  <2>2. ss[s].tx # NoTx /\ fate[ss[s].tx] \in Ended
    BY <1>1, <1>3 DEF Knows, Verdict, Ended
  <2>3. Knows(s)'
    BY <2>1, <2>2 DEF Knows, Moves
  <2>4. \A t \in Sessions \ {s} : ss'[t] = ss[t] /\ (Knows(t) => Knows(t)')
    BY <1>1, <2>1 DEF Moves, Knows, Verdict
  <2>5. ss'[s].tx = NoTx
    BY <2>1 DEF Moves
  <2>6. ASSUME NEW x \in Xids, fate[x] = "running" PROVE \E t \in Sessions : ss'[t].tx = x
    <3>1. PICK t \in Sessions : ss[t].tx = x
      BY <2>6 DEF LiveInv
    <3> QED
      BY <3>1, <2>2, <2>4, <2>6 DEF Ended
  <2> QED
    BY <1>1, <2>3, <2>4, <2>5, <2>6 DEF LiveInv
<1> QED
  BY <1>2, <1>3

\* Sessions and transactions stay matched, a crash included.
LEMMA LiveStep ==
    ASSUME IndInv, [Next]_vars
    PROVE  LiveInv'
<1>0. /\ TypeInv /\ DoubtInv /\ LiveInv
      /\ \A s \in Sessions : Knows(s) /\ ss[s].failed \in BOOLEAN
  BY DEF IndInv, LiveInv, TypeInv, SessionRecs
<1>1. ASSUME NEW s \in Sessions, GoesOn(s) PROVE LiveInv'
  <2>1. PICK pc \in Pcs, oid \in Oids \cup {NoOid}, snap \in {ss[s].snap, Take(ss[s].tx)} :
          /\ Moves(s, ss[s].tx, ss[s].failed, pc, oid, snap)
          /\ pc # ss[s].pc => /\ ss[s].tx # NoTx /\ ~ss[s].failed
                              /\ ss[s].pc \notin Ended /\ pc \notin Ended
    BY <1>1 DEF GoesOn
  <2>2. fate' = fate
    BY <1>1, OthersStill, StillFate
  <2>3. pc # ss[s].pc => fate[ss[s].tx] = "running"
    BY <1>0, <2>1 DEF Knows, Verdict, Ended
  <2>4. CASE pc = ss[s].pc
    BY <1>0, <2>1, <2>2, <2>4, LiveKeeps
  <2>5. CASE pc # ss[s].pc
    <3>1. ss[s].tx # NoTx /\ ~ss[s].failed /\ pc \notin Ended /\ fate[ss[s].tx] = "running"
      BY <2>1, <2>3, <2>5
    <3>2. ss[s].failed = FALSE
      BY <1>0, <3>1
    <3>3. Moves(s, ss[s].tx, FALSE, pc, oid, snap)
      BY <2>1, <3>2
    <3> QED
      BY <1>0, <2>2, <3>1, <3>3, LiveKeeps DEF Ended
  <2> QED
    BY <2>4, <2>5
<1>2. ASSUME NEW s \in Sessions, EndFailedBlock(s) PROVE LiveInv'
  <2>0. fate' = fate
    BY <1>2, OthersStill, StillFate DEF Ending
  <2>1. Moves(s, ss[s].tx, FALSE, "aborted", ss[s].oid, ss[s].snap)
    BY <1>0, <1>2, EndFailedBlockMoves
  <2>2. ss[s].tx # NoTx /\ fate[ss[s].tx] = "aborted"
    BY <1>0, <1>2 DEF EndFailedBlock, Knows, Verdict
  <2> QED
    BY <1>0, <2>0, <2>1, <2>2, LiveKeeps
<1>3. ASSUME NEW s \in Sessions, OnDisk(s) PROVE LiveInv'
  <2>0. fate' = fate
    BY <1>3, OthersStill, StillFate
  <2>1. ss[s].pc \in {"run", "row", "drop"}
    BY <1>3, Zenon DEF OnDisk, CreateFile, WriteRow, DropRow, At
  <2>2. PICK pc \in {"row", "idle", "flush"}, oid \in {nextOid, NoOid} :
          Moves(s, ss[s].tx, ss[s].failed, pc, oid, ss[s].snap)
    BY <1>0, <1>3, CreateFileMoves, WriteRowMoves, DropRowMoves DEF OnDisk
  <2>3. ss[s].tx # NoTx /\ ~ss[s].failed /\ fate[ss[s].tx] = "running"
    BY <1>0, <2>1 DEF Knows, Verdict
  <2> QED
    BY <1>0, <2>0, <2>1, <2>2, <2>3, LiveKeeps
<1>4. CASE Crash
  <2>1. \A s \in Sessions : ss'[s] = NewSession
    BY <1>4 DEF Crash
  <2>2. \A x \in Xids : fate'[x] # "running"
    <3>1. \A x \in Xids : fate[x] \in Ended \cup {"running", "unassigned"}
      BY <1>0, FateType DEF Statuses, Ended
    <3> QED
      BY <1>4, <3>1, CrashFate DEF Ended
  <2> QED
    BY <2>1, <2>2 DEF LiveInv, Knows, NewSession
<1>5. ASSUME UNCHANGED <<fate, ss>> PROVE LiveInv'
  BY <1>0, <1>5 DEF LiveInv, Knows, Verdict
<1>6. ASSUME NEW s \in Sessions, Removing(s) PROVE LiveInv'
  <2>1. fate' = fate
    BY <1>6, OthersStill, StillFate
  <2>2. CASE RemoveFile(s)
    BY <1>5, <2>1, <2>2 DEF RemoveFile
  <2>3. CASE RemoveFileFails(s)
    BY <1>0, <2>1, <2>3, RemoveFailsMoves, LiveKeeps
  <2> QED
    BY <1>6, <2>2, <2>3 DEF Removing
<1>7. ASSUME NEW s \in Sessions, WriteBit(s) PROVE LiveInv'
  BY <1>5, <1>7, CutFate
<1>8. CASE UNCHANGED vars
  BY <1>5, <1>8, StillFate DEF vars, xactVars, histVars, Still
<1> QED
  BY <1>0, <1>1, <1>2, <1>3, <1>4, <1>6, <1>7, <1>8, LiveBegins, LiveFinishes, LiveEnds, StepKinds
     DEF Ending

-----------------------------------------------------------------------------
(* The conjuncts of IndInv, one lemma each.                                *)

\* What the steps that leave most alone have in common.
LEMMA Frames ==
    /\ \A s \in Sessions : GoesOn(s) \/ Begins(s) \/ Finishes(s) \/ EndFailedBlock(s) \/ WriteBit(s) =>
          UNCHANGED <<class, files, nextOid, pending, crashes, answer, stray, bereft>>
    /\ \A s \in Sessions : EndTransaction(s) =>
          UNCHANGED <<class, files, nextOid, crashes, stray, bereft>>
    /\ \A s \in Sessions : Removing(s) =>
          /\ UNCHANGED <<class, nextOid, crashes, answer>>
          /\ stray \subseteq stray' /\ bereft \subseteq bereft' /\ files' \subseteq files
    /\ \A s \in Sessions : CreateFile(s) => /\ UNCHANGED <<class, crashes, answer, stray, bereft>>
                                            /\ nextOid \in Oids /\ nextOid' = nextOid + 1
                                            /\ files' = files \cup {nextOid}
    /\ \A s \in Sessions : WriteRow(s) =>
          UNCHANGED <<files, nextOid, pending, crashes, answer, stray, bereft>>
    /\ \A s \in Sessions : DropRow(s) =>
          UNCHANGED <<files, nextOid, crashes, answer, stray, bereft>>
    /\ Crash => UNCHANGED <<class, files, nextOid, answer, stray, bereft>>
    /\ UNCHANGED vars =>
          UNCHANGED <<status, inDoubt, fate, class, files, nextOid, ss, pending, crashes,
                      answer, stray, bereft>>
<1>1. \A s \in Sessions : GoesOn(s) =>
         UNCHANGED <<class, files, nextOid, pending, crashes, answer, stray, bereft>>
  BY Zenon DEF GoesOn, Quiet
<1>2. \A s \in Sessions : Begins(s) \/ Finishes(s) =>
         UNCHANGED <<class, files, nextOid, pending, crashes, answer, stray, bereft>>
  BY Zenon DEF Begins, Finishes
<1>3. \A s \in Sessions : EndFailedBlock(s) \/ WriteBit(s) =>
         UNCHANGED <<class, files, nextOid, pending, crashes, answer, stray, bereft>>
  BY DEF EndFailedBlock, WriteBit, diskVars, cntVars, histVars
<1>4. \A s \in Sessions : EndTransaction(s) =>
         UNCHANGED <<class, files, nextOid, crashes, stray, bereft>>
  BY DEF EndTransaction, diskVars, cntVars
<1>5. \A s \in Sessions : Removing(s) =>
         /\ UNCHANGED <<class, nextOid, crashes, answer>>
         /\ stray \subseteq stray' /\ bereft \subseteq bereft' /\ files' \subseteq files
  BY DEF Removing, RemoveFile, RemoveFileFails, diskVars, cntVars
<1>6. \A s \in Sessions : CreateFile(s) => /\ UNCHANGED <<class, crashes, answer, stray, bereft>>
                                           /\ nextOid \in Oids /\ nextOid' = nextOid + 1
                                           /\ files' = files \cup {nextOid}
  BY DEF CreateFile, cntVars, histVars
<1>7. \A s \in Sessions : WriteRow(s) =>
         UNCHANGED <<files, nextOid, pending, crashes, answer, stray, bereft>>
  BY DEF WriteRow, cntVars, histVars
<1>8. \A s \in Sessions : DropRow(s) =>
         UNCHANGED <<files, nextOid, crashes, answer, stray, bereft>>
  BY DEF DropRow, cntVars, histVars
<1>9. Crash => UNCHANGED <<class, files, nextOid, answer, stray, bereft>>
  BY DEF Crash, diskVars
<1>10. UNCHANGED vars =>
          UNCHANGED <<status, inDoubt, fate, class, files, nextOid, ss, pending, crashes,
                      answer, stray, bereft>>
  BY StillFate DEF vars, xactVars, diskVars, cntVars, histVars, Still
<1> QED
  BY <1>1, <1>2, <1>3, <1>4, <1>5, <1>6, <1>7, <1>8, <1>9, <1>10

\* A statement that works on the catalog has a running transaction.
LEMMA Working ==
    ASSUME IndInv, NEW s \in Sessions, OnDisk(s)
    PROVE  /\ ss[s].tx \in Xids /\ ss[s].tx # NoTx /\ ~ss[s].failed
           /\ fate[ss[s].tx] = "running" /\ status[ss[s].tx] = "running"
           /\ ss[s].pc \in {"run", "row", "drop"}
           /\ status' = status /\ fate' = fate /\ inDoubt' = inDoubt
<1>1. ss[s].pc \in {"run", "row", "drop"}
  BY Zenon DEF OnDisk, CreateFile, WriteRow, DropRow, At
<1>2. Knows(s) /\ TypeInv /\ DoubtInv
  BY DEF IndInv, LiveInv
<1>3. ss[s].tx # NoTx /\ ~ss[s].failed /\ fate[ss[s].tx] = "running"
  BY <1>1, <1>2 DEF Knows, Verdict
<1>4. status' = status /\ fate' = fate /\ inDoubt' = inDoubt
  BY OthersStill, StillFate DEF Still
<1> QED
  BY <1>1, <1>2, <1>3, <1>4, TxIsXid, FateType

\* The row a CREATE writes.
LEMMA WrittenRow ==
    ASSUME IndInv, NEW s \in Sessions, WriteRow(s)
    PROVE  LET o == ss[s].oid IN
           /\ o \in Oids /\ o \in files /\ o < nextOid /\ ~Row(o) /\ Created(o) \in pending[s]
           /\ class'[o].xmin = ss[s].tx /\ class'[o].xmax = InvalidXID
           /\ \A p \in Oids \ {o} : class'[p] = class[p]
<1> DEFINE o == ss[s].oid
<1>1. /\ TypeInv /\ PendingInv
      /\ o \in files /\ ~Row(o) /\ Created(o) \in pending[s]
  BY DEF IndInv, PendingInv, InStatement, WriteRow, At
<1>2. Created(o).oid < nextOid /\ o \in Oids
  BY <1>1 DEF PendingInv, Noted, TypeInv
<1>3. o < nextOid
  BY <1>2 DEF Created
<1>4. class' = [class EXCEPT ![o] = [NoRow EXCEPT !.xmin = ss[s].tx]]
  BY DEF WriteRow
<1>5. /\ class'[o].xmin = ss[s].tx /\ class'[o].xmax = InvalidXID
      /\ \A p \in Oids \ {o} : class'[p] = class[p]
  BY <1>1, <1>2, <1>4 DEF TypeInv, NoRow
<1> QED
  BY <1>1, <1>2, <1>3, <1>5

\* The row a DROP marks.
LEMMA MarkedRow ==
    ASSUME IndInv, NEW s \in Sessions, DropRow(s)
    PROVE  LET o == ss[s].oid IN
           /\ o \in Oids /\ Row(o)
           /\ class[o].xmax = InvalidXID \/ fate[class[o].xmax] = "aborted"
           /\ class'[o].xmax = ss[s].tx
           /\ \A p \in Oids \ {o} : class'[p] = class[p]
           /\ \A p \in Oids : class'[p].xmin = class[p].xmin
           /\ pending'[s] = pending[s] \cup {Removed(o)}
           /\ \A t \in Sessions \ {s} : pending'[t] = pending[t]
<1> DEFINE o == ss[s].oid
<1>1. TypeInv /\ DoubtInv /\ PendingInv
  BY DEF IndInv
<1>2. o \in Oids /\ Row(o) /\ (class[o].xmax = InvalidXID \/ fate[class[o].xmax] = "aborted")
  BY <1>1, DropAllowed
<1>3. /\ class' = [class EXCEPT ![o].xmax = ss[s].tx]
      /\ pending' = [pending EXCEPT ![s] = pending[s] \cup {Removed(o)}]
  BY DEF DropRow
<1>4. /\ class'[o].xmax = ss[s].tx
      /\ \A p \in Oids \ {o} : class'[p] = class[p]
      /\ \A p \in Oids : class'[p].xmin = class[p].xmin
  BY <1>1, <1>2, <1>3 DEF TypeInv, Rows
<1>5. /\ pending'[s] = pending[s] \cup {Removed(o)}
      /\ \A t \in Sessions \ {s} : pending'[t] = pending[t]
  BY <1>1, <1>3 DEF TypeInv
<1> QED
  BY <1>2, <1>4, <1>5

\* Rows go on naming transactions that began.
LEMMA RowStep ==
    ASSUME IndInv, [Next]_vars
    PROVE  RowInv'
<1>0. TypeInv /\ RowInv /\ Certain
  BY CertainStep DEF IndInv
<1>1. ASSUME class' = class, nextOid' \in {nextOid, nextOid + 1} PROVE RowInv'
  BY <1>0, <1>1, RowKeeps
<1>2. ASSUME NEW s \in Sessions, WriteRow(s) PROVE RowInv'
  <2> DEFINE o == ss[s].oid
  <2>1. /\ o \in Oids /\ o < nextOid
        /\ class'[o].xmin = ss[s].tx /\ class'[o].xmax = InvalidXID
        /\ \A p \in Oids \ {o} : class'[p] = class[p]
    BY <1>2, WrittenRow
  <2>2. status[ss[s].tx] # "unassigned" /\ UNCHANGED <<status, nextOid>>
    BY <1>2, Working, Frames DEF OnDisk
  <2> HIDE DEF o
  <2> QED
    BY <1>0, <2>1, <2>2 DEF RowInv, Row
<1>3. ASSUME NEW s \in Sessions, DropRow(s) PROVE RowInv'
  <2> DEFINE o == ss[s].oid
  <2>1. /\ o \in Oids /\ Row(o) /\ class'[o].xmax = ss[s].tx
        /\ \A p \in Oids \ {o} : class'[p] = class[p]
        /\ \A p \in Oids : class'[p].xmin = class[p].xmin
    BY <1>3, MarkedRow
  <2>2. status[ss[s].tx] # "unassigned" /\ UNCHANGED <<status, nextOid>>
    BY <1>3, Working, Frames DEF OnDisk
  <2> HIDE DEF o
  <2> QED
    BY <1>0, <2>1, <2>2 DEF RowInv, Row
<1> QED
  BY <1>1, <1>2, <1>3, StepKinds, Frames DEF Ending, OnDisk

\* Pending removals go on matching the rows.
LEMMA PendingStep ==
    ASSUME IndInv, [Next]_vars
    PROVE  PendingInv'
<1>0. TypeInv /\ DoubtInv /\ RowInv /\ PendingInv /\ (Monotone \/ Crash)
  BY CertainStep DEF IndInv
<1>a. ASSUME Crash PROVE PendingInv'
  <2>1. \A s \in Sessions : ss'[s] = NewSession /\ pending'[s] = {}
    BY <1>a DEF Crash
  <2> QED
    BY <2>1 DEF PendingInv, InStatement, NewSession
<1>1. ASSUME NEW s \in Sessions, GoesOn(s) PROVE PendingInv'
  <2>1. PICK pc \in Pcs, oid \in Oids \cup {NoOid}, snap \in {ss[s].snap, Take(ss[s].tx)} :
          /\ Moves(s, ss[s].tx, ss[s].failed, pc, oid, snap)
          /\ pc = "row" => ss[s].pc = "row" /\ oid = ss[s].oid
          /\ pc = "drop" => (ss[s].pc = "drop" /\ oid = ss[s].oid) \/ (oid \in Oids /\ Row(oid))
    BY <1>1 DEF GoesOn
  <2>2. UNCHANGED <<class, files, nextOid, pending>>
    BY <1>1, Frames
  <2> QED
    BY <1>0, <1>a, <2>1, <2>2, PendingKeeps
<1>2. ASSUME NEW s \in Sessions, Begins(s) PROVE PendingInv'
  <2>1. PICK x \in Xids, pc \in {"idle", "snapshot"} :
           Moves(s, x, ss[s].failed, pc, ss[s].oid, ss[s].snap)
    BY <1>2 DEF Begins
  <2>2. UNCHANGED <<class, files, nextOid, pending>>
    BY <1>2, Frames
  <2>3. ss[s].tx = NoTx /\ pc # "row" /\ pc # "drop"
    BY <1>2 DEF Begins
  <2> QED
    BY <1>0, <1>a, <2>1, <2>2, <2>3, PendingKeeps
<1>3. ASSUME NEW s \in Sessions, Finishes(s) PROVE PendingInv'
  <2>1. PICK pc \in {"idle", "committed", "aborted"}, failed \in BOOLEAN,
             oid \in Oids \cup {NoOid} :
           Moves(s, ss[s].tx, failed, pc, oid, ss[s].snap)
    BY <1>3 DEF Finishes
  <2>2. UNCHANGED <<class, files, nextOid, pending>>
    BY <1>3, Frames
  <2>3. pc # "row" /\ pc # "drop"
    BY <2>1
  <2> QED
    BY <1>0, <1>a, <2>1, <2>2, <2>3, PendingKeeps
<1>4. ASSUME NEW s \in Sessions, EndFailedBlock(s) PROVE PendingInv'
  <2>1. Moves(s, ss[s].tx, FALSE, "aborted", ss[s].oid, ss[s].snap)
    BY <1>0, <1>4, EndFailedBlockMoves
  <2>2. UNCHANGED <<class, files, nextOid, pending>>
    BY <1>4, Frames
  <2> QED
    BY <1>0, <1>a, <2>1, <2>2, PendingKeeps
<1>5. ASSUME NEW s \in Sessions, CreateFile(s) PROVE PendingInv'
  BY <1>0, <1>5, Working, PendingCreates DEF OnDisk
<1>6. ASSUME NEW s \in Sessions, WriteRow(s) PROVE PendingInv'
  BY <1>0, <1>6, Working, PendingWrites DEF OnDisk
<1>7. ASSUME NEW s \in Sessions, DropRow(s) PROVE PendingInv'
  BY <1>0, <1>7, Working, PendingDrops DEF OnDisk
<1>8. ASSUME NEW s \in Sessions, Removing(s) PROVE PendingInv'
  BY <1>0, <1>8, PendingRemoves
<1>9. ASSUME NEW s \in Sessions, EndTransaction(s) PROVE PendingInv'
  BY <1>0, <1>9, PendingEnds
<1>10. ASSUME NEW s \in Sessions, WriteBit(s) PROVE PendingInv'
  BY <1>0, <1>10, CutFate DEF PendingInv, Noted, InStatement, Row
<1>11. CASE UNCHANGED vars
  BY <1>0, <1>11, Frames DEF PendingInv, Noted, InStatement, Row
<1> QED
  BY <1>a, <1>1, <1>2, <1>3, <1>4, <1>5, <1>6, <1>7, <1>8, <1>9, <1>10, <1>11, StepKinds
     DEF Ending, OnDisk

\* A file goes only with a table nobody can see any more.
LEMMA TablesStep ==
    ASSUME IndInv, [Next]_vars
    PROVE  TableInv'
<1>0. TypeInv /\ DoubtInv /\ TableInv /\ Certain /\ PendingInv /\ RowInv
  BY CertainStep DEF IndInv
<1>1. ASSUME class' = class, files \subseteq files', bereft \subseteq bereft' PROVE TableInv'
  BY <1>0, <1>1, TablesKeep
<1>2. ASSUME NEW s \in Sessions, WriteRow(s) PROVE TableInv'
  <2> DEFINE o == ss[s].oid
  <2>1. o \in files /\ \A p \in Oids \ {o} : class'[p] = class[p]
    BY <1>2, WrittenRow
  <2>2. UNCHANGED <<fate, inDoubt, files, bereft>>
    BY <1>2, Frames, Working DEF OnDisk
  <2> HIDE DEF o
  <2> QED
    BY <1>0, <2>1, <2>2 DEF TableInv, Doomed, Row
<1>3. ASSUME NEW s \in Sessions, DropRow(s) PROVE TableInv'
  <2> DEFINE o == ss[s].oid
  <2>1. /\ o \in Oids /\ Row(o)
        /\ class[o].xmax = InvalidXID \/ fate[class[o].xmax] = "aborted"
        /\ \A p \in Oids \ {o} : class'[p] = class[p]
        /\ \A p \in Oids : class'[p].xmin = class[p].xmin
    BY <1>3, MarkedRow
  <2>2. UNCHANGED <<fate, inDoubt, files, bereft>>
    BY <1>3, Frames, Working DEF OnDisk
  <2> HIDE DEF o
  <2> QED
    BY <1>0, <2>1, <2>2 DEF TableInv, Doomed, Row
<1>4. ASSUME NEW s \in Sessions, RemoveFile(s) PROVE TableInv'
  <2>1. PICK f \in Matching(s) :
          /\ files' = files \ {f.oid}
          /\ bereft' = IF ss[s].tx \in inDoubt THEN bereft \cup {f.oid} ELSE bereft
    BY <1>4 DEF RemoveFile
  <2>2. /\ f \in pending[s] /\ Noted(s, f) /\ ss[s].tx \in Xids /\ f.atCommit \in BOOLEAN
        /\ f.oid \in Oids
    BY <1>0, <2>1, TxIsXid DEF Matching, PendingInv, Noted, TypeInv, PendingFiles
  <2>3. UNCHANGED <<fate, class, inDoubt>>
    BY <1>4, Frames, OthersStill, StillFate DEF Removing, Still
  <2>4. Knows(s) /\ ss[s].pc \in {"committed", "aborted"}
    BY <1>4 DEF IndInv, LiveInv, RemoveFile, At
  <2>5. \A o \in Oids \ {f.oid} : o \in files \cup bereft => o \in files' \cup bereft'
    BY <2>1
  <2>6. CASE ss[s].tx \in inDoubt
    BY <1>0, <2>1, <2>3, <2>6 DEF TableInv, Doomed, Row
  <2>7. CASE ss[s].tx \notin inDoubt
    <3>1. Row(f.oid) => Doomed(f.oid)
      <4>1. CASE f.atCommit
        <5>1. ss[s].pc = "committed"
          BY <2>1, <4>1 DEF Matching
        <5>2. fate[ss[s].tx] = "committed" /\ class[f.oid].xmax = ss[s].tx
          BY <2>2, <2>4, <4>1, <5>1 DEF Knows, Verdict, Noted
        <5>3. class[f.oid].xmax # InvalidXID
          BY <2>2, <5>2, TxIsXid, <1>0 DEF NoTx, InvalidXID
        <5> QED
          BY <2>7, <5>2, <5>3 DEF Doomed
      <4>2. CASE ~f.atCommit
        <5>1. ss[s].pc = "aborted"
          BY <2>1, <2>4, <4>2 DEF Matching
        <5>2. fate[ss[s].tx] = "aborted" /\ (Row(f.oid) => class[f.oid].xmin = ss[s].tx)
          BY <2>2, <2>4, <4>2, <5>1 DEF Knows, Verdict, Noted
        <5> QED
          BY <2>7, <5>2 DEF Doomed
      <4> QED
        BY <4>1, <4>2
    <3> QED
      BY <1>0, <2>3, <2>5, <3>1 DEF TableInv, Doomed, Row
  <2> QED
    BY <2>6, <2>7
<1>5. ASSUME NEW s \in Sessions, RemoveFileFails(s) PROVE files' = files
  BY <1>5 DEF RemoveFileFails, diskVars
<1> QED
  BY <1>1, <1>2, <1>3, <1>4, <1>5, StepKinds, Frames DEF Ending, OnDisk, Removing

\* An answer is given when the verdict is in the log, or says nothing.
LEMMA AnswersStep ==
    ASSUME IndInv, [Next]_vars
    PROVE  AnswerInv'
<1>0. TypeInv /\ DoubtInv /\ AnswerInv /\ Certain
  BY CertainStep DEF IndInv
<1>1. ASSUME answer' = answer PROVE AnswerInv'
  BY <1>0, <1>1, AnswersKeep
<1>2. ASSUME NEW s \in Sessions, EndTransaction(s) PROVE AnswerInv'
  <2>1. CASE ss[s].failed
    BY <1>1, <1>2, <2>1 DEF EndTransaction
  <2>2. CASE ~ss[s].failed
    <3>1. fate' = fate /\ inDoubt' = inDoubt
      BY <1>2, OthersStill, StillFate DEF Ending, Still
    <3>2. Knows(s) /\ ss[s].pc \in {"committed", "aborted"}
      BY <1>2 DEF IndInv, LiveInv, EndTransaction, At
    <3>3. ss[s].tx # NoTx => fate[ss[s].tx] = ss[s].pc
      BY <2>2, <3>2 DEF Knows, Verdict
    <3>4. PICK a \in {"COMMIT", "ROLLBACK", "error"} :
            /\ answer' = [answer EXCEPT ![ss[s].tx] = a]
            /\ a = "COMMIT" => ss[s].pc = "committed"
            /\ a = "ROLLBACK" => ss[s].pc # "committed"
      BY <1>2, <2>2 DEF EndTransaction
    <3>5. \A x \in Xids : answer'[x] = IF x = ss[s].tx THEN a ELSE answer[x]
      BY <1>0, <3>4 DEF TypeInv
    <3> QED
      BY <1>0, <3>1, <3>2, <3>3, <3>4, <3>5, TxIsXid DEF AnswerInv
  <2> QED
    BY <2>1, <2>2
<1> QED
  BY <1>1, <1>2, StepKinds, Frames DEF Ending, OnDisk

\* A session's snapshot changes with its transaction.
LEMMA SnapKeeps ==
    ASSUME SnapInv, NEW s \in Sessions,
           NEW tx, NEW failed, NEW pc, NEW oid, NEW snap, Moves(s, tx, failed, pc, oid, snap),
           snap # NoSnap => tx # NoTx /\ snap.xid = tx
    PROVE  SnapInv'
<1>1. ASSUME NEW t \in Sessions, ss'[t].snap # NoSnap
      PROVE  ss'[t].tx # NoTx /\ ss'[t].snap.xid = ss'[t].tx
  <2>1. CASE t = s
    BY <1>1, <2>1 DEF Moves
  <2>2. CASE t # s
    BY <1>1, <2>2 DEF Moves, SnapInv
  <2> QED
    BY <2>1, <2>2
<1> QED
  BY <1>1 DEF SnapInv

\* The session's snapshot stays its transaction's.
LEMMA SnapStep ==
    ASSUME IndInv, [Next]_vars
    PROVE  SnapInv'
<1>0. TypeInv /\ SnapInv
  BY DEF IndInv
<1>1. \A s \in Sessions : ss[s].snap # NoSnap => ss[s].tx # NoTx /\ ss[s].snap.xid = ss[s].tx
  BY <1>0 DEF SnapInv
<1>2. ASSUME NEW s \in Sessions, GoesOn(s) PROVE SnapInv'
  <2>1. PICK pc \in Pcs, oid \in Oids \cup {NoOid}, snap \in {ss[s].snap, Take(ss[s].tx)} :
          /\ Moves(s, ss[s].tx, ss[s].failed, pc, oid, snap)
          /\ snap # ss[s].snap => ss[s].tx # NoTx
    BY <1>2 DEF GoesOn
  <2>2. Take(ss[s].tx).xid = ss[s].tx
    BY DEF Take
  <2>3. snap # NoSnap => ss[s].tx # NoTx /\ snap.xid = ss[s].tx
    BY <1>1, <2>1, <2>2
  <2> QED
    BY <1>0, <2>1, <2>3, SnapKeeps
<1>3. ASSUME NEW s \in Sessions, Begins(s) PROVE SnapInv'
  <2>1. PICK x \in Xids, pc \in {"idle", "snapshot"} :
           Moves(s, x, ss[s].failed, pc, ss[s].oid, ss[s].snap)
    BY <1>3 DEF Begins
  <2>2. ss[s].snap = NoSnap
    BY <1>1, <1>3 DEF Begins
  <2> QED
    BY <1>0, <2>1, <2>2, SnapKeeps
<1>4. ASSUME NEW s \in Sessions,
             NEW failed, NEW pc, NEW oid, Moves(s, ss[s].tx, failed, pc, oid, ss[s].snap)
      PROVE  SnapInv'
  BY <1>0, <1>1, <1>4, SnapKeeps
<1>5. ASSUME NEW s \in Sessions, Finishes(s) PROVE SnapInv'
  <2>1. PICK pc \in {"idle", "committed", "aborted"}, failed \in BOOLEAN,
             oid \in Oids \cup {NoOid} :
           Moves(s, ss[s].tx, failed, pc, oid, ss[s].snap)
    BY <1>5 DEF Finishes
  <2> QED
    BY <2>1, <1>4
<1>6. ASSUME NEW s \in Sessions, EndFailedBlock(s) \/ OnDisk(s) \/ RemoveFileFails(s)
      PROVE  SnapInv'
  BY <1>0, <1>4, <1>6, EndFailedBlockMoves, CreateFileMoves, WriteRowMoves, DropRowMoves,
     RemoveFailsMoves DEF OnDisk
<1>7. ASSUME NEW s \in Sessions, EndTransaction(s) PROVE SnapInv'
  <2>1. CASE ss[s].failed
    BY <1>0, <1>4, <1>7, <2>1, EndMoves
  <2>2. CASE ~ss[s].failed
    BY <1>0, <1>7, <2>2, EndMoves, SnapKeeps
  <2> QED
    BY <2>1, <2>2
<1>8. CASE Crash
  <2>1. \A s \in Sessions : ss'[s] = NewSession
    BY <1>8 DEF Crash
  <2> QED
    BY <2>1 DEF SnapInv, NewSession
<1>9. ASSUME ss' = ss PROVE SnapInv'
  BY <1>0, <1>9 DEF SnapInv
<1>10. ASSUME NEW s \in Sessions, RemoveFile(s) \/ WriteBit(s) PROVE ss' = ss
  BY <1>10 DEF RemoveFile, WriteBit
<1> QED
  BY <1>2, <1>3, <1>5, <1>6, <1>7, <1>8, <1>9, <1>10, StepKinds, Frames DEF Ending, Removing

\* IDs go on being handed out one after the other.
LEMMA GapStep ==
    ASSUME IndInv, [Next]_vars
    PROVE  GapInv'
<1>0. TypeInv /\ DoubtInv /\ GapInv
  BY DEF IndInv
<1>1. ASSUME NEW s \in Sessions, Begins(s) PROVE GapInv'
  <2>1. PICK x \in Xids : x = NextXid /\ XactBegin(x)
    BY <1>1 DEF Begins
  <2>2. \A y \in Xids : status[y] # "unassigned" <=> y < x
    BY <1>0, <2>1, NextIsFree
  <2>3. \A y \in Xids : status'[y] = IF y = x THEN "running" ELSE status[y]
    BY <1>0, <2>1 DEF XactBegin, TypeInv
  <2>4. \A y \in Xids : status'[y] # "unassigned" <=> y < x + 1
    BY <2>2, <2>3 DEF Xids
  <2>5. x + 1 \in FirstNormalXID .. MaxXid + 1
    BY XidAssumption DEF Xids, FirstNormalXID
  <2> QED
    BY <2>4, <2>5 DEF GapInv
<1>2. ASSUME \A x \in Xids : status'[x] # "unassigned" <=> status[x] # "unassigned" PROVE GapInv'
  BY <1>0, <1>2 DEF GapInv
<1>3. ASSUME NEW s \in Sessions, Finishes(s)
      PROVE  \A x \in Xids : status'[x] # "unassigned" <=> status[x] # "unassigned"
  <2>1. PICK verdict \in Ended : Ends(s, verdict)
    BY <1>3 DEF Finishes
  <2> QED
    BY <1>0, <2>1 DEF Ends, XactFinish, Ended, TypeInv
<1>4. CASE Crash
  <2>1. \A x \in inDoubt : status[x] # "unassigned"
    BY <1>0 DEF DoubtInv
  <2>2. \A x \in Xids : status'[x] # "unassigned" <=> status[x] # "unassigned"
    BY <1>4, <2>1 DEF Crash
  <2> QED
    BY <1>2, <2>2
<1>5. ASSUME status' = status PROVE GapInv'
  BY <1>2, <1>5
<1> QED
  BY <1>1, <1>2, <1>3, <1>4, <1>5, StepKinds, OthersStill, CutFate, Frames DEF Still

-----------------------------------------------------------------------------
\* A new cluster satisfies the invariant.
LEMMA InitInv == Init => IndInv
<1> SUFFICES ASSUME Init PROVE IndInv
  OBVIOUS
<1>1. TypeInv
  <2>1. NoRow \in Rows
    BY DEF NoRow, Rows, XidOrNone
  <2>2. ss \in [Sessions -> SessionRecs]
    BY NewSessionType DEF Init
  <2> QED
    BY <2>1, <2>2, SessionAssumption DEF Init, DoubtInit, XactInit, TypeInv, Statuses
<1>2. \A s \in Sessions : ss[s] = NewSession /\ pending[s] = {}
  BY DEF Init
<1>3. \A x \in Xids : status[x] = "unassigned" /\ answer[x] = "none"
  BY DEF Init, DoubtInit, XactInit
<1>4. \A o \in Oids : class[o].xmin = InvalidXID /\ class[o].xmax = InvalidXID
  BY DEF Init, NoRow
<1>5. DoubtInv /\ \A x \in Xids : fate[x] = "unassigned"
  BY <1>3 DEF DoubtInv, Init, DoubtInit, fate
<1>6. LiveInv /\ SnapInv
  BY <1>2, <1>5 DEF LiveInv, SnapInv, Knows, NewSession
<1>7. PendingInv
  BY <1>2 DEF PendingInv, InStatement, NewSession
<1>8. RowInv /\ TableInv /\ AnswerInv
  BY <1>3, <1>4 DEF RowInv, TableInv, AnswerInv, Row
<1>9. GapInv
  <2>1. FirstNormalXID \in FirstNormalXID .. MaxXid + 1
    BY XidAssumption DEF FirstNormalXID
  <2>2. \A x \in Xids : ~(x < FirstNormalXID)
    BY DEF Xids, FirstNormalXID
  <2> QED
    BY <1>3, <2>1, <2>2 DEF GapInv
<1> QED
  BY <1>1, <1>5, <1>6, <1>7, <1>8, <1>9 DEF IndInv

\* Every step keeps it.
LEMMA NextInv ==
    ASSUME IndInv, [Next]_vars
    PROVE  IndInv'
  BY TypeStep, DoubtStep, LiveStep, RowStep, PendingStep, SnapStep, GapStep, TablesStep,
     AnswersStep DEF IndInv

\* IndInv holds for every number of sessions, tables and transactions.
THEOREM Inductive == Spec => []IndInv
  BY InitInv, NextInv, PTL DEF Spec

\* No transaction runs without a session that will end it, but one whose
\* Abort has failed.
THEOREM SessionsOwnRunning == Spec => []RunningHasSession
<1>1. IndInv => RunningHasSession
  <2> SUFFICES ASSUME IndInv, NEW x \in Xids
               PROVE  status[x] = "running" <=>
                         \/ x \in stuck
                         \/ \E s \in Sessions : /\ ss[s].tx = x /\ ~ss[s].failed
                                               /\ ss[s].pc \notin {"committed", "aborted"}
                                               /\ \A t \in Sessions \ {s} : ss[t].tx # x
    BY DEF RunningHasSession
  <2>1. LiveInv /\ TypeInv /\ DoubtInv /\ x # NoTx /\ \A s \in Sessions : Knows(s)
    BY TxIsXid DEF IndInv, LiveInv
  <2>2. \A s \in Sessions : ss[s].tx = x =>
          (fate[x] = "running" <=> ~ss[s].failed /\ ss[s].pc \notin {"committed", "aborted"})
    BY <2>1 DEF Knows, Verdict
  <2>3. \A s \in Sessions : ss[s].tx = x => \A t \in Sessions \ {s} : ss[t].tx # x
    BY <2>1 DEF LiveInv
  <2>4. fate[x] = "running" => \E s \in Sessions : ss[s].tx = x
    BY <2>1 DEF LiveInv
  <2>5. status[x] = "running" <=> x \in stuck \/ fate[x] = "running"
    BY <2>1 DEF fate, DoubtInv
  <2> QED
    BY <2>2, <2>3, <2>4, <2>5
<1> QED
  BY <1>1, Inductive, PTL

\* The client is told the verdict, for good, whatever calls fail: a COMMIT
\* or ROLLBACK answered is never undone by a crash, unless a Commit of the
\* transaction had been cut short and left it in doubt.
THEOREM AnswersStand == Spec => []AnswerIsVerdict
<1>1. IndInv => AnswerIsVerdict
  BY FateType DEF IndInv, AnswerInv, AnswerIsVerdict
<1> QED
  BY <1>1, Inductive, PTL

\* A table that can be seen has its file.
THEOREM TablesHaveFiles == Spec => []TableHasFile
<1>1. IndInv => TableHasFile
  <2> SUFFICES ASSUME IndInv, NEW o \in Oids, Row(o),
                      StatusOf(class[o].xmin) # "aborted", class[o].xmin \notin stuck,
                      class[o].xmax = InvalidXID \/ StatusOf(class[o].xmax) # "committed"
               PROVE  o \in files \cup bereft
    BY DEF TableHasFile
  <2>1. TypeInv /\ DoubtInv /\ TableInv
    BY DEF IndInv
  <2>2. class[o].xmin \in XidOrNone /\ class[o].xmax \in XidOrNone
    BY <2>1 DEF TypeInv, Rows
  <2>3. class[o].xmin \in Xids /\ (class[o].xmax # InvalidXID => class[o].xmax \in Xids)
    BY <2>2 DEF Row, XidOrNone
  <2>4. /\ StatusOf(class[o].xmin) = status[class[o].xmin]
        /\ class[o].xmax # InvalidXID => StatusOf(class[o].xmax) = status[class[o].xmax]
    BY <2>2, StatusOfXid DEF Row
  <2>5. fate[class[o].xmin] # "aborted"
    BY <2>1, <2>3, <2>4, FateType
  <2>6. class[o].xmax = InvalidXID \/ fate[class[o].xmax] # "committed"
    BY <2>1, <2>3, <2>4, FateType
  <2> QED
    BY <2>1, <2>5, <2>6 DEF TableInv, Doomed
<1> QED
  BY <1>1, Inductive, PTL


-----------------------------------------------------------------------------
(* Snapshots: what a step may do to one.                                   *)

FitsStep(s) ==
    LET a == ss[s]  b == ss'[s] IN
        /\ b.snap # NoSnap => b.snap.xid = b.tx
        /\ a.snap # NoSnap /\ b.tx = a.tx /\ a.isolation = "RepeatableRead" => b.snap = a.snap
        /\ a.pc = "snapshot" /\ b.pc = "run" /\ a.isolation = "ReadCommitted" =>
              \A x \in Xids : status[x] = "committed" => ~InProgressFor(b.snap, x)

\* A snapshot taken now takes in everything that has committed.
LEMMA TakesCommitted ==
    ASSUME TypeInv, GapInv, NEW tx, NEW x \in Xids, status[x] = "committed"
    PROVE  ~InProgressFor(Take(tx), x)
<1>1. x < NextXid /\ NextXid \in Int
  BY NextIsFree DEF FirstNormalXID
<1>2. Take(tx).xmax = NextXid /\ Take(tx).xip = Running \ {tx}
  BY DEF Take
<1>3. x \notin Running /\ x \in Int
  BY DEF Running, Xids
<1> QED
  BY <1>1, <1>2, <1>3 DEF InProgressFor

\* Only TakeSnapshot gives a transaction another snapshot.
LEMMA SameSnap ==
    ASSUME SnapInv', NEW s \in Sessions,
           \/ ss'[s].snap = ss[s].snap \/ (ss'[s].tx = NoTx /\ ss[s].tx # NoTx)
           \/ ss[s].snap = NoSnap,
           ss[s].pc # "snapshot" \/ ss'[s].pc # "run"
    PROVE  FitsStep(s)
  BY DEF FitsStep, SnapInv

\* What SnapshotFits says of one session, for every step.
LEMMA FitsAll ==
    ASSUME IndInv, IndInv', [Next]_vars, NEW t \in Sessions
    PROVE  FitsStep(t)
<1>0. TypeInv /\ SnapInv /\ SnapInv' /\ GapInv
  BY DEF IndInv
<1>1. ASSUME NEW s \in Sessions, NEW tx, NEW failed, NEW pc, NEW oid, NEW snap,
             Moves(s, tx, failed, pc, oid, snap), ss[s].pc # "snapshot" \/ pc # "run",
             snap = ss[s].snap \/ (tx = NoTx /\ ss[s].tx # NoTx) \/ ss[s].snap = NoSnap
      PROVE  FitsStep(t)
  <2>1. CASE t = s
    BY <1>0, <1>1, <2>1, SameSnap DEF Moves
  <2>2. CASE t # s
    <3>1. ss'[t] = ss[t]
      BY <1>1, <2>2 DEF Moves
    <3>2. ss[t].pc # "snapshot" \/ ss'[t].pc # "run"
      BY <3>1
    <3> QED
      BY <1>0, <3>1, <3>2, SameSnap
  <2> QED
    BY <2>1, <2>2
<1>2. ASSUME NEW s \in Sessions, GoesOn(s) PROVE FitsStep(t)
  <2>1. PICK pc \in Pcs, oid \in Oids \cup {NoOid}, snap \in {ss[s].snap, Take(ss[s].tx)} :
          /\ Moves(s, ss[s].tx, ss[s].failed, pc, oid, snap)
          /\ snap # ss[s].snap => ~KeepsSnap(s)
          /\ ss[s].pc = "snapshot" /\ pc = "run" =>
                snap = IF KeepsSnap(s) THEN ss[s].snap ELSE Take(ss[s].tx)
    BY <1>2 DEF GoesOn
  <2>2. CASE t = s
    <3>1. ss'[s].snap = snap /\ ss'[s].tx = ss[s].tx /\ ss'[s].pc = pc
      BY <2>1 DEF Moves
    <3>2. snap # NoSnap => snap.xid = ss[s].tx
      BY <1>0, <3>1 DEF SnapInv
    <3>3. ss[s].snap # NoSnap /\ ss[s].isolation = "RepeatableRead" => snap = ss[s].snap
      BY <2>1 DEF KeepsSnap
    <3>4. ASSUME ss[s].pc = "snapshot", pc = "run", ss[s].isolation = "ReadCommitted"
          PROVE  snap = Take(ss[s].tx)
      BY <2>1, <3>4 DEF KeepsSnap
    <3>5. \A x \in Xids : status[x] = "committed" => ~InProgressFor(Take(ss[s].tx), x)
      BY <1>0, TakesCommitted
    <3> QED
      BY <2>2, <3>1, <3>2, <3>3, <3>4, <3>5 DEF FitsStep
  <2>3. CASE t # s
    <3>1. ss'[t] = ss[t]
      BY <2>1, <2>3 DEF Moves
    <3>2. ss[t].pc # "snapshot" \/ ss'[t].pc # "run"
      BY <3>1
    <3> QED
      BY <1>0, <3>1, <3>2, SameSnap
  <2> QED
    BY <2>2, <2>3
<1>3. ASSUME NEW s \in Sessions, Begins(s) PROVE FitsStep(t)
  <2>1. PICK x \in Xids, pc \in {"idle", "snapshot"} :
           Moves(s, x, ss[s].failed, pc, ss[s].oid, ss[s].snap)
    BY <1>3 DEF Begins
  <2>2. pc # "run"
    BY <2>1
  <2> QED
    BY <1>1, <2>1, <2>2
<1>4. ASSUME NEW s \in Sessions, Finishes(s) PROVE FitsStep(t)
  <2>1. PICK pc \in {"idle", "committed", "aborted"}, failed \in BOOLEAN,
             oid \in Oids \cup {NoOid} :
           Moves(s, ss[s].tx, failed, pc, oid, ss[s].snap)
    BY <1>4 DEF Finishes
  <2>2. pc # "run"
    BY <2>1
  <2> QED
    BY <1>1, <2>1, <2>2
<1>5. ASSUME NEW s \in Sessions, EndFailedBlock(s) \/ OnDisk(s)
      PROVE  FitsStep(t)
  <2>1. PICK pc \in {"aborted", "row", "idle", "flush"}, failed \in {FALSE, ss[s].failed},
             oid \in {ss[s].oid, nextOid, NoOid} :
           Moves(s, ss[s].tx, failed, pc, oid, ss[s].snap)
    BY <1>0, <1>5, EndFailedBlockMoves, CreateFileMoves, WriteRowMoves, DropRowMoves DEF OnDisk
  <2>2. pc # "run"
    BY <2>1
  <2> QED
    BY <1>1, <2>1, <2>2
<1>6. ASSUME NEW s \in Sessions, EndTransaction(s) PROVE FitsStep(t)
  <2>1. CASE ss[s].failed
    <3>1. PICK failed \in {TRUE}, pc \in {"idle"} : Moves(s, ss[s].tx, failed, pc, ss[s].oid, ss[s].snap)
      BY <1>0, <1>6, <2>1, EndMoves
    <3>2. pc # "run"
      BY <3>1
    <3> QED
      BY <1>1, <3>1, <3>2
  <2>2. CASE ~ss[s].failed
    <3>1. Moves(s, NoTx, FALSE, "idle", NoOid, NoSnap)
      BY <1>0, <1>6, <2>2, EndMoves
    <3>2. ss[s].tx # NoTx \/ ss[s].snap = NoSnap
      BY <1>0 DEF SnapInv
    <3> QED
      BY <1>1, <3>1, <3>2
  <2> QED
    BY <2>1, <2>2
<1>7. CASE Crash
  <2>1. ss'[t].snap = NoSnap /\ ss'[t].tx = NoTx /\ ss'[t].pc = "idle"
    BY <1>7 DEF Crash, NewSession
  <2>2. ss[t].tx # NoTx \/ ss[t].snap = NoSnap
    BY <1>0 DEF SnapInv
  <2> QED
    BY <1>0, <2>1, <2>2, SameSnap
<1>8. ASSUME ss' = ss PROVE FitsStep(t)
  <2>1. ss[t].pc # "snapshot" \/ ss'[t].pc # "run"
    BY <1>8
  <2> QED
    BY <1>0, <1>8, <2>1, SameSnap
<1>9. ASSUME NEW s \in Sessions, RemoveFileFails(s) PROVE FitsStep(t)
  <2>1. ss[s].pc # "run"
    BY <1>9 DEF RemoveFileFails, At
  <2> QED
    BY <1>0, <1>1, <1>9, <2>1, RemoveFailsMoves
<1>10. ASSUME NEW s \in Sessions, RemoveFile(s) \/ WriteBit(s) PROVE ss' = ss
  BY <1>10 DEF RemoveFile, WriteBit
<1> QED
  BY <1>2, <1>3, <1>4, <1>5, <1>6, <1>7, <1>8, <1>9, <1>10, StepKinds, Frames DEF Ending, Removing

\* Every statement reads with a snapshot that fits its block.
THEOREM SnapshotsFit == Spec => SnapshotFits
<1>1. IndInv /\ IndInv' /\ [Next]_vars =>
        [\A s \in Sessions : LET a == ss[s]  b == ss'[s] IN
          /\ b.snap # NoSnap => b.snap.xid = b.tx
          /\ a.snap # NoSnap /\ b.tx = a.tx /\ a.isolation = "RepeatableRead" => b.snap = a.snap
          /\ a.pc = "snapshot" /\ b.pc = "run" /\ a.isolation = "ReadCommitted" =>
                \A x \in Xids : status[x] = "committed" => ~InProgressFor(b.snap, x)]_vars
  BY FitsAll DEF FitsStep
<1> QED
  BY <1>1, Inductive, PTL DEF Spec, SnapshotFits


-----------------------------------------------------------------------------
(* Files and what will become of them.                                     *)

\* Who made or removed a file can still be told after most steps.
LEMMA LeftoverKeeps ==
    ASSUME TypeInv, PendingInv, LeftoverInv, Monotone, NEW s \in Sessions,
           UNCHANGED <<class, files, stray, pending, crashes>>,
           NEW tx, NEW failed, NEW pc, NEW oid, NEW snap, Moves(s, tx, failed, pc, oid, snap),
           tx = ss[s].tx \/ ss[s].tx = NoTx,
           ss[s].pc = "row" => (pc = "row" /\ oid = ss[s].oid) \/ fate'[ss[s].tx] = "aborted"
    PROVE  LeftoverInv'
<1> SUFFICES ASSUME crashes = 0, NEW o \in files \ stray PROVE Made(o)' /\ Kept(o)'
  BY DEF LeftoverInv
<1>1. Made(o) /\ Kept(o) /\ o \in Oids
  BY DEF LeftoverInv, TypeInv
<1>2. \A x \in Xids : fate[x] \in Ended => fate'[x] = fate[x]
  BY DEF Monotone
<1>3. /\ class[o].xmin # InvalidXID => class[o].xmin \in Xids
      /\ class[o].xmax # InvalidXID => class[o].xmax \in Xids
  BY <1>1 DEF TypeInv, Rows, XidOrNone
<1>4. Row(o)' = Row(o)
  BY DEF Row
<1>5. ASSUME NEW t \in Sessions, pending[t] # {}
      PROVE  ss[t].tx \in Xids /\ ss'[t].tx = ss[t].tx
  BY <1>5, TxIsXid DEF PendingInv, Noted, Moves
<1>6. ASSUME NEW t \in Sessions, MadeBy(t, o) PROVE MadeBy(t, o)'
  <2>1. ss[t].tx \in Xids /\ ss'[t].tx = ss[t].tx
    BY <1>5, <1>6 DEF MadeBy
  <2>2. fate[ss[t].tx] = "aborted" => fate'[ss[t].tx] = "aborted"
    BY <1>2, <2>1 DEF Ended
  <2>3. ss[t].pc = "row" /\ ss[t].oid = o =>
           \/ ss'[t].pc = "row" /\ ss'[t].oid = o
           \/ fate'[ss[t].tx] = "aborted"
    <3>1. CASE t = s
      BY <3>1 DEF Moves
    <3>2. CASE t # s
      BY <3>2 DEF Moves
    <3> QED
      BY <3>1, <3>2
  <2> QED
    BY <1>4, <1>6, <2>1, <2>2, <2>3 DEF MadeBy
<1>7. ASSUME NEW t \in Sessions, RemovedBy(t, o) PROVE RemovedBy(t, o)'
  BY <1>5, <1>7 DEF RemovedBy
<1>8. Made(o)'
  BY <1>1, <1>2, <1>3, <1>4, <1>6 DEF Made, Row, Ended
<1>9. Kept(o)'
  BY <1>1, <1>2, <1>3, <1>7 DEF Kept, Ended
<1> QED
  BY <1>8, <1>9

\* The creator of a file has it noted.
LEMMA LeftoverCreates ==
    ASSUME IndInv, LeftoverInv, NEW s \in Sessions, CreateFile(s)
    PROVE  LeftoverInv'
<1>00. PICK n : n = nextOid
  OBVIOUS
<1>0. TypeInv /\ RowInv
  BY DEF IndInv
<1>1. /\ UNCHANGED <<fate, class, crashes, stray>>
      /\ n \in Oids /\ files' = files \cup {n}
  BY <1>00, Frames, Working DEF OnDisk
<1>2. Moves(s, ss[s].tx, ss[s].failed, "row", n, ss[s].snap)
  BY <1>00, <1>0, CreateFileMoves
<1>3. /\ Created(n) \in pending'[s]
      /\ \A t \in Sessions : pending[t] \subseteq pending'[t]
  BY <1>00, <1>0 DEF CreateFile, TypeInv
<1>4. ss'[s].pc = "row" /\ ss'[s].oid = n /\ \A t \in Sessions : ss'[t].tx = ss[t].tx
  BY <1>2 DEF Moves
<1>5. \A t \in Sessions : ss[t].pc = "row" => ss'[t] = ss[t]
  BY <1>2 DEF CreateFile, At, Moves
<1>6. class[n].xmax = InvalidXID
  BY <1>00, <1>0, <1>1 DEF RowInv, Oids
<1>7. Made(n)' /\ Kept(n)'
  BY <1>1, <1>3, <1>4, <1>6 DEF Made, MadeBy, Kept
<1>8. \A o : Row(o)' = Row(o)
  BY <1>1 DEF Row
<1>9. ASSUME NEW o \in files \ stray, Made(o) PROVE Made(o)'
  BY <1>1, <1>3, <1>4, <1>5, <1>8, <1>9 DEF Made, MadeBy
<1>10. ASSUME NEW o \in files \ stray, Kept(o) PROVE Kept(o)'
  BY <1>1, <1>3, <1>4, <1>10 DEF Kept, RemovedBy
<1> QED
  BY <1>1, <1>7, <1>9, <1>10 DEF LeftoverInv

\* The row takes over from the statement that wrote it.
LEMMA LeftoverWrites ==
    ASSUME IndInv, LeftoverInv, NEW s \in Sessions, WriteRow(s)
    PROVE  LeftoverInv'
<1>00. PICK w : w = ss[s].oid
  OBVIOUS
<1>0. TypeInv
  BY DEF IndInv
<1>1. /\ w \in Oids /\ Created(w) \in pending[s]
      /\ class'[w].xmin = ss[s].tx /\ class'[w].xmax = InvalidXID
      /\ \A p \in Oids \ {w} : class'[p] = class[p]
  BY <1>00, WrittenRow
<1>2. UNCHANGED <<fate, files, stray, pending, crashes>> /\ files \subseteq Oids
  BY <1>0, Frames, Working DEF TypeInv, OnDisk
<1>3. PICK pc \in {"idle", "flush"} : Moves(s, ss[s].tx, ss[s].failed, pc, NoOid, ss[s].snap)
  BY <1>0, WriteRowMoves
<1>4. \A t \in Sessions : ss'[t].tx = ss[t].tx /\ (t # s => ss'[t] = ss[t])
  BY <1>3 DEF Moves
<1>5. ss[s].tx # InvalidXID
  BY <1>0, Working, TxIsXid DEF NoTx, InvalidXID, OnDisk
<1>6. \A t \in Sessions, o \in Oids \ {w} : ss[t].oid = o => t # s
  BY <1>00
<1>7. Made(w)' /\ Kept(w)'
  <2>1. Row(w)'
    BY <1>1, <1>5 DEF Row
  <2>2. MadeBy(s, w)'
    BY <1>1, <1>2, <2>1 DEF MadeBy
  <2> QED
    BY <1>1, <2>2 DEF Made, Kept
<1>8. ASSUME NEW o \in files \ (stray \cup {w}), Made(o) PROVE Made(o)'
  <2>1. class'[o] = class[o] /\ Row(o)' = Row(o) /\ o \in Oids \ {w}
    BY <1>1, <1>2, <1>8 DEF Row
  <2>2. \A t \in Sessions : MadeBy(t, o) => MadeBy(t, o)'
    BY <1>2, <1>4, <1>6, <2>1 DEF MadeBy
  <2> QED
    BY <1>2, <1>8, <2>1, <2>2 DEF Made
<1>9. ASSUME NEW o \in files \ (stray \cup {w}), Kept(o) PROVE Kept(o)'
  <2>1. class'[o] = class[o]
    BY <1>1, <1>2, <1>9
  <2> QED
    BY <1>2, <1>4, <1>9, <2>1 DEF Kept, RemovedBy
<1> QED
  BY <1>2, <1>7, <1>8, <1>9 DEF LeftoverInv

\* Whoever marks a row has its file noted.
LEMMA LeftoverDrops ==
    ASSUME IndInv, LeftoverInv, NEW s \in Sessions, DropRow(s)
    PROVE  LeftoverInv'
<1>00. PICK d : d = ss[s].oid
  OBVIOUS
<1>0. TypeInv
  BY DEF IndInv
<1>1. /\ d \in Oids /\ class'[d].xmax = ss[s].tx
      /\ \A p \in Oids \ {d} : class'[p] = class[p]
      /\ \A p \in Oids : class'[p].xmin = class[p].xmin
      /\ pending'[s] = pending[s] \cup {Removed(d)}
      /\ \A t \in Sessions \ {s} : pending'[t] = pending[t]
  BY <1>00, MarkedRow
<1>2. UNCHANGED <<fate, files, stray, crashes>> /\ files \subseteq Oids
  BY <1>0, Frames, Working DEF TypeInv, OnDisk
<1>3. PICK pc \in {"idle", "flush"} : Moves(s, ss[s].tx, ss[s].failed, pc, NoOid, ss[s].snap)
  BY <1>0, DropRowMoves
<1>4. ss[s].pc = "drop" /\ \A t \in Sessions : ss'[t].tx = ss[t].tx /\ (t # s => ss'[t] = ss[t])
  BY <1>3 DEF Moves, DropRow, At
<1>5. \A t \in Sessions : pending[t] \subseteq pending'[t]
  BY <1>1
<1>6. ASSUME NEW o \in files \ stray, Made(o) PROVE Made(o)'
  <2>1. class'[o].xmin = class[o].xmin /\ Row(o)' = Row(o)
    BY <1>1, <1>2 DEF Row
  <2>2. \A t \in Sessions : MadeBy(t, o) => MadeBy(t, o)'
    BY <1>2, <1>4, <1>5, <2>1 DEF MadeBy
  <2> QED
    BY <1>2, <1>6, <2>1, <2>2 DEF Made
<1>7. RemovedBy(s, d)'
  BY <1>1, <1>4 DEF RemovedBy
<1>8. ASSUME NEW o \in files \ (stray \cup {d}), Kept(o) PROVE Kept(o)'
  <2>1. class'[o] = class[o]
    BY <1>1, <1>2, <1>8
  <2> QED
    BY <1>2, <1>4, <1>5, <1>8, <2>1 DEF Kept, RemovedBy
<1> QED
  BY <1>2, <1>6, <1>7, <1>8 DEF LeftoverInv, Kept

\* A note goes with its own file, or marks it as stray.
LEMMA LeftoverRemoves ==
    ASSUME IndInv, LeftoverInv, NEW s \in Sessions, Removing(s)
    PROVE  LeftoverInv'
<1>0. TypeInv
  BY DEF IndInv
<1>1. PICK f \in Matching(s) : /\ files' \ stray' \subseteq (files \ stray) \ {f.oid}
                               /\ pending' = [pending EXCEPT ![s] = pending[s] \ {f}]
  BY DEF Removing, RemoveFile, RemoveFileFails, diskVars
<1>2. UNCHANGED <<fate, class, crashes>>
  BY Frames, OthersStill, StillFate
<1>a. \A t \in Sessions : ss'[t].tx = ss[t].tx /\ ss'[t].pc = ss[t].pc /\ ss'[t].oid = ss[t].oid
  BY <1>0, RemoveFailsMoves DEF Removing, RemoveFile, Moves
<1>3. \A t \in Sessions : \A g \in pending[t] : g.oid # f.oid => g \in pending'[t]
  BY <1>0, <1>1 DEF TypeInv
<1>4. ASSUME NEW o \in files' \ stray'
      PROVE  Created(o).oid # f.oid /\ Removed(o).oid # f.oid /\ o \in files \ stray
  BY <1>1, <1>4 DEF Created, Removed
<1>5. \A o : Row(o)' = Row(o)
  BY <1>2 DEF Row
<1>6. ASSUME NEW o \in files' \ stray', Made(o) PROVE Made(o)'
  BY <1>2, <1>3, <1>4, <1>5, <1>6, <1>a DEF Made, MadeBy
<1>7. ASSUME NEW o \in files' \ stray', Kept(o) PROVE Kept(o)'
  BY <1>2, <1>3, <1>4, <1>7, <1>a DEF Kept, RemovedBy
<1> QED
  BY <1>2, <1>4, <1>6, <1>7 DEF LeftoverInv

\* When no matching note is left, a created file has a committed row and a
\* marked row an aborted deleter.
LEMMA LeftoverEnds ==
    ASSUME IndInv, LeftoverInv, NEW s \in Sessions, EndTransaction(s)
    PROVE  LeftoverInv'
<1>0. TypeInv /\ PendingInv /\ Knows(s) /\ files \subseteq Oids
  BY DEF IndInv, LiveInv, TypeInv
<1>1. UNCHANGED <<fate, class, files, stray, crashes>>
  BY Frames, OthersStill, StillFate DEF Ending
<1>2. \A t \in Sessions \ {s} : ss'[t] = ss[t] /\ pending'[t] = pending[t]
  <2>1. pending' = [pending EXCEPT ![s] = {}]
    BY DEF EndTransaction
  <2> QED
    BY <1>0, <2>1, EndMoves DEF Moves, TypeInv
<1>3. ss[s].pc \in {"committed", "aborted"} /\ Matching(s) = {}
  BY DEF EndTransaction, At
<1>4. \A o : Row(o)' = Row(o)
  BY <1>1 DEF Row
<1>5. ASSUME NEW o \in files \ stray, MadeBy(s, o) PROVE Row(o) /\ fate[class[o].xmin] = "committed"
  <2>1. Created(o) \in pending[s] /\ Created(o).oid = o /\ Created(o).atCommit = FALSE
    BY <1>5 DEF MadeBy, Created
  <2>2. ss[s].pc = "committed"
    BY <1>3, <2>1 DEF Matching
  <2>3. Noted(s, Created(o))
    BY <1>0, <2>1 DEF PendingInv
  <2>4. ss[s].tx # NoTx /\ fate[ss[s].tx] = "committed" /\ (Row(o) => class[o].xmin = ss[s].tx)
    BY <1>0, <2>1, <2>2, <2>3 DEF Noted, Knows, Verdict
  <2> QED
    BY <1>5, <2>2, <2>4 DEF MadeBy
<1>6. ASSUME NEW o \in files \ stray, RemovedBy(s, o) PROVE fate[class[o].xmax] = "aborted"
  <2>1. Removed(o) \in pending[s] /\ Removed(o).atCommit = TRUE /\ ss[s].tx = class[o].xmax
    BY <1>6 DEF RemovedBy, Removed
  <2>2. ss[s].pc = "aborted"
    BY <1>3, <2>1 DEF Matching
  <2>3. ss[s].tx # NoTx
    BY <1>0, <2>1 DEF PendingInv, Noted
  <2> QED
    BY <1>0, <2>1, <2>2, <2>3 DEF Knows, Verdict
<1>7. ASSUME NEW o \in files \ stray, Made(o) PROVE Made(o)'
  BY <1>1, <1>2, <1>4, <1>5, <1>7 DEF Made, MadeBy
<1>8. ASSUME NEW o \in files \ stray, Kept(o) PROVE Kept(o)'
  BY <1>1, <1>2, <1>6, <1>8 DEF Kept, RemovedBy
<1> QED
  BY <1>1, <1>7, <1>8 DEF LeftoverInv

\* Whose a file is can be told after every step without a crash.
LEMMA LeftoverStep ==
    ASSUME IndInv, LeftoverInv, [Next]_vars
    PROVE  LeftoverInv'
<1>0. TypeInv /\ DoubtInv /\ PendingInv /\ (Monotone \/ Crash)
  BY CertainStep DEF IndInv
<1>a. ASSUME Crash PROVE LeftoverInv'
  <2>1. crashes' # 0
    BY <1>0, <1>a DEF Crash, TypeInv
  <2> QED
    BY <2>1 DEF LeftoverInv
<1>1. ASSUME NEW s \in Sessions, GoesOn(s) PROVE LeftoverInv'
  <2>1. PICK pc \in Pcs, oid \in Oids \cup {NoOid}, snap \in {ss[s].snap, Take(ss[s].tx)} :
          /\ Moves(s, ss[s].tx, ss[s].failed, pc, oid, snap)
          /\ ss[s].pc = "row" => pc = "row" /\ oid = ss[s].oid
    BY <1>1 DEF GoesOn
  <2>2. UNCHANGED <<class, files, stray, pending, crashes>>
    BY <1>1, Frames
  <2> QED
    BY <1>0, <1>a, <2>1, <2>2, LeftoverKeeps
<1>2. ASSUME NEW s \in Sessions, Begins(s) PROVE LeftoverInv'
  <2>1. PICK x \in Xids, pc \in {"idle", "snapshot"} :
           Moves(s, x, ss[s].failed, pc, ss[s].oid, ss[s].snap)
    BY <1>2 DEF Begins
  <2>2. UNCHANGED <<class, files, stray, pending, crashes>>
    BY <1>2, Frames
  <2>3. ss[s].tx = NoTx /\ ss[s].pc # "row"
    BY <1>2 DEF Begins, IndInv, LiveInv, Knows
  <2> QED
    BY <1>0, <1>a, <2>1, <2>2, <2>3, LeftoverKeeps
<1>3. ASSUME NEW s \in Sessions, Finishes(s) PROVE LeftoverInv'
  <2>1. PICK verdict \in Ended, pc \in {"idle", "committed", "aborted"}, failed \in BOOLEAN,
             oid \in Oids \cup {NoOid} :
          /\ fate' = [fate EXCEPT ![ss[s].tx] = verdict]
          /\ Moves(s, ss[s].tx, failed, pc, oid, ss[s].snap)
          /\ ss[s].pc = "row" => verdict = "aborted"
    BY <1>3 DEF Finishes
  <2>2. UNCHANGED <<class, files, stray, pending, crashes>>
    BY <1>3, Frames
  <2>3. fate'[ss[s].tx] = verdict
    BY <1>0, <1>3, <2>1, TxIsXid, FateType DEF Finishes
  <2> QED
    BY <1>0, <1>a, <2>1, <2>2, <2>3, LeftoverKeeps
<1>4. ASSUME NEW s \in Sessions, EndFailedBlock(s) PROVE LeftoverInv'
  <2>1. Moves(s, ss[s].tx, FALSE, "aborted", ss[s].oid, ss[s].snap)
    BY <1>0, <1>4, EndFailedBlockMoves
  <2>2. UNCHANGED <<class, files, stray, pending, crashes>>
    BY <1>4, Frames
  <2>3. ss[s].pc # "row"
    BY <1>4 DEF EndFailedBlock, At
  <2> QED
    BY <1>0, <1>a, <2>1, <2>2, <2>3, LeftoverKeeps
<1>5. ASSUME NEW s \in Sessions, WriteBit(s) PROVE LeftoverInv'
  BY <1>5, CutFate DEF LeftoverInv, Made, MadeBy, Kept, RemovedBy, Row, IndInv
<1>6. CASE UNCHANGED vars
  BY <1>6, Frames DEF LeftoverInv, Made, MadeBy, Kept, RemovedBy, Row
<1> QED
  BY <1>a, <1>1, <1>2, <1>3, <1>4, <1>5, <1>6, StepKinds,
     LeftoverCreates, LeftoverWrites, LeftoverDrops, LeftoverRemoves, LeftoverEnds
     DEF Ending, OnDisk

\* Without a crash, no file is left behind between transactions, but for
\* those whose Unlink has failed, however the statements and calls end.
THEOREM NothingLeft == Spec => []NoLeftoverFile
<1>1. Init => AllInv
  <2>1. Init => LeftoverInv
    BY DEF Init, LeftoverInv
  <2> QED
    BY <2>1, InitInv DEF AllInv
<1>2. AllInv /\ [Next]_vars => AllInv'
  BY NextInv, LeftoverStep DEF AllInv
<1>3. AllInv => NoLeftoverFile
  <2> SUFFICES ASSUME AllInv, crashes = 0, \A s \in Sessions : ss[s].tx = NoTx,
                      NEW o \in files \ stray
               PROVE  /\ Row(o) /\ StatusOf(class[o].xmin) = "committed"
                      /\ StatusOf(class[o].xmax) # "committed"
    BY DEF NoLeftoverFile
  <2>1. TypeInv /\ DoubtInv /\ PendingInv /\ Made(o) /\ Kept(o) /\ o \in Oids
    BY DEF AllInv, IndInv, LeftoverInv, TypeInv
  <2>2. \A s \in Sessions : pending[s] = {}
    BY <2>1 DEF PendingInv, Noted
  <2>3. class[o].xmin \in XidOrNone /\ class[o].xmax \in XidOrNone
    BY <2>1 DEF TypeInv, Rows
  <2>4. Row(o) /\ fate[class[o].xmin] = "committed"
    BY <2>1, <2>2 DEF Made, MadeBy
  <2>5. class[o].xmax = InvalidXID \/ fate[class[o].xmax] = "aborted"
    BY <2>1, <2>2 DEF Kept, RemovedBy
  <2>6. status[class[o].xmin] = "committed"
    BY <2>1, <2>3, <2>4, FateType DEF Row, XidOrNone
  <2>7. class[o].xmax = InvalidXID \/ status[class[o].xmax] # "committed"
    BY <2>1, <2>3, <2>5, FateType DEF XidOrNone
  <2> QED
    BY <2>3, <2>4, <2>6, <2>7, StatusOfXid DEF Row
<1> QED
  BY <1>1, <1>2, <1>3, PTL DEF Spec

-----------------------------------------------------------------------------
(* The log below the sessions.                                             *)

\* The sessions use the log as XactsInDoubt has it: what they do to it are
\* its steps, so that TxnManager's log can stand below them.
THEOREM SessionsUseXacts == Spec => DoubtSpec
<1>1. Init => DoubtInit
  BY DEF Init
<1>2. ASSUME IndInv, [Next]_vars PROVE [DoubtNext]_<<status, inDoubt>>
  <2>0. TypeInv /\ DoubtInv /\ LiveInv
    BY <1>2 DEF IndInv
  <2>1. ASSUME NEW s \in Sessions, Begins(s) PROVE DoubtNext
    BY <2>1 DEF Begins, DoubtNext
  <2>2. ASSUME NEW s \in Sessions, Finishes(s) PROVE [DoubtNext]_<<status, inDoubt>>
    <3>1. ss[s].tx \in Xids
      BY <2>0, <2>2, TxIsXid DEF Finishes
    <3> QED
      BY <2>2, <3>1 DEF Finishes, Ends, Ended, DoubtNext
  <2>3. ASSUME NEW s \in Sessions, WriteBit(s) PROVE DoubtNext
    BY <1>2, <2>3, CutFate DEF WriteBit, DoubtNext
  <2>4. CASE Crash
    <3> DEFINE AtBit == {ss[s].tx : s \in {s \in Sessions : ss[s].pc = "bit"}}
    <3>1. PICK C \in SUBSET (inDoubt \cup AtBit) :
            /\ \A x, y \in C \ inDoubt : x = y
            /\ status' = [x \in Xids |-> IF status[x] # "running" /\ x \notin inDoubt THEN status[x]
                                         ELSE IF x \in C THEN "committed" ELSE "aborted"]
      BY <2>4, Zenon DEF Crash
    <3>2. inDoubt' = inDoubt
      BY <2>4 DEF Crash
    <3>3. AtBit \subseteq Running
      <4> SUFFICES ASSUME NEW s \in Sessions, ss[s].pc = "bit" PROVE ss[s].tx \in Running
        OBVIOUS
      <4>1. Knows(s)
        BY <2>0 DEF LiveInv
      <4>2. ss[s].tx # NoTx /\ fate[ss[s].tx] = "running"
        BY <4>1 DEF Knows, Verdict
      <4> QED
        BY <2>0, <4>2, TxIsXid, FateType DEF Running
    <3> HIDE DEF AtBit
    <3>4. inDoubt \subseteq Assigned /\ Running \subseteq Assigned
      BY <2>0 DEF DoubtInv, TypeInv, Assigned, Running
    <3>5. C \in SUBSET Assigned
      BY <3>3, <3>4
    <3>6. status' = [x \in Xids |-> IF x \in Running \/ (x \in inDoubt' /\ x \in Assigned)
                                    THEN IF x \in C THEN "committed" ELSE "aborted"
                                    ELSE status[x]]
      BY <3>1, <3>2, <3>4 DEF Running
    <3>7. \A x, y \in (C \cap Running) \ inDoubt' : x = y
      BY <3>1, <3>2
    <3>8. DoubtRestart
      BY <3>2, <3>5, <3>6, <3>7 DEF DoubtRestart
    <3> QED
      BY <3>8 DEF DoubtNext
  <2>5. ASSUME Still PROVE UNCHANGED <<status, inDoubt>>
    BY <2>5 DEF Still
  <2>6. CASE UNCHANGED vars
    BY <2>6, Frames
  <2> QED
    BY <1>2, <2>1, <2>2, <2>3, <2>4, <2>5, <2>6, StepKinds, OthersStill
<1> QED
  BY <1>1, <1>2, Inductive, PTL DEF Spec, DoubtSpec

=============================================================================

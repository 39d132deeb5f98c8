--------------------------- MODULE MvccHeapProofs ---------------------------
(***************************************************************************)
(* The isolation MvccHeap promises, for every number of transactions,      *)
(* versions and workloads.  IndInv is the inductive invariant: what the    *)
(* tuples say of the transactions that wrote them, what a snapshot says of *)
(* the moment it was taken, and how far each session's statement has got.  *)
(* CountInv, on top of it, is about the versions of one row: there is one  *)
(* at a time, and its value counts the updates made to it.                 *)
(***************************************************************************)
EXTENDS MvccHeap, TLAPS, WellFoundedInduction, SequenceTheorems, FiniteSetTheorems

Levels == {"ReadCommitted", "RepeatableRead"}
Kinds  == {"select", "insert", "update", "delete"}
Quals  == {"any", "untouched"}
Pcs    == {"off", "idle", "scan", "hints", "next", "lock", "check", "insert", "stamp",
           "bury", "conflict", "recheck", "error"}

Names  == Xids \cup {InvalidXID, FrozenXID}
Tuples == [row : Nat, val : Nat, xmin : Xids \cup {FrozenXID}, xmax : Xids \cup {InvalidXID},
           ctid : Nat, hints : SUBSET HintBits]
Hints  == [xmin : Names, xmax : Names, add : SUBSET HintBits]
Procs  == [pc : Pcs, kind : Kinds, qual : Quals, pos : Nat, nblocks : Nat, out : SUBSET Nat,
           hint : Hints, todo : SUBSET Nat, target : Nat, new : Nat, wait : Nat]
Snaps  == [xmin : Nat, xmax : Nat, xip : SUBSET Xids, xid : Nat]

TypeInv ==
    /\ status \in [Xids -> Statuses]
    /\ heap \in Seq(Tuples)
    /\ iso \in [Xids -> Levels]
    /\ snap \in [Xids -> Snaps]
    /\ proc \in [Xids -> Procs]
    /\ load \in Workloads
    /\ atSnap \in [Xids -> SUBSET DOMAIN heap]

\* IDs are handed out without gaps.
AssignedInv == \E n \in FirstNormalXID .. MaxXid + 1 : Assigned = FirstNormalXID .. n - 1

-----------------------------------------------------------------------------
(* The tuples.                                                             *)

\* What hint bits on a tuple with this xmin and xmax claim.
Truthful(xmin, xmax, bits) ==
    /\ "XminCommitted" \in bits => StatusOf(xmin) = "committed"
    /\ "XminInvalid"   \in bits => StatusOf(xmin) = "aborted"
    /\ "XmaxCommitted" \in bits => xmax # InvalidXID /\ StatusOf(xmax) = "committed"
    /\ "XmaxInvalid"   \in bits => xmax # InvalidXID /\ StatusOf(xmax) = "aborted"

\* A tuple names transactions that began, its hints are true, and while its
\* inserter runs nobody else has deleted it.
TupleInv(t) ==
    /\ StatusOf(t.xmin) # "unassigned" /\ StatusOf(t.xmax) # "unassigned"
    /\ Truthful(t.xmin, t.xmax, t.hints)
    /\ StatusOf(t.xmin) = "running" => t.xmax \in {InvalidXID, t.xmin}
    /\ t.ctid \in DOMAIN heap

HeapInv == \A i \in DOMAIN heap : TupleInv(heap[i])

-----------------------------------------------------------------------------
(* The snapshots.                                                          *)

\* Committed when snapshot s was taken.
Past(s, y) == y # s.xid /\ ~InProgressFor(s, y) /\ StatusOf(y) = "committed"

\* Whoever runs now, or will, counts as in progress, and the versions that
\* were live then are the ones the snapshot still takes for live.
SnapInv(x) ==
    /\ snap[x].xid = x /\ snap[x].xmin >= FirstNormalXID
    /\ \A y \in Xids \ {x} : status[y] \in {"running", "unassigned"} => InProgressFor(snap[x], y)
    /\ atSnap[x] = {i \in DOMAIN heap : Past(snap[x], heap[i].xmin) /\ ~Past(snap[x], heap[i].xmax)}

-----------------------------------------------------------------------------
(* The sessions.                                                           *)

\* The versions a statement of x may choose, and those its scan returns.
Chosen(x)   == {i \in DOMAIN heap : i \in atSnap[x] \/ heap[i].xmin = x}
Returned(x) == {i \in Chosen(x) : heap[i].xmax # x}

\* The blocks the scan has judged.
Judged(p) == {i \in 1 .. p.nblocks : i < p.pos \/ (p.pc = "hints" /\ i = p.pos)}

ScanFits(x, p) ==
    p.pc \in {"scan", "hints"} =>
        /\ p.pos \in 1 .. p.nblocks + 1 /\ p.nblocks <= Len(heap)
        /\ p.pc = "hints" => /\ p.pos <= p.nblocks
                             /\ Truthful(p.hint.xmin, p.hint.xmax, p.hint.add)
        /\ Chosen(x) \subseteq 1 .. p.nblocks
        /\ p.out = Returned(x) \cap Judged(p)

HasTarget(p) == \/ p.pc \in {"lock", "check", "stamp", "bury", "conflict", "recheck"}
                \/ p.pc = "insert" /\ p.kind # "insert"

\* What a statement has yet to write, and the version it inserted before it
\* knows whether it may stamp the old one.
WriteFits(x, p) ==
    /\ p.todo \subseteq Chosen(x) /\ \A i \in p.todo : Qual(p.qual, heap[i])
    /\ HasTarget(p) => /\ p.target \in DOMAIN heap
                       /\ iso[x] = "RepeatableRead" => p.target \in Chosen(x)
                       /\ p.pc \in {"lock", "check", "insert", "stamp"}
                             => Qual(p.qual, heap[p.target])
    /\ p.new # NoTid => /\ p.pc \in {"stamp", "bury"} /\ p.new # p.target
                        /\ p.new \in DOMAIN heap
                        /\ heap[p.new].xmin = x /\ heap[p.new].xmax = InvalidXID
    /\ p.pc = "bury" => p.new # NoTid

\* A session is in a transaction as long as the transaction runs, and has a
\* snapshot as long as it needs one.
SessionInv(x) ==
    /\ status[x] # "running" => proc[x] = Off /\ snap[x] = NoSnap
    /\ status[x] = "running" => proc[x].pc # "off"
    /\ proc[x].pc \notin {"off", "idle"} => snap[x] # NoSnap
    /\ snap[x] = NoSnap => atSnap[x] = {}

\* The versions a REPEATABLE READ transaction has deleted so far.
OwnDeletes(x) == status[x] = "running" /\ iso[x] = "RepeatableRead" =>
    \A i \in DOMAIN heap : heap[i].xmax = x => snap[x] # NoSnap /\ i \in Chosen(x)

ProcInv(x) == /\ snap[x] # NoSnap => SnapInv(x)
              /\ ScanFits(x, proc[x]) /\ WriteFits(x, proc[x])
              /\ SessionInv(x) /\ OwnDeletes(x)

IndInv == TypeInv /\ AssignedInv /\ HeapInv /\ \A x \in Xids : ProcInv(x)

-----------------------------------------------------------------------------
(* What a step of session x does to the tuples and to the others.          *)

\* A tuple keeps its row, value and inserter; it gets true hint bits, or x
\* deletes it over a deletion that came to nothing.
Rewritten(i, x) == LET t == heap[i] u == heap'[i] IN
    /\ u.row = t.row /\ u.val = t.val /\ u.xmin = t.xmin
    /\ \/ u.xmax = t.xmax /\ u.ctid = t.ctid /\ Truthful(t.xmin, t.xmax, u.hints)
       \/ /\ status[x] = "running" /\ u.xmax = x
          /\ StatusOf(t.xmax) = "aborted"
          /\ StatusOf(t.xmin) = "running" => t.xmin = x
          /\ u.hints = t.hints \ {"XmaxCommitted", "XmaxInvalid"}
          /\ u.ctid \in DOMAIN heap
          /\ i = proc[x].new \/ (proc[x].pc = "stamp" /\ i = proc[x].target)

Added(i, x) == LET u == heap'[i] IN
    u.xmin = x /\ u.xmax = InvalidXID /\ u.ctid \in DOMAIN heap' /\ u.hints = {}

Others(x) == \A z \in Xids \ {x} :
    /\ status'[z] = status[z] /\ proc'[z] = proc[z] /\ snap'[z] = snap[z]
    /\ atSnap'[z] = atSnap[z] /\ iso'[z] = iso[z]

HeapStep(x) ==
    /\ DOMAIN heap \subseteq DOMAIN heap'
    /\ \A i \in DOMAIN heap : Rewritten(i, x)
    /\ \A i \in DOMAIN heap' \ DOMAIN heap : Added(i, x)

StatusStep(x) ==
    \/ status' = status /\ status[x] = "running"
    \/ heap' = heap /\ \/ status[x] = "unassigned" /\ status'[x] = "running"
                       \/ status[x] = "running" /\ status'[x] \in {"committed", "aborted"}

Acts(x) == Others(x) /\ HeapStep(x) /\ StatusStep(x)

-----------------------------------------------------------------------------
(* Transactions, and what Take finds.                                      *)

LEMMA StatusOfXid ==
    ASSUME TypeInv
    PROVE  /\ StatusOf(InvalidXID) = "aborted" /\ StatusOf(FrozenXID) = "committed"
           /\ \A x \in Xids : StatusOf(x) = status[x] /\ x \in Nat /\ x >= FirstNormalXID
           /\ InvalidXID \notin Xids /\ FrozenXID \notin Xids
  BY XidAssumption DEF StatusOf, InvalidXID, FrozenXID, FirstNormalXID, Xids

\* NextXid is the ID after the last one assigned.
LEMMA NextXidIs ==
    ASSUME TypeInv, NEW n \in FirstNormalXID .. MaxXid + 1, Assigned = FirstNormalXID .. n - 1
    PROVE  NextXid = n
<1> DEFINE P(m) == /\ \A x \in Assigned : x < m
                   /\ m = FirstNormalXID \/ m - 1 \in Assigned
<1>1. P(n)
  BY XidAssumption DEF FirstNormalXID
<1>2. ASSUME NEW m \in FirstNormalXID .. MaxXid + 1, P(m) PROVE m = n
  <2>1. m \in Int /\ n \in Int /\ m >= 3 /\ n >= 3
    BY XidAssumption DEF FirstNormalXID
  <2>2. ~(m < n)
    BY <1>2, <2>1 DEF FirstNormalXID
  <2>3. ~(n < m)
    BY <1>2, <2>1 DEF FirstNormalXID
  <2> QED
    BY <2>1, <2>2, <2>3
<1> QED
  BY <1>1, <1>2 DEF NextXid

\* An induction goes through the first number that breaks a claim.
LEMMA SmallestOf ==
    ASSUME NEW S \in SUBSET Nat, S # {}
    PROVE  \E m \in S : \A y \in S : m <= y
<1> DEFINE Less == {p \in Nat \X Nat : p[1] < p[2]}
<1>1. IsWellFoundedOn(Less, Nat)
  BY NatLessThanWellFounded DEF OpToRel
<1> HIDE DEF Less
<1>2. PICK m \in S : \A y \in S : ~(<<y, m>> \in Less)
  BY <1>1, WFMin
<1>3. ASSUME NEW y \in S, ~(m <= y) PROVE FALSE
  <2> DEFINE p == <<y, m>>
  <2>1. p \in Nat \X Nat /\ p[1] < p[2]
    BY <1>3
  <2>2. p \in Less
    BY <2>1 DEF Less
  <2> QED
    BY <1>2, <2>2
<1> QED
  BY <1>3

\* A snapshot taken now counts as in progress exactly the others that have
\* not ended.
LEMMA TakeFits ==
    ASSUME TypeInv, AssignedInv, NEW x \in Xids, status[x] = "running"
    PROVE  /\ Take(x) \in Snaps /\ Take(x) # NoSnap
           /\ Take(x).xid = x /\ Take(x).xmin >= FirstNormalXID
           /\ \A y \in Xids \ {x} :
                 InProgressFor(Take(x), y) <=> status[y] \in {"running", "unassigned"}
<1>1. PICK n \in FirstNormalXID .. MaxXid + 1 : Assigned = FirstNormalXID .. n - 1
  BY DEF AssignedInv
<1>2. NextXid = n /\ n \in Nat /\ n >= FirstNormalXID
  BY <1>1, NextXidIs, XidAssumption DEF FirstNormalXID
<1>3. x \in Running /\ Running \subseteq Xids /\ Running \subseteq Nat
  BY StatusOfXid DEF Running
<1>4. PICK m \in Running : \A y \in Running : m <= y
  BY <1>3, SmallestOf
<1> DEFINE s == Take(x)
<1>5. s.xmin \in Running /\ \A y \in Running : s.xmin <= y
  <2>1. s.xmin = CHOOSE k \in Running : \A y \in Running : k <= y
    BY <1>3 DEF Take
  <2> QED
    BY <1>4, <2>1
<1>6. s.xmax = n /\ s.xip = Running \ {x} /\ s.xid = x
  BY <1>2 DEF Take
<1>7. s.xmin \in Nat /\ s.xmin >= FirstNormalXID /\ x # 0 /\ x \in Nat
  BY <1>3, <1>5, StatusOfXid DEF InvalidXID
<1>8. s \in Snaps
  <2>1. s = [xmin |-> s.xmin, xmax |-> s.xmax, xip |-> s.xip, xid |-> s.xid]
    BY DEF Take
  <2>2. s.xip \in SUBSET Xids
    BY <1>3, <1>6
  <2> QED
    BY <1>2, <1>6, <1>7, <2>1, <2>2 DEF Snaps
<1>9. s # NoSnap
  BY <1>6, <1>7 DEF NoSnap
<1>10. ASSUME NEW y \in Xids \ {x}
       PROVE  InProgressFor(s, y) <=> status[y] \in {"running", "unassigned"}
  <2>1. CASE status[y] = "running"
    <3>1. y \in Running
      BY <2>1 DEF Running
    <3> QED
      BY <1>5, <1>6, <1>7, <2>1, <3>1, StatusOfXid DEF InProgressFor
  <2>2. CASE status[y] = "unassigned"
    <3>1. y \notin Assigned /\ s.xmin \in Assigned
      BY <1>3, <1>5, <2>2 DEF Running, Assigned
    <3>2. y \in Nat /\ y >= FirstNormalXID
      BY StatusOfXid
    <3>3. y >= n /\ s.xmin < n
      BY <1>1, <1>2, <1>7, <3>1, <3>2 DEF FirstNormalXID
    <3> QED
      BY <1>2, <1>6, <1>7, <2>2, <3>2, <3>3 DEF InProgressFor
  <2>3. CASE status[y] \notin {"running", "unassigned"}
    <3>1. y \in Assigned /\ y \notin Running
      BY <2>3 DEF Running, Assigned
    <3>2. y < n /\ y \in Nat
      BY <1>1, <1>2, <3>1, StatusOfXid DEF FirstNormalXID
    <3> QED
      BY <1>2, <1>6, <2>3, <3>1, <3>2 DEF InProgressFor
  <2> QED
    BY <2>1, <2>2, <2>3
<1> QED
  BY <1>6, <1>7, <1>8, <1>9, <1>10

-----------------------------------------------------------------------------
(* Types.                                                                  *)

LEMMA HeapTypes ==
    ASSUME TypeInv
    PROVE  /\ DOMAIN heap = 1 .. Len(heap) /\ Len(heap) \in Nat
           /\ \A i \in DOMAIN heap : heap[i] \in Tuples /\ i \in Nat /\ i # NoTid
           /\ \A i \in DOMAIN heap : \A t \in Tuples :
                 LET h == [heap EXCEPT ![i] = t] IN
                 /\ h \in Seq(Tuples) /\ DOMAIN h = DOMAIN heap
                 /\ \A j \in DOMAIN heap : h[j] = IF j = i THEN t ELSE heap[j]
           /\ \A t \in Tuples :
                 LET h == Append(heap, t) IN
                 /\ h \in Seq(Tuples) /\ DOMAIN h = DOMAIN heap \cup {Len(heap) + 1}
                 /\ h[Len(heap) + 1] = t /\ \A j \in DOMAIN heap : h[j] = heap[j]
<1>1. heap \in Seq(Tuples)
  BY DEF TypeInv
<1>2. DOMAIN heap = 1 .. Len(heap) /\ Len(heap) \in Nat
  BY <1>1, LenProperties
<1>3. \A i \in DOMAIN heap : heap[i] \in Tuples /\ i \in Nat /\ i # NoTid
  BY <1>1, <1>2, ElementOfSeq DEF NoTid
<1>4. ASSUME NEW i \in DOMAIN heap, NEW t \in Tuples
      PROVE  LET h == [heap EXCEPT ![i] = t] IN
             /\ h \in Seq(Tuples) /\ DOMAIN h = DOMAIN heap
             /\ \A j \in DOMAIN heap : h[j] = IF j = i THEN t ELSE heap[j]
  BY <1>1, <1>2, ExceptSeq
<1>5. ASSUME NEW t \in Tuples
      PROVE  LET h == Append(heap, t) IN
             /\ h \in Seq(Tuples) /\ DOMAIN h = DOMAIN heap \cup {Len(heap) + 1}
             /\ h[Len(heap) + 1] = t /\ \A j \in DOMAIN heap : h[j] = heap[j]
  BY <1>1, <1>2
<1> QED
  BY <1>2, <1>3, <1>4, <1>5

\* The tuples the actions write.
LEMMA TupleTypes ==
    ASSUME TypeInv
    PROVE  /\ \A row, val, tid \in Nat, x \in Xids : NewTuple(row, val, x, tid) \in Tuples
           /\ \A t \in Tuples, x \in Xids, new \in Nat : Stamped(t, x, new) \in Tuples
           /\ \A t \in Tuples : t.row \in Nat /\ t.val \in Nat
<1>1. ASSUME NEW row \in Nat, NEW val \in Nat, NEW tid \in Nat, NEW x \in Xids
      PROVE  NewTuple(row, val, x, tid) \in Tuples
  BY DEF NewTuple, Tuples
<1>2. ASSUME NEW t \in Tuples, NEW x \in Xids, NEW new \in Nat
      PROVE  Stamped(t, x, new) \in Tuples
  BY DEF Stamped, Tuples
<1> QED
  BY <1>1, <1>2 DEF Tuples

LEMMA ProcTypes ==
    ASSUME TypeInv
    PROVE  /\ Off \in Procs /\ NoHint \in Hints /\ NoSnap \in Snaps
           /\ \A x \in Xids : proc[x] \in Procs /\ snap[x] \in Snaps /\ atSnap[x] \subseteq DOMAIN heap
  BY DEF TypeInv, Off, NoHint, NoSnap, Procs, Hints, Names, Snaps, Pcs, Kinds, Quals, NoTid, InvalidXID

LEMMA FieldTypes ==
    ASSUME NEW p \in Procs
    PROVE  /\ \A v \in Pcs : [p EXCEPT !.pc = v] \in Procs
           /\ \A v \in Nat : /\ [p EXCEPT !.pos = v] \in Procs
                             /\ [p EXCEPT !.target = v] \in Procs
                             /\ [p EXCEPT !.new = v] \in Procs
                             /\ [p EXCEPT !.wait = v] \in Procs
           /\ \A v \in SUBSET Nat : [p EXCEPT !.out = v] \in Procs /\ [p EXCEPT !.todo = v] \in Procs
           /\ \A v \in Hints : [p EXCEPT !.hint = v] \in Procs
           /\ p.pc \in Pcs /\ p.pos \in Nat /\ p.nblocks \in Nat /\ p.out \in SUBSET Nat
           /\ p.todo \in SUBSET Nat /\ p.target \in Nat /\ p.new \in Nat /\ p.hint \in Hints
  BY DEF Procs

-----------------------------------------------------------------------------
(* What the steps do.  Each lemma shows of one kind of step what the       *)
(* invariant needs: the types, what the others see, the session's part.    *)

\* Who is in a statement runs.
LEMMA InTransaction ==
    ASSUME IndInv, NEW x \in Xids, proc[x].pc # "off" \/ proc[x].wait # InvalidXID
    PROVE  status[x] = "running"
  BY DEF IndInv, ProcInv, SessionInv, Off

LEMMA LoadTypes ==
    ASSUME TypeInv
    PROVE  /\ load.levels \subseteq Levels /\ load.kinds \subseteq Kinds
           /\ load.quals \subseteq Quals
  BY HeapAssumption DEF TypeInv, Levels, Kinds, Quals

\* The session of x alone moves.
Alone(x, p) == Moves(x, p) /\ UNCHANGED <<status, heap, iso, snap, load, atSnap>>

LEMMA AloneKeeps ==
    ASSUME IndInv, NEW x \in Xids, status[x] = "running", NEW p \in Procs, Alone(x, p),
           p.pc # "off", p.pc # "idle" => snap[x] # NoSnap, ScanFits(x, p), WriteFits(x, p)
    PROVE  TypeInv' /\ Acts(x) /\ ProcInv(x)'
<1>1. TypeInv /\ HeapInv /\ ProcInv(x)
  BY DEF IndInv
<1>2. /\ proc' \in [Xids -> Procs] /\ proc'[x] = p
      /\ \A z \in Xids \ {x} : proc'[z] = proc[z]
  BY <1>1 DEF Alone, Moves, TypeInv
<1>3. TypeInv'
  BY <1>1, <1>2 DEF Alone, TypeInv
<1>4. Others(x) /\ StatusStep(x)
  BY <1>2 DEF Alone, Others, StatusStep
<1>5. HeapStep(x)
  BY <1>1 DEF Alone, HeapStep, Rewritten, HeapInv, TupleInv
<1>6. snap'[x] # NoSnap => SnapInv(x)'
  BY <1>1 DEF Alone, ProcInv, SnapInv, Past, InProgressFor, StatusOf
<1>7. Chosen(x)' = Chosen(x) /\ Returned(x)' = Returned(x)
  BY DEF Alone, Chosen, Returned
<1>8. ScanFits(x, p)'
  BY <1>7 DEF Alone, ScanFits, Truthful, StatusOf
<1>9. WriteFits(x, p)'
  BY <1>7 DEF Alone, WriteFits, Qual
<1>10. SessionInv(x)' /\ OwnDeletes(x)'
  BY <1>1, <1>2, <1>7 DEF Alone, ProcInv, SessionInv, OwnDeletes
<1> QED
  BY <1>2, <1>3, <1>4, <1>5, <1>6, <1>8, <1>9, <1>10 DEF Acts, ProcInv

Keeps(x) == TypeInv' /\ Acts(x) /\ ProcInv(x)'

\* What x's invariant says in a statement.
LEMMA InStatement ==
    ASSUME IndInv, NEW x \in Xids, proc[x].pc \notin {"off", "idle"}
    PROVE  /\ status[x] = "running" /\ snap[x] # NoSnap /\ SnapInv(x)
           /\ ScanFits(x, proc[x]) /\ WriteFits(x, proc[x])
           /\ TypeInv /\ proc[x] \in Procs
<1>1. status[x] = "running"
  BY InTransaction
<1>2. ProcInv(x) /\ TypeInv /\ proc[x] \in Procs
  BY ProcTypes DEF IndInv
<1>3. snap[x] # NoSnap
  BY <1>2 DEF ProcInv, SessionInv
<1> QED
  BY <1>1, <1>2, <1>3 DEF ProcInv

\* What mvcc.Visible says of a version: committed before the snapshot was
\* taken, or x's own, and not deleted by then, nor by x.
LEMMA VisibleIs ==
    ASSUME IndInv, NEW x \in Xids, SnapInv(x), status[x] = "running", NEW i \in DOMAIN heap
    PROVE  Visible(snap[x], heap[i]) <=> i \in Returned(x)
<1> DEFINE t == heap[i]
           s == snap[x]
<1>1. TypeInv /\ TupleInv(t) /\ t \in Tuples
  BY HeapTypes DEF IndInv, HeapInv
<1>2. s.xid = x /\ x # InvalidXID /\ x \in Nat /\ s.xmin >= FirstNormalXID /\ s.xmin \in Nat
  BY <1>1, StatusOfXid, ProcTypes DEF SnapInv, Snaps, InvalidXID, FirstNormalXID
<1>3. XminStatus(s, t) = "committed" <=> t.xmin = x \/ StatusOf(t.xmin) = "committed"
  BY <1>1, <1>2 DEF XminStatus, TupleInv, Truthful
<1>4. XmaxStatus(t) = "aborted" <=> StatusOf(t.xmax) = "aborted"
  BY <1>1 DEF XmaxStatus, TupleInv, Truthful
<1>5. t.xmax \in Xids \ {x} /\ ~InProgressFor(s, t.xmax)
        => StatusOf(t.xmax) \in {"committed", "aborted"}
  <2>1. \A y \in Xids : status[y] \in Statuses /\ StatusOf(y) = status[y]
    BY <1>1, StatusOfXid DEF TypeInv
  <2> QED
    BY <2>1 DEF SnapInv, Statuses
<1>6. t.xmax \in Xids \cup {InvalidXID}
  BY <1>1 DEF Tuples
<1>7. XminVisible(s, t) <=> t.xmin = x \/ Past(s, t.xmin)
  BY <1>2, <1>3 DEF XminVisible, Past
<1>8. XmaxVisible(s, t) <=> t.xmax # x /\ ~Past(s, t.xmax)
  BY <1>1, <1>2, <1>4, <1>5, <1>6, StatusOfXid DEF XmaxVisible, Past
<1>9. i \in atSnap[x] <=> Past(s, t.xmin) /\ ~Past(s, t.xmax)
  BY DEF SnapInv
<1>10. t.xmin = x => ~Past(s, t.xmax) \/ t.xmax = x
  BY <1>1, <1>2, StatusOfXid DEF TupleInv, Past
<1> QED
  BY <1>7, <1>8, <1>9, <1>10 DEF Visible, Returned, Chosen

\* The hint bits Visible learns are true.
LEMMA LearnedTrue ==
    ASSUME IndInv, NEW x \in Xids, NEW i \in DOMAIN heap
    PROVE  Truthful(heap[i].xmin, heap[i].xmax, VisibleHints(snap[x], heap[i]))
  BY DEF Truthful, VisibleHints, Learned

LEMMA ReadBlockKeeps ==
    ASSUME IndInv, NEW x \in Xids, ReadBlock(x)
    PROVE  Keeps(x)
<1> DEFINE i == proc[x].pos
           h == VisibleHints(snap[x], heap[i])
           out == IF Visible(snap[x], heap[i]) THEN proc[x].out \cup {i} ELSE proc[x].out
           seen == [proc[x] EXCEPT !.out = out]
           hint == [xmin |-> heap[i].xmin, xmax |-> heap[i].xmax, add |-> h]
           on == [seen EXCEPT !.pos = i + 1]
           back == [seen EXCEPT !.pc = "hints", !.hint = hint]
<1>1. proc[x].pc = "scan" /\ i <= proc[x].nblocks
  BY DEF ReadBlock, At
<1>2. \/ h = {} /\ Alone(x, on)
      \/ h # {} /\ Alone(x, back)
  <2>1. \/ h = {} /\ Moves(x, on)
        \/ h # {} /\ Moves(x, back)
    BY Zenon DEF ReadBlock
  <2>2. UNCHANGED <<status, heap, iso, snap, load, atSnap>>
    BY DEF ReadBlock
  <2> QED
    BY <2>1, <2>2 DEF Alone
<1>3. /\ status[x] = "running" /\ snap[x] # NoSnap /\ SnapInv(x)
      /\ ScanFits(x, proc[x]) /\ WriteFits(x, proc[x]) /\ TypeInv /\ proc[x] \in Procs
  BY <1>1, InStatement
<1>4. i \in DOMAIN heap /\ i \in Nat /\ heap[i] \in Tuples /\ Returned(x) \subseteq Nat
  <2>1. i \in 1 .. Len(heap)
    BY <1>1, <1>3, FieldTypes, HeapTypes DEF ScanFits
  <2> QED
    BY <1>3, <2>1, HeapTypes DEF Returned, Chosen
<1>5. Truthful(heap[i].xmin, heap[i].xmax, h) /\ h \in SUBSET HintBits
  BY <1>4, LearnedTrue DEF VisibleHints, Learned, HintBits
<1>6. out = Returned(x) \cap {j \in 1 .. proc[x].nblocks : j <= i} /\ out \in SUBSET Nat
  <2>1. Visible(snap[x], heap[i]) <=> i \in Returned(x)
    BY <1>3, <1>4, VisibleIs
  <2>2. proc[x].out = Returned(x) \cap Judged(proc[x])
    BY <1>1, <1>3 DEF ScanFits
  <2>3. Judged(proc[x]) = {j \in 1 .. proc[x].nblocks : j < i}
    BY <1>1 DEF Judged
  <2>4. proc[x].nblocks \in Nat
    BY <1>3, FieldTypes
  <2> QED
    BY <1>1, <1>3, <1>4, <2>1, <2>2, <2>3, <2>4 DEF ScanFits
<1>7. hint \in Hints /\ hint.xmin = heap[i].xmin /\ hint.xmax = heap[i].xmax /\ hint.add = h
  BY <1>4, <1>5 DEF Hints, Names, Tuples
<1> HIDE DEF h, out, hint
<1>8. seen \in Procs /\ seen.out = out /\ \A f \in {"pc", "kind", "qual", "pos", "nblocks",
                              "hint", "todo", "target", "new", "wait"} : seen[f] = proc[x][f]
  BY <1>3, <1>6 DEF Procs
<1> HIDE DEF seen
<1>9. /\ on \in Procs /\ on.pos = i + 1
      /\ on.pc = "scan" /\ on.kind = proc[x].kind /\ on.qual = proc[x].qual /\ on.out = out
      /\ on.nblocks = proc[x].nblocks /\ on.todo = proc[x].todo /\ on.target = proc[x].target
      /\ on.new = proc[x].new
  BY <1>1, <1>4, <1>8 DEF Procs
<1>10. /\ back \in Procs /\ back.pos = i /\ back.hint = hint
       /\ back.pc = "hints" /\ back.kind = proc[x].kind /\ back.qual = proc[x].qual /\ back.out = out
       /\ back.nblocks = proc[x].nblocks /\ back.todo = proc[x].todo /\ back.target = proc[x].target
       /\ back.new = proc[x].new
  BY <1>1, <1>4, <1>7, <1>8 DEF Procs, Pcs
<1> HIDE DEF on, back
<1>11. WriteFits(x, on) /\ WriteFits(x, back)
  <2>1. proc[x].new = NoTid /\ ~HasTarget(on) /\ ~HasTarget(back)
    BY <1>1, <1>3, <1>9, <1>10 DEF WriteFits, HasTarget
  <2> QED
    BY <1>3, <1>9, <1>10, <2>1 DEF WriteFits
<1>12. i + 1 \in 1 .. proc[x].nblocks + 1 /\ i \in 1 .. proc[x].nblocks
  <2>1. proc[x].nblocks \in Nat
    BY <1>3, FieldTypes
  <2> QED
    BY <1>1, <1>3, <1>4, <2>1 DEF ScanFits
<1>13. ScanFits(x, on)
  <2>1. Judged(on) = {j \in 1 .. proc[x].nblocks : j <= i}
    BY <1>4, <1>9 DEF Judged
  <2> QED
    BY <1>1, <1>3, <1>6, <1>9, <1>12, <2>1 DEF ScanFits
<1>14. ScanFits(x, back)
  <2>1. Judged(back) = {j \in 1 .. proc[x].nblocks : j <= i}
    BY <1>4, <1>10 DEF Judged
  <2> QED
    BY <1>1, <1>3, <1>5, <1>6, <1>7, <1>10, <1>12, <2>1 DEF ScanFits
<1>15. CASE h = {} /\ Alone(x, on)
  BY <1>3, <1>9, <1>11, <1>13, <1>15, AloneKeeps DEF Keeps
<1>16. CASE h # {} /\ Alone(x, back)
  BY <1>3, <1>10, <1>11, <1>14, <1>16, AloneKeeps DEF Keeps
<1> QED
  BY <1>2, <1>15, <1>16

\* The statement ends; the block's snapshot stays under REPEATABLE READ.
LEMMA EndStmtKeeps ==
    ASSUME IndInv, NEW x \in Xids, proc[x].pc \notin {"off", "idle"}, EndStmt(x),
           UNCHANGED <<status, iso, load>>, heap' \in Seq(Tuples), HeapStep(x)
    PROVE  /\ TypeInv' /\ Others(x) /\ SessionInv(x)'
           /\ ScanFits(x, proc[x])' /\ WriteFits(x, proc[x])'
           /\ snap'[x] # NoSnap => UNCHANGED <<snap[x], atSnap[x]>>
           /\ iso[x] = "RepeatableRead" => UNCHANGED <<snap[x], atSnap[x]>>
<1> DEFINE p == [Off EXCEPT !.pc = "idle"]
<1>1. /\ status[x] = "running" /\ snap[x] # NoSnap /\ TypeInv
  BY InStatement
<1>2. /\ p \in Procs /\ p.pc = "idle" /\ p.todo = {} /\ p.new = NoTid
      /\ ~HasTarget(p)
  BY <1>1, ProcTypes DEF Procs, Pcs, Off, HasTarget
<1> HIDE DEF p
<1>3. proc' = [proc EXCEPT ![x] = p]
  BY DEF EndStmt, Moves, p
<1>4. /\ snap' = [snap EXCEPT ![x] = IF iso[x] = "RepeatableRead" THEN snap[x] ELSE NoSnap]
      /\ atSnap' = [atSnap EXCEPT ![x] = IF iso[x] = "RepeatableRead" THEN atSnap[x] ELSE {}]
  BY DEF EndStmt
<1>5. /\ proc' \in [Xids -> Procs] /\ proc'[x] = p
      /\ \A z \in Xids \ {x} : proc'[z] = proc[z]
  BY <1>1, <1>2, <1>3 DEF TypeInv
<1>6. /\ snap' \in [Xids -> Snaps]
      /\ snap'[x] = IF iso[x] = "RepeatableRead" THEN snap[x] ELSE NoSnap
      /\ \A z \in Xids \ {x} : snap'[z] = snap[z]
  BY <1>1, <1>4, ProcTypes DEF TypeInv
<1>7. /\ atSnap' \in [Xids -> SUBSET DOMAIN heap']
      /\ atSnap'[x] = IF iso[x] = "RepeatableRead" THEN atSnap[x] ELSE {}
      /\ \A z \in Xids \ {x} : atSnap'[z] = atSnap[z]
  BY <1>1, <1>4 DEF TypeInv, HeapStep
<1>8. TypeInv'
  BY <1>1, <1>5, <1>6, <1>7 DEF TypeInv
<1>9. Others(x)
  BY <1>5, <1>6, <1>7 DEF Others
<1>10. SessionInv(x)'
  BY <1>1, <1>2, <1>5, <1>6, <1>7 DEF SessionInv
<1>11. ScanFits(x, p)' /\ WriteFits(x, p)'
  BY <1>2 DEF ScanFits, WriteFits
<1> QED
  BY <1>5, <1>6, <1>7, <1>8, <1>9, <1>10, <1>11

-----------------------------------------------------------------------------
(* What a step of x leaves alone.                                          *)

LEMMA VerdictsStay ==
    ASSUME TypeInv, TypeInv', NEW x \in Xids, Acts(x), NEW y \in Names
    PROVE  /\ StatusOf(y) \in {"committed", "aborted"} => StatusOf(y)' = StatusOf(y)
           /\ StatusOf(y) # "unassigned" => StatusOf(y)' # "unassigned"
           /\ StatusOf(y)' = "running" => StatusOf(y) = "running" \/ (y = x /\ StatusOf(y) = "unassigned")
           /\ y # x => StatusOf(y)' = StatusOf(y)
<1>1. y \in Xids => StatusOf(y) = status[y] /\ StatusOf(y)' = status'[y]
  BY DEF StatusOf, InvalidXID, FirstNormalXID, Xids
<1>2. y \notin Xids => StatusOf(y)' = StatusOf(y) /\ StatusOf(y) \in {"committed", "aborted"}
  BY DEF Names, StatusOf, InvalidXID, FrozenXID, FirstNormalXID
<1>3. y \in Xids /\ y # x => status'[y] = status[y]
  BY DEF Acts, Others
<1>4. status[x] = status'[x] \/ (status[x] = "unassigned" /\ status'[x] = "running")
        \/ (status[x] = "running" /\ status'[x] \in {"committed", "aborted"})
  BY DEF Acts, StatusStep
<1>5. status[x] \in {"unassigned", "running"}
  BY DEF Acts, StatusStep
<1>6. y = x => StatusOf(y) = status[x] /\ StatusOf(y)' = status'[x]
  BY <1>1
<1> QED
  BY <1>1, <1>2, <1>3, <1>4, <1>5, <1>6

LEMMA TupleNames ==
    ASSUME TypeInv, NEW i \in DOMAIN heap
    PROVE  heap[i].xmin \in Names /\ heap[i].xmax \in Names /\ heap[i] \in Tuples
  BY HeapTypes DEF Names, Tuples

LEMMA HeapKeeps ==
    ASSUME IndInv, TypeInv', NEW x \in Xids, Acts(x)
    PROVE  HeapInv'
<1>0. TypeInv /\ HeapInv /\ DOMAIN heap \subseteq DOMAIN heap'
  BY DEF IndInv, Acts, HeapStep
<1>1. ASSUME NEW i \in DOMAIN heap PROVE TupleInv(heap[i])'
  <2>1. PICK t \in Tuples : t = heap[i] /\ t.xmin \in Names /\ t.xmax \in Names
    BY <1>0, TupleNames
  <2>2. PICK u \in Tuples : u = heap'[i]
    BY <1>0, HeapTypes DEF TypeInv
  <2>3. TupleInv(t) /\ Rewritten(i, x)
    BY <1>0, <2>1 DEF HeapInv, Acts, HeapStep
  <2>4. /\ StatusOf(t.xmin) \in {"committed", "aborted"} => StatusOf(t.xmin)' = StatusOf(t.xmin)
        /\ StatusOf(t.xmax) \in {"committed", "aborted"} => StatusOf(t.xmax)' = StatusOf(t.xmax)
        /\ StatusOf(t.xmin)' # "unassigned" /\ StatusOf(t.xmax)' # "unassigned"
        /\ StatusOf(t.xmin)' = "running" => StatusOf(t.xmin) = "running"
    BY <1>0, <2>1, <2>3, VerdictsStay DEF TupleInv
  <2>5. u.xmin = t.xmin
    BY <2>1, <2>2, <2>3 DEF Rewritten
  <2>6. ASSUME u.xmax = t.xmax, u.ctid = t.ctid, Truthful(t.xmin, t.xmax, u.hints)
        PROVE  TupleInv(u)'
    <3>1. Truthful(u.xmin, u.xmax, u.hints)'
      BY <2>4, <2>5, <2>6 DEF Truthful
    <3> QED
      BY <1>0, <2>3, <2>4, <2>5, <2>6, <3>1 DEF TupleInv
  <2>7. ASSUME status[x] = "running", u.xmax = x, StatusOf(t.xmin) = "running" => t.xmin = x,
               u.hints = t.hints \ {"XmaxCommitted", "XmaxInvalid"}, u.ctid \in DOMAIN heap
        PROVE  TupleInv(u)'
    <3>1. StatusOf(x)' # "unassigned"
      BY <1>0, <2>7, VerdictsStay, StatusOfXid DEF Names
    <3>2. Truthful(t.xmin, t.xmax, t.hints)
      BY <2>3 DEF TupleInv
    <3>3. Truthful(u.xmin, u.xmax, u.hints)'
      BY <2>4, <2>5, <2>7, <3>2 DEF Truthful
    <3> QED
      BY <1>0, <2>4, <2>5, <2>7, <3>1, <3>3 DEF TupleInv
  <2>8. TupleInv(u)'
    <3>1. \/ /\ u.xmax = t.xmax /\ u.ctid = t.ctid /\ Truthful(t.xmin, t.xmax, u.hints)
          \/ /\ status[x] = "running" /\ u.xmax = x
             /\ StatusOf(t.xmin) = "running" => t.xmin = x
             /\ u.hints = t.hints \ {"XmaxCommitted", "XmaxInvalid"}
             /\ u.ctid \in DOMAIN heap
      BY <2>1, <2>2, <2>3 DEF Rewritten
    <3> QED
      BY <2>6, <2>7, <3>1
  <2> QED
    BY <2>2, <2>8
<1>2. ASSUME NEW i \in DOMAIN heap' \ DOMAIN heap PROVE TupleInv(heap[i])'
  <2>1. Added(i, x) /\ heap' # heap
    BY <1>2 DEF Acts, HeapStep
  <2>2. status[x] = "running" /\ status' = status
    BY <2>1 DEF Acts, StatusStep
  <2> QED
    BY <1>0, <2>1, <2>2, StatusOfXid DEF Added, TupleInv, Truthful, StatusOf, InvalidXID, FirstNormalXID
<1> QED
  BY <1>1, <1>2 DEF HeapInv

\* Nobody deletes a version for another, and a finished deletion stays.
LEMMA ChosenKeeps ==
    ASSUME IndInv, TypeInv', NEW x \in Xids, Acts(x), NEW z \in Xids, atSnap'[z] = atSnap[z]
    PROVE  /\ Chosen(z) \subseteq Chosen(z)'
           /\ z # x => Chosen(z)' = Chosen(z)
           /\ z # x /\ status[z] = "running" => Returned(z)' = Returned(z)
<1>1. /\ DOMAIN heap \subseteq DOMAIN heap' /\ TypeInv /\ atSnap[z] \subseteq DOMAIN heap
      /\ \A i \in DOMAIN heap : Rewritten(i, x)
      /\ \A i \in DOMAIN heap' \ DOMAIN heap : Added(i, x)
  BY ProcTypes DEF IndInv, Acts, HeapStep
<1>2. \A i \in DOMAIN heap : heap'[i].xmin = heap[i].xmin
  BY <1>1 DEF Rewritten
<1>3. \A i \in DOMAIN heap' \ DOMAIN heap : heap'[i].xmin = x
  BY <1>1 DEF Added
<1>4. Chosen(z) \subseteq Chosen(z)' /\ (z # x => Chosen(z)' = Chosen(z))
  BY <1>1, <1>2, <1>3 DEF Chosen
<1>5. ASSUME z # x, status[z] = "running", NEW i \in DOMAIN heap
      PROVE  heap'[i].xmax = z <=> heap[i].xmax = z
  <2>1. StatusOf(z) = "running"
    BY <1>1, <1>5, StatusOfXid
  <2> QED
    BY <1>1, <1>5, <2>1 DEF Rewritten
<1>6. z # x /\ status[z] = "running" => Returned(z)' = Returned(z)
  BY <1>4, <1>5 DEF Returned, Chosen
<1> QED
  BY <1>4, <1>6

LEMMA SnapKeeps ==
    ASSUME IndInv, TypeInv', NEW x \in Xids, Acts(x), NEW z \in Xids, SnapInv(z),
           snap'[z] = snap[z], atSnap'[z] = atSnap[z]
    PROVE  SnapInv(z)'
<1>0. /\ TypeInv /\ HeapInv /\ DOMAIN heap \subseteq DOMAIN heap'
      /\ \A i \in DOMAIN heap : Rewritten(i, x)
      /\ \A i \in DOMAIN heap' \ DOMAIN heap : Added(i, x)
  BY DEF IndInv, Acts, HeapStep
<1>1. PICK s \in Snaps : s = snap[z]
  BY <1>0, ProcTypes
<1>2. s.xid = z /\ s.xmin >= FirstNormalXID
  BY <1>1 DEF SnapInv
<1>3. ASSUME NEW y \in Xids \ {z}, status'[y] \in {"running", "unassigned"}
      PROVE  InProgressFor(s, y) /\ status[y] \in {"running", "unassigned"}
  <2>1. status[y] \in {"running", "unassigned"}
    BY <1>3 DEF Acts, Others, StatusStep
  <2> QED
    BY <1>1, <2>1 DEF SnapInv
<1>4. ASSUME NEW y \in Names PROVE Past(s, y)' <=> Past(s, y)
  <2>1. CASE y = z
    BY <1>2, <2>1 DEF Past
  <2>2. CASE y # x
    BY <1>0, <2>2, VerdictsStay DEF Past, InProgressFor
  <2>3. CASE y # z /\ y = x
    <3>1. status[x] \in {"running", "unassigned"}
      BY DEF Acts, StatusStep
    <3>2. InProgressFor(s, y)
      BY <1>1, <2>3, <3>1 DEF SnapInv
    <3> QED
      BY <3>2 DEF Past, InProgressFor
  <2> QED
    BY <2>1, <2>2, <2>3
<1>5. ASSUME NEW y \in Xids, status[y] = "running" PROVE ~Past(s, y)
  BY <1>0, <1>5, StatusOfXid DEF Past
<1>6. ASSUME NEW i \in DOMAIN heap
      PROVE  i \in atSnap[z] <=> Past(s, heap'[i].xmin) /\ ~Past(s, heap'[i].xmax)
  <2>1. i \in atSnap[z] <=> Past(s, heap[i].xmin) /\ ~Past(s, heap[i].xmax)
    BY <1>1 DEF SnapInv
  <2>2. heap'[i].xmin = heap[i].xmin
    BY <1>0 DEF Rewritten
  <2>3. CASE heap'[i].xmax = heap[i].xmax
    BY <2>1, <2>2, <2>3
  <2>4. CASE status[x] = "running" /\ heap'[i].xmax = x /\ StatusOf(heap[i].xmax) = "aborted"
    BY <1>5, <2>1, <2>2, <2>4 DEF Past
  <2> QED
    BY <1>0, <2>3, <2>4 DEF Rewritten
<1>7. ASSUME NEW i \in DOMAIN heap' \ DOMAIN heap PROVE ~Past(s, heap'[i].xmin)
  <2>1. heap'[i].xmin = x /\ status[x] = "running"
    BY <1>0, <1>7 DEF Added, Acts, StatusStep
  <2> QED
    BY <1>5, <2>1
<1>8. \A i \in DOMAIN heap' : heap'[i].xmin \in Names /\ heap'[i].xmax \in Names
  <2>1. heap' \in Seq(Tuples)
    BY DEF TypeInv
  <2>2. \A i \in DOMAIN heap' : heap'[i] \in Tuples
    BY <2>1
  <2> QED
    BY <2>2 DEF Tuples, Names
<1>9. ASSUME NEW i \in DOMAIN heap'
      PROVE  i \in atSnap[z] <=> Past(s, heap[i].xmin)' /\ ~Past(s, heap[i].xmax)'
  <2>1. PICK u \in Tuples : u = heap'[i] /\ u.xmin \in Names /\ u.xmax \in Names
    BY <1>8 DEF TypeInv
  <2>2. Past(s, u.xmin)' <=> Past(s, u.xmin)
    BY <1>4, <2>1
  <2>3. Past(s, u.xmax)' <=> Past(s, u.xmax)
    BY <1>4, <2>1
  <2>4. i \in atSnap[z] <=> Past(s, u.xmin) /\ ~Past(s, u.xmax)
    <3>1. CASE i \in DOMAIN heap
      BY <1>6, <2>1, <3>1
    <3>2. CASE i \notin DOMAIN heap
      BY <1>0, <1>7, <2>1, <3>2, ProcTypes
    <3> QED
      BY <3>1, <3>2
  <2> QED
    BY <2>1, <2>2, <2>3, <2>4
<1>10. atSnap[z] \subseteq DOMAIN heap'
  BY <1>0, ProcTypes
<1>11. atSnap'[z] = {i \in DOMAIN heap' : Past(s, heap[i].xmin)' /\ ~Past(s, heap[i].xmax)'}
  BY <1>9, <1>10
<1>12. s = snap'[z]
  BY <1>1
<1> QED
  BY <1>2, <1>3, <1>11, <1>12 DEF SnapInv

\* What a REPEATABLE READ transaction has deleted, it chose.
LEMMA OwnDeletesKeep ==
    ASSUME IndInv, TypeInv', NEW x \in Xids, Acts(x), NEW z \in Xids, iso'[z] = iso[z],
           status[z] = "running",
           iso[z] = "RepeatableRead" => snap'[z] = snap[z] /\ atSnap'[z] = atSnap[z]
    PROVE  OwnDeletes(z)'
<1>1. SUFFICES ASSUME iso[z] = "RepeatableRead", NEW i \in DOMAIN heap', heap'[i].xmax = z
               PROVE  snap[z] # NoSnap /\ i \in Chosen(z)'
  BY DEF OwnDeletes
<1>2. /\ OwnDeletes(z) /\ TypeInv
      /\ \A j \in DOMAIN heap : Rewritten(j, x)
      /\ \A j \in DOMAIN heap' \ DOMAIN heap : Added(j, x)
  BY DEF IndInv, ProcInv, Acts, HeapStep
<1>3. Chosen(z) \subseteq Chosen(z)'
  BY <1>1, ChosenKeeps
<1>4. i \in DOMAIN heap /\ Rewritten(i, x) /\ i # NoTid
  <2>1. z # InvalidXID
    BY <1>2, StatusOfXid
  <2> QED
    BY <1>1, <1>2, <2>1, HeapTypes DEF Added
<1>5. CASE heap[i].xmax = z
  BY <1>1, <1>2, <1>3, <1>4, <1>5 DEF OwnDeletes
<1>6. CASE z = x /\ (i = proc[x].new \/ (proc[x].pc = "stamp" /\ i = proc[x].target))
  <2>1. ProcInv(x)
    BY DEF IndInv
  <2>2. proc[x].pc \in {"stamp", "bury"}
    BY <1>4, <1>6, <2>1 DEF ProcInv, WriteFits
  <2>3. snap[z] # NoSnap
    BY <1>6, <2>1, <2>2 DEF ProcInv, SessionInv
  <2>4. i \in Chosen(z)
    <3>1. CASE i = proc[x].new
      BY <1>4, <1>6, <2>1, <3>1 DEF ProcInv, WriteFits, Chosen
    <3>2. CASE proc[x].pc = "stamp" /\ i = proc[x].target
      BY <1>1, <1>6, <2>1, <3>2 DEF ProcInv, WriteFits, HasTarget
    <3> QED
      BY <1>6, <3>1, <3>2
  <2> QED
    BY <1>3, <2>3, <2>4
<1> QED
  BY <1>1, <1>4, <1>5, <1>6 DEF Rewritten

\* What hint bits claim of a version stays true.
LEMMA TruthStays ==
    ASSUME TypeInv, TypeInv', NEW x \in Xids, Acts(x), NEW xmin \in Names, NEW xmax \in Names,
           NEW bits, Truthful(xmin, xmax, bits)
    PROVE  Truthful(xmin, xmax, bits)'
<1>1. \A y \in Names : StatusOf(y) \in {"committed", "aborted"} => StatusOf(y)' = StatusOf(y)
  BY VerdictsStay
<1> QED
  BY <1>1 DEF Truthful

LEMMA OthersKeep ==
    ASSUME IndInv, TypeInv', NEW x \in Xids, Acts(x), NEW z \in Xids, z # x
    PROVE  ProcInv(z)'
<1> DEFINE p == proc[z]
<1>1. /\ TypeInv /\ ProcInv(z) /\ p \in Procs
      /\ DOMAIN heap \subseteq DOMAIN heap' /\ \A i \in DOMAIN heap : Rewritten(i, x)
  BY ProcTypes DEF IndInv, Acts, HeapStep
<1>2. /\ status'[z] = status[z] /\ proc'[z] = p /\ snap'[z] = snap[z]
      /\ atSnap'[z] = atSnap[z] /\ iso'[z] = iso[z]
  BY DEF Acts, Others
<1>3. Chosen(z)' = Chosen(z) /\ (status[z] = "running" => Returned(z)' = Returned(z))
  BY <1>2, ChosenKeeps
<1>4. snap'[z] # NoSnap => SnapInv(z)'
  BY <1>1, <1>2, SnapKeeps DEF ProcInv
<1>5. ScanFits(z, p)'
  <2>1. SUFFICES ASSUME p.pc \in {"scan", "hints"} PROVE ScanFits(z, p)'
    BY <1>2 DEF ScanFits
  <2>2. Returned(z)' = Returned(z)
    BY <1>3, <2>1, InStatement
  <2>3. Len(heap) <= Len(heap)'
    <3>1. DOMAIN heap = 1 .. Len(heap) /\ Len(heap) \in Nat
      BY <1>1, HeapTypes
    <3>2. heap' \in Seq(Tuples) /\ DOMAIN heap' = 1 .. Len(heap') /\ Len(heap') \in Nat
      BY LenProperties DEF TypeInv
    <3> QED
      BY <1>1, <3>1, <3>2
  <2>4. p.nblocks <= Len(heap)'
    <3>1. p.nblocks <= Len(heap) /\ p.nblocks \in Nat /\ Len(heap) \in Nat
      BY <1>1, <2>1, HeapTypes, FieldTypes DEF ProcInv, ScanFits
    <3>2. Len(heap)' \in Nat
      BY LenProperties DEF TypeInv
    <3> QED
      BY <2>3, <3>1, <3>2
  <2>5. p.pc = "hints" => Truthful(p.hint.xmin, p.hint.xmax, p.hint.add)'
    <3>1. p.hint.xmin \in Names /\ p.hint.xmax \in Names
      BY <1>1, FieldTypes DEF Hints
    <3>2. PICK a, b, c : a = p.hint.xmin /\ b = p.hint.xmax /\ c = p.hint.add
      OBVIOUS
    <3>3. p.pc = "hints" => Truthful(a, b, c)
      BY <1>1, <2>1, <3>2 DEF ProcInv, ScanFits
    <3>4. p.pc = "hints" => Truthful(a, b, c)'
      BY <1>1, <3>1, <3>2, <3>3, TruthStays
    <3> QED
      BY <1>2, <3>2, <3>4
  <2> QED
    BY <1>1, <1>2, <1>3, <2>1, <2>2, <2>4, <2>5 DEF ProcInv, ScanFits, Judged
<1>6. WriteFits(z, p)'
  <2>1. \A i \in DOMAIN heap : i \in DOMAIN heap' /\ heap'[i].val = heap[i].val
    BY <1>1 DEF Rewritten
  <2>2. p.todo \subseteq Chosen(z) /\ \A i \in p.todo : i \in DOMAIN heap
    BY <1>1 DEF ProcInv, WriteFits, Chosen
  <2>3. \A i \in p.todo : Qual(p.qual, heap'[i])
    BY <1>1, <2>1, <2>2 DEF ProcInv, WriteFits, Qual
  <2>4. p.new # NoTid => heap'[p.new].xmin = z /\ heap'[p.new].xmax = InvalidXID
    <3>1. SUFFICES ASSUME p.new # NoTid
                   PROVE  heap'[p.new].xmin = z /\ heap'[p.new].xmax = InvalidXID
      OBVIOUS
    <3>2. p.new \in DOMAIN heap /\ heap[p.new].xmin = z /\ heap[p.new].xmax = InvalidXID
      BY <1>1, <3>1 DEF ProcInv, WriteFits
    <3>3. StatusOf(z) = "running"
      BY <1>1, <3>1, InStatement, StatusOfXid DEF ProcInv, WriteFits
    <3> QED
      BY <1>1, <3>2, <3>3 DEF Rewritten
  <2>5. HasTarget(p) => /\ p.target \in DOMAIN heap'
                        /\ iso[z] = "RepeatableRead" => p.target \in Chosen(z)
                        /\ p.pc \in {"lock", "check", "insert", "stamp"}
                              => Qual(p.qual, heap'[p.target])
    BY <1>1, <2>1 DEF ProcInv, WriteFits, Qual
  <2>6. p.new # NoTid => p.pc \in {"stamp", "bury"} /\ p.new # p.target /\ p.new \in DOMAIN heap'
    BY <1>1, <2>1 DEF ProcInv, WriteFits
  <2>7. p.pc = "bury" => p.new # NoTid
    BY <1>1 DEF ProcInv, WriteFits
  <2> QED
    BY <1>2, <1>3, <2>2, <2>3, <2>4, <2>5, <2>6, <2>7 DEF WriteFits, HasTarget, Qual
<1>7. SessionInv(z)'
  BY <1>1, <1>2 DEF ProcInv, SessionInv
<1>8. OwnDeletes(z)'
  BY <1>1, <1>2, OwnDeletesKeep DEF OwnDeletes
<1> QED
  BY <1>2, <1>4, <1>5, <1>6, <1>7, <1>8 DEF ProcInv

-----------------------------------------------------------------------------
(* The steps that move the session alone.                                  *)

\* It goes on in the statement, with targets it may write.
LEMMA GoesOn ==
    ASSUME IndInv, NEW x \in Xids, proc[x].pc \notin {"off", "idle"}, NEW p \in Procs, Alone(x, p),
           p.pc \notin {"off", "scan", "hints"}, WriteFits(x, p)
    PROVE  Keeps(x)
<1>1. status[x] = "running" /\ snap[x] # NoSnap
  BY InStatement
<1>2. ScanFits(x, p)
  BY DEF ScanFits
<1> QED
  BY <1>1, <1>2, AloneKeeps DEF Keeps

\* It waits, or waits no more.
LEMMA WaitsKeep ==
    ASSUME IndInv, NEW x \in Xids, status[x] = "running", NEW w \in Nat,
           Alone(x, [proc[x] EXCEPT !.wait = w])
    PROVE  Keeps(x)
<1> DEFINE p == [proc[x] EXCEPT !.wait = w]
<1>1. TypeInv /\ ProcInv(x) /\ proc[x] \in Procs
  BY ProcTypes DEF IndInv
<1>2. /\ p \in Procs /\ p.pc = proc[x].pc /\ p.kind = proc[x].kind /\ p.qual = proc[x].qual
      /\ p.pos = proc[x].pos /\ p.nblocks = proc[x].nblocks /\ p.out = proc[x].out
      /\ p.hint = proc[x].hint /\ p.todo = proc[x].todo /\ p.target = proc[x].target
      /\ p.new = proc[x].new
  BY <1>1 DEF Procs
<1> HIDE DEF p
<1>3. Alone(x, p)
  BY DEF p
<1>4. ScanFits(x, p)
  BY <1>1, <1>2 DEF ProcInv, ScanFits, Judged
<1>5. WriteFits(x, p)
  BY <1>1, <1>2 DEF ProcInv, WriteFits, HasTarget
<1>6. p.pc # "off" /\ (p.pc # "idle" => snap[x] # NoSnap)
  BY <1>1, <1>2 DEF ProcInv, SessionInv
<1> QED
  BY <1>2, <1>3, <1>4, <1>5, <1>6, AloneKeeps DEF Keeps

LEMMA TargetIs ==
    ASSUME IndInv, NEW x \in Xids, HasTarget(proc[x])
    PROVE  /\ proc[x].pc \notin {"off", "idle"} /\ status[x] = "running" /\ proc[x] \in Procs
           /\ WriteFits(x, proc[x]) /\ TypeInv
           /\ proc[x].target \in DOMAIN heap /\ heap[proc[x].target] \in Tuples
           /\ TupleInv(heap[proc[x].target])
<1>1. proc[x].pc \notin {"off", "idle"}
  BY DEF HasTarget
<1>2. status[x] = "running" /\ WriteFits(x, proc[x]) /\ TypeInv /\ proc[x] \in Procs
  BY <1>1, InStatement
<1>3. proc[x].target \in DOMAIN heap
  BY <1>2 DEF WriteFits
<1> QED
  BY <1>1, <1>2, <1>3, HeapTypes DEF IndInv, HeapInv

LEMMA WaitForOtherKeeps ==
    ASSUME IndInv, NEW x \in Xids, WaitForOther(x)
    PROVE  Keeps(x)
<1> DEFINE w == heap[proc[x].target].xmax
<1>1. HasTarget(proc[x])
  BY DEF WaitForOther, At, HasTarget
<1>2. status[x] = "running" /\ w \in Nat
  BY <1>1, TargetIs, StatusOfXid DEF Tuples, InvalidXID
<1>3. Alone(x, [proc[x] EXCEPT !.wait = w])
  BY DEF WaitForOther, Alone
<1> QED
  BY <1>2, <1>3, WaitsKeep

LEMMA WakeKeeps ==
    ASSUME IndInv, NEW x \in Xids, Wake(x)
    PROVE  Keeps(x)
<1>1. status[x] = "running"
  BY InTransaction DEF Wake
<1>2. Alone(x, [proc[x] EXCEPT !.wait = InvalidXID]) /\ InvalidXID \in Nat
  BY DEF Wake, Alone, InvalidXID
<1> QED
  BY <1>1, <1>2, WaitsKeep

\* The answers of Modify.
LEMMA VerdictsAre ==
    ASSUME NEW x
    PROVE  TM(x) \in Conflicts \cup {"TMInvisible", "TMOk", "TMBeingModified"}
  BY DEF TM, Modify, Conflicts

\* It goes on elsewhere with the target it has.
LEMMA MovesOn ==
    ASSUME IndInv, NEW x \in Xids, HasTarget(proc[x]), NEW pc \in Pcs,
           Alone(x, [proc[x] EXCEPT !.pc = pc]), pc \notin {"off", "idle", "scan", "hints"},
           proc[x].new # NoTid => pc = "bury", pc = "bury" => proc[x].new # NoTid,
           pc \in {"lock", "check", "insert", "stamp"} => Qual(proc[x].qual, heap[proc[x].target])
    PROVE  Keeps(x)
<1> DEFINE p == [proc[x] EXCEPT !.pc = pc]
<1>1. WriteFits(x, proc[x]) /\ proc[x] \in Procs /\ proc[x].pc \notin {"off", "idle"}
  BY TargetIs
<1>2. /\ p \in Procs /\ p.pc = pc /\ p.kind = proc[x].kind /\ p.qual = proc[x].qual
      /\ p.todo = proc[x].todo /\ p.target = proc[x].target /\ p.new = proc[x].new
  BY <1>1 DEF Procs
<1> HIDE DEF p
<1>3. WriteFits(x, p)
  BY <1>1, <1>2 DEF WriteFits
<1>4. Alone(x, p)
  BY DEF p
<1> QED
  BY <1>1, <1>2, <1>3, <1>4, GoesOn

LEMMA CheckTargetKeeps ==
    ASSUME IndInv, NEW x \in Xids, CheckTarget(x)
    PROVE  Keeps(x)
<1> DEFINE next == CASE TM(x) = "TMOk"        -> IF proc[x].pc = "lock" THEN "check" ELSE "insert"
                     [] TM(x) \in Conflicts   -> "conflict"
                     [] TM(x) = "TMInvisible" -> "error"
<1>1. proc[x].pc \in {"lock", "check"} /\ TM(x) # "TMBeingModified" /\ HasTarget(proc[x])
  BY DEF CheckTarget, At, HasTarget
<1>2. Alone(x, [proc[x] EXCEPT !.pc = next])
  <2>1. Moves(x, [proc[x] EXCEPT !.pc = next])
    BY Zenon DEF CheckTarget
  <2> QED
    BY <2>1 DEF CheckTarget, Alone
<1>3. next \in {"check", "insert", "conflict", "error"}
  BY <1>1, VerdictsAre DEF Conflicts
<1> HIDE DEF next
<1>4. next \in Pcs
  BY <1>3 DEF Pcs
<1>5. proc[x].new = NoTid /\ Qual(proc[x].qual, heap[proc[x].target])
  BY <1>1, TargetIs DEF WriteFits
<1> QED
  BY <1>1, <1>2, <1>3, <1>4, <1>5, MovesOn

LEMMA StampFailsKeeps ==
    ASSUME IndInv, NEW x \in Xids, StampFails(x)
    PROVE  Keeps(x)
<1> DEFINE next == IF proc[x].new # NoTid THEN "bury"
                   ELSE IF TM(x) \in Conflicts THEN "conflict"
                   ELSE "error"
<1>1. HasTarget(proc[x])
  BY DEF StampFails, At, HasTarget
<1>2. Alone(x, [proc[x] EXCEPT !.pc = next])
  <2>1. Moves(x, [proc[x] EXCEPT !.pc = next])
    BY Zenon DEF StampFails
  <2> QED
    BY <2>1 DEF StampFails, Alone
<1>3. /\ next \in {"bury", "conflict", "error"}
      /\ next = "bury" <=> proc[x].new # NoTid
  OBVIOUS
<1> HIDE DEF next
<1>4. next \in Pcs
  BY <1>3 DEF Pcs
<1> QED
  BY <1>1, <1>2, <1>3, <1>4, MovesOn

LEMMA ConflictKeeps ==
    ASSUME IndInv, NEW x \in Xids, Conflict(x)
    PROVE  Keeps(x)
<1> DEFINE old == heap[proc[x].target]
           drop == [proc[x] EXCEPT !.pc = "next", !.target = NoTid]
           follow == [proc[x] EXCEPT !.pc = "recheck", !.target = old.ctid]
<1>1. proc[x].pc = "conflict" /\ HasTarget(proc[x])
  BY DEF Conflict, At, HasTarget
<1>2. \/ Alone(x, [proc[x] EXCEPT !.pc = "error"])
      \/ Alone(x, drop)
      \/ Alone(x, follow) /\ iso[x] # "RepeatableRead"
  <2>1. \/ Moves(x, [proc[x] EXCEPT !.pc = "error"])
        \/ Moves(x, drop)
        \/ Moves(x, follow) /\ iso[x] # "RepeatableRead"
    BY DEF Conflict
  <2> QED
    BY <2>1 DEF Conflict, Alone
<1>3. /\ WriteFits(x, proc[x]) /\ proc[x] \in Procs /\ proc[x].new = NoTid
      /\ old.ctid \in DOMAIN heap /\ old.ctid \in Nat
  BY <1>1, TargetIs DEF WriteFits, TupleInv, Tuples
<1>4. CASE Alone(x, [proc[x] EXCEPT !.pc = "error"])
  BY <1>1, <1>3, <1>4, MovesOn DEF Pcs
<1>5. CASE Alone(x, drop)
  <2>1. /\ drop \in Procs /\ drop.pc = "next" /\ drop.todo = proc[x].todo
        /\ drop.qual = proc[x].qual /\ drop.new = NoTid /\ ~HasTarget(drop)
    BY <1>3 DEF Procs, Pcs, HasTarget, NoTid
  <2> HIDE DEF drop
  <2>2. WriteFits(x, drop)
    BY <1>3, <2>1 DEF WriteFits
  <2> QED
    BY <1>1, <1>5, <2>1, <2>2, GoesOn
<1>6. CASE Alone(x, follow) /\ iso[x] # "RepeatableRead"
  <2>1. /\ follow \in Procs /\ follow.pc = "recheck" /\ follow.todo = proc[x].todo
        /\ follow.qual = proc[x].qual /\ follow.new = NoTid /\ follow.target = old.ctid
    BY <1>3 DEF Procs, Pcs
  <2> HIDE DEF follow
  <2>2. WriteFits(x, follow)
    BY <1>3, <1>6, <2>1 DEF WriteFits
  <2> QED
    BY <1>1, <1>6, <2>1, <2>2, GoesOn
<1> QED
  BY <1>2, <1>4, <1>5, <1>6

LEMMA RecheckKeeps ==
    ASSUME IndInv, NEW x \in Xids, Recheck(x)
    PROVE  Keeps(x)
<1> DEFINE drop == [proc[x] EXCEPT !.pc = "next", !.target = NoTid]
           first == FirstPc(proc[x].kind)
<1>1. proc[x].pc = "recheck" /\ HasTarget(proc[x])
  BY DEF Recheck, At, HasTarget
<1>2. \/ Alone(x, [proc[x] EXCEPT !.pc = first]) /\ Qual(proc[x].qual, heap[proc[x].target])
      \/ Alone(x, drop)
  <2>1. \/ Moves(x, [proc[x] EXCEPT !.pc = first]) /\ Qual(proc[x].qual, heap[proc[x].target])
        \/ Moves(x, drop)
    BY DEF Recheck
  <2> QED
    BY <2>1 DEF Recheck, Alone
<1>3. WriteFits(x, proc[x]) /\ proc[x] \in Procs /\ proc[x].new = NoTid
  BY <1>1, TargetIs DEF WriteFits
<1>4. CASE Alone(x, [proc[x] EXCEPT !.pc = first]) /\ Qual(proc[x].qual, heap[proc[x].target])
  <2>1. first \in {"lock", "stamp"} /\ first \in Pcs
    BY DEF FirstPc, Pcs
  <2> QED
    BY <1>1, <1>3, <1>4, <2>1, MovesOn
<1>5. CASE Alone(x, drop)
  <2>1. /\ drop \in Procs /\ drop.pc = "next" /\ drop.todo = proc[x].todo
        /\ drop.qual = proc[x].qual /\ drop.new = NoTid /\ ~HasTarget(drop)
    BY <1>3 DEF Procs, Pcs, HasTarget, NoTid
  <2> HIDE DEF drop
  <2>2. WriteFits(x, drop)
    BY <1>3, <2>1 DEF WriteFits
  <2> QED
    BY <1>1, <1>5, <2>1, <2>2, GoesOn
<1> QED
  BY <1>2, <1>4, <1>5


\* The statement ends.
LEMMA SameHeap ==
    ASSUME IndInv, NEW x, heap' = heap
    PROVE  HeapStep(x)
  BY DEF IndInv, HeapInv, TupleInv, HeapStep, Rewritten

LEMMA StmtEnds ==
    ASSUME IndInv, NEW x \in Xids, proc[x].pc \notin {"off", "idle"}, EndStmt(x),
           UNCHANGED <<status, iso, load>>, heap' \in Seq(Tuples), HeapStep(x)
    PROVE  Keeps(x)
<1>1. /\ TypeInv' /\ Others(x) /\ SessionInv(x)'
      /\ ScanFits(x, proc[x])' /\ WriteFits(x, proc[x])'
      /\ snap'[x] # NoSnap => snap'[x] = snap[x] /\ atSnap'[x] = atSnap[x]
      /\ iso[x] = "RepeatableRead" => snap'[x] = snap[x] /\ atSnap'[x] = atSnap[x]
  BY EndStmtKeeps
<1>2. status[x] = "running" /\ SnapInv(x)
  BY InStatement
<1>3. Acts(x)
  BY <1>1, <1>2 DEF Acts, StatusStep
<1>4. snap'[x] # NoSnap => SnapInv(x)'
  BY <1>1, <1>2, <1>3, SnapKeeps
<1>5. OwnDeletes(x)'
  BY <1>1, <1>2, <1>3, OwnDeletesKeep
<1> QED
  BY <1>1, <1>3, <1>4, <1>5 DEF Keeps, ProcInv

LEMMA EndScanKeeps ==
    ASSUME IndInv, NEW x \in Xids, EndScan(x)
    PROVE  Keeps(x)
<1> DEFINE todo == {i \in proc[x].out : Qual(proc[x].qual, heap[i])}
           p == [proc[x] EXCEPT !.pc = "next", !.todo = todo]
<1>1. proc[x].pc = "scan"
  BY DEF EndScan, At
<1>2. EndStmt(x) \/ Alone(x, p)
  <2>1. EndStmt(x) \/ (Moves(x, p) /\ UNCHANGED <<snap, atSnap>>)
    BY Zenon DEF EndScan
  <2> QED
    BY <2>1 DEF EndScan, Alone
<1>3. CASE EndStmt(x)
  <2>1. UNCHANGED <<status, heap, iso, load>> /\ heap' \in Seq(Tuples)
    BY DEF EndScan, IndInv, TypeInv
  <2> QED
    BY <1>1, <1>3, <2>1, SameHeap, StmtEnds
<1>4. CASE Alone(x, p)
  <2>1. /\ WriteFits(x, proc[x]) /\ proc[x] \in Procs /\ proc[x].new = NoTid
        /\ proc[x].out \subseteq Chosen(x) /\ proc[x].out \subseteq Nat
    BY <1>1, InStatement, FieldTypes DEF ScanFits, WriteFits, Returned
  <2>2. /\ p \in Procs /\ p.pc = "next" /\ p.todo = todo /\ p.qual = proc[x].qual
        /\ p.new = NoTid
    <3>1. todo \in SUBSET Nat
      BY <2>1
    <3> HIDE DEF todo
    <3> QED
      BY <2>1, <3>1 DEF Procs, Pcs
  <2>3. todo \subseteq Chosen(x) /\ \A i \in todo : Qual(proc[x].qual, heap[i])
    BY <2>1
  <2> HIDE DEF p, todo
  <2>4. ~HasTarget(p)
    BY <2>2 DEF HasTarget
  <2>5. WriteFits(x, p)
    BY <2>2, <2>3, <2>4 DEF WriteFits
  <2> QED
    BY <1>1, <1>4, <2>2, <2>5, GoesOn
<1> QED
  BY <1>2, <1>3, <1>4

LEMMA NextTargetKeeps ==
    ASSUME IndInv, NEW x \in Xids, NextTarget(x)
    PROVE  Keeps(x)
<1> DEFINE todo == proc[x].todo
           i == CHOOSE i \in todo : \A j \in todo : i <= j
           first == FirstPc(proc[x].kind)
           p == [proc[x] EXCEPT !.todo = @ \ {i}, !.target = i, !.pc = first]
<1>1. proc[x].pc = "next"
  BY DEF NextTarget, At
<1>2. EndStmt(x) \/ (todo # {} /\ Alone(x, p))
  <2>1. EndStmt(x) \/ (todo # {} /\ Moves(x, p) /\ UNCHANGED <<snap, atSnap>>)
    BY Zenon DEF NextTarget
  <2> QED
    BY <2>1 DEF NextTarget, Alone
<1>3. CASE EndStmt(x)
  <2>1. UNCHANGED <<status, heap, iso, load>> /\ heap' \in Seq(Tuples)
    BY DEF NextTarget, IndInv, TypeInv
  <2> QED
    BY <1>1, <1>3, <2>1, SameHeap, StmtEnds
<1>4. CASE todo # {} /\ Alone(x, p)
  <2>1. /\ WriteFits(x, proc[x]) /\ proc[x] \in Procs /\ proc[x].new = NoTid
        /\ todo \subseteq Chosen(x) /\ todo \subseteq Nat
    BY <1>1, InStatement, FieldTypes DEF WriteFits
  <2>2. i \in todo
    <3>1. \E m \in todo : \A j \in todo : m <= j
      BY <1>4, <2>1, SmallestOf
    <3> QED
      BY <3>1
  <2>3. first \in {"lock", "stamp"}
    BY DEF FirstPc
  <2> HIDE DEF i, first
  <2>4. /\ p \in Procs /\ p.pc = first /\ p.todo = todo \ {i} /\ p.qual = proc[x].qual
        /\ p.new = NoTid /\ p.target = i
    BY <2>1, <2>2, <2>3 DEF Procs, Pcs
  <2> HIDE DEF p
  <2>5. i \in Chosen(x) /\ i \in DOMAIN heap /\ Qual(proc[x].qual, heap[i])
    BY <2>1, <2>2 DEF WriteFits, Chosen
  <2>6. WriteFits(x, p)
    BY <2>1, <2>3, <2>4, <2>5 DEF WriteFits
  <2> QED
    BY <1>1, <1>4, <2>3, <2>4, <2>6, GoesOn
<1> QED
  BY <1>2, <1>3, <1>4

\* A snapshot just taken sees what is live now.
LEMMA StartStmtKeeps ==
    ASSUME IndInv, NEW x \in Xids, NEW kind \in Kinds, NEW qual \in Quals,
           StartStmt(x, kind, qual)
    PROVE  Keeps(x)
<1> DEFINE pc == IF kind = "insert" THEN "insert" ELSE "scan"
           start == [Off EXCEPT !.pc = pc, !.kind = kind, !.qual = qual, !.pos = 1, !.nblocks = Len(heap)]
           s == IF KeepsSnap(x) THEN snap[x] ELSE Take(x)
           live == IF KeepsSnap(x) THEN atSnap[x] ELSE LiveNow
<1>1. /\ proc[x].pc = "idle" /\ Moves(x, start)
      /\ snap' = [snap EXCEPT ![x] = s] /\ atSnap' = [atSnap EXCEPT ![x] = live]
      /\ UNCHANGED <<status, heap, iso, load>>
  BY DEF StartStmt, At
<1>2. status[x] = "running" /\ TypeInv /\ AssignedInv /\ HeapInv /\ ProcInv(x)
  BY <1>1, InTransaction DEF IndInv
<1>3. Len(heap) \in Nat /\ DOMAIN heap = 1 .. Len(heap)
  BY <1>2, HeapTypes
<1>4. PICK p \in Procs : /\ p = start /\ p.pc = pc /\ p.kind = kind /\ p.pos = 1
                          /\ p.nblocks = Len(heap) /\ p.out = {} /\ p.todo = {} /\ p.new = NoTid
  <2>1. pc \in Pcs
    BY DEF Pcs
  <2> HIDE DEF pc
  <2>2. /\ start \in Procs /\ start.pc = pc /\ start.kind = kind /\ start.pos = 1
        /\ start.nblocks = Len(heap) /\ start.out = {} /\ start.todo = {} /\ start.new = NoTid
    BY <1>2, <1>3, <2>1, ProcTypes DEF Procs, Off
  <2> HIDE DEF start
  <2> QED
    BY <2>2
<1>5. pc \in {"scan", "insert"} /\ (pc = "insert" => kind = "insert")
  OBVIOUS
<1> HIDE DEF start, pc
<1>6. s \in Snaps /\ s # NoSnap /\ live \in SUBSET DOMAIN heap
  BY <1>2, TakeFits, ProcTypes DEF KeepsSnap, LiveNow
<1>7. /\ proc' \in [Xids -> Procs] /\ proc'[x] = p
      /\ snap' \in [Xids -> Snaps] /\ snap'[x] = s
      /\ atSnap' \in [Xids -> SUBSET DOMAIN heap] /\ atSnap'[x] = live
  BY <1>1, <1>2, <1>4, <1>6 DEF Moves, TypeInv
<1>8. TypeInv'
  BY <1>1, <1>2, <1>7 DEF TypeInv
<1>9. Acts(x)
  <2>1. Others(x)
    BY <1>1, <1>2 DEF Others, Moves, TypeInv
  <2> QED
    BY <1>1, <1>2, <2>1, SameHeap DEF Acts, StatusStep
<1>10. SnapInv(x)'
  <2>1. CASE KeepsSnap(x)
    <3>1. SnapInv(x) /\ snap'[x] = snap[x] /\ atSnap'[x] = atSnap[x]
      BY <1>2, <1>7, <2>1 DEF KeepsSnap, ProcInv
    <3> QED
      BY <1>8, <1>9, <3>1, SnapKeeps
  <2>2. CASE ~KeepsSnap(x)
    <3>1. s = Take(x) /\ live = LiveNow
      BY <2>2
    <3>2. /\ s.xid = x /\ s.xmin >= FirstNormalXID
          /\ \A y \in Xids \ {x} : InProgressFor(s, y) <=> status[y] \in {"running", "unassigned"}
      BY <1>2, <3>1, TakeFits
    <3>3. ASSUME NEW y \in Names PROVE Past(s, y) <=> StatusOf(y) = "committed"
      <4>1. CASE y = x
        BY <1>2, <3>2, <4>1, StatusOfXid DEF Past
      <4>2. CASE y \in Xids \ {x}
        BY <1>2, <3>2, <4>2, StatusOfXid DEF Past
      <4>3. CASE y = InvalidXID
        BY <1>2, <4>3, StatusOfXid DEF Past
      <4>4. CASE y = FrozenXID
        <5>1. ~InProgressFor(s, y)
          BY <1>6, <3>2, <4>4 DEF InProgressFor, FrozenXID, FirstNormalXID, Snaps
        <5>2. y # x
          BY <1>2, <4>4, StatusOfXid
        <5> QED
          BY <3>2, <5>1, <5>2 DEF Past
      <4> QED
        BY <4>1, <4>2, <4>3, <4>4 DEF Names
    <3>4. ASSUME NEW i \in DOMAIN heap
          PROVE  i \in live <=> Past(s, heap[i].xmin) /\ ~Past(s, heap[i].xmax)
      <4>1. heap[i].xmin \in Names /\ heap[i].xmax \in Names
        BY <1>2, TupleNames
      <4>2. heap[i].xmax = InvalidXID => StatusOf(heap[i].xmax) # "committed"
        BY <1>2, StatusOfXid
      <4> QED
        BY <3>1, <3>3, <4>1, <4>2 DEF LiveNow
    <3>5. live = {i \in DOMAIN heap : Past(s, heap[i].xmin) /\ ~Past(s, heap[i].xmax)}
      BY <1>6, <3>4
    <3> HIDE DEF s, live
    <3> QED
      BY <1>1, <1>7, <3>2, <3>5 DEF SnapInv, Past, InProgressFor, StatusOf
  <2> QED
    BY <2>1, <2>2
<1>11. ScanFits(x, p)'
  <2>1. Judged(p) = {} \/ p.pc # "scan"
    BY <1>3, <1>4 DEF Judged
  <2>2. Chosen(x)' \subseteq 1 .. Len(heap)
    BY <1>1, <1>3 DEF Chosen
  <2>3. 1 \in 1 .. Len(heap) + 1
    BY <1>3
  <2> QED
    BY <1>1, <1>3, <1>4, <1>5, <2>1, <2>2, <2>3 DEF ScanFits, Judged
<1>12. WriteFits(x, p)'
  <2>1. ~HasTarget(p) /\ p.pc # "bury"
    BY <1>4, <1>5 DEF HasTarget
  <2> QED
    BY <1>4, <2>1 DEF WriteFits, HasTarget
<1>13. SessionInv(x)'
  BY <1>1, <1>2, <1>4, <1>5, <1>6, <1>7 DEF SessionInv
<1>14. OwnDeletes(x)'
  <2>1. CASE KeepsSnap(x)
    <3>1. snap'[x] = snap[x] /\ atSnap'[x] = atSnap[x]
      BY <1>7, <2>1
    <3> QED
      BY <1>1, <1>2, <1>8, <1>9, <3>1, OwnDeletesKeep
  <2>2. CASE iso[x] = "RepeatableRead" /\ snap[x] = NoSnap
    BY <1>1, <1>2, <2>2 DEF ProcInv, OwnDeletes
  <2>3. CASE iso[x] # "RepeatableRead"
    BY <1>1, <2>3 DEF OwnDeletes
  <2> QED
    BY <2>1, <2>2, <2>3 DEF KeepsSnap
<1> QED
  BY <1>7, <1>8, <1>9, <1>10, <1>11, <1>12, <1>13, <1>14 DEF Keeps, ProcInv


-----------------------------------------------------------------------------
(* The steps that write the heap.                                          *)

LEMMA WritesKeep ==
    ASSUME IndInv, NEW x \in Xids, proc[x].pc \notin {"off", "idle"}, NEW p \in Procs, Moves(x, p),
           UNCHANGED <<status, iso, snap, atSnap, load>>, heap' \in Seq(Tuples), HeapStep(x),
           p.pc \notin {"off", "idle"}, ScanFits(x, p)', WriteFits(x, p)'
    PROVE  Keeps(x)
<1>1. status[x] = "running" /\ snap[x] # NoSnap /\ SnapInv(x) /\ TypeInv
  BY InStatement
<1>2. /\ proc' \in [Xids -> Procs] /\ proc'[x] = p
      /\ \A z \in Xids \ {x} : proc'[z] = proc[z]
  BY <1>1 DEF Moves, TypeInv
<1>3. TypeInv'
  BY <1>1, <1>2 DEF TypeInv, HeapStep
<1>4. Acts(x)
  BY <1>1, <1>2 DEF Acts, Others, StatusStep
<1>5. SnapInv(x)' /\ OwnDeletes(x)'
  BY <1>1, <1>3, <1>4, SnapKeeps, OwnDeletesKeep
<1>6. SessionInv(x)'
  BY <1>1, <1>2 DEF SessionInv
<1> QED
  BY <1>2, <1>3, <1>4, <1>5, <1>6 DEF Keeps, ProcInv

\* One version is written over; no version changes its row, value or inserter.
LEMMA OneWritten ==
    ASSUME IndInv, NEW x \in Xids, NEW i \in DOMAIN heap, NEW u \in Tuples,
           heap' = [heap EXCEPT ![i] = u], Rewritten(i, x)
    PROVE  /\ heap' \in Seq(Tuples) /\ DOMAIN heap' = DOMAIN heap /\ HeapStep(x)
           /\ \A j \in DOMAIN heap : heap'[j].val = heap[j].val /\ heap'[j].xmin = heap[j].xmin
           /\ \A j \in DOMAIN heap : j # i => heap'[j] = heap[j]
<1>1. TypeInv /\ HeapInv
  BY DEF IndInv
<1>2. /\ heap' \in Seq(Tuples) /\ DOMAIN heap' = DOMAIN heap
      /\ \A j \in DOMAIN heap : j # i => heap'[j] = heap[j]
  BY <1>1, HeapTypes
<1>3. ASSUME NEW j \in DOMAIN heap PROVE Rewritten(j, x)
  <2>1. CASE j = i
    BY <2>1
  <2>2. CASE j # i
    BY <1>1, <1>2, <2>2 DEF Rewritten, HeapInv, TupleInv
  <2> QED
    BY <2>1, <2>2
<1>4. HeapStep(x)
  BY <1>2, <1>3 DEF HeapStep
<1>5. \A j \in DOMAIN heap : heap'[j].val = heap[j].val /\ heap'[j].xmin = heap[j].xmin
  BY <1>3 DEF Rewritten
<1> QED
  BY <1>2, <1>4, <1>5

\* The versions a statement may still choose.
LEMMA TodoStays ==
    ASSUME NEW x, atSnap' = atSnap, DOMAIN heap \subseteq DOMAIN heap',
           \A j \in DOMAIN heap : heap'[j].val = heap[j].val /\ heap'[j].xmin = heap[j].xmin,
           NEW q, NEW todo, todo \subseteq Chosen(x), \A i \in todo : Qual(q, heap[i])
    PROVE  todo \subseteq Chosen(x)' /\ \A i \in todo : Qual(q, heap[i])'
<1>1. Chosen(x) \subseteq Chosen(x)'
  BY DEF Chosen
<1>2. \A i \in todo : i \in DOMAIN heap
  BY DEF Chosen
<1> QED
  BY <1>1, <1>2 DEF Qual

LEMMA SetHintsKeeps ==
    ASSUME IndInv, NEW x \in Xids, SetHints(x)
    PROVE  Keeps(x)
<1> DEFINE i == proc[x].pos
           t == heap[i]
           hint == proc[x].hint
           bits == IF StillSame(t, hint) THEN t.hints \cup hint.add ELSE t.hints
           v == [t EXCEPT !.hints = bits]
           on == [proc[x] EXCEPT !.pc = "scan", !.pos = @ + 1, !.hint = NoHint]
<1>1. /\ proc[x].pc = "hints" /\ Moves(x, on) /\ heap' = [heap EXCEPT ![i] = v]
      /\ UNCHANGED <<status, iso, snap, atSnap, load>>
  <2>1. heap' = [heap EXCEPT ![i].hints = bits]
    BY Zenon DEF SetHints
  <2>2. [heap EXCEPT ![i].hints = bits] = [heap EXCEPT ![i] = v]
    OBVIOUS
  <2> QED
    BY <2>1, <2>2 DEF SetHints, At
<1>2. /\ TypeInv /\ HeapInv /\ proc[x] \in Procs /\ ScanFits(x, proc[x]) /\ WriteFits(x, proc[x])
  BY <1>1, InStatement DEF IndInv
<1>3. /\ i \in DOMAIN heap /\ t \in Tuples /\ i \in Nat /\ proc[x].nblocks \in Nat
      /\ i <= proc[x].nblocks /\ proc[x].nblocks <= Len(heap) /\ i >= 1
      /\ hint.add \in SUBSET HintBits /\ Truthful(hint.xmin, hint.xmax, hint.add)
  BY <1>1, <1>2, HeapTypes, FieldTypes DEF ScanFits, Hints
<1>4. TupleInv(t)
  BY <1>2, <1>3 DEF HeapInv
<1>5. Truthful(t.xmin, t.xmax, bits) /\ bits \in SUBSET HintBits
  BY <1>3, <1>4 DEF TupleInv, Truthful, StillSame, Tuples
<1> HIDE DEF bits
<1>6. PICK u \in Tuples : /\ u = v /\ u.row = t.row /\ u.val = t.val /\ u.xmin = t.xmin
                          /\ u.xmax = t.xmax /\ u.ctid = t.ctid /\ u.hints = bits
  <2>1. /\ v \in Tuples /\ v.row = t.row /\ v.val = t.val /\ v.xmin = t.xmin
        /\ v.xmax = t.xmax /\ v.ctid = t.ctid /\ v.hints = bits
    BY <1>3, <1>5 DEF Tuples
  <2> QED
    BY <2>1
<1> HIDE DEF v
<1>7. heap' = [heap EXCEPT ![i] = u] /\ heap'[i] = u
  BY <1>1, <1>2, <1>3, <1>6, HeapTypes
<1>8. Rewritten(i, x)
  BY <1>5, <1>6, <1>7 DEF Rewritten
<1>9. /\ heap' \in Seq(Tuples) /\ DOMAIN heap' = DOMAIN heap /\ HeapStep(x)
      /\ \A j \in DOMAIN heap : heap'[j].val = heap[j].val /\ heap'[j].xmin = heap[j].xmin
      /\ \A j \in DOMAIN heap : j # i => heap'[j] = heap[j]
  BY <1>3, <1>7, <1>8, OneWritten
<1>10. \A j \in DOMAIN heap : heap'[j].xmax = heap[j].xmax
  BY <1>6, <1>7, <1>9
<1>11. Chosen(x)' = Chosen(x) /\ Returned(x)' = Returned(x)
  BY <1>1, <1>9, <1>10 DEF Chosen, Returned
<1>12. PICK p \in Procs : /\ p = on /\ p.pc = "scan" /\ p.pos = i + 1 /\ p.out = proc[x].out
                          /\ p.nblocks = proc[x].nblocks /\ p.todo = proc[x].todo
                          /\ p.qual = proc[x].qual /\ p.new = proc[x].new
  <2>1. /\ on \in Procs /\ on.pc = "scan" /\ on.pos = i + 1 /\ on.out = proc[x].out
        /\ on.nblocks = proc[x].nblocks /\ on.todo = proc[x].todo
        /\ on.qual = proc[x].qual /\ on.new = proc[x].new
    <3>1. NoHint \in Hints /\ i + 1 \in Nat /\ "scan" \in Pcs
      BY <1>2, <1>3, ProcTypes DEF Pcs
    <3> QED
      BY <1>2, <3>1 DEF Procs
  <2> QED
    BY <2>1
<1> HIDE DEF on
<1>13. ScanFits(x, p)'
  <2>1. Judged(p) = Judged(proc[x])
    BY <1>1, <1>3, <1>12 DEF Judged
  <2>2. i + 1 \in 1 .. proc[x].nblocks + 1 /\ proc[x].nblocks <= Len(heap)'
    <3>1. proc[x].nblocks \in DOMAIN heap'
      <4>1. DOMAIN heap = 1 .. Len(heap) /\ Len(heap) \in Nat
        BY <1>2, HeapTypes
      <4> QED
        BY <1>3, <1>9, <4>1
    <3>2. DOMAIN heap' = 1 .. Len(heap') /\ Len(heap') \in Nat
      BY <1>9, LenProperties
    <3>3. i \in Nat /\ proc[x].nblocks \in Nat /\ i <= proc[x].nblocks
      BY <1>3
    <3> QED
      BY <3>1, <3>2, <3>3
  <2>3. /\ Chosen(x) \subseteq 1 .. proc[x].nblocks
        /\ proc[x].out = Returned(x) \cap Judged(proc[x])
    BY <1>1, <1>2 DEF ScanFits
  <2>4. Judged(p)' = Judged(p)
    BY DEF Judged
  <2> QED
    BY <1>3, <1>11, <1>12, <2>1, <2>2, <2>3, <2>4 DEF ScanFits
<1>14. WriteFits(x, p)'
  <2>1. proc[x].new = NoTid /\ ~HasTarget(p) /\ p.pc # "bury"
    BY <1>1, <1>2, <1>12 DEF WriteFits, HasTarget
  <2>2. p.todo \subseteq Chosen(x) /\ \A j \in p.todo : Qual(p.qual, heap[j])
    BY <1>2, <1>12 DEF WriteFits
  <2>3. p.todo \subseteq Chosen(x)' /\ \A j \in p.todo : Qual(p.qual, heap[j])'
    BY <1>1, <1>9, <2>2, TodoStays
  <2> QED
    BY <1>12, <2>1, <2>3 DEF WriteFits, HasTarget
<1> QED
  BY <1>1, <1>9, <1>12, <1>13, <1>14, WritesKeep


\* Only an aborted deletion is written over, and only on a version whose
\* inserter committed or is x.
LEMMA OkMeans ==
    ASSUME IndInv, NEW x \in Xids, HasTarget(proc[x]), TM(x) = "TMOk"
    PROVE  LET t == heap[proc[x].target] IN
           StatusOf(t.xmax) = "aborted" /\ (t.xmin = x \/ StatusOf(t.xmin) = "committed")
<1> DEFINE t == heap[proc[x].target]
<1>1. TupleInv(t) /\ TypeInv /\ proc[x].pc \notin {"off", "idle"}
  BY TargetIs
<1>2. snap[x].xid = x
  BY <1>1, InStatement DEF SnapInv
<1>3. XminStatus(snap[x], t) = "committed" /\ (t.xmax = InvalidXID \/ XmaxStatus(t) = "aborted")
  BY DEF TM, Modify
<1>4. StatusOf(t.xmax) = "aborted"
  BY <1>1, <1>3, StatusOfXid DEF XmaxStatus, TupleInv, Truthful
<1>5. t.xmin = x \/ StatusOf(t.xmin) = "committed"
  BY <1>1, <1>2, <1>3 DEF XminStatus, TupleInv, Truthful
<1> QED
  BY <1>4, <1>5

\* What the stamp writes.
LEMMA StampedIs ==
    ASSUME NEW t \in Tuples, NEW x, NEW new
    PROVE  LET u == Stamped(t, x, new) IN
           /\ u.row = t.row /\ u.val = t.val /\ u.xmin = t.xmin /\ u.xmax = x
           /\ u.hints = t.hints \ {"XmaxCommitted", "XmaxInvalid"}
           /\ u.ctid = IF new = NoTid THEN t.ctid ELSE new
  BY DEF Stamped, Tuples

LEMMA StampTargetKeeps ==
    ASSUME IndInv, NEW x \in Xids, StampTarget(x)
    PROVE  Keeps(x)
<1> DEFINE i == proc[x].target
           t == heap[i]
           new == proc[x].new
           done == [proc[x] EXCEPT !.pc = "next", !.new = NoTid, !.target = NoTid]
<1>1. /\ proc[x].pc = "stamp" /\ Moves(x, done) /\ TM(x) = "TMOk" /\ HasTarget(proc[x])
      /\ heap' = [heap EXCEPT ![i] = Stamped(t, x, new)]
      /\ UNCHANGED <<status, iso, snap, atSnap, load>>
  <2>1. heap' = [heap EXCEPT ![i] = Stamped(t, x, new)]
    BY Zenon DEF StampTarget
  <2> QED
    BY <2>1 DEF StampTarget, At, HasTarget
<1>2. /\ TypeInv /\ proc[x] \in Procs /\ WriteFits(x, proc[x]) /\ status[x] = "running"
      /\ i \in DOMAIN heap /\ t \in Tuples /\ TupleInv(t) /\ new \in Nat
  BY <1>1, TargetIs, FieldTypes
<1>3. PICK u \in Tuples : u = Stamped(t, x, new)
  BY <1>2, TupleTypes
<1>4. heap' = [heap EXCEPT ![i] = u] /\ heap'[i] = u
  BY <1>1, <1>2, <1>3, HeapTypes
<1>5. Rewritten(i, x)
  <2>1. StatusOf(t.xmax) = "aborted" /\ (StatusOf(t.xmin) = "running" => t.xmin = x)
    BY <1>1, OkMeans
  <2>2. /\ u.row = t.row /\ u.val = t.val /\ u.xmin = t.xmin /\ u.xmax = x
        /\ u.hints = t.hints \ {"XmaxCommitted", "XmaxInvalid"}
        /\ u.ctid = IF new = NoTid THEN t.ctid ELSE new
    BY <1>2, <1>3, StampedIs
  <2>3. u.ctid \in DOMAIN heap
    BY <1>2, <2>2 DEF TupleInv, WriteFits
  <2> QED
    BY <1>1, <1>2, <1>4, <2>1, <2>2, <2>3 DEF Rewritten
<1>6. /\ heap' \in Seq(Tuples) /\ DOMAIN heap' = DOMAIN heap /\ HeapStep(x)
      /\ \A j \in DOMAIN heap : heap'[j].val = heap[j].val /\ heap'[j].xmin = heap[j].xmin
  BY <1>2, <1>4, <1>5, OneWritten
<1>7. PICK p \in Procs : /\ p = done /\ p.pc = "next" /\ p.todo = proc[x].todo
                         /\ p.qual = proc[x].qual /\ p.new = NoTid
  <2>1. /\ done \in Procs /\ done.pc = "next" /\ done.todo = proc[x].todo
        /\ done.qual = proc[x].qual /\ done.new = NoTid
    BY <1>2 DEF Procs, Pcs, NoTid
  <2> QED
    BY <2>1
<1> HIDE DEF done
<1>8. ScanFits(x, p)'
  BY <1>7 DEF ScanFits
<1>9. WriteFits(x, p)'
  <2>1. p.todo \subseteq Chosen(x) /\ \A j \in p.todo : Qual(p.qual, heap[j])
    BY <1>2, <1>7 DEF WriteFits
  <2>2. p.todo \subseteq Chosen(x)' /\ \A j \in p.todo : Qual(p.qual, heap[j])'
    BY <1>1, <1>6, <2>1, TodoStays
  <2> QED
    BY <1>7, <2>2 DEF WriteFits, HasTarget
<1> QED
  BY <1>1, <1>6, <1>7, <1>8, <1>9, WritesKeep

LEMMA BuryKeeps ==
    ASSUME IndInv, NEW x \in Xids, Bury(x)
    PROVE  Keeps(x)
<1> DEFINE i == proc[x].new
           t == heap[i]
           next == IF TM(x) = "TMInvisible" THEN "error" ELSE "conflict"
           done == [proc[x] EXCEPT !.pc = next, !.new = NoTid]
<1>1. /\ proc[x].pc = "bury" /\ Moves(x, done) /\ HasTarget(proc[x])
      /\ heap' = [heap EXCEPT ![i] = Stamped(t, x, NoTid)]
      /\ UNCHANGED <<status, iso, snap, atSnap, load>>
  <2>1. heap' = [heap EXCEPT ![i] = Stamped(t, x, NoTid)]
    BY Zenon DEF Bury
  <2>2. Moves(x, done)
    BY Zenon DEF Bury
  <2> QED
    BY <2>1, <2>2 DEF Bury, At, HasTarget
<1>2. /\ TypeInv /\ proc[x] \in Procs /\ WriteFits(x, proc[x]) /\ status[x] = "running"
      /\ i \in DOMAIN heap /\ t.xmin = x /\ t.xmax = InvalidXID /\ i # proc[x].target
      /\ proc[x].target \in DOMAIN heap
      /\ iso[x] = "RepeatableRead" => proc[x].target \in Chosen(x)
  BY <1>1, TargetIs DEF WriteFits
<1>3. t \in Tuples /\ TupleInv(t) /\ StatusOf(t.xmax) = "aborted"
  BY <1>2, HeapTypes, StatusOfXid DEF IndInv, HeapInv
<1>4. PICK u \in Tuples : u = Stamped(t, x, NoTid)
  BY <1>2, <1>3, TupleTypes DEF NoTid
<1>5. heap' = [heap EXCEPT ![i] = u] /\ heap'[i] = u
  BY <1>1, <1>2, <1>4, HeapTypes
<1>6. Rewritten(i, x)
  <2>1. /\ u.row = t.row /\ u.val = t.val /\ u.xmin = t.xmin /\ u.xmax = x
        /\ u.hints = t.hints \ {"XmaxCommitted", "XmaxInvalid"} /\ u.ctid = t.ctid
    BY <1>3, <1>4, StampedIs
  <2>2. u.ctid \in DOMAIN heap
    BY <1>3, <2>1 DEF TupleInv
  <2> QED
    BY <1>2, <1>3, <1>5, <2>1, <2>2 DEF Rewritten
<1>7. /\ heap' \in Seq(Tuples) /\ DOMAIN heap' = DOMAIN heap /\ HeapStep(x)
      /\ \A j \in DOMAIN heap : heap'[j].val = heap[j].val /\ heap'[j].xmin = heap[j].xmin
  BY <1>2, <1>5, <1>6, OneWritten
<1>8. next \in {"error", "conflict"} /\ next \in Pcs
  BY DEF Pcs
<1> HIDE DEF next
<1>9. PICK p \in Procs : /\ p = done /\ p.pc = next /\ p.todo = proc[x].todo
                         /\ p.qual = proc[x].qual /\ p.new = NoTid /\ p.target = proc[x].target
  <2>1. /\ done \in Procs /\ done.pc = next /\ done.todo = proc[x].todo
        /\ done.qual = proc[x].qual /\ done.new = NoTid /\ done.target = proc[x].target
    BY <1>2, <1>8 DEF Procs, NoTid
  <2> QED
    BY <2>1
<1> HIDE DEF done
<1>10. ScanFits(x, p)'
  BY <1>8, <1>9 DEF ScanFits
<1>11. WriteFits(x, p)'
  <2>1. p.todo \subseteq Chosen(x) /\ \A j \in p.todo : Qual(p.qual, heap[j])
    BY <1>2, <1>9 DEF WriteFits
  <2>2. p.todo \subseteq Chosen(x)' /\ \A j \in p.todo : Qual(p.qual, heap[j])'
    BY <1>1, <1>7, <2>1, TodoStays
  <2>3. iso'[x] = "RepeatableRead" => p.target \in Chosen(x)'
    BY <1>1, <1>2, <1>7, <1>9 DEF Chosen
  <2>4. p.target \in DOMAIN heap'
    BY <1>2, <1>7, <1>9
  <2> QED
    BY <1>8, <1>9, <2>2, <2>3, <2>4 DEF WriteFits
<1> QED
  BY <1>1, <1>7, <1>8, <1>9, <1>10, <1>11, WritesKeep


\* A version is added at the end.
LEMMA OneAdded ==
    ASSUME IndInv, NEW x \in Xids, NEW u \in Tuples, heap' = Append(heap, u),
           u.xmin = x, u.xmax = InvalidXID, u.ctid = Len(heap) + 1, u.hints = {}
    PROVE  /\ heap' \in Seq(Tuples) /\ DOMAIN heap' = DOMAIN heap \cup {Len(heap) + 1}
           /\ Len(heap) + 1 \notin DOMAIN heap /\ Len(heap) + 1 \in Nat
           /\ heap'[Len(heap) + 1] = u /\ \A j \in DOMAIN heap : heap'[j] = heap[j]
           /\ HeapStep(x)
<1>1. TypeInv /\ HeapInv
  BY DEF IndInv
<1>2. /\ heap' \in Seq(Tuples) /\ DOMAIN heap' = DOMAIN heap \cup {Len(heap) + 1}
      /\ heap'[Len(heap) + 1] = u /\ \A j \in DOMAIN heap : heap'[j] = heap[j]
  BY <1>1, HeapTypes
<1>3. Len(heap) + 1 \notin DOMAIN heap /\ Len(heap) + 1 \in Nat
  <2>1. DOMAIN heap = 1 .. Len(heap) /\ Len(heap) \in Nat
    BY <1>1, HeapTypes
  <2> QED
    BY <2>1
<1>4. \A j \in DOMAIN heap : Rewritten(j, x)
  BY <1>1, <1>2 DEF Rewritten, HeapInv, TupleInv
<1>5. \A j \in DOMAIN heap' \ DOMAIN heap : Added(j, x)
  BY <1>2 DEF Added
<1> QED
  BY <1>2, <1>3, <1>4, <1>5 DEF HeapStep

LEMMA NewTupleIs ==
    ASSUME NEW x \in Xids
    PROVE  \A row, val, tid \in Nat : \E u \in Tuples :
              /\ u = NewTuple(row, val, x, tid) /\ u.xmin = x
              /\ u.xmax = InvalidXID /\ u.ctid = tid /\ u.hints = {}
<1> SUFFICES ASSUME NEW row \in Nat, NEW val \in Nat, NEW tid \in Nat
             PROVE  \E u \in Tuples :
                       /\ u = NewTuple(row, val, x, tid) /\ u.xmin = x
                       /\ u.xmax = InvalidXID /\ u.ctid = tid /\ u.hints = {}
  OBVIOUS
<1> DEFINE u == NewTuple(row, val, x, tid)
<1>1. u \in Tuples /\ u.xmin = x /\ u.xmax = InvalidXID /\ u.ctid = tid /\ u.hints = {}
  BY DEF NewTuple, Tuples
<1> QED
  BY <1>1

LEMMA InsertTupleKeeps ==
    ASSUME IndInv, NEW x \in Xids, InsertTuple(x)
    PROVE  Keeps(x)
<1> DEFINE tid == Len(heap) + 1
           old == heap[proc[x].target]
           more == [proc[x] EXCEPT !.pc = "stamp", !.new = tid]
<1>1. /\ proc[x].pc = "insert" /\ UNCHANGED <<status, iso, load>>
      /\ \/ heap' = Append(heap, NewTuple(tid, 0, x, tid)) /\ EndStmt(x)
         \/ /\ proc[x].kind # "insert" /\ heap' = Append(heap, NewTuple(old.row, old.val + 1, x, tid))
            /\ Moves(x, more) /\ UNCHANGED <<snap, atSnap>>
  <2>1. proc[x].pc = "insert" /\ UNCHANGED <<status, iso, load>>
    BY DEF InsertTuple, At
  <2>2. \/ heap' = Append(heap, NewTuple(tid, 0, x, tid)) /\ EndStmt(x)
        \/ /\ proc[x].kind # "insert" /\ heap' = Append(heap, NewTuple(old.row, old.val + 1, x, tid))
           /\ Moves(x, more) /\ UNCHANGED <<snap, atSnap>>
    BY Zenon DEF InsertTuple
  <2> QED
    BY <2>1, <2>2
<1>2. TypeInv /\ Len(heap) \in Nat /\ tid \in Nat /\ proc[x] \in Procs /\ WriteFits(x, proc[x])
  BY <1>1, InStatement, HeapTypes
<1>3. tid \in Nat
  BY <1>2
<1>4. CASE heap' = Append(heap, NewTuple(tid, 0, x, tid)) /\ EndStmt(x)
  <2>1. PICK u \in Tuples : /\ u = NewTuple(tid, 0, x, tid) /\ u.xmin = x /\ u.xmax = InvalidXID
                            /\ u.ctid = tid /\ u.hints = {}
    <3>1. 0 \in Nat
      OBVIOUS
    <3> QED
      BY <1>2, <3>1, NewTupleIs
  <2>2. heap' \in Seq(Tuples) /\ HeapStep(x)
    BY <1>4, <2>1, OneAdded
  <2> QED
    BY <1>1, <1>4, <2>2, StmtEnds
<1>5. CASE /\ proc[x].kind # "insert" /\ heap' = Append(heap, NewTuple(old.row, old.val + 1, x, tid))
           /\ Moves(x, more) /\ UNCHANGED <<snap, atSnap>>
  <2>1. HasTarget(proc[x])
    BY <1>1, <1>5 DEF HasTarget
  <2>2. /\ proc[x].target \in DOMAIN heap /\ old \in Tuples
        /\ iso[x] = "RepeatableRead" => proc[x].target \in Chosen(x)
        /\ Qual(proc[x].qual, old)
    BY <1>1, <2>1, TargetIs DEF WriteFits
  <2>3. PICK u \in Tuples : /\ u = NewTuple(old.row, old.val + 1, x, tid) /\ u.xmin = x
                            /\ u.xmax = InvalidXID /\ u.ctid = tid /\ u.hints = {}
    <3> DEFINE row == old.row
               val == old.val + 1
    <3>1. row \in Nat /\ val \in Nat
      BY <2>2 DEF Tuples
    <3> HIDE DEF row, val, tid
    <3>2. \E u \in Tuples : /\ u = NewTuple(row, val, x, tid) /\ u.xmin = x
                            /\ u.xmax = InvalidXID /\ u.ctid = tid /\ u.hints = {}
      BY <1>3, <3>1, NewTupleIs, SMTT(30)
    <3> QED
      BY <3>2 DEF row, val
  <2>4. /\ heap' \in Seq(Tuples) /\ DOMAIN heap' = DOMAIN heap \cup {tid} /\ tid \notin DOMAIN heap
        /\ heap'[tid] = u /\ \A j \in DOMAIN heap : heap'[j] = heap[j]
        /\ HeapStep(x)
    BY <1>5, <2>3, OneAdded
  <2>5. PICK p \in Procs : /\ p = more /\ p.pc = "stamp" /\ p.todo = proc[x].todo
                           /\ p.qual = proc[x].qual /\ p.new = tid /\ p.target = proc[x].target
    <3>1. "stamp" \in Pcs
      BY DEF Pcs
    <3>2. /\ more \in Procs /\ more.pc = "stamp" /\ more.todo = proc[x].todo
          /\ more.qual = proc[x].qual /\ more.new = tid /\ more.target = proc[x].target
      BY <1>2, <3>1 DEF Procs
    <3> QED
      BY <3>2
  <2> HIDE DEF more, tid
  <2>6. ScanFits(x, p)'
    BY <2>5 DEF ScanFits
  <2>7. WriteFits(x, p)'
    <3>1. p.todo \subseteq Chosen(x) /\ \A j \in p.todo : Qual(p.qual, heap[j])
      BY <1>2, <2>5 DEF WriteFits
    <3>2. p.todo \subseteq Chosen(x)' /\ \A j \in p.todo : Qual(p.qual, heap[j])'
      BY <1>5, <2>4, <3>1, TodoStays
    <3>3. iso'[x] = "RepeatableRead" => p.target \in Chosen(x)'
      BY <1>1, <1>5, <2>2, <2>4, <2>5 DEF Chosen
    <3>4. p.target \in DOMAIN heap' /\ Qual(p.qual, heap'[p.target])
      BY <2>2, <2>4, <2>5 DEF Qual
    <3>5. /\ p.new # p.target /\ p.new \in DOMAIN heap'
          /\ heap'[p.new].xmin = x /\ heap'[p.new].xmax = InvalidXID
      BY <2>2, <2>3, <2>4, <2>5
    <3> QED
      BY <2>5, <3>2, <3>3, <3>4, <3>5 DEF WriteFits
  <2> QED
    BY <1>1, <1>5, <2>4, <2>5, <2>6, <2>7, WritesKeep
<1> QED
  BY <1>1, <1>4, <1>5

-----------------------------------------------------------------------------
(* The steps that start and end a transaction.                             *)

LEMMA BeginKeeps ==
    ASSUME IndInv, NEW x \in Xids, NEW level \in Levels, Begin(x, level)
    PROVE  Keeps(x) /\ AssignedInv'
<1> DEFINE idle == [proc[x] EXCEPT !.pc = "idle"]
<1>1. /\ x = NextXid /\ \A y \in Assigned : y < x
      /\ status' = [status EXCEPT ![x] = "running"]
      /\ iso' = [iso EXCEPT ![x] = level] /\ Moves(x, idle)
      /\ UNCHANGED <<heap, snap, atSnap, load>>
  BY DEF Begin, XactBegin
<1>2. TypeInv /\ HeapInv /\ AssignedInv /\ ProcInv(x)
  BY DEF IndInv
<1>3. status[x] = "unassigned"
  BY <1>1, <1>2, StatusOfXid DEF Assigned
<1>4. proc[x] = Off /\ snap[x] = NoSnap /\ atSnap[x] = {}
  BY <1>2, <1>3 DEF ProcInv, SessionInv
<1>5. PICK p \in Procs : p = idle /\ p.pc = "idle" /\ p.todo = {} /\ p.new = NoTid
  <2>1. Off \in Procs /\ "idle" \in Pcs
    BY <1>2, ProcTypes DEF Pcs
  <2>2. idle \in Procs /\ idle.pc = "idle" /\ idle.todo = {} /\ idle.new = NoTid
    BY <1>4, <2>1 DEF Procs, Off
  <2> QED
    BY <2>2
<1> HIDE DEF idle
<1>6. /\ status' \in [Xids -> Statuses] /\ status'[x] = "running"
      /\ iso' \in [Xids -> Levels] /\ proc' \in [Xids -> Procs] /\ proc'[x] = p
  BY <1>1, <1>2, <1>5 DEF TypeInv, Statuses, Moves
<1>7. TypeInv'
  BY <1>1, <1>2, <1>6 DEF TypeInv
<1>8. Others(x)
  BY <1>1, <1>2 DEF Others, Moves, TypeInv
<1>9. Acts(x)
  BY <1>1, <1>3, <1>6, <1>8, SameHeap DEF Acts, StatusStep
<1>10. ScanFits(x, p)' /\ WriteFits(x, p)'
  BY <1>5 DEF ScanFits, WriteFits, HasTarget
<1>11. SessionInv(x)'
  BY <1>1, <1>4, <1>5, <1>6 DEF SessionInv
<1>12. OwnDeletes(x)'
  <2>1. StatusOf(x) = "unassigned"
    BY <1>2, <1>3, StatusOfXid
  <2>2. \A i \in DOMAIN heap : heap[i].xmax # x
    BY <1>2, <2>1 DEF HeapInv, TupleInv
  <2> QED
    BY <1>1, <2>2 DEF OwnDeletes
<1>13. AssignedInv'
  <2>1. PICK n \in FirstNormalXID .. MaxXid + 1 : Assigned = FirstNormalXID .. n - 1
    BY <1>2 DEF AssignedInv
  <2>2. n = x /\ x \in FirstNormalXID .. MaxXid
    BY <1>1, <1>2, <2>1, NextXidIs DEF Xids
  <2>3. Assigned' = Assigned \cup {x}
    BY <1>1, <1>2 DEF Assigned, TypeInv
  <2>4. Assigned' = FirstNormalXID .. (x + 1) - 1
    BY <2>1, <2>2, <2>3, XidAssumption DEF FirstNormalXID
  <2>5. x + 1 \in FirstNormalXID .. MaxXid + 1
    BY <2>2, XidAssumption DEF FirstNormalXID
  <2> QED
    BY <2>4, <2>5 DEF AssignedInv
<1> QED
  BY <1>1, <1>4, <1>6, <1>7, <1>9, <1>10, <1>11, <1>12, <1>13 DEF Keeps, ProcInv

LEMMA FinishKeeps ==
    ASSUME IndInv, NEW x \in Xids, NEW verdict \in {"committed", "aborted"}, Finish(x, verdict)
    PROVE  Keeps(x) /\ AssignedInv'
<1>1. /\ status[x] = "running" /\ status' = [status EXCEPT ![x] = verdict]
      /\ Moves(x, Off) /\ snap' = [snap EXCEPT ![x] = NoSnap] /\ atSnap' = [atSnap EXCEPT ![x] = {}]
      /\ UNCHANGED <<heap, iso, load>>
  BY DEF Finish, XactFinish
<1>2. TypeInv /\ AssignedInv
  BY DEF IndInv
<1>3. Off \in Procs /\ NoSnap \in Snaps
  BY <1>2, ProcTypes
<1>4. /\ status' \in [Xids -> Statuses] /\ status'[x] = verdict
      /\ proc' \in [Xids -> Procs] /\ proc'[x] = Off
      /\ snap' \in [Xids -> Snaps] /\ snap'[x] = NoSnap
      /\ atSnap' \in [Xids -> SUBSET DOMAIN heap] /\ atSnap'[x] = {}
  BY <1>1, <1>2, <1>3 DEF TypeInv, Statuses, Moves
<1>5. TypeInv'
  BY <1>1, <1>2, <1>4 DEF TypeInv
<1>6. Others(x)
  BY <1>1, <1>2 DEF Others, Moves, TypeInv
<1>7. Acts(x)
  BY <1>1, <1>4, <1>6, SameHeap DEF Acts, StatusStep
<1>8. ScanFits(x, Off)' /\ WriteFits(x, Off)'
  BY DEF ScanFits, WriteFits, HasTarget, Off
<1>9. SessionInv(x)' /\ OwnDeletes(x)'
  BY <1>4 DEF SessionInv, OwnDeletes, Off
<1>10. Assigned' = Assigned
  BY <1>1, <1>2 DEF Assigned, TypeInv
<1>11. AssignedInv'
  BY <1>2, <1>10 DEF AssignedInv
<1> QED
  BY <1>4, <1>5, <1>7, <1>8, <1>9, <1>11 DEF Keeps, ProcInv


-----------------------------------------------------------------------------
(* The invariant.                                                          *)

THEOREM InitInv == Init => IndInv
<1> SUFFICES ASSUME Init PROVE IndInv
  OBVIOUS
<1>1. load \in Workloads /\ load.rows \in 0 .. MaxTuples /\ MaxTuples \in Nat
  BY HeapAssumption DEF Init
<1>2. heap = [i \in 1 .. load.rows |-> NewTuple(i, 0, FrozenXID, i)] /\ load.rows \in Nat
  BY <1>1 DEF Init
<1>3. DOMAIN heap = 1 .. load.rows
  BY <1>2
<1>4. ASSUME NEW i \in 1 .. load.rows
      PROVE  /\ heap[i] \in Tuples /\ heap[i].xmin = FrozenXID /\ heap[i].xmax = InvalidXID
             /\ heap[i].ctid = i /\ heap[i].hints = {}
  BY <1>2, <1>4 DEF NewTuple, Tuples
<1>5. heap \in Seq(Tuples)
  <2>1. heap \in [1 .. load.rows -> Tuples]
    BY <1>2, <1>3, <1>4
  <2> QED
    BY <1>2, <2>1, SeqDef
<1>6. /\ status = [x \in Xids |-> "unassigned"] /\ iso = [x \in Xids |-> "ReadCommitted"]
      /\ snap = [x \in Xids |-> NoSnap] /\ proc = [x \in Xids |-> Off]
      /\ atSnap = [x \in Xids |-> {}]
  BY DEF Init, XactInit
<1>7. Off \in Procs /\ NoSnap \in Snaps
  BY DEF Off, NoHint, NoSnap, Procs, Hints, Names, Snaps, Pcs, Kinds, Quals, NoTid, InvalidXID
<1>8. TypeInv
  BY <1>1, <1>5, <1>6, <1>7 DEF TypeInv, Statuses, Levels
<1>9. AssignedInv
  <2>1. Assigned = {} /\ FirstNormalXID .. FirstNormalXID - 1 = {}
    BY <1>6 DEF Assigned, FirstNormalXID
  <2>2. FirstNormalXID \in FirstNormalXID .. MaxXid + 1
    BY XidAssumption DEF FirstNormalXID
  <2> QED
    BY <2>1, <2>2 DEF AssignedInv
<1>10. HeapInv
  BY <1>3, <1>4, <1>8, StatusOfXid DEF HeapInv, TupleInv, Truthful
<1>11. ASSUME NEW x \in Xids PROVE ProcInv(x)
  <2>1. status[x] = "unassigned" /\ proc[x] = Off /\ snap[x] = NoSnap /\ atSnap[x] = {}
    BY <1>6
  <2>2. ScanFits(x, Off) /\ WriteFits(x, Off)
    BY DEF ScanFits, WriteFits, HasTarget, Off
  <2>3. Off.pc = "off"
    BY DEF Off
  <2> QED
    BY <2>1, <2>2, <2>3 DEF ProcInv, SessionInv, OwnDeletes
<1> QED
  BY <1>8, <1>9, <1>10, <1>11 DEF IndInv

\* The steps of a statement once it has started.
InsideStmt(x) ==
    \/ ReadBlock(x) \/ SetHints(x) \/ EndScan(x)
    \/ NextTarget(x) \/ WaitForOther(x) \/ Wake(x) \/ CheckTarget(x)
    \/ InsertTuple(x) \/ StampTarget(x) \/ StampFails(x) \/ Bury(x)
    \/ Conflict(x) \/ Recheck(x)

LEMMA InsideKeeps ==
    ASSUME IndInv, NEW x \in Xids, InsideStmt(x)
    PROVE  Keeps(x) /\ status' = status
<1>1. ASSUME ReadBlock(x) PROVE Keeps(x) /\ status' = status
  <2>1. status' = status
    BY <1>1 DEF ReadBlock
  <2> QED
    BY <1>1, <2>1, ReadBlockKeeps
<1>2. ASSUME SetHints(x) PROVE Keeps(x) /\ status' = status
  <2>1. status' = status
    BY <1>2 DEF SetHints
  <2> QED
    BY <1>2, <2>1, SetHintsKeeps
<1>3. ASSUME EndScan(x) PROVE Keeps(x) /\ status' = status
  <2>1. status' = status
    BY <1>3 DEF EndScan
  <2> QED
    BY <1>3, <2>1, EndScanKeeps
<1>4. ASSUME NextTarget(x) PROVE Keeps(x) /\ status' = status
  <2>1. status' = status
    BY <1>4 DEF NextTarget
  <2> QED
    BY <1>4, <2>1, NextTargetKeeps
<1>5. ASSUME WaitForOther(x) PROVE Keeps(x) /\ status' = status
  <2>1. status' = status
    BY <1>5 DEF WaitForOther
  <2> QED
    BY <1>5, <2>1, WaitForOtherKeeps
<1>6. ASSUME Wake(x) PROVE Keeps(x) /\ status' = status
  <2>1. status' = status
    BY <1>6 DEF Wake
  <2> QED
    BY <1>6, <2>1, WakeKeeps
<1>7. ASSUME CheckTarget(x) PROVE Keeps(x) /\ status' = status
  <2>1. status' = status
    BY <1>7 DEF CheckTarget
  <2> QED
    BY <1>7, <2>1, CheckTargetKeeps
<1>8. ASSUME InsertTuple(x) PROVE Keeps(x) /\ status' = status
  <2>1. status' = status
    BY <1>8 DEF InsertTuple
  <2> QED
    BY <1>8, <2>1, InsertTupleKeeps
<1>9. ASSUME StampTarget(x) PROVE Keeps(x) /\ status' = status
  <2>1. status' = status
    BY <1>9 DEF StampTarget
  <2> QED
    BY <1>9, <2>1, StampTargetKeeps
<1>10. ASSUME StampFails(x) PROVE Keeps(x) /\ status' = status
  <2>1. status' = status
    BY <1>10 DEF StampFails
  <2> QED
    BY <1>10, <2>1, StampFailsKeeps
<1>11. ASSUME Bury(x) PROVE Keeps(x) /\ status' = status
  <2>1. status' = status
    BY <1>11 DEF Bury
  <2> QED
    BY <1>11, <2>1, BuryKeeps
<1>12. ASSUME Conflict(x) PROVE Keeps(x) /\ status' = status
  <2>1. status' = status
    BY <1>12 DEF Conflict
  <2> QED
    BY <1>12, <2>1, ConflictKeeps
<1>13. ASSUME Recheck(x) PROVE Keeps(x) /\ status' = status
  <2>1. status' = status
    BY <1>13 DEF Recheck
  <2> QED
    BY <1>13, <2>1, RecheckKeeps
<1> QED
  BY Zenon, <1>1, <1>2, <1>3, <1>4, <1>5, <1>6, <1>7,
     <1>8, <1>9, <1>10, <1>11, <1>12, <1>13 DEF InsideStmt

\* Every step is one session's.
LEMMA StepKeeps ==
    ASSUME IndInv, Next
    PROVE  \E x \in Xids : Keeps(x) /\ AssignedInv'
<1>1. PICK x \in Xids :
        \/ \E level \in load.levels : Begin(x, level)
        \/ \E kind \in load.kinds, qual \in load.quals : StartStmt(x, kind, qual)
        \/ Finish(x, "committed") \/ Finish(x, "aborted")
        \/ InsideStmt(x)
  BY Zenon DEF Next, InsideStmt
<1>2. load.levels \subseteq Levels /\ load.kinds \subseteq Kinds /\ load.quals \subseteq Quals
  BY LoadTypes DEF IndInv
<1>3. CASE \E level \in load.levels : Begin(x, level)
  BY <1>2, <1>3, BeginKeeps
<1>4. CASE Finish(x, "committed") \/ Finish(x, "aborted")
  BY <1>4, FinishKeeps
<1>5. status' = status => AssignedInv'
  BY DEF IndInv, AssignedInv, Assigned
<1>6. CASE \E kind \in load.kinds, qual \in load.quals : StartStmt(x, kind, qual)
  <2>1. PICK kind \in Kinds, qual \in Quals : StartStmt(x, kind, qual)
    BY <1>2, <1>6
  <2>2. status' = status
    BY <2>1 DEF StartStmt
  <2> QED
    BY <1>5, <2>1, <2>2, StartStmtKeeps
<1>7. CASE InsideStmt(x)
  BY <1>5, <1>7, InsideKeeps
<1> QED
  BY <1>1, <1>3, <1>4, <1>6, <1>7

THEOREM NextInv == IndInv /\ [Next]_vars => IndInv'
<1> SUFFICES ASSUME IndInv, [Next]_vars PROVE IndInv'
  OBVIOUS
<1>1. CASE Next
  <2>1. PICK x \in Xids : TypeInv' /\ Acts(x) /\ ProcInv(x)' /\ AssignedInv'
    BY <1>1, StepKeeps DEF Keeps
  <2>2. HeapInv'
    BY <2>1, HeapKeeps
  <2>3. ASSUME NEW z \in Xids PROVE ProcInv(z)'
    BY <2>1, OthersKeep
  <2> QED
    BY <2>1, <2>2, <2>3 DEF IndInv
<1>2. CASE UNCHANGED vars
  BY <1>2 DEF vars, IndInv, TypeInv, AssignedInv, Assigned, HeapInv, TupleInv, Truthful, StatusOf,
     ProcInv, SnapInv, Past, InProgressFor, ScanFits, Chosen, Returned, WriteFits, Qual,
     SessionInv, OwnDeletes
<1> QED
  BY <1>1, <1>2

THEOREM Invariance == Spec => []IndInv
  BY InitInv, NextInv, PTL DEF Spec


-----------------------------------------------------------------------------
(* What follows from it.                                                   *)

\* A hint bit never lies, whoever set it and whatever the tuple has become
\* between the judgement and the write (heap.setHints).
THEOREM HintsAlwaysTrue == Spec => []HintsAreTrue
<1>1. IndInv => HintsAreTrue
  BY DEF IndInv, HeapInv, TupleInv, Truthful, HintsAreTrue, InvalidXID
<1> QED
  BY <1>1, Invariance, PTL

\* A scan returns what its snapshot saw, its own inserts and not its own
\* deletes, with any number of writers between two of its blocks.
THEOREM ScanAlwaysExact == Spec => []ScanIsExact
<1>1. IndInv => ScanIsExact
  <2> SUFFICES ASSUME IndInv, NEW x \in Xids, ScanDone(x)
               PROVE  proc[x].out = {i \in atSnap[x] : heap[i].xmax # x} \cup
                                    {i \in DOMAIN heap : heap[i].xmin = x /\ heap[i].xmax # x}
    BY DEF ScanIsExact
  <2>1. /\ proc[x].pc = "scan" /\ proc[x].pos > proc[x].nblocks /\ TypeInv
        /\ ScanFits(x, proc[x]) /\ proc[x].nblocks \in Nat /\ proc[x].pos \in Nat
    BY InStatement, FieldTypes DEF ScanDone
  <2>2. Judged(proc[x]) = 1 .. proc[x].nblocks
    BY <2>1 DEF Judged
  <2>3. proc[x].out = Returned(x)
    BY <2>1, <2>2 DEF ScanFits, Returned
  <2>4. atSnap[x] \subseteq DOMAIN heap
    BY <2>1, ProcTypes
  <2> QED
    BY <2>3, <2>4 DEF Returned, Chosen
<1> QED
  BY <1>1, Invariance, PTL

\* A REPEATABLE READ transaction deletes or updates no version that its
\* snapshot does not see and that it did not write itself.
THEOREM RepeatableReadAlways == Spec => []RepeatableReadWrites
<1>1. IndInv => RepeatableReadWrites
  BY DEF IndInv, ProcInv, OwnDeletes, Chosen, RepeatableReadWrites
<1> QED
  BY <1>1, Invariance, PTL

\* First updater wins: no step writes over the deletion of a committed
\* transaction, nor over the link to the version that replaced the row.
THEOREM CommittedDeletesStay == Spec => CommittedDeleteStays
<1>1. ASSUME IndInv, [Next]_vars
      PROVE  \A i \in DOMAIN heap :
                heap[i].xmax # 0 /\ StatusOf(heap[i].xmax) = "committed"
                   => heap'[i].xmax = heap[i].xmax /\ heap'[i].ctid = heap[i].ctid
  <2>1. CASE Next
    <3>1. PICK x \in Xids : Acts(x)
      BY <1>1, <2>1, StepKeeps DEF Keeps
    <3> QED
      BY <3>1 DEF Acts, HeapStep, Rewritten
  <2>2. CASE UNCHANGED vars
    BY <2>2 DEF vars
  <2> QED
    BY <1>1, <2>1, <2>2
<1> QED
  BY <1>1, Invariance, PTL DEF Spec, CommittedDeleteStays

\* No statement changes a row its WHERE clause rejects, wherever the chain
\* of versions led it (modifyTable.recheck).
THEOREM QualsAlwaysHold == Spec => QualsHold
<1>1. ASSUME IndInv, [Next]_vars
      PROVE  \A x \in Xids, i \in DOMAIN heap :
                heap'[i].xmax = x /\ heap[i].xmax # x /\ i # proc[x].new
                   => Qual(proc[x].qual, heap[i])
  <2> SUFFICES ASSUME NEW x \in Xids, NEW i \in DOMAIN heap,
                      heap'[i].xmax = x, heap[i].xmax # x, i # proc[x].new
               PROVE  Qual(proc[x].qual, heap[i])
    OBVIOUS
  <2>1. Next
    BY <1>1 DEF vars
  <2>2. PICK y \in Xids : Acts(y)
    BY <1>1, <2>1, StepKeeps DEF Keeps
  <2>3. proc[x].pc = "stamp" /\ i = proc[x].target
    BY <2>2 DEF Acts, HeapStep, Rewritten
  <2> QED
    BY <1>1, <2>3, InStatement DEF WriteFits, HasTarget
<1> QED
  BY <1>1, Invariance, PTL DEF Spec, QualsHold

-----------------------------------------------------------------------------
(* Sums over the transactions.  An induction goes through the first ID     *)
(* that breaks a claim.                                                    *)

Term(w, n) == IF n \in Xids THEN w[n] ELSE 0

\* The partial sums up to the k-th, as the recursive definition lists them.
SumsTo(w, g, k) == g = [n \in 0 .. k |-> IF n = 0 THEN 0 ELSE g[n - 1] + Term(w, n)]

LEMMA SumsToGrow ==
    ASSUME NEW w, NEW k \in Nat, \E g : SumsTo(w, g, k)
    PROVE  \E g : SumsTo(w, g, k + 1)
<1>1. PICK g : SumsTo(w, g, k)
  OBVIOUS
<1> DEFINE h == [n \in 0 .. k + 1 |-> IF n = k + 1 THEN g[k] + Term(w, n) ELSE g[n]]
<1>2. ASSUME NEW n \in 0 .. k PROVE h[n] = g[n]
  OBVIOUS
<1>3. h[k + 1] = g[k] + Term(w, k + 1)
  OBVIOUS
<1>4. ASSUME NEW n \in 0 .. k + 1
      PROVE  h[n] = IF n = 0 THEN 0 ELSE h[n - 1] + Term(w, n)
  <2> HIDE DEF h
  <2>1. CASE n = k + 1
    <3>1. n # 0 /\ n - 1 = k /\ k \in 0 .. k
      BY <2>1
    <3>2. h[k] = g[k]
      BY <1>2, <3>1
    <3> QED
      BY <1>3, <2>1, <3>1, <3>2
  <2>2. CASE n = 0
    <3>1. g[0] = 0
      BY <1>1 DEF SumsTo
    <3> QED
      BY <1>2, <2>2, <3>1
  <2>3. CASE n # 0 /\ n # k + 1
    <3>1. n \in 0 .. k /\ n - 1 \in 0 .. k
      BY <2>3
    <3>2. g[n] = g[n - 1] + Term(w, n)
      BY <1>1, <2>3, <3>1 DEF SumsTo
    <3>3. h[n] = g[n] /\ h[n - 1] = g[n - 1]
      BY <1>2, <3>1
    <3> QED
      BY <2>3, <3>2, <3>3
  <2> QED
    BY <2>1, <2>2, <2>3
<1>5. SumsTo(w, h, k + 1)
  <2> DEFINE r == [n \in 0 .. k + 1 |-> IF n = 0 THEN 0 ELSE h[n - 1] + Term(w, n)]
  <2>1. \A n \in 0 .. k + 1 : h[n] = r[n]
    BY <1>4
  <2>2. h = r
    BY <2>1
  <2> QED
    BY <2>2 DEF SumsTo
<1> QED
  BY <1>5

LEMMA SumsAreDefined == \A w : \A k \in Nat : \E g : SumsTo(w, g, k)
<1> TAKE w
<1> DEFINE Bad == {k \in Nat : ~\E g : SumsTo(w, g, k)}
<1>1. SUFFICES ASSUME Bad # {} PROVE FALSE
  OBVIOUS
<1>2. PICK m \in Bad : \A n \in Bad : m <= n
  BY <1>1, SmallestOf
<1>3. CASE m = 0
  <2> DEFINE g == [n \in 0 .. 0 |-> 0]
  <2>1. g = [n \in 0 .. 0 |-> IF n = 0 THEN 0 ELSE g[n - 1] + Term(w, n)]
    OBVIOUS
  <2>2. SumsTo(w, g, 0)
    BY <2>1 DEF SumsTo
  <2> QED
    BY <1>3, <2>2
<1>4. CASE m # 0
  <2>1. m - 1 \in Nat /\ (m - 1) + 1 = m /\ ~(m <= m - 1)
    BY <1>4
  <2>2. \E g : SumsTo(w, g, m - 1)
    BY <1>2, <2>1
  <2>3. \E g : SumsTo(w, g, m)
    BY <2>1, <2>2, SumsToGrow
  <2> QED
    BY <2>3
<1> QED
  BY <1>3, <1>4

\* Total is the last of the partial sums.
LEMMA TotalIsLast ==
    ASSUME NEW w
    PROVE  \E g : SumsTo(w, g, MaxXid) /\ Total(w) = g[MaxXid]
<1> DEFINE sum == CHOOSE g : SumsTo(w, g, MaxXid)
<1>1. SumsTo(w, sum, MaxXid)
  BY SumsAreDefined, XidAssumption
<1>2. Total(w) = sum[MaxXid]
  BY DEF Total, SumsTo, Term
<1> QED
  BY <1>1, <1>2

LEMMA SumsStep ==
    ASSUME NEW w, NEW g, NEW k \in Nat, SumsTo(w, g, k)
    PROVE  g[0] = 0 /\ \A n \in 0 .. k : n # 0 => g[n] = g[n - 1] + Term(w, n)
  BY DEF SumsTo

\* A sum of naturals is one, and the sum of nothing is zero.
LEMMA TotalIs ==
    ASSUME NEW w \in [Xids -> Nat]
    PROVE  Total(w) \in Nat /\ ((\A x \in Xids : w[x] = 0) => Total(w) = 0)
<1>1. PICK g : SumsTo(w, g, MaxXid) /\ Total(w) = g[MaxXid]
  BY TotalIsLast
<1> DEFINE Fine(n) == g[n] \in Nat /\ ((\A x \in Xids : w[x] = 0) => g[n] = 0)
           Bad == {n \in 0 .. MaxXid : ~Fine(n)}
<1>2. MaxXid \in Nat
  BY XidAssumption
<1>3. SUFFICES Bad = {}
  BY <1>1, <1>2
<1>4. SUFFICES ASSUME Bad # {} PROVE FALSE
  OBVIOUS
<1>5. PICK m \in Bad : \A n \in Bad : m <= n
  <2>1. Bad \in SUBSET Nat
    BY <1>2
  <2> HIDE DEF Bad
  <2> QED
    BY <1>4, <2>1, SmallestOf
<1>6. m # 0
  <2>1. g[0] = 0
    BY <1>1, <1>2, SumsStep
  <2> QED
    BY <1>5, <2>1
<1>7. m \in 0 .. MaxXid /\ m - 1 \in 0 .. MaxXid /\ ~(m <= m - 1)
  BY <1>2, <1>5, <1>6
<1>8. Fine(m - 1)
  BY <1>5, <1>7
<1>9. g[m] = g[m - 1] + Term(w, m)
  BY <1>1, <1>2, <1>6, <1>7, SumsStep
<1>10. Term(w, m) \in Nat /\ ((\A x \in Xids : w[x] = 0) => Term(w, m) = 0)
  BY DEF Term
<1>11. Fine(m)
  BY <1>8, <1>9, <1>10
<1> QED
  BY <1>5, <1>11

\* Two sums whose terms differ in one place differ by as much.
LEMMA TotalMoves ==
    ASSUME NEW v \in [Xids -> Nat], NEW w \in [Xids -> Nat], NEW x \in Xids,
           \A y \in Xids \ {x} : v[y] = w[y]
    PROVE  Total(v) + w[x] = Total(w) + v[x]
<1>1. PICK g : SumsTo(w, g, MaxXid) /\ Total(w) = g[MaxXid]
  BY TotalIsLast
<1>2. PICK h : SumsTo(v, h, MaxXid) /\ Total(v) = h[MaxXid]
  BY TotalIsLast
<1> DEFINE Fine(n) == /\ g[n] \in Int /\ h[n] \in Int
                      /\ n < x => h[n] = g[n]
                      /\ n >= x => h[n] + w[x] = g[n] + v[x]
           Bad == {n \in 0 .. MaxXid : ~Fine(n)}
<1>3. MaxXid \in Nat /\ x \in 0 .. MaxXid /\ x > 0
  BY XidAssumption DEF Xids, FirstNormalXID
<1>4. SUFFICES Bad = {}
  BY <1>1, <1>2, <1>3
<1>5. SUFFICES ASSUME Bad # {} PROVE FALSE
  OBVIOUS
<1>6. PICK m \in Bad : \A n \in Bad : m <= n
  <2>1. Bad \in SUBSET Nat
    BY <1>3
  <2> HIDE DEF Bad
  <2> QED
    BY <1>5, <2>1, SmallestOf
<1>7. m # 0
  <2>1. g[0] = 0 /\ h[0] = 0
    BY <1>1, <1>2, <1>3, SumsStep
  <2> QED
    BY <1>3, <1>6, <2>1
<1>8. m \in 0 .. MaxXid /\ m - 1 \in 0 .. MaxXid /\ ~(m <= m - 1)
  BY <1>3, <1>6, <1>7
<1>9. Fine(m - 1)
  BY <1>6, <1>8
<1>10. g[m] = g[m - 1] + Term(w, m) /\ h[m] = h[m - 1] + Term(v, m)
  BY <1>1, <1>2, <1>3, <1>7, <1>8, SumsStep
<1>11. /\ Term(w, m) \in Nat /\ Term(v, m) \in Nat /\ w[x] \in Nat /\ v[x] \in Nat
       /\ IF m = x THEN Term(w, m) = w[x] /\ Term(v, m) = v[x] ELSE Term(v, m) = Term(w, m)
  BY DEF Term
<1>12. Fine(m)
  BY <1>3, <1>8, <1>9, <1>10, <1>11
<1> QED
  BY <1>6, <1>12

-----------------------------------------------------------------------------
(* No lost update.                                                         *)

\* A version that its inserter may yet have to bury.
Pending(i) == \E x \in Xids : proc[x].new = i

\* A version that is the row's for nobody but those who still see the past.
Gone(t) == StatusOf(t.xmin) = "aborted" \/ StatusOf(t.xmax) = "committed" \/ t.xmax = t.xmin

\* One of the two versions makes room for the other.
Parted(t, u) == Gone(t) \/ Gone(u) \/ t.xmax = u.xmin \/ u.xmax = t.xmin

\* A row is named by its first version.
RowInv(i) == heap[i].row \in 1 .. i

\* A row has one version at a time.
PairInv(i, j) ==
    i # j /\ heap[i].row = heap[j].row => Pending(i) \/ Pending(j) \/ Parted(heap[i], heap[j])

\* Who has written a row holds it: the row has no version that x did not
\* insert or delete.
Held(x, i) == Pending(i) \/ Gone(heap[i]) \/ heap[i].xmin = x \/ heap[i].xmax = x

OwnInv(x) == \A r \in Tids : wrote[x][r] # 0 =>
    /\ status[x] # "unassigned" /\ r \in DOMAIN heap
    /\ status[x] = "running" => \A i \in DOMAIN heap : heap[i].row = r => Held(x, i)

\* A new version counts one update more than the one it is to replace.
NewInv(x) == LET p == proc[x] IN p.new # NoTid =>
    heap[p.new].row = heap[p.target].row /\ heap[p.new].val = heap[p.target].val + 1

\* The updates of a version's inserter, while they may still come to nothing.
Unsure(t) == IF StatusOf(t.xmin) = "running" THEN wrote[t.xmin][t.row] ELSE 0

ValInv(i) == Pending(i) \/ Gone(heap[i]) \/ heap[i].val = CountOf(heap[i].row) + Unsure(heap[i])

VersionsInv ==
    \A i \in DOMAIN heap : RowInv(i) /\ ValInv(i) /\ \A j \in DOMAIN heap : PairInv(i, j)

CountInv ==
    /\ wrote \in [Xids -> [Tids -> Nat]] /\ Len(heap) <= MaxTuples
    /\ VersionsInv
    /\ \A x \in Xids : OwnInv(x) /\ NewInv(x)

\* A version waits for its inserter's stamp, or for its grave, only within
\* the inserter's UPDATE.
LEMMA NewIs ==
    ASSUME IndInv, NEW x \in Xids, proc[x].new # NoTid
    PROVE  /\ proc[x].pc \in {"stamp", "bury"} /\ proc[x].new \in DOMAIN heap
           /\ proc[x].target \in DOMAIN heap /\ proc[x].new # proc[x].target
           /\ heap[proc[x].new].xmin = x /\ heap[proc[x].new].xmax = InvalidXID
           /\ status[x] = "running"
<1>1. WriteFits(x, proc[x])
  BY DEF IndInv, ProcInv
<1>2. proc[x].pc \in {"stamp", "bury"} /\ proc[x].new \in DOMAIN heap
  BY <1>1 DEF WriteFits
<1>3. HasTarget(proc[x])
  BY <1>2 DEF HasTarget
<1> QED
  BY <1>1, <1>2, <1>3, InTransaction DEF WriteFits

\* A row's number is a TID, and a version's fields are what TypeInv says.
LEMMA VersionIs ==
    ASSUME IndInv, CountInv, NEW i \in DOMAIN heap
    PROVE  /\ heap[i].row \in Tids /\ heap[i].row \in DOMAIN heap /\ heap[i].row <= i
           /\ heap[i].val \in Nat /\ i \in Nat /\ i # NoTid
           /\ heap[i].xmin \in Xids \cup {FrozenXID} /\ heap[i].xmax \in Xids \cup {InvalidXID}
<1>1. TypeInv /\ Len(heap) <= MaxTuples /\ RowInv(i) /\ MaxTuples \in Nat
  BY HeapAssumption DEF IndInv, CountInv, VersionsInv
<1>2. DOMAIN heap = 1 .. Len(heap) /\ Len(heap) \in Nat /\ heap[i] \in Tuples
      /\ i \in Nat /\ i # NoTid
  BY <1>1, HeapTypes
<1>3. heap[i].row \in 1 .. i /\ i <= Len(heap)
  BY <1>1, <1>2 DEF RowInv
<1> QED
  BY <1>1, <1>2, <1>3 DEF Tids, Tuples

\* What a version's fields say of transactions.
LEMMA NamesAre ==
    ASSUME IndInv, CountInv, NEW i \in DOMAIN heap
    PROVE  /\ StatusOf(heap[i].xmin) \in {"running", "committed", "aborted"}
           /\ StatusOf(heap[i].xmax) \in {"running", "committed", "aborted"}
           /\ StatusOf(heap[i].xmin) = "running" =>
                 /\ heap[i].xmin \in Xids /\ status[heap[i].xmin] = "running"
                 /\ heap[i].xmax \in {InvalidXID, heap[i].xmin}
           /\ StatusOf(InvalidXID) = "aborted"
           /\ \A x \in Xids : StatusOf(x) = status[x] /\ x # InvalidXID
<1>1. TypeInv /\ TupleInv(heap[i])
  BY DEF IndInv, HeapInv
<1>2. /\ StatusOf(InvalidXID) = "aborted" /\ StatusOf(FrozenXID) = "committed"
      /\ \A x \in Xids : StatusOf(x) = status[x] /\ x # InvalidXID /\ status[x] \in Statuses
  BY <1>1, StatusOfXid DEF TypeInv
<1>3. heap[i].xmin \in Xids \cup {FrozenXID} /\ heap[i].xmax \in Xids \cup {InvalidXID}
  BY VersionIs
<1>4. CASE heap[i].xmin = FrozenXID
  BY <1>1, <1>2, <1>3, <1>4 DEF TupleInv, Statuses
<1>5. CASE heap[i].xmin \in Xids
  BY <1>1, <1>2, <1>3, <1>5 DEF TupleInv, Statuses
<1> QED
  BY <1>3, <1>4, <1>5

\* How many updates of a row are in the log.
LEMMA CountTypes ==
    ASSUME CountInv, NEW r \in Tids
    PROVE  /\ CountOf(r) \in Nat
           /\ (\A x \in Xids : wrote[x][r] = 0) => CountOf(r) = 0
<1> DEFINE w == [x \in Xids |-> IF status[x] = "committed" THEN wrote[x][r] ELSE 0]
<1>1. w \in [Xids -> Nat]
  BY DEF CountInv
<1>2. (\A x \in Xids : wrote[x][r] = 0) => \A x \in Xids : w[x] = 0
  OBVIOUS
<1>3. CountOf(r) = Total(w)
  BY DEF CountOf
<1> HIDE DEF w
<1> QED
  BY <1>1, <1>2, <1>3, TotalIs

LEMMA CountStays ==
    ASSUME NEW r, \A z \in Xids : (status'[z] = "committed") <=> (status[z] = "committed"),
           \A z \in Xids : status[z] = "committed" => wrote'[z][r] = wrote[z][r]
    PROVE  CountOf(r)' = CountOf(r)
<1> DEFINE w == [x \in Xids |-> IF status[x] = "committed" THEN wrote[x][r] ELSE 0]
           v == [x \in Xids |-> IF status'[x] = "committed" THEN wrote'[x][r] ELSE 0]
<1>1. v = w
  OBVIOUS
<1>2. CountOf(r) = Total(w)
  BY DEF CountOf
<1>3. CountOf(r)' = Total(v)
  BY DEF CountOf, Total
<1> HIDE DEF v, w
<1> QED
  BY <1>1, <1>2, <1>3

\* The versions stay what they are but for hints and links.
SameVersions ==
    /\ DOMAIN heap' = DOMAIN heap /\ Len(heap') = Len(heap)
    /\ \A i \in DOMAIN heap : /\ heap'[i].row = heap[i].row /\ heap'[i].val = heap[i].val
                              /\ heap'[i].xmin = heap[i].xmin /\ heap'[i].xmax = heap[i].xmax

SameNew == \A z \in Xids :
    /\ proc'[z].new = proc[z].new
    /\ proc[z].new # NoTid => proc'[z].target = proc[z].target

\* Nobody commits or aborts.
NobodyEnds == \A z \in Xids :
    /\ status[z] # "unassigned" => status'[z] = status[z]
    /\ status[z] = "unassigned" => status'[z] \in {"unassigned", "running"}

LEMMA CalmKeeps ==
    ASSUME IndInv, CountInv, NobodyEnds, SameVersions, SameNew, wrote' = wrote
    PROVE  CountInv'
<1>1. \A i : Pending(i)' <=> Pending(i)
  BY DEF SameNew, Pending
<1>2. ASSUME NEW i \in DOMAIN heap
      PROVE  /\ StatusOf(heap[i].xmin)' = StatusOf(heap[i].xmin)
             /\ StatusOf(heap[i].xmax)' = StatusOf(heap[i].xmax)
  <2>1. /\ heap'[i].xmin = heap[i].xmin /\ heap'[i].xmax = heap[i].xmax
        /\ heap[i].xmin \in Xids \cup {FrozenXID} /\ heap[i].xmax \in Xids \cup {InvalidXID}
    BY VersionIs DEF SameVersions
  <2>2. StatusOf(heap[i].xmin) # "unassigned" /\ StatusOf(heap[i].xmax) # "unassigned"
    BY NamesAre
  <2>3. ASSUME NEW y \in Xids \cup {FrozenXID, InvalidXID}, StatusOf(y) # "unassigned"
        PROVE  StatusOf(y)' = StatusOf(y)
    BY <2>3 DEF StatusOf, NobodyEnds, FrozenXID, InvalidXID, FirstNormalXID
  <2>4. PICK y \in Xids \cup {FrozenXID}, z \in Xids \cup {InvalidXID} :
           y = heap[i].xmin /\ z = heap[i].xmax
    BY <2>1
  <2>5. StatusOf(y)' = StatusOf(y) /\ StatusOf(z)' = StatusOf(z)
    BY <2>2, <2>3, <2>4
  <2>6. StatusOf(heap[i].xmin)' = StatusOf(y)' /\ StatusOf(heap[i].xmax)' = StatusOf(z)'
    BY <2>1, <2>4 DEF StatusOf
  <2> QED
    BY <2>4, <2>5, <2>6
<1>3. ASSUME NEW i \in DOMAIN heap PROVE Gone(heap[i])' <=> Gone(heap[i])
  BY <1>2 DEF Gone, SameVersions
<1>4. ASSUME NEW r PROVE CountOf(r)' = CountOf(r)
  <2>1. \A z \in Xids : status'[z] = "committed" <=> status[z] = "committed"
    BY DEF NobodyEnds
  <2> QED
    BY <2>1, CountStays
<1>5. ASSUME NEW i \in DOMAIN heap PROVE RowInv(i)' /\ ValInv(i)'
  <2>1. RowInv(i) /\ ValInv(i)
    BY DEF CountInv, VersionsInv
  <2>2. Unsure(heap[i])' = Unsure(heap[i])
    <3>1. StatusOf(heap[i].xmin)' = StatusOf(heap[i].xmin)
      BY <1>2
    <3> QED
      BY <3>1 DEF Unsure, SameVersions
  <2>3. CountOf(heap[i].row)' = CountOf(heap[i].row)
    <3>1. PICK r \in Tids : r = heap[i].row
      BY VersionIs
    <3>2. heap'[i].row = r
      BY <3>1 DEF SameVersions
    <3>3. CountOf(heap[i].row)' = CountOf(r)'
      BY <3>2 DEF CountOf, Total
    <3> QED
      BY <1>4, <3>1, <3>3
  <2> QED
    BY <1>1, <1>3, <2>1, <2>2, <2>3 DEF RowInv, ValInv, SameVersions
<1>6. ASSUME NEW i \in DOMAIN heap, NEW j \in DOMAIN heap PROVE PairInv(i, j)'
  <2>1. PairInv(i, j)
    BY DEF CountInv, VersionsInv
  <2> QED
    BY <1>1, <1>3, <2>1 DEF PairInv, Parted, SameVersions
<1>7. ASSUME NEW x \in Xids PROVE OwnInv(x)' /\ NewInv(x)'
  <2>1. OwnInv(x) /\ NewInv(x)
    BY DEF CountInv
  <2>2. OwnInv(x)'
    BY <1>1, <1>3, <2>1 DEF OwnInv, Held, NobodyEnds, SameVersions
  <2>3. proc[x].new # NoTid => proc[x].new \in DOMAIN heap /\ proc[x].target \in DOMAIN heap
    BY NewIs
  <2>4. NewInv(x)'
    BY <2>1, <2>3 DEF NewInv, SameNew, SameVersions
  <2> QED
    BY <2>2, <2>4
<1> QED
  BY <1>5, <1>6, <1>7 DEF CountInv, VersionsInv, SameVersions

\* A statement that neither writes nor has written a version in waiting.
LEMMA ElsewhereNew ==
    ASSUME IndInv, NEW x \in Xids, NEW p, Moves(x, p), p.new = proc[x].new,
           proc[x].new # NoTid => p.target = proc[x].target
    PROVE  SameNew
<1>1. proc'[x] = p /\ \A z \in Xids \ {x} : proc'[z] = proc[z]
  BY DEF IndInv, TypeInv, Moves
<1> QED
  BY <1>1 DEF SameNew

LEMMA AllSame == heap' = heap => SameVersions
  BY DEF SameVersions

\* Outside an UPDATE's last steps a session has no version in waiting, and the
\* step gives it none.
LEMMA NoneNew ==
    ASSUME IndInv, NEW x \in Xids, NEW p, Moves(x, p), p.new = NoTid,
           proc[x].pc \notin {"stamp", "bury"}
    PROVE  SameNew
<1>1. proc[x].new = NoTid
  BY NewIs
<1> QED
  BY <1>1, ElsewhereNew

\* What a step leaves alone that only writes move.
Quiet == UNCHANGED <<status, wrote>> /\ SameVersions /\ SameNew

LEMMA EndStmtQuiet ==
    ASSUME IndInv, NEW x \in Xids, EndStmt(x), proc[x].pc \notin {"stamp", "bury"}
    PROVE  SameNew
<1> DEFINE p == [Off EXCEPT !.pc = "idle"]
<1>1. Moves(x, p) /\ p.new = NoTid
  BY DEF EndStmt, Off
<1> HIDE DEF p
<1> QED
  BY <1>1, NoneNew

LEMMA ReadsAreQuiet ==
    ASSUME IndInv, NEW x \in Xids, ReadBlock(x) \/ EndScan(x) \/ NextTarget(x)
    PROVE  Quiet
<1>1. proc[x] \in Procs
  BY ProcTypes DEF IndInv
<1>2. UNCHANGED <<status, heap, wrote>> /\ proc[x].pc \notin {"stamp", "bury"}
  BY DEF ReadBlock, EndScan, NextTarget, At
<1>3. proc[x].new = NoTid
  BY <1>2, NewIs
<1>4. ASSUME ReadBlock(x) PROVE \E p : Moves(x, p) /\ p.new = NoTid
  <2> DEFINE i == proc[x].pos
             h == VisibleHints(snap[x], heap[i])
             seen == [proc[x] EXCEPT !.out = IF Visible(snap[x], heap[i]) THEN @ \cup {i} ELSE @]
             on == [seen EXCEPT !.pos = i + 1]
             stop == [seen EXCEPT !.pc = "hints",
                         !.hint = [xmin |-> heap[i].xmin, xmax |-> heap[i].xmax, add |-> h]]
  <2>1. Moves(x, on) \/ Moves(x, stop)
    BY <1>4, Zenon DEF ReadBlock
  <2>2. on.new = proc[x].new /\ stop.new = proc[x].new
    BY <1>1 DEF Procs
  <2> HIDE DEF on, stop
  <2> QED
    BY <1>3, <2>1, <2>2
<1>5. ASSUME EndScan(x) PROVE EndStmt(x) \/ \E p : Moves(x, p) /\ p.new = NoTid
  <2> DEFINE p == [proc[x] EXCEPT !.pc = "next",
                      !.todo = {i \in proc[x].out : Qual(proc[x].qual, heap[i])}]
  <2>1. EndStmt(x) \/ Moves(x, p)
    BY <1>5, Zenon DEF EndScan
  <2>2. p.new = proc[x].new
    BY <1>1 DEF Procs
  <2> HIDE DEF p
  <2> QED
    BY <1>3, <2>1, <2>2
<1>6. ASSUME NextTarget(x) PROVE EndStmt(x) \/ \E p : Moves(x, p) /\ p.new = NoTid
  <2> DEFINE i == CHOOSE i \in proc[x].todo : \A j \in proc[x].todo : i <= j
             p == [proc[x] EXCEPT !.todo = @ \ {i}, !.target = i, !.pc = FirstPc(proc[x].kind)]
  <2>1. EndStmt(x) \/ Moves(x, p)
    BY <1>6, Zenon DEF NextTarget
  <2>2. p.new = proc[x].new
    BY <1>1 DEF Procs
  <2> HIDE DEF p
  <2> QED
    BY <1>3, <2>1, <2>2
<1>7. SameNew
  BY <1>2, <1>4, <1>5, <1>6, NoneNew, EndStmtQuiet
<1> QED
  BY <1>2, <1>7, AllSame DEF Quiet

LEMMA VerdictsAreQuiet ==
    ASSUME IndInv, NEW x \in Xids,
           WaitForOther(x) \/ Wake(x) \/ CheckTarget(x) \/ StampFails(x)
    PROVE  Quiet
<1>1. proc[x] \in Procs
  BY ProcTypes DEF IndInv
<1>2. UNCHANGED <<status, heap, wrote>>
  BY DEF WaitForOther, Wake, CheckTarget, StampFails
<1>3. \A w : LET p == [proc[x] EXCEPT !.wait = w] IN
             p.new = proc[x].new /\ p.target = proc[x].target
  BY <1>1 DEF Procs
<1>4. \A v : LET p == [proc[x] EXCEPT !.pc = v] IN
             p.new = proc[x].new /\ p.target = proc[x].target
  BY <1>1 DEF Procs
<1>5. CASE WaitForOther(x) \/ Wake(x)
  <2>1. \E w : Moves(x, [proc[x] EXCEPT !.wait = w])
    BY <1>5, Zenon DEF WaitForOther, Wake
  <2>2. \E p : Moves(x, p) /\ p.new = proc[x].new /\ p.target = proc[x].target
    BY <1>3, <2>1, Zenon
  <2> QED
    BY <1>2, <2>2, ElsewhereNew, AllSame DEF Quiet
<1>6. CASE CheckTarget(x) \/ StampFails(x)
  <2>1. \E v : Moves(x, [proc[x] EXCEPT !.pc = v])
    <3>1. CASE CheckTarget(x)
      BY <3>1, Zenon DEF CheckTarget
    <3>2. CASE StampFails(x)
      BY <3>2, Zenon DEF StampFails
    <3> QED
      BY <1>6, <3>1, <3>2
  <2>2. \E p : Moves(x, p) /\ p.new = proc[x].new /\ p.target = proc[x].target
    BY <1>4, <2>1, Zenon
  <2> QED
    BY <1>2, <2>2, ElsewhereNew, AllSame DEF Quiet
<1> QED
  BY <1>5, <1>6

LEMMA ConflictsAreQuiet ==
    ASSUME IndInv, NEW x \in Xids, Conflict(x) \/ Recheck(x)
    PROVE  Quiet
<1>1. proc[x] \in Procs
  BY ProcTypes DEF IndInv
<1>2. UNCHANGED <<status, heap, wrote>> /\ proc[x].pc \in {"conflict", "recheck"}
  BY DEF Conflict, Recheck, At
<1>3. proc[x].new = NoTid
  BY <1>2, NewIs
<1>4. \A v, i : /\ [proc[x] EXCEPT !.pc = v].new = NoTid
                /\ [proc[x] EXCEPT !.pc = v, !.target = i].new = NoTid
  BY <1>1, <1>3 DEF Procs
<1>5. \/ \E v : Moves(x, [proc[x] EXCEPT !.pc = v])
      \/ \E v, i : Moves(x, [proc[x] EXCEPT !.pc = v, !.target = i])
  <2>1. CASE Conflict(x)
    BY <2>1, Zenon DEF Conflict
  <2>2. CASE Recheck(x)
    BY <2>2, Zenon DEF Recheck
  <2> QED
    BY <2>1, <2>2
<1>6. \E p : Moves(x, p) /\ p.new = NoTid
  BY <1>4, <1>5, Zenon
<1>7. SameNew
  BY <1>2, <1>6, NoneNew
<1> QED
  BY <1>2, <1>7, AllSame DEF Quiet

LEMMA StartsAreQuiet ==
    ASSUME IndInv, NEW x \in Xids, NEW kind, NEW qual, StartStmt(x, kind, qual)
    PROVE  Quiet
<1>1. UNCHANGED <<status, heap, wrote>> /\ proc[x].pc = "idle"
  BY DEF StartStmt, At
<1> DEFINE p == [Off EXCEPT !.pc = IF kind = "insert" THEN "insert" ELSE "scan",
                            !.kind = kind, !.qual = qual, !.pos = 1, !.nblocks = Len(heap)]
<1>2. Moves(x, p)
  BY Zenon DEF StartStmt
<1>3. p.new = NoTid
  BY DEF Off
<1> HIDE DEF p
<1>4. SameNew
  BY <1>1, <1>2, <1>3, NoneNew
<1> QED
  BY <1>1, <1>4, AllSame DEF Quiet

LEMMA HintsAreQuiet ==
    ASSUME IndInv, NEW x \in Xids, SetHints(x)
    PROVE  Quiet
<1> DEFINE i == proc[x].pos
           t == heap[i]
           u == [t EXCEPT !.hints = IF StillSame(t, proc[x].hint) THEN @ \cup proc[x].hint.add ELSE @]
           p == [proc[x] EXCEPT !.pc = "scan", !.pos = @ + 1, !.hint = NoHint]
<1>1. UNCHANGED <<status, wrote>> /\ proc[x].pc = "hints" /\ proc[x] \in Procs
  BY ProcTypes DEF SetHints, At, IndInv
<1>2. Moves(x, p)
  BY Zenon DEF SetHints
<1>3. p.new = proc[x].new
  BY <1>1 DEF Procs
<1>4. proc[x].new = NoTid
  BY <1>1, NewIs
<1>5. SameNew
  <2> HIDE DEF p
  <2> QED
    BY <1>1, <1>2, <1>3, <1>4, NoneNew
<1>6. heap' = [heap EXCEPT ![i] = u]
  BY Zenon DEF SetHints
<1>7. i \in DOMAIN heap /\ t \in Tuples
  <2>1. ScanFits(x, proc[x]) /\ proc[x].nblocks \in Nat /\ TypeInv
    BY <1>1, InStatement, FieldTypes
  <2>2. i \in 1 .. Len(heap)
    BY <1>1, <2>1, HeapTypes DEF ScanFits
  <2> QED
    BY <2>1, <2>2, HeapTypes
<1>8. u.row = t.row /\ u.val = t.val /\ u.xmin = t.xmin /\ u.xmax = t.xmax
  BY <1>7 DEF Tuples
<1>9. DOMAIN heap' = DOMAIN heap /\ Len(heap') = Len(heap) /\ heap'[i] = u
      /\ \A j \in DOMAIN heap : j # i => heap'[j] = heap[j]
  <2> HIDE DEF u
  <2>1. heap \in Seq(Tuples) /\ DOMAIN heap = 1 .. Len(heap)
    BY HeapTypes DEF IndInv, TypeInv
  <2>2. /\ DOMAIN heap' = DOMAIN heap /\ heap'[i] = u
        /\ \A j \in DOMAIN heap : j # i => heap'[j] = heap[j]
    BY <1>6, <1>7
  <2>3. Len(heap') = Len(heap)
    BY <1>6, <1>7, <2>1
  <2> QED
    BY <2>2, <2>3
<1>10. SameVersions
  BY <1>8, <1>9 DEF SameVersions
<1> QED
  BY <1>1, <1>5, <1>10 DEF Quiet

LEMMA QuietKeeps ==
    ASSUME IndInv, CountInv, Quiet
    PROVE  CountInv'
<1>1. NobodyEnds
  BY DEF Quiet, NobodyEnds
<1> QED
  BY <1>1, CalmKeeps DEF Quiet

LEMMA BeginCounts ==
    ASSUME IndInv, CountInv, NEW x \in Xids, NEW level, Begin(x, level)
    PROVE  CountInv'
<1> DEFINE p == [proc[x] EXCEPT !.pc = "idle"]
<1>1. UNCHANGED <<heap, wrote>> /\ XactBegin(x) /\ Moves(x, p) /\ proc[x] \in Procs
  BY ProcTypes DEF Begin, IndInv
<1>2. status[x] = "unassigned"
  BY <1>1 DEF XactBegin, Assigned, Xids
<1>3. proc[x].pc \notin {"stamp", "bury"}
  BY <1>2 DEF IndInv, ProcInv, SessionInv, Off
<1>4. proc[x].new = NoTid
  BY <1>3, NewIs
<1>5. p.new = NoTid
  BY <1>1, <1>4 DEF Procs
<1>6. SameNew
  <2> HIDE DEF p
  <2> QED
    BY <1>1, <1>3, <1>5, NoneNew
<1>7. NobodyEnds
  BY <1>1, <1>2 DEF XactBegin, NobodyEnds, IndInv, TypeInv
<1> QED
  BY <1>1, <1>6, <1>7, AllSame, CalmKeeps

\* The log takes up what the transaction wrote, or drops it.
LEMMA CountMoves ==
    ASSUME CountInv, NEW x \in Xids, status[x] = "running", NEW r \in Tids, wrote' = wrote,
           \A z \in Xids \ {x} : status'[z] = status[z], status'[x] \in {"committed", "aborted"}
    PROVE  CountOf(r)' = IF status'[x] = "committed" THEN CountOf(r) + wrote[x][r] ELSE CountOf(r)
<1>1. CASE status'[x] = "aborted"
  <2>1. \A z \in Xids : status'[z] = "committed" <=> status[z] = "committed"
    BY <1>1
  <2> QED
    BY <1>1, <2>1, CountStays
<1>2. CASE status'[x] = "committed"
  <2> DEFINE w == [z \in Xids |-> IF status[z] = "committed" THEN wrote[z][r] ELSE 0]
             v == [z \in Xids |-> IF status'[z] = "committed" THEN wrote'[z][r] ELSE 0]
  <2>1. /\ v \in [Xids -> Nat] /\ w \in [Xids -> Nat] /\ w[x] = 0 /\ v[x] = wrote[x][r]
        /\ \A y \in Xids \ {x} : v[y] = w[y]
    BY <1>2 DEF CountInv
  <2>2. CountOf(r) = Total(w) /\ CountOf(r)' = Total(v)
    BY DEF CountOf, Total
  <2> HIDE DEF v, w
  <2>3. Total(v) + w[x] = Total(w) + v[x]
    BY <2>1, TotalMoves
  <2>4. Total(v) \in Nat /\ Total(w) \in Nat /\ wrote[x][r] \in Nat
    BY <2>1, TotalIs
  <2> QED
    BY <1>2, <2>1, <2>2, <2>3, <2>4
<1> QED
  BY <1>1, <1>2

LEMMA FinishCounts ==
    ASSUME IndInv, CountInv, NEW x \in Xids, NEW verdict \in {"committed", "aborted"},
           Finish(x, verdict)
    PROVE  CountInv'
<1>1. /\ heap' = heap /\ wrote' = wrote /\ Moves(x, Off) /\ proc[x].pc \notin {"stamp", "bury"}
      /\ status[x] = "running" /\ status'[x] = verdict
      /\ \A z \in Xids \ {x} : status'[z] = status[z]
  BY DEF Finish, At, XactFinish, IndInv, TypeInv
<1>3. SameNew
  <2>1. Off.new = NoTid
    BY DEF Off
  <2> QED
    BY <1>1, <2>1, NoneNew
<1>4. \A i : Pending(i)' <=> Pending(i)
  BY <1>3 DEF SameNew, Pending
<1>5. ASSUME NEW y \in Xids \cup {FrozenXID, InvalidXID}
      PROVE  StatusOf(y)' = IF y = x THEN verdict ELSE StatusOf(y)
  BY <1>1 DEF StatusOf, FrozenXID, InvalidXID, FirstNormalXID, Xids
<1>6. \A y \in Xids : StatusOf(y) = status[y]
  BY StatusOfXid DEF IndInv
<1>7. ASSUME NEW i \in DOMAIN heap
      PROVE  /\ heap[i].xmin \in Xids \cup {FrozenXID, InvalidXID}
             /\ heap[i].xmax \in Xids \cup {FrozenXID, InvalidXID}
             /\ StatusOf(heap[i].xmin)' = IF heap[i].xmin = x THEN verdict ELSE StatusOf(heap[i].xmin)
             /\ StatusOf(heap[i].xmax)' = IF heap[i].xmax = x THEN verdict ELSE StatusOf(heap[i].xmax)
  <2>1. PICK y \in Xids \cup {FrozenXID, InvalidXID}, z \in Xids \cup {FrozenXID, InvalidXID} :
           y = heap[i].xmin /\ z = heap[i].xmax
    BY VersionIs
  <2>2. heap'[i].xmin = y /\ heap'[i].xmax = z
    BY <1>1, <2>1
  <2>3. StatusOf(heap[i].xmin)' = StatusOf(y)' /\ StatusOf(heap[i].xmax)' = StatusOf(z)'
    BY <2>2 DEF StatusOf
  <2> QED
    BY <1>5, <2>1, <2>3
<1>8. ASSUME NEW i \in DOMAIN heap
      PROVE  /\ Gone(heap[i]) => Gone(heap[i])'
             /\ heap[i].xmax = x /\ verdict = "committed" => Gone(heap[i])'
             /\ heap[i].xmin = x /\ verdict = "aborted" => Gone(heap[i])'
  BY <1>1, <1>6, <1>7 DEF Gone
<1>9. ASSUME NEW i \in DOMAIN heap PROVE RowInv(i)' /\ ValInv(i)'
  <2>1. RowInv(i) /\ ValInv(i)
    BY DEF CountInv, VersionsInv
  <2>2. SUFFICES ASSUME ~Pending(i)', ~Gone(heap[i])'
                 PROVE  (heap[i].val = CountOf(heap[i].row) + Unsure(heap[i]))'
    BY <1>1, <2>1 DEF RowInv, ValInv
  <2>3. ~Pending(i) /\ ~Gone(heap[i])
    BY <1>4, <1>8, <2>2
  <2>4. PICK r \in Tids : r = heap[i].row
    BY VersionIs
  <2>5. heap[i].val = CountOf(r) + Unsure(heap[i])
    BY <2>1, <2>3, <2>4 DEF ValInv
  <2>6. CountOf(heap[i].row)' = CountOf(r)'
    BY <1>1, <2>4
  <2>7. CountOf(r)' = IF verdict = "committed" THEN CountOf(r) + wrote[x][r] ELSE CountOf(r)
    BY <1>1, CountMoves
  <2>8. wrote[x][r] \in Nat /\ CountOf(r) \in Nat
    BY CountTypes DEF CountInv
  <2>9. CASE heap[i].xmin = x
    <3>1. verdict = "committed"
      BY <1>8, <2>2, <2>9
    <3>2. Unsure(heap[i]) = wrote[x][r]
      BY <1>1, <1>6, <2>4, <2>9 DEF Unsure
    <3>3. Unsure(heap[i])' = 0
      BY <1>1, <1>7, <2>9, <3>1 DEF Unsure
    <3> QED
      BY <1>1, <2>5, <2>6, <2>7, <2>8, <3>1, <3>2, <3>3
  <2>10. CASE heap[i].xmin # x
    <3>1. Unsure(heap[i])' = Unsure(heap[i])
      BY <1>1, <1>7, <2>10 DEF Unsure
    <3>2. verdict = "committed" => wrote[x][r] = 0
      <4>1. SUFFICES ASSUME verdict = "committed", wrote[x][r] # 0 PROVE FALSE
        OBVIOUS
      <4>2. Held(x, i)
        BY <1>1, <2>4, <4>1 DEF CountInv, OwnInv
      <4>3. heap[i].xmax = x
        BY <2>3, <2>10, <4>2 DEF Held
      <4> QED
        BY <1>8, <2>2, <4>1, <4>3
    <3> QED
      BY <1>1, <2>5, <2>6, <2>7, <2>8, <3>1, <3>2
  <2> QED
    BY <2>9, <2>10
<1>10. ASSUME NEW i \in DOMAIN heap, NEW j \in DOMAIN heap PROVE PairInv(i, j)'
  <2>1. PairInv(i, j)
    BY DEF CountInv, VersionsInv
  <2> QED
    BY <1>1, <1>4, <1>8, <2>1 DEF PairInv, Parted
<1>11. ASSUME NEW z \in Xids PROVE OwnInv(z)' /\ NewInv(z)'
  <2>1. OwnInv(z) /\ NewInv(z)
    BY DEF CountInv
  <2>2. OwnInv(z)'
    BY <1>1, <1>4, <1>8, <2>1 DEF OwnInv, Held
  <2>3. NewInv(z)'
    BY <1>1, <1>3, <2>1 DEF NewInv, SameNew
  <2> QED
    BY <2>2, <2>3
<1> QED
  BY <1>1, <1>9, <1>10, <1>11 DEF CountInv, VersionsInv

\* A version is added that counts right, or waits.
LEMMA AddedCounts ==
    ASSUME IndInv, CountInv, NEW x \in Xids, NEW n, n = Len(heap) + 1, n <= MaxTuples,
           NEW u \in Tuples, heap' = Append(heap, u), UNCHANGED <<status, wrote>>,
           u.xmin = x, u.xmax = InvalidXID, proc[x].new = NoTid,
           \A z \in Xids \ {x} : proc'[z] = proc[z],
           \/ u.row = n /\ u.val = 0 /\ proc'[x].new = NoTid
           \/ /\ proc'[x].new = n /\ proc'[x].target \in DOMAIN heap
              /\ u.row = heap[proc'[x].target].row /\ u.val = heap[proc'[x].target].val + 1
    PROVE  CountInv'
<1>1. /\ heap \in Seq(Tuples) /\ DOMAIN heap = 1 .. Len(heap) /\ Len(heap) \in Nat
      /\ DOMAIN heap' = DOMAIN heap \cup {n} /\ heap'[n] = u /\ Len(heap') = n
      /\ \A i \in DOMAIN heap : heap'[i] = heap[i]
  <2>1. heap \in Seq(Tuples) /\ DOMAIN heap = 1 .. Len(heap) /\ Len(heap) \in Nat
    BY HeapTypes DEF IndInv, TypeInv
  <2> QED
    BY <2>1
<1>2. n \notin DOMAIN heap /\ n \in Nat /\ n # NoTid /\ n \in Tids
  BY <1>1, HeapAssumption DEF NoTid, Tids
<1>3. ASSUME NEW i \in DOMAIN heap PROVE Pending(i)' <=> Pending(i)
  BY <1>2 DEF Pending, NoTid
<1>4. \A y : StatusOf(y)' = StatusOf(y)
  BY DEF StatusOf
<1>5. ASSUME NEW i \in DOMAIN heap
      PROVE  heap'[i] = heap[i] /\ (Gone(heap[i])' <=> Gone(heap[i]))
             /\ Unsure(heap[i])' = Unsure(heap[i])
  BY <1>1, <1>4 DEF Gone, Unsure, StatusOf
<1>6. ASSUME NEW r PROVE CountOf(r)' = CountOf(r)
  BY CountStays
<1>7. ASSUME NEW i \in DOMAIN heap PROVE RowInv(i)' /\ ValInv(i)'
  <2>1. RowInv(i) /\ ValInv(i)
    BY DEF CountInv, VersionsInv
  <2>2. PICK r \in Tids : r = heap[i].row
    BY VersionIs
  <2>3. CountOf(heap[i].row)' = CountOf(r)'
    BY <1>5, <2>2
  <2> QED
    BY <1>3, <1>5, <1>6, <2>1, <2>2, <2>3 DEF RowInv, ValInv
<1>8. ASSUME NEW i \in DOMAIN heap, NEW j \in DOMAIN heap PROVE PairInv(i, j)'
  <2>1. PairInv(i, j)
    BY DEF CountInv, VersionsInv
  <2> QED
    BY <1>3, <1>5, <2>1 DEF PairInv, Parted
<1>9. \A i \in DOMAIN heap : heap[i].row <= i /\ heap[i].row \in Tids /\ i < n /\ i \in Nat
  BY <1>1, VersionIs
<1>10. ASSUME NEW i \in DOMAIN heap PROVE PairInv(i, n)' /\ PairInv(n, i)'
  <2>1. CASE u.row = n
    <3>1. heap'[i].row # heap'[n].row
      BY <1>1, <1>2, <1>9, <2>1 DEF Tids
    <3> QED
      BY <3>1 DEF PairInv
  <2>2. CASE u.row # n
    <3>1. Pending(n)'
      BY <2>2 DEF Pending
    <3> QED
      BY <3>1 DEF PairInv
  <2> QED
    BY <2>1, <2>2
<1>11. RowInv(n)' /\ PairInv(n, n)'
  <2>1. u.row \in 1 .. n
    BY <1>2, <1>9 DEF Tids, NoTid
  <2> QED
    BY <1>1, <2>1 DEF RowInv, PairInv
<1>12. ValInv(n)'
  <2>1. CASE u.row # n
    BY <2>1 DEF ValInv, Pending
  <2>2. CASE u.row = n
    <3>1. u.val = 0
      BY <1>9, <2>2
    <3>2. \A z \in Xids : wrote[z][n] = 0
      BY <1>2 DEF CountInv, OwnInv
    <3>3. CountOf(n) = 0 /\ CountOf(n)' = CountOf(n)
      BY <1>2, <1>6, <3>2, CountTypes
    <3>4. CountOf(heap[n].row)' = CountOf(n)'
      BY <1>1, <2>2
    <3>5. Unsure(heap[n])' = 0
      BY <1>1, <2>2, <3>2 DEF Unsure
    <3> QED
      BY <1>1, <3>1, <3>3, <3>4, <3>5 DEF ValInv
  <2> QED
    BY <2>1, <2>2
<1>13. ASSUME NEW z \in Xids PROVE OwnInv(z)'
  <2>1. OwnInv(z)
    BY DEF CountInv
  <2>2. ASSUME NEW r \in Tids, wrote[z][r] # 0
        PROVE  /\ status[z] # "unassigned" /\ r \in DOMAIN heap'
               /\ status[z] = "running" =>
                     \A i \in DOMAIN heap' : heap'[i].row = r => Held(z, i)'
    <3>1. /\ status[z] # "unassigned" /\ r \in DOMAIN heap
          /\ status[z] = "running" => \A i \in DOMAIN heap : heap[i].row = r => Held(z, i)
      BY <2>1, <2>2 DEF OwnInv
    <3>2. ASSUME NEW i \in DOMAIN heap PROVE Held(z, i)' <=> Held(z, i)
      BY <1>3, <1>5 DEF Held
    <3>3. heap'[n].row = r => Held(z, n)'
      <4>1. SUFFICES ASSUME u.row = r PROVE Held(z, n)'
        BY <1>1
      <4>2. u.row # n
        BY <1>2, <3>1, <4>1
      <4>3. Pending(n)'
        BY <4>2 DEF Pending
      <4> QED
        BY <4>3 DEF Held
    <3> QED
      BY <1>1, <1>5, <3>1, <3>2, <3>3
  <2> QED
    BY <2>2 DEF OwnInv
<1>14. ASSUME NEW z \in Xids PROVE NewInv(z)'
  <2>1. CASE z = x
    BY <1>1, <2>1 DEF NewInv
  <2>2. CASE z # x
    <3>1. NewInv(z) /\ proc'[z] = proc[z]
      BY <2>2 DEF CountInv
    <3>2. proc[z].new # NoTid => proc[z].new \in DOMAIN heap /\ proc[z].target \in DOMAIN heap
      BY NewIs
    <3> QED
      BY <1>5, <3>1, <3>2 DEF NewInv
  <2> QED
    BY <2>1, <2>2
<1> QED
  BY <1>1, <1>7, <1>8, <1>10, <1>11, <1>12, <1>13, <1>14 DEF CountInv, VersionsInv

LEMMA InsertCounts ==
    ASSUME IndInv, CountInv, NEW x \in Xids, InsertTuple(x)
    PROVE  CountInv'
<1> DEFINE n == Len(heap) + 1
           old == heap[proc[x].target]
           idle == [Off EXCEPT !.pc = "idle"]
           more == [proc[x] EXCEPT !.pc = "stamp", !.new = n]
<1>1. /\ proc[x].pc = "insert" /\ Len(heap) < MaxTuples /\ UNCHANGED <<status, wrote>>
      /\ \/ heap' = Append(heap, NewTuple(n, 0, x, n)) /\ Moves(x, idle)
         \/ /\ proc[x].kind # "insert" /\ heap' = Append(heap, NewTuple(old.row, old.val + 1, x, n))
            /\ Moves(x, more)
  <2>1. proc[x].pc = "insert" /\ Len(heap) < MaxTuples /\ UNCHANGED <<status, wrote>>
    BY DEF InsertTuple, At
  <2>2. \/ heap' = Append(heap, NewTuple(n, 0, x, n)) /\ EndStmt(x)
        \/ /\ proc[x].kind # "insert" /\ heap' = Append(heap, NewTuple(old.row, old.val + 1, x, n))
           /\ Moves(x, more)
    BY Zenon DEF InsertTuple
  <2> QED
    BY <2>1, <2>2, Zenon DEF EndStmt
<1>2. TypeInv /\ proc[x] \in Procs /\ Len(heap) \in Nat /\ MaxTuples \in Nat
  BY ProcTypes, HeapTypes, HeapAssumption DEF IndInv
<1>3. n \in Nat /\ n <= MaxTuples
  BY <1>1, <1>2
<1>4. proc[x].new = NoTid
  BY <1>1, NewIs
<1>5. \A p : Moves(x, p) => proc'[x] = p /\ \A z \in Xids \ {x} : proc'[z] = proc[z]
  BY <1>2 DEF Moves, TypeInv
<1>6. idle.new = NoTid /\ more.new = n /\ more.target = proc[x].target
  BY <1>2 DEF Off, Procs
<1>7. \A row, val \in Nat :
         LET u == NewTuple(row, val, x, n) IN
         u \in Tuples /\ u.xmin = x /\ u.xmax = InvalidXID /\ u.row = row /\ u.val = val
  BY <1>3 DEF NewTuple, Tuples
<1> HIDE DEF idle, more, n
<1>8. CASE heap' = Append(heap, NewTuple(n, 0, x, n)) /\ Moves(x, idle)
  <2>1. PICK u \in Tuples : /\ u = NewTuple(n, 0, x, n) /\ u.xmin = x /\ u.xmax = InvalidXID
                            /\ u.row = n /\ u.val = 0
    BY <1>3, <1>7
  <2>2. proc'[x].new = NoTid /\ \A z \in Xids \ {x} : proc'[z] = proc[z]
    BY <1>5, <1>6, <1>8
  <2>3. heap' = Append(heap, u)
    BY <1>8, <2>1
  <2> QED
    BY <1>1, <1>3, <1>4, <2>1, <2>2, <2>3, AddedCounts DEF n
<1>9. CASE /\ proc[x].kind # "insert" /\ heap' = Append(heap, NewTuple(old.row, old.val + 1, x, n))
           /\ Moves(x, more)
  <2>1. proc[x].target \in DOMAIN heap /\ old.row \in Nat /\ old.val \in Nat
    <3>1. HasTarget(proc[x])
      BY <1>1, <1>9 DEF HasTarget
    <3>2. proc[x].target \in DOMAIN heap /\ old \in Tuples
      BY <3>1, TargetIs
    <3> QED
      BY <3>2 DEF Tuples
  <2>2. PICK u \in Tuples : /\ u = NewTuple(old.row, old.val + 1, x, n) /\ u.xmin = x
                            /\ u.xmax = InvalidXID /\ u.row = old.row /\ u.val = old.val + 1
    BY <1>7, <2>1
  <2>3. /\ proc'[x].new = n /\ proc'[x].target = proc[x].target
        /\ \A z \in Xids \ {x} : proc'[z] = proc[z]
    BY <1>5, <1>6, <1>9
  <2>4. heap' = Append(heap, u)
    BY <1>9, <2>2
  <2> QED
    BY <1>1, <1>3, <1>4, <2>1, <2>2, <2>3, <2>4, AddedCounts DEF n
<1> QED
  BY <1>1, <1>8, <1>9

\* What a step does that writes over one version.
Overwrites(x, i, u) ==
    /\ DOMAIN heap' = DOMAIN heap /\ Len(heap') = Len(heap) /\ status' = status
    /\ heap'[i] = u /\ \A j \in DOMAIN heap \ {i} : heap'[j] = heap[j]
    /\ u.row = heap[i].row /\ u.val = heap[i].val /\ u.xmin = heap[i].xmin /\ u.xmax = x
    /\ proc'[x].new = NoTid /\ \A z \in Xids \ {x} : proc'[z] = proc[z]

LEMMA StampOverwrites ==
    ASSUME IndInv, NEW x \in Xids, NEW i \in DOMAIN heap, NEW new, status' = status,
           heap' = [heap EXCEPT ![i] = Stamped(heap[i], x, new)],
           NEW p, Moves(x, p), p.new = NoTid
    PROVE  \E u : Overwrites(x, i, u)
<1>1. heap \in Seq(Tuples) /\ DOMAIN heap = 1 .. Len(heap) /\ heap[i] \in Tuples /\ TypeInv
  BY HeapTypes DEF IndInv, TypeInv
<1> DEFINE u == Stamped(heap[i], x, new)
<1>2. u.row = heap[i].row /\ u.val = heap[i].val /\ u.xmin = heap[i].xmin /\ u.xmax = x
  BY <1>1, StampedIs
<1> HIDE DEF u
<1>3. heap' = [heap EXCEPT ![i] = u]
  BY DEF u
<1>4. /\ DOMAIN heap' = DOMAIN heap /\ heap'[i] = u
      /\ \A j \in DOMAIN heap \ {i} : heap'[j] = heap[j]
  BY <1>3
<1>5. Len(heap') = Len(heap)
  BY <1>1, <1>3
<1>6. proc'[x] = p /\ \A z \in Xids \ {x} : proc'[z] = proc[z]
  BY <1>1 DEF Moves, TypeInv
<1> QED
  BY <1>2, <1>4, <1>5, <1>6 DEF Overwrites

\* What stays under such a step.
LEMMA OverwriteFacts ==
    ASSUME IndInv, CountInv, NEW x \in Xids, NEW i \in DOMAIN heap, NEW u, Overwrites(x, i, u)
    PROVE  /\ \A y : StatusOf(y)' = StatusOf(y)
           /\ \A j \in DOMAIN heap : /\ heap'[j].row = heap[j].row /\ heap'[j].val = heap[j].val
                                     /\ heap'[j].xmin = heap[j].xmin
                                     /\ j # i => heap'[j].xmax = heap[j].xmax
           /\ \A j \in DOMAIN heap \ {i} : Gone(heap[j])' <=> Gone(heap[j])
           /\ \A j \in DOMAIN heap : j # proc[x].new => (Pending(j)' <=> Pending(j))
           /\ \A z \in Xids : NewInv(z)'
<1>1. \A y : StatusOf(y)' = StatusOf(y)
  BY DEF StatusOf, Overwrites
<1>2. \A j \in DOMAIN heap : /\ heap'[j].row = heap[j].row /\ heap'[j].val = heap[j].val
                             /\ heap'[j].xmin = heap[j].xmin
                             /\ j # i => heap'[j].xmax = heap[j].xmax
  BY DEF Overwrites
<1>3. ASSUME NEW j \in DOMAIN heap \ {i} PROVE Gone(heap[j])' <=> Gone(heap[j])
  <2>1. heap'[j] = heap[j]
    BY DEF Overwrites
  <2> QED
    BY <1>1, <2>1 DEF Gone, StatusOf
<1>4. ASSUME NEW j \in DOMAIN heap, j # proc[x].new PROVE Pending(j)' <=> Pending(j)
  <2>1. j # NoTid
    BY VersionIs
  <2>2. proc'[x].new = NoTid /\ \A z \in Xids \ {x} : proc'[z] = proc[z]
    BY DEF Overwrites
  <2> QED
    BY <1>4, <2>1, <2>2 DEF Pending
<1>5. ASSUME NEW z \in Xids PROVE NewInv(z)'
  <2>1. CASE z = x
    BY <2>1 DEF NewInv, Overwrites
  <2>2. CASE z # x
    <3>1. NewInv(z) /\ proc'[z] = proc[z]
      BY <2>2 DEF CountInv, Overwrites
    <3>2. proc[z].new # NoTid => proc[z].new \in DOMAIN heap /\ proc[z].target \in DOMAIN heap
      BY NewIs
    <3> QED
      BY <1>2, <3>1, <3>2 DEF NewInv
  <2> QED
    BY <2>1, <2>2
<1> QED
  BY <1>1, <1>2, <1>3, <1>4, <1>5

LEMMA BuryCounts ==
    ASSUME IndInv, CountInv, NEW x \in Xids, Bury(x)
    PROVE  CountInv'
<1> DEFINE p == [proc[x] EXCEPT !.pc = IF TM(x) = "TMInvisible" THEN "error" ELSE "conflict",
                                !.new = NoTid]
<1>1. proc[x].pc = "bury" /\ UNCHANGED <<status, wrote>> /\ proc[x] \in Procs
  BY ProcTypes DEF Bury, At, IndInv
<1>2. /\ heap' = [heap EXCEPT ![proc[x].new] = Stamped(heap[proc[x].new], x, NoTid)]
      /\ Moves(x, p)
  BY Zenon DEF Bury
<1>3. p.new = NoTid
  BY <1>1 DEF Procs
<1> HIDE DEF p
<1>4. proc[x].new # NoTid
  BY <1>1 DEF IndInv, ProcInv, WriteFits
<1>5. PICK i \in DOMAIN heap : i = proc[x].new /\ heap[i].xmin = x /\ status[x] = "running"
  BY <1>4, NewIs
<1>6. PICK u : Overwrites(x, i, u)
  BY <1>1, <1>2, <1>3, <1>5, StampOverwrites
<1>7. /\ \A y : StatusOf(y)' = StatusOf(y)
      /\ \A j \in DOMAIN heap : /\ heap'[j].row = heap[j].row /\ heap'[j].val = heap[j].val
                                /\ heap'[j].xmin = heap[j].xmin
                                /\ j # i => heap'[j].xmax = heap[j].xmax
      /\ \A j \in DOMAIN heap \ {i} : Gone(heap[j])' <=> Gone(heap[j])
      /\ \A j \in DOMAIN heap \ {i} : Pending(j)' <=> Pending(j)
      /\ \A z \in Xids : NewInv(z)'
  BY <1>5, <1>6, OverwriteFacts
<1>8. /\ DOMAIN heap' = DOMAIN heap /\ Len(heap') = Len(heap)
      /\ heap'[i].xmin = x /\ heap'[i].xmax = x
  BY <1>5, <1>6 DEF Overwrites
<1>9. Gone(heap[i])'
  BY <1>8 DEF Gone
<1>10. ASSUME NEW j \in DOMAIN heap PROVE RowInv(j)' /\ ValInv(j)'
  <2>1. RowInv(j) /\ ValInv(j)
    BY DEF CountInv, VersionsInv
  <2>2. PICK r \in Tids, y \in Xids \cup {FrozenXID} : r = heap[j].row /\ y = heap[j].xmin
    BY VersionIs
  <2>3. CountOf(heap[j].row)' = CountOf(r)' /\ CountOf(r)' = CountOf(r)
    BY <1>1, <1>7, <2>2, CountStays
  <2>4. StatusOf(heap[j].xmin)' = StatusOf(y)' /\ StatusOf(y)' = StatusOf(y)
    BY <1>7, <2>2
  <2>5. Unsure(heap[j])' = Unsure(heap[j])
    BY <1>1, <1>7, <2>2, <2>4 DEF Unsure
  <2>6. ValInv(j)'
    BY <1>7, <1>9, <2>1, <2>2, <2>3, <2>5 DEF ValInv
  <2> QED
    BY <1>7, <2>1, <2>6 DEF RowInv
<1>11. ASSUME NEW j \in DOMAIN heap, NEW k \in DOMAIN heap PROVE PairInv(j, k)'
  <2>1. PairInv(j, k)
    BY DEF CountInv, VersionsInv
  <2> QED
    BY <1>7, <1>9, <2>1 DEF PairInv, Parted
<1>12. ASSUME NEW z \in Xids PROVE OwnInv(z)'
  <2>1. OwnInv(z)
    BY DEF CountInv
  <2>2. \A j \in DOMAIN heap : Held(z, j) => Held(z, j)'
    BY <1>7, <1>9 DEF Held
  <2> QED
    BY <1>1, <1>7, <1>8, <2>1, <2>2 DEF OwnInv
<1> QED
  BY <1>1, <1>7, <1>8, <1>10, <1>11, <1>12 DEF CountInv, VersionsInv

\* What the stamp's last question guarantees: the target is the row's one
\* version, it counts right, and no other running transaction has written
\* the row.
RowIsMine(x, i, r) ==
    /\ heap[i].row = r /\ ~Pending(i) /\ ~Gone(heap[i]) /\ heap[i].xmax # x
    /\ heap[i].xmin = x \/ StatusOf(heap[i].xmin) = "committed"
    /\ heap[i].val = CountOf(r) + wrote[x][r]
    /\ \A j \in DOMAIN heap \ {i} : heap[j].row = r =>
          Pending(j) \/ Gone(heap[j]) \/ (heap[j].xmax = x /\ heap[i].xmin = x)
    /\ \A z \in Xids \ {x} : status[z] = "running" => wrote[z][r] = 0

LEMMA StampIsMine ==
    ASSUME IndInv, CountInv, NEW x \in Xids, StampTarget(x),
           NEW i \in DOMAIN heap, i = proc[x].target, NEW r \in Tids, r = heap[i].row
    PROVE  RowIsMine(x, i, r)
<1>1. /\ proc[x].pc = "stamp" /\ TM(x) = "TMOk" /\ HasTarget(proc[x])
  BY DEF StampTarget, At, HasTarget
<1>2. status[x] = "running" /\ StatusOf(x) = "running"
  BY <1>1, TargetIs, NamesAre
<1>3. StatusOf(heap[i].xmax) = "aborted"
      /\ (heap[i].xmin = x \/ StatusOf(heap[i].xmin) = "committed")
  BY <1>1, OkMeans
<1>4. ~Gone(heap[i]) /\ heap[i].xmax # x
  BY <1>2, <1>3 DEF Gone
<1>5. ~Pending(i)
  <2>1. SUFFICES ASSUME NEW z \in Xids, proc[z].new = i PROVE FALSE
    BY DEF Pending
  <2>2. i # NoTid
    BY VersionIs
  <2>3. heap[i].xmin = z /\ status[z] = "running" /\ i # proc[z].target
    BY <2>1, <2>2, NewIs
  <2>4. z = x
    BY <1>3, <2>3, NamesAre
  <2> QED
    BY <2>3, <2>4
<1>6. ASSUME NEW z \in Xids, status[z] = "running", wrote[z][r] # 0
      PROVE  z = x /\ heap[i].xmin = x
  <2>1. Held(z, i)
    BY <1>6 DEF CountInv, OwnInv
  <2>2. heap[i].xmin = z \/ heap[i].xmax = z
    BY <1>4, <1>5, <2>1 DEF Held
  <2> QED
    BY <1>3, <1>6, <2>2, NamesAre
<1>7. heap[i].val = CountOf(r) + wrote[x][r]
  <2>1. heap[i].val = CountOf(r) + Unsure(heap[i])
    BY <1>4, <1>5 DEF CountInv, VersionsInv, ValInv
  <2>2. CASE heap[i].xmin = x
    BY <1>2, <2>1, <2>2 DEF Unsure
  <2>3. CASE heap[i].xmin # x
    <3>1. wrote[x][r] = 0
      BY <1>2, <1>6, <2>3
    <3>2. Unsure(heap[i]) = 0
      BY <1>3, <2>3 DEF Unsure
    <3> QED
      BY <2>1, <3>1, <3>2
  <2> QED
    BY <2>2, <2>3
<1>8. ASSUME NEW j \in DOMAIN heap \ {i}, heap[j].row = r
      PROVE  Pending(j) \/ Gone(heap[j]) \/ (heap[j].xmax = x /\ heap[i].xmin = x)
  <2>1. Pending(j) \/ Gone(heap[j]) \/ heap[i].xmax = heap[j].xmin \/ heap[j].xmax = heap[i].xmin
    BY <1>4, <1>5, <1>8 DEF CountInv, VersionsInv, PairInv, Parted
  <2>2. ASSUME heap[i].xmax = heap[j].xmin PROVE Gone(heap[j])
    <3>1. StatusOf(heap[j].xmin) = "aborted"
      BY <1>3, <2>2, Zenon
    <3> QED
      BY <3>1 DEF Gone
  <2>3. ASSUME heap[j].xmax = heap[i].xmin
        PROVE  Gone(heap[j]) \/ (heap[j].xmax = x /\ heap[i].xmin = x)
    <3>1. heap[i].xmin = x \/ StatusOf(heap[j].xmax) = "committed"
      BY <1>3, <2>3, Zenon
    <3> QED
      BY <2>3, <3>1 DEF Gone
  <2> QED
    BY <2>1, <2>2, <2>3
<1> QED
  BY <1>3, <1>4, <1>5, <1>6, <1>7, <1>8 DEF RowIsMine

LEMMA StampCounts ==
    ASSUME IndInv, CountInv, NEW x \in Xids, StampTarget(x)
    PROVE  CountInv'
<1> DEFINE p == [proc[x] EXCEPT !.pc = "next", !.new = NoTid, !.target = NoTid]
<1>1. /\ proc[x].pc = "stamp" /\ status' = status /\ HasTarget(proc[x]) /\ proc[x] \in Procs
  BY ProcTypes DEF StampTarget, At, HasTarget, IndInv
<1>2. PICK i \in DOMAIN heap : i = proc[x].target
  BY <1>1, TargetIs
<1>3. PICK r \in Tids : r = heap[i].row
  BY VersionIs
<1>4. RowIsMine(x, i, r) /\ status[x] = "running" /\ StatusOf(x) = "running"
  BY <1>1, <1>2, <1>3, StampIsMine, TargetIs, NamesAre
<1>5. /\ heap' = [heap EXCEPT ![i] = Stamped(heap[i], x, proc[x].new)] /\ Moves(x, p)
      /\ wrote' = [wrote EXCEPT ![x][r] = @ + 1]
  BY <1>2, <1>3, Zenon DEF StampTarget
<1>6. p.new = NoTid
  BY <1>1 DEF Procs
<1> HIDE DEF p
<1>7. PICK u : Overwrites(x, i, u)
  BY <1>1, <1>5, <1>6, StampOverwrites
<1>8. PICK n : n = proc[x].new
  BY Zenon
<1>9. n # NoTid => /\ n \in DOMAIN heap /\ n # i /\ heap[n].xmin = x
                   /\ heap[n].row = r /\ heap[n].val = heap[i].val + 1
  BY <1>2, <1>3, <1>8, NewIs DEF CountInv, NewInv
<1>10. /\ \A y : StatusOf(y)' = StatusOf(y)
       /\ \A j \in DOMAIN heap : /\ heap'[j].row = heap[j].row /\ heap'[j].val = heap[j].val
                                 /\ heap'[j].xmin = heap[j].xmin
                                 /\ j # i => heap'[j].xmax = heap[j].xmax
       /\ \A j \in DOMAIN heap \ {i} : Gone(heap[j])' <=> Gone(heap[j])
       /\ \A j \in DOMAIN heap : j # n => (Pending(j)' <=> Pending(j))
       /\ \A z \in Xids : NewInv(z)'
  BY <1>7, <1>8, OverwriteFacts
<1>11. DOMAIN heap' = DOMAIN heap /\ Len(heap') = Len(heap) /\ heap'[i].xmax = x
  BY <1>7 DEF Overwrites
<1>12. /\ wrote \in [Xids -> [Tids -> Nat]] /\ wrote' \in [Xids -> [Tids -> Nat]]
       /\ wrote'[x][r] = wrote[x][r] + 1
       /\ \A z \in Xids, q \in Tids : z # x \/ q # r => wrote'[z][q] = wrote[z][q]
  BY <1>5 DEF CountInv
<1>13. ASSUME NEW q \in Tids PROVE CountOf(q)' = CountOf(q) /\ CountOf(q) \in Nat
  <2>1. \A z \in Xids : status[z] = "committed" => wrote'[z][q] = wrote[z][q]
    BY <1>4, <1>12
  <2> QED
    BY <1>1, <2>1, CountStays, CountTypes
<1>14. heap[i].xmin = x => Gone(heap[i])'
  BY <1>10, <1>11 DEF Gone
<1>15. ASSUME NEW j \in DOMAIN heap PROVE ValInv(j)'
  <2>1. ValInv(j)
    BY DEF CountInv, VersionsInv
  <2>2. PICK q \in Tids, y \in Xids \cup {FrozenXID} : q = heap[j].row /\ y = heap[j].xmin
    BY VersionIs
  <2>3. CountOf(heap[j].row)' = CountOf(q)
    <3>1. CountOf(heap[j].row)' = CountOf(q)'
      BY <1>10, <2>2
    <3> QED
      BY <1>13, <3>1
  <2>4. /\ Unsure(heap[j]) = IF StatusOf(y) = "running" THEN wrote[y][q] ELSE 0
        /\ Unsure(heap[j])' = IF StatusOf(y) = "running" THEN wrote'[y][q] ELSE 0
    <3>1. StatusOf(heap[j].xmin)' = StatusOf(y)' /\ StatusOf(y)' = StatusOf(y)
      BY <1>10, <2>2
    <3> QED
      BY <1>10, <2>2, <3>1 DEF Unsure
  <2>5. StatusOf(y) = "running" => y \in Xids
    BY <2>2, NamesAre
  <2>6. CASE j = i
    <3>1. CASE heap[i].xmin = x
      BY <1>14, <2>6, <3>1 DEF ValInv
    <3>2. CASE heap[i].xmin # x
      <4>1. StatusOf(y) = "committed"
        BY <1>4, <2>2, <2>6, <3>2 DEF RowIsMine
      <4>2. heap[j].val = CountOf(q)
        BY <1>4, <1>13, <2>1, <2>2, <2>4, <2>6, <4>1 DEF RowIsMine, ValInv
      <4> QED
        BY <1>10, <1>13, <2>3, <2>4, <4>1, <4>2 DEF ValInv
    <3> QED
      BY <3>1, <3>2
  <2>7. CASE j # i /\ j = n
    <3>1. j # NoTid
      BY VersionIs
    <3>2. y = x /\ q = r /\ heap[j].val = heap[i].val + 1
      BY <1>9, <2>2, <2>7, <3>1
    <3>3. heap[j].val = CountOf(q) + wrote'[x][q]
      BY <1>4, <1>12, <1>13, <3>2 DEF RowIsMine
    <3> QED
      BY <1>4, <1>10, <2>3, <2>4, <3>2, <3>3 DEF ValInv
  <2>8. CASE j # i /\ j # n
    <3>1. CASE y = x /\ q = r
      <4>1. Pending(j) \/ Gone(heap[j])
        BY <1>3, <1>4, <2>2, <2>8, <3>1 DEF RowIsMine, Gone
      <4> QED
        BY <1>10, <2>8, <4>1 DEF ValInv
    <3>2. CASE ~(y = x /\ q = r)
      <4>1. Unsure(heap[j])' = Unsure(heap[j])
        BY <1>12, <2>4, <2>5, <3>2
      <4> QED
        BY <1>10, <2>1, <2>2, <2>3, <2>8, <4>1 DEF ValInv
    <3> QED
      BY <3>1, <3>2
  <2> QED
    BY <2>6, <2>7, <2>8
<1>16. ASSUME NEW j \in DOMAIN heap \ {i}, heap[j].row = r
       PROVE  Pending(j)' \/ Parted(heap[i], heap[j])'
  <2>1. CASE j = n
    <3>1. j # NoTid
      BY VersionIs
    <3>2. heap'[j].xmin = x
      BY <1>9, <1>10, <2>1, <3>1
    <3> QED
      BY <1>11, <3>2 DEF Parted
  <2>2. CASE j # n
    <3>1. Pending(j) \/ Gone(heap[j]) \/ (heap[j].xmax = x /\ heap[i].xmin = x)
      BY <1>4, <1>16 DEF RowIsMine
    <3>2. CASE Pending(j) \/ Gone(heap[j])
      BY <1>10, <2>2, <3>2 DEF Parted
    <3>3. CASE heap[j].xmax = x /\ heap[i].xmin = x
      BY <1>10, <3>3 DEF Parted
    <3> QED
      BY <3>1, <3>2, <3>3
  <2> QED
    BY <2>1, <2>2
<1>17. ASSUME NEW j \in DOMAIN heap \ {i, n}, heap[j].row = r, n # NoTid
       PROVE  Pending(j)' \/ Parted(heap[n], heap[j])'
  <2>1. Pending(j) \/ Gone(heap[j]) \/ heap[j].xmax = x
    BY <1>4, <1>17 DEF RowIsMine
  <2>2. CASE Pending(j) \/ Gone(heap[j])
    BY <1>10, <2>2 DEF Parted
  <2>3. CASE heap[j].xmax = x
    BY <1>9, <1>10, <1>17, <2>3 DEF Parted
  <2> QED
    BY <2>1, <2>2, <2>3
<1>18. ASSUME NEW j \in DOMAIN heap, NEW k \in DOMAIN heap PROVE PairInv(j, k)'
  <2>1. SUFFICES ASSUME j # k, heap'[j].row = heap'[k].row
                 PROVE  Pending(j)' \/ Pending(k)' \/ Parted(heap[j], heap[k])'
    BY DEF PairInv
  <2>2. heap[j].row = heap[k].row
    BY <1>10, <2>1
  <2>3. Parted(heap[k], heap[j])' => Parted(heap[j], heap[k])'
    BY DEF Parted
  <2>4. CASE j = i \/ k = i
    BY <1>3, <1>16, <2>1, <2>2, <2>3, <2>4
  <2>5. CASE j # i /\ k # i /\ (j = n \/ k = n)
    <3>1. n # NoTid
      BY <2>5, VersionIs
    <3> QED
      BY <1>9, <1>17, <2>1, <2>2, <2>3, <2>5, <3>1
  <2>6. CASE j \notin {i, n} /\ k \notin {i, n}
    <3>1. PairInv(j, k)
      BY DEF CountInv, VersionsInv
    <3> QED
      BY <1>10, <2>1, <2>2, <2>6, <3>1 DEF PairInv, Parted
  <2> QED
    BY <2>4, <2>5, <2>6
<1>19. ASSUME NEW z \in Xids, NEW q \in Tids, wrote'[z][q] # 0
       PROVE  /\ status[z] # "unassigned" /\ q \in DOMAIN heap
              /\ status[z] = "running" => \A j \in DOMAIN heap : heap[j].row = q => Held(z, j)'
  <2>1. CASE q # r
    <3>1. /\ status[z] # "unassigned" /\ q \in DOMAIN heap
          /\ status[z] = "running" => \A j \in DOMAIN heap : heap[j].row = q => Held(z, j)
      BY <1>12, <1>19, <2>1 DEF CountInv, OwnInv
    <3>2. ASSUME NEW j \in DOMAIN heap, heap[j].row = q PROVE Held(z, j) => Held(z, j)'
      <4>1. j # i /\ j # n
        BY <1>3, <1>9, <2>1, <3>2, VersionIs
      <4> QED
        BY <1>10, <4>1 DEF Held
    <3> QED
      BY <3>1, <3>2
  <2>2. CASE q = r /\ z # x
    <3>1. wrote[z][r] # 0
      BY <1>12, <1>19, <2>2
    <3>2. status[z] # "unassigned" /\ r \in DOMAIN heap
      BY <3>1 DEF CountInv, OwnInv
    <3>3. status[z] # "running"
      BY <1>4, <2>2, <3>1 DEF RowIsMine
    <3> QED
      BY <2>2, <3>2, <3>3
  <2>3. CASE q = r /\ z = x
    <3>1. r \in DOMAIN heap
      BY <1>3, VersionIs
    <3>2. ASSUME NEW j \in DOMAIN heap, heap[j].row = r PROVE Held(x, j)'
      <4>1. CASE j = i
        BY <1>11, <4>1 DEF Held
      <4>2. CASE j = n
        BY <1>9, <1>10, <4>2, VersionIs DEF Held
      <4>3. CASE j # i /\ j # n
        <5>1. Pending(j) \/ Gone(heap[j]) \/ heap[j].xmax = x
          BY <1>4, <3>2, <4>3 DEF RowIsMine
        <5> QED
          BY <1>10, <4>3, <5>1 DEF Held
      <4> QED
        BY <4>1, <4>2, <4>3
    <3> QED
      BY <1>4, <2>3, <3>1, <3>2
  <2> QED
    BY <2>1, <2>2, <2>3
<1>20. \A z \in Xids : OwnInv(z)'
  BY <1>1, <1>10, <1>11, <1>19 DEF OwnInv
<1>21. \A j \in DOMAIN heap : RowInv(j)'
  BY <1>10 DEF CountInv, VersionsInv, RowInv
<1> QED
  BY <1>10, <1>11, <1>12, <1>15, <1>18, <1>20, <1>21 DEF CountInv, VersionsInv

THEOREM InitCounts == Init => CountInv
<1> SUFFICES ASSUME Init PROVE CountInv
  OBVIOUS
<1>1. IndInv /\ load \in Workloads /\ wrote = [x \in Xids |-> [r \in Tids |-> 0]]
  BY InitInv DEF Init
<1>2. /\ load.rows \in 0 .. MaxTuples /\ MaxTuples \in Nat
      /\ heap = [i \in 1 .. load.rows |-> NewTuple(i, 0, FrozenXID, i)]
  BY <1>1, HeapAssumption DEF Init
<1>3. DOMAIN heap = 1 .. load.rows /\ Len(heap) = load.rows
  <2>1. heap \in Seq(Tuples) /\ DOMAIN heap = 1 .. Len(heap) /\ Len(heap) \in Nat
    BY <1>1, HeapTypes DEF IndInv, TypeInv
  <2>2. DOMAIN heap = 1 .. load.rows
    BY <1>2
  <2> QED
    BY <1>2, <2>1, <2>2
<1>4. \A i \in DOMAIN heap : heap[i].row = i /\ heap[i].val = 0 /\ heap[i].xmin = FrozenXID
  BY <1>2 DEF NewTuple
<1>5. ASSUME NEW r \in Tids PROVE CountOf(r) = 0
  <2> DEFINE w == [x \in Xids |-> IF status[x] = "committed" THEN wrote[x][r] ELSE 0]
  <2>1. w \in [Xids -> Nat] /\ \A x \in Xids : w[x] = 0
    BY <1>1
  <2>2. CountOf(r) = Total(w)
    BY DEF CountOf
  <2> HIDE DEF w
  <2> QED
    BY <2>1, <2>2, TotalIs
<1>6. ASSUME NEW i \in DOMAIN heap PROVE RowInv(i) /\ ValInv(i)
  <2>1. i \in Tids /\ i \in 1 .. i
    BY <1>2, <1>3 DEF Tids
  <2>2. Unsure(heap[i]) = 0
    BY <1>4 DEF Unsure, StatusOf, InvalidXID, FrozenXID, FirstNormalXID
  <2> QED
    BY <1>4, <1>5, <2>1, <2>2 DEF RowInv, ValInv
<1>7. \A i, j \in DOMAIN heap : PairInv(i, j)
  BY <1>4 DEF PairInv
<1>8. ASSUME NEW x \in Xids PROVE OwnInv(x) /\ NewInv(x)
  <2>1. proc[x].new = NoTid
    BY DEF Init, Off
  <2> QED
    BY <1>1, <2>1 DEF OwnInv, NewInv
<1>9. wrote \in [Xids -> [Tids -> Nat]]
  BY <1>1
<1> QED
  BY <1>2, <1>3, <1>6, <1>7, <1>8, <1>9 DEF CountInv, VersionsInv

THEOREM NextCounts == IndInv /\ CountInv /\ [Next]_vars => CountInv'
<1> SUFFICES ASSUME IndInv, CountInv, [Next]_vars PROVE CountInv'
  OBVIOUS
<1>1. CASE Next
  <2>1. PICK x \in Xids :
          \/ \E level \in load.levels : Begin(x, level)
          \/ \E kind \in load.kinds, qual \in load.quals : StartStmt(x, kind, qual)
          \/ Finish(x, "committed") \/ Finish(x, "aborted")
          \/ ReadBlock(x) \/ EndScan(x) \/ NextTarget(x)
          \/ WaitForOther(x) \/ Wake(x) \/ CheckTarget(x) \/ StampFails(x)
          \/ Conflict(x) \/ Recheck(x) \/ SetHints(x)
          \/ InsertTuple(x) \/ StampTarget(x) \/ Bury(x)
    BY <1>1, Zenon DEF Next
  <2>2. ASSUME \E level \in load.levels : Begin(x, level) PROVE CountInv'
    BY <2>2, BeginCounts
  <2>3. ASSUME \E kind \in load.kinds, qual \in load.quals : StartStmt(x, kind, qual)
        PROVE  CountInv'
    BY <2>3, StartsAreQuiet, QuietKeeps
  <2>4. ASSUME Finish(x, "committed") \/ Finish(x, "aborted") PROVE CountInv'
    BY <2>4, FinishCounts
  <2>5. ASSUME ReadBlock(x) \/ EndScan(x) \/ NextTarget(x) PROVE CountInv'
    BY <2>5, ReadsAreQuiet, QuietKeeps
  <2>6. ASSUME WaitForOther(x) \/ Wake(x) \/ CheckTarget(x) \/ StampFails(x) PROVE CountInv'
    BY <2>6, VerdictsAreQuiet, QuietKeeps
  <2>7. ASSUME Conflict(x) \/ Recheck(x) PROVE CountInv'
    BY <2>7, ConflictsAreQuiet, QuietKeeps
  <2>8. ASSUME SetHints(x) PROVE CountInv'
    BY <2>8, HintsAreQuiet, QuietKeeps
  <2>9. ASSUME InsertTuple(x) PROVE CountInv'
    BY <2>9, InsertCounts
  <2>10. ASSUME StampTarget(x) PROVE CountInv'
    BY <2>10, StampCounts
  <2>11. ASSUME Bury(x) PROVE CountInv'
    BY <2>11, BuryCounts
  <2> QED
    BY Zenon, <2>1, <2>2, <2>3, <2>4, <2>5, <2>6, <2>7, <2>8, <2>9, <2>10, <2>11
<1>2. CASE UNCHANGED vars
  <2>1. UNCHANGED <<status, heap, proc, wrote>>
    BY <1>2 DEF vars
  <2>2. Quiet
    BY <2>1 DEF Quiet, SameVersions, SameNew
  <2> QED
    BY <2>2, QuietKeeps
<1> QED
  BY <1>1, <1>2

\* No update is lost: the value of every version that is live counts the
\* updates that committed transactions were told they made to its row, however
\* many of them raced for it (modifyTable.write, Relation.Update).
THEOREM NoUpdateIsLost == Spec => []NoLostUpdate
<1>1. IndInv /\ CountInv => NoLostUpdate
  <2> SUFFICES ASSUME IndInv, CountInv, NEW i \in LiveNow
               PROVE  heap[i].val = CountOf(heap[i].row)
    BY DEF NoLostUpdate
  <2>1. /\ i \in DOMAIN heap /\ StatusOf(heap[i].xmin) = "committed"
        /\ heap[i].xmax = InvalidXID \/ StatusOf(heap[i].xmax) # "committed"
    BY DEF LiveNow
  <2>2. StatusOf(heap[i].xmax) # "committed" /\ ~Gone(heap[i])
    BY <2>1, NamesAre DEF Gone
  <2>3. ~Pending(i)
    <3>1. SUFFICES ASSUME NEW z \in Xids, proc[z].new = i PROVE FALSE
      BY DEF Pending
    <3>2. heap[i].xmin = z /\ status[z] = "running"
      BY <2>1, <3>1, NewIs, VersionIs
    <3> QED
      BY <2>1, <3>2, NamesAre
  <2>4. PICK r \in Tids : r = heap[i].row
    BY <2>1, VersionIs
  <2>5. Unsure(heap[i]) = 0 /\ CountOf(r) \in Nat
    BY <2>1, CountTypes DEF Unsure
  <2>6. ValInv(i)
    BY <2>1 DEF CountInv, VersionsInv
  <2> QED
    BY <2>2, <2>3, <2>4, <2>5, <2>6 DEF ValInv
<1> QED
  BY <1>1, InitCounts, NextCounts, Invariance, PTL DEF Spec

=============================================================================

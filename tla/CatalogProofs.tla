---------------------------- MODULE CatalogProofs ----------------------------
(***************************************************************************)
(* The catalog of Catalog, for every number of sessions, names, statements *)
(* and OIDs: what a statement finds in its cache is current, names collide *)
(* only in races, and DDL is all or nothing.  Most of the work is about    *)
(* one table of rows R and the verdicts st on the transactions that wrote  *)
(* them: what a statement that ends, a row inserted and a row stamped (and *)
(* its new version) do to the invariants of such a table.                  *)
(***************************************************************************)
EXTENDS Catalog, TLAPS, WellFoundedInduction, SequenceTheorems, FiniteSetTheorems

Ids      == 0 .. MaxXid
RowNames == Names \cup {None, "pg_class", "t", "i"}
RelKinds == {None, "table", "index"}
Rows     == [cat : {None, "class", "attr", "index"}, oid : Nat, name : RowNames, kind : RelKinds,
             rel : Nat, primary : BOOLEAN, xmin : Ids, xmax : Ids, ctid : {0}, hints : {{}},
             creator : Ids, knew : SUBSET Ids]
News     == [name : RowNames, kind : RelKinds, rel : Nat, primary : BOOLEAN, knew : SUBSET Ids]
Infos    == [class : Nat, attrs : SUBSET Nat, indexes : SUBSET Nat, names : SUBSET Nat]
Tasks    == [do : {"insert", "delete", "update", "indexes", "attrs", "class", "row"},
             row : Rows, tid : Nat, oid : Nat]
Pcs      == {"idle", "run", "attrs", "indexes", "names", "exists", "create", "write", "failed"}
States   == [tx : Ids, pc : Pcs, wait : Ids, new : News, todo : Seq(Tasks), gone : SUBSET Nat,
             name : RowNames, info : Infos]
Notes    == [oid : Nat, atCommit : BOOLEAN]

CoreTypes ==
    /\ status \in [Xids -> Statuses]
    /\ rows \in Seq(Rows)
    /\ nextOid \in Nat
    /\ ss \in [Sessions -> States]
OtherTypes ==
    /\ files \subseteq Nat
    /\ DOMAIN cache = Sessions
    /\ \A s \in Sessions : \A n \in DOMAIN cache[s] : n \in RowNames /\ cache[s][n] \in Infos
    /\ pending \in [Sessions -> SUBSET Notes]
    /\ since \in [Sessions -> [ever : SUBSET Nat, always : SUBSET Nat]]
TypeInv == CoreTypes /\ OtherTypes

-----------------------------------------------------------------------------
(* Rows and the verdicts on them.                                          *)

\* StatusOf, under the log st.
Verdict(st, x) ==
    IF x = InvalidXID THEN "aborted" ELSE IF x < FirstNormalXID THEN "committed" ELSE st[x]

Known(st, x) == x \in Ids /\ Verdict(st, x) # "unassigned"

\* Nobody who looks from now on sees row r, or nobody but those that x is not.
Dead(st, r)         == Verdict(st, r.xmin) = "aborted" \/ Verdict(st, r.xmax) = "committed"
DroppedBy(st, x, r) == Dead(st, r) \/ r.xmax = x

\* Transaction x sees row r; anybody who starts now does, when x is InvalidXID.
Sees(st, x, r) ==
    /\ r.xmin = x \/ Verdict(st, r.xmin) = "committed"
    /\ r.xmax = InvalidXID \/ (r.xmax # x /\ Verdict(st, r.xmax) # "committed")

\* Transaction x may stamp row r.
Open(st, x, r) ==
    /\ r.xmin = x \/ Verdict(st, r.xmin) = "committed"
    /\ Verdict(st, r.xmax) = "aborted"

Class(R)   == {i \in DOMAIN R : R[i].cat = "class"}
Sub(R)     == {i \in DOMAIN R : R[i].cat # "class"}
Of(R, o)   == {i \in DOMAIN R : R[i].oid = o}
IsTable(R, o) == \E c \in Class(R) : R[c].oid = o /\ R[c].kind = "table"

\* What a row says of the transactions that wrote it: a deleter saw it, its
\* creator came before whoever wrote this version.
RowFits(st, o, r) ==
    /\ r.cat # None /\ r.oid < o
    /\ Known(st, r.xmin) /\ Known(st, r.xmax) /\ Known(st, r.creator)
    /\ r.xmin # InvalidXID /\ r.creator # InvalidXID
    /\ \/ r.xmax \in {InvalidXID, r.xmin}
       \/ Verdict(st, r.xmin) = "committed"
    /\ r.creator = r.xmin \/ Verdict(st, r.creator) = "committed"
    /\ r.cat # "class" => r.creator = r.xmin
    /\ r.cat = "class" => r.kind \in {"table", "index"}
    /\ \A y \in r.knew : y \in {InvalidXID, r.creator} \/ Verdict(st, y) = "committed"

\* Two rows of one relation: versions of one pg_class row, and one other row.
PairFits(r, q) ==
    /\ r.creator = q.creator
    /\ r.cat = "class" /\ q.cat = "class" =>
          r.name = q.name /\ r.kind = q.kind /\ r.knew = q.knew
    /\ r.cat = "class" /\ q.cat # "class" => ((r.kind = "table") <=> (q.cat = "attr"))

\* Rows r and q are never seen together: one is dead, or who inserted one
\* deleted the other.
Excludes(st, r, q) ==
    Dead(st, r) \/ Dead(st, q) \/ r.xmax = q.xmin \/ q.xmax = r.xmin

\* The rows behind the relations, as far as one relation goes; o is the next OID.
RowsFit(st, R, o) ==
    \A i \in DOMAIN R : RowFits(st, o, R[i]) /\ (R[i].cat = "index" => IsTable(R, R[i].rel))
PairsFit(R) == \A i, j \in DOMAIN R : R[i].oid = R[j].oid =>
                   PairFits(R[i], R[j]) /\ (i = j \/ R[i].cat = "class" \/ R[j].cat = "class")
OneIsSeen(st, R) ==
    \A i, j \in Class(R) : R[i].oid = R[j].oid /\ i # j => Excludes(st, R[i], R[j])
Sound(st, R, o) == RowsFit(st, R, o) /\ PairsFit(R) /\ OneIsSeen(st, R)

-----------------------------------------------------------------------------
(* Steps of such a table.                                                  *)

\* A transaction begins, another ends.
Moves(st, st2) ==
    \A x \in Ids : Known(st, x) =>
        \/ Verdict(st2, x) = Verdict(st, x)
        \/ Verdict(st, x) = "running" /\ Verdict(st2, x) \in {"committed", "aborted"}

Adds(R, R2, r) ==
    \E n \in Nat \ DOMAIN R : /\ DOMAIN R2 = DOMAIN R \cup {n} /\ R2[n] = r
                              /\ \A k \in DOMAIN R : R2[k] = R[k]

Stamp(r, x)   == [r EXCEPT !.xmax = x]
Version(r, x) == [r EXCEPT !.xmin = x, !.xmax = InvalidXID]

\* x stamps row i and, if more is not empty, writes its next version there.
Stamps(R, R2, x, i, more) ==
    /\ i \in DOMAIN R /\ more \cap DOMAIN R = {} /\ DOMAIN R2 = DOMAIN R \cup more
    /\ R[i].cat # "class" => more = {}
    /\ \A j, k \in more : j = k
    /\ \A k \in DOMAIN R \ {i} : R2[k] = R[k]
    /\ R2[i] = Stamp(R[i], x)
    /\ \A k \in more : R2[k] = Version(R[i], x)

-----------------------------------------------------------------------------
(* Sessions: q is the state of one.                                        *)

\* The pg_class row of a new relation, and its other row.
NewClass(q, c) == c.cat = "class" /\ c.xmin = q.tx /\ c.xmax = InvalidXID /\ c.creator = q.tx
NewSub(R, q, b) ==
    /\ b.cat \in {"attr", "index"} /\ b.xmin = q.tx /\ b.xmax = InvalidXID /\ b.creator = q.tx
    /\ b.knew = {}
    /\ b.cat = "index" => IsTable(R, b.rel)
NewPair(q, c, b) == /\ NewClass(q, c) /\ c.oid = b.oid
                    /\ c.kind = IF b.cat = "attr" THEN "table" ELSE "index"

\* Who passed the check of a name knew only what had committed, and itself.
KnewThen(st, q, K) == \A y \in K : y \in {InvalidXID, q.tx} \/ Verdict(st, y) = "committed"

\* Both rows of a new relation are to be inserted, or the second of them.
TwoLeft(st, R, o, q) ==
    LET c == q.todo[1].row
        b == q.todo[2].row
    IN  /\ Len(q.todo) = 2 /\ q.todo[1].do = "insert" /\ q.todo[2].do = "insert"
        /\ NewPair(q, c, b) /\ NewSub(R, q, b) /\ KnewThen(st, q, c.knew)
        /\ c.oid < o /\ Of(R, c.oid) = {}
OneLeft(R, o, q) ==
    LET b == q.todo[1].row
    IN  /\ Len(q.todo) = 1 /\ q.todo[1].do = "insert" /\ NewSub(R, q, b) /\ b.oid < o
        /\ \E c \in DOMAIN R : Of(R, b.oid) = {c} /\ NewPair(q, R[c], b)

\* What is left to do is about rows that are there.
Planned(R, todo) == \A k \in DOMAIN todo : LET t == todo[k] IN
    /\ t.do # "insert"
    /\ t.do \in {"delete", "update", "row"} => t.tid \in DOMAIN R
    /\ t.do \in {"update", "row"} => R[t.tid].cat = "class"

InsertOids(q) == IF q.pc # "write" THEN {}
                 ELSE {q.todo[k].row.oid : k \in {k \in DOMAIN q.todo : q.todo[k].do = "insert"}}

Fits(st, R, o, q) ==
    /\ IF q.tx = InvalidXID THEN q = Idle ELSE q.tx \in Xids /\ st[q.tx] = "running"
    /\ q.pc \notin {"write", "failed"} => q.todo = <<>> /\ q.gone = {}
    /\ q.pc = "write" => \/ (TwoLeft(st, R, o, q) \/ OneLeft(R, o, q)) /\ q.gone = {}
                         \/ Planned(R, q.todo)
    /\ q.pc \in {"exists", "create"} => /\ q.new.kind \in {"table", "index"}
                                        /\ q.new.kind = "index" => IsTable(R, q.new.rel)
    /\ q.pc = "create" => KnewThen(st, q, q.new.knew)

\* Two sessions are in two transactions and create two relations.
Apart == \A s, t \in Sessions : s # t =>
    /\ ss[s].tx # InvalidXID => ss[s].tx # ss[t].tx
    /\ InsertOids(ss[s]) \cap InsertOids(ss[t]) = {}

SessionsFit == \A s \in Sessions : Fits(status, rows, nextOid, ss[s])

Core    == CoreTypes /\ Sound(status, rows, nextOid) /\ SessionsFit /\ Apart

\* A cache entry, or one that is being loaded and has the rows of cats, with
\* w, what the session could see since its cache was dropped.
Parts(info) == {info.class} \cup info.attrs \cup info.indexes \cup info.names
Current(R, w, info, cats) ==
    LET o == R[info.class].oid IN
    /\ info.class \in Class(R)
    /\ Parts(info) \subseteq w.ever
    /\ \A i \in w.always : LET r == R[i] IN
          /\ r.cat = "class" /\ r.oid = o => i = info.class
          /\ r.cat = "attr" /\ r.cat \in cats /\ r.oid = o => i \in info.attrs
          /\ r.cat = "index" /\ r.cat \in cats /\ r.rel = o => i \in info.indexes

CacheFits(R, w, c, q) ==
    /\ w.always \subseteq DOMAIN R
    /\ \A n \in DOMAIN c : Current(R, w, c[n], {"attr", "index"})
    /\ q.pc = "attrs"   => Current(R, w, q.info, {})
    /\ q.pc = "indexes" => Current(R, w, q.info, {"attr"})
    /\ q.pc = "names"   => Current(R, w, q.info, {"attr", "index"})

CacheInv == \A s \in Sessions : CacheFits(rows, since[s], cache[s], ss[s])

RowsInv == TypeInv /\ Core /\ CacheInv

-----------------------------------------------------------------------------
(* Types.                                                                  *)

LEMMA Numbers ==
    /\ MaxXid \in Nat /\ MaxXid >= 3 /\ Xids \subseteq Ids /\ Ids \subseteq Nat
    /\ 0 \in Ids /\ 1 \in Ids /\ 2 \in Ids /\ {0, 1, 2} \cap Xids = {}
    /\ \A x \in Ids : x \in {0, 1, 2} \/ x \in Xids
  BY XidAssumption DEF Ids, Xids, FirstNormalXID

LEMMA NoneIs == None \notin {"class", "attr", "index", "table", "pg_class", "t", "i"}
  BY Zenon DEF None

LEMMA EmptyTypes ==
    /\ NoNew \in News /\ NoInfo \in Infos /\ NoRow \in Rows /\ Idle \in States
    /\ <<>> \in Seq(Tasks) /\ Len(<<>>) = 0
<1>1. NoNew \in News
  BY DEF NoNew, News, RowNames, RelKinds
<1>2. NoInfo \in Infos
  BY DEF NoInfo, Infos
<1>3. NoRow \in Rows
  BY Numbers DEF NoRow, Row, Rows, RowNames, RelKinds, InvalidXID
<1>4. <<>> \in Seq(Tasks) /\ Len(<<>>) = 0
  BY EmptySeq
<1>5. Idle \in States
  <2>1. {} \in SUBSET Nat /\ 0 \in Ids /\ None \in RowNames /\ "idle" \in Pcs
    BY Numbers DEF Pcs, RowNames
  <2> HIDE DEF NoNew, NoInfo, RowNames, Pcs, Ids
  <2> QED
    BY <1>1, <1>2, <1>4, <2>1 DEF Idle, States, InvalidXID
<1> QED
  BY <1>1, <1>2, <1>3, <1>4, <1>5

LEMMA RowsAreTyped ==
    ASSUME NEW r \in News, NEW o \in Nat, NEW x \in Ids
    PROVE  /\ RowsOf(r, o, x) \in Seq(Rows) /\ Len(RowsOf(r, o, x)) = 2
           /\ RowsOf(r, o, x)[1] \in Rows /\ RowsOf(r, o, x)[2] \in Rows
<1> DEFINE a == Row("class", o, r.name, r.kind, 0, FALSE, x, r.knew)
           b == IF r.kind = "table" THEN Row("attr", o, None, None, 0, FALSE, x, {})
                ELSE Row("index", o, None, None, r.rel, r.primary, x, {})
<1>1. a \in Rows
  BY Numbers DEF Row, Rows, News, RowNames, RelKinds, InvalidXID
<1>2. b \in Rows
  BY Numbers DEF Row, Rows, News, RowNames, RelKinds, InvalidXID
<1>3. RowsOf(r, o, x) = <<a, b>>
  BY DEF RowsOf
<1> HIDE DEF a, b
<1> QED
  BY <1>1, <1>2, <1>3

LEMMA TaskTypes ==
    ASSUME NEW do \in {"delete", "update", "indexes", "attrs", "class", "row"},
           NEW i \in Nat, NEW o \in Nat
    PROVE  /\ Task(do, i, o) \in Tasks /\ Task(do, i, o).do = do
           /\ Task(do, i, o).tid = i /\ Task(do, i, o).oid = o
  BY EmptyTypes DEF Task, Tasks

LEMMA RowsLen ==
    ASSUME TypeInv
    PROVE  /\ DOMAIN rows = 1 .. Len(rows) /\ Len(rows) \in Nat
           /\ \A i \in DOMAIN rows : i \in Nat /\ i # 0 /\ rows[i] \in Rows
  BY LenProperties DEF TypeInv, CoreTypes, OtherTypes

LEMMA SeenIsHere == \A s : Seen(s) \subseteq DOMAIN rows
  BY DEF Seen

\* An induction goes through the first number that breaks a claim.
LEMMA SmallestOf ==
    ASSUME NEW S \in SUBSET Nat, S # {}
    PROVE  \E m \in S : \A y \in S : m <= y
<1> DEFINE Less == {p \in Nat \X Nat : p[1] < p[2]}
<1>1. IsWellFoundedOn(Less, Nat)
  BY NatLessThanWellFounded DEF OpToRel
<1> HIDE DEF Less
<1>2. PICK m \in S : \A y \in S : ~(<<y, m>> \in Less)
  BY <1>1, WFMin
<1>3. ASSUME NEW y \in S, ~(m <= y) PROVE FALSE
  <2> DEFINE p == <<y, m>>
  <2>1. p \in Nat \X Nat /\ p[1] < p[2]
    BY <1>3
  <2>2. p \in Less
    BY <2>1 DEF Less
  <2> QED
    BY <1>2, <2>2
<1> QED
  BY <1>3

LEMMA FirstIsIn ==
    ASSUME NEW S \in SUBSET Nat, S # {}
    PROVE  First(S) \in S
<1>1. PICK i \in S : \A j \in S : i <= j
  BY SmallestOf
<1> QED
  BY <1>1 DEF First

\* The list of a finite set has each of its elements and no other.
LEMMA SetToSeqIs ==
    ASSUME NEW n \in Nat, NEW S \in SUBSET (1 .. n)
    PROVE  /\ SetToSeq(S) \in Seq(S) /\ SetToSeq(S) \in Seq(1 .. n)
           /\ \A k \in 1 .. Len(SetToSeq(S)) : SetToSeq(S)[k] \in S
           /\ \A i \in S : \E k \in 1 .. Len(SetToSeq(S)) : SetToSeq(S)[k] = i
<1>1. IsFiniteSet(S)
  <2>1. IsFiniteSet(1 .. n)
    BY FS_Interval
  <2> QED
    BY <2>1, FS_Subset
<1> DEFINE c == Cardinality(S)
           f == SetToSeq(S)
<1>2. c \in Nat
  BY <1>1, FS_CardinalityType
<1>3. \E g \in [1 .. c -> S] : IsInjective(g)
  <2>1. PICK g : g \in Bijection(1 .. c, S)
    BY <1>1, FS_CardinalityType DEF ExistsBijection
  <2> QED
    BY <2>1 DEF Bijection, Injection
<1>4. f \in [1 .. c -> S] /\ IsInjective(f)
  BY <1>3 DEF SetToSeq
<1>5. f \in Seq(S) /\ Len(f) = c
  BY <1>2, <1>4
<1>6. \A i \in S : \E k \in 1 .. c : f[k] = i
  <2>1. f \in Injection(1 .. c, S)
    BY <1>4 DEF Injection
  <2>2. Cardinality(1 .. c) = c
    BY <1>2, FS_Interval
  <2>3. f \in Surjection(1 .. c, S)
    BY <1>1, <2>1, <2>2, FS_Injection
  <2> QED
    BY <2>3 DEF Surjection
<1>7. f \in Seq(1 .. n)
  BY <1>5, SeqMonotonic
<1> QED
  BY <1>4, <1>5, <1>6, <1>7

LEMMA FoundAreRows ==
    ASSUME TypeInv, NEW s \in Sessions, NEW cat, NEW n, NEW o
    PROVE  /\ DOMAIN rows \subseteq Nat
           /\ Seen(s) \subseteq DOMAIN rows /\ Scan(s, cat) \subseteq Seen(s)
           /\ ByName(s, n) \subseteq Scan(s, "class") /\ ByOid(s, o) \subseteq Scan(s, "class")
           /\ ByName(s, n) # {} => First(ByName(s, n)) \in ByName(s, n)
           /\ ByOid(s, o) # {} => First(ByOid(s, o)) \in ByOid(s, o)
<1>1. DOMAIN rows \subseteq Nat
  BY RowsLen
<1>2. /\ Seen(s) \subseteq DOMAIN rows /\ Scan(s, cat) \subseteq Seen(s)
      /\ Scan(s, "class") \subseteq Seen(s)
      /\ ByName(s, n) \subseteq Scan(s, "class") /\ ByOid(s, o) \subseteq Scan(s, "class")
  BY SeenIsHere DEF Scan, ByName, ByOid
<1>3. ByName(s, n) \in SUBSET Nat /\ ByOid(s, o) \in SUBSET Nat
  BY <1>1, <1>2
<1> QED
  BY <1>1, <1>2, <1>3, FirstIsIn

LEMMA DeletesAre ==
    ASSUME TypeInv, NEW found, found \subseteq DOMAIN rows
    PROVE  LET tids == SetToSeq(found) IN
           /\ Deletes(found) \in Seq(Tasks) /\ Len(Deletes(found)) = Len(tids)
           /\ Len(tids) \in Nat
           /\ \A k \in 1 .. Len(tids) : /\ Deletes(found)[k] = Task("delete", tids[k], 0)
                                        /\ tids[k] \in found
           /\ \A i \in found : \E k \in 1 .. Len(tids) : tids[k] = i
<1> DEFINE tids == SetToSeq(found)
           n == Len(rows)
<1>1. n \in Nat /\ DOMAIN rows = 1 .. n
  BY RowsLen
<1>2. /\ tids \in Seq(1 .. n) /\ \A k \in 1 .. Len(tids) : tids[k] \in found
      /\ \A i \in found : \E k \in 1 .. Len(tids) : tids[k] = i
  BY <1>1, SetToSeqIs
<1>3. Len(tids) \in Nat
  BY <1>2
<1>4. \A k \in 1 .. Len(tids) : Task("delete", tids[k], 0) \in Tasks
  <2>1. \A k \in 1 .. Len(tids) : tids[k] \in Nat
    BY <1>1, <1>2
  <2> QED
    BY <2>1, TaskTypes
<1>5. Deletes(found) = [k \in 1 .. Len(tids) |-> Task("delete", tids[k], 0)]
  BY DEF Deletes
<1> HIDE DEF tids
<1>6. Deletes(found) \in Seq(Tasks) /\ Len(Deletes(found)) = Len(tids)
  BY <1>3, <1>4, <1>5
<1> QED
  BY <1>2, <1>3, <1>5, <1>6 DEF tids

LEMMA IndexTasksAre ==
    ASSUME TypeInv, NEW s \in Sessions, NEW found, found \subseteq DOMAIN rows
    PROVE  LET tids == SetToSeq(found)
               all  == IndexTasks(s, found)
           IN
           /\ all \in Seq(Tasks) /\ Len(all) = 2 * Len(tids) /\ Len(tids) \in Nat
           /\ \A k \in 1 .. Len(tids) :
                 /\ all[2 * k - 1] = Task("class", 0, rows[tids[k]].oid)
                 /\ all[2 * k] = Task("delete", tids[k], 0)
                 /\ tids[k] \in found
           /\ \A k \in 1 .. 2 * Len(tids) : \E m \in 1 .. Len(tids) : k = 2 * m \/ k = 2 * m - 1
           /\ \A i \in found : \E k \in 1 .. Len(tids) : tids[k] = i
<1> DEFINE tids == SetToSeq(found)
           n == Len(rows)
           tid(k) == tids[(k + 1) \div 2]
           e(k) == IF k % 2 = 1 THEN Task("class", 0, rows[tid(k)].oid)
                   ELSE Task("delete", tid(k), 0)
           c == Len(tids)
           all == IndexTasks(s, found)
<1>1. n \in Nat /\ DOMAIN rows = 1 .. n
  BY RowsLen
<1>2. /\ tids \in Seq(1 .. n) /\ \A k \in 1 .. c : tids[k] \in found
      /\ \A i \in found : \E k \in 1 .. c : tids[k] = i
  BY <1>1, SetToSeqIs
<1>3. c \in Nat
  BY <1>2
<1>4. all = [k \in 1 .. 2 * c |-> e(k)]
  BY DEF IndexTasks
<1> HIDE DEF tids, c, all
<1>5. ASSUME NEW k \in 1 .. 2 * c PROVE e(k) \in Tasks
  <2>1. (k + 1) \div 2 \in 1 .. c
    BY <1>3
  <2>2. tid(k) \in DOMAIN rows
    BY <1>2, <2>1
  <2>3. tid(k) \in Nat /\ rows[tid(k)].oid \in Nat
    BY <2>2, RowsLen DEF Rows
  <2> QED
    BY <2>3, TaskTypes
<1>6. all \in Seq(Tasks) /\ Len(all) = 2 * c
  <2> HIDE DEF e
  <2> QED
    BY <1>3, <1>4, <1>5
<1>7. ASSUME NEW k \in 1 .. c
      PROVE  /\ all[2 * k - 1] = Task("class", 0, rows[tids[k]].oid)
             /\ all[2 * k] = Task("delete", tids[k], 0)
  <2>1. /\ 2 * k \in 1 .. 2 * c /\ 2 * k - 1 \in 1 .. 2 * c
        /\ (2 * k) % 2 = 0 /\ (2 * k - 1) % 2 = 1
        /\ (2 * k + 1) \div 2 = k /\ ((2 * k - 1) + 1) \div 2 = k
    BY <1>3
  <2>2. all[2 * k - 1] = e(2 * k - 1) /\ all[2 * k] = e(2 * k)
    BY <1>4, <2>1
  <2> QED
    BY <2>1, <2>2
<1>8. ASSUME NEW k \in 1 .. 2 * c PROVE \E m \in 1 .. c : k = 2 * m \/ k = 2 * m - 1
  <2>1. (k + 1) \div 2 \in 1 .. c /\ (k = 2 * ((k + 1) \div 2) \/ k = 2 * ((k + 1) \div 2) - 1)
    BY <1>3
  <2> QED
    BY <2>1
<1> QED
  BY <1>2, <1>3, <1>6, <1>7, <1>8 DEF tids, c, all

LEMMA OneSession ==
    ASSUME TypeInv, NEW s \in Sessions, NEW q \in States, ss' = [ss EXCEPT ![s] = q]
    PROVE  /\ ss' \in [Sessions -> States] /\ ss'[s] = q
           /\ \A t \in Sessions \ {s} : ss'[t] = ss[t]
  BY DEF TypeInv, CoreTypes, OtherTypes

-----------------------------------------------------------------------------
(* Verdicts.                                                               *)

LEMMA VerdictIs == \A x : StatusOf(x) = Verdict(status, x)
  BY DEF StatusOf, Verdict

LEMMA Zero == \A st : Verdict(st, InvalidXID) = "aborted" /\ Known(st, InvalidXID)
  BY Numbers DEF Verdict, Known, InvalidXID

LEMMA VerdictOfXid == \A st : \A x \in Xids : Verdict(st, x) = st[x] /\ x # InvalidXID
  BY Numbers DEF Verdict, InvalidXID, Xids, FirstNormalXID

LEMMA VerdictTypes ==
    ASSUME NEW st \in [Xids -> Statuses], NEW x \in Ids
    PROVE  Verdict(st, x) \in Statuses
  BY Numbers DEF Verdict, Statuses, InvalidXID, FirstNormalXID

LEMMA StandingStill == \A st : Moves(st, st)
  BY DEF Moves

LEMMA BeginMoves ==
    ASSUME NEW st \in [Xids -> Statuses], NEW y \in Xids, st[y] = "unassigned"
    PROVE  LET st2 == [st EXCEPT ![y] = "running"] IN
           /\ Moves(st, st2)
           /\ \A x \in Ids : Known(st, x) => Verdict(st2, x) = Verdict(st, x) /\ x # y
<1>1. ASSUME NEW x \in Ids, Known(st, x)
      PROVE  Verdict([st EXCEPT ![y] = "running"], x) = Verdict(st, x) /\ x # y
  <2>1. CASE x \in Xids
    BY <1>1, <2>1, VerdictOfXid DEF Known
  <2>2. CASE x \notin Xids
    BY <2>2, Numbers DEF Verdict, InvalidXID, FirstNormalXID
  <2> QED
    BY <2>1, <2>2
<1> QED
  BY <1>1 DEF Moves

LEMMA EndMoves ==
    ASSUME NEW st \in [Xids -> Statuses], NEW y \in Xids, st[y] = "running",
           NEW v \in {"committed", "aborted"}
    PROVE  LET st2 == [st EXCEPT ![y] = v] IN
           /\ Moves(st, st2) /\ Verdict(st, y) = "running" /\ Verdict(st2, y) = v
           /\ \A x \in Ids : x # y => Verdict(st2, x) = Verdict(st, x)
<1>1. ASSUME NEW x \in Ids, x # y
      PROVE  Verdict([st EXCEPT ![y] = v], x) = Verdict(st, x)
  <2>1. CASE x \in Xids
    BY <1>1, <2>1, VerdictOfXid
  <2>2. CASE x \notin Xids
    BY <2>2, Numbers DEF Verdict, InvalidXID, FirstNormalXID
  <2> QED
    BY <2>1, <2>2
<1>2. Verdict(st, y) = "running" /\ Verdict([st EXCEPT ![y] = v], y) = v
  <2>1. Verdict([st EXCEPT ![y] = v], y) = [st EXCEPT ![y] = v][y]
    BY VerdictOfXid
  <2> QED
    BY <2>1, VerdictOfXid
<1> QED
  BY <1>1, <1>2 DEF Moves

LEMMA KnownStays ==
    ASSUME NEW st, NEW st2, Moves(st, st2), NEW x, Known(st, x)
    PROVE  /\ Known(st2, x)
           /\ Verdict(st, x) = "committed" => Verdict(st2, x) = "committed"
           /\ Verdict(st, x) = "aborted" <=> Verdict(st2, x) = "aborted" /\ Verdict(st, x) # "running"
           /\ Verdict(st2, x) = "running" => Verdict(st, x) = "running"
  BY DEF Moves, Known

LEMMA DeadStays ==
    ASSUME NEW st, NEW st2, Moves(st, st2), NEW r \in Rows, NEW o \in Nat, RowFits(st, o, r)
    PROVE  /\ Dead(st, r) => Dead(st2, r)
           /\ \A x : DroppedBy(st, x, r) => DroppedBy(st2, x, r)
  BY KnownStays DEF RowFits, Dead, DroppedBy

LEMMA RowFitsStays ==
    ASSUME NEW st, NEW st2, Moves(st, st2), NEW r \in Rows, NEW o \in Nat, NEW o2 \in Nat,
           o <= o2, RowFits(st, o, r)
    PROVE  RowFits(st2, o2, r)
<1>1. /\ Known(st2, r.xmin) /\ Known(st2, r.xmax) /\ Known(st2, r.creator)
      /\ Verdict(st, r.xmin) = "committed" => Verdict(st2, r.xmin) = "committed"
      /\ Verdict(st, r.creator) = "committed" => Verdict(st2, r.creator) = "committed"
  BY KnownStays DEF RowFits
<1>2. ASSUME NEW y \in r.knew
      PROVE  y \in {InvalidXID, r.creator} \/ Verdict(st2, y) = "committed"
  <2>1. Verdict(st, y) = "committed" => Known(st, y)
    BY DEF Known, Rows
  <2> QED
    BY <2>1, KnownStays DEF RowFits
<1>3. r.oid < o2
  <2>1. r.oid \in Nat /\ r.oid < o
    BY DEF RowFits, Rows
  <2> QED
    BY <2>1
<1>4. /\ r.xmax \in {InvalidXID, r.xmin} \/ Verdict(st2, r.xmin) = "committed"
      /\ r.creator = r.xmin \/ Verdict(st2, r.creator) = "committed"
  BY <1>1 DEF RowFits
<1> QED
  BY <1>1, <1>2, <1>3, <1>4 DEF RowFits

-----------------------------------------------------------------------------
(* What the steps leave of a sound table.                                  *)

LEMMA SoundMoves ==
    ASSUME NEW st, NEW st2, Moves(st, st2), NEW R \in Seq(Rows),
           NEW o \in Nat, NEW o2 \in Nat, o <= o2, Sound(st, R, o)
    PROVE  Sound(st2, R, o2)
<1>1. \A i \in DOMAIN R : R[i] \in Rows /\ RowFits(st, o, R[i])
  BY ElementOfSeq, LenProperties DEF Sound, RowsFit
<1>2. RowsFit(st2, R, o2)
  BY <1>1, RowFitsStays DEF Sound, RowsFit
<1>3. OneIsSeen(st2, R)
  BY <1>1, DeadStays DEF Sound, OneIsSeen, Excludes, Class
<1> QED
  BY <1>2, <1>3 DEF Sound

\* A new row is the first of its relation, its pg_class row, or the second.
LEMMA SoundAdds ==
    ASSUME NEW st, NEW R \in Seq(Rows), NEW R2 \in Seq(Rows), NEW o \in Nat, Sound(st, R, o),
           NEW r \in Rows, Adds(R, R2, r), RowFits(st, o, r),
           r.cat = "index" => IsTable(R, r.rel),
           r.cat = "class" => Of(R, r.oid) = {},
           r.cat # "class" => \A i \in Of(R, r.oid) : R[i].cat = "class" /\ PairFits(R[i], r)
    PROVE  Sound(st, R2, o)
<1>1. PICK n \in Nat \ DOMAIN R : /\ DOMAIN R2 = DOMAIN R \cup {n} /\ R2[n] = r
                                  /\ \A k \in DOMAIN R : R2[k] = R[k]
  BY DEF Adds
<1>2. \A a : IsTable(R, a) => IsTable(R2, a)
  BY <1>1 DEF IsTable, Class
<1>3. RowsFit(st, R2, o)
  BY <1>1, <1>2 DEF Sound, RowsFit
<1>4. PairsFit(R2)
  <2> SUFFICES ASSUME NEW i \in DOMAIN R2, NEW j \in DOMAIN R2, R2[i].oid = R2[j].oid
               PROVE  PairFits(R2[i], R2[j]) /\ (i = j \/ R2[i].cat = "class" \/ R2[j].cat = "class")
    BY DEF PairsFit
  <2>1. CASE i # n /\ j # n
    BY <1>1, <2>1 DEF Sound, PairsFit
  <2>2. CASE i = n /\ j = n
    BY <2>2 DEF PairFits
  <2>3. ASSUME NEW k \in DOMAIN R, R[k].oid = r.oid
        PROVE  R[k].cat = "class" /\ r.cat # "class" /\ PairFits(R[k], r) /\ PairFits(r, R[k])
    BY <2>3 DEF Of, PairFits
  <2> QED
    BY <1>1, <2>1, <2>2, <2>3
<1>5. OneIsSeen(st, R2)
  <2> SUFFICES ASSUME NEW i \in Class(R2), NEW j \in Class(R2), R2[i].oid = R2[j].oid, i # j
               PROVE  Excludes(st, R2[i], R2[j])
    BY DEF OneIsSeen
  <2>1. i # n /\ j # n
    BY <1>1 DEF Class, Of
  <2> QED
    BY <1>1, <2>1 DEF Sound, OneIsSeen, Class
<1> QED
  BY <1>3, <1>4, <1>5 DEF Sound

LEMMA StampedFields ==
    ASSUME NEW r \in Rows, NEW x \in Ids, NEW q, q = Stamp(r, x)
    PROVE  /\ q \in Rows /\ q.xmax = x /\ q.xmin = r.xmin
           /\ q.cat = r.cat /\ q.oid = r.oid /\ q.name = r.name /\ q.kind = r.kind
           /\ q.rel = r.rel /\ q.creator = r.creator /\ q.knew = r.knew
  BY DEF Rows, Stamp

LEMMA VersionFields ==
    ASSUME NEW r \in Rows, NEW x \in Ids, NEW q,
           q = Version(r, x)
    PROVE  /\ q \in Rows /\ q.xmax = InvalidXID /\ q.xmin = x
           /\ q.cat = r.cat /\ q.oid = r.oid /\ q.name = r.name /\ q.kind = r.kind
           /\ q.rel = r.rel /\ q.creator = r.creator /\ q.knew = r.knew
  BY Numbers DEF Rows, InvalidXID, Version

\* The rows of a table that x stamped: each is the row it was, row i with
\* the stamp, or its next version.
LEMMA StampsAre ==
    ASSUME NEW R \in Seq(Rows), NEW R2, NEW x \in Ids, NEW i, NEW more,
           Stamps(R, R2, x, i, more)
    PROVE  /\ \A k \in DOMAIN R : /\ k \in DOMAIN R2 /\ R[k] \in Rows
                                  /\ R2[k].xmin = R[k].xmin
                                  /\ R2[k].xmax = IF k = i THEN x ELSE R[k].xmax
           /\ \A k \in more : /\ k \in DOMAIN R2 /\ k \notin DOMAIN R
                              /\ R2[k].xmin = x /\ R2[k].xmax = InvalidXID
           /\ \A k \in DOMAIN R2 : R2[k] \in Rows /\ (k \in DOMAIN R \/ k \in more)
           /\ \A k \in DOMAIN R2 :
                 LET r == IF k \in DOMAIN R THEN R[k] ELSE R[i]
                     q == R2[k]
                 IN  /\ q.cat = r.cat /\ q.oid = r.oid /\ q.name = r.name /\ q.kind = r.kind
                     /\ q.rel = r.rel /\ q.creator = r.creator /\ q.knew = r.knew
<1>1. \A k \in DOMAIN R : R[k] \in Rows
  BY ElementOfSeq, LenProperties
<1>2. i \in DOMAIN R /\ R[i] \in Rows
  BY <1>1 DEF Stamps
<1>3. ASSUME NEW k \in DOMAIN R2
      PROVE  /\ R2[k] \in Rows /\ (k \in DOMAIN R \/ k \in more)
             /\ k \in DOMAIN R => /\ R2[k].xmin = R[k].xmin
                                  /\ R2[k].xmax = IF k = i THEN x ELSE R[k].xmax
             /\ k \in more => R2[k].xmin = x /\ R2[k].xmax = InvalidXID
             /\ LET r == IF k \in DOMAIN R THEN R[k] ELSE R[i]
                    q == R2[k]
                IN  /\ q.cat = r.cat /\ q.oid = r.oid /\ q.name = r.name /\ q.kind = r.kind
                    /\ q.rel = r.rel /\ q.creator = r.creator /\ q.knew = r.knew
  <2>1. CASE k \in DOMAIN R /\ k # i
    BY <1>1, <2>1 DEF Stamps
  <2>2. CASE k = i
    <3>1. R2[i] = Stamp(R[i], x) /\ i \in DOMAIN R /\ i \notin more
      BY DEF Stamps
    <3> QED
      BY <1>2, <2>2, <3>1, StampedFields
  <2>3. CASE k \in more
    <3>1. /\ R2[k] = Version(R[i], x) /\ k \notin DOMAIN R
      BY <2>3 DEF Stamps
    <3>2. LET r == R[i]
              q == R2[k]
          IN  /\ q \in Rows /\ q.xmax = InvalidXID /\ q.xmin = x
              /\ q.cat = r.cat /\ q.oid = r.oid /\ q.name = r.name /\ q.kind = r.kind
              /\ q.rel = r.rel /\ q.creator = r.creator /\ q.knew = r.knew
      BY <1>2, <3>1, VersionFields
    <3> QED
      BY <2>3, <3>1, <3>2
  <2> QED
    BY <2>1, <2>2, <2>3 DEF Stamps
<1>4. DOMAIN R2 = DOMAIN R \cup more /\ more \cap DOMAIN R = {}
  BY DEF Stamps
<1> HIDE DEF Stamps
<1> QED
  BY <1>1, <1>3, <1>4

\* What a row is about stays.
LEMMA StampsSame ==
    ASSUME NEW R \in Seq(Rows), NEW R2, NEW x \in Ids, NEW i, NEW more,
           Stamps(R, R2, x, i, more)
    PROVE  /\ \A k \in DOMAIN R : /\ k \in DOMAIN R2
                                  /\ R2[k].oid = R[k].oid /\ R2[k].cat = R[k].cat
                                  /\ R2[k].creator = R[k].creator
                                  /\ R2[k].xmax = IF k = i THEN x ELSE R[k].xmax
           /\ \A k \in more : /\ k \in DOMAIN R2 /\ k \notin DOMAIN R
                              /\ R2[k].oid = R[i].oid /\ R2[k].cat = R[i].cat
                              /\ R2[k].creator = R[i].creator
<1>1. ASSUME NEW k \in DOMAIN R
      PROVE  /\ k \in DOMAIN R2
             /\ R2[k].oid = R[k].oid /\ R2[k].cat = R[k].cat
             /\ R2[k].creator = R[k].creator
             /\ R2[k].xmax = IF k = i THEN x ELSE R[k].xmax
  <2>1. k \in DOMAIN R2 /\ R2[k].xmax = IF k = i THEN x ELSE R[k].xmax
    BY StampsAre
  <2>2. R2[k].oid = R[k].oid /\ R2[k].cat = R[k].cat /\ R2[k].creator = R[k].creator
    BY <2>1, StampsAre
  <2> QED
    BY <2>1, <2>2
<1>2. ASSUME NEW k \in more
      PROVE  /\ k \in DOMAIN R2 /\ k \notin DOMAIN R
             /\ R2[k].oid = R[i].oid /\ R2[k].cat = R[i].cat
             /\ R2[k].creator = R[i].creator
  <2>1. k \in DOMAIN R2 /\ k \notin DOMAIN R
    BY StampsAre
  <2>2. R2[k].oid = R[i].oid /\ R2[k].cat = R[i].cat /\ R2[k].creator = R[i].creator
    BY <2>1, StampsAre
  <2> QED
    BY <2>1, <2>2
<1> QED
  BY <1>1, <1>2

LEMMA OpenIsNotDead ==
    ASSUME NEW st, NEW x \in Xids, st[x] = "running", NEW r, Open(st, x, r)
    PROVE  /\ ~Dead(st, r)
           /\ \A y : Verdict(st, y) # "aborted" => ~DroppedBy(st, y, r)
           /\ Sees(st, x, r)
<1>1. Verdict(st, x) = "running"
  BY VerdictOfXid
<1>2. Verdict(st, r.xmin) # "aborted" /\ Verdict(st, r.xmax) = "aborted"
  BY <1>1 DEF Open
<1>3. r.xmax # x
  BY <1>1, <1>2
<1> QED
  BY <1>1, <1>2, <1>3 DEF Open, Dead, DroppedBy, Sees

\* A stamp undoes no other, and hits no row that is dead.
LEMMA StampsKeep ==
    ASSUME NEW st, NEW R \in Seq(Rows), NEW R2, NEW x \in Xids, st[x] = "running",
           NEW i, NEW more, Stamps(R, R2, x, i, more), Open(st, x, R[i])
    PROVE  \A k \in DOMAIN R :
              /\ Dead(st, R[k]) <=> Dead(st, R2[k])
              /\ \A y : Verdict(st, y) # "aborted" /\ DroppedBy(st, y, R[k])
                           => DroppedBy(st, y, R2[k])
              /\ R2[k].xmax = R[k].xmax \/ (k = i /\ R2[k].xmax = x)
<1> USE Numbers
<1>1. ASSUME NEW k \in DOMAIN R, k # i PROVE R2[k] = R[k]
  BY <1>1 DEF Stamps
<1>2. i \in DOMAIN R /\ R2[i].xmin = R[i].xmin /\ R2[i].xmax = x
  <2>1. i \in DOMAIN R /\ x \in Ids
    BY DEF Stamps
  <2> QED
    BY <2>1, StampsAre
<1>3. Verdict(st, x) = "running"
  BY VerdictOfXid
<1>4. ~Dead(st, R[i]) /\ ~Dead(st, R2[i])
  BY <1>2, <1>3, OpenIsNotDead DEF Dead, Open
<1>5. \A y : Verdict(st, y) # "aborted" => ~DroppedBy(st, y, R[i])
  BY OpenIsNotDead
<1> QED
  BY <1>1, <1>2, <1>4, <1>5

LEMMA SoundStamps ==
    ASSUME NEW st, NEW R \in Seq(Rows), NEW R2, NEW o \in Nat, Sound(st, R, o),
           NEW x \in Xids, st[x] = "running", NEW i, NEW more, Stamps(R, R2, x, i, more),
           Open(st, x, R[i])
    PROVE  Sound(st, R2, o)
<1> USE Numbers
<1> DEFINE Was(k) == IF k \in DOMAIN R THEN R[k] ELSE R[i]
<1>1. Verdict(st, x) = "running" /\ Known(st, x) /\ x # InvalidXID
  BY VerdictOfXid DEF Known
<1>2. i \in DOMAIN R /\ \A k \in DOMAIN R2 \ DOMAIN R : k \in more /\ R[i].cat = "class"
  BY DEF Stamps
<1>3. ASSUME NEW k \in DOMAIN R2
      PROVE  LET r == Was(k)
                 q == R2[k]
             IN  /\ q.cat = r.cat /\ q.oid = r.oid /\ q.name = r.name /\ q.kind = r.kind
                 /\ q.rel = r.rel /\ q.creator = r.creator /\ q.knew = r.knew
                 /\ k \in DOMAIN R /\ k # i => q = r
                 /\ k = i => q.xmin = r.xmin /\ q.xmax = x
                 /\ k \notin DOMAIN R => q.xmin = x /\ q.xmax = InvalidXID
                 /\ RowFits(st, o, r)
  <2>1. RowFits(st, o, Was(k))
    BY <1>2 DEF Sound, RowsFit
  <2>2. k \in DOMAIN R /\ k # i => R2[k] = R[k]
    BY DEF Stamps
  <2> QED
    BY <1>2, <2>1, <2>2, StampsAre
<1> HIDE DEF Was
<1>4. \A k \in DOMAIN R2 : \E m \in DOMAIN R : Was(k) = R[m] /\ (k \in DOMAIN R => m = k)
                                               /\ (k \notin DOMAIN R => m = i)
  BY <1>2 DEF Was
<1>5. \A a : IsTable(R, a) => IsTable(R2, a)
  <2>1. \A k \in DOMAIN R : k \in DOMAIN R2 /\ Was(k) = R[k]
    BY DEF Stamps, Was
  <2> QED
    BY <1>3, <2>1 DEF IsTable, Class
<1>6. ASSUME NEW k \in DOMAIN R2 PROVE RowFits(st, o, R2[k])
  <2>1. CASE k \in DOMAIN R /\ k # i
    BY <1>3, <2>1
  <2>2. CASE k = i
    <3>1. R[i].xmin = x \/ Verdict(st, R[i].xmin) = "committed"
      BY DEF Open
    <3>2. Was(i) = R[i]
      BY <1>2 DEF Was
    <3> QED
      BY <1>1, <1>3, <2>2, <3>1, <3>2 DEF RowFits
  <2>3. CASE k \notin DOMAIN R
    <3>1. R[i].xmin = x \/ Verdict(st, R[i].xmin) = "committed"
      BY DEF Open
    <3>2. Was(k) = R[i] /\ R[i].cat = "class"
      BY <1>2, <2>3 DEF Was
    <3>3. RowFits(st, o, R[i])
      BY <1>2 DEF Sound, RowsFit
    <3>4. R[i].creator = x \/ Verdict(st, R[i].creator) = "committed"
      BY <3>1, <3>3 DEF RowFits
    <3>5. LET r == R[i]
              q == R2[k]
          IN  /\ q.cat = r.cat /\ q.oid = r.oid /\ q.kind = r.kind /\ q.cat = "class"
              /\ q.creator = r.creator /\ q.knew = r.knew
              /\ q.xmin = x /\ q.xmax = InvalidXID
      BY <1>3, <2>3, <3>2
    <3> QED
      BY <1>1, <3>3, <3>4, <3>5, Zero DEF RowFits
  <2> QED
    BY <2>1, <2>2, <2>3
<1>7. RowsFit(st, R2, o)
  <2> SUFFICES ASSUME NEW k \in DOMAIN R2 PROVE R2[k].cat = "index" => IsTable(R2, R2[k].rel)
    BY <1>6 DEF RowsFit
  <2> QED
    BY <1>3, <1>4, <1>5 DEF Sound, RowsFit
<1>8. PairsFit(R2)
  <2> SUFFICES ASSUME NEW a \in DOMAIN R2, NEW b \in DOMAIN R2, R2[a].oid = R2[b].oid
               PROVE  PairFits(R2[a], R2[b]) /\ (a = b \/ R2[a].cat = "class" \/ R2[b].cat = "class")
    BY DEF PairsFit
  <2>1. PICK m \in DOMAIN R : Was(a) = R[m] /\ (a \in DOMAIN R => m = a) /\ (a \notin DOMAIN R => m = i)
    BY <1>4
  <2>2. PICK n \in DOMAIN R : Was(b) = R[n] /\ (b \in DOMAIN R => n = b) /\ (b \notin DOMAIN R => n = i)
    BY <1>4
  <2>3. R[m].oid = R[n].oid
    BY <1>3, <2>1, <2>2
  <2>4. PairFits(R[m], R[n]) /\ (m = n \/ R[m].cat = "class" \/ R[n].cat = "class")
    BY <2>3 DEF Sound, PairsFit
  <2>5. PairFits(R2[a], R2[b])
    BY <1>3, <2>1, <2>2, <2>4 DEF PairFits
  <2>6. a = b \/ R2[a].cat = "class" \/ R2[b].cat = "class"
    BY <1>2, <1>3, <2>1, <2>2, <2>4
  <2> QED
    BY <2>5, <2>6
<1>9. OneIsSeen(st, R2)
  <2> SUFFICES ASSUME NEW a \in Class(R2), NEW b \in Class(R2), R2[a].oid = R2[b].oid, a # b
               PROVE  Excludes(st, R2[a], R2[b])
    BY DEF OneIsSeen
  <2>1. ASSUME NEW c \in Class(R), NEW d \in Class(R), R[c].oid = R[d].oid, c # d
        PROVE  Excludes(st, R2[c], R2[d])
    <3>1. Excludes(st, R[c], R[d])
      BY <2>1 DEF Sound, OneIsSeen
    <3>2. c \in DOMAIN R /\ d \in DOMAIN R
      BY DEF Class
    <3>3. /\ Dead(st, R[c]) <=> Dead(st, R2[c])
          /\ Dead(st, R[d]) <=> Dead(st, R2[d])
          /\ R2[c].xmin = R[c].xmin /\ R2[d].xmin = R[d].xmin
      BY <3>2, StampsKeep, StampsAre
    <3>4. CASE c = i /\ R[c].xmax = R[d].xmin
      BY <3>3, <3>4 DEF Excludes, Dead, Open
    <3>5. CASE d = i /\ R[d].xmax = R[c].xmin
      BY <3>3, <3>5 DEF Excludes, Dead, Open
    <3>6. CASE ~(c = i /\ R[c].xmax = R[d].xmin) /\ ~(d = i /\ R[d].xmax = R[c].xmin)
      <4>1. /\ c # i => R2[c] = R[c]
            /\ d # i => R2[d] = R[d]
        BY <3>2 DEF Stamps
      <4> QED
        BY <3>1, <3>3, <3>6, <4>1 DEF Excludes
    <3> QED
      BY <3>4, <3>5, <3>6
  <2>2. ASSUME NEW c \in Class(R), NEW d \in more, R2[c].oid = R2[d].oid
        PROVE  Excludes(st, R2[c], R2[d])
    <3>1. d \in DOMAIN R2 /\ d \notin DOMAIN R /\ c \in DOMAIN R /\ R2[d].xmin = x
      BY StampsAre DEF Class
    <3>2. CASE c = i
      BY <3>1, <3>2, StampsAre DEF Excludes
    <3>3. CASE c # i
      <4>1. R2[c] = R[c] /\ R[c].oid = R[i].oid
        BY <1>3, <2>2, <3>1, <3>3 DEF Was, Stamps
      <4>2. i \in Class(R)
        BY <1>2, <3>1 DEF Class
      <4>3. Excludes(st, R[c], R[i])
        BY <3>3, <4>1, <4>2 DEF Sound, OneIsSeen
      <4>4. ~Dead(st, R[i]) /\ Verdict(st, R[i].xmax) = "aborted"
        BY OpenIsNotDead DEF Open
      <4>5. Dead(st, R[c]) \/ R[c].xmax = R[i].xmin
        BY <4>3, <4>4 DEF Excludes, Dead
      <4>6. Dead(st, R[c]) \/ R[c].xmax = x
        BY <4>5 DEF Open, Dead
      <4> QED
        BY <3>1, <4>1, <4>6 DEF Excludes
    <3> QED
      BY <3>2, <3>3
  <2>3. a \in Class(R) \/ a \in more
    BY <1>3, <1>2 DEF Class, Was
  <2>4. b \in Class(R) \/ b \in more
    BY <1>3, <1>2 DEF Class, Was
  <2>5. ~(a \in more /\ b \in more)
    BY DEF Stamps
  <2>6. \A r, q : Excludes(st, r, q) <=> Excludes(st, q, r)
    BY DEF Excludes
  <2>7. a \in Class(R) /\ b \in Class(R) => R[a].oid = R[b].oid
    BY <1>3 DEF Class, Was
  <2> QED
    BY <2>1, <2>2, <2>3, <2>4, <2>5, <2>6, <2>7
<1> QED
  BY <1>7, <1>8, <1>9 DEF Sound

-----------------------------------------------------------------------------
(* What the steps of another leave of a session.                           *)

LEMMA FitsMoves ==
    ASSUME NEW st, NEW st2, Moves(st, st2), NEW R \in Seq(Rows), NEW o \in Nat, NEW o2 \in Nat,
           o <= o2, NEW q \in States, Fits(st, R, o, q), q.tx # InvalidXID => st2[q.tx] = "running"
    PROVE  Fits(st2, R, o2, q)
<1>1. ASSUME NEW K \in SUBSET Ids, KnewThen(st, q, K) PROVE KnewThen(st2, q, K)
  BY <1>1, KnownStays DEF KnewThen, Known
<1>2. q.new.knew \in SUBSET Ids /\ \A k \in DOMAIN q.todo : q.todo[k] \in Tasks
  BY ElementOfSeq, LenProperties DEF States, News
<1>3. ASSUME TwoLeft(st, R, o, q) PROVE TwoLeft(st2, R, o2, q)
  <2>1. 1 \in DOMAIN q.todo
    BY <1>3, LenProperties DEF TwoLeft, States
  <2>2. q.todo[1].row.knew \in SUBSET Ids /\ q.todo[1].row.oid \in Nat
    BY <1>2, <2>1 DEF Tasks, Rows
  <2>3. KnewThen(st2, q, q.todo[1].row.knew)
    BY <1>1, <1>3, <2>2 DEF TwoLeft
  <2>4. q.todo[1].row.oid < o2
    <3>1. q.todo[1].row.oid < o
      BY <1>3 DEF TwoLeft
    <3> QED
      BY <2>2, <3>1
  <2> QED
    BY <1>3, <2>3, <2>4 DEF TwoLeft
<1>4. ASSUME OneLeft(R, o, q) PROVE OneLeft(R, o2, q)
  <2>1. 1 \in DOMAIN q.todo
    BY <1>4, LenProperties DEF OneLeft, States
  <2>2. q.todo[1].row.oid \in Nat
    BY <1>2, <2>1 DEF Tasks, Rows
  <2>3. q.todo[1].row.oid < o2
    <3>1. q.todo[1].row.oid < o
      BY <1>4 DEF OneLeft
    <3> QED
      BY <2>2, <3>1
  <2> QED
    BY <1>4, <2>3 DEF OneLeft
<1>5. q.pc = "create" => KnewThen(st2, q, q.new.knew)
  BY <1>1, <1>2 DEF Fits
<1> QED
  BY <1>3, <1>4, <1>5 DEF Fits

LEMMA AddsKeepTables ==
    ASSUME NEW R, NEW R2, NEW r, Adds(R, R2, r)
    PROVE  /\ \A a : IsTable(R, a) => IsTable(R2, a)
           /\ \A a : a # r.oid => Of(R2, a) = Of(R, a)
           /\ \A todo : Planned(R, todo) => Planned(R2, todo)
           /\ \A k \in DOMAIN R : k \in DOMAIN R2 /\ R2[k] = R[k]
<1>1. PICK n \in Nat \ DOMAIN R : /\ DOMAIN R2 = DOMAIN R \cup {n} /\ R2[n] = r
                                  /\ \A k \in DOMAIN R : R2[k] = R[k]
  BY DEF Adds
<1>2. \A a : IsTable(R, a) => IsTable(R2, a)
  BY <1>1 DEF IsTable, Class
<1>3. \A a : a # r.oid => Of(R2, a) = Of(R, a)
  BY <1>1 DEF Of
<1>4. \A todo : Planned(R, todo) => Planned(R2, todo)
  BY <1>1 DEF Planned
<1> QED
  BY <1>1, <1>2, <1>3, <1>4

LEMMA InsertOidsAre ==
    ASSUME NEW st, NEW R, NEW o, NEW q \in States, Fits(st, R, o, q), q.pc = "write"
    PROVE  /\ TwoLeft(st, R, o, q) => InsertOids(q) = {q.todo[1].row.oid}
           /\ OneLeft(R, o, q) => InsertOids(q) = {q.todo[1].row.oid}
           /\ Planned(R, q.todo) => InsertOids(q) = {}
<1>1. DOMAIN q.todo = 1 .. Len(q.todo) /\ Len(q.todo) \in Nat
  BY LenProperties DEF States
<1>2. ASSUME TwoLeft(st, R, o, q) PROVE InsertOids(q) = {q.todo[1].row.oid}
  <2>1. DOMAIN q.todo = {1, 2}
    BY <1>1, <1>2 DEF TwoLeft
  <2>2. q.todo[1].row.oid = q.todo[2].row.oid
    BY <1>2 DEF TwoLeft, NewPair
  <2>3. \A k \in DOMAIN q.todo : q.todo[k].do = "insert"
    BY <1>2, <2>1 DEF TwoLeft
  <2> QED
    BY <2>1, <2>2, <2>3 DEF InsertOids
<1>3. ASSUME OneLeft(R, o, q) PROVE InsertOids(q) = {q.todo[1].row.oid}
  <2>1. DOMAIN q.todo = {1}
    BY <1>1, <1>3 DEF OneLeft
  <2>2. q.todo[1].do = "insert"
    BY <1>3 DEF OneLeft
  <2> QED
    BY <2>1, <2>2 DEF InsertOids
<1>4. Planned(R, q.todo) => InsertOids(q) = {}
  BY DEF Planned, InsertOids
<1> QED
  BY <1>2, <1>3, <1>4

LEMMA FitsAdds ==
    ASSUME NEW st, NEW R, NEW R2, NEW o \in Nat, NEW r, Adds(R, R2, r),
           NEW q \in States, Fits(st, R, o, q), r.oid \notin InsertOids(q)
    PROVE  Fits(st, R2, o, q)
<1>1. ASSUME q.pc = "write", TwoLeft(st, R, o, q) PROVE TwoLeft(st, R2, o, q)
  <2>1. Of(R2, q.todo[1].row.oid) = {}
    BY <1>1, AddsKeepTables, InsertOidsAre DEF TwoLeft
  <2> QED
    BY <1>1, <2>1, AddsKeepTables DEF TwoLeft, NewSub
<1>2. ASSUME q.pc = "write", OneLeft(R, o, q) PROVE OneLeft(R2, o, q)
  <2>1. PICK c \in DOMAIN R : Of(R, q.todo[1].row.oid) = {c} /\ NewPair(q, R[c], q.todo[1].row)
    BY <1>2 DEF OneLeft
  <2>2. Of(R2, q.todo[1].row.oid) = {c} /\ c \in DOMAIN R2 /\ R2[c] = R[c]
    BY <1>2, <2>1, AddsKeepTables, InsertOidsAre
  <2> QED
    BY <1>2, <2>1, <2>2, AddsKeepTables DEF OneLeft, NewSub
<1> QED
  BY <1>1, <1>2, AddsKeepTables DEF Fits

LEMMA StampsKeepTables ==
    ASSUME NEW R \in Seq(Rows), NEW R2, NEW x \in Ids, NEW i, NEW more,
           Stamps(R, R2, x, i, more)
    PROVE  /\ \A a : IsTable(R, a) => IsTable(R2, a)
           /\ \A a : i \notin Of(R, a) => Of(R2, a) = Of(R, a)
           /\ \A todo : Planned(R, todo) => Planned(R2, todo)
           /\ \A k \in DOMAIN R : k \in DOMAIN R2 /\ R2[k].cat = R[k].cat /\ R2[k].oid = R[k].oid
<1>1. \A k \in DOMAIN R : /\ k \in DOMAIN R2 /\ R2[k].cat = R[k].cat /\ R2[k].oid = R[k].oid
                          /\ R2[k].kind = R[k].kind
  BY StampsAre
<1>2. \A a : IsTable(R, a) => IsTable(R2, a)
  BY <1>1 DEF IsTable, Class
<1>3. \A todo : Planned(R, todo) => Planned(R2, todo)
  BY <1>1 DEF Planned
<1>4. ASSUME NEW a, i \notin Of(R, a) PROVE Of(R2, a) = Of(R, a)
  <2>1. i \in DOMAIN R /\ R[i].oid # a
    BY <1>4 DEF Stamps, Of
  <2>2. \A k \in DOMAIN R2 \ DOMAIN R : R2[k].oid = R[i].oid
    BY <2>1, StampsAre
  <2> QED
    BY <1>1, <2>1, <2>2 DEF Of
<1> QED
  BY <1>1, <1>2, <1>3, <1>4

LEMMA FitsStamps ==
    ASSUME NEW st, NEW R \in Seq(Rows), NEW R2, NEW o \in Nat, NEW x \in Xids,
           NEW i, NEW more, Stamps(R, R2, x, i, more), Open(st, x, R[i]),
           NEW q \in States, Fits(st, R, o, q), q.tx # x
    PROVE  Fits(st, R2, o, q)
<1>1. /\ \A a : IsTable(R, a) => IsTable(R2, a)
      /\ \A a : i \notin Of(R, a) => Of(R2, a) = Of(R, a)
      /\ \A todo : Planned(R, todo) => Planned(R2, todo)
      /\ \A k \in DOMAIN R : k \in DOMAIN R2
  <2>1. x \in Ids
    BY Numbers
  <2> QED
    BY <2>1, StampsKeepTables
<1>2. ASSUME q.pc = "write", TwoLeft(st, R, o, q) PROVE TwoLeft(st, R2, o, q)
  <2>1. Of(R2, q.todo[1].row.oid) = {}
    BY <1>2, <1>1 DEF TwoLeft
  <2> QED
    BY <1>2, <2>1, <1>1 DEF TwoLeft, NewSub
<1>3. ASSUME q.pc = "write", OneLeft(R, o, q) PROVE OneLeft(R2, o, q)
  <2>1. PICK c \in DOMAIN R : Of(R, q.todo[1].row.oid) = {c} /\ NewPair(q, R[c], q.todo[1].row)
    BY <1>3 DEF OneLeft
  <2>2. c # i
    <3>1. R[c].xmin = q.tx
      BY <2>1 DEF NewPair, NewClass
    <3>2. Verdict(st, q.tx) # "committed"
      <4>1. q.tx # InvalidXID => q.tx \in Xids /\ st[q.tx] = "running"
        BY DEF Fits
      <4> QED
        BY <4>1, VerdictOfXid, Zero
    <3> QED
      BY <3>1, <3>2 DEF Open
  <2>3. Of(R2, q.todo[1].row.oid) = {c} /\ c \in DOMAIN R2 /\ R2[c] = R[c]
    <3>1. i \notin Of(R, q.todo[1].row.oid)
      BY <2>1, <2>2
    <3>2. R2[c] = R[c]
      BY <2>2 DEF Stamps
    <3> QED
      BY <2>1, <3>1, <3>2, <1>1
  <2> QED
    BY <1>3, <2>1, <2>3, <1>1 DEF OneLeft, NewSub
<1> QED
  BY <1>2, <1>3, <1>1 DEF Fits

-----------------------------------------------------------------------------
(* What a snapshot sees.                                                   *)

LEMMA NextXidIs ==
    /\ NextXid \in Nat /\ NextXid >= FirstNormalXID
    /\ \A x \in Assigned : x < NextXid
<1> USE Numbers DEF FirstNormalXID
<1> DEFINE S == {n \in FirstNormalXID .. MaxXid + 1 : \A x \in Assigned : x < n}
           P(n) == /\ \A x \in Assigned : x < n
                   /\ n = FirstNormalXID \/ n - 1 \in Assigned
<1>1. Assigned \subseteq FirstNormalXID .. MaxXid
  BY DEF Assigned, Xids
<1>2. MaxXid + 1 \in S
  BY <1>1
<1>3. S \in SUBSET Nat
  OBVIOUS
<1>4. PICK n \in S : \A m \in S : n <= m
  BY <1>2, <1>3, SmallestOf
<1>5. P(n)
  <2>1. ASSUME n # FirstNormalXID, n - 1 \notin Assigned PROVE FALSE
    <3>1. n - 1 \in FirstNormalXID .. MaxXid + 1
      BY <2>1
    <3>2. \A x \in Assigned : x < n - 1
      BY <1>1, <2>1
    <3>3. n - 1 \in S
      BY <3>1, <3>2
    <3> QED
      BY <1>4, <3>3
  <2> QED
    BY <2>1
<1>6. \E m \in FirstNormalXID .. MaxXid + 1 : P(m)
  BY <1>5
<1>7. NextXid = CHOOSE m \in FirstNormalXID .. MaxXid + 1 : P(m)
  BY DEF NextXid
<1>8. P(NextXid) /\ NextXid \in FirstNormalXID .. MaxXid + 1
  <2> HIDE DEF P
  <2> QED
    BY <1>6, <1>7
<1> QED
  BY <1>8

\* A snapshot taken now counts as in progress the others that run.
LEMMA TakeIs ==
    ASSUME TypeInv, NEW x \in Ids, NEW y \in Ids, Known(status, y)
    PROVE  /\ Take(x).xid = x
           /\ InProgressFor(Take(x), y) <=> y # x /\ Verdict(status, y) = "running"
<1> DEFINE s == Take(x)
<1>1. s.xid = x /\ s.xmax = NextXid /\ s.xip = Running \ {x}
  BY DEF Take
<1>2. Running \in SUBSET Nat /\ \A z \in Running : z >= 3 /\ z \in Assigned
  BY Numbers DEF Running, Assigned, Xids, FirstNormalXID
<1>3. s.xmin \in Nat /\ s.xmin >= 3 /\ \A z \in Running : s.xmin <= z
  <2>1. CASE Running = {}
    BY <2>1, NextXidIs DEF Take, FirstNormalXID
  <2>2. CASE Running # {}
    <3>1. PICK m \in Running : \A z \in Running : m <= z
      BY <1>2, <2>2, SmallestOf
    <3>2. s.xmin = CHOOSE k \in Running : \A z \in Running : k <= z
      BY <2>2 DEF Take
    <3>3. s.xmin \in Running /\ \A z \in Running : s.xmin <= z
      BY <3>1, <3>2
    <3> QED
      BY <1>2, <3>3
  <2> QED
    BY <2>1, <2>2
<1> HIDE DEF s
<1>4. CASE y \in Xids
  <2>1. Verdict(status, y) = status[y] /\ y \in Assigned /\ y < NextXid /\ NextXid \in Nat /\ y \in Nat
    BY <1>4, VerdictOfXid, NextXidIs, Numbers DEF Known, Assigned
  <2>2. y \in Running <=> status[y] = "running"
    BY <1>4 DEF Running
  <2>3. InProgressFor(s, y) <=> y # x /\ y \in Running
    BY <1>1, <1>2, <1>3, <2>1 DEF InProgressFor
  <2> QED
    BY <1>1, <2>1, <2>2, <2>3 DEF s
<1>5. CASE y \notin Xids
  <2>1. y \in {0, 1, 2}
    BY <1>5, Numbers
  <2>2. Verdict(status, y) # "running"
    BY <2>1 DEF Verdict, InvalidXID, FirstNormalXID
  <2>3. ~InProgressFor(s, y)
    BY <1>3, <2>1 DEF InProgressFor
  <2> QED
    BY <1>1, <2>2, <2>3 DEF s
<1> QED
  BY <1>4, <1>5

LEMMA VisibleIs ==
    ASSUME TypeInv, NEW x \in Ids, NEW r \in Rows, NEW o, RowFits(status, o, r),
           x # InvalidXID => x \in Xids /\ status[x] = "running"
    PROVE  Visible(Take(x), r) <=> Sees(status, x, r)
<1> DEFINE s == Take(x)
<1>1. s.xid = x
  BY TakeIs, Zero, Numbers DEF InvalidXID
<1>2. /\ r.xmin \in Ids /\ r.xmax \in Ids /\ r.hints = {}
      /\ Known(status, r.xmin) /\ Known(status, r.xmax)
  BY DEF Rows, RowFits
<1>3. /\ InProgressFor(s, r.xmin) <=> r.xmin # x /\ Verdict(status, r.xmin) = "running"
      /\ InProgressFor(s, r.xmax) <=> r.xmax # x /\ Verdict(status, r.xmax) = "running"
  BY <1>2, TakeIs
<1>4. /\ Verdict(status, r.xmin) \in Statuses \ {"unassigned"}
      /\ Verdict(status, r.xmax) \in Statuses \ {"unassigned"}
  BY <1>2, VerdictTypes DEF TypeInv, CoreTypes, Known
<1>5. XminStatus(s, r) = IF r.xmin = x THEN "committed" ELSE Verdict(status, r.xmin)
  BY <1>1, <1>2, VerdictIs DEF XminStatus
<1>6. XmaxStatus(r) = Verdict(status, r.xmax)
  BY <1>2, VerdictIs DEF XmaxStatus
<1> HIDE DEF s
<1>7. XminVisible(s, r) <=> (r.xmin = x \/ Verdict(status, r.xmin) = "committed")
  BY <1>1, <1>3, <1>5 DEF XminVisible
<1>8. XmaxVisible(s, r) <=>
         (r.xmax = InvalidXID \/ (r.xmax # x /\ Verdict(status, r.xmax) # "committed"))
  BY <1>1, <1>3, <1>4, <1>6 DEF XmaxVisible, Statuses
<1>9. Visible(s, r) <=> Sees(status, x, r)
  BY <1>7, <1>8 DEF Visible, Sees
<1> QED
  BY <1>9 DEF s

LEMMA TxIs ==
    ASSUME RowsInv, NEW s \in Sessions
    PROVE  /\ ss[s] \in States /\ ss[s].tx \in Ids
           /\ ss[s].tx # InvalidXID => ss[s].tx \in Xids /\ status[ss[s].tx] = "running"
           /\ ss[s].tx = InvalidXID => ss[s] = Idle
  BY DEF RowsInv, Core, CoreTypes, SessionsFit, Fits, States

LEMMA RowIs ==
    ASSUME RowsInv, NEW i \in DOMAIN rows
    PROVE  rows[i] \in Rows /\ RowFits(status, nextOid, rows[i])
  BY RowsLen DEF RowsInv, Core, Sound, RowsFit

LEMMA SeenIs ==
    ASSUME RowsInv, NEW s \in Sessions
    PROVE  Seen(s) = {i \in DOMAIN rows : Sees(status, ss[s].tx, rows[i])}
<1>1. \A i \in DOMAIN rows : Visible(Take(ss[s].tx), rows[i]) <=> Sees(status, ss[s].tx, rows[i])
  BY RowIs, TxIs, VisibleIs DEF RowsInv, Core
<1> QED
  BY <1>1 DEF Seen

\* Of two versions of a pg_class row a session sees at most one.
LEMMA SeenOnce ==
    ASSUME RowsInv, NEW s \in Sessions, NEW i \in Seen(s), NEW j \in Seen(s),
           rows[i].cat = "class", rows[j].cat = "class", rows[i].oid = rows[j].oid
    PROVE  i = j
<1>1. SUFFICES ASSUME i # j PROVE FALSE
  OBVIOUS
<1>2. i \in Class(rows) /\ j \in Class(rows)
  BY SeenIsHere DEF Class
<1>3. Excludes(status, rows[i], rows[j])
  BY <1>1, <1>2 DEF RowsInv, Core, Sound, OneIsSeen
<1>4. Sees(status, ss[s].tx, rows[i]) /\ Sees(status, ss[s].tx, rows[j])
  BY SeenIs
<1>5. ss[s].tx # InvalidXID => Verdict(status, ss[s].tx) = "running"
  BY TxIs, VerdictOfXid
<1>6. rows[i].xmin # InvalidXID /\ rows[j].xmin # InvalidXID
  BY <1>2, RowIs DEF RowFits, Class
<1>7. ~Dead(status, rows[i]) /\ ~Dead(status, rows[j])
  BY <1>4, <1>5, <1>6, Zero DEF Sees, Dead
<1> QED
  BY <1>3, <1>4, <1>6, <1>7 DEF Excludes, Sees

-----------------------------------------------------------------------------
(* One session moves, and the rows stay or fit again.                      *)

LEMMA SessionStep ==
    ASSUME RowsInv, NEW s \in Sessions, rows' = rows, nextOid' \in Nat, nextOid <= nextOid',
           status' \in [Xids -> Statuses], Moves(status, status'),
           \A t \in Sessions \ {s} : ss[t].tx # InvalidXID => status'[ss[t].tx] = "running",
           NEW q \in States, ss' = [ss EXCEPT ![s] = q],
           Fits(status', rows, nextOid', q),
           \A t \in Sessions \ {s} : q.tx # InvalidXID => q.tx # ss[t].tx,
           \A t \in Sessions \ {s} : InsertOids(q) \cap InsertOids(ss[t]) = {}
    PROVE  Core'
<1>1. /\ rows \in Seq(Rows) /\ nextOid \in Nat /\ Sound(status, rows, nextOid)
      /\ \A t \in Sessions : ss[t] \in States /\ Fits(status, rows, nextOid, ss[t])
      /\ ss \in [Sessions -> States]
  BY DEF RowsInv, Core, CoreTypes, SessionsFit
<1>2. CoreTypes' /\ ss'[s] = q /\ \A t \in Sessions \ {s} : ss'[t] = ss[t]
  BY <1>1 DEF CoreTypes
<1>3. Sound(status', rows', nextOid')
  BY <1>1, SoundMoves
<1>4. \A t \in Sessions \ {s} : Fits(status', rows', nextOid', ss'[t])
  BY <1>1, <1>2, FitsMoves
<1>5. \A t \in Sessions : Fits(status', rows', nextOid', ss'[t])
  BY <1>2, <1>4
<1>6. Apart'
  <2> SUFFICES ASSUME NEW a \in Sessions, NEW b \in Sessions, a # b
               PROVE  /\ ss'[a].tx # InvalidXID => ss'[a].tx # ss'[b].tx
                      /\ InsertOids(ss'[a]) \cap InsertOids(ss'[b]) = {}
    BY DEF Apart
  <2>1. /\ ss[a].tx # InvalidXID => ss[a].tx # ss[b].tx
        /\ InsertOids(ss[a]) \cap InsertOids(ss[b]) = {}
    BY DEF RowsInv, Core, Apart
  <2>2. CASE a # s /\ b # s
    BY <1>2, <2>1, <2>2
  <2>3. CASE a = s
    BY <1>2, <2>3
  <2>4. CASE b = s
    BY <1>2, <2>4
  <2> QED
    BY <2>2, <2>3, <2>4
<1> QED
  BY <1>2, <1>3, <1>5, <1>6 DEF Core, SessionsFit

\* The status stays, too, and no OID is assigned.
LEMMA QuietStep ==
    ASSUME RowsInv, NEW s \in Sessions, rows' = rows, nextOid' = nextOid, status' = status,
           NEW q \in States, ss' = [ss EXCEPT ![s] = q], q.tx = ss[s].tx,
           Fits(status, rows, nextOid, q), InsertOids(q) \subseteq InsertOids(ss[s])
    PROVE  Core'
<1>1. /\ nextOid \in Nat /\ nextOid <= nextOid' /\ status \in [Xids -> Statuses]
      /\ Moves(status, status')
  BY StandingStill DEF RowsInv, Core, CoreTypes
<1>2. ASSUME NEW t \in Sessions \ {s}
      PROVE  /\ ss[t].tx # InvalidXID => status'[ss[t].tx] = "running"
             /\ q.tx # InvalidXID => q.tx # ss[t].tx
             /\ InsertOids(q) \cap InsertOids(ss[t]) = {}
  BY TxIs DEF RowsInv, Core, Apart
<1> QED
  BY <1>1, <1>2, SessionStep

LEMMA RowsChange ==
    ASSUME RowsInv, NEW s \in Sessions, nextOid' = nextOid, status' = status,
           rows' \in Seq(Rows), Sound(status, rows', nextOid),
           \A t \in Sessions \ {s} : Fits(status, rows', nextOid, ss[t]),
           NEW q \in States, ss' = [ss EXCEPT ![s] = q], q.tx = ss[s].tx,
           Fits(status, rows', nextOid, q), InsertOids(q) \subseteq InsertOids(ss[s])
    PROVE  Core'
<1>1. /\ nextOid \in Nat /\ status \in [Xids -> Statuses] /\ ss \in [Sessions -> States]
  BY DEF RowsInv, Core, CoreTypes
<1>2. CoreTypes' /\ ss'[s] = q /\ \A t \in Sessions \ {s} : ss'[t] = ss[t]
  BY <1>1 DEF CoreTypes
<1>3. \A t \in Sessions : Fits(status', rows', nextOid', ss'[t])
  BY <1>2
<1>4. Apart'
  <2> SUFFICES ASSUME NEW a \in Sessions, NEW b \in Sessions, a # b
               PROVE  /\ ss'[a].tx # InvalidXID => ss'[a].tx # ss'[b].tx
                      /\ InsertOids(ss'[a]) \cap InsertOids(ss'[b]) = {}
    BY DEF Apart
  <2>1. /\ ss[a].tx # InvalidXID => ss[a].tx # ss[b].tx
        /\ InsertOids(ss[a]) \cap InsertOids(ss[b]) = {}
    BY DEF RowsInv, Core, Apart
  <2>2. \A t \in Sessions : ss'[t].tx = ss[t].tx /\ InsertOids(ss'[t]) \subseteq InsertOids(ss[t])
    BY <1>2
  <2> QED
    BY <2>1, <2>2
<1> QED
  BY <1>2, <1>3, <1>4 DEF Core, SessionsFit

-----------------------------------------------------------------------------
(* Steps that write no row: reads, checks and failures.                    *)

\* Session s stays in its transaction, and no other session moves.
Becomes(s, q) == q \in States /\ ss' = [ss EXCEPT ![s] = q] /\ q.tx = ss[s].tx

Calm(q) == \/ q.pc = "failed"
           \/ q.todo = <<>> /\ q.gone = {} /\ q.pc \notin {"exists", "create", "write"}

Still == UNCHANGED <<status, rows, files, nextOid, pending>>

LEMMA CalmFits ==
    ASSUME RowsInv, NEW s \in Sessions, ss[s].tx # InvalidXID,
           NEW q \in States, q.tx = ss[s].tx, Calm(q)
    PROVE  Fits(status, rows, nextOid, q) /\ InsertOids(q) = {}
<1>1. q.tx \in Xids /\ status[q.tx] = "running" /\ q.tx # InvalidXID
  BY TxIs
<1>2. q.pc \notin {"exists", "create", "write"}
  BY DEF Calm
<1> QED
  BY <1>1, <1>2 DEF Calm, Fits, InsertOids

\* A session in a statement has a transaction, and nothing planned outside
\* of the writing.
LEMMA BusyHasTx ==
    ASSUME RowsInv, NEW s \in Sessions
    PROVE  /\ ss[s].pc # "idle" => ss[s].tx # InvalidXID
           /\ ss[s].pc \notin {"write", "failed"} => ss[s].todo = <<>> /\ ss[s].gone = {}
           /\ InvalidXID = 0
<1>1. Fits(status, rows, nextOid, ss[s])
  BY DEF RowsInv, Core, SessionsFit
<1>2. ss[s].tx = InvalidXID => ss[s].pc = "idle"
  BY TxIs DEF Idle
<1> QED
  BY <1>1, <1>2 DEF Fits, InvalidXID

LEMMA InfoIs ==
    ASSUME RowsInv, NEW s \in Sessions
    PROVE  /\ ss[s].info \in Infos /\ ss[s].name \in RowNames /\ ss[s].new \in News
           /\ \A i \in Nat : [NoInfo EXCEPT !.class = i] \in Infos
           /\ \A S \in SUBSET Nat : [ss[s].info EXCEPT !.attrs = S] \in Infos
           /\ \A S \in SUBSET Nat : [ss[s].info EXCEPT !.indexes = S] \in Infos
           /\ \A S \in SUBSET Nat : [ss[s].info EXCEPT !.names = S] \in Infos
<1>1. ss[s] \in States
  BY TxIs
<1>2. ss[s].info \in Infos /\ ss[s].name \in RowNames /\ ss[s].new \in News /\ NoInfo \in Infos
  BY <1>1, EmptyTypes DEF States
<1> QED
  BY <1>2 DEF Infos

LEMMA GotoIs ==
    ASSUME RowsInv, NEW s \in Sessions, NEW p \in Pcs, Goto(s, p)
    PROVE  LET q == ss'[s] IN
           /\ Becomes(s, q) /\ q.pc = p
           /\ q.todo = ss[s].todo /\ q.gone = ss[s].gone /\ q.new = ss[s].new
<1> DEFINE q == [ss[s] EXCEPT !.pc = p]
<1>1. ss \in [Sessions -> States] /\ ss[s] \in States
  BY DEF RowsInv, Core, CoreTypes
<1>2. /\ q \in States /\ q.tx = ss[s].tx /\ q.pc = p
      /\ q.todo = ss[s].todo /\ q.gone = ss[s].gone /\ q.new = ss[s].new
  BY <1>1 DEF States
<1>3. ss' = [ss EXCEPT ![s] = q]
  BY <1>1 DEF Goto
<1> HIDE DEF q
<1>4. ss'[s] = q
  BY <1>1, <1>3
<1> QED
  BY <1>2, <1>3, <1>4 DEF Becomes

LEMMA LookupIs ==
    ASSUME RowsInv, NEW s \in Sessions, NEW n \in Names, Lookup(s, n)
    PROVE  Becomes(s, ss'[s]) /\ Calm(ss'[s]) /\ Still
<1> DEFINE i == First(ByName(s, n))
           q == [ss[s] EXCEPT !.pc = "attrs", !.name = n, !.info = [NoInfo EXCEPT !.class = i]]
<1>1. ss \in [Sessions -> States] /\ ss[s] \in States /\ n \in RowNames
  BY DEF RowsInv, Core, CoreTypes, RowNames
<1>2. ss[s].todo = <<>> /\ ss[s].gone = {} /\ Still
  BY BusyHasTx DEF Lookup, At, OnlySession, Still
<1>3. CASE ByName(s, n) = {}
  BY <1>2, <1>3, GotoIs DEF Lookup, Calm, Pcs
<1>4. CASE ByName(s, n) # {}
  <2>1. [NoInfo EXCEPT !.class = i] \in Infos
    <3>1. i \in Nat
      BY <1>4, FoundAreRows DEF RowsInv
    <3> QED
      BY <3>1, InfoIs
  <2>2. q \in States /\ q.tx = ss[s].tx /\ q.pc = "attrs" /\ q.todo = <<>> /\ q.gone = {}
    BY <1>1, <1>2, <2>1 DEF Pcs, States
  <2>3. ss' = [ss EXCEPT ![s] = q]
    BY <1>1, <1>4 DEF Lookup
  <2> HIDE DEF q
  <2>4. ss'[s] = q
    BY <1>1, <2>3
  <2> QED
    BY <1>2, <2>2, <2>3, <2>4 DEF Becomes, Calm
<1> QED
  BY <1>3, <1>4

\* The rows that the loads find.
LEMMA LoadsFind ==
    ASSUME RowsInv, NEW s \in Sessions, NEW cat, NEW S, S \subseteq Scan(s, cat)
    PROVE  S \in SUBSET Nat
  BY FoundAreRows DEF RowsInv

LEMMA RememberIs ==
    ASSUME RowsInv, NEW s \in Sessions, NEW i \in Infos, Remember(s, i),
           ss[s].pc \notin {"write", "failed"}
    PROVE  Becomes(s, ss'[s]) /\ Calm(ss'[s])
<1> DEFINE q == [ss[s] EXCEPT !.pc = "run", !.name = None, !.info = NoInfo]
<1>1. /\ ss \in [Sessions -> States] /\ ss[s] \in States
      /\ None \in RowNames /\ NoInfo \in Infos
  BY EmptyTypes DEF RowsInv, Core, CoreTypes, RowNames
<1>2. ss[s].todo = <<>> /\ ss[s].gone = {}
  BY BusyHasTx
<1>3. q \in States /\ q.tx = ss[s].tx /\ q.pc = "run" /\ q.todo = <<>> /\ q.gone = {}
  BY <1>1, <1>2 DEF Pcs, States
<1>4. ss' = [ss EXCEPT ![s] = q]
  BY <1>1 DEF Remember
<1> HIDE DEF q
<1>5. ss'[s] = q
  BY <1>1, <1>4
<1> QED
  BY <1>3, <1>4, <1>5 DEF Becomes, Calm

LEMMA LoadAttributesIs ==
    ASSUME RowsInv, NEW s \in Sessions, LoadAttributes(s)
    PROVE  Becomes(s, ss'[s]) /\ Calm(ss'[s]) /\ Still
<1> DEFINE class == rows[ss[s].info.class]
           found == {i \in Scan(s, "attr") : rows[i].oid = class.oid}
           info  == [ss[s].info EXCEPT !.attrs = found]
           q     == [ss[s] EXCEPT !.pc = "indexes", !.info = info]
<1>1. ss \in [Sessions -> States] /\ ss[s] \in States /\ info \in Infos
  <2>1. found \in SUBSET Nat
    BY LoadsFind
  <2> QED
    BY <2>1, InfoIs DEF RowsInv, Core, CoreTypes
<1>2. ss[s].todo = <<>> /\ ss[s].gone = {} /\ Still /\ ss[s].pc = "attrs"
  BY BusyHasTx DEF LoadAttributes, At, Still
<1>3. CASE class.kind = "index"
  BY <1>1, <1>2, <1>3, RememberIs DEF LoadAttributes
<1>4. CASE class.kind # "index"
  <2>1. q \in States /\ q.tx = ss[s].tx /\ q.pc = "indexes" /\ q.todo = <<>> /\ q.gone = {}
    BY <1>1, <1>2 DEF Pcs, States
  <2>2. ss' = [ss EXCEPT ![s] = q]
    BY <1>1, <1>4 DEF LoadAttributes
  <2> HIDE DEF q
  <2>3. ss'[s] = q
    BY <1>1, <2>2
  <2> QED
    BY <1>2, <2>1, <2>2, <2>3 DEF Becomes, Calm
<1> QED
  BY <1>3, <1>4

LEMMA LoadIndexesIs ==
    ASSUME RowsInv, NEW s \in Sessions, LoadIndexes(s)
    PROVE  Becomes(s, ss'[s]) /\ Calm(ss'[s]) /\ Still
<1> DEFINE found == {i \in Scan(s, "index") : rows[i].rel = rows[ss[s].info.class].oid}
           info  == [ss[s].info EXCEPT !.indexes = found]
           q     == [ss[s] EXCEPT !.pc = "names", !.info = info]
<1>1. ss \in [Sessions -> States] /\ ss[s] \in States /\ info \in Infos
  <2>1. found \in SUBSET Nat
    BY LoadsFind
  <2> QED
    BY <2>1, InfoIs DEF RowsInv, Core, CoreTypes
<1>2. ss[s].todo = <<>> /\ ss[s].gone = {} /\ Still /\ ss[s].pc = "indexes"
  BY BusyHasTx DEF LoadIndexes, At, Still, OnlySession
<1>3. q \in States /\ q.tx = ss[s].tx /\ q.pc = "names" /\ q.todo = <<>> /\ q.gone = {}
  BY <1>1, <1>2 DEF Pcs, States
<1>4. ss' = [ss EXCEPT ![s] = q]
  BY <1>1 DEF LoadIndexes
<1> HIDE DEF q
<1>5. ss'[s] = q
  BY <1>1, <1>4
<1> QED
  BY <1>2, <1>3, <1>4, <1>5 DEF Becomes, Calm

LEMMA LoadNamesIs ==
    ASSUME RowsInv, NEW s \in Sessions, LoadNames(s)
    PROVE  Becomes(s, ss'[s]) /\ Calm(ss'[s]) /\ Still
<1> DEFINE found == {i \in Scan(s, "class") :
                        \E j \in ss[s].info.indexes : rows[i].oid = rows[j].oid}
           info  == [ss[s].info EXCEPT !.names = found]
<1>1. info \in Infos
  <2>1. found \in SUBSET Nat
    BY LoadsFind
  <2> QED
    BY <2>1, InfoIs
<1>2. Still /\ ss[s].pc = "names" /\ Remember(s, info)
  BY DEF LoadNames, At, Still
<1> QED
  BY <1>1, <1>2, RememberIs

LEMMA EndStatementIs ==
    ASSUME RowsInv, NEW s \in Sessions, EndStatement(s)
    PROVE  Becomes(s, ss'[s]) /\ Calm(ss'[s]) /\ Still
<1>1. ss[s].todo = <<>> /\ ss[s].gone = {} /\ Still /\ Goto(s, "idle") /\ "idle" \in Pcs
  BY BusyHasTx DEF EndStatement, At, Still, OnlySession, Pcs
<1> QED
  BY <1>1, GotoIs DEF Calm

-----------------------------------------------------------------------------
(* The checks of the methods, and what they plan.                          *)

\* A step that ends with a check, or with a failure.
Checks(s) ==
    /\ Becomes(s, ss'[s]) /\ Still /\ rows' = rows /\ ss[s].pc # "write"
    /\ ss[s].tx # InvalidXID /\ ss[s].todo = <<>> /\ ss[s].gone = {}
    /\ Fits(status, rows, nextOid, ss'[s]) /\ InsertOids(ss'[s]) = {}

LEMMA FailsCalmly ==
    ASSUME RowsInv, NEW s \in Sessions, Goto(s, "failed")
    PROVE  Becomes(s, ss'[s]) /\ Calm(ss'[s]) /\ ss'[s].pc = "failed"
  BY GotoIs DEF Calm, Pcs

LEMMA CalmIsFit ==
    ASSUME RowsInv, NEW s \in Sessions, ss[s].pc # "idle", Becomes(s, ss'[s]), Calm(ss'[s])
    PROVE  Fits(status, rows, nextOid, ss'[s]) /\ InsertOids(ss'[s]) = {}
  BY BusyHasTx, CalmFits DEF Becomes

LEMMA ToExists ==
    ASSUME RowsInv, NEW s \in Sessions, ss[s].pc = "run", NEW new \in News,
           ss' = [ss EXCEPT ![s].pc = "exists", ![s].new = new],
           new.kind \in {"table", "index"}, new.kind = "index" => IsTable(rows, new.rel)
    PROVE  /\ Becomes(s, ss'[s]) /\ ss'[s].pc = "exists" /\ ss'[s].new = new
           /\ Fits(status, rows, nextOid, ss'[s]) /\ InsertOids(ss'[s]) = {}
<1> DEFINE q == [ss[s] EXCEPT !.pc = "exists", !.new = new]
<1>1. ss \in [Sessions -> States] /\ ss[s] \in States
  BY DEF RowsInv, Core, CoreTypes
<1>2. ss[s].todo = <<>> /\ ss[s].gone = {} /\ ss[s].tx # InvalidXID
  BY BusyHasTx
<1>3. /\ q \in States /\ q.tx = ss[s].tx /\ q.pc = "exists" /\ q.new = new
      /\ q.todo = <<>> /\ q.gone = {}
  BY <1>1, <1>2 DEF Pcs, States
<1>4. ss' = [ss EXCEPT ![s] = q]
  BY <1>1
<1> HIDE DEF q
<1>5. ss'[s] = q
  BY <1>1, <1>4
<1>6. q.tx \in Xids /\ status[q.tx] = "running" /\ q.tx # InvalidXID
  BY <1>2, <1>3, TxIs
<1>7. Fits(status, rows, nextOid, q) /\ InsertOids(q) = {}
  BY <1>3, <1>6 DEF Fits, InsertOids
<1> QED
  BY <1>3, <1>4, <1>5, <1>7 DEF Becomes

LEMMA CallIs ==
    ASSUME RowsInv, NEW s \in Sessions, ss[s].pc \notin {"write", "failed", "idle"}
    PROVE  ss[s].tx # InvalidXID /\ ss[s].todo = <<>> /\ ss[s].gone = {}
  BY BusyHasTx

LEMMA CreateTableIs ==
    ASSUME RowsInv, NEW s \in Sessions, NEW n \in Names, CreateTable(s, n)
    PROVE  Checks(s) /\ ss'[s].pc \in {"exists", "failed"}
<1>1. ss[s].pc = "run" /\ Still /\ rows' = rows
  BY DEF CreateTable, Call, At, Still
<1> DEFINE new == [NoNew EXCEPT !.name = n, !.kind = "table"]
<1>2. new \in News /\ new.kind = "table"
  BY EmptyTypes DEF News, NoNew, RowNames, RelKinds
<1>3. CASE Goto(s, "failed")
  BY <1>1, <1>3, FailsCalmly, CalmIsFit, CallIs DEF Checks
<1>4. CASE ss' = [ss EXCEPT ![s].pc = "exists", ![s].new = new]
  BY <1>1, <1>2, <1>4, ToExists, CallIs DEF Checks
<1> QED
  BY <1>3, <1>4 DEF CreateTable

\* What a statement has bound to a table is one.
LEMMA BoundIs ==
    ASSUME RowsInv, NEW s \in Sessions, NEW kind, NEW o \in Bound(s, kind)
    PROVE  \E c \in Class(rows) : rows[c].oid = o /\ rows[c].kind = kind
  BY DEF RowsInv, CacheInv, CacheFits, Current, Bound

LEMMA CreateIndexIs ==
    ASSUME RowsInv, NEW s \in Sessions, NEW n \in Names, CreateIndex(s, n)
    PROVE  Checks(s) /\ ss'[s].pc \in {"exists", "failed"}
<1>1. ss[s].pc = "run" /\ Still /\ rows' = rows
  BY DEF CreateIndex, Call, At, Still
<1>2. PICK o \in Bound(s, "table") :
         \/ Goto(s, "failed")
         \/ ss' = [ss EXCEPT ![s].pc = "exists",
                             ![s].new = [NoNew EXCEPT !.name = n, !.kind = "index", !.rel = o]]
  BY DEF CreateIndex
<1>3. IsTable(rows, o)
  BY BoundIs DEF IsTable
<1>4. o \in Nat
  BY BoundIs, RowsLen DEF Class, Rows, RowsInv
<1> DEFINE new == [NoNew EXCEPT !.name = n, !.kind = "index", !.rel = o]
<1>5. new \in News /\ new.kind = "index" /\ new.rel = o
  BY <1>4, EmptyTypes DEF News, NoNew, RowNames, RelKinds
<1>6. CASE Goto(s, "failed")
  BY <1>1, <1>6, FailsCalmly, CalmIsFit, CallIs DEF Checks
<1>7. CASE ss' = [ss EXCEPT ![s].pc = "exists", ![s].new = new]
  BY ZenonT(30), <1>1, <1>3, <1>5, <1>7, ToExists, CallIs DEF Checks
<1> QED
  BY <1>2, <1>6, <1>7

LEMMA ExistsIs ==
    ASSUME RowsInv, NEW s \in Sessions, Exists(s)
    PROVE  /\ Checks(s) /\ ss[s].pc = "exists"
           /\ \/ ss'[s].pc = "failed"
              \/ /\ Taken(s) = {} /\ ss'[s].pc = "create" /\ ss'[s].new.name = ss[s].new.name
                 /\ ss'[s].new.knew = {x \in Xids : status[x] = "committed"} \cup
                                     {InvalidXID, BootstrapXID, FrozenXID, ss[s].tx}
<1> DEFINE K   == {x \in Xids : status[x] = "committed"} \cup
                     {InvalidXID, BootstrapXID, FrozenXID, ss[s].tx}
           new == [ss[s].new EXCEPT !.knew = K]
           q   == [ss[s] EXCEPT !.pc = "create", !.new = new]
<1>1. ss \in [Sessions -> States] /\ ss[s] \in States /\ ss[s].new \in News
  BY DEF RowsInv, Core, CoreTypes, States
<1>2. ss[s].pc = "exists" /\ Still /\ rows' = rows
  BY DEF Exists, At, Still, OnlySession
<1>3. /\ ss[s].todo = <<>> /\ ss[s].gone = {} /\ ss[s].tx # InvalidXID
      /\ ss[s].tx \in Xids /\ status[ss[s].tx] = "running"
  BY <1>2, BusyHasTx, TxIs
<1>4. CASE Goto(s, "failed")
  BY <1>2, <1>3, <1>4, FailsCalmly, CalmIsFit DEF Checks
<1>5. CASE Taken(s) = {} /\ ~Goto(s, "failed")
  <2>1. K \in SUBSET Ids
    BY <1>3, Numbers DEF InvalidXID, BootstrapXID, FrozenXID
  <2>2. /\ new \in News /\ new.knew = K /\ new.name = ss[s].new.name
        /\ new.kind = ss[s].new.kind /\ new.rel = ss[s].new.rel
    <3> HIDE DEF K
    <3> QED
      BY <1>1, <2>1 DEF News
  <2> HIDE DEF new
  <2>3. /\ q \in States /\ q.tx = ss[s].tx /\ q.pc = "create" /\ q.new = new
        /\ q.todo = <<>> /\ q.gone = {}
    BY <1>1, <1>3, <2>2 DEF Pcs, States
  <2>4. ss' = [ss EXCEPT ![s] = q]
    <3> HIDE DEF K
    <3>1. ss' = [ss EXCEPT ![s].pc = "create", ![s].new.knew = K]
      BY <1>5 DEF Exists, K
    <3>2. [ss[s] EXCEPT !.pc = "create", !.new.knew = K] = q
      BY <1>1 DEF States, new
    <3> HIDE DEF q
    <3>3. ss' = [ss EXCEPT ![s] = [ss[s] EXCEPT !.pc = "create", !.new.knew = K]]
      BY <1>1, <3>1
    <3> QED
      BY <3>2, <3>3
  <2> HIDE DEF q
  <2>5. ss'[s] = q
    BY <1>1, <2>4
  <2>6. KnewThen(status, q, K)
    <3>1. ASSUME NEW y \in K PROVE y \in {InvalidXID, q.tx} \/ Verdict(status, y) = "committed"
      <4>1. CASE y \in Xids /\ status[y] = "committed"
        BY <4>1, VerdictOfXid
      <4>2. CASE y \in {BootstrapXID, FrozenXID}
        BY <4>2 DEF Verdict, BootstrapXID, FrozenXID, FirstNormalXID, InvalidXID
      <4> QED
        BY <2>3, <4>1, <4>2
    <3> QED
      BY <3>1 DEF KnewThen
  <2>7. Fits(status, rows, nextOid, ss[s])
    BY DEF RowsInv, Core, SessionsFit
  <2>8. Fits(status, rows, nextOid, q) /\ InsertOids(q) = {}
    BY <1>2, <1>3, <2>2, <2>3, <2>6, <2>7 DEF Fits, InsertOids
  <2> QED
    BY <1>2, <1>3, <1>5, <2>2, <2>3, <2>4, <2>5, <2>8 DEF Checks, Becomes
<1> QED
  BY <1>4, <1>5 DEF Exists

LEMMA WritesIs ==
    ASSUME RowsInv, NEW s \in Sessions, ss[s].pc = "run",
           NEW todo \in Seq(Tasks), NEW gone \in SUBSET Nat, Writes(s, todo, gone),
           Planned(rows, todo)
    PROVE  /\ Becomes(s, ss'[s]) /\ ss'[s].pc = "write"
           /\ ss'[s].todo = todo /\ ss'[s].gone = gone
           /\ Fits(status, rows, nextOid, ss'[s]) /\ InsertOids(ss'[s]) = {}
<1> DEFINE q == [ss[s] EXCEPT !.pc = "write", !.todo = todo, !.gone = gone]
<1>1. ss \in [Sessions -> States] /\ ss[s] \in States
  BY DEF RowsInv, Core, CoreTypes
<1>2. ss[s].tx # InvalidXID /\ ss[s].tx \in Xids /\ status[ss[s].tx] = "running"
  BY BusyHasTx, TxIs
<1>3. /\ q \in States /\ q.tx = ss[s].tx /\ q.pc = "write"
      /\ q.todo = todo /\ q.gone = gone
  BY <1>1 DEF Pcs, States
<1>4. ss' = [ss EXCEPT ![s] = q]
  BY <1>1 DEF Writes
<1> HIDE DEF q
<1>5. ss'[s] = q
  BY <1>1, <1>4
<1>6. Fits(status, rows, nextOid, q) /\ InsertOids(q) = {}
  BY <1>2, <1>3 DEF Fits, InsertOids, Planned
<1> QED
  BY <1>3, <1>4, <1>5, <1>6 DEF Becomes

LEMMA DropTableIs ==
    ASSUME RowsInv, NEW s \in Sessions, NEW n \in Names, DropTable(s, n)
    PROVE  /\ Checks(s)
           /\ \/ ss'[s].pc = "failed"
              \/ \E i \in ByName(s, n) : LET o == rows[i].oid IN
                    /\ rows[i].kind = "table" /\ ss'[s].pc = "write" /\ ss'[s].gone = {o}
                    /\ ss'[s].todo = <<Task("indexes", 0, o), Task("delete", i, 0),
                                       Task("attrs", 0, o)>>
<1> DEFINE i == First(ByName(s, n))
           o == rows[i].oid
           a == Task("indexes", 0, o)
           b == Task("delete", i, 0)
           c == Task("attrs", 0, o)
<1>1. ss[s].pc = "run" /\ Still /\ rows' = rows
  BY DEF DropTable, Call, At, Still
<1>2. CASE Goto(s, "failed")
  BY <1>1, <1>2, FailsCalmly, CalmIsFit, CallIs DEF Checks
<1>3. CASE /\ ByName(s, n) # {} /\ rows[i].kind # "index"
           /\ Writes(s, <<a, b, c>>, {o})
  <2>1. i \in ByName(s, n) /\ i \in DOMAIN rows /\ rows[i].cat = "class" /\ i \in Nat
    BY <1>3, FoundAreRows DEF RowsInv, Scan
  <2>2. o \in Nat /\ rows[i].kind = "table"
    BY <1>3, <2>1, RowIs DEF Rows, RowFits
  <2>3. /\ a \in Tasks /\ a.do = "indexes" /\ b \in Tasks /\ b.do = "delete" /\ b.tid = i
        /\ c \in Tasks /\ c.do = "attrs"
    BY <2>1, <2>2, TaskTypes
  <2> HIDE DEF a, b, c
  <2>4. <<a, b, c>> \in Seq(Tasks) /\ {o} \in SUBSET Nat
    BY <2>2, <2>3
  <2>5. Planned(rows, <<a, b, c>>)
    BY <2>1, <2>3 DEF Planned
  <2>6. /\ Becomes(s, ss'[s]) /\ ss'[s].pc = "write"
        /\ ss'[s].todo = <<a, b, c>> /\ ss'[s].gone = {o}
        /\ Fits(status, rows, nextOid, ss'[s]) /\ InsertOids(ss'[s]) = {}
    BY ZenonT(30), <1>1, <1>3, <2>4, <2>5, WritesIs
  <2> QED
    BY <1>1, <2>1, <2>2, <2>6, CallIs DEF Checks, a, b, c
<1> QED
  BY <1>2, <1>3 DEF DropTable

LEMMA DropIndexIs ==
    ASSUME RowsInv, NEW s \in Sessions, NEW n \in Names, DropIndex(s, n)
    PROVE  /\ Checks(s)
           /\ \/ ss'[s].pc = "failed"
              \/ \E i \in ByName(s, n) : LET o == rows[i].oid IN
                    /\ rows[i].kind = "index" /\ ss'[s].pc = "write" /\ ss'[s].gone = {o}
                    /\ ss'[s].todo = <<Task("row", i, o)>>
<1> DEFINE i == First(ByName(s, n))
           o == rows[i].oid
           a == Task("row", i, o)
<1>1. ss[s].pc = "run" /\ Still /\ rows' = rows
  BY DEF DropIndex, Call, At, Still
<1>2. CASE Goto(s, "failed")
  BY <1>1, <1>2, FailsCalmly, CalmIsFit, CallIs DEF Checks
<1>3. CASE /\ ByName(s, n) # {} /\ rows[i].kind # "table"
           /\ Writes(s, <<a>>, {o})
  <2>1. i \in ByName(s, n) /\ i \in DOMAIN rows /\ rows[i].cat = "class" /\ i \in Nat
    BY <1>3, FoundAreRows DEF RowsInv, Scan
  <2>2. o \in Nat /\ rows[i].kind = "index"
    BY <1>3, <2>1, RowIs DEF Rows, RowFits
  <2>3. a \in Tasks /\ a.do = "row" /\ a.tid = i
    BY <2>1, <2>2, TaskTypes
  <2> HIDE DEF a
  <2>4. <<a>> \in Seq(Tasks) /\ {o} \in SUBSET Nat
    BY <2>2, <2>3
  <2>5. Planned(rows, <<a>>)
    BY <2>1, <2>3 DEF Planned
  <2>6. /\ Becomes(s, ss'[s]) /\ ss'[s].pc = "write"
        /\ ss'[s].todo = <<a>> /\ ss'[s].gone = {o}
        /\ Fits(status, rows, nextOid, ss'[s]) /\ InsertOids(ss'[s]) = {}
    BY ZenonT(30), <1>1, <1>3, <2>4, <2>5, WritesIs
  <2> QED
    BY <1>1, <2>1, <2>2, <2>6, CallIs DEF Checks, a
<1> QED
  BY <1>2, <1>3 DEF DropIndex

LEMMA UpdateStatsIs ==
    ASSUME RowsInv, NEW s \in Sessions, UpdateStats(s)
    PROVE  /\ Checks(s)
           /\ \/ ss'[s].pc = "failed"
              \/ \E i \in Scan(s, "class") :
                    /\ ss'[s].pc = "write" /\ ss'[s].gone = {}
                    /\ ss'[s].todo = <<Task("update", i, 0)>>
<1>1. ss[s].pc = "run" /\ Still /\ rows' = rows
  BY DEF UpdateStats, Call, At, Still
<1>2. CASE Goto(s, "failed")
  BY <1>1, <1>2, FailsCalmly, CalmIsFit, CallIs DEF Checks
<1>3. CASE ~Goto(s, "failed")
  <2> DEFINE i(o) == First(ByOid(s, o))
  <2>1. PICK o : ByOid(s, o) # {} /\ Writes(s, <<Task("update", i(o), 0)>>, {})
    BY <1>3 DEF UpdateStats
  <2> DEFINE a == Task("update", i(o), 0)
  <2>2. i(o) \in Scan(s, "class") /\ i(o) \in DOMAIN rows /\ rows[i(o)].cat = "class" /\ i(o) \in Nat
    BY <2>1, FoundAreRows DEF RowsInv, Scan
  <2>3. a \in Tasks /\ a.do = "update" /\ a.tid = i(o)
    BY <2>2, TaskTypes
  <2> HIDE DEF a
  <2>4. <<a>> \in Seq(Tasks) /\ {} \in SUBSET Nat
    BY <2>3
  <2>5. Planned(rows, <<a>>)
    BY <2>2, <2>3 DEF Planned
  <2>6. Writes(s, <<a>>, {})
    BY <2>1 DEF a
  <2>7. /\ Becomes(s, ss'[s]) /\ ss'[s].pc = "write"
        /\ ss'[s].todo = <<a>> /\ ss'[s].gone = {}
        /\ Fits(status, rows, nextOid, ss'[s]) /\ InsertOids(ss'[s]) = {}
    BY <1>1, <2>4, <2>5, <2>6, WritesIs
  <2> QED
    BY <1>1, <2>2, <2>7, CallIs DEF Checks, a
<1> QED
  BY <1>2, <1>3

-----------------------------------------------------------------------------
(* The steps of a method that writes.                                      *)

LEMMA ThenTodo ==
    ASSUME NEW todo \in Seq(Tasks), todo # <<>>, NEW more \in Seq(Tasks)
    PROVE  LET t2 == more \o Tail(todo)
               n  == Len(more)
           IN  /\ t2 \in Seq(Tasks) /\ n \in Nat /\ Len(todo) \in Nat /\ Len(todo) >= 1
               /\ DOMAIN todo = 1 .. Len(todo) /\ DOMAIN more = 1 .. n
               /\ Len(t2) = n + Len(todo) - 1 /\ DOMAIN t2 = 1 .. n + Len(todo) - 1
               /\ \A k \in 1 .. n : t2[k] = more[k]
               /\ \A k \in 2 .. Len(todo) : t2[n + k - 1] = todo[k]
               /\ \A k \in DOMAIN t2 :
                     k \in 1 .. n \/ \E m \in 2 .. Len(todo) : k = n + m - 1
               /\ Head(todo) = todo[1]
<1> DEFINE t2 == more \o Tail(todo)
           n  == Len(more)
           c  == Len(todo)
<1>1. n \in Nat /\ c \in Nat /\ c >= 1 /\ DOMAIN todo = 1 .. c /\ DOMAIN more = 1 .. n
  BY EmptySeq, LenProperties
<1>2. /\ Tail(todo) \in Seq(Tasks) /\ Len(Tail(todo)) = c - 1
      /\ \A k \in 1 .. c - 1 : Tail(todo)[k] = todo[k + 1]
  <2>1. Tail(todo) \in Seq(Tasks)
    BY HeadTailProperties
  <2> QED
    BY <1>1, <2>1
<1>3. /\ t2 \in Seq(Tasks) /\ Len(t2) = n + (c - 1)
      /\ \A k \in 1 .. n + (c - 1) : t2[k] = IF k <= n THEN more[k] ELSE Tail(todo)[k - n]
  BY <1>1, <1>2, ConcatProperties
<1> HIDE DEF t2, n, c
<1>4. Len(t2) = n + c - 1 /\ DOMAIN t2 = 1 .. n + c - 1
  BY <1>1, <1>3, LenProperties
<1>5. \A k \in 1 .. n : t2[k] = more[k]
  BY <1>1, <1>3
<1>6. ASSUME NEW k \in 2 .. c PROVE t2[n + k - 1] = todo[k]
  <2>1. /\ n + k - 1 \in 1 .. n + (c - 1) /\ ~(n + k - 1 <= n) /\ (n + k - 1) - n = k - 1
        /\ k - 1 \in 1 .. c - 1 /\ (k - 1) + 1 = k
    BY <1>1
  <2> QED
    BY <1>2, <1>3, <2>1
<1>7. ASSUME NEW k \in 1 .. n + c - 1, k \notin 1 .. n PROVE \E m \in 2 .. c : k = n + m - 1
  <2>1. k - n + 1 \in 2 .. c /\ k = n + (k - n + 1) - 1
    BY <1>1, <1>7
  <2> QED
    BY <2>1
<1>8. Head(todo) = todo[1]
  OBVIOUS
<1> QED
  BY <1>1, <1>3, <1>4, <1>5, <1>6, <1>7, <1>8 DEF t2, n, c

LEMMA PlannedThen ==
    ASSUME NEW R, NEW todo \in Seq(Tasks), todo # <<>>, NEW more \in Seq(Tasks),
           Planned(R, todo), Planned(R, more)
    PROVE  Planned(R, more \o Tail(todo))
<1> DEFINE t2 == more \o Tail(todo)
           n  == Len(more)
<1>1. /\ DOMAIN todo = 1 .. Len(todo) /\ DOMAIN more = 1 .. n /\ n \in Nat /\ Len(todo) \in Nat
      /\ \A k \in 1 .. n : t2[k] = more[k]
      /\ \A k \in 2 .. Len(todo) : t2[n + k - 1] = todo[k]
      /\ \A k \in DOMAIN t2 : k \in 1 .. n \/ \E m \in 2 .. Len(todo) : k = n + m - 1
  BY ThenTodo
<1> HIDE DEF t2
<1>2. ASSUME NEW k \in DOMAIN t2
      PROVE  (\E m \in DOMAIN more : t2[k] = more[m]) \/ (\E m \in DOMAIN todo : t2[k] = todo[m])
  <2>1. CASE k \in 1 .. n
    BY <1>1, <2>1
  <2>2. CASE k \notin 1 .. n
    <3>1. PICK m \in 2 .. Len(todo) : k = n + m - 1
      BY <1>1, <2>2
    <3>2. t2[k] = todo[m] /\ m \in DOMAIN todo
      BY <1>1, <3>1
    <3> QED
      BY <3>2
  <2> QED
    BY <2>1, <2>2
<1>3. Planned(R, t2)
  BY <1>2 DEF Planned
<1> QED
  BY <1>3 DEF t2

LEMMA DoingIs ==
    ASSUME RowsInv, NEW s \in Sessions, NEW do, Doing(s, do)
    PROVE  LET todo == ss[s].todo IN
           /\ todo \in Seq(Tasks) /\ todo # <<>> /\ Now(s) = todo[1] /\ todo[1] \in Tasks
           /\ todo[1].do = do /\ ss[s].pc = "write" /\ 1 \in DOMAIN todo
           /\ ss[s].tx # InvalidXID /\ ss[s].tx \in Xids /\ status[ss[s].tx] = "running"
           /\ do # "insert" => Planned(rows, todo)
           /\ do = "insert" => /\ TwoLeft(status, rows, nextOid, ss[s]) \/ OneLeft(rows, nextOid, ss[s])
                               /\ ss[s].gone = {}
<1>1. /\ ss[s].pc = "write" /\ ss[s].todo # <<>> /\ ss[s].todo \in Seq(Tasks)
      /\ Head(ss[s].todo).do = do
  BY TxIs DEF Doing, At, States, Now
<1>2. /\ 1 \in DOMAIN ss[s].todo /\ Head(ss[s].todo) = ss[s].todo[1] /\ ss[s].todo[1] \in Tasks
  BY <1>1, EmptySeq, LenProperties, ElementOfSeq, HeadTailProperties
<1>3. Fits(status, rows, nextOid, ss[s])
  BY DEF RowsInv, Core, SessionsFit
<1>4. ss[s].tx # InvalidXID /\ ss[s].tx \in Xids /\ status[ss[s].tx] = "running"
  BY <1>1, BusyHasTx, TxIs
<1>5. do # "insert" => Planned(rows, ss[s].todo)
  BY <1>1, <1>2, <1>3 DEF Fits, TwoLeft, OneLeft
<1>6. do = "insert" => /\ TwoLeft(status, rows, nextOid, ss[s]) \/ OneLeft(rows, nextOid, ss[s])
                       /\ ss[s].gone = {}
  BY <1>1, <1>2, <1>3 DEF Fits, Planned
<1> QED
  BY <1>1, <1>2, <1>4, <1>5, <1>6 DEF Now

\* The method goes on with more tasks, and with more relations on the way out.
OnlyTasks(s, more, gone) ==
    [ss EXCEPT ![s] = [ss[s] EXCEPT !.todo = more \o Tail(ss[s].todo), !.gone = gone]]
GoesOnWith(s, more, gone) ==
    /\ Becomes(s, ss'[s]) /\ ss'[s].pc = "write"
    /\ ss'[s].todo = more \o Tail(ss[s].todo) /\ ss'[s].gone = gone
    /\ Planned(rows, ss'[s].todo)
    /\ Fits(status, rows, nextOid, ss'[s]) /\ InsertOids(ss'[s]) = {}

LEMMA GoesOn ==
    ASSUME RowsInv, NEW s \in Sessions, ss[s].pc = "write", ss[s].todo # <<>>,
           Planned(rows, ss[s].todo), NEW more \in Seq(Tasks), Planned(rows, more),
           NEW gone \in SUBSET Nat, ss' = OnlyTasks(s, more, gone)
    PROVE  GoesOnWith(s, more, gone)
<1> DEFINE t2 == more \o Tail(ss[s].todo)
           q  == [ss[s] EXCEPT !.todo = t2, !.gone = gone]
<1>1. ss \in [Sessions -> States] /\ ss[s] \in States /\ ss[s].todo \in Seq(Tasks)
  BY DEF RowsInv, Core, CoreTypes, States
<1>2. ss[s].tx # InvalidXID /\ ss[s].tx \in Xids /\ status[ss[s].tx] = "running"
  BY BusyHasTx, TxIs
<1>3. t2 \in Seq(Tasks) /\ Planned(rows, t2)
  BY <1>1, ThenTodo, PlannedThen
<1> HIDE DEF t2
<1>4. /\ q \in States /\ q.tx = ss[s].tx /\ q.pc = "write" /\ q.todo = t2 /\ q.gone = gone
  BY <1>1, <1>3 DEF Pcs, States
<1>5. ss' = [ss EXCEPT ![s] = q]
  BY DEF t2, OnlyTasks
<1> HIDE DEF q
<1>6. ss'[s] = q
  BY <1>1, <1>5
<1>7. Fits(status, rows, nextOid, q) /\ InsertOids(q) = {}
  BY <1>2, <1>3, <1>4 DEF Fits, InsertOids, Planned
<1> QED
  BY <1>3, <1>4, <1>5, <1>6, <1>7 DEF GoesOnWith, Becomes, t2

\* A method fails half way and the rest of its tasks is left.
GivesUp(s) ==
    /\ Becomes(s, ss'[s]) /\ ss'[s].pc = "failed" /\ ss[s].tx # InvalidXID
    /\ Fits(status, rows, nextOid, ss'[s]) /\ InsertOids(ss'[s]) = {}

LEMMA GivesUpIs ==
    ASSUME RowsInv, NEW s \in Sessions, ss[s].pc = "write", Goto(s, "failed")
    PROVE  GivesUp(s)
  BY FailsCalmly, CalmIsFit, BusyHasTx DEF GivesUp

\* Then, as a change of one session, and with more relations on the way out.
ThenGone(s, more, g) == [Then(s, more) EXCEPT ![s].gone = @ \cup g]

LEMMA ThenIs ==
    ASSUME RowsInv, NEW s \in Sessions, NEW more, NEW g
    PROVE  /\ Then(s, more) = OnlyTasks(s, more, ss[s].gone)
           /\ ThenGone(s, more, g) = OnlyTasks(s, more, ss[s].gone \cup g)
<1> DEFINE t2 == more \o Tail(ss[s].todo)
           q  == [ss[s] EXCEPT !.todo = t2]
<1>1. ss \in [Sessions -> States] /\ ss[s] \in States
  BY DEF RowsInv, Core, CoreTypes
<1>2. Then(s, more) = [ss EXCEPT ![s] = q]
  BY <1>1 DEF Then
<1>3. q = [ss[s] EXCEPT !.todo = t2, !.gone = ss[s].gone] /\ q.gone = ss[s].gone
  <2> HIDE DEF t2
  <2> QED
    BY <1>1 DEF States
<1>4. [q EXCEPT !.gone = ss[s].gone \cup g] = [ss[s] EXCEPT !.todo = t2, !.gone = ss[s].gone \cup g]
  <2> HIDE DEF t2
  <2> QED
    BY <1>1 DEF States
<1> HIDE DEF q, t2
<1>5. [Then(s, more) EXCEPT ![s].gone = @ \cup g]
                = [ss EXCEPT ![s] = [q EXCEPT !.gone = ss[s].gone \cup g]]
  BY <1>1, <1>2, <1>3
<1>6. [Then(s, more) EXCEPT ![s].gone = @ \cup g] =
         [ss EXCEPT ![s] = [ss[s] EXCEPT !.todo = t2, !.gone = ss[s].gone \cup g]]
  BY <1>4, <1>5
<1> QED
  BY <1>2, <1>3, <1>6 DEF t2, ThenGone, OnlyTasks

LEMMA PlannedTask ==
    ASSUME RowsInv, NEW k \in Nat,
           NEW do \in {"delete", "indexes", "attrs", "class"}, do = "delete" => k \in DOMAIN rows,
           NEW o \in Nat
    PROVE  Planned(rows, <<Task(do, k, o)>>) /\ <<Task(do, k, o)>> \in Seq(Tasks)
<1>1. LET t == Task(do, k, o) IN t \in Tasks /\ t.do = do /\ t.tid = k
  BY TaskTypes
<1> QED
  BY <1>1 DEF Planned

LEMMA FindIndexesIs ==
    ASSUME RowsInv, NEW s \in Sessions, FindIndexes(s)
    PROVE  LET found == {j \in Scan(s, "index") : rows[j].rel = Now(s).oid} IN
           /\ found \subseteq Seen(s) /\ Still /\ cache' = cache /\ left' = left
           /\ GoesOnWith(s, IndexTasks(s, found), ss[s].gone \cup {rows[j].oid : j \in found})
<1> DEFINE found == {j \in Scan(s, "index") : rows[j].rel = Now(s).oid}
           more  == IndexTasks(s, found)
           g     == {rows[j].oid : j \in found}
<1>1. /\ ss[s].todo \in Seq(Tasks) /\ ss[s].todo # <<>> /\ ss[s].pc = "write"
      /\ Planned(rows, ss[s].todo)
  BY DoingIs DEF FindIndexes
<1>2. found \subseteq Seen(s) /\ found \subseteq DOMAIN rows /\ Still /\ cache' = cache /\ left' = left
  BY SeenIsHere DEF FindIndexes, OnlySession, Still, Scan
<1>3. g \in SUBSET Nat /\ ss[s].gone \cup g \in SUBSET Nat
  <2>1. \A j \in found : rows[j].oid \in Nat
    BY <1>2, RowIs DEF Rows
  <2>2. ss[s].gone \in SUBSET Nat
    BY TxIs DEF States
  <2> QED
    BY <2>1, <2>2
<1>4. more \in Seq(Tasks) /\ Planned(rows, more)
  <2> DEFINE tids == SetToSeq(found)
  <2> HIDE DEF found
  <2>1. /\ more \in Seq(Tasks) /\ Len(more) = 2 * Len(tids) /\ Len(tids) \in Nat
        /\ \A k \in 1 .. Len(tids) :
              /\ more[2 * k - 1] = Task("class", 0, rows[tids[k]].oid)
              /\ more[2 * k] = Task("delete", tids[k], 0)
              /\ tids[k] \in found
        /\ \A k \in 1 .. 2 * Len(tids) : \E m \in 1 .. Len(tids) : k = 2 * m \/ k = 2 * m - 1
    BY <1>2, IndexTasksAre DEF RowsInv
  <2> HIDE DEF more, tids
  <2>2. ASSUME NEW k \in DOMAIN more
        PROVE  \E m \in 1 .. Len(tids) : \/ more[k] = Task("class", 0, rows[tids[m]].oid)
                                         \/ more[k] = Task("delete", tids[m], 0)
    <3>1. k \in 1 .. 2 * Len(tids)
      BY <2>1, LenProperties
    <3>2. PICK m \in 1 .. Len(tids) : k = 2 * m \/ k = 2 * m - 1
      BY <2>1, <3>1
    <3> QED
      BY <2>1, <3>2, Zenon
  <2>3. ASSUME NEW m \in 1 .. Len(tids)
        PROVE  /\ tids[m] \in DOMAIN rows
               /\ Task("class", 0, rows[tids[m]].oid).do = "class"
               /\ Task("delete", tids[m], 0).do = "delete" /\ Task("delete", tids[m], 0).tid = tids[m]
    <3>1. tids[m] \in DOMAIN rows /\ tids[m] \in Nat /\ rows[tids[m]].oid \in Nat
      BY <1>2, <2>1, RowIs, RowsLen DEF Rows, RowsInv
    <3> QED
      BY <3>1, TaskTypes
  <2>4. Planned(rows, more)
    BY <2>2, <2>3 DEF Planned
  <2> QED
    BY <2>1, <2>4
<1>5. ss' = OnlyTasks(s, more, ss[s].gone \cup g)
  <2>1. ss' = ThenGone(s, more, g)
    BY DEF FindIndexes, ThenGone
  <2> HIDE DEF more, g, found
  <2> QED
    BY <2>1, ThenIs
<1> HIDE DEF more, g, found
<1>6. GoesOnWith(s, more, ss[s].gone \cup g)
  BY <1>1, <1>3, <1>4, <1>5, GoesOn
<1> QED
  BY <1>2, <1>6 DEF more, g, found

LEMMA FindAttributesIs ==
    ASSUME RowsInv, NEW s \in Sessions, FindAttributes(s)
    PROVE  LET found == {j \in Scan(s, "attr") : rows[j].oid = Now(s).oid} IN
           /\ found \subseteq Seen(s) /\ Still /\ cache' = cache /\ left' = left
           /\ GoesOnWith(s, Deletes(found), ss[s].gone)
<1> DEFINE found == {j \in Scan(s, "attr") : rows[j].oid = Now(s).oid}
           more  == Deletes(found)
<1>1. /\ ss[s].todo \in Seq(Tasks) /\ ss[s].todo # <<>> /\ ss[s].pc = "write"
      /\ Planned(rows, ss[s].todo) /\ ss[s].gone \in SUBSET Nat
  BY DoingIs, TxIs DEF FindAttributes, States
<1>2. found \subseteq Seen(s) /\ found \subseteq DOMAIN rows /\ Still /\ cache' = cache /\ left' = left
  BY SeenIsHere DEF FindAttributes, OnlySession, Still, Scan
<1>3. more \in Seq(Tasks) /\ Planned(rows, more)
  <2> DEFINE tids == SetToSeq(found)
  <2>1. /\ more \in Seq(Tasks) /\ Len(more) = Len(tids) /\ Len(tids) \in Nat
        /\ \A k \in 1 .. Len(tids) : more[k] = Task("delete", tids[k], 0) /\ tids[k] \in found
    BY <1>2, DeletesAre DEF RowsInv
  <2> HIDE DEF more, tids
  <2>2. ASSUME NEW k \in DOMAIN more
        PROVE  more[k].do = "delete" /\ more[k].tid \in DOMAIN rows
    <3>1. k \in 1 .. Len(tids)
      BY <2>1, LenProperties
    <3>2. tids[k] \in Nat /\ tids[k] \in DOMAIN rows
      BY <1>2, <2>1, <3>1, RowsLen DEF RowsInv
    <3> QED
      BY <2>1, <3>1, <3>2, TaskTypes
  <2>3. Planned(rows, more)
    BY <2>2 DEF Planned
  <2> QED
    BY <2>1, <2>3
<1>4. ss' = OnlyTasks(s, more, ss[s].gone)
  <2>1. ss' = Then(s, more)
    BY DEF FindAttributes
  <2> HIDE DEF more
  <2> QED
    BY <2>1, ThenIs
<1> HIDE DEF more, found
<1>5. GoesOnWith(s, more, ss[s].gone)
  BY <1>1, <1>3, <1>4, GoesOn
<1> QED
  BY <1>2, <1>5 DEF more, found

LEMMA FindClassIs ==
    ASSUME RowsInv, NEW s \in Sessions, FindClass(s)
    PROVE  /\ Still /\ cache' = cache /\ left' = left
           /\ \/ GivesUp(s)
              \/ \E i \in ByOid(s, Now(s).oid) : GoesOnWith(s, <<Task("delete", i, 0)>>, ss[s].gone)
<1> DEFINE found == ByOid(s, Now(s).oid)
           i     == First(found)
           more  == <<Task("delete", i, 0)>>
<1>1. /\ ss[s].todo \in Seq(Tasks) /\ ss[s].todo # <<>> /\ ss[s].pc = "write"
      /\ Planned(rows, ss[s].todo) /\ ss[s].gone \in SUBSET Nat
  BY DoingIs, TxIs DEF FindClass, States
<1>2. Still /\ cache' = cache /\ left' = left
  BY DEF FindClass, OnlySession, Still
<1>3. CASE found = {}
  BY <1>1, <1>2, <1>3, GivesUpIs DEF FindClass
<1>4. CASE found # {}
  <2>1. i \in found /\ i \in DOMAIN rows /\ i \in Nat
    BY <1>4, FoundAreRows DEF RowsInv
  <2>2. more \in Seq(Tasks) /\ Planned(rows, more)
    BY <2>1, PlannedTask
  <2>3. ss' = OnlyTasks(s, more, ss[s].gone)
    <3>1. ss' = Then(s, more)
      BY <1>4 DEF FindClass
    <3> HIDE DEF more
    <3> QED
      BY <3>1, ThenIs
  <2> HIDE DEF more
  <2>4. GoesOnWith(s, more, ss[s].gone)
    BY <1>1, <2>2, <2>3, GoesOn
  <2> QED
    BY <1>2, <2>1, <2>4 DEF more
<1> QED
  BY <1>3, <1>4

LEMMA FindIndexRowIs ==
    ASSUME RowsInv, NEW s \in Sessions, FindIndexRow(s)
    PROVE  /\ Still /\ cache' = cache /\ left' = left
           /\ \/ GivesUp(s)
              \/ \E j \in Scan(s, "index") :
                    /\ rows[j].oid = Now(s).oid
                    /\ GoesOnWith(s, <<Task("delete", Now(s).tid, 0), Task("delete", j, 0)>>,
                                  ss[s].gone)
<1> DEFINE found == {j \in Scan(s, "index") : rows[j].oid = Now(s).oid}
           j     == First(found)
           a     == Task("delete", Now(s).tid, 0)
           b     == Task("delete", j, 0)
<1>1. /\ ss[s].todo \in Seq(Tasks) /\ ss[s].todo # <<>> /\ ss[s].pc = "write"
      /\ Planned(rows, ss[s].todo) /\ ss[s].gone \in SUBSET Nat
      /\ Now(s) = ss[s].todo[1] /\ 1 \in DOMAIN ss[s].todo /\ Now(s).do = "row"
  BY DoingIs, TxIs DEF FindIndexRow, States
<1>2. Still /\ cache' = cache /\ left' = left
  BY DEF FindIndexRow, OnlySession, Still
<1>3. CASE Goto(s, "failed")
  BY <1>1, <1>2, <1>3, GivesUpIs
<1>4. CASE found # {} /\ ss' = Then(s, <<a, b>>)
  <2>1. j \in found /\ j \in DOMAIN rows /\ j \in Nat /\ found \subseteq Scan(s, "index")
    <3>1. found \subseteq DOMAIN rows /\ DOMAIN rows \subseteq Nat
      BY FoundAreRows DEF RowsInv
    <3>2. j \in found
      BY <1>4, <3>1, FirstIsIn
    <3> QED
      BY <3>1, <3>2
  <2>2. Now(s).tid \in DOMAIN rows /\ Now(s).tid \in Nat
    BY <1>1, RowsLen DEF Planned, RowsInv
  <2>3. /\ a \in Tasks /\ a.do = "delete" /\ a.tid = Now(s).tid
        /\ b \in Tasks /\ b.do = "delete" /\ b.tid = j
    BY <2>1, <2>2, TaskTypes
  <2> HIDE DEF a, b
  <2>4. <<a, b>> \in Seq(Tasks) /\ Planned(rows, <<a, b>>)
    BY <2>1, <2>2, <2>3 DEF Planned
  <2> DEFINE more == <<a, b>>
  <2> HIDE DEF more
  <2>5. ss' = OnlyTasks(s, more, ss[s].gone)
    BY <1>4, ThenIs DEF more
  <2>6. GoesOnWith(s, more, ss[s].gone)
    BY <1>1, <2>4, <2>5, GoesOn DEF more
  <2> QED
    BY <1>2, <2>1, <2>6 DEF more, a, b
<1> QED
  BY <1>3, <1>4 DEF FindIndexRow

\* Whether a session waits is not its concern.
LEMMA WaitFits ==
    ASSUME RowsInv, NEW s \in Sessions, ss[s].tx # InvalidXID, NEW w \in Ids,
           ss' = [ss EXCEPT ![s].wait = w]
    PROVE  LET q == ss'[s] IN
           /\ Becomes(s, q) /\ q.pc = ss[s].pc /\ q.todo = ss[s].todo /\ q.gone = ss[s].gone
           /\ q.new = ss[s].new /\ q.info = ss[s].info
           /\ Fits(status, rows, nextOid, q) /\ InsertOids(q) = InsertOids(ss[s])
<1> DEFINE q == [ss[s] EXCEPT !.wait = w]
           p == ss[s]
<1>1. ss \in [Sessions -> States] /\ p \in States /\ Fits(status, rows, nextOid, p)
  BY DEF RowsInv, Core, CoreTypes, SessionsFit
<1>2. /\ q \in States /\ q.tx = p.tx /\ q.pc = p.pc /\ q.todo = p.todo /\ q.gone = p.gone
      /\ q.new = p.new /\ q.info = p.info
  BY <1>1 DEF States
<1>3. ss' = [ss EXCEPT ![s] = q]
  BY <1>1
<1> HIDE DEF q
<1>4. ss'[s] = q
  BY <1>1, <1>3
<1> HIDE DEF p
<1>5. Fits(status, rows, nextOid, q)
  BY <1>1, <1>2 DEF p, Fits, TwoLeft, OneLeft, NewPair, NewClass, NewSub, KnewThen
<1>6. InsertOids(q) = InsertOids(p)
  BY <1>2 DEF InsertOids
<1> QED
  BY <1>2, <1>3, <1>4, <1>5, <1>6 DEF Becomes, p

LEMMA RowWaitsIs ==
    ASSUME RowsInv, NEW s \in Sessions, RowWaits(s)
    PROVE  LET q == ss'[s] IN
           /\ Becomes(s, q) /\ q.pc = "write" /\ q.todo = ss[s].todo /\ q.gone = ss[s].gone
           /\ Fits(status, rows, nextOid, q) /\ InsertOids(q) = InsertOids(ss[s])
           /\ Still /\ cache' = cache /\ left' = left
<1>1. Still /\ cache' = cache /\ left' = left
  BY DEF RowWaits, OnlySession, Still
<1>2. /\ ss[s].pc = "write" /\ ss[s].tx # InvalidXID /\ Planned(rows, ss[s].todo)
      /\ 1 \in DOMAIN ss[s].todo /\ Now(s) = ss[s].todo[1] /\ Now(s).do \in {"delete", "update"}
  BY DoingIs DEF RowWaits
<1>3. Now(s).tid \in DOMAIN rows
  BY <1>2 DEF Planned
<1>4. rows[Now(s).tid].xmax \in Ids
  BY <1>3, RowIs DEF Rows
<1>5. ss' = [ss EXCEPT ![s].wait = rows[Now(s).tid].xmax]
  BY DEF RowWaits
<1> QED
  BY <1>1, <1>2, <1>4, <1>5, WaitFits

LEMMA WakeIs ==
    ASSUME RowsInv, NEW s \in Sessions, Wake(s)
    PROVE  LET q == ss'[s] IN
           /\ Becomes(s, q) /\ q.pc = ss[s].pc /\ q.todo = ss[s].todo /\ q.gone = ss[s].gone
           /\ q.new = ss[s].new /\ q.info = ss[s].info /\ ss[s].tx # InvalidXID
           /\ Fits(status, rows, nextOid, q) /\ InsertOids(q) = InsertOids(ss[s])
           /\ Still /\ cache' = cache /\ left' = left
<1>1. Still /\ cache' = cache /\ left' = left
  BY DEF Wake, OnlySession, Still
<1>2. ss[s].tx # InvalidXID
  <2>1. Idle.wait = InvalidXID
    BY DEF Idle
  <2> QED
    BY <2>1, TxIs DEF Wake
<1>3. InvalidXID \in Ids /\ ss' = [ss EXCEPT ![s].wait = InvalidXID]
  BY Numbers DEF Wake, InvalidXID
<1> QED
  BY <1>1, <1>2, <1>3, WaitFits

LEMMA RowFailsIs ==
    ASSUME RowsInv, NEW s \in Sessions, RowFails(s)
    PROVE  GivesUp(s) /\ Still /\ cache' = cache /\ left' = left
<1>1. Still /\ cache' = cache /\ left' = left /\ Goto(s, "failed")
  BY DEF RowFails, OnlySession, Still
<1>2. ss[s].pc = "write"
  BY DoingIs DEF RowFails
<1> QED
  BY <1>1, <1>2, GivesUpIs

LEMMA DoneIs ==
    ASSUME RowsInv, NEW s \in Sessions, Done(s)
    PROVE  LET q == ss'[s] IN
           /\ Becomes(s, q) /\ q.pc = "idle" /\ q.todo = <<>> /\ q.gone = {} /\ Calm(q)
           /\ ss[s].pc = "write" /\ ss[s].todo = <<>> /\ ss[s].tx # InvalidXID
           /\ UNCHANGED <<status, rows, files, nextOid, left>>
<1> DEFINE q == [ss[s] EXCEPT !.pc = "idle", !.gone = {}]
<1>1. ss \in [Sessions -> States] /\ ss[s] \in States
  BY DEF RowsInv, Core, CoreTypes
<1>2. ss[s].pc = "write" /\ ss[s].todo = <<>> /\ ss[s].tx # InvalidXID
  BY BusyHasTx DEF Done, At
<1>3. q \in States /\ q.tx = ss[s].tx /\ q.pc = "idle" /\ q.todo = <<>> /\ q.gone = {}
  BY <1>1, <1>2 DEF States, Pcs
<1>4. ss' = [ss EXCEPT ![s] = q]
  BY <1>1 DEF Done
<1> HIDE DEF q
<1>5. ss'[s] = q
  BY <1>1, <1>4
<1>6. UNCHANGED <<status, rows, files, nextOid, left>>
  BY DEF Done
<1> QED
  BY <1>2, <1>3, <1>4, <1>5, <1>6 DEF Becomes, Calm

-----------------------------------------------------------------------------
(* A row is inserted, stamped or written anew.                             *)

\* The last task of a session is gone.
Popped(s) ==
    /\ Becomes(s, ss'[s]) /\ ss'[s].pc = "write" /\ ss[s].pc = "write"
    /\ ss'[s].todo = Tail(ss[s].todo) /\ ss'[s].gone = ss[s].gone

LEMMA PoppedIs ==
    ASSUME RowsInv, NEW s \in Sessions, ss[s].pc = "write", ss[s].todo # <<>>,
           ss' = Then(s, <<>>)
    PROVE  /\ Popped(s) /\ Len(ss'[s].todo) = Len(ss[s].todo) - 1
           /\ ss'[s].todo \in Seq(Tasks) /\ Len(ss[s].todo) \in Nat
           /\ DOMAIN ss'[s].todo = 1 .. Len(ss[s].todo) - 1
           /\ DOMAIN ss[s].todo = 1 .. Len(ss[s].todo)
           /\ \A k \in 1 .. Len(ss[s].todo) - 1 : ss'[s].todo[k] = ss[s].todo[k + 1]
<1> DEFINE t2 == Tail(ss[s].todo)
           q  == [ss[s] EXCEPT !.todo = t2]
<1>1. ss \in [Sessions -> States] /\ ss[s] \in States /\ ss[s].todo \in Seq(Tasks)
  BY DEF RowsInv, Core, CoreTypes, States
<1>2. t2 \in Seq(Tasks) /\ Len(t2) = Len(ss[s].todo) - 1
      /\ \A k \in 1 .. Len(ss[s].todo) - 1 : t2[k] = ss[s].todo[k + 1]
  <2>1. t2 \in Seq(Tasks)
    BY <1>1, HeadTailProperties
  <2> QED
    BY <1>1, <2>1
<1>3. <<>> \o t2 = t2
  BY <1>2
<1>4. ss' = [ss EXCEPT ![s] = q]
  BY <1>1, <1>3 DEF Then
<1>5. /\ Len(ss[s].todo) \in Nat /\ DOMAIN ss[s].todo = 1 .. Len(ss[s].todo)
      /\ DOMAIN t2 = 1 .. Len(ss[s].todo) - 1
  BY <1>1, <1>2, LenProperties
<1> HIDE DEF t2
<1>6. q \in States /\ q.tx = ss[s].tx /\ q.pc = "write" /\ q.todo = t2 /\ q.gone = ss[s].gone
  BY <1>1, <1>2 DEF States
<1> HIDE DEF q
<1>7. ss'[s] = q
  BY <1>1, <1>4
<1> QED
  BY <1>2, <1>4, <1>5, <1>6, <1>7 DEF Popped, Becomes, t2

\* The row that a session inserts next.
LEMMA InsertIs ==
    ASSUME RowsInv, NEW s \in Sessions, Doing(s, "insert")
    PROVE  LET r == Now(s).row IN
           /\ r \in Rows /\ RowFits(status, nextOid, r) /\ InsertOids(ss[s]) = {r.oid}
           /\ r.creator = ss[s].tx /\ r.xmin = ss[s].tx /\ r.xmax = InvalidXID
           /\ r.cat = "index" => IsTable(rows, r.rel)
           /\ r.cat = "class" => Of(rows, r.oid) = {}
           /\ r.cat # "class" => \A i \in Of(rows, r.oid) :
                                    rows[i].cat = "class" /\ PairFits(rows[i], r)
<1> DEFINE q == ss[s]
           r == Now(s).row
<1>1. /\ q \in States /\ Now(s) = q.todo[1] /\ Now(s) \in Tasks /\ q.pc = "write"
      /\ q.tx # InvalidXID /\ q.tx \in Xids /\ status[q.tx] = "running"
      /\ TwoLeft(status, rows, nextOid, q) \/ OneLeft(rows, nextOid, q)
      /\ Fits(status, rows, nextOid, q)
  BY DoingIs DEF RowsInv, Core, CoreTypes, SessionsFit
<1>2. r \in Rows /\ Known(status, q.tx) /\ q.tx \in Ids
  <2>1. q.tx \in Ids
    BY <1>1, Numbers
  <2> QED
    BY <1>1, <2>1, VerdictOfXid DEF Tasks, Known
<1>3. InsertOids(q) = {r.oid}
  BY <1>1, InsertOidsAre
<1>4. CASE TwoLeft(status, rows, nextOid, q)
  <2>1. /\ NewClass(q, r) /\ r.oid < nextOid /\ Of(rows, r.oid) = {}
        /\ r.kind \in {"table", "index"} /\ KnewThen(status, q, r.knew)
    BY <1>1, <1>4 DEF TwoLeft, NewPair
  <2>2. RowFits(status, nextOid, r)
    BY <1>1, <1>2, <2>1, Zero, NoneIs DEF RowFits, NewClass, KnewThen
  <2> QED
    BY <1>2, <1>3, <2>1, <2>2 DEF NewClass
<1>5. CASE OneLeft(rows, nextOid, q)
  <2>1. /\ NewSub(rows, q, r) /\ r.oid < nextOid
        /\ \E c \in DOMAIN rows : Of(rows, r.oid) = {c} /\ NewPair(q, rows[c], r)
    BY <1>1, <1>5 DEF OneLeft
  <2>2. PICK c \in DOMAIN rows : Of(rows, r.oid) = {c} /\ NewPair(q, rows[c], r)
    BY <2>1
  <2>3. rows[c].cat = "class" /\ PairFits(rows[c], r)
    BY <2>1, <2>2 DEF NewPair, NewClass, NewSub, PairFits
  <2>4. RowFits(status, nextOid, r)
    BY <1>1, <1>2, <2>1, Zero, NoneIs DEF RowFits, NewSub
  <2> QED
    BY <1>2, <1>3, <2>1, <2>2, <2>3, <2>4 DEF NewSub
<1> QED
  BY <1>1, <1>4, <1>5

LEMMA AppendAdds ==
    ASSUME NEW R \in Seq(Rows), NEW r \in Rows
    PROVE  /\ Append(R, r) \in Seq(Rows) /\ Adds(R, Append(R, r), r)
           /\ Len(R) + 1 \in Nat \ DOMAIN R /\ DOMAIN Append(R, r) = DOMAIN R \cup {Len(R) + 1}
           /\ Append(R, r)[Len(R) + 1] = r
           /\ \A k \in DOMAIN R : Append(R, r)[k] = R[k]
<1>1. Len(R) \in Nat /\ DOMAIN R = 1 .. Len(R)
  BY LenProperties
<1>2. /\ Append(R, r) \in Seq(Rows) /\ Len(Append(R, r)) = Len(R) + 1
      /\ \A k \in 1 .. Len(R) : Append(R, r)[k] = R[k]
      /\ Append(R, r)[Len(R) + 1] = r
  BY AppendProperties
<1>3. /\ Len(R) + 1 \in Nat \ DOMAIN R /\ DOMAIN Append(R, r) = DOMAIN R \cup {Len(R) + 1}
  <2>1. DOMAIN Append(R, r) = 1 .. Len(R) + 1
    BY <1>2, LenProperties
  <2> QED
    BY <1>1, <2>1
<1>4. Adds(R, Append(R, r), r)
  BY <1>1, <1>2, <1>3 DEF Adds
<1> QED
  BY <1>1, <1>2, <1>3, <1>4

LEMMA InsertRowIs ==
    ASSUME RowsInv, NEW s \in Sessions, InsertRow(s)
    PROVE  LET r == Now(s).row IN
           /\ Core' /\ Popped(s) /\ Adds(rows, rows', r) /\ rows' = Append(rows, r)
           /\ cache' = cache /\ UNCHANGED <<status, files, nextOid, pending, left>>
           /\ \/ TwoLeft(status, rows, nextOid, ss[s]) /\ OneLeft(rows', nextOid, ss'[s])
              \/ OneLeft(rows, nextOid, ss[s]) /\ ss'[s].todo = <<>>
<1> DEFINE q == ss[s]
           p == ss'[s]
           r == Now(s).row
<1>1. /\ r \in Rows /\ RowFits(status, nextOid, r) /\ InsertOids(q) = {r.oid}
      /\ r.cat = "index" => IsTable(rows, r.rel)
      /\ r.cat = "class" => Of(rows, r.oid) = {}
      /\ r.cat # "class" => \A i \in Of(rows, r.oid) : rows[i].cat = "class" /\ PairFits(rows[i], r)
  BY InsertIs DEF InsertRow
<1>2. /\ q \in States /\ Now(s) = q.todo[1] /\ q.pc = "write" /\ q.todo # <<>>
      /\ q.tx # InvalidXID /\ q.tx \in Xids /\ status[q.tx] = "running"
      /\ TwoLeft(status, rows, nextOid, q) \/ OneLeft(rows, nextOid, q)
      /\ q.gone = {}
  BY DoingIs DEF InsertRow, RowsInv, Core, CoreTypes
<1>3. /\ rows' = Append(rows, r) /\ ss' = Then(s, <<>>) /\ cache' = cache
      /\ UNCHANGED <<status, files, nextOid, pending, left>>
  BY DEF InsertRow
<1>4. /\ rows \in Seq(Rows) /\ nextOid \in Nat /\ Sound(status, rows, nextOid)
      /\ \A t \in Sessions : ss[t] \in States /\ Fits(status, rows, nextOid, ss[t])
  BY DEF RowsInv, Core, CoreTypes, SessionsFit
<1>5. /\ Popped(s) /\ Len(p.todo) = Len(q.todo) - 1
      /\ p.todo \in Seq(Tasks) /\ DOMAIN p.todo = 1 .. Len(q.todo) - 1
      /\ \A k \in 1 .. Len(q.todo) - 1 : p.todo[k] = q.todo[k + 1]
  BY <1>2, <1>3, PoppedIs
<1>6. /\ p \in States /\ ss' = [ss EXCEPT ![s] = p] /\ p.tx = q.tx /\ p.pc = "write" /\ p.gone = {}
  BY <1>2, <1>5 DEF Popped, Becomes
<1> HIDE DEF q, p, r
<1> DEFINE n == Len(rows) + 1
<1>7. /\ rows' \in Seq(Rows) /\ Adds(rows, rows', r) /\ n \notin DOMAIN rows
      /\ DOMAIN rows' = DOMAIN rows \cup {n} /\ rows'[n] = r
      /\ \A k \in DOMAIN rows : rows'[k] = rows[k]
  BY <1>1, <1>3, <1>4, AppendAdds
<1> HIDE DEF n
<1>8. Sound(status, rows', nextOid)
  BY <1>1, <1>4, <1>7, SoundAdds
<1>9. \A t \in Sessions \ {s} : Fits(status, rows', nextOid, ss[t])
  <2>1. \A t \in Sessions \ {s} : r.oid \notin InsertOids(ss[t])
    BY <1>1 DEF RowsInv, Core, Apart, q
  <2> QED
    BY <1>4, <1>7, <2>1, FitsAdds
<1>10. CASE TwoLeft(status, rows, nextOid, q)
  <2> DEFINE b == q.todo[2].row
  <2>1. /\ Len(q.todo) = 2 /\ q.todo[2].do = "insert" /\ NewPair(q, r, b) /\ NewSub(rows, q, b)
        /\ r.oid < nextOid /\ Of(rows, r.oid) = {}
    BY <1>2, <1>10 DEF TwoLeft, r
  <2>2. Len(p.todo) = 1 /\ DOMAIN p.todo = {1} /\ p.todo[1] = q.todo[2]
    BY <1>5, <2>1
  <2> HIDE DEF b
  <2>3. NewPair(p, r, b) /\ NewSub(rows', p, b)
    BY <1>6, <1>7, <2>1, AddsKeepTables DEF NewPair, NewClass, NewSub
  <2>4. Of(rows', b.oid) = {n} /\ b.oid = r.oid
    BY <1>7, <2>1 DEF Of, NewPair
  <2>5. OneLeft(rows', nextOid, p)
    BY <1>7, <2>1, <2>2, <2>3, <2>4 DEF OneLeft, b
  <2>6. InsertOids(p) = {r.oid}
    <3>1. p.todo[1].do = "insert" /\ p.todo[1].row.oid = r.oid
      BY <2>1, <2>2, <2>4 DEF b
    <3> QED
      BY <1>6, <2>2, <3>1 DEF InsertOids
  <2>7. Fits(status, rows', nextOid, p)
    BY <1>2, <1>6, <2>5 DEF Fits
  <2>8. Core'
    BY <1>1, <1>3, <1>6, <1>7, <1>8, <1>9, <2>6, <2>7, RowsChange DEF q
  <2> QED
    BY <1>3, <1>5, <1>7, <1>10, <2>5, <2>8 DEF q, p, r
<1>11. CASE OneLeft(rows, nextOid, q)
  <2>1. p.todo = <<>> /\ DOMAIN p.todo = {}
    BY <1>5, <1>11 DEF OneLeft
  <2>2. InsertOids(p) = {} /\ Planned(rows', p.todo)
    BY <2>1 DEF InsertOids, Planned
  <2>3. Fits(status, rows', nextOid, p)
    BY <1>2, <1>6, <2>2 DEF Fits
  <2>4. Core'
    BY <1>1, <1>3, <1>6, <1>7, <1>8, <1>9, <2>2, <2>3, RowsChange DEF q
  <2> QED
    BY <1>3, <1>5, <1>7, <1>11, <2>1, <2>4 DEF q, p, r
<1> QED
  BY <1>2, <1>10, <1>11

\* What a writer is told it may stamp is open to it.
LEMMA TMOkIsOpen ==
    ASSUME RowsInv, NEW s \in Sessions, ss[s].tx # InvalidXID, TM(s) = "TMOk",
           Now(s).tid \in DOMAIN rows
    PROVE  Open(status, ss[s].tx, rows[Now(s).tid])
<1> DEFINE x == ss[s].tx
           r == rows[Now(s).tid]
           t == Take(x)
<1>1. r \in Rows /\ RowFits(status, nextOid, r) /\ x \in Ids
  BY RowIs, TxIs
<1>2. t.xid = x /\ r.hints = {}
  BY <1>1 DEF Take, Rows
<1>3. Modify(t, r, 0) = "TMOk"
  BY DEF TM
<1> HIDE DEF t, x, r
<1>4. XminStatus(t, r) = "committed" /\ (r.xmax = InvalidXID \/ XmaxStatus(r) = "aborted")
  BY <1>3 DEF Modify
<1>5. r.xmin = x \/ Verdict(status, r.xmin) = "committed"
  BY <1>2, <1>4, VerdictIs DEF XminStatus
<1>6. Verdict(status, r.xmax) = "aborted"
  BY <1>2, <1>4, VerdictIs, Zero DEF XmaxStatus
<1> QED
  BY <1>5, <1>6 DEF Open, x, r

\* A row is stamped, and its next version is after it.
LEMMA RowsAreStamped ==
    ASSUME NEW R \in Seq(Rows), NEW i \in DOMAIN R, NEW x \in Ids,
           NEW R2, NEW more,
           \/ R2 = [R EXCEPT ![i] = Stamp(R[i], x)] /\ more = {}
           \/ /\ R2 = Append([R EXCEPT ![i] = Stamp(R[i], x)], Version(R[i], x))
              /\ more = {Len(R) + 1} /\ R[i].cat = "class"
    PROVE  R2 \in Seq(Rows) /\ Stamps(R, R2, x, i, more)
<1>1. Len(R) \in Nat /\ DOMAIN R = 1 .. Len(R) /\ R[i] \in Rows
  BY LenProperties, ElementOfSeq
<1> DEFINE a == Stamp(R[i], x)
           b == Version(R[i], x)
           M == [R EXCEPT ![i] = a]
<1>2. a \in Rows /\ b \in Rows
  BY <1>1, StampedFields, VersionFields
<1> HIDE DEF a, b
<1>3. /\ M \in Seq(Rows) /\ Len(M) = Len(R) /\ DOMAIN M = DOMAIN R /\ M[i] = a
      /\ \A k \in DOMAIN R \ {i} : M[k] = R[k]
  <2>1. M \in Seq(Rows) /\ Len(M) = Len(R)
    BY SMTT(30), <1>1, <1>2, ExceptSeq
  <2> QED
    BY <1>1, <2>1
<1> HIDE DEF M
<1>4. CASE R2 = M /\ more = {}
  BY <1>3, <1>4 DEF Stamps, a
<1>5. CASE R2 = Append(M, b) /\ more = {Len(R) + 1} /\ R[i].cat = "class"
  <2>1. /\ R2 \in Seq(Rows) /\ Len(M) + 1 \notin DOMAIN M
        /\ DOMAIN R2 = DOMAIN M \cup {Len(M) + 1} /\ R2[Len(M) + 1] = b
        /\ \A k \in DOMAIN M : R2[k] = M[k]
    <3>1. /\ Append(M, b) \in Seq(Rows) /\ Len(M) + 1 \notin DOMAIN M
          /\ DOMAIN Append(M, b) = DOMAIN M \cup {Len(M) + 1} /\ Append(M, b)[Len(M) + 1] = b
          /\ \A k \in DOMAIN M : Append(M, b)[k] = M[k]
      BY SMTT(30), <1>2, <1>3, AppendAdds
    <3> QED
      BY <1>5, <3>1
  <2>2. /\ more \cap DOMAIN R = {} /\ DOMAIN R2 = DOMAIN R \cup more
        /\ \A k \in more : R2[k] = b
        /\ R2[i] = a /\ \A k \in DOMAIN R \ {i} : R2[k] = R[k]
        /\ \A j, k \in more : j = k
    BY <1>3, <1>5, <2>1
  <2> QED
    BY <1>5, <2>1, <2>2 DEF Stamps, a, b
<1> QED
  BY <1>4, <1>5 DEF M, a, b

LEMMA WriteRowIs ==
    ASSUME RowsInv, NEW s \in Sessions, WriteRow(s)
    PROVE  LET x == ss[s].tx
               i == Now(s).tid
               more == IF Now(s).do = "delete" THEN {} ELSE {Len(rows) + 1}
           IN
           /\ Core' /\ Popped(s) /\ Stamps(rows, rows', x, i, more)
           /\ rows' \in Seq(Rows)
           /\ x \in Xids /\ status[x] = "running" /\ Open(status, x, rows[i])
           /\ Planned(rows, ss[s].todo) /\ Planned(rows', ss'[s].todo)
           /\ cache' = cache /\ UNCHANGED <<status, files, nextOid, pending, left>>
<1> DEFINE q == ss[s]
           p == ss'[s]
           x == ss[s].tx
           i == Now(s).tid
           more == IF Now(s).do = "delete" THEN {} ELSE {Len(rows) + 1}
<1>1. /\ q \in States /\ Now(s) = q.todo[1] /\ q.pc = "write" /\ q.todo # <<>>
      /\ 1 \in DOMAIN q.todo /\ Now(s).do \in {"delete", "update"}
      /\ x # InvalidXID /\ x \in Xids /\ status[x] = "running" /\ x \in Ids
      /\ Planned(rows, q.todo)
  BY DoingIs, Numbers DEF WriteRow, RowsInv, Core, CoreTypes
<1>2. i \in DOMAIN rows /\ (Now(s).do = "update" => rows[i].cat = "class")
  BY <1>1 DEF Planned
<1>3. Open(status, x, rows[i])
  BY <1>1, <1>2, TMOkIsOpen DEF WriteRow
<1>4. /\ rows \in Seq(Rows) /\ nextOid \in Nat /\ Sound(status, rows, nextOid)
      /\ \A t \in Sessions : ss[t] \in States /\ Fits(status, rows, nextOid, ss[t])
  BY DEF RowsInv, Core, CoreTypes, SessionsFit
<1>5. rows' \in Seq(Rows) /\ Stamps(rows, rows', x, i, more)
  <2>1. rows' = IF Now(s).do = "delete" THEN [rows EXCEPT ![i] = Stamp(rows[i], x)]
                ELSE Append([rows EXCEPT ![i] = Stamp(rows[i], x)], Version(rows[i], x))
    BY <1>2 DEF WriteRow, Stamp, Version
  <2> HIDE DEF i, x
  <2> QED
    BY <1>1, <1>2, <1>4, <2>1, RowsAreStamped
<1>6. /\ ss' = Then(s, <<>>) /\ cache' = cache
      /\ UNCHANGED <<status, files, nextOid, pending, left>>
  BY DEF WriteRow
<1>7. /\ Popped(s) /\ DOMAIN p.todo = 1 .. Len(q.todo) - 1
      /\ \A k \in 1 .. Len(q.todo) - 1 : p.todo[k] = q.todo[k + 1]
      /\ DOMAIN q.todo = 1 .. Len(q.todo) /\ Len(q.todo) \in Nat
  BY <1>1, <1>6, PoppedIs
<1>8. /\ p \in States /\ ss' = [ss EXCEPT ![s] = p] /\ p.tx = q.tx /\ p.pc = "write"
      /\ p.gone = q.gone
  BY <1>7 DEF Popped, Becomes
<1> HIDE DEF q, p, x, i, more
<1>9. Planned(rows, p.todo)
  <2>1. \A k \in DOMAIN p.todo : k + 1 \in DOMAIN q.todo /\ p.todo[k] = q.todo[k + 1]
    BY <1>7
  <2> QED
    BY <1>1, <2>1 DEF Planned
<1>10. Planned(rows', p.todo)
  BY <1>1, <1>4, <1>5, <1>9, StampsKeepTables
<1>11. Sound(status, rows', nextOid)
  BY <1>1, <1>3, <1>4, <1>5, SoundStamps
<1>12. \A t \in Sessions \ {s} : Fits(status, rows', nextOid, ss[t])
  <2>1. \A t \in Sessions \ {s} : ss[t].tx # x
    BY <1>1 DEF RowsInv, Core, Apart, x
  <2> QED
    BY <1>1, <1>3, <1>4, <1>5, <2>1, FitsStamps
<1>13. Fits(status, rows', nextOid, p) /\ InsertOids(p) = {}
  <2>1. p.tx = x
    BY <1>8 DEF x, q
  <2> QED
    BY <1>1, <1>8, <1>10, <2>1 DEF Fits, InsertOids, Planned
<1>14. Core'
  BY <1>5, <1>6, <1>8, <1>11, <1>12, <1>13, RowsChange DEF q
<1> QED
  BY <1>1, <1>3, <1>5, <1>6, <1>7, <1>10, <1>14 DEF q, p, x, i, more

-----------------------------------------------------------------------------
(* A relation is created, a statement starts, a transaction ends.          *)

LEMMA InsertOidsAreOld ==
    ASSUME RowsInv, NEW t \in Sessions
    PROVE  \A o \in InsertOids(ss[t]) : o \in Nat /\ o < nextOid
<1> DEFINE q == ss[t]
<1>1. q \in States /\ Fits(status, rows, nextOid, q)
  BY DEF RowsInv, Core, CoreTypes, SessionsFit
<1>2. CASE q.pc # "write"
  BY <1>2 DEF InsertOids
<1>3. CASE q.pc = "write"
  <2>1. CASE Planned(rows, q.todo)
    BY <1>1, <1>3, <2>1, InsertOidsAre
  <2>2. CASE TwoLeft(status, rows, nextOid, q) \/ OneLeft(rows, nextOid, q)
    <3>1. InsertOids(q) = {q.todo[1].row.oid} /\ q.todo[1].row.oid < nextOid
      BY <1>1, <1>3, <2>2, InsertOidsAre DEF TwoLeft, OneLeft
    <3>2. 1 \in DOMAIN q.todo /\ q.todo[1] \in Tasks
      BY <1>1, <2>2, LenProperties, ElementOfSeq DEF TwoLeft, OneLeft, States
    <3> QED
      BY <3>1, <3>2 DEF Tasks, Rows
  <2> QED
    BY <1>1, <1>3, <2>1, <2>2 DEF Fits
<1> QED
  BY <1>2, <1>3

LEMMA NewOidIsFree ==
    ASSUME RowsInv
    PROVE  Of(rows, nextOid) = {} /\ nextOid \in Nat
<1>1. nextOid \in Nat
  BY DEF RowsInv, Core, CoreTypes
<1>2. \A i \in DOMAIN rows : rows[i].oid \in Nat /\ rows[i].oid < nextOid
  BY RowIs DEF Rows, RowFits
<1>3. \A i \in DOMAIN rows : rows[i].oid # nextOid
  BY <1>1, <1>2
<1> QED
  BY <1>1, <1>3 DEF Of

LEMMA CreateIs ==
    ASSUME RowsInv, NEW s \in Sessions, Create(s)
    PROVE  LET q == ss'[s] IN
           /\ Core' /\ Becomes(s, q) /\ q.pc = "write" /\ q.gone = {} /\ ss[s].pc = "create"
           /\ ss[s].gone = {} /\ ss[s].tx # InvalidXID
           /\ TwoLeft(status, rows, nextOid + 1, q)
           /\ q.todo[1].row.oid = nextOid /\ q.todo[1].row.name = ss[s].new.name
           /\ q.todo[1].row.knew = ss[s].new.knew /\ InsertOids(q) = {nextOid}
           /\ nextOid' = nextOid + 1 /\ files' = files \cup {nextOid}
           /\ pending' = [pending EXCEPT ![s] = @ \cup {[oid |-> nextOid, atCommit |-> FALSE]}]
           /\ UNCHANGED <<status, rows, cache, left>>
<1> DEFINE r    == ss[s].new
           x    == ss[s].tx
           new  == RowsOf(r, nextOid, x)
           e(k) == [do |-> "insert", row |-> new[k], tid |-> 0, oid |-> 0]
           todo == [k \in 1 .. 2 |-> e(k)]
           q    == [ss[s] EXCEPT !.pc = "write", !.new = NoNew, !.todo = todo]
<1>1. /\ ss \in [Sessions -> States] /\ ss[s] \in States /\ r \in News /\ nextOid \in Nat
      /\ Fits(status, rows, nextOid, ss[s]) /\ status \in [Xids -> Statuses]
  BY DEF RowsInv, Core, CoreTypes, SessionsFit, States
<1>2. ss[s].pc = "create" /\ ss[s].tx # InvalidXID /\ ss[s].gone = {}
  BY BusyHasTx DEF Create, At
<1>3. x \in Xids /\ status[x] = "running" /\ x # InvalidXID /\ x \in Ids
  BY <1>2, TxIs, Numbers
<1>4. /\ r.kind \in {"table", "index"}
      /\ r.kind = "index" => IsTable(rows, r.rel)
      /\ KnewThen(status, ss[s], r.knew)
  BY <1>1, <1>2 DEF Fits
<1>5. new[1] \in Rows /\ new[2] \in Rows
  BY <1>1, <1>3, RowsAreTyped
<1>6. /\ new[1].cat = "class" /\ new[1].xmin = x /\ new[1].xmax = InvalidXID /\ new[1].creator = x
      /\ new[1].oid = nextOid /\ new[1].kind = r.kind /\ new[1].name = r.name /\ new[1].knew = r.knew
      /\ new[2].cat = IF r.kind = "table" THEN "attr" ELSE "index"
      /\ new[2].xmin = x /\ new[2].xmax = InvalidXID /\ new[2].creator = x
      /\ new[2].oid = nextOid /\ new[2].knew = {}
      /\ new[2].cat = "index" => new[2].rel = r.rel
  BY DEF RowsOf, Row
<1> HIDE DEF new
<1>7. \A k \in 1 .. 2 : e(k) \in Tasks /\ e(k).do = "insert" /\ e(k).row = new[k]
  BY <1>5 DEF Tasks
<1> HIDE DEF e
<1>8. /\ todo \in Seq(Tasks) /\ Len(todo) = 2 /\ DOMAIN todo = {1, 2}
      /\ todo[1].do = "insert" /\ todo[2].do = "insert"
      /\ todo[1].row = new[1] /\ todo[2].row = new[2]
  <2>1. todo \in Seq(Tasks) /\ Len(todo) = 2 /\ DOMAIN todo = {1, 2}
    BY <1>7
  <2>2. todo[1] = e(1) /\ todo[2] = e(2)
    OBVIOUS
  <2> QED
    BY <1>7, <2>1, <2>2
<1>9. ss' = [ss EXCEPT ![s] = q]
  BY <1>1 DEF Create, new, e
<1> HIDE DEF todo, r, x
<1>10. /\ q \in States /\ q.tx = x /\ q.pc = "write" /\ q.todo = todo /\ q.gone = {}
  BY <1>1, <1>2, <1>8, EmptyTypes DEF States, Pcs, x
<1> HIDE DEF q
<1>11. ss'[s] = q
  BY <1>1, <1>9
<1>12. TwoLeft(status, rows, nextOid + 1, q)
  <2>1. NewPair(q, new[1], new[2])
    BY <1>4, <1>6, <1>10 DEF NewPair, NewClass
  <2>2. NewSub(rows, q, new[2])
    BY <1>4, <1>6, <1>10 DEF NewSub
  <2>3. KnewThen(status, q, new[1].knew)
    BY <1>4, <1>6, <1>10 DEF KnewThen, x
  <2>4. new[1].oid < nextOid + 1 /\ Of(rows, new[1].oid) = {}
    BY <1>1, <1>6, NewOidIsFree
  <2> QED
    BY <1>8, <1>10, <2>1, <2>2, <2>3, <2>4 DEF TwoLeft
<1>13. Fits(status, rows, nextOid + 1, q)
  BY <1>3, <1>10, <1>12 DEF Fits
<1>14. InsertOids(q) = {nextOid}
  BY <1>6, <1>8, <1>10 DEF InsertOids
<1>15. /\ nextOid' = nextOid + 1 /\ files' = files \cup {nextOid}
       /\ pending' = [pending EXCEPT ![s] = @ \cup {[oid |-> nextOid, atCommit |-> FALSE]}]
       /\ UNCHANGED <<status, rows, cache, left>>
  BY DEF Create
<1>16. Core'
  <2>1. /\ nextOid' \in Nat /\ nextOid <= nextOid' /\ status' \in [Xids -> Statuses]
        /\ Moves(status, status') /\ rows' = rows /\ Fits(status', rows, nextOid', q)
    BY <1>1, <1>13, <1>15, StandingStill
  <2>2. ASSUME NEW t \in Sessions \ {s}
        PROVE  /\ ss[t].tx # InvalidXID => status'[ss[t].tx] = "running"
               /\ q.tx # ss[t].tx
               /\ InsertOids(q) \cap InsertOids(ss[t]) = {}
    BY <1>1, <1>3, <1>10, <1>14, <1>15, TxIs, InsertOidsAreOld DEF RowsInv, Core, Apart, x
  <2> QED
    BY <1>9, <1>10, <2>1, <2>2, SessionStep
<1> QED
  BY <1>2, <1>6, <1>8, <1>9, <1>10, <1>11, <1>12, <1>14, <1>15, <1>16 DEF Becomes, x, r

LEMMA StartStatementIs ==
    ASSUME RowsInv, NEW s \in Sessions, StartStatement(s)
    PROVE  /\ Core' /\ rows' = rows /\ nextOid' = nextOid /\ Moves(status, status')
           /\ UNCHANGED <<files, pending>> /\ cache' = [cache EXCEPT ![s] = NoCache]
           /\ LET q == ss'[s] IN
              /\ q \in States /\ ss' = [ss EXCEPT ![s] = q] /\ Calm(q) /\ q.pc = "run"
              /\ q.gone = {} /\ q.tx # InvalidXID /\ q.todo = <<>>
              /\ \/ q.tx = ss[s].tx /\ status' = status
                 \/ /\ ss[s].tx = InvalidXID /\ status[q.tx] = "unassigned" /\ q.tx \in Xids
                    /\ status' = [status EXCEPT ![q.tx] = "running"]
<1>1. /\ ss \in [Sessions -> States] /\ ss[s] \in States /\ status \in [Xids -> Statuses]
      /\ nextOid \in Nat
  BY DEF RowsInv, Core, CoreTypes
<1>2. /\ ss[s].pc = "idle" /\ ss[s].todo = <<>> /\ ss[s].gone = {} /\ rows' = rows
      /\ nextOid' = nextOid /\ UNCHANGED <<files, pending>> /\ cache' = [cache EXCEPT ![s] = NoCache]
  BY BusyHasTx DEF StartStatement, At, Dropped
<1>3. CASE ss[s].tx # InvalidXID
  <2>1. Goto(s, "run") /\ status' = status /\ "run" \in Pcs
    BY <1>3 DEF StartStatement, Pcs
  <2>2. LET q == ss'[s] IN
        /\ Becomes(s, q) /\ q.pc = "run" /\ q.todo = <<>> /\ q.gone = {} /\ Calm(q)
    BY <1>2, <2>1, GotoIs DEF Calm
  <2>3. Fits(status, rows, nextOid, ss'[s]) /\ InsertOids(ss'[s]) = {}
    BY <1>3, <2>2, CalmFits DEF Becomes
  <2>4. Core'
    BY <1>2, <2>1, <2>2, <2>3, QuietStep DEF Becomes
  <2> QED
    BY <1>2, <1>3, <2>1, <2>2, <2>4, StandingStill DEF Becomes
<1>4. CASE ss[s].tx = InvalidXID
  <2>1. PICK x \in Xids : XactBegin(x) /\ ss' = [ss EXCEPT ![s].tx = x, ![s].pc = "run"]
    BY <1>4 DEF StartStatement
  <2> DEFINE q == [ss[s] EXCEPT !.tx = x, !.pc = "run"]
  <2>2. x \in Ids /\ x # InvalidXID
    BY VerdictOfXid, Numbers
  <2>3. /\ q \in States /\ q.tx = x /\ q.pc = "run" /\ q.todo = <<>> /\ q.gone = {}
    BY <1>1, <1>2, <2>2 DEF States, Pcs
  <2>4. ss' = [ss EXCEPT ![s] = q]
    BY <1>1, <2>1
  <2> HIDE DEF q
  <2>5. ss'[s] = q
    BY <1>1, <2>4
  <2>6. status[x] = "unassigned" /\ status' = [status EXCEPT ![x] = "running"]
    <3>1. \A y \in Assigned : y < x
      BY <2>1 DEF XactBegin
    <3>2. x \in Nat
      BY <2>2, Numbers
    <3>3. x \notin Assigned
      BY <3>1, <3>2
    <3> QED
      BY <2>1, <3>3 DEF XactBegin, Assigned
  <2>7. Moves(status, status')
    BY <1>1, <2>6, BeginMoves
  <2>8. status' \in [Xids -> Statuses] /\ status'[x] = "running"
    BY <1>1, <2>6 DEF Statuses
  <2>9. Fits(status', rows, nextOid', q) /\ InsertOids(q) = {}
    BY <2>2, <2>3, <2>8 DEF Fits, InsertOids
  <2>10. ASSUME NEW t \in Sessions \ {s}
         PROVE  /\ ss[t].tx # InvalidXID => status'[ss[t].tx] = "running"
                /\ q.tx # ss[t].tx
                /\ InsertOids(q) \cap InsertOids(ss[t]) = {}
    <3>1. ss[t].tx # InvalidXID => ss[t].tx \in Xids /\ status[ss[t].tx] = "running"
      BY TxIs
    <3> QED
      BY <1>1, <2>2, <2>3, <2>6, <2>9, <3>1
  <2>11. nextOid' \in Nat /\ nextOid <= nextOid'
    BY <1>1, <1>2
  <2>12. Core'
    BY <1>2, <2>3, <2>4, <2>7, <2>8, <2>9, <2>10, <2>11, SessionStep
  <2> QED
    BY <1>2, <1>4, <2>2, <2>3, <2>4, <2>5, <2>6, <2>7, <2>12 DEF Calm
<1> QED
  BY <1>3, <1>4

LEMMA EndIs ==
    ASSUME RowsInv, NEW s \in Sessions, NEW v \in {"committed", "aborted"}, End(s, v)
    PROVE  LET x == ss[s].tx IN
           /\ Core' /\ rows' = rows /\ nextOid' = nextOid /\ Moves(status, status')
           /\ x \in Xids /\ x # InvalidXID /\ status[x] = "running"
           /\ status' = [status EXCEPT ![x] = v]
           /\ ss' = [ss EXCEPT ![s] = Idle] /\ ss'[s] = Idle
           /\ (ss[s].pc = "idle" \/ (ss[s].pc = "failed" /\ v = "aborted"))
           /\ cache' = [cache EXCEPT ![s] = NoCache]
           /\ pending' = [pending EXCEPT ![s] = {}]
<1> DEFINE x == ss[s].tx
<1>1. /\ ss \in [Sessions -> States] /\ ss[s] \in States /\ status \in [Xids -> Statuses]
      /\ nextOid \in Nat
  BY DEF RowsInv, Core, CoreTypes
<1>2. /\ x # InvalidXID /\ x \in Xids /\ status[x] = "running"
      /\ status' = [status EXCEPT ![x] = v]
      /\ ss' = [ss EXCEPT ![s] = Idle] /\ ss'[s] = Idle /\ rows' = rows /\ nextOid' = nextOid
      /\ (ss[s].pc = "idle" \/ (ss[s].pc = "failed" /\ v = "aborted"))
      /\ cache' = [cache EXCEPT ![s] = NoCache]
      /\ pending' = [pending EXCEPT ![s] = {}]
  BY <1>1, TxIs DEF End, XactFinish, At, Dropped
<1>3. Moves(status, status') /\ status' \in [Xids -> Statuses]
  BY <1>1, <1>2, EndMoves DEF Statuses
<1>4. Idle \in States /\ Idle.tx = InvalidXID /\ Idle.pc = "idle" /\ Idle.todo = <<>> /\ Idle.gone = {}
  BY EmptyTypes DEF Idle
<1> HIDE DEF x
<1>5. Fits(status', rows, nextOid', Idle) /\ InsertOids(Idle) = {}
  BY <1>4 DEF Fits, InsertOids
<1>6. ASSUME NEW t \in Sessions \ {s}, ss[t].tx # InvalidXID PROVE status'[ss[t].tx] = "running"
  <2>1. ss[t].tx \in Xids /\ status[ss[t].tx] = "running" /\ ss[t].tx # x
    BY <1>6, TxIs DEF RowsInv, Core, Apart, x
  <2> QED
    BY <1>1, <1>2, <2>1
<1>7. Core'
  <2>1. nextOid' \in Nat /\ nextOid <= nextOid'
    BY <1>1, <1>2
  <2>2. \A t \in Sessions \ {s} : /\ Idle.tx # InvalidXID => Idle.tx # ss[t].tx
                                  /\ InsertOids(Idle) \cap InsertOids(ss[t]) = {}
    BY <1>4, <1>5
  <2> QED
    BY <1>2, <1>3, <1>4, <1>5, <1>6, <2>1, <2>2, SessionStep
<1> QED
  BY <1>2, <1>3, <1>7 DEF x

-----------------------------------------------------------------------------
(* Every step.                                                             *)

\* The rows that were there keep what names them.
RowsKept == \A i \in DOMAIN rows : /\ i \in DOMAIN rows' /\ rows'[i].cat = rows[i].cat
                                   /\ rows'[i].oid = rows[i].oid /\ rows'[i].rel = rows[i].rel

Loading == {"attrs", "indexes", "names"}

\* A step of a session that loads nothing into its cache.
Unloaded(s) == /\ cache' = cache
               /\ \/ ss'[s].pc \notin Loading
                  \/ ss'[s].pc = ss[s].pc /\ ss'[s].info = ss[s].info

LEMMA ReadsAre ==
    ASSUME RowsInv, NEW s \in Sessions, Reads(s)
    PROVE  Core' /\ Becomes(s, ss'[s]) /\ Calm(ss'[s]) /\ Still
<1>1. Becomes(s, ss'[s]) /\ Calm(ss'[s]) /\ Still
  BY LookupIs, LoadAttributesIs, LoadIndexesIs, LoadNamesIs, EndStatementIs, Zenon DEF Reads
<1>2. ss[s].pc # "idle"
  BY DEF Reads, Lookup, LoadAttributes, LoadIndexes, LoadNames, EndStatement, At
<1>3. Fits(status, rows, nextOid, ss'[s]) /\ InsertOids(ss'[s]) = {}
  BY <1>1, <1>2, CalmIsFit
<1>4. Core'
  BY <1>1, <1>3, QuietStep DEF Becomes, Still
<1> QED
  BY <1>1, <1>4

LEMMA ChecksAre ==
    ASSUME RowsInv, NEW s \in Sessions, Checks(s)
    PROVE  Core'
  BY QuietStep DEF Checks, Becomes, Still

LEMMA MethodsAre ==
    ASSUME RowsInv, NEW s \in Sessions, Methods(s)
    PROVE  /\ Core' /\ Becomes(s, ss'[s]) /\ Still /\ Unloaded(s)
           /\ ss[s].pc = "run" /\ Checks(s)
<1>1. cache' = cache /\ ss[s].pc = "run"
  BY DEF Methods, CreateTable, CreateIndex, DropTable, DropIndex, UpdateStats, Call, At
<1>2. ASSUME NEW n \in Names, CreateTable(s, n) \/ CreateIndex(s, n) \/ DropTable(s, n) \/ DropIndex(s, n)
      PROVE  Checks(s) /\ ss'[s].pc \in {"exists", "failed", "write"}
  <2>1. CASE CreateTable(s, n)
    BY <2>1, CreateTableIs
  <2>2. CASE CreateIndex(s, n)
    BY <2>2, CreateIndexIs
  <2>3. CASE DropTable(s, n)
    BY <2>3, DropTableIs
  <2>4. CASE DropIndex(s, n)
    BY <2>4, DropIndexIs
  <2> QED
    BY <1>2, <2>1, <2>2, <2>3, <2>4
<1>3. UpdateStats(s) => Checks(s) /\ ss'[s].pc \in {"failed", "write"}
  BY UpdateStatsIs
<1>4. Checks(s) /\ ss'[s].pc \in {"exists", "failed", "write"}
  BY <1>2, <1>3 DEF Methods
<1> QED
  BY <1>1, <1>4, ChecksAre DEF Checks, Unloaded, Loading

\* A method that goes on or gives up.
LEMMA GoesOnSafely ==
    ASSUME RowsInv, NEW s \in Sessions, Still,
           GivesUp(s) \/ \E more, gone : GoesOnWith(s, more, gone)
    PROVE  Core' /\ Becomes(s, ss'[s]) /\ ss'[s].pc \in {"write", "failed"}
<1>1. /\ Becomes(s, ss'[s]) /\ ss'[s].pc \in {"write", "failed"}
      /\ Fits(status, rows, nextOid, ss'[s]) /\ InsertOids(ss'[s]) = {}
  BY DEF GivesUp, GoesOnWith
<1>2. Core'
  BY <1>1, QuietStep DEF Becomes, Still
<1> QED
  BY <1>1, <1>2

LEMMA StepsAre ==
    ASSUME RowsInv, NEW s \in Sessions, Steps(s)
    PROVE  Core' /\ Becomes(s, ss'[s]) /\ RowsKept /\ Unloaded(s) /\ status' = status
<1>1. rows' = rows => RowsKept
  BY DEF RowsKept
<1>2. CASE Exists(s)
  <2>1. /\ Checks(s) /\ cache' = cache /\ ss'[s].pc \in {"failed", "create"}
    BY <1>2, ExistsIs DEF Exists, OnlySession
  <2> QED
    BY <1>1, <2>1, ChecksAre DEF Checks, Still, Unloaded, Loading
<1>3. CASE Create(s)
  BY <1>1, <1>3, CreateIs DEF Unloaded, Loading
<1>4. CASE FindIndexes(s) \/ FindAttributes(s) \/ FindClass(s) \/ FindIndexRow(s) \/ RowFails(s)
  <2>1. /\ Still /\ cache' = cache
        /\ GivesUp(s) \/ \E more, gone : GoesOnWith(s, more, gone)
    BY <1>4, FindIndexesIs, FindAttributesIs, FindClassIs, FindIndexRowIs, RowFailsIs, Zenon
  <2> QED
    BY <1>1, <2>1, GoesOnSafely DEF Still, Unloaded, Loading
<1>5. CASE InsertRow(s)
  <2>1. /\ Core' /\ Popped(s) /\ Adds(rows, rows', Now(s).row) /\ cache' = cache /\ status' = status
    BY <1>5, InsertRowIs
  <2>2. RowsKept
    BY <2>1, AddsKeepTables DEF RowsKept
  <2> QED
    BY <2>1, <2>2 DEF Popped, Unloaded, Loading
<1>6. CASE WriteRow(s)
  <2> DEFINE x == ss[s].tx
             i == Now(s).tid
             more == IF Now(s).do = "delete" THEN {} ELSE {Len(rows) + 1}
  <2>1. /\ Core' /\ Popped(s) /\ Stamps(rows, rows', x, i, more) /\ cache' = cache
        /\ status' = status /\ x \in Ids /\ rows \in Seq(Rows)
    BY <1>6, WriteRowIs, Numbers DEF RowsInv, Core, CoreTypes
  <2> HIDE DEF x, i, more
  <2>2. RowsKept
    <3>1. \A k \in DOMAIN rows : LET r == IF k \in DOMAIN rows THEN rows[k] ELSE rows[i] IN
             /\ k \in DOMAIN rows' /\ rows'[k].cat = r.cat
             /\ rows'[k].oid = r.oid /\ rows'[k].rel = r.rel
      BY <2>1, StampsAre
    <3> QED
      BY <3>1 DEF RowsKept
  <2> QED
    BY <2>1, <2>2 DEF Popped, Unloaded, Loading
<1>7. CASE RowWaits(s)
  <2>1. /\ Becomes(s, ss'[s]) /\ ss'[s].pc = "write" /\ Still /\ cache' = cache
        /\ Fits(status, rows, nextOid, ss'[s]) /\ InsertOids(ss'[s]) = InsertOids(ss[s])
    BY <1>7, RowWaitsIs
  <2> QED
    BY <1>1, <2>1, QuietStep DEF Becomes, Still, Unloaded, Loading
<1>8. CASE Wake(s)
  <2>1. /\ Becomes(s, ss'[s]) /\ ss'[s].pc = ss[s].pc /\ ss'[s].info = ss[s].info
        /\ Still /\ cache' = cache
        /\ Fits(status, rows, nextOid, ss'[s]) /\ InsertOids(ss'[s]) = InsertOids(ss[s])
    BY <1>8, WakeIs
  <2> QED
    BY <1>1, <2>1, QuietStep DEF Becomes, Still, Unloaded, Loading
<1> QED
  BY <1>2, <1>3, <1>4, <1>5, <1>6, <1>7, <1>8 DEF Steps

-----------------------------------------------------------------------------
(* The cache.                                                              *)

LEMMA WatchIs ==
    ASSUME TypeInv, NEW d, Watch(d), NEW t \in Sessions
    PROVE  /\ since' \in [Sessions -> [ever : SUBSET Nat, always : SUBSET Nat]]
           /\ t \in d => since'[t].always = DOMAIN rows
           /\ t \notin d => /\ since'[t].ever = since[t].ever \cup Seen(t)
                            /\ since'[t].always = since[t].always \cap Seen(t)
<1>1. \A u \in Sessions : /\ since[u].ever \in SUBSET Nat /\ since[u].always \in SUBSET Nat
                          /\ Seen(u) \in SUBSET Nat
  BY SeenIsHere, RowsLen DEF TypeInv, OtherTypes
<1>2. DOMAIN rows \in SUBSET Nat
  BY RowsLen
<1> DEFINE e(u) == IF u \in d THEN [ever |-> {}, always |-> DOMAIN rows]
                   ELSE [ever |-> since[u].ever \cup Seen(u), always |-> since[u].always \cap Seen(u)]
<1>3. since' = [u \in Sessions |-> e(u)]
  BY DEF Watch
<1>4. \A u \in Sessions : e(u) \in [ever : SUBSET Nat, always : SUBSET Nat]
  BY <1>1, <1>2
<1>5. /\ t \in d => e(t).always = DOMAIN rows
      /\ t \notin d => /\ e(t).ever = since[t].ever \cup Seen(t)
                       /\ e(t).always = since[t].always \cap Seen(t)
  OBVIOUS
<1> HIDE DEF e
<1> QED
  BY <1>3, <1>4, <1>5

\* An entry stays current when its session looks again.
LEMMA CurrentStays ==
    ASSUME NEW R, NEW R2, NEW w, NEW w2, NEW info, NEW cats, Current(R, w, info, cats),
           w.ever \subseteq w2.ever, w2.always \subseteq w.always, w.always \subseteq DOMAIN R,
           \A i \in DOMAIN R : /\ i \in DOMAIN R2 /\ R2[i].cat = R[i].cat
                               /\ R2[i].oid = R[i].oid /\ R2[i].rel = R[i].rel
    PROVE  Current(R2, w2, info, cats)
<1>1. info.class \in Class(R) /\ info.class \in DOMAIN R /\ info.class \in Class(R2)
  BY DEF Current, Class
<1>2. R2[info.class].oid = R[info.class].oid
  BY <1>1
<1>3. \A i \in w2.always : i \in w.always /\ i \in DOMAIN R
  OBVIOUS
<1> QED
  BY <1>1, <1>2, <1>3 DEF Current

\* An entry in the making is one more scan further.
LEMMA CurrentGrows ==
    ASSUME RowsInv, NEW s \in Sessions, Watch({}), NEW info, NEW cats,
           Current(rows, since[s], info, cats)
    PROVE  /\ Current(rows, since'[s], info, cats)
           /\ \A q : /\ q.class = info.class /\ q.indexes = info.indexes /\ q.names = info.names
                     /\ q.attrs = {i \in Scan(s, "attr") : rows[i].oid = rows[info.class].oid}
                     => Current(rows, since'[s], q, cats \cup {"attr"})
           /\ \A q : /\ q.class = info.class /\ q.attrs = info.attrs /\ q.names = info.names
                     /\ q.indexes = {i \in Scan(s, "index") : rows[i].rel = rows[info.class].oid}
                     => Current(rows, since'[s], q, cats \cup {"index"})
           /\ \A q : /\ q.class = info.class /\ q.attrs = info.attrs /\ q.indexes = info.indexes
                     /\ q.names \subseteq Seen(s)
                     => Current(rows, since'[s], q, cats)
<1>1. /\ since'[s].ever = since[s].ever \cup Seen(s)
      /\ since'[s].always = since[s].always \cap Seen(s)
  BY WatchIs DEF RowsInv
<1>2. since[s].always \subseteq DOMAIN rows /\ Seen(s) \subseteq DOMAIN rows
  BY SeenIsHere DEF RowsInv, CacheInv, CacheFits
<1> DEFINE w == since[s]
           w2 == since'[s]
<1>3. Current(rows, w2, info, cats)
  BY <1>1, <1>2, CurrentStays
<1>4. \A cat : Scan(s, cat) = {i \in Seen(s) : rows[i].cat = cat}
  BY DEF Scan
<1> HIDE DEF w2
<1>5. ASSUME NEW q, q.class = info.class, q.indexes = info.indexes, q.names = info.names,
             q.attrs = {i \in Scan(s, "attr") : rows[i].oid = rows[info.class].oid}
      PROVE  Current(rows, w2, q, cats \cup {"attr"})
  <2>1. Parts(q) \subseteq Parts(info) \cup Seen(s)
    BY <1>4, <1>5 DEF Parts
  <2>2. Parts(q) \subseteq w2.ever
    BY <1>1, <1>3, <2>1 DEF Current, w2
  <2>3. \A i \in w2.always : rows[i].cat = "attr" /\ rows[i].oid = rows[info.class].oid => i \in q.attrs
    BY <1>1, <1>4, <1>5 DEF w2
  <2> QED
    BY <1>3, <1>5, <2>2, <2>3 DEF Current
<1>6. ASSUME NEW q, q.class = info.class, q.attrs = info.attrs, q.names = info.names,
             q.indexes = {i \in Scan(s, "index") : rows[i].rel = rows[info.class].oid}
      PROVE  Current(rows, w2, q, cats \cup {"index"})
  <2>1. Parts(q) \subseteq Parts(info) \cup Seen(s)
    BY <1>4, <1>6 DEF Parts
  <2>2. Parts(q) \subseteq w2.ever
    BY <1>1, <1>3, <2>1 DEF Current, w2
  <2>3. \A i \in w2.always : rows[i].cat = "index" /\ rows[i].rel = rows[info.class].oid => i \in q.indexes
    BY <1>1, <1>4, <1>6 DEF w2
  <2> QED
    BY <1>3, <1>6, <2>2, <2>3 DEF Current
<1>7. ASSUME NEW q, q.class = info.class, q.attrs = info.attrs, q.indexes = info.indexes,
             q.names \subseteq Seen(s)
      PROVE  Current(rows, w2, q, cats)
  <2>1. Parts(q) \subseteq Parts(info) \cup Seen(s)
    BY <1>7 DEF Parts
  <2>2. Parts(q) \subseteq w2.ever
    BY <1>1, <1>3, <2>1 DEF Current, w2
  <2> QED
    BY <1>3, <1>7, <2>2 DEF Current
<1> QED
  BY <1>3, <1>5, <1>6, <1>7, Zenon DEF w2

\* The first scan, of pg_class: the session sees one version of the row.
LEMMA ClassIsCurrent ==
    ASSUME RowsInv, NEW s \in Sessions, Watch({}), NEW i \in Scan(s, "class")
    PROVE  Current(rows, since'[s], [NoInfo EXCEPT !.class = i], {})
<1> DEFINE info == [NoInfo EXCEPT !.class = i]
<1>1. info.class = i /\ info.attrs = {} /\ info.indexes = {} /\ info.names = {}
  BY DEF NoInfo
<1>2. i \in Seen(s) /\ rows[i].cat = "class" /\ i \in DOMAIN rows
  BY SeenIsHere DEF Scan
<1>3. since'[s].ever = since[s].ever \cup Seen(s) /\ since'[s].always = since[s].always \cap Seen(s)
  BY WatchIs DEF RowsInv
<1> HIDE DEF info
<1>4. \A j \in since'[s].always : rows[j].cat = "class" /\ rows[j].oid = rows[i].oid => j = i
  BY <1>2, <1>3, SeenOnce
<1>5. Current(rows, since'[s], info, {})
  BY <1>1, <1>2, <1>3, <1>4 DEF Current, Parts, Class
<1> QED
  BY <1>5 DEF info

\* An index has no indexes.
LEMMA IndexHasNone ==
    ASSUME RowsInv, NEW w, NEW info, w.always \subseteq DOMAIN rows,
           Current(rows, w, info, {"attr"}), rows[info.class].kind = "index"
    PROVE  Current(rows, w, info, {"attr", "index"})
<1>1. info.class \in DOMAIN rows /\ rows[info.class].cat = "class"
  BY DEF Current, Class
<1>2. ASSUME NEW i \in w.always, rows[i].cat = "index", rows[i].rel = rows[info.class].oid
      PROVE  FALSE
  <2>1. IsTable(rows, rows[i].rel)
    BY <1>2 DEF RowsInv, Core, Sound, RowsFit
  <2>2. PICK c \in Class(rows) : rows[c].oid = rows[info.class].oid /\ rows[c].kind = "table"
    BY <1>2, <2>1 DEF IsTable
  <2>3. PairFits(rows[c], rows[info.class])
    BY <1>1, <2>2 DEF RowsInv, Core, Sound, PairsFit, Class
  <2> QED
    BY <1>1, <2>2, <2>3 DEF PairFits, Class
<1> QED
  BY <1>2 DEF Current

\* What a load leaves: an entry in the making, or one in the cache.
Making(s, info, p) == cache' = cache /\ ss'[s].pc = p /\ ss'[s].info = info
Made(s, info) ==
    /\ DOMAIN cache' = Sessions /\ \A t \in Sessions \ {s} : cache'[t] = cache[t]
    /\ \A n \in DOMAIN cache'[s] : \/ n = ss[s].name /\ cache'[s][n] = info
                                   \/ n \in DOMAIN cache[s] /\ cache'[s][n] = cache[s][n]
    /\ ss'[s].pc = "run"

LEMMA RememberMakes ==
    ASSUME TypeInv, NEW s \in Sessions, NEW info, Remember(s, info)
    PROVE  Made(s, info)
<1>1. ss \in [Sessions -> States] /\ ss[s] \in States /\ DOMAIN cache = Sessions
  BY DEF TypeInv, CoreTypes, OtherTypes
<1>2. ss'[s].pc = "run"
  BY <1>1 DEF Remember, States
<1> DEFINE e == [n \in DOMAIN cache[s] \cup {ss[s].name} |->
                   IF n = ss[s].name THEN info ELSE cache[s][n]]
<1>3. cache' = [cache EXCEPT ![s] = e]
  BY DEF Remember
<1>4. \A n \in DOMAIN e : \/ n = ss[s].name /\ e[n] = info
                          \/ n \in DOMAIN cache[s] /\ e[n] = cache[s][n]
  OBVIOUS
<1> HIDE DEF e
<1>5. DOMAIN cache' = Sessions /\ cache'[s] = e /\ \A t \in Sessions \ {s} : cache'[t] = cache[t]
  BY <1>1, <1>3
<1> QED
  BY <1>2, <1>4, <1>5 DEF Made

LEMMA LookupLoads ==
    ASSUME RowsInv, NEW s \in Sessions, NEW n \in Names, Lookup(s, n)
    PROVE  \/ cache' = cache /\ ss'[s].pc = "failed"
           \/ \E i \in Scan(s, "class") : Making(s, [NoInfo EXCEPT !.class = i], "attrs")
<1>1. ss \in [Sessions -> States] /\ ss[s] \in States /\ cache' = cache
  BY DEF RowsInv, Core, CoreTypes, Lookup, OnlySession
<1>2. CASE ByName(s, n) = {}
  <2>1. Goto(s, "failed")
    BY <1>2 DEF Lookup
  <2> QED
    BY <1>1, <2>1, FailsCalmly
<1>3. CASE ByName(s, n) # {}
  <2> DEFINE i == First(ByName(s, n))
             info == [NoInfo EXCEPT !.class = i]
  <2>1. i \in Scan(s, "class")
    BY <1>3, FoundAreRows DEF RowsInv
  <2>2. ss' = [ss EXCEPT ![s].pc = "attrs", ![s].name = n, ![s].info = info]
    BY <1>3 DEF Lookup
  <2> HIDE DEF info, i
  <2>3. ss'[s].pc = "attrs" /\ ss'[s].info = info
    BY <1>1, <2>2 DEF States
  <2> QED
    BY <1>1, <2>1, <2>3 DEF Making, info
<1> QED
  BY <1>2, <1>3

LEMMA AttributesLoad ==
    ASSUME RowsInv, NEW s \in Sessions, LoadAttributes(s)
    PROVE  LET class == rows[ss[s].info.class]
               info  == [ss[s].info EXCEPT
                           !.attrs = {i \in Scan(s, "attr") : rows[i].oid = class.oid}]
           IN  \/ class.kind = "index" /\ Made(s, info)
               \/ Making(s, info, "indexes")
<1> DEFINE class == rows[ss[s].info.class]
           info  == [ss[s].info EXCEPT
                       !.attrs = {i \in Scan(s, "attr") : rows[i].oid = class.oid}]
<1>1. ss \in [Sessions -> States] /\ ss[s] \in States
  BY DEF RowsInv, Core, CoreTypes
<1>2. CASE class.kind = "index" /\ Remember(s, info)
  BY <1>2, RememberMakes DEF RowsInv
<1>3. CASE ss' = [ss EXCEPT ![s].pc = "indexes", ![s].info = info] /\ cache' = cache
  <2> HIDE DEF info
  <2>1. ss'[s].pc = "indexes" /\ ss'[s].info = info
    BY <1>1, <1>3 DEF States
  <2> QED
    BY <1>3, <2>1 DEF Making, info
<1> QED
  BY <1>2, <1>3 DEF LoadAttributes

LEMMA IndexesLoad ==
    ASSUME RowsInv, NEW s \in Sessions, LoadIndexes(s)
    PROVE  Making(s, [ss[s].info EXCEPT !.indexes =
                {i \in Scan(s, "index") : rows[i].rel = rows[ss[s].info.class].oid}], "names")
<1> DEFINE S    == {i \in Scan(s, "index") : rows[i].rel = rows[ss[s].info.class].oid}
           info == [ss[s].info EXCEPT !.indexes = S]
<1>1. ss \in [Sessions -> States] /\ ss[s] \in States
  BY DEF RowsInv, Core, CoreTypes
<1>2. cache' = cache /\ ss' = [ss EXCEPT ![s].pc = "names", ![s].info.indexes = S]
  BY DEF LoadIndexes, OnlySession
<1>3. ss'[s].pc = "names" /\ ss'[s].info = info
  <2> HIDE DEF S
  <2> QED
    BY <1>1, <1>2 DEF States
<1> QED
  BY <1>2, <1>3 DEF Making

LEMMA NamesLoad ==
    ASSUME RowsInv, NEW s \in Sessions, LoadNames(s)
    PROVE  LET found == {i \in Scan(s, "class") :
                            \E j \in ss[s].info.indexes : rows[i].oid = rows[j].oid}
           IN  found \subseteq Seen(s) /\ Made(s, [ss[s].info EXCEPT !.names = found])
<1> DEFINE found == {i \in Scan(s, "class") :
                        \E j \in ss[s].info.indexes : rows[i].oid = rows[j].oid}
<1>1. found \subseteq Seen(s)
  BY DEF Scan
<1>2. Remember(s, [ss[s].info EXCEPT !.names = found])
  BY DEF LoadNames
<1> QED
  BY <1>1, <1>2, RememberMakes DEF RowsInv

\* A session that loads nothing keeps what it has.
LEMMA CacheStays ==
    ASSUME RowsInv, NEW t \in Sessions, NEW d, Watch(d), t \notin d, RowsKept,
           cache'[t] = cache[t],
           \/ ss'[t].pc \notin Loading
           \/ ss'[t].pc = ss[t].pc /\ ss'[t].info = ss[t].info
    PROVE  CacheFits(rows', since'[t], cache'[t], ss'[t])
<1>1. CacheFits(rows, since[t], cache[t], ss[t])
  BY DEF RowsInv, CacheInv
<1>2. /\ since'[t].ever = since[t].ever \cup Seen(t)
      /\ since'[t].always = since[t].always \cap Seen(t)
  BY WatchIs DEF RowsInv
<1>3. /\ since[t].ever \subseteq since'[t].ever /\ since'[t].always \subseteq since[t].always
      /\ since[t].always \subseteq DOMAIN rows /\ DOMAIN rows \subseteq DOMAIN rows'
  BY <1>1, <1>2 DEF CacheFits, RowsKept
<1>4. ASSUME NEW info, NEW cats, Current(rows, since[t], info, cats)
      PROVE  Current(rows', since'[t], info, cats)
  BY <1>3, <1>4, CurrentStays DEF RowsKept
<1> QED
  BY <1>1, <1>3, <1>4 DEF CacheFits, Loading

LEMMA CacheGone ==
    ASSUME RowsInv, NEW t \in Sessions, NEW d, Watch(d), t \in d, RowsKept,
           cache'[t] = NoCache, ss'[t].pc \notin Loading
    PROVE  CacheFits(rows', since'[t], cache'[t], ss'[t])
<1>1. DOMAIN NoCache = {}
  BY DEF NoCache
<1>2. since'[t].always \subseteq DOMAIN rows'
  BY WatchIs DEF RowsInv, RowsKept
<1> QED
  BY <1>1, <1>2 DEF CacheFits, Loading

LEMMA MadeIsCurrent ==
    ASSUME RowsInv, NEW s \in Sessions, Watch({}), rows' = rows, NEW info, Made(s, info),
           Current(rows, since'[s], info, {"attr", "index"})
    PROVE  CacheFits(rows', since'[s], cache'[s], ss'[s])
<1>1. CacheFits(rows, since[s], cache[s], ss[s])
  BY DEF RowsInv, CacheInv
<1>2. since'[s].always = since[s].always \cap Seen(s)
  BY WatchIs DEF RowsInv
<1>3. ASSUME NEW n \in DOMAIN cache[s]
      PROVE  Current(rows, since'[s], cache[s][n], {"attr", "index"})
  BY <1>1, <1>3, CurrentGrows DEF CacheFits
<1> QED
  BY <1>1, <1>2, <1>3 DEF CacheFits, Made

LEMMA MakingIsCurrent ==
    ASSUME RowsInv, NEW s \in Sessions, Watch({}), rows' = rows, NEW info, NEW p,
           Making(s, info, p),
           \/ p = "attrs" /\ Current(rows, since'[s], info, {})
           \/ p = "indexes" /\ Current(rows, since'[s], info, {"attr"})
           \/ p = "names" /\ Current(rows, since'[s], info, {"attr", "index"})
    PROVE  CacheFits(rows', since'[s], cache'[s], ss'[s])
<1>1. CacheFits(rows, since[s], cache[s], ss[s])
  BY DEF RowsInv, CacheInv
<1>2. since'[s].always = since[s].always \cap Seen(s)
  BY WatchIs DEF RowsInv
<1>3. ASSUME NEW n \in DOMAIN cache[s]
      PROVE  Current(rows, since'[s], cache[s][n], {"attr", "index"})
  BY <1>1, <1>3, CurrentGrows DEF CacheFits
<1> QED
  BY <1>1, <1>2, <1>3 DEF CacheFits, Making

LEMMA ReadsKeepCache ==
    ASSUME RowsInv, NEW s \in Sessions, Reads(s), Watch({})
    PROVE  CacheFits(rows', since'[s], cache'[s], ss'[s])
<1> DEFINE info == ss[s].info
           w2 == since'[s]
<1>1. rows' = rows /\ RowsKept /\ CacheFits(rows, since[s], cache[s], ss[s])
  BY ReadsAre DEF Still, RowsKept, RowsInv, CacheInv
<1>2. ss \in [Sessions -> States] /\ info \in Infos
  BY DEF RowsInv, Core, CoreTypes, States
<1>3. w2.always \subseteq DOMAIN rows
  BY <1>1, WatchIs DEF RowsInv, CacheFits
<1>4. ASSUME NEW n \in Names, Lookup(s, n) PROVE CacheFits(rows', w2, cache'[s], ss'[s])
  <2>1. CASE cache' = cache /\ ss'[s].pc = "failed"
    BY <1>1, <2>1, CacheStays DEF Loading
  <2>2. CASE \E i \in Scan(s, "class") : Making(s, [NoInfo EXCEPT !.class = i], "attrs")
    BY <1>1, <2>2, ClassIsCurrent, MakingIsCurrent
  <2> QED
    BY <1>4, <2>1, <2>2, LookupLoads
<1>5. ASSUME LoadAttributes(s) PROVE CacheFits(rows', w2, cache'[s], ss'[s])
  <2> DEFINE q == [info EXCEPT !.attrs =
                     {i \in Scan(s, "attr") : rows[i].oid = rows[info.class].oid}]
  <2>1. /\ q.class = info.class /\ q.indexes = info.indexes /\ q.names = info.names
        /\ q.attrs = {i \in Scan(s, "attr") : rows[i].oid = rows[info.class].oid}
    BY <1>2 DEF Infos
  <2>2. Current(rows, since[s], info, {})
    BY <1>1, <1>5 DEF CacheFits, LoadAttributes, At
  <2>3. \/ rows[info.class].kind = "index" /\ Made(s, q)
       \/ Making(s, q, "indexes")
    BY <1>5, AttributesLoad
  <2> HIDE DEF q, info
  <2>4. Current(rows, w2, q, {"attr"})
    <3>1. {} \cup {"attr"} = {"attr"}
      OBVIOUS
    <3> HIDE DEF w2
    <3>2. Current(rows, w2, q, {} \cup {"attr"})
      BY <2>1, <2>2, CurrentGrows, Zenon DEF w2
    <3> QED
      BY <3>1, <3>2
  <2>5. CASE rows[info.class].kind = "index" /\ Made(s, q)
    BY <1>1, <1>3, <2>1, <2>4, <2>5, IndexHasNone, MadeIsCurrent
  <2>6. CASE Making(s, q, "indexes")
    BY <1>1, <2>4, <2>6, MakingIsCurrent
  <2> QED
    BY <2>3, <2>5, <2>6
<1>6. ASSUME LoadIndexes(s) PROVE CacheFits(rows', w2, cache'[s], ss'[s])
  <2> DEFINE q == [info EXCEPT !.indexes =
                     {i \in Scan(s, "index") : rows[i].rel = rows[info.class].oid}]
  <2>1. /\ q.class = info.class /\ q.attrs = info.attrs /\ q.names = info.names
        /\ q.indexes = {i \in Scan(s, "index") : rows[i].rel = rows[info.class].oid}
    BY <1>2 DEF Infos
  <2>2. Current(rows, since[s], info, {"attr"})
    BY <1>1, <1>6 DEF CacheFits, LoadIndexes, At
  <2>3. Making(s, q, "names")
    BY <1>6, IndexesLoad
  <2> HIDE DEF q, info
  <2>4. Current(rows, w2, q, {"attr", "index"})
    <3>1. {"attr"} \cup {"index"} = {"attr", "index"}
      OBVIOUS
    <3> HIDE DEF w2
    <3>2. Current(rows, w2, q, {"attr"} \cup {"index"})
      BY <2>1, <2>2, CurrentGrows, Zenon DEF w2
    <3> QED
      BY <3>1, <3>2
  <2> QED
    BY <1>1, <2>3, <2>4, MakingIsCurrent
<1>7. ASSUME LoadNames(s) PROVE CacheFits(rows', w2, cache'[s], ss'[s])
  <2> DEFINE S == {i \in Scan(s, "class") : \E j \in info.indexes : rows[i].oid = rows[j].oid}
             q == [info EXCEPT !.names = S]
  <2>1. S \subseteq Seen(s) /\ Made(s, q)
    BY <1>7, NamesLoad
  <2> HIDE DEF S
  <2>2. /\ q.class = info.class /\ q.attrs = info.attrs /\ q.indexes = info.indexes
        /\ q.names = S
    BY <1>2 DEF Infos
  <2>3. Current(rows, since[s], info, {"attr", "index"})
    BY <1>1, <1>7 DEF CacheFits, LoadNames, At
  <2> HIDE DEF q, info
  <2>4. Current(rows, w2, q, {"attr", "index"})
    BY <2>1, <2>2, <2>3, CurrentGrows, Zenon
  <2> QED
    BY <1>1, <2>1, <2>4, MadeIsCurrent
<1>8. ASSUME EndStatement(s) PROVE CacheFits(rows', w2, cache'[s], ss'[s])
  <2>1. cache' = cache /\ ss'[s].pc = "idle"
    BY <1>8, GotoIs DEF EndStatement, OnlySession, Pcs
  <2> QED
    BY <1>1, <2>1, CacheStays DEF Loading
<1> QED
  BY <1>4, <1>5, <1>6, <1>7, <1>8 DEF Reads

-----------------------------------------------------------------------------
(* The invariant, and what the cache of a session is.                      *)

CacheTypes(c) == \A n \in DOMAIN c : n \in RowNames /\ c[n] \in Infos

LEMMA ReadsTypeCache ==
    ASSUME RowsInv, NEW s \in Sessions, Reads(s)
    PROVE  /\ DOMAIN cache' = Sessions /\ CacheTypes(cache'[s])
           /\ \A t \in Sessions \ {s} : cache'[t] = cache[t]
<1>1. DOMAIN cache = Sessions /\ CacheTypes(cache[s])
  BY DEF RowsInv, TypeInv, OtherTypes, CacheTypes
<1>2. ASSUME NEW info \in Infos, Made(s, info)
      PROVE  /\ DOMAIN cache' = Sessions /\ CacheTypes(cache'[s])
             /\ \A t \in Sessions \ {s} : cache'[t] = cache[t]
  BY <1>1, <1>2, InfoIs DEF Made, CacheTypes
<1>3. cache' = cache \/ \E info \in Infos : Made(s, info)
  <2>1. ASSUME NEW n \in Names, Lookup(s, n) PROVE cache' = cache
    BY <2>1 DEF Lookup, OnlySession
  <2>2. LoadIndexes(s) \/ EndStatement(s) => cache' = cache
    BY DEF LoadIndexes, EndStatement, OnlySession
  <2>3. CASE LoadAttributes(s)
    <3> DEFINE S == {i \in Scan(s, "attr") : rows[i].oid = rows[ss[s].info.class].oid}
               q == [ss[s].info EXCEPT !.attrs = S]
    <3>1. S \in SUBSET Nat
      BY LoadsFind
    <3>2. Made(s, q) \/ cache' = cache
      BY <2>3, AttributesLoad DEF Making
    <3> HIDE DEF S
    <3>3. q \in Infos
      BY <3>1, InfoIs
    <3> HIDE DEF q
    <3> QED
      BY <3>2, <3>3
  <2>4. CASE LoadNames(s)
    <3> DEFINE S == {i \in Scan(s, "class") : \E j \in ss[s].info.indexes : rows[i].oid = rows[j].oid}
               q == [ss[s].info EXCEPT !.names = S]
    <3>1. S \in SUBSET Nat
      BY LoadsFind
    <3>2. Made(s, q)
      BY <2>4, NamesLoad
    <3> HIDE DEF S
    <3>3. q \in Infos
      BY <3>1, InfoIs
    <3> HIDE DEF q
    <3> QED
      BY <3>2, <3>3
  <2> QED
    BY <2>1, <2>2, <2>3, <2>4 DEF Reads
<1> QED
  BY <1>1, <1>2, <1>3

LEMMA PendingTypes ==
    ASSUME TypeInv, NEW s \in Sessions, NEW P \in SUBSET Notes
    PROVE  /\ [pending EXCEPT ![s] = @ \cup P] \in [Sessions -> SUBSET Notes]
           /\ [pending EXCEPT ![s] = {}] \in [Sessions -> SUBSET Notes]
  BY DEF TypeInv, OtherTypes

LEMMA StepsTypeOthers ==
    ASSUME RowsInv, NEW s \in Sessions, Steps(s)
    PROVE  files' \subseteq Nat /\ pending' \in [Sessions -> SUBSET Notes]
<1>1. CASE UNCHANGED <<files, pending>>
  BY <1>1 DEF RowsInv, TypeInv, OtherTypes
<1>2. CASE Create(s)
  <2>1. nextOid \in Nat /\ files \subseteq Nat
    BY DEF RowsInv, TypeInv, CoreTypes, OtherTypes
  <2> DEFINE P == {[oid |-> nextOid, atCommit |-> FALSE]}
  <2>2. P \in SUBSET Notes
    BY <2>1 DEF Notes
  <2>3. files' = files \cup {nextOid} /\ pending' = [pending EXCEPT ![s] = @ \cup P]
    BY <1>2 DEF Create
  <2> HIDE DEF P
  <2> QED
    BY <2>1, <2>2, <2>3, PendingTypes DEF RowsInv
<1>3. UNCHANGED <<files, pending>> \/ Create(s)
  BY DEF Steps, Exists, FindIndexes, FindAttributes, FindClass, FindIndexRow, InsertRow,
         WriteRow, RowWaits, RowFails, Wake, OnlySession
<1> QED
  BY <1>1, <1>2, <1>3

LEMMA DropsAre ==
    ASSUME RowsInv, NEW s \in Sessions, Drops(s)
    PROVE  /\ Core' /\ rows' = rows /\ cache' = [cache EXCEPT ![s] = NoCache]
           /\ ss'[s].pc \notin Loading /\ \A t \in Sessions \ {s} : ss'[t] = ss[t]
           /\ files' \subseteq Nat /\ pending' \in [Sessions -> SUBSET Notes]
<1>1. ss \in [Sessions -> States] /\ files \subseteq Nat /\ pending \in [Sessions -> SUBSET Notes]
  BY DEF RowsInv, TypeInv, CoreTypes, OtherTypes
<1>2. CASE StartStatement(s)
  BY <1>1, <1>2, StartStatementIs DEF Loading
<1>3. CASE Done(s)
  <2>1. /\ Becomes(s, ss'[s]) /\ ss'[s].pc = "idle" /\ Calm(ss'[s]) /\ ss[s].tx # InvalidXID
        /\ UNCHANGED <<status, rows, files, nextOid, left>>
    BY <1>3, DoneIs
  <2>2. Fits(status, rows, nextOid, ss'[s]) /\ InsertOids(ss'[s]) = {}
    BY <2>1, CalmFits DEF Becomes
  <2>3. Core'
    BY <2>1, <2>2, QuietStep DEF Becomes
  <2> DEFINE P == {[oid |-> o, atCommit |-> TRUE] : o \in ss[s].gone}
  <2>4. P \in SUBSET Notes
    <3>1. ss[s].gone \in SUBSET Nat
      BY TxIs DEF States
    <3>2. \A o \in ss[s].gone : [oid |-> o, atCommit |-> TRUE] \in Notes
      BY <3>1 DEF Notes
    <3> QED
      BY <3>2
  <2>5. pending' = [pending EXCEPT ![s] = @ \cup P] /\ cache' = [cache EXCEPT ![s] = NoCache]
    BY <1>3 DEF Done, Dropped
  <2> HIDE DEF P
  <2>6. pending' \in [Sessions -> SUBSET Notes]
    BY <2>4, <2>5, PendingTypes DEF RowsInv
  <2> QED
    BY <1>1, <2>1, <2>3, <2>5, <2>6 DEF Becomes, Loading
<1>4. ASSUME NEW v \in {"committed", "aborted"}, End(s, v)
      PROVE  /\ Core' /\ rows' = rows /\ cache' = [cache EXCEPT ![s] = NoCache]
             /\ ss'[s].pc \notin Loading /\ \A t \in Sessions \ {s} : ss'[t] = ss[t]
             /\ files' \subseteq Nat /\ pending' \in [Sessions -> SUBSET Notes]
  <2>1. /\ Core' /\ rows' = rows /\ cache' = [cache EXCEPT ![s] = NoCache]
        /\ ss' = [ss EXCEPT ![s] = Idle] /\ ss'[s] = Idle
        /\ pending' = [pending EXCEPT ![s] = {}]
    BY <1>4, EndIs
  <2>2. Idle.pc \notin Loading
    BY DEF Idle, Loading
  <2>3. files' \subseteq files
    BY <1>4 DEF End
  <2> QED
    BY <1>1, <2>1, <2>2, <2>3
<1> QED
  BY <1>2, <1>3, <1>4 DEF Drops

LEMMA TwoMore ==
    ASSUME NEW A \in Seq(Rows), NEW B \in Seq(Rows), Len(B) = 2
    PROVE  /\ A \o B \in Seq(Rows) /\ Len(A \o B) = Len(A) + 2
           /\ \A k \in 1 .. Len(A) : (A \o B)[k] = A[k]
           /\ \A k \in 1 .. 2 : (A \o B)[Len(A) + k] = B[k]
<1> DEFINE n == Len(A)
           C == A \o B
<1>1. /\ C \in Seq(Rows) /\ Len(C) = n + 2 /\ n \in Nat
      /\ \A i \in 1 .. n + 2 : C[i] = IF i <= n THEN A[i] ELSE B[i - n]
  <2>1. /\ C \in Seq(Rows) /\ Len(C) = n + Len(B)
        /\ \A i \in 1 .. n + Len(B) : C[i] = IF i <= n THEN A[i] ELSE B[i - n]
    BY ConcatProperties
  <2> QED
    BY <2>1, LenProperties
<1> HIDE DEF n, C
<1>2. \A k \in 1 .. n : C[k] = A[k]
  BY <1>1
<1>3. ASSUME NEW k \in 1 .. 2 PROVE C[n + k] = B[k]
  <2>1. n + k \in 1 .. n + 2 /\ ~(n + k <= n) /\ (n + k) - n = k
    BY <1>1
  <2> QED
    BY <1>1, <2>1
<1> QED
  BY <1>1, <1>2, <1>3 DEF n, C

\* The tables of Init: pg_class, t and i, with a pg_class row and one other row each.
LEMMA InitialRows ==
    ASSUME Init
    PROVE  /\ rows \in Seq(Rows) /\ DOMAIN rows = 1 .. 6 /\ 1 .. 6 = {1, 2, 3, 4, 5, 6}
           /\ \A i \in 1 .. 6 : LET r == rows[i] IN
                 /\ r.oid = IF i \in {1, 2} THEN 1 ELSE IF i \in {3, 4} THEN 2 ELSE 3
                 /\ r.cat = IF i \in {1, 3, 5} THEN "class" ELSE IF i = 6 THEN "index" ELSE "attr"
                 /\ r.xmin = (IF i \in {1, 2} THEN 1 ELSE 2) /\ r.creator = r.xmin
                 /\ r.xmax = 0 /\ r.knew = {}
           /\ rows[1].kind = "table" /\ rows[3].kind = "table" /\ rows[5].kind = "index"
           /\ rows[6].rel = 2
<1> DEFINE r1 == [NoNew EXCEPT !.name = "pg_class", !.kind = "table"]
           r2 == [NoNew EXCEPT !.name = "t", !.kind = "table"]
<1>1. PICK primary \in BOOLEAN :
         rows = RowsOf(r1, 1, BootstrapXID) \o RowsOf(r2, 2, FrozenXID)
                   \o RowsOf([NoNew EXCEPT !.name = "i", !.kind = "index", !.rel = 2,
                                           !.primary = primary], 3, FrozenXID)
  BY DEF Init
<1> DEFINE r3 == [NoNew EXCEPT !.name = "i", !.kind = "index", !.rel = 2, !.primary = primary]
           a == RowsOf(r1, 1, 1)
           b == RowsOf(r2, 2, 2)
           c == RowsOf(r3, 3, 2)
<1>2. r1 \in News /\ r2 \in News /\ r3 \in News
  BY EmptyTypes DEF News, NoNew, RowNames, RelKinds
<1>3. /\ a \in Seq(Rows) /\ Len(a) = 2 /\ b \in Seq(Rows) /\ Len(b) = 2
      /\ c \in Seq(Rows) /\ Len(c) = 2
  BY <1>2, RowsAreTyped, Numbers
<1>4. /\ \A k \in 1 .. 2 : /\ a[k].oid = 1 /\ a[k].xmin = 1 /\ a[k].xmax = 0
                           /\ a[k].creator = 1 /\ a[k].knew = {}
                           /\ b[k].oid = 2 /\ b[k].xmin = 2 /\ b[k].xmax = 0
                           /\ b[k].creator = 2 /\ b[k].knew = {}
                           /\ c[k].oid = 3 /\ c[k].xmin = 2 /\ c[k].xmax = 0
                           /\ c[k].creator = 2 /\ c[k].knew = {}
      /\ a[1].cat = "class" /\ a[1].kind = "table" /\ a[1].name = "pg_class" /\ a[2].cat = "attr"
      /\ b[1].cat = "class" /\ b[1].kind = "table" /\ b[1].name = "t" /\ b[2].cat = "attr"
      /\ c[1].cat = "class" /\ c[1].kind = "index" /\ c[1].name = "i"
      /\ c[2].cat = "index" /\ c[2].rel = 2
  BY DEF RowsOf, Row, NoNew, InvalidXID
<1>5. rows = (a \o b) \o c
  BY <1>1 DEF BootstrapXID, FrozenXID
<1> HIDE DEF a, b, c
<1>6. /\ rows \in Seq(Rows) /\ DOMAIN rows = 1 .. 6 /\ Len(rows) = 6
      /\ rows[1] = a[1] /\ rows[2] = a[2] /\ rows[3] = b[1] /\ rows[4] = b[2]
      /\ rows[5] = c[1] /\ rows[6] = c[2]
  <2> HIDE DEF r1, r2, r3
  <2> DEFINE ab == a \o b
  <2>1. /\ ab \in Seq(Rows) /\ Len(ab) = 4
        /\ \A k \in 1 .. 2 : ab[k] = a[k] /\ ab[2 + k] = b[k]
    BY <1>3, TwoMore
  <2>2. rows = ab \o c
    BY <1>5
  <2> HIDE DEF ab
  <2>3. /\ rows \in Seq(Rows) /\ Len(rows) = 6
        /\ \A k \in 1 .. 4 : rows[k] = ab[k]
        /\ \A k \in 1 .. 2 : rows[4 + k] = c[k]
    <3>1. /\ ab \o c \in Seq(Rows) /\ Len(ab \o c) = Len(ab) + 2
          /\ \A k \in 1 .. Len(ab) : (ab \o c)[k] = ab[k]
          /\ \A k \in 1 .. 2 : (ab \o c)[Len(ab) + k] = c[k]
      BY <1>3, <2>1, TwoMore
    <3> QED
      BY <2>1, <2>2, <3>1
  <2>4. DOMAIN rows = 1 .. 6
    BY <2>3, LenProperties
  <2> QED
    BY <2>1, <2>3, <2>4
<1>7. 1 .. 6 = {1, 2, 3, 4, 5, 6}
  OBVIOUS
<1> QED
  BY <1>4, <1>6, <1>7

LEMMA RowsInit == Init => RowsInv
<1> SUFFICES ASSUME Init PROVE RowsInv
  OBVIOUS
<1>1. /\ rows \in Seq(Rows) /\ DOMAIN rows = 1 .. 6 /\ 1 .. 6 = {1, 2, 3, 4, 5, 6}
      /\ rows[1].kind = "table" /\ rows[3].kind = "table" /\ rows[5].kind = "index"
      /\ rows[6].rel = 2
  BY InitialRows
<1>2. \A i \in 1 .. 6 : LET r == rows[i] IN
         /\ r.oid = IF i \in {1, 2} THEN 1 ELSE IF i \in {3, 4} THEN 2 ELSE 3
         /\ r.cat = IF i \in {1, 3, 5} THEN "class" ELSE IF i = 6 THEN "index" ELSE "attr"
         /\ r.xmin = (IF i \in {1, 2} THEN 1 ELSE 2) /\ r.creator = r.xmin
         /\ r.xmax = 0 /\ r.knew = {}
  BY InitialRows
<1>3. /\ Verdict(status, 1) = "committed" /\ Verdict(status, 2) = "committed"
      /\ Known(status, 0) /\ Known(status, 1) /\ Known(status, 2) /\ nextOid = 4
  BY Numbers DEF Verdict, Known, InvalidXID, FirstNormalXID, Init
<1>4. /\ status \in [Xids -> Statuses] /\ ss = [s \in Sessions |-> Idle]
      /\ cache = [s \in Sessions |-> NoCache] /\ pending = [s \in Sessions |-> {}]
      /\ since = [s \in Sessions |-> [ever |-> {}, always |-> DOMAIN rows]] /\ files = 1 .. 3
  BY DEF Init, XactInit, Statuses
<1>5. RowsFit(status, rows, nextOid)
  <2>1. IsTable(rows, 2)
    BY <1>1, <1>2 DEF IsTable, Class
  <2>2. \A i \in DOMAIN rows : RowFits(status, nextOid, rows[i])
    BY <1>1, <1>2, <1>3, NoneIs DEF RowFits, InvalidXID
  <2>3. \A i \in DOMAIN rows : rows[i].cat = "index" => rows[i].rel = 2
    BY <1>1, <1>2
  <2> QED
    BY <2>1, <2>2, <2>3 DEF RowsFit
<1>6. /\ \A i \in 1 .. 6 : rows[i].oid = IF i \in {1, 2} THEN 1 ELSE IF i \in {3, 4} THEN 2 ELSE 3
      /\ \A i \in 1 .. 6 : rows[i].cat = "class" <=> i \in {1, 3, 5}
  BY <1>1, <1>2
<1>7. PairsFit(rows)
  BY <1>1, <1>2, <1>6 DEF PairsFit, PairFits
<1>8. OneIsSeen(status, rows)
  BY <1>1, <1>6 DEF OneIsSeen, Class
<1>9. TypeInv
  <2>1. CoreTypes
    BY <1>1, <1>3, <1>4, EmptyTypes DEF CoreTypes
  <2>2. DOMAIN rows \in SUBSET Nat /\ 1 .. 3 \subseteq Nat /\ DOMAIN NoCache = {}
    BY <1>1 DEF NoCache
  <2>3. OtherTypes
    BY <1>4, <2>2 DEF OtherTypes
  <2> QED
    BY <2>1, <2>3 DEF TypeInv
<1>10. /\ Idle.tx = InvalidXID /\ Idle.pc = "idle" /\ Idle.todo = <<>> /\ Idle.gone = {}
       /\ InsertOids(Idle) = {}
  BY DEF Idle, InsertOids
<1>11. SessionsFit /\ Apart
  BY <1>4, <1>10 DEF SessionsFit, Fits, Apart
<1>12. CacheInv
  <2>1. DOMAIN NoCache = {}
    BY DEF NoCache
  <2> QED
    BY <1>4, <1>10, <2>1 DEF CacheInv, CacheFits
<1> QED
  BY <1>5, <1>7, <1>8, <1>9, <1>11, <1>12 DEF RowsInv, Core, Sound, TypeInv

LEMMA RowsNext == RowsInv /\ [Next]_vars => RowsInv'
<1> SUFFICES ASSUME RowsInv, [Next]_vars PROVE RowsInv'
  OBVIOUS
<1>1. CASE UNCHANGED vars
  BY <1>1 DEF vars, RowsInv, TypeInv, CoreTypes, OtherTypes, Core, SessionsFit, Apart, CacheInv
<1>2. ASSUME NEW s \in Sessions, Reads(s) \/ Methods(s) \/ Steps(s), Watch({})
      PROVE  RowsInv'
  <2>1. /\ Core' /\ RowsKept /\ files' \subseteq Nat /\ pending' \in [Sessions -> SUBSET Notes]
        /\ \A t \in Sessions \ {s} : ss'[t] = ss[t]
        /\ DOMAIN cache' = Sessions /\ CacheTypes(cache'[s])
        /\ \A t \in Sessions \ {s} : cache'[t] = cache[t]
        /\ CacheFits(rows', since'[s], cache'[s], ss'[s])
    <3>1. /\ files \subseteq Nat /\ pending \in [Sessions -> SUBSET Notes] /\ DOMAIN cache = Sessions
          /\ CacheTypes(cache[s]) /\ ss \in [Sessions -> States]
      BY DEF RowsInv, TypeInv, CoreTypes, OtherTypes, CacheTypes
    <3>2. CASE Reads(s)
      BY <1>2, <3>1, <3>2, ReadsAre, ReadsTypeCache, ReadsKeepCache DEF Still, RowsKept, Becomes
    <3>3. CASE Methods(s)
      <4>1. Core' /\ Becomes(s, ss'[s]) /\ Still /\ Unloaded(s)
        BY <3>3, MethodsAre
      <4>2. RowsKept
        BY <4>1 DEF Still, RowsKept
      <4>3. CacheFits(rows', since'[s], cache'[s], ss'[s])
        BY <1>2, <4>1, <4>2, CacheStays DEF Unloaded
      <4> QED
        BY <3>1, <4>1, <4>2, <4>3 DEF Still, Becomes, Unloaded
    <3>4. CASE Steps(s)
      <4>1. Core' /\ Becomes(s, ss'[s]) /\ RowsKept /\ Unloaded(s)
        BY <3>4, StepsAre
      <4>2. CacheFits(rows', since'[s], cache'[s], ss'[s])
        BY <1>2, <4>1, CacheStays DEF Unloaded
      <4> QED
        BY <3>1, <3>4, <4>1, <4>2, StepsTypeOthers DEF Becomes, Unloaded
    <3> QED
      BY <1>2, <3>2, <3>3, <3>4
  <2>2. ASSUME NEW t \in Sessions \ {s}
        PROVE  CacheFits(rows', since'[t], cache'[t], ss'[t]) /\ CacheTypes(cache'[t])
    <3>1. CacheTypes(cache[t])
      BY DEF RowsInv, TypeInv, OtherTypes, CacheTypes
    <3> QED
      BY <1>2, <2>1, <3>1, CacheStays
  <2>3. since' \in [Sessions -> [ever : SUBSET Nat, always : SUBSET Nat]]
    BY <1>2, WatchIs DEF RowsInv
  <2> QED
    BY <2>1, <2>2, <2>3 DEF RowsInv, TypeInv, OtherTypes, Core, CacheInv, CacheTypes
<1>3. ASSUME NEW s \in Sessions, Drops(s), Watch({s})
      PROVE  RowsInv'
  <2>1. /\ Core' /\ RowsKept /\ files' \subseteq Nat /\ pending' \in [Sessions -> SUBSET Notes]
        /\ \A t \in Sessions \ {s} : ss'[t] = ss[t]
        /\ cache' = [cache EXCEPT ![s] = NoCache] /\ ss'[s].pc \notin Loading
    BY <1>3, DropsAre DEF RowsKept
  <2>2. /\ DOMAIN cache' = Sessions /\ cache'[s] = NoCache
        /\ \A t \in Sessions \ {s} : cache'[t] = cache[t]
        /\ \A t \in Sessions : CacheTypes(cache[t])
    BY <2>1 DEF RowsInv, TypeInv, OtherTypes, CacheTypes
  <2>3. CacheFits(rows', since'[s], cache'[s], ss'[s]) /\ CacheTypes(cache'[s])
    BY <1>3, <2>1, <2>2, CacheGone DEF CacheTypes, NoCache
  <2>4. ASSUME NEW t \in Sessions \ {s}
        PROVE  CacheFits(rows', since'[t], cache'[t], ss'[t]) /\ CacheTypes(cache'[t])
    BY <1>3, <2>1, <2>2, CacheStays
  <2>5. since' \in [Sessions -> [ever : SUBSET Nat, always : SUBSET Nat]]
    BY <1>3, WatchIs DEF RowsInv
  <2> QED
    BY <2>1, <2>2, <2>3, <2>4, <2>5 DEF RowsInv, TypeInv, OtherTypes, Core, CacheInv, CacheTypes
<1> QED
  BY <1>1, <1>2, <1>3 DEF Next

LEMMA RowsAlways == Spec => []RowsInv
  BY RowsInit, RowsNext, PTL DEF Spec

LEMMA CurrentCache == RowsInv => CacheIsCurrent
<1> SUFFICES ASSUME RowsInv, NEW s \in Sessions, NEW n \in DOMAIN cache[s]
             PROVE  LET info == cache[s][n]
                        oid  == rows[info.class].oid
                    IN  /\ Parts(info) \subseteq since[s].ever \cup Seen(s)
                        /\ \A i \in since[s].always \cap Seen(s) :
                              \/ rows[i].cat # "index" /\ rows[i].oid = oid
                              \/ rows[i].cat = "index" /\ rows[i].rel = oid
                              => i \in Parts(info)
  BY DEF CacheIsCurrent, Parts
<1>1. Current(rows, since[s], cache[s][n], {"attr", "index"})
  BY DEF RowsInv, CacheInv, CacheFits
<1>2. \A i \in Seen(s) : rows[i].cat \in {"class", "attr", "index"}
  BY SeenIsHere, RowIs DEF Rows, RowFits
<1> QED
  BY <1>1, <1>2 DEF Current, Parts

\* What a statement finds in its relation cache is no older than the
\* statement, however its scans fall between the commits of other sessions:
\* every row in an entry was there at some moment since the cache was
\* dropped, and every column or index that was there all the time is in it.
THEOREM CacheStaysCurrent == Spec => []CacheIsCurrent
  BY RowsAlways, CurrentCache, PTL

-----------------------------------------------------------------------------
(* Names.                                                                  *)

\* A new version of a pg_class row comes after one that had committed.
Based(st, R) == \A i \in Class(R) :
    Verdict(st, R[i].xmin) = "running" /\ R[i].xmin # R[i].creator =>
        \E c \in Class(R) : /\ R[c].oid = R[i].oid /\ R[c].xmax = R[i].xmin
                            /\ Verdict(st, R[c].xmin) = "committed"

\* The creator of j knew the creator of i when it checked the name: it had
\* dropped i, or somebody has, or it came to nothing.
Parted(st, r, q) ==
    Dead(st, r) \/ Dead(st, q) \/ r.xmax = q.creator \/ q.xmax = r.creator
NamesApart(st, R) == \A i, j \in Class(R) :
    R[i].oid # R[j].oid /\ R[i].name = R[j].name /\ R[i].creator \in R[j].knew
        => Parted(st, R[i], R[j])

\* Transaction x knew K when it found the name n free.
NewKnows(st, R, x, n, K) ==
    /\ x \in K
    /\ \A i \in Class(R) : R[i].name = n /\ R[i].creator \in K => DroppedBy(st, x, R[i])

\* A session between its check of a name and the row that takes it.
BothLeft(q) == q.pc = "write" /\ Len(q.todo) = 2 /\ q.todo[1].do = "insert"
NameFits(st, R, q) ==
    /\ q.pc = "create" => NewKnows(st, R, q.tx, q.new.name, q.new.knew)
    /\ BothLeft(q) => NewKnows(st, R, q.tx, q.todo[1].row.name, q.todo[1].row.knew)

NamesInv ==
    /\ Based(status, rows) /\ NamesApart(status, rows)
    /\ \A s \in Sessions : NameFits(status, rows, ss[s])

LEMMA NamesMove ==
    ASSUME NEW st, NEW st2, Moves(st, st2), NEW R \in Seq(Rows), NEW o \in Nat, Sound(st, R, o)
    PROVE  /\ Based(st, R) => Based(st2, R)
           /\ NamesApart(st, R) => NamesApart(st2, R)
           /\ \A q : NameFits(st, R, q) => NameFits(st2, R, q)
<1>1. \A i \in DOMAIN R : R[i] \in Rows /\ RowFits(st, o, R[i])
  BY ElementOfSeq, LenProperties DEF Sound, RowsFit
<1>2. \A i \in DOMAIN R : /\ Dead(st, R[i]) => Dead(st2, R[i])
                          /\ \A x : DroppedBy(st, x, R[i]) => DroppedBy(st2, x, R[i])
  BY <1>1, DeadStays
<1>3. \A i \in DOMAIN R : /\ Verdict(st2, R[i].xmin) = "running" => Verdict(st, R[i].xmin) = "running"
                          /\ Verdict(st, R[i].xmin) = "committed" => Verdict(st2, R[i].xmin) = "committed"
  BY <1>1, KnownStays DEF RowFits
<1>4. Based(st, R) => Based(st2, R)
  BY <1>3 DEF Based, Class
<1>5. NamesApart(st, R) => NamesApart(st2, R)
  BY <1>2 DEF NamesApart, Parted, Class
<1>6. \A q : NameFits(st, R, q) => NameFits(st2, R, q)
  BY <1>2 DEF NameFits, NewKnows, Class
<1> QED
  BY <1>4, <1>5, <1>6

LEMMA NamesAdd ==
    ASSUME NEW st, NEW R, NEW R2, NEW o \in Nat, Sound(st, R, o), NEW r, Adds(R, R2, r),
           NEW x \in Xids, st[x] = "running", r.xmin = x, r.creator = x,
           r.cat = "class" => NewKnows(st, R, x, r.name, r.knew)
    PROVE  /\ Based(st, R) => Based(st, R2)
           /\ NamesApart(st, R) => NamesApart(st, R2)
           /\ \A q : /\ NameFits(st, R, q) /\ q.tx # x
                     /\ q.pc = "create" => KnewThen(st, q, q.new.knew)
                     /\ BothLeft(q) => KnewThen(st, q, q.todo[1].row.knew)
                     => NameFits(st, R2, q)
<1>1. PICK n \in Nat \ DOMAIN R : /\ DOMAIN R2 = DOMAIN R \cup {n} /\ R2[n] = r
                                  /\ \A k \in DOMAIN R : R2[k] = R[k]
  BY DEF Adds
<1>2. Verdict(st, x) = "running" /\ x # InvalidXID
  BY VerdictOfXid
<1>3. \A k \in Class(R) : k \in Class(R2) /\ R2[k] = R[k]
  BY <1>1 DEF Class
<1>4. \A k \in Class(R2) : k \in Class(R) \/ (k = n /\ r.cat = "class")
  BY <1>1 DEF Class
<1>5. ASSUME Based(st, R) PROVE Based(st, R2)
  <2> SUFFICES ASSUME NEW i \in Class(R2), Verdict(st, R2[i].xmin) = "running",
                      R2[i].xmin # R2[i].creator
               PROVE  \E c \in Class(R2) : /\ R2[c].oid = R2[i].oid /\ R2[c].xmax = R2[i].xmin
                                           /\ Verdict(st, R2[c].xmin) = "committed"
    BY DEF Based
  <2>1. i \in Class(R)
    BY <1>1, <1>4
  <2> QED
    BY <1>3, <1>5, <2>1 DEF Based
<1>6. ASSUME NamesApart(st, R) PROVE NamesApart(st, R2)
  <2> SUFFICES ASSUME NEW i \in Class(R2), NEW j \in Class(R2), R2[i].oid # R2[j].oid,
                      R2[i].name = R2[j].name, R2[i].creator \in R2[j].knew
               PROVE  Parted(st, R2[i], R2[j])
    BY DEF NamesApart
  <2>1. CASE i \in Class(R) /\ j \in Class(R)
    BY <1>3, <1>6, <2>1 DEF NamesApart
  <2>2. CASE i \in Class(R) /\ j = n /\ r.cat = "class"
    BY <1>1, <1>3, <2>2 DEF NewKnows, DroppedBy, Parted
  <2>3. CASE i = n /\ j \in Class(R) /\ r.cat = "class"
    <3>1. \A y \in R[j].knew : y \in {InvalidXID, R[j].creator} \/ Verdict(st, y) = "committed"
      BY <2>3 DEF Sound, RowsFit, RowFits, Class
    <3>2. R[j].creator = x
      BY <1>1, <1>2, <1>3, <2>3, <3>1
    <3>3. DroppedBy(st, x, R[j])
      BY <1>1, <1>3, <2>3, <3>2 DEF NewKnows
    <3> QED
      BY <1>1, <1>3, <2>3, <3>3 DEF DroppedBy, Parted
  <2> QED
    BY <1>1, <1>4, <2>1, <2>2, <2>3
<1>7. ASSUME NEW q, NEW m, NEW K, q.tx # x, NewKnows(st, R, q.tx, m, K), KnewThen(st, q, K)
      PROVE  NewKnows(st, R2, q.tx, m, K)
  <2>1. x \notin K
    BY <1>2, <1>7 DEF KnewThen
  <2> QED
    BY <1>1, <1>3, <1>4, <1>7, <2>1 DEF NewKnows
<1>8. \A q : /\ NameFits(st, R, q) /\ q.tx # x
             /\ q.pc = "create" => KnewThen(st, q, q.new.knew)
             /\ BothLeft(q) => KnewThen(st, q, q.todo[1].row.knew)
             => NameFits(st, R2, q)
  BY <1>7 DEF NameFits
<1> QED
  BY <1>5, <1>6, <1>8

\* A stamp hits a row that is not dead, so it undoes nothing that keeps two
\* names apart, and the new version stands where the old one stood.
LEMMA NamesStamp ==
    ASSUME NEW st, NEW R \in Seq(Rows), NEW R2, NEW o \in Nat, Sound(st, R, o),
           NEW x \in Xids, st[x] = "running", NEW i, NEW more, Stamps(R, R2, x, i, more),
           Open(st, x, R[i])
    PROVE  /\ Based(st, R) => Based(st, R2)
           /\ NamesApart(st, R) => NamesApart(st, R2)
           /\ \A q : NameFits(st, R, q) /\ Verdict(st, q.tx) # "aborted" => NameFits(st, R2, q)
<1> USE Numbers
<1>1. Verdict(st, x) = "running" /\ x # InvalidXID /\ x \in Ids
  BY VerdictOfXid
<1>2. /\ i \in DOMAIN R /\ i \in DOMAIN R2 /\ R2[i].xmax = x
      /\ \A k \in more : R[i].cat = "class" /\ k \notin DOMAIN R /\ k \in DOMAIN R2
      /\ \A k \in DOMAIN R : k # i => R2[k] = R[k]
      /\ \A k \in DOMAIN R2 : k \in DOMAIN R \/ k \in more
  <2>1. \A k \in more : k \in DOMAIN R2
    BY <1>1, StampsAre
  <2>2. i \in DOMAIN R
    BY DEF Stamps
  <2>3. i \in DOMAIN R2 /\ R2[i].xmax = x
    BY <1>1, <2>2, StampsAre
  <2> QED
    BY <2>1, <2>2, <2>3 DEF Stamps
<1>3. /\ ~Dead(st, R[i]) /\ Verdict(st, R[i].xmax) = "aborted"
      /\ \A y : Verdict(st, y) # "aborted" => ~DroppedBy(st, y, R[i])
  BY OpenIsNotDead DEF Open
\* Row k comes from row m.
<1> DEFINE From(k, m) ==
             /\ m \in Class(R) /\ R2[k].oid = R[m].oid /\ R2[k].name = R[m].name
             /\ R2[k].creator = R[m].creator /\ R2[k].knew = R[m].knew
             /\ m # i => k = m /\ R2[k] = R[m]
             /\ k \in DOMAIN R => k = m /\ R2[k].xmin = R[m].xmin
             /\ k \notin DOMAIN R => m = i /\ R2[k].xmin = x
<1>4. ASSUME NEW k \in Class(R2) PROVE \E m : From(k, m)
  <2>1. k \in DOMAIN R2 /\ R2[k].cat = "class"
    BY DEF Class
  <2>2. CASE k \in DOMAIN R
    <3>1. /\ R2[k].cat = R[k].cat /\ R2[k].oid = R[k].oid /\ R2[k].name = R[k].name
          /\ R2[k].creator = R[k].creator /\ R2[k].knew = R[k].knew /\ R2[k].xmin = R[k].xmin
      BY <1>1, <2>1, <2>2, StampsAre
    <3>2. From(k, k)
      BY <1>2, <2>1, <2>2, <3>1 DEF Class
    <3> QED
      BY <3>2
  <2>3. CASE k \in more
    <3>1. k \notin DOMAIN R
      BY <1>2, <2>3
    <3>2. /\ R2[k].oid = R[i].oid /\ R2[k].name = R[i].name
          /\ R2[k].creator = R[i].creator /\ R2[k].knew = R[i].knew /\ R2[k].xmin = x
      BY <1>1, <2>1, <2>3, <3>1, StampsAre
    <3>3. From(k, i)
      BY <1>2, <2>3, <3>1, <3>2 DEF Class
    <3> QED
      BY <3>3
  <2> QED
    BY <1>2, <2>1, <2>2, <2>3
<1>5. \A c \in Class(R) : c # i => c \in Class(R2) /\ R2[c] = R[c]
  <2>1. \A c \in DOMAIN R : c \in DOMAIN R2
    BY <1>1, StampsAre
  <2> QED
    BY <1>2, <2>1 DEF Class
<1>6. ASSUME NEW c \in Class(R), Dead(st, R[c]) \/ Verdict(st, R[c].xmax) # "aborted"
      PROVE  c # i
  BY <1>3, <1>6
<1>7. ASSUME Based(st, R) PROVE Based(st, R2)
  <2> SUFFICES ASSUME NEW k \in Class(R2), Verdict(st, R2[k].xmin) = "running",
                      R2[k].xmin # R2[k].creator
               PROVE  \E c \in Class(R2) : /\ R2[c].oid = R2[k].oid /\ R2[c].xmax = R2[k].xmin
                                           /\ Verdict(st, R2[c].xmin) = "committed"
    BY DEF Based
  <2>1. PICK m : From(k, m)
    BY <1>4
  <2>2. ASSUME R[m].xmin = R2[k].xmin
        PROVE  \E c \in Class(R2) : /\ R2[c].oid = R2[k].oid /\ R2[c].xmax = R2[k].xmin
                                    /\ Verdict(st, R2[c].xmin) = "committed"
    <3>1. PICK c \in Class(R) : /\ R[c].oid = R[m].oid /\ R[c].xmax = R[m].xmin
                                /\ Verdict(st, R[c].xmin) = "committed"
      BY <1>7, <2>1, <2>2 DEF Based
    <3>2. c # i
      BY <1>6, <2>2, <3>1
    <3> QED
      BY <1>5, <2>1, <2>2, <3>1, <3>2
  <2>3. CASE k \in DOMAIN R
    BY <2>1, <2>2, <2>3
  <2>4. CASE k \notin DOMAIN R /\ R[i].xmin # x
    <3>1. m = i /\ R2[k].xmin = x /\ R2[k].oid = R[i].oid /\ i \in Class(R)
      BY <2>1, <2>4
    <3>2. R2[i].oid = R[i].oid /\ R2[i].xmin = R[i].xmin /\ i \in Class(R2)
      BY <1>1, <1>2, <3>1, StampsAre DEF Class
    <3>3. Verdict(st, R[i].xmin) = "committed"
      BY <2>4 DEF Open
    <3> QED
      BY <1>2, <3>1, <3>2, <3>3
  <2> QED
    BY <2>1, <2>2, <2>3, <2>4
<1>8. ASSUME NamesApart(st, R) PROVE NamesApart(st, R2)
  <2> SUFFICES ASSUME NEW a \in Class(R2), NEW b \in Class(R2), R2[a].oid # R2[b].oid,
                      R2[a].name = R2[b].name, R2[a].creator \in R2[b].knew
               PROVE  Parted(st, R2[a], R2[b])
    BY DEF NamesApart
  <2>1. PICK m : From(a, m)
    BY <1>4
  <2>2. PICK n : From(b, n)
    BY <1>4
  <2>3. Parted(st, R[m], R[n])
    BY <1>8, <2>1, <2>2 DEF NamesApart
  <2>4. ASSUME NEW c \in Class(R), Verdict(st, R[c].creator) = "aborted"
        PROVE  Dead(st, R[c])
    <3>1. RowFits(st, o, R[c])
      BY DEF Sound, RowsFit, Class
    <3> QED
      BY <2>4, <3>1 DEF RowFits, Dead
  <2>5. Dead(st, R[m]) => Dead(st, R2[a])
    BY <1>6, <2>1
  <2>6. Dead(st, R[n]) => Dead(st, R2[b])
    BY <1>6, <2>2
  <2>7. ASSUME R[m].xmax = R[n].creator, ~Dead(st, R[n]) PROVE R2[a].xmax = R2[b].creator
    <3>1. m # i
      BY <1>6, <2>1, <2>2, <2>4, <2>7
    <3> QED
      BY <2>1, <2>2, <2>7, <3>1
  <2>8. ASSUME R[n].xmax = R[m].creator, ~Dead(st, R[m]) PROVE R2[b].xmax = R2[a].creator
    <3>1. n # i
      BY <1>6, <2>1, <2>2, <2>4, <2>8
    <3> QED
      BY <2>1, <2>2, <2>8, <3>1
  <2> QED
    BY <2>3, <2>5, <2>6, <2>7, <2>8 DEF Parted
<1>9. ASSUME NEW y, NEW n, NEW K, NewKnows(st, R, y, n, K), Verdict(st, y) # "aborted"
      PROVE  NewKnows(st, R2, y, n, K)
  <2> SUFFICES ASSUME NEW k \in Class(R2), R2[k].name = n, R2[k].creator \in K
               PROVE  DroppedBy(st, y, R2[k])
    BY <1>9 DEF NewKnows
  <2>1. PICK m : From(k, m)
    BY <1>4
  <2>2. DroppedBy(st, y, R[m])
    BY <1>9, <2>1 DEF NewKnows
  <2>3. m # i
    BY <1>3, <1>9, <2>2
  <2> QED
    BY <2>1, <2>2, <2>3
<1>10. \A q : NameFits(st, R, q) /\ Verdict(st, q.tx) # "aborted" => NameFits(st, R2, q)
  BY <1>9 DEF NameFits
<1> QED
  BY <1>7, <1>8, <1>10

\* Who finds a name free has dropped every relation of that name that it
\* knew of, or somebody has: a version that is still being written stands for
\* one it would have seen.
LEMMA FreeNameIsKnown ==
    ASSUME RowsInv, NEW s \in Sessions, ss[s].tx # InvalidXID, Based(status, rows), NEW n, NEW K,
           ByName(s, n) = {}, ss[s].tx \in K,
           \A y \in K : y \in {InvalidXID, ss[s].tx} \/ Verdict(status, y) = "committed"
    PROVE  NewKnows(status, rows, ss[s].tx, n, K)
<1> DEFINE x == ss[s].tx
<1>1. x # InvalidXID
  OBVIOUS
<1> HIDE DEF x
<1> SUFFICES ASSUME NEW i \in Class(rows), rows[i].name = n, rows[i].creator \in K
             PROVE  DroppedBy(status, x, rows[i])
  BY DEF NewKnows, x
<1>2. \A k \in Class(rows) : rows[k].name = n => ~Sees(status, x, rows[k])
  BY SeenIs DEF ByName, Scan, Class, x
<1>3. RowFits(status, nextOid, rows[i]) /\ rows[i] \in Rows /\ i \in DOMAIN rows
  BY RowIs DEF Class
<1>4. Verdict(status, rows[i].xmin) \in {"running", "committed", "aborted"}
  <2>1. Verdict(status, rows[i].xmin) \in Statuses
    BY <1>3, VerdictTypes DEF RowsInv, TypeInv, CoreTypes, Rows
  <2> QED
    BY <1>3, <2>1 DEF Statuses, RowFits, Known
<1>5. CASE rows[i].xmin = x \/ Verdict(status, rows[i].xmin) = "committed"
  BY <1>2, <1>5 DEF Sees, DroppedBy, Dead
<1>6. CASE Verdict(status, rows[i].xmin) = "running" /\ rows[i].xmin # x
  <2>1. rows[i].xmin # rows[i].creator
    BY <1>3, <1>6 DEF RowFits, x
  <2>2. PICK c \in Class(rows) : /\ rows[c].oid = rows[i].oid /\ rows[c].xmax = rows[i].xmin
                                 /\ Verdict(status, rows[c].xmin) = "committed"
    BY <1>6, <2>1 DEF Based
  <2>3. rows[c].name = n
    BY <2>2 DEF RowsInv, Core, Sound, PairsFit, PairFits, Class
  <2>4. Sees(status, x, rows[c])
    BY <1>6, <2>2 DEF Sees
  <2> QED
    BY <1>2, <2>3, <2>4
<1>7. CASE Verdict(status, rows[i].xmin) = "aborted"
  BY <1>7 DEF DroppedBy, Dead
<1> QED
  BY <1>4, <1>5, <1>6, <1>7

\* What a step of s keeps for the others, and brings about for itself.
NamesKept(s) ==
    /\ Based(status, rows) => Based(status', rows')
    /\ NamesApart(status, rows) => NamesApart(status', rows')
    /\ \A t \in Sessions \ {s} : NameFits(status, rows, ss[t]) => NameFits(status', rows', ss[t])

LEMMA NamesStandStill == \A s : rows' = rows /\ status' = status => NamesKept(s)
  BY DEF NamesKept, NameFits, NewKnows, BothLeft, Based, NamesApart, Parted, Class, Dead, DroppedBy

\* Only Exists and Create bring a session between the check and the row.
LEMMA NotBetween ==
    ASSUME NEW st, NEW R, NEW q, q.pc # "create",
           q.pc # "write" \/ Planned(R, q.todo) \/ q.todo = <<>> \/ OneLeft(R, nextOid, q),
           q.todo \in Seq(Tasks)
    PROVE  NameFits(st, R, q)
<1>1. Planned(R, q.todo) => ~BothLeft(q)
  BY LenProperties DEF Planned, BothLeft
<1>2. q.todo = <<>> \/ OneLeft(R, nextOid, q) => ~BothLeft(q)
  BY EmptyTypes DEF OneLeft, BothLeft
<1>3. q.pc # "write" => ~BothLeft(q)
  BY DEF BothLeft
<1> QED
  BY <1>1, <1>2, <1>3 DEF NameFits

LEMMA NoneToInsert ==
    ASSUME NEW st, NEW R, NEW q \in States, q.pc # "create", InsertOids(q) = {}
    PROVE  NameFits(st, R, q)
<1>1. BothLeft(q) => 1 \in {k \in DOMAIN q.todo : q.todo[k].do = "insert"} /\ q.pc = "write"
  BY LenProperties DEF BothLeft, States
<1>2. ~BothLeft(q)
  BY <1>1 DEF InsertOids
<1> QED
  BY <1>2 DEF NameFits

LEMMA CalmNames ==
    ASSUME NEW st, NEW R, NEW q \in States, Calm(q)
    PROVE  NameFits(st, R, q)
  BY DEF NameFits, BothLeft, Calm

\* A check of a name is remembered as it was.
LEMMA CheckIsKnown ==
    ASSUME RowsInv, NEW t \in Sessions
    PROVE  /\ ss[t].pc = "create" => KnewThen(status, ss[t], ss[t].new.knew)
           /\ BothLeft(ss[t]) => /\ TwoLeft(status, rows, nextOid, ss[t])
                                 /\ KnewThen(status, ss[t], ss[t].todo[1].row.knew)
           /\ ss[t].tx \in Xids => Verdict(status, ss[t].tx) = "running"
           /\ ss[t].pc = "create" \/ BothLeft(ss[t]) => ss[t].tx \in Xids
<1>1. Fits(status, rows, nextOid, ss[t]) /\ ss[t] \in States
  BY TxIs DEF RowsInv, Core, SessionsFit
<1>2. BothLeft(ss[t]) => TwoLeft(status, rows, nextOid, ss[t])
  <2>1. BothLeft(ss[t]) => ~Planned(rows, ss[t].todo) /\ ~OneLeft(rows, nextOid, ss[t])
    BY <1>1, LenProperties DEF BothLeft, Planned, OneLeft, States
  <2> QED
    BY <1>1, <2>1 DEF Fits, BothLeft
<1>3. ss[t].pc = "create" \/ BothLeft(ss[t]) => ss[t].tx \in Xids
  BY BusyHasTx, TxIs DEF BothLeft
<1>4. ss[t].tx \in Xids => Verdict(status, ss[t].tx) = "running"
  BY TxIs, VerdictOfXid
<1> QED
  BY <1>1, <1>2, <1>3, <1>4 DEF Fits, TwoLeft

LEMMA NamesOfReads ==
    ASSUME RowsInv, NEW s \in Sessions, Reads(s) \/ Methods(s)
    PROVE  NamesKept(s) /\ NameFits(status', rows', ss'[s]) /\ Becomes(s, ss'[s])
<1>1. CASE Reads(s)
  BY <1>1, ReadsAre, CalmNames, NamesStandStill DEF Still, Becomes
<1>2. CASE Methods(s)
  <2>1. Still /\ Checks(s)
    BY <1>2, MethodsAre
  <2>2. ss'[s].pc # "create"
    BY <1>2, CreateTableIs, CreateIndexIs, DropTableIs, DropIndexIs, UpdateStatsIs, Zenon DEF Methods
  <2> QED
    BY <2>1, <2>2, NoneToInsert, NamesStandStill DEF Still, Checks, Becomes
<1> QED
  BY <1>1, <1>2

LEMMA NamesOfExists ==
    ASSUME RowsInv, NamesInv, NEW s \in Sessions, Exists(s)
    PROVE  NamesKept(s) /\ NameFits(status', rows', ss'[s])
<1>1. /\ Checks(s) /\ Still
      /\ \/ ss'[s].pc = "failed"
         \/ /\ Taken(s) = {} /\ ss'[s].pc = "create" /\ ss'[s].new.name = ss[s].new.name
            /\ ss'[s].new.knew = {x \in Xids : status[x] = "committed"} \cup
                                {InvalidXID, BootstrapXID, FrozenXID, ss[s].tx}
  <2>1. Checks(s) => Still
    BY DEF Checks
  <2> QED
    BY <2>1, ExistsIs, Zenon
<1>2. NamesKept(s)
  BY <1>1, NamesStandStill DEF Still
<1>3. CASE ss'[s].pc = "failed"
  BY <1>1, <1>2, <1>3, CalmNames DEF Checks, Becomes, Calm
<1>4. CASE Taken(s) = {} /\ ss'[s].pc = "create"
  <2> DEFINE K == {x \in Xids : status[x] = "committed"} \cup
                     {InvalidXID, BootstrapXID, FrozenXID, ss[s].tx}
             n == ss[s].new.name
  <2>1. ss[s].tx # InvalidXID /\ ss'[s].tx = ss[s].tx /\ Based(status, rows)
    BY <1>1 DEF Checks, Becomes, NamesInv
  <2>2. \A y \in K : y \in {InvalidXID, ss[s].tx} \/ Verdict(status, y) = "committed"
    BY VerdictOfXid DEF Verdict, BootstrapXID, FrozenXID, FirstNormalXID, InvalidXID
  <2>3. ss[s].tx \in K /\ ByName(s, n) = {}
    BY <1>4 DEF Taken
  <2>4. ss'[s].pc = "create" /\ ss'[s].new.name = n /\ ss'[s].new.knew = K
    BY <1>1, <1>4
  <2> HIDE DEF K, n
  <2>5. NewKnows(status, rows, ss[s].tx, n, K)
    BY <2>1, <2>2, <2>3, FreeNameIsKnown
  <2> QED
    BY <1>1, <1>2, <2>1, <2>4, <2>5 DEF Still, NameFits, BothLeft
<1> QED
  BY <1>1, <1>2, <1>3, <1>4

LEMMA NamesOfInsert ==
    ASSUME RowsInv, NamesInv, NEW s \in Sessions, InsertRow(s)
    PROVE  NamesKept(s) /\ NameFits(status', rows', ss'[s])
<1> DEFINE r == Now(s).row
           x == ss[s].tx
<1>1. /\ Adds(rows, rows', r) /\ status' = status /\ nextOid' = nextOid
      /\ Popped(s)
      /\ ss'[s].todo = <<>> \/ OneLeft(rows', nextOid, ss'[s])
  BY InsertRowIs DEF Popped
<1>2. /\ r.creator = x /\ r.xmin = x /\ x \in Xids /\ status[x] = "running" /\ x # InvalidXID
      /\ r = ss[s].todo[1].row /\ ss[s].pc = "write" /\ ss[s].todo[1].do = "insert"
      /\ TwoLeft(status, rows, nextOid, ss[s]) \/ OneLeft(rows, nextOid, ss[s])
  <2>1. Doing(s, "insert")
    BY DEF InsertRow
  <2> QED
    BY <2>1, InsertIs, DoingIs
<1> HIDE DEF r
<1>3. r.cat = "class" => NewKnows(status, rows, x, r.name, r.knew)
  <2>1. r.cat = "class" => ~OneLeft(rows, nextOid, ss[s])
    BY <1>2 DEF OneLeft, NewSub
  <2>2. r.cat = "class" => BothLeft(ss[s])
    BY <1>2, <2>1 DEF TwoLeft, BothLeft
  <2> QED
    BY <1>2, <2>2 DEF NamesInv, NameFits
<1>4. Sound(status, rows, nextOid) /\ nextOid \in Nat
  BY DEF RowsInv, Core, CoreTypes
<1>5. /\ Based(status, rows) => Based(status, rows')
      /\ NamesApart(status, rows) => NamesApart(status, rows')
      /\ \A q : /\ NameFits(status, rows, q) /\ q.tx # x
                /\ q.pc = "create" => KnewThen(status, q, q.new.knew)
                /\ BothLeft(q) => KnewThen(status, q, q.todo[1].row.knew)
                => NameFits(status, rows', q)
  <2>1. /\ Sound(status, rows, nextOid) /\ nextOid \in Nat /\ Adds(rows, rows', r)
        /\ x \in Xids /\ status[x] = "running" /\ r.xmin = x /\ r.creator = x
        /\ r.cat = "class" => NewKnows(status, rows, x, r.name, r.knew)
    BY <1>1, <1>2, <1>3, <1>4
  <2> HIDE DEF x
  <2> QED
    BY ONLY <2>1, NamesAdd
<1>6. ASSUME NEW t \in Sessions \ {s}, NameFits(status, rows, ss[t])
      PROVE  NameFits(status, rows', ss[t])
  <2>1. Apart /\ t \in Sessions /\ s # t
    BY <1>6 DEF RowsInv, Core
  <2>2. ss[t].tx # x
    BY <1>2, <2>1 DEF Apart
  <2> QED
    BY <1>5, <1>6, <2>1, <2>2, CheckIsKnown
<1>7. ss'[s].pc = "write" /\ ss'[s].todo \in Seq(Tasks)
  BY InsertRowIs DEF Popped, Becomes, States
<1> QED
  BY <1>1, <1>5, <1>6, <1>7, NotBetween DEF NamesKept

LEMMA NamesOfWrite ==
    ASSUME RowsInv, NamesInv, NEW s \in Sessions, WriteRow(s)
    PROVE  NamesKept(s) /\ NameFits(status', rows', ss'[s])
<1> DEFINE x == ss[s].tx
           i == Now(s).tid
           more == IF Now(s).do = "delete" THEN {} ELSE {Len(rows) + 1}
<1>1. /\ Stamps(rows, rows', x, i, more) /\ x \in Xids /\ status[x] = "running"
      /\ Open(status, x, rows[i]) /\ status' = status
      /\ Planned(rows', ss'[s].todo) /\ Popped(s)
  BY WriteRowIs
<1>2. Sound(status, rows, nextOid) /\ nextOid \in Nat /\ rows \in Seq(Rows)
  BY DEF RowsInv, Core, CoreTypes
<1> HIDE DEF x, i, more
<1>3. /\ Based(status, rows) => Based(status, rows')
      /\ NamesApart(status, rows) => NamesApart(status, rows')
      /\ \A q : NameFits(status, rows, q) /\ Verdict(status, q.tx) # "aborted"
                   => NameFits(status, rows', q)
  BY <1>1, <1>2, NamesStamp
<1>4. ASSUME NEW t \in Sessions \ {s}, NameFits(status, rows, ss[t])
      PROVE  NameFits(status, rows', ss[t])
  <2>1. CASE ss[t].pc = "create" \/ BothLeft(ss[t])
    BY <1>3, <1>4, <2>1, CheckIsKnown
  <2>2. CASE ~(ss[t].pc = "create" \/ BothLeft(ss[t]))
    BY <2>2 DEF NameFits
  <2> QED
    BY <2>1, <2>2
<1>5. ss'[s].pc = "write" /\ ss'[s].todo \in Seq(Tasks)
  BY <1>1 DEF Popped, Becomes, States
<1> QED
  BY <1>1, <1>3, <1>4, <1>5, NotBetween DEF NamesKept

LEMMA NamesOfSteps ==
    ASSUME RowsInv, NamesInv, NEW s \in Sessions, Steps(s)
    PROVE  NamesKept(s) /\ NameFits(status', rows', ss'[s]) /\ Becomes(s, ss'[s])
<1> SUFFICES NamesKept(s) /\ NameFits(status', rows', ss'[s])
  BY StepsAre
<1>1. ss[s] \in States /\ ss'[s] \in States
  BY TxIs, StepsAre DEF Becomes
<1>2. CASE Create(s)
  <2>1. /\ ss'[s].tx = ss[s].tx /\ ss'[s].pc = "write" /\ ss[s].pc = "create"
        /\ ss'[s].todo[1].row.name = ss[s].new.name
        /\ ss'[s].todo[1].row.knew = ss[s].new.knew
        /\ rows' = rows /\ status' = status
    BY <1>2, CreateIs DEF Becomes
  <2>2. NewKnows(status, rows, ss[s].tx, ss[s].new.name, ss[s].new.knew)
    BY <2>1 DEF NamesInv, NameFits
  <2> QED
    BY <2>1, <2>2, NamesStandStill DEF NameFits
<1>3. CASE FindIndexes(s) \/ FindAttributes(s) \/ FindClass(s) \/ FindIndexRow(s) \/ RowFails(s)
  <2>1. /\ Still /\ InsertOids(ss'[s]) = {} /\ ss'[s].pc \in {"write", "failed"}
    <3>1. /\ Still
          /\ GivesUp(s) \/ \E more, gone : GoesOnWith(s, more, gone)
      BY <1>3, FindIndexesIs, FindAttributesIs, FindClassIs, FindIndexRowIs, RowFailsIs, Zenon
    <3> QED
      BY <3>1 DEF GivesUp, GoesOnWith
  <2> QED
    BY <1>1, <2>1, NoneToInsert, NamesStandStill DEF Still
<1>4. CASE RowWaits(s) \/ Wake(s)
  <2>1. /\ ss'[s].tx = ss[s].tx /\ ss'[s].pc = ss[s].pc /\ ss'[s].todo = ss[s].todo
        /\ ss[s].pc = "create" => ss'[s].new = ss[s].new
        /\ Still
    <3>1. RowWaits(s) => ss[s].pc = "write"
      BY DEF RowWaits, Doing, At
    <3> QED
      BY <1>4, <3>1, RowWaitsIs, WakeIs DEF Becomes
  <2>2. NameFits(status, rows, ss[s])
    BY DEF NamesInv
  <2> QED
    BY <2>1, <2>2, NamesStandStill DEF Still, NameFits, BothLeft
<1> QED
  BY <1>2, <1>3, <1>4, NamesOfExists, NamesOfInsert, NamesOfWrite DEF Steps

LEMMA NamesOfDrops ==
    ASSUME RowsInv, NamesInv, NEW s \in Sessions, Drops(s)
    PROVE  NamesKept(s) /\ NameFits(status', rows', ss'[s])
<1>1. /\ rows' = rows /\ Moves(status, status') /\ ss'[s] \in States
      /\ Calm(ss'[s])
  <2>1. CASE StartStatement(s)
    BY <2>1, StartStatementIs
  <2>2. CASE Done(s)
    BY <2>2, DoneIs, StandingStill DEF Becomes
  <2>3. ASSUME NEW v \in {"committed", "aborted"}, End(s, v)
        PROVE  /\ rows' = rows /\ Moves(status, status') /\ ss'[s] \in States
               /\ Calm(ss'[s])
    <3>1. rows' = rows /\ Moves(status, status') /\ ss'[s] = Idle
      BY <2>3, EndIs
    <3>2. Calm(Idle)
      BY DEF Calm, Idle
    <3> QED
      BY <3>1, <3>2, EmptyTypes
  <2> QED
    BY <2>1, <2>2, <2>3 DEF Drops
<1>2. Sound(status, rows, nextOid) /\ nextOid \in Nat /\ rows \in Seq(Rows)
  BY DEF RowsInv, Core, CoreTypes
<1>3. NamesKept(s)
  BY <1>1, <1>2, NamesMove DEF NamesKept
<1> QED
  BY <1>1, <1>3, CalmNames

LEMMA NamesInit == Init => NamesInv
<1> SUFFICES ASSUME Init PROVE NamesInv
  OBVIOUS
<1>1. RowsInv
  BY RowsInit
<1>2. \A i \in DOMAIN rows : rows[i].xmin = rows[i].creator /\ rows[i].knew = {}
  BY InitialRows
<1>3. \A s \in Sessions : NameFits(status, rows, ss[s])
  <2>1. \A s \in Sessions : ss[s] = Idle
    BY DEF Init
  <2>2. Calm(Idle)
    BY DEF Calm, Idle
  <2> QED
    BY <2>1, <2>2, CalmNames, EmptyTypes
<1> QED
  BY <1>2, <1>3 DEF NamesInv, Based, NamesApart, Class

LEMMA NamesNext == RowsInv /\ NamesInv /\ [Next]_vars => NamesInv'
<1> SUFFICES ASSUME RowsInv, NamesInv, [Next]_vars PROVE NamesInv'
  OBVIOUS
<1>1. CASE UNCHANGED vars
  BY <1>1 DEF vars, NamesInv
<1>2. ASSUME NEW s \in Sessions, NamesKept(s), NameFits(status', rows', ss'[s]),
             \A t \in Sessions \ {s} : ss'[t] = ss[t]
      PROVE  NamesInv'
  BY <1>2 DEF NamesKept, NamesInv
<1>3. ASSUME NEW s \in Sessions, Reads(s) \/ Methods(s) \/ Steps(s)
      PROVE  NamesInv'
  <2>1. NamesKept(s) /\ NameFits(status', rows', ss'[s]) /\ Becomes(s, ss'[s])
    BY <1>3, NamesOfReads, NamesOfSteps
  <2>2. \A t \in Sessions \ {s} : ss'[t] = ss[t]
    BY <2>1 DEF Becomes, RowsInv, TypeInv, CoreTypes
  <2> QED
    BY <1>2, <2>1, <2>2
<1>4. ASSUME NEW s \in Sessions, Drops(s)
      PROVE  NamesInv'
  BY <1>2, <1>4, NamesOfDrops, DropsAre
<1> QED
  BY <1>1, <1>3, <1>4 DEF Next

LEMMA NamesAlways == Spec => []NamesInv
<1>1. RowsInv /\ NamesInv /\ [Next]_vars => NamesInv'
  BY NamesNext
<1> QED
  BY NamesInit, RowsAlways, <1>1, PTL DEF Spec

LEMMA NamesCollide == RowsInv /\ NamesInv => NamesCollideOnlyInRaces
<1> SUFFICES ASSUME RowsInv, NamesInv PROVE NamesCollideOnlyInRaces
  OBVIOUS
<1> DEFINE L == {k \in Live : rows[k].cat = "class"}
<1>1. ASSUME NEW k \in L
      PROVE  /\ k \in Class(rows) /\ RowFits(status, nextOid, rows[k])
             /\ Verdict(status, rows[k].xmin) = "committed" /\ ~Dead(status, rows[k])
             /\ Verdict(status, rows[k].creator) = "committed"
  <2>1. /\ k \in Class(rows) /\ Verdict(status, rows[k].xmin) = "committed"
        /\ rows[k].xmax = 0 \/ Verdict(status, rows[k].xmax) # "committed"
    BY VerdictIs DEF Live, Class
  <2>2. RowFits(status, nextOid, rows[k])
    BY <2>1, RowIs DEF Class
  <2> QED
    BY <2>1, <2>2, Zero DEF Dead, RowFits, InvalidXID
<1> HIDE DEF L
<1>2. ASSUME NEW i \in L, NEW j \in L, i # j, rows[i].name = rows[j].name,
             rows[i].creator \in rows[j].knew
      PROVE  FALSE
  <2>1. \A y : y \in {rows[i].creator, rows[j].creator, rows[i].xmin, rows[j].xmin}
                 => rows[i].xmax # y /\ rows[j].xmax # y
    BY <1>1, <1>2 DEF Dead
  <2>2. rows[i].oid # rows[j].oid
    BY <1>1, <1>2, <2>1 DEF RowsInv, Core, Sound, OneIsSeen, Excludes
  <2>3. Parted(status, rows[i], rows[j])
    BY <1>1, <1>2, <2>2 DEF NamesInv, NamesApart
  <2> QED
    BY <1>1, <1>2, <2>1, <2>3 DEF Parted
<1> QED
  BY <1>2 DEF NamesCollideOnlyInRaces, L

\* Two live relations of one name were both being created before either was
\* committed, and two relations cannot come to share a name otherwise,
\* whatever the sessions that dropped and created them met on the way.
THEOREM NamesOnlyRace == Spec => []NamesCollideOnlyInRaces
<1>1. RowsInv /\ NamesInv => NamesCollideOnlyInRaces
  BY NamesCollide
<1> QED
  BY RowsAlways, NamesAlways, <1>1, PTL

-----------------------------------------------------------------------------
(* All or nothing.  The two rows of a relation are written in two steps;   *)
(* in between, they are the business of one session.                       *)

\* Rows that make a relation together: its pg_class row and the other one.
Mates(r, q) == r.oid = q.oid /\ ~((r.cat = "class") <=> (q.cat = "class"))

\* Whatever x sees outside the relations busy, it sees all of.
Whole(st, R, x, busy) == \A i \in DOMAIN R : Sees(st, x, R[i]) /\ R[i].oid \notin busy =>
    \E j \in DOMAIN R : Sees(st, x, R[j]) /\ Mates(R[i], R[j])

\* The other row of a relation is deleted after every version of its pg_class row.
Ordered(st, R) == \A k \in Sub(R) : \A i \in Class(R) :
    R[k].oid = R[i].oid /\ Verdict(st, R[k].xmax) # "aborted" => DroppedBy(st, R[k].xmax, R[i])

ClassDone(st, R, x, o) == \A i \in Class(R) : R[i].oid = o => DroppedBy(st, x, R[i])
SubDone(st, R, x, o)   == \A i \in Sub(R) : R[i].oid = o => DroppedBy(st, x, R[i])

\* Transaction x has seen relation o.
Held(st, R, x, o) ==
    \E i \in Of(R, o) : R[i].creator = x \/ Verdict(st, R[i].creator) = "committed"

\* Task t deletes the pg_class row of o, its other row, or finds it first.
CoversClass(R, t, o) == \/ t.do \in {"class", "row"} /\ t.oid = o
                        \/ t.do = "delete" /\ t.tid \in Class(R) /\ R[t.tid].oid = o
CoversSub(R, t, o)   == \/ t.do \in {"attrs", "row"} /\ t.oid = o
                        \/ t.do = "delete" /\ t.tid \in Sub(R) /\ R[t.tid].oid = o

\* A task of a session that drops the relations gone.
TaskFits(R, gone, t) ==
    /\ t.do = "delete" => R[t.tid].oid \in gone
    /\ t.do \in {"attrs", "class", "row"} => t.oid \in gone
    /\ t.do = "row" => R[t.tid].oid = t.oid
    /\ t.do = "attrs" => IsTable(R, t.oid)

ClassFirst(st, R, x, todo, o) == \A k \in DOMAIN todo : CoversSub(R, todo[k], o) =>
    ClassDone(st, R, x, o) \/ \E m \in 1 .. k : CoversClass(R, todo[m], o)
ClassLeft(st, R, x, todo, o) ==
    ClassDone(st, R, x, o) \/ \E k \in DOMAIN todo : CoversClass(R, todo[k], o)
SubLeft(st, R, x, todo, o) ==
    SubDone(st, R, x, o) \/ \E k \in DOMAIN todo : CoversSub(R, todo[k], o)

\* What a session still has to do deletes the rest of what it drops.
Plan(st, R, q) ==
    /\ \A k \in DOMAIN q.todo : TaskFits(R, q.gone, q.todo[k])
    /\ \A k \in DOMAIN q.todo : q.todo[k].do = "update" => q.gone = {} /\ Len(q.todo) = 1
    /\ \A o \in q.gone : /\ Held(st, R, q.tx, o)
                         /\ ClassFirst(st, R, q.tx, q.todo, o)
                         /\ ClassLeft(st, R, q.tx, q.todo, o)
                         /\ SubLeft(st, R, q.tx, q.todo, o)

Busy(q) == q.gone \cup InsertOids(q)
DropFits(st, R, q) ==
    /\ q.pc = "write" => Plan(st, R, q)
    /\ q.tx # InvalidXID /\ q.pc # "failed" => Whole(st, R, q.tx, Busy(q))

WholeInv ==
    /\ Ordered(status, rows)
    /\ Whole(status, rows, InvalidXID, {})
    /\ \A s \in Sessions : DropFits(status, rows, ss[s])

\* The files: one for every relation that is not dead, and a note of each
\* that goes with the verdict of the transaction x.
FilesFit(st, R, F) == \A i \in DOMAIN R : R[i].oid \notin F => Dead(st, R[i])
NoteFits(st, R, o, F, x, p) ==
    /\ p.oid < o
    /\ p.atCommit => /\ Held(st, R, x, p.oid)
                     /\ ClassDone(st, R, x, p.oid) /\ SubDone(st, R, x, p.oid)
    /\ ~p.atCommit => p.oid \in F /\ \A i \in Of(R, p.oid) : R[i].creator = x

\* The notes P of session q.
NotesFit(st, R, o, F, q, P) ==
    /\ q.tx = InvalidXID => P = {}
    /\ \A p \in P : NoteFits(st, R, o, F, q.tx, p)
    /\ \A a \in InsertOids(q) : [oid |-> a, atCommit |-> FALSE] \in P

FilesInv ==
    /\ FilesFit(status, rows, files)
    /\ \A s \in Sessions : NotesFit(status, rows, nextOid, files, ss[s], pending[s])
    /\ \A s, t \in Sessions : s # t => \A p \in pending[s], q \in pending[t] :
          p.oid = q.oid => p.atCommit \/ q.atCommit

\* What x sees of a table another writes to stays what it was.
LEMMA WholeHidden ==
    ASSUME NEW st, NEW R, NEW st2, NEW R2, NEW y, NEW busy, Whole(st, R, y, busy),
           \A k \in DOMAIN R : /\ k \in DOMAIN R2
                               /\ R2[k].oid = R[k].oid /\ R2[k].cat = R[k].cat
                               /\ Sees(st2, y, R2[k]) <=> Sees(st, y, R[k]),
           \A k \in DOMAIN R2 \ DOMAIN R : ~Sees(st2, y, R2[k])
    PROVE  Whole(st2, R2, y, busy)
<1> SUFFICES ASSUME NEW i \in DOMAIN R2, Sees(st2, y, R2[i]), R2[i].oid \notin busy
             PROVE  \E j \in DOMAIN R2 : Sees(st2, y, R2[j]) /\ Mates(R2[i], R2[j])
  BY DEF Whole
<1>1. i \in DOMAIN R /\ Sees(st, y, R[i]) /\ R[i].oid \notin busy
  OBVIOUS
<1>2. PICK j \in DOMAIN R : Sees(st, y, R[j]) /\ Mates(R[i], R[j])
  BY <1>1 DEF Whole
<1>3. Sees(st2, y, R2[j]) /\ Mates(R2[i], R2[j])
  BY <1>1, <1>2 DEF Mates
<1> QED
  BY <1>2, <1>3

LEMMA WholeLess ==
    ASSUME NEW st, NEW R, NEW x, NEW busy, Whole(st, R, x, busy), NEW more, busy \subseteq more
    PROVE  Whole(st, R, x, more)
  BY DEF Whole

\* A row inserted.
LEMMA WholeAdds ==
    ASSUME NEW st, NEW R, NEW R2, NEW r, Adds(R, R2, r), NEW x \in Xids, st[x] = "running",
           r.xmin = x, NEW y, NEW busy, Whole(st, R, y, busy), y # x \/ r.oid \in busy
    PROVE  Whole(st, R2, y, busy)
<1>1. PICK n \in Nat \ DOMAIN R : /\ DOMAIN R2 = DOMAIN R \cup {n} /\ R2[n] = r
                                  /\ \A k \in DOMAIN R : R2[k] = R[k]
  BY DEF Adds
<1>2. Verdict(st, x) = "running"
  BY VerdictOfXid
<1>3. CASE y # x
  <2>1. ~Sees(st, y, r)
    BY <1>2, <1>3 DEF Sees
  <2> QED
    BY <1>1, <2>1, WholeHidden
<1>4. CASE r.oid \in busy
  BY <1>1, <1>4 DEF Whole
<1> QED
  BY <1>3, <1>4

\* The second row of a new relation, seen by the transaction that creates it.
LEMMA WholeCloses ==
    ASSUME NEW st, NEW R, NEW R2, NEW b, Adds(R, R2, b), NEW q,
           NewSub(R, q, b), NEW c \in DOMAIN R, Of(R, b.oid) = {c}, NewPair(q, R[c], b),
           Whole(st, R, q.tx, {b.oid})
    PROVE  Whole(st, R2, q.tx, {})
<1>1. PICK n \in Nat \ DOMAIN R : /\ DOMAIN R2 = DOMAIN R \cup {n} /\ R2[n] = b
                                  /\ \A k \in DOMAIN R : R2[k] = R[k]
  BY DEF Adds
<1>2. Sees(st, q.tx, b) /\ Sees(st, q.tx, R[c]) /\ Mates(b, R[c]) /\ Mates(R[c], b)
  BY DEF NewSub, NewPair, NewClass, Sees, Mates
<1> SUFFICES ASSUME NEW i \in DOMAIN R2, Sees(st, q.tx, R2[i])
             PROVE  \E j \in DOMAIN R2 : Sees(st, q.tx, R2[j]) /\ Mates(R2[i], R2[j])
  BY DEF Whole
<1>3. CASE i = n
  BY <1>1, <1>2, <1>3
<1>4. CASE i = c
  BY <1>1, <1>2, <1>4
<1>5. CASE i # n /\ i # c
  <2>1. i \in DOMAIN R /\ R2[i] = R[i] /\ R[i].oid # b.oid
    BY <1>1, <1>5 DEF Of
  <2> QED
    BY <1>1, <2>1 DEF Whole
<1> QED
  BY <1>3, <1>4, <1>5

\* A row stamped, and its next version: others see what they saw.
LEMMA WholeToOthers ==
    ASSUME NEW st, NEW R \in Seq(Rows), NEW R2, NEW x \in Xids, st[x] = "running",
           NEW i, NEW more, Stamps(R, R2, x, i, more), Open(st, x, R[i]),
           NEW y, y # x, y = InvalidXID \/ Verdict(st, y) # "aborted",
           NEW busy, Whole(st, R, y, busy)
    PROVE  Whole(st, R2, y, busy)
<1>1. Verdict(st, x) = "running" /\ x # InvalidXID /\ x \in Ids
  BY VerdictOfXid, Numbers
<1>2. /\ \A k \in DOMAIN R : /\ k \in DOMAIN R2
                             /\ R2[k].xmin = R[k].xmin
                             /\ R2[k].xmax = IF k = i THEN x ELSE R[k].xmax
                             /\ R2[k].oid = R[k].oid /\ R2[k].cat = R[k].cat
      /\ \A k \in DOMAIN R2 \ DOMAIN R : R2[k].xmin = x
  BY <1>1, StampsAre
<1>3. Verdict(st, R[i].xmax) = "aborted" /\ (R[i].xmax = InvalidXID \/ R[i].xmax # y)
  BY DEF Open
<1>4. \A k \in DOMAIN R : Sees(st, y, R2[k]) <=> Sees(st, y, R[k])
  BY <1>1, <1>2, <1>3 DEF Sees
<1>5. \A k \in DOMAIN R2 \ DOMAIN R : ~Sees(st, y, R2[k])
  BY <1>1, <1>2 DEF Sees
<1> QED
  BY <1>2, <1>4, <1>5, WholeHidden

\* Who writes it sees a relation change only as long as it is busy with it,
\* or exchange one version of its pg_class row for another.
LEMMA WholeStamps ==
    ASSUME NEW st, NEW R \in Seq(Rows), NEW R2, NEW x \in Xids, st[x] = "running",
           NEW i, NEW more, Stamps(R, R2, x, i, more), Open(st, x, R[i]),
           NEW busy, Whole(st, R, x, busy), R[i].oid \in busy \/ more # {}
    PROVE  Whole(st, R2, x, busy)
<1>1. Verdict(st, x) = "running" /\ x # InvalidXID /\ x \in Ids
  BY VerdictOfXid, Numbers
<1>2. /\ i \in DOMAIN R /\ Sees(st, x, R[i])
      /\ \A k \in DOMAIN R : k # i => k \in DOMAIN R2 /\ R2[k] = R[k]
      /\ \A k \in more : R[i].cat = "class"
  <2>1. Sees(st, x, R[i])
    BY OpenIsNotDead
  <2> QED
    BY <2>1 DEF Stamps
<1>3. ~Sees(st, x, R2[i])
  <2>1. R2[i].xmax = x
    BY <1>1, <1>2, StampsAre
  <2> QED
    BY <1>1, <2>1 DEF Sees
<1>4. \A k \in more : /\ k \in DOMAIN R2 /\ k \notin DOMAIN R
                      /\ Sees(st, x, R2[k]) /\ R2[k].oid = R[i].oid /\ R2[k].cat = R[i].cat
  BY <1>1, StampsAre DEF Sees
<1>5. \A k \in DOMAIN R2 : k \in DOMAIN R \/ k \in more
  BY <1>1, StampsAre
<1> SUFFICES ASSUME NEW a \in DOMAIN R2, Sees(st, x, R2[a]), R2[a].oid \notin busy
             PROVE  \E b \in DOMAIN R2 : Sees(st, x, R2[b]) /\ Mates(R2[a], R2[b])
  BY DEF Whole
<1>6. CASE a \in DOMAIN R
  <2>1. a # i /\ R2[a] = R[a]
    BY <1>2, <1>3, <1>6
  <2>2. PICK b \in DOMAIN R : Sees(st, x, R[b]) /\ Mates(R[a], R[b])
    BY <1>6, <2>1 DEF Whole
  <2>3. CASE b = i
    <3>1. PICK m \in more : TRUE
      BY <2>1, <2>2, <2>3 DEF Mates
    <3> QED
      BY <1>4, <2>1, <2>2, <2>3, <3>1 DEF Mates
  <2>4. CASE b # i
    BY <1>2, <2>1, <2>2, <2>4
  <2> QED
    BY <2>3, <2>4
<1>7. CASE a \in more
  <2>1. R[i].oid = R2[a].oid /\ R[i].cat = R2[a].cat
    BY <1>4, <1>7
  <2>2. PICK b \in DOMAIN R : Sees(st, x, R[b]) /\ Mates(R[i], R[b])
    BY <1>2, <2>1 DEF Whole
  <2>3. b # i
    BY <2>2 DEF Mates
  <2> QED
    BY <1>2, <2>1, <2>2, <2>3 DEF Mates
<1> QED
  BY <1>5, <1>6, <1>7

\* Transaction x wrote row r, or stamped it.
Marks(x, r) == r.xmin = x \/ r.xmax = x

\* A relation has one writer at a time.
LEMMA WriterIs ==
    ASSUME NEW st, NEW R, NEW o \in Nat, Sound(st, R, o), Based(st, R),
           NEW x \in Xids, st[x] = "running", NEW a \in DOMAIN R, Marks(x, R[a])
    PROVE  \/ R[a].creator = x
           \/ \E c \in DOMAIN R : /\ R[c].oid = R[a].oid /\ R[c].xmax = x
                                  /\ Verdict(st, R[c].xmin) = "committed"
<1>1. Verdict(st, x) = "running" /\ x # InvalidXID
  BY VerdictOfXid
<1>2. RowFits(st, o, R[a])
  BY DEF Sound, RowsFit
<1>3. CASE R[a].xmin = x /\ R[a].creator # x
  <2>1. a \in Class(R)
    BY <1>2, <1>3 DEF RowFits, Class
  <2> QED
    BY <1>1, <1>3, <2>1 DEF Based, Class
<1>4. CASE R[a].xmax = x /\ R[a].xmin # x
  BY <1>1, <1>2, <1>4 DEF RowFits
<1> QED
  BY <1>3, <1>4 DEF Marks

LEMMA OneWriter ==
    ASSUME NEW st, NEW R, NEW o \in Nat, Sound(st, R, o), Based(st, R), Ordered(st, R),
           NEW x \in Xids, st[x] = "running", NEW y \in Xids, st[y] = "running", x # y,
           NEW a \in DOMAIN R, NEW b \in DOMAIN R, R[a].oid = R[b].oid,
           Marks(x, R[a]), Marks(y, R[b])
    PROVE  FALSE
<1>1. Verdict(st, x) = "running" /\ Verdict(st, y) = "running"
  BY VerdictOfXid
<1>2. \A k, m \in DOMAIN R : R[k].oid = R[m].oid => R[k].creator = R[m].creator
  BY DEF Sound, PairsFit, PairFits
<1>3. \A k \in DOMAIN R : R[k].creator = R[k].xmin \/ Verdict(st, R[k].creator) = "committed"
  BY DEF Sound, RowsFit, RowFits
<1>4. \/ R[a].creator = x
      \/ \E c \in DOMAIN R : /\ R[c].oid = R[a].oid /\ R[c].xmax = x
                             /\ Verdict(st, R[c].xmin) = "committed"
  BY WriterIs
<1>5. \/ R[b].creator = y
      \/ \E c \in DOMAIN R : /\ R[c].oid = R[a].oid /\ R[c].xmax = y
                             /\ Verdict(st, R[c].xmin) = "committed"
  BY WriterIs
<1>6. ASSUME NEW c \in DOMAIN R, R[c].oid = R[a].oid, Verdict(st, R[c].xmin) = "committed"
      PROVE  R[a].creator # x /\ R[b].creator # y
  BY <1>1, <1>2, <1>3, <1>6
<1>7. PICK c \in DOMAIN R : /\ R[c].oid = R[a].oid /\ R[c].xmax = x
                            /\ Verdict(st, R[c].xmin) = "committed"
  BY <1>2, <1>4, <1>5, <1>6
<1>8. PICK d \in DOMAIN R : /\ R[d].oid = R[a].oid /\ R[d].xmax = y
                            /\ Verdict(st, R[d].xmin) = "committed"
  BY <1>5, <1>6, <1>7
<1>9. ~Dead(st, R[c]) /\ ~Dead(st, R[d]) /\ c # d
  BY <1>1, <1>7, <1>8 DEF Dead
<1>10. CASE c \in Class(R) /\ d \in Class(R)
  BY <1>1, <1>7, <1>8, <1>9, <1>10 DEF Sound, OneIsSeen, Excludes
<1>11. CASE c \in Sub(R) /\ d \in Class(R)
  BY <1>1, <1>7, <1>8, <1>9, <1>11 DEF Ordered, DroppedBy
<1>12. CASE d \in Sub(R) /\ c \in Class(R)
  BY <1>1, <1>7, <1>8, <1>9, <1>12 DEF Ordered, DroppedBy
<1>13. CASE c \in Sub(R) /\ d \in Sub(R)
  BY <1>7, <1>8, <1>9, <1>13 DEF Sound, PairsFit, Sub
<1> QED
  BY <1>10, <1>11, <1>12, <1>13 DEF Sub, Class

\* A transaction begins: it sees what everybody sees.
LEMMA WholeBegins ==
    ASSUME NEW st \in [Xids -> Statuses], NEW R \in Seq(Rows), NEW o \in Nat, Sound(st, R, o),
           NEW x \in Xids, st[x] = "unassigned"
    PROVE  LET st2 == [st EXCEPT ![x] = "running"] IN
           /\ Whole(st, R, InvalidXID, {}) => Whole(st2, R, x, {})
           /\ \A y, busy : Whole(st, R, y, busy) => Whole(st2, R, y, busy)
<1> DEFINE st2 == [st EXCEPT ![x] = "running"]
<1>1. \A y \in Ids : Known(st, y) => Verdict(st2, y) = Verdict(st, y) /\ y # x
  BY BeginMoves
<1> HIDE DEF st2
<1>2. \A i \in DOMAIN R : Known(st, R[i].xmin) /\ Known(st, R[i].xmax) /\ R[i].xmin # InvalidXID
  BY DEF Sound, RowsFit, RowFits
<1>3. \A i \in DOMAIN R : /\ Verdict(st2, R[i].xmin) = Verdict(st, R[i].xmin) /\ R[i].xmin # x
                          /\ Verdict(st2, R[i].xmax) = Verdict(st, R[i].xmax) /\ R[i].xmax # x
  BY <1>1, <1>2 DEF Known
<1>4. \A i \in DOMAIN R : /\ Sees(st2, x, R[i]) <=> Sees(st, InvalidXID, R[i])
                          /\ \A y : Sees(st2, y, R[i]) <=> Sees(st, y, R[i])
  BY <1>2, <1>3 DEF Sees
<1>5. Whole(st, R, InvalidXID, {}) => Whole(st2, R, x, {})
  BY <1>4 DEF Whole
<1>6. \A y, busy : Whole(st, R, y, busy) => Whole(st2, R, y, busy)
  BY <1>4 DEF Whole
<1> QED
  BY <1>5, <1>6 DEF st2

\* What a transaction did comes to nothing.
LEMMA WholeAborts ==
    ASSUME NEW st \in [Xids -> Statuses], NEW R \in Seq(Rows), NEW o \in Nat, Sound(st, R, o),
           NEW x \in Xids, st[x] = "running"
    PROVE  LET st2 == [st EXCEPT ![x] = "aborted"] IN
           \A y, busy : Whole(st, R, y, busy) /\ y # x => Whole(st2, R, y, busy)
<1> DEFINE st2 == [st EXCEPT ![x] = "aborted"]
<1>1. /\ Verdict(st, x) = "running" /\ Verdict(st2, x) = "aborted"
      /\ \A y \in Ids : y # x => Verdict(st2, y) = Verdict(st, y)
  BY EndMoves
<1> HIDE DEF st2
<1>2. \A i \in DOMAIN R : R[i].xmin \in Ids /\ R[i].xmax \in Ids
  BY DEF Sound, RowsFit, RowFits, Known
<1>3. ASSUME NEW i \in DOMAIN R, NEW y, y # x
      PROVE  Sees(st2, y, R[i]) <=> Sees(st, y, R[i])
  <2>1. Verdict(st2, R[i].xmin) = "committed" <=> Verdict(st, R[i].xmin) = "committed"
    BY <1>1, <1>2
  <2>2. Verdict(st2, R[i].xmax) = "committed" <=> Verdict(st, R[i].xmax) = "committed"
    BY <1>1, <1>2
  <2> QED
    BY <2>1, <2>2 DEF Sees
<1>4. \A y, busy : Whole(st, R, y, busy) /\ y # x => Whole(st2, R, y, busy)
  BY <1>3 DEF Whole
<1> QED
  BY <1>4 DEF st2

\* What a transaction saw whole, everybody sees whole when it commits; who
\* writes a relation, the other cannot have written to.
LEMMA WholeCommits ==
    ASSUME NEW st \in [Xids -> Statuses], NEW R \in Seq(Rows), NEW o \in Nat, Sound(st, R, o),
           Based(st, R), Ordered(st, R), NEW x \in Xids, st[x] = "running", Whole(st, R, x, {})
    PROVE  LET st2 == [st EXCEPT ![x] = "committed"] IN
           /\ Whole(st2, R, InvalidXID, {})
           /\ \A y \in Xids : \A busy :
                 Whole(st, R, y, busy) /\ y # x /\ st[y] = "running" => Whole(st2, R, y, busy)
<1> DEFINE st2 == [st EXCEPT ![x] = "committed"]
<1>1. /\ Verdict(st, x) = "running" /\ Verdict(st2, x) = "committed"
      /\ \A y \in Ids : y # x => Verdict(st2, y) = Verdict(st, y)
  BY EndMoves
<1> HIDE DEF st2
<1>2. \A i \in DOMAIN R : R[i].xmin \in Ids /\ R[i].xmax \in Ids /\ R[i].xmin # InvalidXID
  BY DEF Sound, RowsFit, RowFits, Known
<1>3. x # InvalidXID
  BY VerdictOfXid
<1>4. ASSUME NEW i \in DOMAIN R
      PROVE  Sees(st2, InvalidXID, R[i]) <=> Sees(st, x, R[i])
  <2>1. Verdict(st2, R[i].xmin) = "committed" <=> R[i].xmin = x \/ Verdict(st, R[i].xmin) = "committed"
    BY <1>1, <1>2
  <2>2. Verdict(st2, R[i].xmax) = "committed" <=> R[i].xmax = x \/ Verdict(st, R[i].xmax) = "committed"
    BY <1>1, <1>2
  <2> QED
    BY <1>2, <1>3, <2>1, <2>2 DEF Sees
<1>5. Whole(st2, R, InvalidXID, {})
  BY <1>4 DEF Whole
<1>6. ASSUME NEW y \in Xids, NEW busy, Whole(st, R, y, busy), y # x, st[y] = "running"
      PROVE  Whole(st2, R, y, busy)
  <2> SUFFICES ASSUME NEW i \in DOMAIN R, Sees(st2, y, R[i]), R[i].oid \notin busy
               PROVE  \E j \in DOMAIN R : Sees(st2, y, R[j]) /\ Mates(R[i], R[j])
    BY DEF Whole
  <2>1. CASE \E k \in DOMAIN R : R[k].oid = R[i].oid /\ Marks(y, R[k])
    <3>1. ASSUME NEW j \in DOMAIN R, R[j].oid = R[i].oid
          PROVE  Sees(st2, y, R[j]) <=> Sees(st, y, R[j])
      <4>1. ~Marks(x, R[j])
        BY <1>6, <2>1, <3>1, OneWriter
      <4>2. /\ Verdict(st2, R[j].xmin) = Verdict(st, R[j].xmin)
            /\ Verdict(st2, R[j].xmax) = Verdict(st, R[j].xmax)
        BY <1>1, <1>2, <4>1 DEF Marks
      <4> QED
        BY <4>2 DEF Sees
    <3> QED
      BY <1>6, <3>1 DEF Whole, Mates
  <2>2. CASE ~\E k \in DOMAIN R : R[k].oid = R[i].oid /\ Marks(y, R[k])
    <3>1. ASSUME NEW j \in DOMAIN R, R[j].oid = R[i].oid
          PROVE  Sees(st2, y, R[j]) <=> Sees(st2, InvalidXID, R[j])
      BY <1>2, <2>2, <3>1 DEF Marks, Sees
    <3> QED
      BY <1>5, <3>1 DEF Whole, Mates
  <2> QED
    BY <2>1, <2>2
<1> QED
  BY <1>5, <1>6 DEF st2

-----------------------------------------------------------------------------
(* Plans.                                                                  *)

LEMMA DoneMoves ==
    ASSUME NEW st, NEW st2, Moves(st, st2), NEW R \in Seq(Rows), NEW o \in Nat, Sound(st, R, o)
    PROVE  /\ \A x, a : /\ ClassDone(st, R, x, a) => ClassDone(st2, R, x, a)
                        /\ SubDone(st, R, x, a) => SubDone(st2, R, x, a)
                        /\ Held(st, R, x, a) => Held(st2, R, x, a)
           /\ Ordered(st, R) => Ordered(st2, R)
<1>1. \A i \in DOMAIN R : R[i] \in Rows /\ RowFits(st, o, R[i])
  BY ElementOfSeq, LenProperties DEF Sound, RowsFit
<1>2. \A i \in DOMAIN R : \A x : DroppedBy(st, x, R[i]) => DroppedBy(st2, x, R[i])
  BY <1>1, DeadStays
<1>3. \A i \in DOMAIN R : /\ Verdict(st, R[i].creator) = "committed" => Verdict(st2, R[i].creator) = "committed"
                          /\ Verdict(st2, R[i].xmax) # "aborted" => Verdict(st, R[i].xmax) # "aborted"
  <2>1. \A i \in DOMAIN R : Known(st, R[i].creator) /\ Known(st, R[i].xmax)
    BY <1>1 DEF RowFits
  <2> QED
    BY <2>1, KnownStays
<1>4. \A x, a : /\ ClassDone(st, R, x, a) => ClassDone(st2, R, x, a)
                /\ SubDone(st, R, x, a) => SubDone(st2, R, x, a)
  BY <1>2 DEF ClassDone, SubDone, Class, Sub
<1>5. \A x, a : Held(st, R, x, a) => Held(st2, R, x, a)
  BY <1>3 DEF Held, Of
<1>6. Ordered(st, R) => Ordered(st2, R)
  BY <1>2, <1>3 DEF Ordered, Class, Sub
<1> QED
  BY <1>4, <1>5, <1>6

\* Who has seen a relation is not about to see another session create it.
LEMMA DoneAdds ==
    ASSUME NEW st, NEW R, NEW R2, NEW r, Adds(R, R2, r), NEW x \in Xids, st[x] = "running",
           r.creator = x, r.cat = "class" => Of(R, r.oid) = {},
           r.cat # "class" => \A i \in Of(R, r.oid) : PairFits(R[i], r),
           NEW y, y # x, NEW o, Held(st, R, y, o)
    PROVE  /\ r.oid # o /\ Held(st, R2, y, o)
           /\ ClassDone(st, R, y, o) => ClassDone(st, R2, y, o)
           /\ SubDone(st, R, y, o) => SubDone(st, R2, y, o)
<1>1. PICK n \in Nat \ DOMAIN R : /\ DOMAIN R2 = DOMAIN R \cup {n} /\ R2[n] = r
                                  /\ \A k \in DOMAIN R : R2[k] = R[k]
  BY DEF Adds
<1>2. PICK i \in Of(R, o) : R[i].creator = y \/ Verdict(st, R[i].creator) = "committed"
  BY DEF Held
<1>3. Verdict(st, x) = "running"
  BY VerdictOfXid
<1>4. r.oid # o
  <2> SUFFICES ASSUME r.oid = o PROVE FALSE
    OBVIOUS
  <2>1. PairFits(R[i], r)
    BY <1>2
  <2> QED
    BY <1>2, <1>3, <2>1 DEF PairFits
<1>5. \A k \in DOMAIN R2 : R2[k].oid = o => k \in DOMAIN R /\ R2[k] = R[k]
  BY <1>1, <1>4
<1>6. \A k \in DOMAIN R : k \in DOMAIN R2 /\ R2[k] = R[k]
  BY <1>1
<1>7. Held(st, R2, y, o)
  BY <1>2, <1>6 DEF Held, Of
<1>8. ClassDone(st, R, y, o) => ClassDone(st, R2, y, o)
  BY <1>5 DEF ClassDone, Class
<1>9. SubDone(st, R, y, o) => SubDone(st, R2, y, o)
  BY <1>5 DEF SubDone, Sub
<1> QED
  BY <1>4, <1>7, <1>8, <1>9

LEMMA OrderedAdds ==
    ASSUME NEW st, NEW R, NEW R2, NEW r, Adds(R, R2, r), r.xmax = InvalidXID,
           r.cat = "class" => Of(R, r.oid) = {}, Ordered(st, R)
    PROVE  Ordered(st, R2)
<1>1. PICK n \in Nat \ DOMAIN R : /\ DOMAIN R2 = DOMAIN R \cup {n} /\ R2[n] = r
                                  /\ \A k \in DOMAIN R : R2[k] = R[k]
  BY DEF Adds
<1> SUFFICES ASSUME NEW k \in Sub(R2), NEW i \in Class(R2), R2[k].oid = R2[i].oid,
                    Verdict(st, R2[k].xmax) # "aborted"
             PROVE  DroppedBy(st, R2[k].xmax, R2[i])
  BY DEF Ordered
<1>2. k \in Sub(R) /\ R2[k] = R[k]
  BY <1>1, Zero DEF Sub
<1>3. i \in Class(R) /\ R2[i] = R[i]
  BY <1>1, <1>2 DEF Class, Sub, Of
<1> QED
  BY <1>2, <1>3 DEF Ordered

LEMMA DoneStamps ==
    ASSUME NEW st, NEW R \in Seq(Rows), NEW R2, NEW x \in Xids, st[x] = "running",
           NEW i, NEW more, Stamps(R, R2, x, i, more), Open(st, x, R[i]),
           NEW y, Verdict(st, y) # "aborted", NEW o
    PROVE  /\ ClassDone(st, R, y, o) => ClassDone(st, R2, y, o)
           /\ SubDone(st, R, y, o) => SubDone(st, R2, y, o)
           /\ Held(st, R, y, o) => Held(st, R2, y, o)
<1>1. x \in Ids
  BY Numbers
<1>2. \A k \in DOMAIN R : /\ k \in DOMAIN R2
                          /\ R2[k].oid = R[k].oid /\ R2[k].cat = R[k].cat
                          /\ R2[k].creator = R[k].creator
                          /\ DroppedBy(st, y, R[k]) => DroppedBy(st, y, R2[k])
  <2>1. \A k \in DOMAIN R : /\ k \in DOMAIN R2
                            /\ R2[k].oid = R[k].oid /\ R2[k].cat = R[k].cat
                            /\ R2[k].creator = R[k].creator
    BY <1>1, StampsSame
  <2> QED
    BY <2>1, StampsKeep
<1>3. \A k \in DOMAIN R2 \ DOMAIN R : R2[k].oid = R[i].oid /\ R2[k].cat = R[i].cat
  <2>1. \A k \in DOMAIN R2 \ DOMAIN R : k \in more
    BY DEF Stamps
  <2> QED
    BY <1>1, <2>1, StampsSame
<1>4. i \in DOMAIN R /\ ~DroppedBy(st, y, R[i])
  BY OpenIsNotDead DEF Stamps
<1>5. ClassDone(st, R, y, o) => ClassDone(st, R2, y, o)
  BY <1>2, <1>3, <1>4 DEF ClassDone, Class
<1>6. SubDone(st, R, y, o) => SubDone(st, R2, y, o)
  BY <1>2, <1>3, <1>4 DEF SubDone, Sub
<1>7. Held(st, R, y, o) => Held(st, R2, y, o)
  BY <1>2 DEF Held, Of
<1> QED
  BY <1>5, <1>6, <1>7

LEMMA OrderedStamps ==
    ASSUME NEW st, NEW R \in Seq(Rows), NEW R2, NEW x \in Xids, st[x] = "running",
           NEW i, NEW more, Stamps(R, R2, x, i, more), Open(st, x, R[i]), Ordered(st, R),
           R[i].cat # "class" => ClassDone(st, R, x, R[i].oid)
    PROVE  Ordered(st, R2)
<1>1. x \in Ids /\ Verdict(st, x) = "running"
  BY Numbers, VerdictOfXid
<1>2. /\ i \in DOMAIN R
      /\ \A k \in DOMAIN R2 : k \in DOMAIN R \/ (k \in more /\ R[i].cat = "class")
      /\ \A k \in DOMAIN R : k # i => R2[k] = R[k]
  BY DEF Stamps
<1>3. /\ \A k \in DOMAIN R : /\ R2[k].oid = R[k].oid /\ R2[k].cat = R[k].cat
                             /\ R2[k].xmax = IF k = i THEN x ELSE R[k].xmax
                             /\ \A y : Verdict(st, y) # "aborted" /\ DroppedBy(st, y, R[k])
                                         => DroppedBy(st, y, R2[k])
      /\ \A k \in more : k \notin DOMAIN R /\ k \in DOMAIN R2
  <2>1. \A k \in DOMAIN R : /\ k \in DOMAIN R2
                            /\ R2[k].oid = R[k].oid /\ R2[k].cat = R[k].cat
                            /\ R2[k].xmax = IF k = i THEN x ELSE R[k].xmax
    BY <1>1, StampsSame
  <2>2. \A k \in more : k \notin DOMAIN R /\ k \in DOMAIN R2
    BY <1>1, StampsSame
  <2> QED
    BY <2>1, <2>2, StampsKeep
<1>4. \A k \in more : R2[k].oid = R[i].oid /\ R2[k].cat = R[i].cat
  BY <1>1, StampsSame
<1>5. \A y : Verdict(st, y) # "aborted" => ~DroppedBy(st, y, R[i])
  BY OpenIsNotDead
<1> SUFFICES ASSUME NEW k \in Sub(R2), NEW m \in Class(R2), R2[k].oid = R2[m].oid,
                    Verdict(st, R2[k].xmax) # "aborted"
             PROVE  DroppedBy(st, R2[k].xmax, R2[m])
  BY DEF Ordered
<1>6. k \in Sub(R)
  BY <1>2, <1>3, <1>4 DEF Sub
<1>7. PICK c \in Class(R) : R[c].oid = R2[m].oid /\ (m = c \/ c = i)
                            /\ (m \in DOMAIN R => m = c)
  BY <1>2, <1>3, <1>4 DEF Class
<1>8. DroppedBy(st, R2[k].xmax, R[c])
  <2>1. CASE k = i
    BY <1>3, <1>6, <1>7, <2>1 DEF ClassDone, Sub
  <2>2. CASE k # i
    BY <1>2, <1>6, <1>7, <2>2 DEF Ordered, Sub
  <2> QED
    BY <2>1, <2>2
<1>9. m = c /\ c \in DOMAIN R
  BY <1>5, <1>7, <1>8 DEF Class
<1> QED
  BY <1>3, <1>8, <1>9

\* The stamp of a delete is the last a relation's pg_class rows need, or its
\* other row: no two versions are seen together.
LEMMA StampCloses ==
    ASSUME NEW st, NEW R \in Seq(Rows), NEW R2, NEW o \in Nat, Sound(st, R, o),
           NEW x \in Xids, st[x] = "running",
           NEW i, Stamps(R, R2, x, i, {}), Open(st, x, R[i])
    PROVE  /\ i \in Class(R) => ClassDone(st, R2, x, R[i].oid)
           /\ i \in Sub(R) => SubDone(st, R2, x, R[i].oid)
<1>1. x \in Ids /\ Verdict(st, x) = "running"
  BY Numbers, VerdictOfXid
<1>2. /\ i \in DOMAIN R /\ DOMAIN R2 = DOMAIN R
      /\ \A k \in DOMAIN R : k # i => R2[k] = R[k]
  BY DEF Stamps
<1>3. \A k \in DOMAIN R : R2[k].oid = R[k].oid /\ R2[k].cat = R[k].cat
  BY <1>1, StampsSame
<1>4. DroppedBy(st, x, R2[i])
  <2>1. R2[i].xmax = x
    BY <1>1, <1>2, StampsSame
  <2> QED
    BY <2>1 DEF DroppedBy
<1>5. ASSUME NEW k \in Class(R2), i \in Class(R), R2[k].oid = R[i].oid, k # i
      PROVE  DroppedBy(st, x, R2[k])
  <2>1. k \in Class(R) /\ R2[k] = R[k] /\ R[k].oid = R[i].oid
    BY <1>2, <1>5 DEF Class
  <2>2. Excludes(st, R[k], R[i])
    BY <1>5, <2>1 DEF Sound, OneIsSeen
  <2> QED
    BY <1>1, <2>1, <2>2, OpenIsNotDead DEF Excludes, Open, Dead, DroppedBy
<1>6. ASSUME NEW k \in Sub(R2), i \in Sub(R), R2[k].oid = R[i].oid
      PROVE  k = i
  BY <1>2, <1>3, <1>6 DEF Sound, PairsFit, Sub
<1> QED
  BY <1>4, <1>5, <1>6 DEF ClassDone, SubDone

\* A plan is not upset by what others do to the table.
LEMMA PlanKeeps ==
    ASSUME NEW st, NEW R, NEW st2, NEW R2, NEW q, Plan(st, R, q),
           \A k \in DOMAIN R : k \in DOMAIN R2 /\ R2[k].oid = R[k].oid /\ R2[k].cat = R[k].cat,
           \A a : IsTable(R, a) => IsTable(R2, a),
           \A k \in DOMAIN q.todo : q.todo[k].do \in {"delete", "row"} => q.todo[k].tid \in DOMAIN R,
           \A o \in q.gone : /\ Held(st, R, q.tx, o) => Held(st2, R2, q.tx, o)
                             /\ ClassDone(st, R, q.tx, o) => ClassDone(st2, R2, q.tx, o)
                             /\ SubDone(st, R, q.tx, o) => SubDone(st2, R2, q.tx, o)
    PROVE  Plan(st2, R2, q)
<1>1. ASSUME NEW k \in DOMAIN q.todo
      PROVE  /\ TaskFits(R2, q.gone, q.todo[k])
             /\ \A o : CoversClass(R, q.todo[k], o) => CoversClass(R2, q.todo[k], o)
             /\ \A o : CoversSub(R, q.todo[k], o) <=> CoversSub(R2, q.todo[k], o)
  <2> DEFINE t == q.todo[k]
  <2>1. t.do \in {"delete", "row"} => t.tid \in DOMAIN R
    OBVIOUS
  <2>2. TaskFits(R, q.gone, t)
    BY DEF Plan
  <2> HIDE DEF t
  <2>3. TaskFits(R2, q.gone, t)
    BY <2>1, <2>2 DEF TaskFits
  <2>4. \A o : CoversClass(R, t, o) => CoversClass(R2, t, o)
    BY DEF CoversClass, Class
  <2>5. \A o : CoversSub(R, t, o) <=> CoversSub(R2, t, o)
    BY <2>1 DEF CoversSub, Sub
  <2> QED
    BY <2>3, <2>4, <2>5 DEF t
<1>2. ASSUME NEW o \in q.gone
      PROVE  /\ Held(st2, R2, q.tx, o)
             /\ ClassFirst(st2, R2, q.tx, q.todo, o)
             /\ ClassLeft(st2, R2, q.tx, q.todo, o)
             /\ SubLeft(st2, R2, q.tx, q.todo, o)
  <2>1. /\ Held(st, R, q.tx, o) /\ ClassFirst(st, R, q.tx, q.todo, o)
        /\ ClassLeft(st, R, q.tx, q.todo, o) /\ SubLeft(st, R, q.tx, q.todo, o)
    BY DEF Plan
  <2>2. ClassLeft(st2, R2, q.tx, q.todo, o)
    BY <1>1, <2>1 DEF ClassLeft
  <2>3. SubLeft(st2, R2, q.tx, q.todo, o)
    BY <1>1, <2>1 DEF SubLeft
  <2>4. ClassFirst(st2, R2, q.tx, q.todo, o)
    <3> SUFFICES ASSUME NEW k \in DOMAIN q.todo, CoversSub(R2, q.todo[k], o),
                        ~ClassDone(st2, R2, q.tx, o)
                 PROVE  \E m \in 1 .. k : CoversClass(R2, q.todo[m], o)
      BY DEF ClassFirst
    <3>1. PICK m \in 1 .. k : CoversClass(R, q.todo[m], o)
      BY <1>1, <2>1 DEF ClassFirst
    <3>2. CoversClass(R2, q.todo[m], o)
      BY <3>1 DEF CoversClass, Class
    <3> QED
      BY <3>2
  <2> QED
    BY <2>1, <2>2, <2>3, <2>4
<1> QED
  BY <1>1, <1>2 DEF Plan

\* The next task is done, or gives way to the tasks more, which drop what it
\* was to drop and perhaps relations more.
LEMMA PlanGoesOn ==
    ASSUME NEW st, NEW R, NEW q \in States, NEW q2, Plan(st, R, q), q.todo # <<>>,
           NEW more \in Seq(Tasks), q2.todo = more \o Tail(q.todo), q2.tx = q.tx,
           q.gone \subseteq q2.gone,
           \A k \in DOMAIN more : TaskFits(R, q2.gone, more[k]) /\ more[k].do # "update",
           \A o \in q.gone : CoversClass(R, q.todo[1], o) =>
              ClassDone(st, R, q.tx, o) \/ \E m \in DOMAIN more : CoversClass(R, more[m], o),
           \A o \in q.gone : CoversSub(R, q.todo[1], o) =>
              SubDone(st, R, q.tx, o) \/ \E m \in DOMAIN more : CoversSub(R, more[m], o),
           \A o \in q2.gone \ q.gone : /\ Held(st, R, q.tx, o)
                                       /\ \E m \in DOMAIN more : CoversClass(R, more[m], o)
                                       /\ \E m \in DOMAIN more : CoversSub(R, more[m], o),
           \A o \in q2.gone : ClassFirst(st, R, q.tx, more, o)
    PROVE  Plan(st, R, q2)
<1> DEFINE todo == q.todo
           t2 == more \o Tail(todo)
           n == Len(more)
<1>1. todo \in Seq(Tasks) /\ todo # <<>>
  BY DEF States
<1> HIDE DEF todo
<1>2. /\ n \in Nat /\ Len(todo) \in Nat /\ Len(todo) >= 1
      /\ DOMAIN todo = 1 .. Len(todo) /\ DOMAIN more = 1 .. n
      /\ DOMAIN t2 = 1 .. n + Len(todo) - 1
      /\ \A k \in 1 .. n : t2[k] = more[k]
      /\ \A k \in 2 .. Len(todo) : t2[n + k - 1] = todo[k]
      /\ \A k \in DOMAIN t2 :
            k \in 1 .. n \/ \E m \in 2 .. Len(todo) : k = n + m - 1
  BY <1>1, ThenTodo
<1>3. q2.todo = t2 /\ q.todo = todo
  BY DEF todo
<1> HIDE DEF t2, n
<1>4. /\ \A m \in DOMAIN more : m \in DOMAIN t2 /\ t2[m] = more[m]
      /\ \A m \in 2 .. Len(todo) : n + m - 1 \in DOMAIN t2 /\ t2[n + m - 1] = todo[m]
      /\ \A m \in 2 .. Len(todo) : m \in DOMAIN todo
      /\ \A m \in DOMAIN todo : m = 1 \/ m \in 2 .. Len(todo)
  BY <1>2
<1>5. /\ \A k \in DOMAIN todo : TaskFits(R, q.gone, todo[k])
      /\ \A k \in DOMAIN todo : todo[k].do = "update" => Len(todo) = 1
      /\ \A o \in q.gone : /\ Held(st, R, q.tx, o)
                           /\ ClassFirst(st, R, q.tx, todo, o)
                           /\ ClassLeft(st, R, q.tx, todo, o)
                           /\ SubLeft(st, R, q.tx, todo, o)
  BY <1>3 DEF Plan
<1>6. ASSUME NEW k \in DOMAIN t2
      PROVE  TaskFits(R, q2.gone, t2[k]) /\ t2[k].do # "update"
  <2>1. CASE k \in 1 .. n
    BY <1>2, <2>1
  <2>2. CASE \E m \in 2 .. Len(todo) : k = n + m - 1
    <3>1. PICK m \in 2 .. Len(todo) : k = n + m - 1
      BY <2>2
    <3>2. TaskFits(R, q.gone, todo[m]) /\ todo[m].do # "update" /\ t2[k] = todo[m]
      BY <1>2, <1>4, <1>5, <3>1
    <3> QED
      BY <3>2 DEF TaskFits
  <2> QED
    BY <1>2, <2>1, <2>2
<1>7. ASSUME NEW k \in DOMAIN todo, NEW o, CoversSub(R, todo[k], o)
      PROVE  o \in q.gone
  BY <1>5, <1>7 DEF TaskFits, CoversSub
<1>8. ASSUME NEW o \in q.gone, ~ClassDone(st, R, q.tx, o), NEW k \in DOMAIN todo,
             CoversClass(R, todo[k], o)
      PROVE  \E m \in DOMAIN t2 : m <= n + k - 1 /\ CoversClass(R, t2[m], o)
  <2>1. CASE k = 1
    <3>1. PICK m \in DOMAIN more : CoversClass(R, more[m], o)
      BY <1>3, <1>8, <2>1
    <3>2. m \in DOMAIN t2 /\ t2[m] = more[m] /\ m <= n + k - 1
      BY <1>2, <1>4, <2>1, <3>1
    <3> QED
      BY <3>1, <3>2
  <2>2. CASE k \in 2 .. Len(todo)
    <3>1. n + k - 1 \in DOMAIN t2 /\ t2[n + k - 1] = todo[k] /\ n + k - 1 <= n + k - 1
      BY <1>2, <1>4, <2>2
    <3> QED
      BY <1>8, <3>1
  <2> QED
    BY <1>4, <1>8, <2>1, <2>2
<1>9. ASSUME NEW o \in q2.gone PROVE ClassLeft(st, R, q2.tx, t2, o)
  <2>1. CASE o \in q.gone
    BY <1>5, <1>8, <2>1 DEF ClassLeft
  <2>2. CASE o \notin q.gone
    BY <1>4, <1>9, <2>2 DEF ClassLeft
  <2> QED
    BY <2>1, <2>2
<1>10. ASSUME NEW o \in q2.gone PROVE SubLeft(st, R, q2.tx, t2, o)
  <2>1. CASE o \in q.gone /\ ~SubDone(st, R, q.tx, o)
    <3>1. PICK k \in DOMAIN todo : CoversSub(R, todo[k], o)
      BY <1>5, <2>1 DEF SubLeft
    <3>2. CASE k = 1
      BY <1>3, <1>4, <2>1, <3>1, <3>2 DEF SubLeft
    <3>3. CASE k \in 2 .. Len(todo)
      BY <1>4, <3>1, <3>3 DEF SubLeft
    <3> QED
      BY <1>4, <3>2, <3>3
  <2>2. CASE o \notin q.gone
    BY <1>4, <1>10, <2>2 DEF SubLeft
  <2> QED
    BY <2>1, <2>2 DEF SubLeft
<1>11. ASSUME NEW o \in q2.gone PROVE ClassFirst(st, R, q2.tx, t2, o)
  <2> SUFFICES ASSUME NEW k \in DOMAIN t2, CoversSub(R, t2[k], o), ~ClassDone(st, R, q.tx, o)
               PROVE  \E m \in 1 .. k : CoversClass(R, t2[m], o)
    BY DEF ClassFirst
  <2>1. CASE k \in 1 .. n
    <3>1. k \in DOMAIN more /\ t2[k] = more[k] /\ ClassFirst(st, R, q.tx, more, o)
      BY <1>2, <1>11, <2>1
    <3>2. PICK m \in 1 .. k : CoversClass(R, more[m], o)
      BY <3>1 DEF ClassFirst
    <3>3. t2[m] = more[m]
      BY <1>2, <2>1, <3>2
    <3> QED
      BY <3>2, <3>3
  <2>2. CASE \E m \in 2 .. Len(todo) : k = n + m - 1
    <3>1. PICK j \in 2 .. Len(todo) : k = n + j - 1
      BY <2>2
    <3>2. j \in DOMAIN todo /\ CoversSub(R, todo[j], o) /\ o \in q.gone
      BY <1>4, <1>7, <3>1
    <3>3. PICK m \in 1 .. j : CoversClass(R, todo[m], o)
      BY <1>5, <3>2 DEF ClassFirst
    <3>4. m \in DOMAIN todo
      BY <1>2, <3>2, <3>3
    <3>5. PICK p \in DOMAIN t2 : p <= n + m - 1 /\ CoversClass(R, t2[p], o)
      BY <1>8, <3>2, <3>3, <3>4
    <3>6. p \in 1 .. k
      BY <1>2, <3>1, <3>3, <3>5
    <3> QED
      BY <3>5, <3>6
  <2> QED
    BY <1>2, <2>1, <2>2
<1>12. \A o \in q2.gone : Held(st, R, q2.tx, o)
  BY <1>5
<1> QED
  BY <1>3, <1>6, <1>9, <1>10, <1>11, <1>12 DEF Plan

-----------------------------------------------------------------------------
(* The steps of the sessions.                                              *)

LEMMA TidsAre ==
    ASSUME RowsInv, NEW t \in Sessions, ss[t].pc = "write", NEW k \in DOMAIN ss[t].todo,
           ss[t].todo[k].do \in {"delete", "row"}
    PROVE  ss[t].todo[k].tid \in DOMAIN rows
<1> DEFINE q == ss[t]
<1>1. q \in States /\ Fits(status, rows, nextOid, q)
  BY TxIs DEF RowsInv, Core, SessionsFit
<1>2. DOMAIN q.todo = 1 .. Len(q.todo)
  BY <1>1, LenProperties DEF States
<1>3. q.pc = "write" /\ k \in DOMAIN q.todo /\ q.todo[k].do \in {"delete", "row"}
  OBVIOUS
<1> HIDE DEF q
<1>4. ~TwoLeft(status, rows, nextOid, q)
  <2>1. Len(q.todo) = 2 => k \in {1, 2}
    BY <1>2, <1>3
  <2> QED
    BY <1>3, <2>1 DEF TwoLeft
<1>5. ~OneLeft(rows, nextOid, q)
  <2>1. Len(q.todo) = 1 => k = 1
    BY <1>2, <1>3
  <2> QED
    BY <1>3, <2>1 DEF OneLeft
<1>6. Planned(rows, q.todo)
  BY <1>1, <1>3, <1>4, <1>5 DEF Fits
<1>7. q.todo[k].tid \in DOMAIN rows
  BY <1>3, <1>6 DEF Planned
<1> QED
  BY <1>7 DEF q

\* Who drops nothing has no plan to keep.
LEMMA PlanTrivial ==
    ASSUME NEW st, NEW R, NEW q, q.gone = {}, \A k \in DOMAIN q.todo : q.todo[k].do = "insert"
    PROVE  Plan(st, R, q)
  BY DEF Plan, TaskFits

\* What a step of s keeps for everybody but s.
WholeKept(s) ==
    /\ Ordered(status', rows') /\ Whole(status', rows', InvalidXID, {})
    /\ \A t \in Sessions \ {s} : DropFits(status', rows', ss[t])

LEMMA WholeStandsStill ==
    ASSUME WholeInv, NEW s, rows' = rows, status' = status
    PROVE  WholeKept(s)
  BY DEF WholeInv, WholeKept

LEMMA NotBusy ==
    ASSUME RowsInv, NEW s \in Sessions, ss[s].pc \notin {"write", "failed"}
    PROVE  Busy(ss[s]) = {}
  BY BusyHasTx DEF Busy, InsertOids

\* A session that is not writing sees its relations whole.
LEMMA CalmIsWhole ==
    ASSUME RowsInv, WholeInv, NEW s \in Sessions, ss[s].tx # InvalidXID,
           ss[s].pc \notin {"write", "failed"}
    PROVE  Whole(status, rows, ss[s].tx, {})
  BY NotBusy DEF WholeInv, DropFits

\* Plans go on as a transaction begins or ends.
LEMMA PlansMove ==
    ASSUME RowsInv, WholeInv, NEW t \in Sessions, rows' = rows, Moves(status, status'),
           ss[t].pc = "write"
    PROVE  Plan(status', rows', ss[t])
<1>1. Plan(status, rows, ss[t])
  BY DEF WholeInv, DropFits
<1>2. /\ rows \in Seq(Rows) /\ nextOid \in Nat /\ Sound(status, rows, nextOid)
  BY DEF RowsInv, Core, CoreTypes
<1>3. \A x, a : /\ ClassDone(status, rows, x, a) => ClassDone(status', rows, x, a)
                /\ SubDone(status, rows, x, a) => SubDone(status', rows, x, a)
                /\ Held(status, rows, x, a) => Held(status', rows, x, a)
  BY <1>2, DoneMoves
<1>4. \A k \in DOMAIN ss[t].todo : ss[t].todo[k].do \in {"delete", "row"}
                                      => ss[t].todo[k].tid \in DOMAIN rows
  BY TidsAre
<1>5. Plan(status', rows, ss[t])
  BY ONLY <1>1, <1>3, <1>4, PlanKeeps
<1> QED
  BY <1>5

LEMMA WholeOfStart ==
    ASSUME RowsInv, WholeInv, NEW s \in Sessions, StartStatement(s)
    PROVE  WholeKept(s) /\ DropFits(status', rows', ss'[s])
<1> DEFINE q == ss'[s]
<1>1. /\ rows' = rows /\ Moves(status, status') /\ ss[s].pc = "idle"
      /\ q.pc = "run" /\ q.gone = {} /\ q.tx # InvalidXID
      /\ \/ q.tx = ss[s].tx /\ status' = status
         \/ /\ ss[s].tx = InvalidXID /\ status[q.tx] = "unassigned" /\ q.tx \in Xids
            /\ status' = [status EXCEPT ![q.tx] = "running"]
  BY StartStatementIs DEF StartStatement, At
<1>2. Busy(q) = {}
  BY <1>1 DEF Busy, InsertOids
<1>3. /\ rows \in Seq(Rows) /\ nextOid \in Nat /\ Sound(status, rows, nextOid)
      /\ status \in [Xids -> Statuses]
  BY DEF RowsInv, Core, CoreTypes
<1> HIDE DEF q
<1>4. CASE q.tx = ss[s].tx /\ status' = status
  <2>1. Whole(status, rows, q.tx, {})
    BY <1>1, <1>4, CalmIsWhole
  <2> QED
    BY <1>1, <1>2, <1>4, <2>1, WholeStandsStill DEF DropFits, q
<1>5. CASE /\ status[q.tx] = "unassigned" /\ q.tx \in Xids
           /\ status' = [status EXCEPT ![q.tx] = "running"]
  <2>1. /\ Whole(status, rows, InvalidXID, {}) => Whole(status', rows, q.tx, {})
        /\ \A y, busy : Whole(status, rows, y, busy) => Whole(status', rows, y, busy)
    BY <1>3, <1>5, WholeBegins
  <2>2. Ordered(status', rows)
    BY <1>1, <1>3, DoneMoves DEF WholeInv
  <2>3. \A t \in Sessions \ {s} : DropFits(status', rows', ss[t])
    BY <1>1, <2>1, PlansMove DEF WholeInv, DropFits
  <2>4. DropFits(status', rows', q)
    BY <1>1, <1>2, <2>1 DEF WholeInv, DropFits
  <2> QED
    BY <1>1, <2>1, <2>2, <2>3, <2>4 DEF WholeInv, WholeKept, q
<1> QED
  BY <1>1, <1>4, <1>5

LEMMA WholeOfEnd ==
    ASSUME RowsInv, NamesInv, WholeInv, NEW s \in Sessions, NEW v \in {"committed", "aborted"},
           End(s, v)
    PROVE  WholeKept(s) /\ DropFits(status', rows', ss'[s])
<1> DEFINE x == ss[s].tx
<1>1. /\ rows' = rows /\ Moves(status, status') /\ ss'[s] = Idle
      /\ x \in Xids /\ x # InvalidXID /\ status[x] = "running"
      /\ status' = [status EXCEPT ![x] = v]
      /\ v = "committed" => ss[s].pc = "idle"
  BY EndIs
<1>2. /\ rows \in Seq(Rows) /\ nextOid \in Nat /\ Sound(status, rows, nextOid)
      /\ status \in [Xids -> Statuses] /\ Based(status, rows) /\ Ordered(status, rows)
  BY DEF RowsInv, Core, CoreTypes, NamesInv, WholeInv
<1>3. \A t \in Sessions \ {s} : ss[t].tx # InvalidXID =>
         ss[t].tx # x /\ ss[t].tx \in Xids /\ status[ss[t].tx] = "running"
  BY TxIs DEF RowsInv, Core, Apart
<1>4. Ordered(status', rows)
  BY <1>1, <1>2, DoneMoves
<1>5. v = "committed" => Whole(status, rows, x, {})
  BY <1>1, CalmIsWhole
<1> HIDE DEF x
<1>6. /\ Whole(status', rows, InvalidXID, {})
      /\ \A y \in Xids : \A busy :
            Whole(status, rows, y, busy) /\ y # x /\ status[y] = "running"
                => Whole(status', rows, y, busy)
  <2>1. CASE v = "committed"
    BY <1>1, <1>2, <1>5, <2>1, WholeCommits
  <2>2. CASE v = "aborted"
    <3>1. \A y, busy : Whole(status, rows, y, busy) /\ y # x => Whole(status', rows, y, busy)
      BY <1>1, <1>2, <2>2, WholeAborts
    <3> QED
      BY <1>1, <3>1 DEF WholeInv
  <2> QED
    BY <2>1, <2>2
<1>7. \A t \in Sessions \ {s} : DropFits(status', rows', ss[t])
  BY <1>1, <1>3, <1>6, PlansMove DEF WholeInv, DropFits
<1>8. DropFits(status', rows', Idle)
  BY DEF DropFits, Idle
<1> QED
  BY <1>1, <1>4, <1>6, <1>7, <1>8 DEF WholeKept

LEMMA DroppedIsUnseen ==
    ASSUME NEW st, NEW x \in Xids, st[x] = "running", NEW r, DroppedBy(st, x, r)
    PROVE  ~Sees(st, x, r)
<1>1. Verdict(st, x) = "running" /\ x # InvalidXID
  BY VerdictOfXid
<1> QED
  BY <1>1, Zero DEF DroppedBy, Dead, Sees

\* All the relations on the way out are gone.
LEMMA WholeDone ==
    ASSUME NEW st, NEW R, NEW x \in Xids, st[x] = "running", NEW busy, Whole(st, R, x, busy),
           \A o \in busy : ClassDone(st, R, x, o) /\ SubDone(st, R, x, o)
    PROVE  Whole(st, R, x, {})
<1>1. \A i \in DOMAIN R : R[i].oid \in busy => ~Sees(st, x, R[i])
  BY DroppedIsUnseen DEF ClassDone, SubDone, Class, Sub
<1> QED
  BY <1>1 DEF Whole

LEMMA SeenIsHeld ==
    ASSUME RowsInv, NEW s \in Sessions, NEW i \in Seen(s)
    PROVE  Held(status, rows, ss[s].tx, rows[i].oid)
<1>1. i \in DOMAIN rows /\ Sees(status, ss[s].tx, rows[i])
  BY SeenIs
<1>2. rows[i].creator = rows[i].xmin \/ Verdict(status, rows[i].creator) = "committed"
  BY <1>1, RowIs DEF RowFits
<1> QED
  BY <1>1, <1>2 DEF Held, Of, Sees

LEMMA WholeOfDone ==
    ASSUME RowsInv, WholeInv, NEW s \in Sessions, Done(s)
    PROVE  WholeKept(s) /\ DropFits(status', rows', ss'[s])
<1> DEFINE p == ss[s]
           q == ss'[s]
<1>1. /\ q.pc = "idle" /\ q.gone = {} /\ q.tx = p.tx /\ p.pc = "write" /\ p.todo = <<>>
      /\ p.tx # InvalidXID /\ rows' = rows /\ status' = status
  BY DoneIs DEF Becomes
<1>2. p.tx \in Xids /\ status[p.tx] = "running"
  BY <1>1, TxIs
<1>3. DropFits(status, rows, p)
  BY DEF WholeInv
<1> HIDE DEF p, q
<1>4. DOMAIN p.todo = {}
  BY <1>1
<1>5. Busy(p) = p.gone /\ Busy(q) = {}
  BY <1>1, <1>4 DEF Busy, InsertOids
<1>6. Plan(status, rows, p) /\ Whole(status, rows, p.tx, p.gone)
  BY <1>1, <1>3, <1>5 DEF DropFits
<1>7. \A o \in p.gone : ClassDone(status, rows, p.tx, o) /\ SubDone(status, rows, p.tx, o)
  BY <1>4, <1>6 DEF Plan, ClassLeft, SubLeft
<1>8. Whole(status, rows, p.tx, {})
  BY <1>2, <1>6, <1>7, WholeDone
<1>9. DropFits(status', rows', q)
  BY <1>1, <1>5, <1>8 DEF DropFits
<1> QED
  BY <1>1, <1>9, WholeStandsStill DEF q

LEMMA WholeOfReads ==
    ASSUME RowsInv, WholeInv, NEW s \in Sessions, Reads(s)
    PROVE  WholeKept(s) /\ DropFits(status', rows', ss'[s])
<1> DEFINE q == ss'[s]
<1>1. q.tx = ss[s].tx /\ Calm(q) /\ rows' = rows /\ status' = status
  BY ReadsAre DEF Becomes, Still
<1>2. ss[s].pc \notin {"idle", "write", "failed"}
  <2>1. \/ At(s, "run") \/ At(s, "attrs") \/ At(s, "indexes") \/ At(s, "names")
    BY Zenon DEF Reads, Lookup, LoadAttributes, LoadIndexes, LoadNames, EndStatement
  <2> QED
    BY <2>1 DEF At
<1>3. Whole(status, rows, q.tx, {})
  BY <1>1, <1>2, BusyHasTx, CalmIsWhole
<1> HIDE DEF q
<1>4. q.pc # "failed" => q.pc # "write" /\ Busy(q) = {}
  BY <1>1 DEF Calm, Busy, InsertOids
<1>5. DropFits(status', rows', q)
  BY <1>1, <1>3, <1>4 DEF DropFits
<1> QED
  BY <1>1, <1>5, WholeStandsStill DEF q

LEMMA DropTablePlan ==
    ASSUME RowsInv, NEW s \in Sessions, NEW i \in Scan(s, "class"), rows[i].kind = "table",
           NEW q, q.tx = ss[s].tx, q.gone = {rows[i].oid},
           q.todo = <<Task("indexes", 0, rows[i].oid), Task("delete", i, 0),
                      Task("attrs", 0, rows[i].oid)>>
    PROVE  Plan(status, rows, q)
<1> DEFINE o == rows[i].oid
           a == Task("indexes", 0, o)
           b == Task("delete", i, 0)
           c == Task("attrs", 0, o)
<1>1. i \in Class(rows) /\ i \in Seen(s) /\ i \in Nat /\ o \in Nat
  BY SeenIsHere, RowIs, RowsLen DEF RowsInv, Scan, Class, Rows
<1>2. /\ a.do = "indexes" /\ b.do = "delete" /\ b.tid = i /\ c.do = "attrs" /\ c.oid = o
  BY DEF Task
<1>3. /\ DOMAIN q.todo = {1, 2, 3} /\ q.todo[1] = a /\ q.todo[2] = b /\ q.todo[3] = c
  <2> HIDE DEF a, b, c
  <2> QED
    BY DEF a, b, c
<1>4. Held(status, rows, q.tx, o) /\ IsTable(rows, o)
  BY <1>1, SeenIsHeld DEF IsTable
<1>5. i \notin Sub(rows) /\ rows[i].oid = o /\ q.gone = {o}
  BY <1>1 DEF Sub, Class
<1> HIDE DEF a, b, c, o
<1>6. \A k \in DOMAIN q.todo : TaskFits(rows, q.gone, q.todo[k]) /\ q.todo[k].do # "update"
  BY <1>2, <1>3, <1>4, <1>5 DEF TaskFits
<1>7. CoversClass(rows, b, o) /\ CoversSub(rows, c, o)
  BY <1>1, <1>2, <1>5 DEF CoversClass, CoversSub
<1>8. \A k \in DOMAIN q.todo : CoversSub(rows, q.todo[k], o) => k = 3
  BY <1>2, <1>3, <1>5 DEF CoversSub
<1>9. ClassFirst(status, rows, q.tx, q.todo, o)
  <2>1. 2 \in 1 .. 3
    OBVIOUS
  <2> QED
    BY <1>3, <1>7, <1>8, <2>1 DEF ClassFirst
<1>10. ClassLeft(status, rows, q.tx, q.todo, o) /\ SubLeft(status, rows, q.tx, q.todo, o)
  BY <1>3, <1>7 DEF ClassLeft, SubLeft
<1> QED
  BY <1>4, <1>5, <1>6, <1>9, <1>10 DEF Plan

LEMMA DropIndexPlan ==
    ASSUME RowsInv, NEW s \in Sessions, NEW i \in Scan(s, "class"),
           NEW q, q.tx = ss[s].tx, q.gone = {rows[i].oid},
           q.todo = <<Task("row", i, rows[i].oid)>>
    PROVE  Plan(status, rows, q)
<1> DEFINE o == rows[i].oid
           a == Task("row", i, o)
<1>1. i \in Seen(s) /\ i \in Nat /\ o \in Nat
  BY SeenIsHere, RowIs, RowsLen DEF RowsInv, Scan, Rows
<1>2. a \in Tasks /\ a.do = "row" /\ a.tid = i /\ a.oid = o
  BY <1>1, TaskTypes DEF Task
<1>3. DOMAIN q.todo = {1} /\ q.todo[1] = a
  <2> HIDE DEF a
  <2> QED
    BY DEF a
<1>4. Held(status, rows, q.tx, o)
  BY <1>1, SeenIsHeld
<1>5. rows[i].oid = o /\ q.gone = {o}
  OBVIOUS
<1> HIDE DEF a, o
<1>6. \A k \in DOMAIN q.todo : TaskFits(rows, q.gone, q.todo[k]) /\ q.todo[k].do # "update"
  BY <1>2, <1>3, <1>5 DEF TaskFits
<1>7. CoversClass(rows, a, o) /\ CoversSub(rows, a, o)
  BY <1>2 DEF CoversClass, CoversSub
<1>8. ClassFirst(status, rows, q.tx, q.todo, o)
  <2>1. 1 \in 1 .. 1
    OBVIOUS
  <2> QED
    BY <1>3, <1>7, <2>1 DEF ClassFirst
<1>9. ClassLeft(status, rows, q.tx, q.todo, o) /\ SubLeft(status, rows, q.tx, q.todo, o)
  BY <1>3, <1>7 DEF ClassLeft, SubLeft
<1> QED
  BY <1>4, <1>5, <1>6, <1>8, <1>9 DEF Plan

LEMMA UpdatePlan ==
    ASSUME RowsInv, NEW i \in DOMAIN rows,
           NEW q, q.gone = {}, q.todo = <<Task("update", i, 0)>>
    PROVE  Plan(status, rows, q)
<1> DEFINE a == Task("update", i, 0)
<1>1. i \in Nat
  BY RowsLen DEF RowsInv
<1>2. a.do = "update"
  BY <1>1, TaskTypes
<1>3. DOMAIN q.todo = {1} /\ q.todo[1] = a /\ Len(q.todo) = 1
  <2> HIDE DEF a
  <2> QED
    BY DEF a
<1> HIDE DEF a
<1>4. \A k \in DOMAIN q.todo : TaskFits(rows, q.gone, q.todo[k])
  BY <1>2, <1>3 DEF TaskFits
<1> QED
  BY <1>3, <1>4 DEF Plan

\* A method checks what it is given, and has a plan when it drops a relation.
LEMMA PlanOfMethods ==
    ASSUME RowsInv, NEW s \in Sessions, Methods(s), ss'[s].pc = "write"
    PROVE  Plan(status, rows, ss'[s])
<1>1. ss'[s].tx = ss[s].tx
  BY MethodsAre DEF Becomes
<1>2. ASSUME NEW n \in Names, DropTable(s, n) PROVE Plan(status, rows, ss'[s])
  <2>1. PICK i \in ByName(s, n) :
           /\ rows[i].kind = "table" /\ ss'[s].gone = {rows[i].oid}
           /\ ss'[s].todo = <<Task("indexes", 0, rows[i].oid), Task("delete", i, 0),
                              Task("attrs", 0, rows[i].oid)>>
    BY <1>2, DropTableIs
  <2>2. i \in Scan(s, "class")
    BY DEF ByName
  <2> QED
    BY <1>1, <2>1, <2>2, DropTablePlan
<1>3. ASSUME NEW n \in Names, DropIndex(s, n) PROVE Plan(status, rows, ss'[s])
  <2>1. PICK i \in ByName(s, n) :
           ss'[s].gone = {rows[i].oid} /\ ss'[s].todo = <<Task("row", i, rows[i].oid)>>
    BY <1>3, DropIndexIs
  <2>2. i \in Scan(s, "class")
    BY DEF ByName
  <2> QED
    BY <1>1, <2>1, <2>2, DropIndexPlan
<1>4. ASSUME UpdateStats(s) PROVE Plan(status, rows, ss'[s])
  <2>1. PICK i \in Scan(s, "class") : ss'[s].gone = {} /\ ss'[s].todo = <<Task("update", i, 0)>>
    BY <1>4, UpdateStatsIs
  <2>2. i \in DOMAIN rows
    BY SeenIsHere DEF Scan
  <2> QED
    BY <2>1, <2>2, UpdatePlan
<1>5. ASSUME NEW n \in Names, CreateTable(s, n) \/ CreateIndex(s, n) PROVE FALSE
  BY <1>5, CreateTableIs, CreateIndexIs
<1> QED
  BY <1>2, <1>3, <1>4, <1>5 DEF Methods

LEMMA WholeOfChecks ==
    ASSUME RowsInv, WholeInv, NEW s \in Sessions, Methods(s) \/ Exists(s)
    PROVE  WholeKept(s) /\ DropFits(status', rows', ss'[s])
<1> DEFINE q == ss'[s]
<1>1. /\ Checks(s) /\ ss[s].pc \in {"run", "exists"}
      /\ q.pc = "write" => Plan(status, rows, q)
  <2>1. Exists(s) => q.pc # "write"
    BY ExistsIs
  <2> QED
    BY <2>1, MethodsAre, ExistsIs, PlanOfMethods
<1>2. q.tx = ss[s].tx /\ rows' = rows /\ status' = status
  BY <1>1 DEF Checks, Becomes, Still
<1>3. Whole(status, rows, q.tx, Busy(q))
  <2>1. Whole(status, rows, q.tx, {})
    BY <1>1, <1>2, BusyHasTx, CalmIsWhole
  <2> QED
    BY <2>1, WholeLess
<1>4. DropFits(status', rows', q)
  BY <1>1, <1>2, <1>3 DEF DropFits
<1> QED
  BY <1>2, <1>4, WholeStandsStill

\* A session at a task of its plan.
AtTask(s, do) ==
    LET q == ss[s]
        t == Now(s)
    IN  /\ q \in States /\ q.pc = "write" /\ q.todo # <<>> /\ q.todo[1] = t /\ 1 \in DOMAIN q.todo
        /\ t \in Tasks /\ t.do = do /\ q.tx \in Xids /\ status[q.tx] = "running"
        /\ Planned(rows, q.todo) /\ Plan(status, rows, q)
        /\ Whole(status, rows, q.tx, q.gone)
        /\ TaskFits(rows, q.gone, t)
        /\ \A o : CoversSub(rows, t, o) =>
              o \in q.gone /\ (ClassDone(status, rows, q.tx, o) \/ CoversClass(rows, t, o))

LEMMA TaskIs ==
    ASSUME RowsInv, WholeInv, NEW s \in Sessions, NEW do, do # "insert", Doing(s, do)
    PROVE  AtTask(s, do)
<1> DEFINE q == ss[s]
           t == Now(s)
<1>1. /\ q \in States /\ q.pc = "write" /\ q.todo # <<>> /\ q.todo[1] = t /\ 1 \in DOMAIN q.todo
      /\ t \in Tasks /\ t.do = do /\ q.tx \in Xids /\ status[q.tx] = "running"
      /\ Planned(rows, q.todo) /\ q.tx # InvalidXID
  BY DoingIs, TxIs
<1>2. DropFits(status, rows, q)
  BY DEF WholeInv
<1> HIDE DEF q, t
<1>3. InsertOids(q) = {}
  BY <1>1 DEF InsertOids, Planned
<1>4. Plan(status, rows, q) /\ Whole(status, rows, q.tx, q.gone)
  BY <1>1, <1>2, <1>3 DEF DropFits, Busy
<1>5. TaskFits(rows, q.gone, t)
  BY <1>1, <1>4 DEF Plan
<1>6. ASSUME NEW o, CoversSub(rows, t, o)
      PROVE  o \in q.gone /\ (ClassDone(status, rows, q.tx, o) \/ CoversClass(rows, t, o))
  <2>1. o \in q.gone
    BY <1>5, <1>6 DEF TaskFits, CoversSub
  <2>2. ClassFirst(status, rows, q.tx, q.todo, o)
    BY <1>4, <2>1 DEF Plan
  <2>3. \A m \in 1 .. 1 : m = 1
    OBVIOUS
  <2> QED
    BY <1>1, <1>6, <2>1, <2>2, <2>3 DEF ClassFirst
<1> QED
  BY <1>1, <1>4, <1>5, <1>6 DEF AtTask, q, t

\* The scan of a task is over, and the tasks it found are next.
LEMMA WholeGoesOn ==
    ASSUME RowsInv, WholeInv, NEW s \in Sessions, NEW do, AtTask(s, do), Still,
           NEW more \in Seq(Tasks), NEW gone, GoesOnWith(s, more, gone), ss[s].gone \subseteq gone,
           \A k \in DOMAIN more : TaskFits(rows, gone, more[k]) /\ more[k].do # "update",
           \A o \in ss[s].gone : CoversClass(rows, Now(s), o) =>
              \E m \in DOMAIN more : CoversClass(rows, more[m], o),
           \A o \in ss[s].gone : CoversSub(rows, Now(s), o) =>
              \/ SubDone(status, rows, ss[s].tx, o)
              \/ \E m \in DOMAIN more : CoversSub(rows, more[m], o),
           \A o \in gone \ ss[s].gone : /\ Held(status, rows, ss[s].tx, o)
                                        /\ \E m \in DOMAIN more : CoversClass(rows, more[m], o)
                                        /\ \E m \in DOMAIN more : CoversSub(rows, more[m], o),
           \A o \in gone : ClassFirst(status, rows, ss[s].tx, more, o)
    PROVE  WholeKept(s) /\ DropFits(status', rows', ss'[s])
<1> DEFINE p == ss[s]
           q == ss'[s]
           t == Now(s)
<1>1. /\ q.tx = p.tx /\ q.gone = gone /\ q.todo = more \o Tail(p.todo)
      /\ InsertOids(q) = {} /\ rows' = rows /\ status' = status
  BY DEF GoesOnWith, Becomes, Still
<1>2. /\ p \in States /\ p.todo # <<>> /\ p.todo[1] = t /\ Plan(status, rows, p)
      /\ Whole(status, rows, p.tx, p.gone)
  BY DEF AtTask
<1>3. /\ \A o \in p.gone : CoversClass(rows, t, o) =>
            \E m \in DOMAIN more : CoversClass(rows, more[m], o)
      /\ \A o \in p.gone : CoversSub(rows, t, o) =>
            SubDone(status, rows, p.tx, o) \/ \E m \in DOMAIN more : CoversSub(rows, more[m], o)
      /\ \A o \in gone \ p.gone : /\ Held(status, rows, p.tx, o)
                                  /\ \E m \in DOMAIN more : CoversClass(rows, more[m], o)
                                  /\ \E m \in DOMAIN more : CoversSub(rows, more[m], o)
      /\ \A o \in gone : ClassFirst(status, rows, p.tx, more, o)
      /\ p.gone \subseteq gone
  OBVIOUS
<1> HIDE DEF p, q, t
<1>4. Plan(status, rows, q)
  BY <1>1, <1>2, <1>3, PlanGoesOn
<1>5. Whole(status, rows, q.tx, Busy(q))
  BY <1>1, <1>2, <1>3, WholeLess DEF Busy
<1>6. DropFits(status', rows', q)
  BY <1>1, <1>4, <1>5 DEF DropFits
<1> QED
  BY <1>1, <1>6, WholeStandsStill DEF q

LEMMA WholeGivesUp ==
    ASSUME WholeInv, NEW s \in Sessions, Still, GivesUp(s)
    PROVE  WholeKept(s) /\ DropFits(status', rows', ss'[s])
<1>1. WholeKept(s)
  BY WholeStandsStill DEF Still
<1>2. DropFits(status', rows', ss'[s])
  BY DEF GivesUp, DropFits
<1> QED
  BY <1>1, <1>2

\* The indexes of a table: each goes with its pg_class row first.
LEMMA WholeOfFindIndexes ==
    ASSUME RowsInv, WholeInv, NEW s \in Sessions, FindIndexes(s)
    PROVE  WholeKept(s) /\ DropFits(status', rows', ss'[s])
<1> DEFINE found == {j \in Scan(s, "index") : rows[j].rel = Now(s).oid}
           more  == IndexTasks(s, found)
           tids  == SetToSeq(found)
           gone  == ss[s].gone \cup {rows[j].oid : j \in found}
<1>1. AtTask(s, "indexes")
  BY TaskIs DEF FindIndexes
<1>2. Still /\ GoesOnWith(s, more, gone) /\ found \subseteq Seen(s) /\ found \subseteq DOMAIN rows
  BY FindIndexesIs, SeenIsHere
<1>3. \A j \in found : rows[j].oid \in gone /\ j \in Sub(rows) /\ j \in Nat /\ rows[j].oid \in Nat
  BY <1>2, RowIs, RowsLen DEF Scan, Sub, RowsInv, Rows
<1>4. \A o \in gone \ ss[s].gone : \E j \in found : rows[j].oid = o
  OBVIOUS
<1>5. ss[s].gone \subseteq gone
  OBVIOUS
<1> HIDE DEF found, gone
<1>6. /\ more \in Seq(Tasks) /\ Len(more) = 2 * Len(tids) /\ Len(tids) \in Nat
      /\ \A k \in 1 .. Len(tids) :
            /\ more[2 * k - 1] = Task("class", 0, rows[tids[k]].oid)
            /\ more[2 * k] = Task("delete", tids[k], 0)
            /\ tids[k] \in found
      /\ \A k \in 1 .. 2 * Len(tids) : \E m \in 1 .. Len(tids) : k = 2 * m \/ k = 2 * m - 1
      /\ \A i \in found : \E k \in 1 .. Len(tids) : tids[k] = i
  BY <1>2, IndexTasksAre DEF RowsInv
<1>7. DOMAIN more = 1 .. 2 * Len(tids)
  BY <1>6, LenProperties
<1> HIDE DEF more, tids
<1>8. ASSUME NEW k \in 1 .. Len(tids)
      PROVE  /\ tids[k] \in found
             /\ 2 * k \in DOMAIN more /\ more[2 * k].do = "delete" /\ more[2 * k].tid = tids[k]
             /\ 2 * k - 1 \in DOMAIN more /\ more[2 * k - 1].do = "class"
             /\ more[2 * k - 1].oid = rows[tids[k]].oid /\ 2 * k - 1 \in 1 .. 2 * k
  <2>1. 2 * k \in DOMAIN more /\ 2 * k - 1 \in DOMAIN more /\ 2 * k - 1 \in 1 .. 2 * k
    BY <1>6, <1>7
  <2>2. tids[k] \in found
    BY <1>6
  <2>3. more[2 * k - 1] = Task("class", 0, rows[tids[k]].oid) /\ more[2 * k] = Task("delete", tids[k], 0)
    BY <1>6
  <2> QED
    BY <2>1, <2>2, <2>3 DEF Task
<1>9. ASSUME NEW k \in 1 .. Len(tids)
      PROVE  LET o == rows[tids[k]].oid IN
             /\ TaskFits(rows, gone, more[2 * k]) /\ more[2 * k].do # "update"
             /\ TaskFits(rows, gone, more[2 * k - 1]) /\ more[2 * k - 1].do # "update"
             /\ CoversClass(rows, more[2 * k - 1], o) /\ CoversSub(rows, more[2 * k], o)
             /\ \A a : ~CoversSub(rows, more[2 * k - 1], a)
             /\ \A a : CoversSub(rows, more[2 * k], a) => a = o
  BY <1>3, <1>8 DEF TaskFits, CoversClass, CoversSub
<1>10. ASSUME NEW k \in DOMAIN more
       PROVE  \E m \in 1 .. Len(tids) : k = 2 * m \/ k = 2 * m - 1
  BY <1>6, <1>7
<1>11. \A k \in DOMAIN more : TaskFits(rows, gone, more[k]) /\ more[k].do # "update"
  BY <1>9, <1>10, Zenon
<1>12. \A o \in gone \ ss[s].gone : /\ Held(status, rows, ss[s].tx, o)
                                    /\ \E m \in DOMAIN more : CoversClass(rows, more[m], o)
                                    /\ \E m \in DOMAIN more : CoversSub(rows, more[m], o)
  <2> SUFFICES ASSUME NEW o \in gone \ ss[s].gone
               PROVE  /\ Held(status, rows, ss[s].tx, o)
                      /\ \E m \in DOMAIN more : CoversClass(rows, more[m], o)
                      /\ \E m \in DOMAIN more : CoversSub(rows, more[m], o)
    OBVIOUS
  <2>1. PICK j \in found : rows[j].oid = o
    BY <1>4
  <2>2. PICK k \in 1 .. Len(tids) : tids[k] = j
    BY <1>6
  <2>3. CoversClass(rows, more[2 * k - 1], o) /\ CoversSub(rows, more[2 * k], o)
    BY <1>9, <2>1, <2>2
  <2>4. Held(status, rows, ss[s].tx, o)
    BY <1>2, <2>1, SeenIsHeld
  <2> QED
    BY <1>8, <2>3, <2>4, Zenon
<1>13. \A o \in gone : ClassFirst(status, rows, ss[s].tx, more, o)
  <2> SUFFICES ASSUME NEW o \in gone, NEW k \in DOMAIN more, CoversSub(rows, more[k], o)
               PROVE  \E m \in 1 .. k : CoversClass(rows, more[m], o)
    BY DEF ClassFirst
  <2>1. PICK m \in 1 .. Len(tids) : k = 2 * m \/ k = 2 * m - 1
    BY <1>10
  <2>2. k = 2 * m /\ CoversClass(rows, more[2 * m - 1], o)
    BY <1>9, <2>1, Zenon
  <2> QED
    BY <1>8, <2>2, Zenon
<1>14. \A o : ~CoversClass(rows, Now(s), o) /\ ~CoversSub(rows, Now(s), o)
  BY <1>1 DEF AtTask, CoversClass, CoversSub
<1>15. /\ AtTask(s, "indexes") /\ Still /\ more \in Seq(Tasks) /\ GoesOnWith(s, more, gone)
       /\ ss[s].gone \subseteq gone
  BY <1>1, <1>2, <1>5, <1>6 DEF more
<1> QED
  BY <1>11, <1>12, <1>13, <1>14, <1>15, WholeGoesOn


\* The attributes that a session does not find are gone already.
LEMMA SubIsGone ==
    ASSUME RowsInv, NEW s \in Sessions, ss[s].tx \in Xids, NEW o,
           Held(status, rows, ss[s].tx, o),
           NEW i \in Sub(rows), rows[i].oid = o, i \notin Seen(s)
    PROVE  DroppedBy(status, ss[s].tx, rows[i])
<1>1. i \in DOMAIN rows /\ rows[i].cat # "class" /\ RowFits(status, nextOid, rows[i])
  BY RowIs DEF Sub
<1>2. PICK j \in Of(rows, o) :
         rows[j].creator = ss[s].tx \/ Verdict(status, rows[j].creator) = "committed"
  BY DEF Held
<1>3. rows[i].creator = rows[j].creator
  BY <1>1, <1>2 DEF RowsInv, Core, Sound, PairsFit, PairFits, Of
<1>4. rows[i].xmin = ss[s].tx \/ Verdict(status, rows[i].xmin) = "committed"
  BY <1>1, <1>2, <1>3 DEF RowFits
<1>5. ~Sees(status, ss[s].tx, rows[i])
  BY <1>1, SeenIs
<1> QED
  BY <1>4, <1>5 DEF Sees, DroppedBy, Dead

LEMMA WholeOfFindAttributes ==
    ASSUME RowsInv, WholeInv, NEW s \in Sessions, FindAttributes(s)
    PROVE  WholeKept(s) /\ DropFits(status', rows', ss'[s])
<1> DEFINE a     == Now(s).oid
           found == {j \in Scan(s, "attr") : rows[j].oid = a}
           more  == Deletes(found)
           tids  == SetToSeq(found)
           gone  == ss[s].gone
<1>1. AtTask(s, "attrs")
  BY TaskIs DEF FindAttributes
<1>2. Still /\ GoesOnWith(s, more, gone) /\ found \subseteq Seen(s) /\ found \subseteq DOMAIN rows
  BY FindAttributesIs, SeenIsHere
<1>3. \A j \in found : rows[j].oid = a /\ j \in Sub(rows) /\ j \in Nat
  BY <1>2, RowsLen DEF Scan, Sub, RowsInv
<1>4. /\ more \in Seq(Tasks) /\ Len(more) = Len(tids) /\ Len(tids) \in Nat
      /\ \A k \in 1 .. Len(tids) : more[k] = Task("delete", tids[k], 0) /\ tids[k] \in found
      /\ \A i \in found : \E k \in 1 .. Len(tids) : tids[k] = i
  BY <1>2, DeletesAre DEF RowsInv
<1>5. DOMAIN more = 1 .. Len(tids)
  BY <1>4, LenProperties
<1>6. found = {} => \A i \in Sub(rows) : rows[i].oid = a /\ rows[i].cat = "attr" => i \notin Seen(s)
  BY DEF Scan
<1>7. /\ a \in gone /\ IsTable(rows, a) /\ Now(s).do = "attrs" /\ Plan(status, rows, ss[s])
      /\ ss[s].tx \in Xids
      /\ \A o : CoversSub(rows, Now(s), o) => ClassDone(status, rows, ss[s].tx, o)
                                                \/ CoversClass(rows, Now(s), o)
  BY <1>1 DEF AtTask, TaskFits
<1> HIDE DEF found, more, tids
<1>8. ASSUME NEW k \in DOMAIN more
      PROVE  more[k].do = "delete" /\ more[k].tid \in found
  <2>1. more[k] = Task("delete", tids[k], 0) /\ tids[k] \in found
    BY <1>4, <1>5
  <2> QED
    BY <2>1 DEF Task
<1>9. \A k \in DOMAIN more : TaskFits(rows, gone, more[k]) /\ more[k].do # "update"
  BY <1>3, <1>7, <1>8 DEF TaskFits
<1>10. \A o : ~CoversClass(rows, Now(s), o) /\ (CoversSub(rows, Now(s), o) <=> o = a)
  BY <1>7 DEF CoversClass, CoversSub
<1>11. SubDone(status, rows, ss[s].tx, a) \/ \E m \in DOMAIN more : CoversSub(rows, more[m], a)
  <2>1. CASE found = {}
    <3>1. Held(status, rows, ss[s].tx, a)
      BY <1>7 DEF Plan
    <3>2. ASSUME NEW i \in Sub(rows), rows[i].oid = a PROVE rows[i].cat = "attr"
      <4>1. PICK c \in Class(rows) : rows[c].oid = a /\ rows[c].kind = "table"
        BY <1>7 DEF IsTable
      <4>2. PairFits(rows[c], rows[i])
        BY <3>2, <4>1 DEF RowsInv, Core, Sound, PairsFit, Class, Sub
      <4> QED
        BY <4>1, <4>2 DEF PairFits, Class, Sub
    <3> QED
      BY <1>6, <1>7, <2>1, <3>1, <3>2, SubIsGone DEF SubDone
  <2>2. CASE found # {}
    <3>1. PICK j \in found : TRUE
      BY <2>2
    <3>2. PICK k \in 1 .. Len(tids) : tids[k] = j
      BY <1>4
    <3>3. k \in DOMAIN more /\ more[k] = Task("delete", j, 0)
      BY <1>4, <1>5, <3>2
    <3>4. CoversSub(rows, more[k], a)
      BY <1>3, <3>1, <3>3 DEF Task, CoversSub
    <3> QED
      BY <3>3, <3>4
  <2> QED
    BY <2>1, <2>2
<1>12. \A o \in gone : ClassFirst(status, rows, ss[s].tx, more, o)
  <2> SUFFICES ASSUME NEW o \in gone, NEW k \in DOMAIN more, CoversSub(rows, more[k], o)
               PROVE  ClassDone(status, rows, ss[s].tx, o)
    BY DEF ClassFirst
  <2>1. o = a
    BY <1>3, <1>8 DEF CoversSub
  <2> QED
    BY <1>7, <1>10, <2>1
<1> QED
  BY <1>1, <1>2, <1>4, <1>9, <1>10, <1>11, <1>12, WholeGoesOn


LEMMA WholeOfFindClass ==
    ASSUME RowsInv, WholeInv, NEW s \in Sessions, FindClass(s)
    PROVE  WholeKept(s) /\ DropFits(status', rows', ss'[s])
<1> DEFINE gone == ss[s].gone
<1>1. AtTask(s, "class")
  BY TaskIs DEF FindClass
<1>2. CASE Still /\ GivesUp(s)
  BY <1>2, WholeGivesUp
<1>3. ASSUME NEW i \in ByOid(s, Now(s).oid), Still,
             GoesOnWith(s, <<Task("delete", i, 0)>>, gone)
      PROVE  WholeKept(s) /\ DropFits(status', rows', ss'[s])
  <2> DEFINE a    == Task("delete", i, 0)
             more == <<a>>
  <2>1. i \in Class(rows) /\ i \in Nat /\ rows[i].oid = Now(s).oid
    BY FoundAreRows, RowsLen, SeenIsHere DEF ByOid, Scan, Class, RowsInv
  <2>2. a \in Tasks /\ a.do = "delete" /\ a.tid = i
    BY <2>1, TaskTypes
  <2>3. more \in Seq(Tasks) /\ DOMAIN more = {1} /\ more[1] = a
    <3> HIDE DEF a
    <3> QED
      BY <2>2
  <2>4. Now(s).do = "class" /\ Now(s).oid \in gone
    BY <1>1 DEF AtTask, TaskFits
  <2>5. GoesOnWith(s, more, gone)
    BY <1>3
  <2> HIDE DEF a, more
  <2>6. \A k \in DOMAIN more : TaskFits(rows, gone, more[k]) /\ more[k].do # "update"
    BY <2>1, <2>2, <2>3, <2>4 DEF TaskFits
  <2>7. \A o : CoversClass(rows, Now(s), o) => \E m \in DOMAIN more : CoversClass(rows, more[m], o)
    BY <2>1, <2>2, <2>3, <2>4 DEF CoversClass
  <2>8. \A o : ~CoversSub(rows, Now(s), o)
    BY <2>4 DEF CoversSub
  <2>9. \A o \in gone : ClassFirst(status, rows, ss[s].tx, more, o)
    BY <2>1, <2>2, <2>3 DEF ClassFirst, CoversSub, Class, Sub
  <2>10. gone \subseteq gone /\ gone \ ss[s].gone = {}
    OBVIOUS
  <2> QED
    BY <1>1, <1>3, <2>3, <2>5, <2>6, <2>7, <2>8, <2>9, <2>10, WholeGoesOn
<1> QED
  BY <1>2, <1>3, FindClassIs

LEMMA WholeOfFindIndexRow ==
    ASSUME RowsInv, WholeInv, NEW s \in Sessions, FindIndexRow(s)
    PROVE  WholeKept(s) /\ DropFits(status', rows', ss'[s])
<1> DEFINE gone == ss[s].gone
           i    == Now(s).tid
<1>1. AtTask(s, "row")
  BY TaskIs DEF FindIndexRow
<1>2. CASE Still /\ GivesUp(s)
  BY <1>2, WholeGivesUp
<1>3. ASSUME NEW j \in Scan(s, "index"), Still, rows[j].oid = Now(s).oid,
             GoesOnWith(s, <<Task("delete", i, 0), Task("delete", j, 0)>>, gone)
      PROVE  WholeKept(s) /\ DropFits(status', rows', ss'[s])
  <2> DEFINE a    == Task("delete", i, 0)
             b    == Task("delete", j, 0)
             more == <<a, b>>
  <2>1. /\ Now(s).do = "row" /\ Now(s).oid \in gone /\ rows[i].oid = Now(s).oid
        /\ i \in Class(rows) /\ i \in Nat
    <3>1. /\ Now(s).do = "row" /\ Now(s).oid \in gone /\ rows[i].oid = Now(s).oid
          /\ Planned(rows, ss[s].todo) /\ ss[s].todo[1] = Now(s) /\ 1 \in DOMAIN ss[s].todo
      BY <1>1 DEF AtTask, TaskFits
    <3>2. i \in DOMAIN rows /\ rows[i].cat = "class"
      BY <3>1 DEF Planned
    <3> QED
      BY <3>1, <3>2, RowsLen DEF Class, RowsInv
  <2>2. j \in Sub(rows) /\ j \in Nat
    BY FoundAreRows, RowsLen DEF Scan, Sub, RowsInv
  <2>3. a \in Tasks /\ a.do = "delete" /\ a.tid = i /\ b \in Tasks /\ b.do = "delete" /\ b.tid = j
    BY <2>1, <2>2, TaskTypes
  <2>4. more \in Seq(Tasks) /\ DOMAIN more = {1, 2} /\ more[1] = a /\ more[2] = b
    <3> HIDE DEF a, b
    <3> QED
      BY <2>3
  <2>5. GoesOnWith(s, more, gone)
    BY <1>3
  <2> HIDE DEF a, b, more, i
  <2>6. \A k \in DOMAIN more : TaskFits(rows, gone, more[k]) /\ more[k].do # "update"
    BY <1>3, <2>1, <2>2, <2>3, <2>4 DEF TaskFits
  <2>7. CoversClass(rows, more[1], Now(s).oid) /\ CoversSub(rows, more[2], Now(s).oid)
    BY <1>3, <2>1, <2>2, <2>3, <2>4 DEF CoversClass, CoversSub
  <2>8. \A o : CoversClass(rows, Now(s), o) \/ CoversSub(rows, Now(s), o) => o = Now(s).oid
    BY <2>1 DEF CoversClass, CoversSub
  <2>9. \A k \in DOMAIN more : \A o : CoversSub(rows, more[k], o) => k = 2 /\ o = Now(s).oid
    BY <1>3, <2>1, <2>2, <2>3, <2>4 DEF CoversSub, Class, Sub
  <2>10. \A o \in gone : ClassFirst(status, rows, ss[s].tx, more, o)
    <3>1. 1 \in 1 .. 2
      OBVIOUS
    <3> QED
      BY <2>7, <2>9, <3>1 DEF ClassFirst
  <2>11. gone \subseteq gone /\ gone \ ss[s].gone = {} /\ 1 \in DOMAIN more /\ 2 \in DOMAIN more
    BY <2>4
  <2>12. /\ \A o : CoversClass(rows, Now(s), o) => \E m \in DOMAIN more : CoversClass(rows, more[m], o)
         /\ \A o : CoversSub(rows, Now(s), o) => \E m \in DOMAIN more : CoversSub(rows, more[m], o)
    BY <2>7, <2>8, <2>11
  <2> QED
    BY <1>1, <1>3, <2>4, <2>5, <2>6, <2>10, <2>11, <2>12, WholeGoesOn
<1> QED
  BY <1>2, <1>3, FindIndexRowIs

\* Whether a session waits is no concern of its plan.
LEMMA WholeOfWaits ==
    ASSUME RowsInv, WholeInv, NEW s \in Sessions, RowWaits(s) \/ Wake(s)
    PROVE  WholeKept(s) /\ DropFits(status', rows', ss'[s])
<1> DEFINE p == ss[s]
           q == ss'[s]
<1>1. /\ q.tx = p.tx /\ q.pc = p.pc /\ q.todo = p.todo /\ q.gone = p.gone /\ Still
      /\ InsertOids(q) = InsertOids(p)
  <2>1. RowWaits(s) => ss[s].pc = "write"
    BY DEF RowWaits, Doing, At
  <2> QED
    BY <2>1, RowWaitsIs, WakeIs DEF Becomes
<1>2. DropFits(status, rows, p)
  BY DEF WholeInv
<1> HIDE DEF p, q
<1>3. DropFits(status, rows, q)
  BY <1>1, <1>2 DEF DropFits, Plan, Busy
<1> QED
  BY <1>1, <1>3, WholeStandsStill DEF Still, q

LEMMA WholeOfCreate ==
    ASSUME RowsInv, WholeInv, NEW s \in Sessions, Create(s)
    PROVE  WholeKept(s) /\ DropFits(status', rows', ss'[s])
<1> DEFINE q == ss'[s]
<1>1. /\ q.tx = ss[s].tx /\ q.gone = {} /\ TwoLeft(status, rows, nextOid + 1, q)
      /\ ss[s].pc = "create" /\ ss[s].tx # InvalidXID /\ q \in States
      /\ rows' = rows /\ status' = status
  BY CreateIs DEF Becomes
<1>2. Whole(status, rows, q.tx, {})
  BY <1>1, CalmIsWhole
<1> HIDE DEF q
<1>3. \A k \in DOMAIN q.todo : q.todo[k].do = "insert"
  BY <1>1, LenProperties DEF TwoLeft, States
<1>4. DropFits(status', rows', q)
  BY <1>1, <1>2, <1>3, PlanTrivial, WholeLess DEF DropFits
<1> QED
  BY <1>1, <1>4, WholeStandsStill DEF q


\* Who inserts a row leaves the others what they saw, and what they plan.
LEMMA OthersSeeInsert ==
    ASSUME RowsInv, WholeInv, NEW s \in Sessions, InsertRow(s), NEW t \in Sessions \ {s}
    PROVE  DropFits(status', rows', ss[t])
<1> DEFINE r == Now(s).row
           x == ss[s].tx
           q == ss[t]
<1>1. /\ Adds(rows, rows', r) /\ status' = status
      /\ r.creator = x /\ r.xmin = x /\ x \in Xids /\ status[x] = "running" /\ x # InvalidXID
      /\ r.cat = "class" => Of(rows, r.oid) = {}
      /\ r.cat # "class" => \A i \in Of(rows, r.oid) : PairFits(rows[i], r)
  <2>1. Doing(s, "insert")
    BY DEF InsertRow
  <2> QED
    BY <2>1, InsertRowIs, InsertIs, DoingIs
<1>2. q.tx # x
  BY <1>1 DEF RowsInv, Core, Apart
<1>3. DropFits(status, rows, q)
  BY DEF WholeInv
<1>4. q.pc = "write" => \A k \in DOMAIN q.todo :
         q.todo[k].do \in {"delete", "row"} => q.todo[k].tid \in DOMAIN rows
  BY TidsAre
<1> HIDE DEF r, x, q
<1>5. /\ \A a : IsTable(rows, a) => IsTable(rows', a)
      /\ \A k \in DOMAIN rows : /\ k \in DOMAIN rows' /\ rows'[k].oid = rows[k].oid
                                /\ rows'[k].cat = rows[k].cat
  BY <1>1, AddsKeepTables
<1>6. ASSUME q.pc = "write" PROVE Plan(status, rows', q)
  <2>1. Plan(status, rows, q)
    BY <1>3, <1>6 DEF DropFits
  <2>2. ASSUME NEW o \in q.gone
        PROVE  /\ Held(status, rows', q.tx, o)
               /\ ClassDone(status, rows, q.tx, o) => ClassDone(status, rows', q.tx, o)
               /\ SubDone(status, rows, q.tx, o) => SubDone(status, rows', q.tx, o)
    <3>1. Held(status, rows, q.tx, o)
      BY <2>1, <2>2 DEF Plan
    <3> QED
      BY <1>1, <1>2, <3>1, DoneAdds
  <2>3. \A k \in DOMAIN q.todo :
           q.todo[k].do \in {"delete", "row"} => q.todo[k].tid \in DOMAIN rows
    BY <1>4, <1>6
  <2> QED
    BY ONLY <1>5, <2>1, <2>2, <2>3, PlanKeeps
<1>7. ASSUME q.tx # InvalidXID, q.pc # "failed" PROVE Whole(status, rows', q.tx, Busy(q))
  <2>1. Whole(status, rows, q.tx, Busy(q))
    BY <1>3, <1>7 DEF DropFits
  <2> QED
    BY <1>1, <1>2, <2>1, WholeAdds
<1> QED
  BY <1>1, <1>6, <1>7 DEF DropFits, q

LEMMA WholeOfInsert ==
    ASSUME RowsInv, WholeInv, NEW s \in Sessions, InsertRow(s)
    PROVE  WholeKept(s) /\ DropFits(status', rows', ss'[s])
<1> DEFINE r == Now(s).row
           p == ss[s]
           q == ss'[s]
<1>1. /\ Adds(rows, rows', r) /\ status' = status
      /\ r.xmin = p.tx /\ p.tx \in Xids /\ status[p.tx] = "running" /\ p.tx # InvalidXID
      /\ r.xmax = InvalidXID
      /\ r.cat = "class" => Of(rows, r.oid) = {}
      /\ q \in States /\ q.tx = p.tx /\ q.gone = p.gone /\ q.pc = "write"
      /\ r = p.todo[1].row /\ p.pc = "write" /\ p.todo[1].do = "insert" /\ 1 \in DOMAIN p.todo
      /\ p.todo \in Seq(Tasks)
      /\ InsertOids(p) = {r.oid}
      /\ \/ TwoLeft(status, rows, nextOid, p) /\ OneLeft(rows', nextOid, q)
         \/ OneLeft(rows, nextOid, p) /\ q.todo = <<>>
  <2>1. Doing(s, "insert")
    BY DEF InsertRow
  <2> QED
    BY <2>1, InsertRowIs, InsertIs, DoingIs DEF Popped, Becomes, States
<1>2. DropFits(status, rows, p) /\ Fits(status, rows, nextOid, p)
  BY DEF WholeInv, RowsInv, Core, SessionsFit
<1>3. Ordered(status', rows')
  BY <1>1, OrderedAdds DEF WholeInv
<1>4. Whole(status', rows', InvalidXID, {})
  BY <1>1, WholeAdds DEF WholeInv
<1>5. \A t \in Sessions \ {s} : DropFits(status', rows', ss[t])
  BY OthersSeeInsert
<1> HIDE DEF p, q, r
<1>6. p.gone = {} /\ Busy(p) = {r.oid}
  <2>1. ~Planned(rows, p.todo)
    BY <1>1 DEF Planned
  <2> QED
    BY <1>1, <1>2, <2>1 DEF Fits, Busy
<1>7. Whole(status, rows, p.tx, {r.oid})
  BY <1>1, <1>2, <1>6 DEF DropFits
<1>8. CASE TwoLeft(status, rows, nextOid, p) /\ OneLeft(rows', nextOid, q)
  <2>1. \A k \in DOMAIN q.todo : q.todo[k].do = "insert"
    BY <1>1, <1>8, LenProperties DEF OneLeft, States
  <2>2. q.todo[1].row.oid = r.oid
    <3>1. q.todo[1] = p.todo[2]
      BY SMTT(30), InsertRowIs, PoppedIs, <1>8 DEF p, q, InsertRow, Doing, At, TwoLeft
    <3> QED
      BY <1>1, <1>8, <3>1 DEF TwoLeft, NewPair
  <2>3. Busy(q) = {r.oid}
    <3>1. DOMAIN q.todo = {1} /\ q.todo[1].do = "insert"
      BY <1>1, <1>8, LenProperties DEF OneLeft, States
    <3> QED
      BY <1>1, <1>6, <2>2, <3>1 DEF Busy, InsertOids
  <2>4. Whole(status, rows', p.tx, {r.oid})
    BY <1>1, <1>7, WholeAdds
  <2>5. Plan(status, rows', q)
    BY <1>1, <1>6, <2>1, PlanTrivial
  <2> QED
    BY <1>1, <2>3, <2>4, <2>5, <1>3, <1>4, <1>5 DEF DropFits, WholeKept, q
<1>9. CASE OneLeft(rows, nextOid, p) /\ q.todo = <<>>
  <2>1. DOMAIN q.todo = {}
    BY <1>9
  <2>2. Busy(q) = {} /\ Plan(status, rows', q)
    BY <1>1, <1>6, <2>1, PlanTrivial DEF Busy, InsertOids
  <2>3. /\ NewSub(rows, p, r)
        /\ \E c \in DOMAIN rows : Of(rows, r.oid) = {c} /\ NewPair(p, rows[c], r)
    BY <1>1, <1>9 DEF OneLeft
  <2>4. Whole(status, rows', p.tx, {})
    BY <1>1, <1>7, <2>3, WholeCloses
  <2> QED
    BY <1>1, <2>2, <2>4, <1>3, <1>4, <1>5 DEF DropFits, WholeKept, q
<1> QED
  BY <1>1, <1>8, <1>9


\* A plan goes on as a row is stamped, whoever stamps it.
LEMMA PlanStamps ==
    ASSUME NEW st, NEW R \in Seq(Rows), NEW R2, NEW x \in Xids, st[x] = "running",
           NEW i, NEW more, Stamps(R, R2, x, i, more), Open(st, x, R[i]),
           NEW q, Plan(st, R, q), Verdict(st, q.tx) # "aborted",
           \A k \in DOMAIN q.todo : q.todo[k].do \in {"delete", "row"} => q.todo[k].tid \in DOMAIN R
    PROVE  Plan(st, R2, q)
<1>1. x \in Ids
  BY Numbers
<1>2. \A o : /\ ClassDone(st, R, q.tx, o) => ClassDone(st, R2, q.tx, o)
             /\ SubDone(st, R, q.tx, o) => SubDone(st, R2, q.tx, o)
             /\ Held(st, R, q.tx, o) => Held(st, R2, q.tx, o)
  <2> DEFINE y == q.tx
  <2>1. Verdict(st, y) # "aborted"
    OBVIOUS
  <2> HIDE DEF y
  <2>2. \A o : /\ ClassDone(st, R, y, o) => ClassDone(st, R2, y, o)
               /\ SubDone(st, R, y, o) => SubDone(st, R2, y, o)
               /\ Held(st, R, y, o) => Held(st, R2, y, o)
    BY <2>1, DoneStamps
  <2> QED
    BY <2>2 DEF y
<1>3. /\ \A a : IsTable(R, a) => IsTable(R2, a)
      /\ \A k \in DOMAIN R : k \in DOMAIN R2 /\ R2[k].cat = R[k].cat /\ R2[k].oid = R[k].oid
  BY <1>1, StampsKeepTables
<1>4. /\ Plan(st, R, q)
      /\ \A k \in DOMAIN q.todo : q.todo[k].do \in {"delete", "row"} => q.todo[k].tid \in DOMAIN R
  OBVIOUS
<1> QED
  BY ONLY <1>2, <1>3, <1>4, PlanKeeps

\* Who stamps a row leaves the others what they saw, and what they plan.
LEMMA OthersSeeWrite ==
    ASSUME RowsInv, WholeInv, NEW s \in Sessions, WriteRow(s), NEW t \in Sessions \ {s}
    PROVE  DropFits(status', rows', ss[t])
<1> DEFINE x == ss[s].tx
           i == Now(s).tid
           more == IF Now(s).do = "delete" THEN {} ELSE {Len(rows) + 1}
           q == ss[t]
<1>1. /\ Stamps(rows, rows', x, i, more) /\ x \in Xids /\ status[x] = "running"
      /\ Open(status, x, rows[i]) /\ status' = status /\ rows \in Seq(Rows)
  BY WriteRowIs DEF RowsInv, Core, CoreTypes
<1>2. q.tx # x /\ (q.tx # InvalidXID => q.tx \in Xids /\ status[q.tx] = "running")
  <2>1. x # InvalidXID
    BY <1>1, VerdictOfXid
  <2> QED
    BY <2>1, TxIs DEF RowsInv, Core, Apart
<1>3. DropFits(status, rows, q)
  BY DEF WholeInv
<1>4. q.pc = "write" => /\ q.tx # InvalidXID
                        /\ \A k \in DOMAIN q.todo :
                             q.todo[k].do \in {"delete", "row"} => q.todo[k].tid \in DOMAIN rows
  BY TidsAre, BusyHasTx
<1> HIDE DEF i, x, q, more
<1>5. q.tx # InvalidXID => Verdict(status, q.tx) # "aborted"
  BY <1>2, VerdictOfXid
<1>6. q.pc = "write" => Plan(status, rows', q)
  BY <1>1, <1>3, <1>4, <1>5, PlanStamps DEF DropFits
<1>7. ASSUME q.tx # InvalidXID, q.pc # "failed" PROVE Whole(status, rows', q.tx, Busy(q))
  <2>1. Whole(status, rows, q.tx, Busy(q)) /\ q.tx # x /\ Verdict(status, q.tx) # "aborted"
    BY <1>2, <1>3, <1>5, <1>7 DEF DropFits
  <2> QED
    BY <1>1, <2>1, WholeToOthers
<1> QED
  BY <1>1, <1>6, <1>7 DEF DropFits, q

\* A row is deleted: the relation is on the way out.
LEMMA WholeOfDelete ==
    ASSUME RowsInv, WholeInv, NEW s \in Sessions, WriteRow(s), AtTask(s, "delete")
    PROVE  DropFits(status', rows', ss'[s])
<1> DEFINE p == ss[s]
           q == ss'[s]
           x == ss[s].tx
           i == Now(s).tid
           t == Now(s)
<1>1. /\ Stamps(rows, rows', x, i, {}) /\ x \in Xids /\ status[x] = "running"
      /\ Open(status, x, rows[i]) /\ status' = status
      /\ q.tx = p.tx /\ q.gone = p.gone /\ q.todo = Tail(p.todo) /\ Planned(rows', q.todo)
  BY WriteRowIs DEF Popped, Becomes, AtTask
<1>2. /\ p \in States /\ p.pc = "write" /\ p.todo # <<>> /\ p.todo[1] = t
      /\ t.do = "delete" /\ t.tid = i
      /\ Plan(status, rows, p) /\ Whole(status, rows, x, p.gone) /\ TaskFits(rows, p.gone, t)
  BY DEF AtTask
<1>3. /\ Sound(status, rows, nextOid) /\ nextOid \in Nat /\ rows \in Seq(Rows)
      /\ \A k \in DOMAIN p.todo : p.todo[k].do \in {"delete", "row"} => p.todo[k].tid \in DOMAIN rows
  <2>1. \A k \in DOMAIN p.todo : p.todo[k].do \in {"delete", "row"} => p.todo[k].tid \in DOMAIN rows
    BY <1>2, TidsAre
  <2> QED
    BY <2>1 DEF RowsInv, Core, CoreTypes
<1>4. p.tx = x
  OBVIOUS
<1> HIDE DEF p, q, x, i, t
<1>5. Verdict(status, x) # "aborted" /\ x \in Ids
  BY <1>1, VerdictOfXid, Numbers
<1>6. Plan(status, rows', p)
  BY <1>1, <1>2, <1>3, <1>4, <1>5, PlanStamps
<1>7. /\ i \in Class(rows) => ClassDone(status, rows', x, rows[i].oid)
      /\ i \in Sub(rows) => SubDone(status, rows', x, rows[i].oid)
  BY <1>1, <1>3, StampCloses
<1>8. /\ i \in DOMAIN rows /\ i \in DOMAIN rows'
      /\ rows'[i].oid = rows[i].oid /\ rows'[i].cat = rows[i].cat
  <2>1. i \in DOMAIN rows
    BY <1>1 DEF Stamps
  <2> QED
    BY <1>1, <1>3, <1>5, <2>1, StampsSame
<1>9. /\ \A o : CoversClass(rows', t, o) => ClassDone(status, rows', x, o)
      /\ \A o : CoversSub(rows', t, o) => SubDone(status, rows', x, o)
  BY <1>2, <1>7, <1>8 DEF CoversClass, CoversSub, Class, Sub
<1> DEFINE none == <<>>
<1>10. none \in Seq(Tasks) /\ DOMAIN none = {} /\ none \o Tail(p.todo) = Tail(p.todo)
  <2>1. Tail(p.todo) \in Seq(Tasks)
    BY <1>2 DEF States
  <2> QED
    BY <2>1
<1> HIDE DEF none
<1>11. Plan(status, rows', q)
  <2>1. q.todo = none \o Tail(p.todo) /\ q.tx = p.tx /\ p.gone \subseteq q.gone
    BY <1>1, <1>10
  <2>2. /\ \A o \in p.gone : CoversClass(rows', p.todo[1], o) => ClassDone(status, rows', p.tx, o)
        /\ \A o \in p.gone : CoversSub(rows', p.todo[1], o) => SubDone(status, rows', p.tx, o)
        /\ q.gone \ p.gone = {}
    BY <1>1, <1>2, <1>4, <1>9
  <2>3. \A o \in q.gone : ClassFirst(status, rows', p.tx, none, o)
    BY <1>10 DEF ClassFirst
  <2>4. p \in States /\ Plan(status, rows', p) /\ p.todo # <<>>
    BY <1>2, <1>6
  <2> QED
    BY ONLY <1>10, <2>1, <2>2, <2>3, <2>4, PlanGoesOn
<1>12. Whole(status, rows', x, p.gone)
  <2>1. rows[i].oid \in p.gone
    BY <1>2 DEF TaskFits
  <2> QED
    BY <1>1, <1>2, <1>3, <2>1, WholeStamps
<1>13. Whole(status, rows', q.tx, Busy(q))
  BY <1>1, <1>4, <1>12, WholeLess DEF Busy
<1> QED
  BY <1>1, <1>11, <1>13 DEF DropFits, q

\* A pg_class row gets a new version: all there is to do.
LEMMA WholeOfUpdate ==
    ASSUME RowsInv, WholeInv, NEW s \in Sessions, WriteRow(s), AtTask(s, "update")
    PROVE  DropFits(status', rows', ss'[s])
<1> DEFINE p == ss[s]
           q == ss'[s]
           x == ss[s].tx
           i == Now(s).tid
           more == {Len(rows) + 1}
<1>1. /\ Stamps(rows, rows', x, i, more) /\ x \in Xids /\ status[x] = "running"
      /\ Open(status, x, rows[i]) /\ status' = status /\ rows \in Seq(Rows)
      /\ q.tx = p.tx /\ q.gone = p.gone /\ DOMAIN q.todo = 1 .. Len(p.todo) - 1
  <2>1. DOMAIN q.todo = 1 .. Len(p.todo) - 1
    BY PoppedIs DEF AtTask, WriteRow
  <2> QED
    BY <2>1, WriteRowIs DEF Popped, Becomes, AtTask, RowsInv, Core, CoreTypes
<1>2. /\ p \in States /\ p.todo # <<>> /\ p.todo[1].do = "update" /\ 1 \in DOMAIN p.todo
      /\ Plan(status, rows, p) /\ Whole(status, rows, x, p.gone)
  BY DEF AtTask
<1>3. p.tx = x /\ more # {}
  OBVIOUS
<1> HIDE DEF p, q, x, i, more
<1>4. p.gone = {} /\ Len(p.todo) = 1
  BY <1>2 DEF Plan
<1>5. DOMAIN q.todo = {}
  BY <1>1, <1>4
<1>6. Plan(status, rows', q)
  BY <1>1, <1>4, <1>5, PlanTrivial
<1>7. Whole(status, rows', x, p.gone)
  BY <1>1, <1>2, <1>3, WholeStamps
<1>8. Whole(status, rows', q.tx, Busy(q))
  BY <1>1, <1>3, <1>7, WholeLess DEF Busy
<1> QED
  BY <1>1, <1>6, <1>8 DEF DropFits, q

LEMMA WholeOfWrite ==
    ASSUME RowsInv, WholeInv, NEW s \in Sessions, WriteRow(s)
    PROVE  WholeKept(s) /\ DropFits(status', rows', ss'[s])
<1> DEFINE x == ss[s].tx
           i == Now(s).tid
           more == IF Now(s).do = "delete" THEN {} ELSE {Len(rows) + 1}
<1>1. /\ Stamps(rows, rows', x, i, more) /\ x \in Xids /\ status[x] = "running"
      /\ Open(status, x, rows[i]) /\ status' = status /\ rows \in Seq(Rows)
  BY WriteRowIs DEF RowsInv, Core, CoreTypes
<1>2. AtTask(s, "delete") \/ AtTask(s, "update")
  BY TaskIs DEF WriteRow
<1>3. DropFits(status', rows', ss'[s])
  BY <1>2, WholeOfDelete, WholeOfUpdate
<1>4. \A t \in Sessions \ {s} : DropFits(status', rows', ss[t])
  BY OthersSeeWrite
<1>5. rows[i].cat # "class" => ClassDone(status, rows, x, rows[i].oid)
  <2>1. Stamps(rows, rows', x, i, more) => i \in DOMAIN rows /\ (rows[i].cat # "class" => more = {})
    BY DEF Stamps
  <2>2. CASE AtTask(s, "delete") /\ rows[i].cat # "class"
    <3>1. CoversSub(rows, Now(s), rows[i].oid) /\ ~CoversClass(rows, Now(s), rows[i].oid)
      BY <1>1, <2>1, <2>2 DEF AtTask, CoversSub, CoversClass, Class, Sub
    <3> QED
      BY <2>2, <3>1 DEF AtTask
  <2>3. CASE AtTask(s, "update")
    BY <1>1, <2>1, <2>3 DEF AtTask
  <2> QED
    BY <1>2, <2>2, <2>3
<1> HIDE DEF x, i, more
<1>6. Ordered(status, rows')
  BY <1>1, <1>5, OrderedStamps DEF WholeInv
<1>7. Whole(status, rows', InvalidXID, {})
  <2>1. InvalidXID # x /\ Whole(status, rows, InvalidXID, {})
    BY <1>1, VerdictOfXid DEF WholeInv
  <2> QED
    BY <1>1, <2>1, WholeToOthers
<1> QED
  BY <1>1, <1>3, <1>4, <1>6, <1>7 DEF WholeKept


LEMMA WholeOfMoves ==
    ASSUME RowsInv, WholeInv, NEW s \in Sessions, Reads(s) \/ Methods(s) \/ Steps(s)
    PROVE  WholeKept(s) /\ DropFits(status', rows', ss'[s]) /\ Becomes(s, ss'[s])
<1>1. CASE Reads(s)
  BY <1>1, ReadsAre, WholeOfReads
<1>2. CASE Methods(s)
  BY <1>2, MethodsAre, WholeOfChecks
<1>3. CASE Steps(s)
  <2>1. Becomes(s, ss'[s])
    BY <1>3, StepsAre
  <2>2. RowFails(s) => Still /\ GivesUp(s)
    BY RowFailsIs
  <2>3. WholeKept(s) /\ DropFits(status', rows', ss'[s])
    BY <1>3, <2>2, WholeOfChecks, WholeOfCreate, WholeOfFindIndexes, WholeOfFindAttributes,
       WholeOfFindClass, WholeOfFindIndexRow, WholeOfInsert, WholeOfWrite, WholeOfWaits,
       WholeGivesUp, Zenon DEF Steps
  <2> QED
    BY <2>1, <2>3
<1> QED
  BY <1>1, <1>2, <1>3

LEMMA WholeInit == Init => WholeInv
<1> SUFFICES ASSUME Init PROVE WholeInv
  OBVIOUS
<1>1. /\ DOMAIN rows = 1 .. 6 /\ 1 .. 6 = {1, 2, 3, 4, 5, 6}
      /\ \A i \in 1 .. 6 :
            /\ rows[i].oid = IF i \in {1, 2} THEN 1 ELSE IF i \in {3, 4} THEN 2 ELSE 3
            /\ rows[i].cat = IF i \in {1, 3, 5} THEN "class" ELSE IF i = 6 THEN "index" ELSE "attr"
            /\ rows[i].xmin = (IF i \in {1, 2} THEN 1 ELSE 2) /\ rows[i].xmax = 0
  BY InitialRows
<1>2. Ordered(status, rows)
  <2>1. \A k \in Sub(rows) : Verdict(status, rows[k].xmax) = "aborted"
    BY <1>1 DEF Sub, Verdict, InvalidXID
  <2> QED
    BY <2>1 DEF Ordered
<1>3. Whole(status, rows, InvalidXID, {})
  <2>1. \A i \in 1 .. 6 : Sees(status, InvalidXID, rows[i])
    BY <1>1 DEF Sees, Verdict, InvalidXID, FirstNormalXID
  <2>2. \A i \in 1 .. 6 : \E j \in 1 .. 6 : Mates(rows[i], rows[j])
    <3>1. /\ Mates(rows[1], rows[2]) /\ Mates(rows[2], rows[1])
          /\ Mates(rows[3], rows[4]) /\ Mates(rows[4], rows[3])
          /\ Mates(rows[5], rows[6]) /\ Mates(rows[6], rows[5])
      BY <1>1 DEF Mates
    <3> QED
      BY <1>1, <3>1
  <2> QED
    BY <1>1, <2>1, <2>2 DEF Whole
<1>4. \A s \in Sessions : DropFits(status, rows, ss[s])
  <2>1. DropFits(status, rows, Idle)
    BY DEF DropFits, Idle
  <2> QED
    BY <2>1 DEF Init
<1> QED
  BY <1>2, <1>3, <1>4 DEF WholeInv

LEMMA WholeNext == RowsInv /\ NamesInv /\ WholeInv /\ [Next]_vars => WholeInv'
<1> SUFFICES ASSUME RowsInv, NamesInv, WholeInv, [Next]_vars PROVE WholeInv'
  OBVIOUS
<1>1. CASE UNCHANGED vars
  BY <1>1 DEF vars, WholeInv
<1>2. ASSUME NEW s \in Sessions, WholeKept(s), DropFits(status', rows', ss'[s]),
             \A t \in Sessions \ {s} : ss'[t] = ss[t]
      PROVE  WholeInv'
  BY <1>2 DEF WholeKept, WholeInv
<1>3. ASSUME NEW s \in Sessions, Reads(s) \/ Methods(s) \/ Steps(s)
      PROVE  WholeInv'
  <2>1. WholeKept(s) /\ DropFits(status', rows', ss'[s]) /\ Becomes(s, ss'[s])
    BY <1>3, WholeOfMoves
  <2>2. \A t \in Sessions \ {s} : ss'[t] = ss[t]
    BY <2>1 DEF Becomes, RowsInv, TypeInv, CoreTypes
  <2> QED
    BY <1>2, <2>1, <2>2
<1>4. ASSUME NEW s \in Sessions, Drops(s)
      PROVE  WholeInv'
  BY <1>2, <1>4, WholeOfStart, WholeOfDone, WholeOfEnd, DropsAre DEF Drops
<1> QED
  BY <1>1, <1>3, <1>4 DEF Next

LEMMA WholeAlways == Spec => []WholeInv
<1>1. RowsInv /\ NamesInv /\ WholeInv /\ [Next]_vars => WholeInv'
  BY WholeNext
<1> QED
  BY WholeInit, RowsAlways, NamesAlways, <1>1, PTL DEF Spec


-----------------------------------------------------------------------------
(* The files.                                                              *)

LEMMA NoteMoves ==
    ASSUME NEW st, NEW st2, Moves(st, st2), NEW R \in Seq(Rows), NEW o \in Nat, NEW o2 \in Nat,
           o <= o2, Sound(st, R, o), NEW F, NEW F2, NEW x, NEW p \in Notes,
           NoteFits(st, R, o, F, x, p), ~p.atCommit => p.oid \in F2
    PROVE  NoteFits(st2, R, o2, F2, x, p)
<1>1. p.oid \in Nat /\ p.oid < o2
  BY DEF NoteFits, Notes
<1>2. \A a : /\ ClassDone(st, R, x, a) => ClassDone(st2, R, x, a)
             /\ SubDone(st, R, x, a) => SubDone(st2, R, x, a)
             /\ Held(st, R, x, a) => Held(st2, R, x, a)
  BY DoneMoves
<1> QED
  BY <1>1, <1>2 DEF NoteFits

LEMMA NoteAdds ==
    ASSUME NEW st, NEW R, NEW R2, NEW r, Adds(R, R2, r), NEW o, NEW F, NEW x, NEW p,
           NoteFits(st, R, o, F, x, p), p.oid = r.oid => ~p.atCommit /\ r.creator = x
    PROVE  NoteFits(st, R2, o, F, x, p)
<1>1. PICK n \in Nat \ DOMAIN R : /\ DOMAIN R2 = DOMAIN R \cup {n} /\ R2[n] = r
                                  /\ \A k \in DOMAIN R : R2[k] = R[k]
  BY DEF Adds
<1>2. CASE p.oid # r.oid
  <2>1. Of(R2, p.oid) = Of(R, p.oid) /\ \A k \in DOMAIN R : k \in DOMAIN R2 /\ R2[k] = R[k]
    BY <1>1, <1>2 DEF Of
  <2>2. \A k \in DOMAIN R2 : R2[k].oid = p.oid => k \in DOMAIN R /\ R2[k] = R[k]
    BY <1>1, <1>2
  <2>3. p.atCommit => Held(st, R2, x, p.oid)
    BY <2>1 DEF NoteFits, Held, Of
  <2>4. p.atCommit => ClassDone(st, R2, x, p.oid) /\ SubDone(st, R2, x, p.oid)
    BY <2>2 DEF NoteFits, ClassDone, SubDone, Class, Sub
  <2>5. ~p.atCommit => \A k \in Of(R2, p.oid) : R2[k].creator = x
    BY <2>1 DEF NoteFits, Of
  <2> QED
    BY <2>3, <2>4, <2>5 DEF NoteFits
<1>3. CASE p.oid = r.oid
  BY <1>1, <1>3 DEF NoteFits, Of
<1> QED
  BY <1>2, <1>3

LEMMA NoteStamps ==
    ASSUME NEW st, NEW R \in Seq(Rows), NEW R2, NEW x \in Xids, st[x] = "running",
           NEW i, NEW more, Stamps(R, R2, x, i, more), Open(st, x, R[i]),
           NEW y, Verdict(st, y) # "aborted", NEW o, NEW F, NEW p, NoteFits(st, R, o, F, y, p)
    PROVE  NoteFits(st, R2, o, F, y, p)
<1>1. /\ ClassDone(st, R, y, p.oid) => ClassDone(st, R2, y, p.oid)
      /\ SubDone(st, R, y, p.oid) => SubDone(st, R2, y, p.oid)
      /\ Held(st, R, y, p.oid) => Held(st, R2, y, p.oid)
  BY DoneStamps
<1>2. \A k \in DOMAIN R2 : \E m \in DOMAIN R : R2[k].oid = R[m].oid /\ R2[k].creator = R[m].creator
  <2>1. x \in Ids
    BY Numbers
  <2>2. i \in DOMAIN R /\ \A k \in DOMAIN R2 : k \in DOMAIN R \/ k \in more
    BY DEF Stamps
  <2> QED
    BY <2>1, <2>2, StampsSame
<1>3. (\A k \in Of(R, p.oid) : R[k].creator = y) => (\A k \in Of(R2, p.oid) : R2[k].creator = y)
  BY <1>2 DEF Of
<1> QED
  BY <1>1, <1>3 DEF NoteFits

LEMMA FilesMove ==
    ASSUME NEW st, NEW st2, Moves(st, st2), NEW R \in Seq(Rows), NEW o \in Nat, Sound(st, R, o),
           NEW F, NEW F2, F \subseteq F2, FilesFit(st, R, F)
    PROVE  FilesFit(st2, R, F2)
<1>1. \A i \in DOMAIN R : R[i] \in Rows /\ RowFits(st, o, R[i])
  BY ElementOfSeq, LenProperties DEF Sound, RowsFit
<1>2. \A i \in DOMAIN R : Dead(st, R[i]) => Dead(st2, R[i])
  BY <1>1, DeadStays
<1> QED
  BY <1>2 DEF FilesFit

LEMMA FilesStamp ==
    ASSUME NEW st, NEW R \in Seq(Rows), NEW R2, NEW x \in Xids, st[x] = "running",
           NEW i, NEW more, Stamps(R, R2, x, i, more), Open(st, x, R[i]),
           NEW F, FilesFit(st, R, F)
    PROVE  FilesFit(st, R2, F)
<1>1. x \in Ids /\ i \in DOMAIN R /\ \A k \in DOMAIN R2 : k \in DOMAIN R \/ k \in more
  BY Numbers DEF Stamps
<1>2. \A k \in DOMAIN R : R2[k].oid = R[k].oid
  BY <1>1, StampsSame
<1>3. \A k \in more : R2[k].oid = R[i].oid
  BY <1>1, StampsSame
<1>4. \A k \in DOMAIN R : Dead(st, R[k]) => Dead(st, R2[k])
  BY StampsKeep
<1>5. ~Dead(st, R[i])
  BY OpenIsNotDead
<1> QED
  BY <1>1, <1>2, <1>3, <1>4, <1>5 DEF FilesFit

\* What a step of s leaves: its notes, those of the others, the files.
FilesKept(s) ==
    /\ FilesFit(status', rows', files')
    /\ \A t \in Sessions \ {s} : NotesFit(status', rows', nextOid', files', ss[t], pending[t])
    /\ NotesFit(status', rows', nextOid', files', ss'[s], pending'[s])
    /\ \A t \in Sessions \ {s} : \A p \in pending'[s], q \in pending[t] :
          p.oid = q.oid => p.atCommit \/ q.atCommit

LEMMA NotesAre ==
    ASSUME RowsInv
    PROVE  /\ pending \in [Sessions -> SUBSET Notes]
           /\ \A t \in Sessions : \A p \in pending[t] : p \in Notes
           /\ rows \in Seq(Rows) /\ nextOid \in Nat /\ Sound(status, rows, nextOid)
  BY DEF RowsInv, TypeInv, OtherTypes, Core, CoreTypes

\* A step that touches neither the rows nor the notes.
LEMMA FilesStandStill ==
    ASSUME FilesInv, NEW s \in Sessions, Still, ss'[s].tx = ss[s].tx,
           InsertOids(ss'[s]) \subseteq InsertOids(ss[s])
    PROVE  FilesKept(s)
<1>1. NotesFit(status, rows, nextOid, files, ss'[s], pending[s])
  BY DEF FilesInv, NotesFit
<1> QED
  BY <1>1 DEF FilesKept, FilesInv, Still


\* The file of a new relation, and a note of it for an abort.
LEMMA FilesOfCreate ==
    ASSUME RowsInv, FilesInv, NEW s \in Sessions, Create(s)
    PROVE  FilesKept(s) /\ \A t \in Sessions \ {s} : pending'[t] = pending[t]
<1> DEFINE n == [oid |-> nextOid, atCommit |-> FALSE]
           q == ss'[s]
           P == pending[s] \cup {n}
<1>1. /\ q.tx = ss[s].tx /\ ss[s].tx # InvalidXID /\ InsertOids(q) = {nextOid}
      /\ nextOid' = nextOid + 1 /\ files' = files \cup {nextOid}
      /\ pending' = [pending EXCEPT ![s] = P] /\ rows' = rows /\ status' = status
  BY CreateIs DEF Becomes
<1>2. /\ pending \in [Sessions -> SUBSET Notes] /\ rows \in Seq(Rows)
      /\ nextOid \in Nat /\ nextOid' \in Nat /\ nextOid <= nextOid' /\ Sound(status, rows, nextOid)
      /\ \A t \in Sessions : \A p \in pending[t] : p \in Notes
  BY <1>1, NotesAre
<1>3. pending'[s] = P /\ \A t \in Sessions \ {s} : pending'[t] = pending[t]
  BY <1>1, <1>2
<1>4. n.oid = nextOid /\ ~n.atCommit
  OBVIOUS
<1> HIDE DEF q, P, n
<1>5. \A p \in P : p = n \/ p \in pending[s]
  BY DEF P
<1>6. Moves(status, status') /\ files \subseteq files'
  BY <1>1, StandingStill
<1>7. FilesFit(status', rows', files')
  BY <1>1, <1>2, <1>6, FilesMove DEF FilesInv
<1>8. ASSUME NEW t \in Sessions, NEW p \in pending[t]
      PROVE  p.oid < nextOid /\ NoteFits(status', rows', nextOid', files', ss[t].tx, p)
  <2>1. NoteFits(status, rows, nextOid, files, ss[t].tx, p) /\ p \in Notes
    BY <1>2, <1>8 DEF FilesInv, NotesFit
  <2>2. ~p.atCommit => p.oid \in files'
    BY <1>6, <2>1 DEF NoteFits
  <2>3. NoteFits(status', rows, nextOid', files', ss[t].tx, p)
    BY <1>2, <1>6, <2>1, <2>2, NoteMoves
  <2> QED
    BY <1>1, <2>1, <2>3 DEF NoteFits
<1>9. NoteFits(status', rows', nextOid', files', q.tx, n)
  <2>1. Of(rows, nextOid) = {} /\ nextOid < nextOid'
    BY <1>1, <1>2, NewOidIsFree
  <2> QED
    BY <1>1, <1>4, <2>1 DEF NoteFits
<1>10. \A t \in Sessions \ {s} : NotesFit(status', rows', nextOid', files', ss[t], pending[t])
  BY <1>8 DEF FilesInv, NotesFit
<1>11. NotesFit(status', rows', nextOid', files', q, pending'[s])
  <2>1. \A p \in P : NoteFits(status', rows', nextOid', files', q.tx, p)
    BY <1>1, <1>5, <1>8, <1>9
  <2>2. \A a \in InsertOids(q) : [oid |-> a, atCommit |-> FALSE] \in P
    BY <1>1 DEF P, n
  <2> QED
    BY <1>1, <1>3, <2>1, <2>2 DEF NotesFit
<1>12. ASSUME NEW t \in Sessions \ {s}, NEW p \in P, NEW r \in pending[t], p.oid = r.oid
       PROVE  p.atCommit \/ r.atCommit
  <2>1. CASE p \in pending[s]
    BY <1>12, <2>1 DEF FilesInv
  <2>2. CASE p = n
    <3>1. r.oid < nextOid /\ r.oid = nextOid
      BY <1>4, <1>8, <1>12, <2>2
    <3> QED
      BY <1>2, <3>1
  <2> QED
    BY <1>5, <2>1, <2>2
<1> QED
  BY <1>3, <1>7, <1>10, <1>11, <1>12 DEF FilesKept, q

\* A row is inserted of a relation that has its file, and that nobody drops.
LEMMA FilesOfInsert ==
    ASSUME RowsInv, FilesInv, NEW s \in Sessions, InsertRow(s)
    PROVE  FilesKept(s)
<1> DEFINE r == Now(s).row
           x == ss[s].tx
           p == ss[s]
           q == ss'[s]
           n == [oid |-> r.oid, atCommit |-> FALSE]
<1>1. /\ Adds(rows, rows', r)
      /\ status' = status /\ files' = files /\ nextOid' = nextOid /\ pending' = pending
      /\ r.creator = x /\ r.xmin = x /\ x \in Xids /\ status[x] = "running" /\ x # InvalidXID
      /\ r.cat = "class" => Of(rows, r.oid) = {}
      /\ r.cat # "class" => \A i \in Of(rows, r.oid) : rows[i].cat = "class" /\ PairFits(rows[i], r)
      /\ q.tx = x /\ InsertOids(p) = {r.oid} /\ InsertOids(q) \subseteq {r.oid}
  <2>1. Doing(s, "insert")
    BY DEF InsertRow
  <2>2. InsertOids(q) \subseteq InsertOids(p)
    <3>1. /\ DOMAIN p.todo = 1 .. Len(p.todo) /\ DOMAIN q.todo = 1 .. Len(p.todo) - 1
          /\ Len(p.todo) \in Nat
          /\ \A k \in 1 .. Len(p.todo) - 1 : q.todo[k] = p.todo[k + 1]
          /\ p.pc = "write" /\ q.pc = "write"
      BY <2>1, PoppedIs, DoingIs DEF InsertRow, Popped
    <3> HIDE DEF p, q
    <3>2. \A k \in DOMAIN q.todo : k + 1 \in DOMAIN p.todo /\ q.todo[k] = p.todo[k + 1]
      BY <3>1
    <3> QED
      BY <3>1, <3>2 DEF InsertOids
  <2> QED
    BY <2>1, <2>2, InsertRowIs, InsertIs, DoingIs DEF Popped, Becomes
<1>2. /\ \A t \in Sessions : NotesFit(status, rows, nextOid, files, ss[t], pending[t])
      /\ n \in pending[s] /\ n.oid = r.oid /\ ~n.atCommit
  BY <1>1 DEF FilesInv, NotesFit
<1>3. \A t \in Sessions \ {s} : ss[t].tx # x
  BY <1>1 DEF RowsInv, Core, Apart
<1>4. p.tx = x
  OBVIOUS
<1>5. \A c \in Of(rows, r.oid) : rows[c].xmin = x /\ rows[c].xmax = InvalidXID
  <2>1. Doing(s, "insert")
    BY DEF InsertRow
  <2>2. r = p.todo[1].row /\ (TwoLeft(status, rows, nextOid, p) \/ OneLeft(rows, nextOid, p))
    BY <2>1, InsertRowIs, DoingIs
  <2> HIDE DEF r, p, x
  <2> QED
    BY <1>4, <2>2 DEF TwoLeft, OneLeft, NewPair, NewClass
<1> HIDE DEF r, x, p, q, n
<1>6. FilesFit(status', rows', files')
  <2>1. PICK m \in Nat \ DOMAIN rows : /\ DOMAIN rows' = DOMAIN rows \cup {m} /\ rows'[m] = r
                                       /\ \A k \in DOMAIN rows : rows'[k] = rows[k]
    BY <1>1 DEF Adds
  <2>2. r.oid \in files
    BY <1>2 DEF NotesFit, NoteFits
  <2> QED
    BY <1>1, <2>1, <2>2 DEF FilesInv, FilesFit
<1>7. ASSUME NEW t \in Sessions \ {s}, NEW a \in pending[t]
      PROVE  NoteFits(status, rows', nextOid, files, ss[t].tx, a)
  <2>1. NoteFits(status, rows, nextOid, files, ss[t].tx, a)
    BY <1>2, <1>7 DEF NotesFit
  <2>2. a.atCommit \/ a.oid # r.oid
    BY <1>2, <1>7 DEF FilesInv
  <2>3. a.oid # r.oid
    <3> SUFFICES ASSUME a.atCommit, a.oid = r.oid PROVE FALSE
      BY <2>2
    <3>1. Held(status, rows, ss[t].tx, r.oid)
      BY <2>1 DEF NoteFits
    <3>2. ss[t].tx # x
      BY <1>3, <1>7
    <3> QED
      BY <1>1, <3>1, <3>2, DoneAdds
  <2> QED
    BY <1>1, <2>1, <2>3, NoteAdds
<1>8. ASSUME NEW a \in pending[s]
      PROVE  NoteFits(status, rows', nextOid, files, x, a)
  <2>1. NoteFits(status, rows, nextOid, files, x, a) /\ NoteFits(status, rows, nextOid, files, x, n)
    BY <1>2, <1>4, <1>8 DEF NotesFit, p
  <2>2. ASSUME a.atCommit, a.oid = r.oid PROVE FALSE
    <3>1. PICK c \in Of(rows, r.oid) : TRUE
      BY <2>1, <2>2 DEF NoteFits, Held
    <3>2. c \in Class(rows) /\ rows[c].oid = r.oid
      BY <1>1, <3>1 DEF Class, Of
    <3>3. DroppedBy(status, x, rows[c])
      BY <2>1, <2>2, <3>2 DEF NoteFits, ClassDone
    <3>4. Verdict(status, x) = "running" /\ rows[c].xmin = x /\ rows[c].xmax = InvalidXID
      BY <1>1, <1>5, <3>1, VerdictOfXid
    <3> QED
      BY <1>1, <3>3, <3>4, Zero DEF DroppedBy, Dead
  <2> QED
    BY <1>1, <2>1, <2>2, NoteAdds
<1>9. \A t \in Sessions \ {s} : NotesFit(status', rows', nextOid', files', ss[t], pending[t])
  BY <1>1, <1>2, <1>7 DEF NotesFit
<1>10. NotesFit(status', rows', nextOid', files', q, pending'[s])
  BY <1>1, <1>2, <1>4, <1>8 DEF NotesFit, n, p
<1> QED
  BY <1>1, <1>6, <1>9, <1>10 DEF FilesKept, FilesInv, q


\* A row is stamped, of a relation that has its file still.
LEMMA FilesOfWrite ==
    ASSUME RowsInv, FilesInv, NEW s \in Sessions, WriteRow(s)
    PROVE  FilesKept(s)
<1> DEFINE x == ss[s].tx
           i == Now(s).tid
           more == IF Now(s).do = "delete" THEN {} ELSE {Len(rows) + 1}
           q == ss'[s]
<1>1. /\ Stamps(rows, rows', x, i, more) /\ x \in Xids /\ status[x] = "running"
      /\ Open(status, x, rows[i]) /\ rows \in Seq(Rows)
      /\ status' = status /\ files' = files /\ nextOid' = nextOid /\ pending' = pending
      /\ q.tx = x /\ InsertOids(q) = {}
  <2>1. Planned(rows', q.todo) => InsertOids(q) = {}
    BY DEF Planned, InsertOids
  <2> QED
    BY <2>1, WriteRowIs DEF RowsInv, Core, CoreTypes, Popped, Becomes
<1>2. \A t \in Sessions : ss[t].tx # InvalidXID => Verdict(status, ss[t].tx) # "aborted"
  BY TxIs, VerdictOfXid
<1> HIDE DEF x, i, more, q
<1>3. FilesFit(status', rows', files')
  BY <1>1, FilesStamp DEF FilesInv
<1>4. ASSUME NEW t \in Sessions, NEW p \in pending[t]
      PROVE  NoteFits(status, rows', nextOid, files, ss[t].tx, p)
  <2> DEFINE y == ss[t].tx
  <2>1. NoteFits(status, rows, nextOid, files, y, p) /\ Verdict(status, y) # "aborted"
    BY <1>2, <1>4 DEF FilesInv, NotesFit
  <2> HIDE DEF y
  <2>2. NoteFits(status, rows', nextOid, files, y, p)
    BY <1>1, <2>1, NoteStamps
  <2> QED
    BY <2>2 DEF y
<1>5. \A t \in Sessions \ {s} : NotesFit(status', rows', nextOid', files', ss[t], pending[t])
  BY <1>1, <1>4 DEF FilesInv, NotesFit
<1>6. NotesFit(status', rows', nextOid', files', q, pending'[s])
  <2>1. x = ss[s].tx
    BY DEF x
  <2> QED
    BY <1>1, <1>4, <2>1 DEF FilesInv, NotesFit
<1> QED
  BY <1>1, <1>3, <1>5, <1>6 DEF FilesKept, FilesInv, q

\* The files of what a method dropped are noted, for the commit.
LEMMA FilesOfDone ==
    ASSUME RowsInv, WholeInv, FilesInv, NEW s \in Sessions, Done(s)
    PROVE  FilesKept(s) /\ \A t \in Sessions \ {s} : pending'[t] = pending[t]
<1> DEFINE p == ss[s]
           q == ss'[s]
           N == {[oid |-> o, atCommit |-> TRUE] : o \in p.gone}
           P == pending[s] \cup N
<1>1. /\ q.tx = p.tx /\ p.tx # InvalidXID /\ InsertOids(q) = {} /\ p.pc = "write" /\ p.todo = <<>>
      /\ rows' = rows /\ status' = status /\ files' = files /\ nextOid' = nextOid
      /\ pending' = [pending EXCEPT ![s] = P]
  BY DoneIs DEF Becomes, InsertOids, Done
<1>2. /\ pending \in [Sessions -> SUBSET Notes] /\ nextOid \in Nat
      /\ DropFits(status, rows, p)
  BY NotesAre DEF WholeInv
<1>3. pending'[s] = P /\ \A t \in Sessions \ {s} : pending'[t] = pending[t]
  BY <1>1, <1>2
<1>4. \A n \in P : n \in pending[s] \/ (n.atCommit /\ n.oid \in p.gone)
  OBVIOUS
<1> HIDE DEF N, P, p, q
<1>5. Plan(status, rows, p) /\ DOMAIN p.todo = {}
  BY <1>1, <1>2 DEF DropFits
<1>6. ASSUME NEW o \in p.gone
      PROVE  /\ Held(status, rows, p.tx, o) /\ ClassDone(status, rows, p.tx, o)
             /\ SubDone(status, rows, p.tx, o) /\ o < nextOid
  <2>1. /\ Held(status, rows, p.tx, o) /\ ClassDone(status, rows, p.tx, o)
        /\ SubDone(status, rows, p.tx, o)
    BY <1>5 DEF Plan, ClassLeft, SubLeft
  <2>2. PICK i \in DOMAIN rows : rows[i].oid = o
    BY <2>1 DEF Held, Of
  <2>3. RowFits(status, nextOid, rows[i])
    BY RowIs
  <2> QED
    BY <2>1, <2>2, <2>3 DEF RowFits
<1>7. NotesFit(status, rows, nextOid, files, p, pending[s])
  BY DEF FilesInv, p
<1>8. \A n \in P : NoteFits(status, rows, nextOid, files, q.tx, n)
  BY <1>1, <1>4, <1>6, <1>7 DEF NoteFits, NotesFit
<1>9. NotesFit(status', rows', nextOid', files', q, pending'[s])
  BY <1>1, <1>3, <1>8 DEF NotesFit
<1>10. \A t \in Sessions \ {s} : \A n \in P, m \in pending[t] :
          n.oid = m.oid => n.atCommit \/ m.atCommit
  BY <1>4 DEF FilesInv
<1> QED
  BY <1>1, <1>3, <1>9, <1>10 DEF FilesKept, FilesInv, q

LEMMA FilesOfStart ==
    ASSUME RowsInv, FilesInv, NEW s \in Sessions, StartStatement(s)
    PROVE  FilesKept(s) /\ pending' = pending
<1> DEFINE q == ss'[s]
<1>1. /\ rows' = rows /\ nextOid' = nextOid /\ files' = files /\ pending' = pending
      /\ Moves(status, status') /\ InsertOids(q) = {}
      /\ q.tx = ss[s].tx \/ (ss[s].tx = InvalidXID /\ q.tx # InvalidXID)
  BY StartStatementIs DEF InsertOids
<1>2. /\ rows \in Seq(Rows) /\ nextOid \in Nat /\ Sound(status, rows, nextOid)
      /\ \A t \in Sessions : \A p \in pending[t] : p \in Notes
  BY NotesAre
<1> HIDE DEF q
<1>3. FilesFit(status', rows', files')
  BY <1>1, <1>2, FilesMove DEF FilesInv
<1>4. ASSUME NEW t \in Sessions, NEW p \in pending[t]
      PROVE  NoteFits(status', rows, nextOid, files, ss[t].tx, p)
  <2>1. NoteFits(status, rows, nextOid, files, ss[t].tx, p) /\ p \in Notes
    BY <1>2, <1>4 DEF FilesInv, NotesFit
  <2>2. (~p.atCommit => p.oid \in files) /\ nextOid <= nextOid
    BY <1>2, <2>1 DEF NoteFits
  <2> QED
    BY <1>1, <1>2, <2>1, <2>2, NoteMoves
<1>5. \A t \in Sessions : NotesFit(status', rows', nextOid', files', ss[t], pending[t])
  BY <1>1, <1>4 DEF FilesInv, NotesFit
<1>6. NotesFit(status', rows', nextOid', files', q, pending'[s])
  <2>1. pending[s] = {} \/ q.tx = ss[s].tx
    BY <1>1 DEF FilesInv, NotesFit
  <2> QED
    BY <1>1, <1>5, <2>1 DEF NotesFit
<1> QED
  BY <1>1, <1>3, <1>5, <1>6 DEF FilesKept, FilesInv, q

\* The files of what is dead now are removed, and no other session's.
LEMMA FilesOfEnd ==
    ASSUME RowsInv, FilesInv, NEW s \in Sessions, NEW v \in {"committed", "aborted"}, End(s, v)
    PROVE  FilesKept(s) /\ \A t \in Sessions \ {s} : pending'[t] = pending[t]
<1> DEFINE x == ss[s].tx
           Gone(o) == \E p \in pending[s] : p.oid = o /\ (p.atCommit <=> v = "committed")
<1>1. /\ rows' = rows /\ nextOid' = nextOid /\ Moves(status, status') /\ ss'[s] = Idle
      /\ x \in Xids /\ x # InvalidXID /\ status[x] = "running"
      /\ status' = [status EXCEPT ![x] = v] /\ pending' = [pending EXCEPT ![s] = {}]
  BY EndIs
<1>2. /\ rows \in Seq(Rows) /\ nextOid \in Nat /\ Sound(status, rows, nextOid)
      /\ status \in [Xids -> Statuses] /\ pending \in [Sessions -> SUBSET Notes]
      /\ \A t \in Sessions : \A p \in pending[t] : p \in Notes
  BY NotesAre DEF RowsInv, Core, CoreTypes
<1>3. pending'[s] = {} /\ \A t \in Sessions \ {s} : pending'[t] = pending[t]
  BY <1>1, <1>2
<1>4. \A o : o \in files' <=> o \in files /\ ~Gone(o)
  <2>1. \A p \in pending[s] : p.atCommit \in BOOLEAN
    BY <1>2 DEF Notes
  <2> QED
    BY <2>1 DEF End
<1>5. \A t \in Sessions \ {s} : ss[t].tx # InvalidXID =>
         ss[t].tx # x /\ ss[t].tx \in Xids /\ Verdict(status, ss[t].tx) = "running"
  BY TxIs, VerdictOfXid DEF RowsInv, Core, Apart
<1>6. \A t \in Sessions : \A p \in pending[t] :
         ss[t].tx # InvalidXID /\ NoteFits(status, rows, nextOid, files, ss[t].tx, p)
  BY DEF FilesInv, NotesFit
<1>7. \A p \in pending[s] : NoteFits(status, rows, nextOid, files, x, p)
  BY <1>6
<1> HIDE DEF x
<1>8. /\ Verdict(status, x) = "running" /\ Verdict(status', x) = v
      /\ \A y \in Ids : y # x => Verdict(status', y) = Verdict(status, y)
  <2>1. status'[x] = v /\ \A y \in Xids : y # x => status'[y] = status[y]
    BY <1>1, <1>2
  <2>2. \A y \in Xids : Verdict(status, y) = status[y] /\ Verdict(status', y) = status'[y]
    BY VerdictOfXid
  <2>3. \A y \in Ids : y \notin Xids => Verdict(status', y) = Verdict(status, y)
    BY Numbers DEF Verdict, InvalidXID, FirstNormalXID
  <2> QED
    BY <1>1, <2>1, <2>2, <2>3
<1>9. \A i \in DOMAIN rows : /\ Dead(status, rows[i]) => Dead(status', rows[i])
                             /\ RowFits(status, nextOid, rows[i])
  <2>1. \A i \in DOMAIN rows : rows[i] \in Rows /\ RowFits(status, nextOid, rows[i])
    BY RowIs
  <2>2. Moves(status, status') /\ nextOid \in Nat
    BY <1>1, <1>2
  <2>3. \A i \in DOMAIN rows : Dead(status, rows[i]) => Dead(status', rows[i])
    BY ONLY <2>1, <2>2, DeadStays
  <2> QED
    BY <2>1, <2>3
<1>10. ASSUME NEW i \in DOMAIN rows, Gone(rows[i].oid) PROVE Dead(status', rows[i])
  <2>1. PICK p \in pending[s] : p.oid = rows[i].oid /\ (p.atCommit <=> v = "committed")
    BY <1>10
  <2>2. NoteFits(status, rows, nextOid, files, x, p)
    BY <1>7
  <2>3. CASE v = "committed"
    <3>1. DroppedBy(status, x, rows[i])
      <4>1. i \in Class(rows) \/ i \in Sub(rows)
        BY DEF Class, Sub
      <4> QED
        BY <2>1, <2>2, <2>3, <4>1 DEF NoteFits, ClassDone, SubDone
    <3> QED
      BY <1>8, <1>9, <2>3, <3>1 DEF DroppedBy, Dead
  <2>4. CASE v = "aborted"
    <3>1. rows[i].creator = x
      BY <2>1, <2>2, <2>4 DEF NoteFits, Of
    <3>2. rows[i].xmin = x
      BY <1>8, <1>9, <3>1 DEF RowFits
    <3> QED
      BY <1>8, <2>4, <3>2 DEF Dead
  <2> QED
    BY <2>3, <2>4
<1>11. ASSUME NEW t \in Sessions \ {s}, NEW p \in pending[t], ~p.atCommit
       PROVE  p.oid \in files'
  <2>1. p.oid \in files /\ \A i \in Of(rows, p.oid) : rows[i].creator = ss[t].tx
    BY <1>6, <1>11 DEF NoteFits
  <2>2. ASSUME NEW n \in pending[s], n.oid = p.oid, n.atCommit <=> v = "committed"
        PROVE  FALSE
    <3>1. n.atCommit
      BY <1>11, <2>2 DEF FilesInv
    <3>2. PICK i \in Of(rows, n.oid) :
             rows[i].creator = x \/ Verdict(status, rows[i].creator) = "committed"
      BY <1>7, <3>1 DEF NoteFits, Held
    <3>3. rows[i].creator = ss[t].tx
      BY <2>1, <2>2, <3>2
    <3> QED
      BY <1>5, <1>6, <3>2, <3>3
  <2> QED
    BY <1>4, <2>1, <2>2
<1> HIDE DEF Gone
<1>12. FilesFit(status', rows', files')
  BY <1>1, <1>4, <1>9, <1>10 DEF FilesInv, FilesFit
<1>13. ASSUME NEW t \in Sessions \ {s}, NEW p \in pending[t]
       PROVE  NoteFits(status', rows, nextOid, files', ss[t].tx, p)
  <2>1. /\ NoteFits(status, rows, nextOid, files, ss[t].tx, p) /\ p \in Notes
        /\ nextOid <= nextOid /\ (~p.atCommit => p.oid \in files')
    BY <1>2, <1>6, <1>11, <1>13
  <2> QED
    BY <1>1, <1>2, <2>1, NoteMoves
<1>14. \A t \in Sessions \ {s} : NotesFit(status', rows', nextOid', files', ss[t], pending[t])
  BY <1>1, <1>13 DEF FilesInv, NotesFit
<1>15. NotesFit(status', rows', nextOid', files', ss'[s], pending'[s])
  <2>1. InsertOids(Idle) = {}
    BY DEF InsertOids, Idle
  <2> QED
    BY <1>1, <1>3, <2>1 DEF NotesFit
<1> QED
  BY <1>3, <1>12, <1>14, <1>15 DEF FilesKept

LEMMA FilesOfSteps ==
    ASSUME RowsInv, WholeInv, FilesInv, NEW s \in Sessions, Reads(s) \/ Methods(s) \/ Steps(s)
    PROVE  /\ FilesKept(s) /\ \A t \in Sessions \ {s} : pending'[t] = pending[t]
           /\ \A t \in Sessions \ {s} : ss'[t] = ss[t]
<1>1. Becomes(s, ss'[s])
  BY WholeOfMoves
<1>2. \A t \in Sessions \ {s} : ss'[t] = ss[t]
  BY <1>1 DEF Becomes, RowsInv, TypeInv, CoreTypes
<1>3. ASSUME Still, \/ InsertOids(ss'[s]) = {}
                    \/ InsertOids(ss'[s]) = InsertOids(ss[s])
      PROVE  FilesKept(s) /\ \A t \in Sessions \ {s} : pending'[t] = pending[t]
  BY <1>1, <1>3, FilesStandStill DEF Becomes, Still
<1>4. CASE Reads(s)
  <2>1. Still /\ Calm(ss'[s])
    BY <1>4, ReadsAre
  <2>2. InsertOids(ss'[s]) = {}
    BY <2>1 DEF Calm, InsertOids
  <2> QED
    BY <1>2, <1>3, <2>1, <2>2
<1>5. CASE Methods(s) \/ Exists(s)
  <2>1. Checks(s)
    BY <1>5, MethodsAre, ExistsIs
  <2> QED
    BY <1>2, <1>3, <2>1 DEF Checks
<1>6. CASE FindIndexes(s) \/ FindAttributes(s) \/ FindClass(s) \/ FindIndexRow(s) \/ RowFails(s)
  <2>1. Still /\ (GivesUp(s) \/ \E more, gone : GoesOnWith(s, more, gone))
    BY <1>6, FindIndexesIs, FindAttributesIs, FindClassIs, FindIndexRowIs, RowFailsIs, Zenon
  <2> QED
    BY <1>2, <1>3, <2>1 DEF GivesUp, GoesOnWith
<1>7. CASE RowWaits(s) \/ Wake(s)
  BY <1>2, <1>3, <1>7, RowWaitsIs, WakeIs
<1>8. CASE InsertRow(s) \/ WriteRow(s)
  <2>1. pending' = pending
    BY <1>8, InsertRowIs, WriteRowIs
  <2> QED
    BY <1>2, <1>8, <2>1, FilesOfInsert, FilesOfWrite
<1>9. CASE Create(s)
  BY <1>2, <1>9, FilesOfCreate
<1> QED
  BY <1>4, <1>5, <1>6, <1>7, <1>8, <1>9, Zenon DEF Steps

LEMMA FilesInit == Init => FilesInv
<1> SUFFICES ASSUME Init PROVE FilesInv
  OBVIOUS
<1>1. /\ DOMAIN rows = 1 .. 6 /\ files = 1 .. 3
      /\ \A i \in 1 .. 6 : rows[i].oid = IF i \in {1, 2} THEN 1 ELSE IF i \in {3, 4} THEN 2 ELSE 3
  BY InitialRows DEF Init
<1>2. FilesFit(status, rows, files)
  BY <1>1 DEF FilesFit
<1>3. \A s \in Sessions : pending[s] = {} /\ ss[s] = Idle
  BY DEF Init
<1>4. InsertOids(Idle) = {}
  BY DEF InsertOids, Idle
<1> QED
  BY SMTT(30), <1>2, <1>3, <1>4 DEF FilesInv, NotesFit

LEMMA FilesNext == RowsInv /\ WholeInv /\ FilesInv /\ [Next]_vars => FilesInv'
<1> SUFFICES ASSUME RowsInv, WholeInv, FilesInv, [Next]_vars PROVE FilesInv'
  OBVIOUS
<1>1. CASE UNCHANGED vars
  BY <1>1 DEF vars, FilesInv
<1>2. ASSUME NEW s \in Sessions, FilesKept(s),
             \A t \in Sessions \ {s} : pending'[t] = pending[t] /\ ss'[t] = ss[t]
      PROVE  FilesInv'
  <2>1. FilesFit(status', rows', files')
    BY <1>2 DEF FilesKept
  <2>2. \A t \in Sessions : NotesFit(status', rows', nextOid', files', ss'[t], pending'[t])
    BY <1>2 DEF FilesKept
  <2>3. ASSUME NEW t \in Sessions, NEW u \in Sessions, t # u, NEW p \in pending'[t],
               NEW q \in pending'[u], p.oid = q.oid
        PROVE  p.atCommit \/ q.atCommit
    <3>1. CASE t = s
      BY <1>2, <2>3, <3>1 DEF FilesKept
    <3>2. CASE u = s
      BY <1>2, <2>3, <3>2 DEF FilesKept
    <3>3. CASE t # s /\ u # s
      BY <1>2, <2>3, <3>3 DEF FilesInv
    <3> QED
      BY <3>1, <3>2, <3>3
  <2> QED
    BY <2>1, <2>2, <2>3 DEF FilesInv
<1>3. ASSUME NEW s \in Sessions, Reads(s) \/ Methods(s) \/ Steps(s)
      PROVE  FilesInv'
  BY <1>2, <1>3, FilesOfSteps
<1>4. ASSUME NEW s \in Sessions, Drops(s)
      PROVE  FilesInv'
  BY <1>2, <1>4, FilesOfStart, FilesOfDone, FilesOfEnd, DropsAre DEF Drops
<1> QED
  BY <1>1, <1>3, <1>4 DEF Next

LEMMA FilesAlways == Spec => []FilesInv
<1>1. RowsInv /\ WholeInv /\ FilesInv /\ [Next]_vars => FilesInv'
  BY FilesNext
<1> QED
  BY FilesInit, RowsAlways, WholeAlways, <1>1, PTL DEF Spec


(* What the three come to: the rows a new transaction sees.               *)
LEMMA LiveIs ==
    ASSUME RowsInv, NEW i
    PROVE  /\ i \in Live <=> i \in DOMAIN rows /\ Sees(status, InvalidXID, rows[i])
           /\ i \in Live => /\ ~Dead(status, rows[i])
                            /\ Verdict(status, rows[i].xmin) = "committed"
                            /\ Verdict(status, rows[i].xmax) # "committed"
<1>1. i \in DOMAIN rows => rows[i].xmin # InvalidXID /\ InvalidXID = 0
  BY RowIs DEF RowFits, InvalidXID
<1>2. i \in Live <=> i \in DOMAIN rows /\ Sees(status, InvalidXID, rows[i])
  BY <1>1, VerdictIs, Zero DEF Live, Sees
<1>3. i \in Live => /\ Verdict(status, rows[i].xmin) = "committed"
                   /\ Verdict(status, rows[i].xmax) # "committed"
  BY <1>1, <1>2, Zero DEF Sees
<1> QED
  BY <1>2, <1>3 DEF Dead

\* Two of them with one OID are one pg_class row and its other row.
LEMMA LivePair ==
    ASSUME RowsInv, NEW i \in Live, NEW j \in Live, i # j, rows[i].oid = rows[j].oid
    PROVE  Mates(rows[i], rows[j]) /\ PairFits(rows[i], rows[j]) /\ PairFits(rows[j], rows[i])
<1>1. ASSUME NEW k \in Live
      PROVE  /\ k \in DOMAIN rows /\ ~Dead(status, rows[k])
             /\ Verdict(status, rows[k].xmin) = "committed"
             /\ Verdict(status, rows[k].xmax) # "committed"
  BY <1>1, LiveIs
<1>2. /\ PairFits(rows[i], rows[j]) /\ PairFits(rows[j], rows[i])
      /\ rows[i].cat = "class" \/ rows[j].cat = "class"
  BY <1>1 DEF RowsInv, Core, Sound, PairsFit
<1>3. ~(rows[i].cat = "class" /\ rows[j].cat = "class")
  BY <1>1 DEF RowsInv, Core, Sound, OneIsSeen, Excludes, Class
<1> QED
  BY <1>2, <1>3 DEF Mates

LEMMA LiveMate ==
    ASSUME RowsInv, WholeInv, NEW i \in Live
    PROVE  \E j \in Live : j # i /\ Mates(rows[i], rows[j])
<1>1. PICK j \in DOMAIN rows : Sees(status, InvalidXID, rows[j]) /\ Mates(rows[i], rows[j])
  BY LiveIs DEF WholeInv, Whole
<1>2. j # i
  BY <1>1 DEF Mates
<1> QED
  BY <1>1, <1>2, LiveIs

LEMMA RelationsOf ==
    ASSUME RowsInv, WholeInv, FilesInv, NEW i \in Live
    PROVE  LET of(cat) == {k \in Live : rows[k].oid = rows[i].oid /\ rows[k].cat = cat}
           IN  /\ rows[i].oid \in files
               /\ Cardinality(of("class")) = 1
               /\ Cardinality(of("attr") \cup of("index")) = 1
               /\ rows[i].cat = "class" => (rows[i].kind = "table") = (of("attr") # {})
<1> DEFINE of(cat) == {k \in Live : rows[k].oid = rows[i].oid /\ rows[k].cat = cat}
<1>1. PICK j \in Live : j # i /\ Mates(rows[i], rows[j])
  BY LiveMate
<1>2. \A k \in Live : rows[k].oid = rows[i].oid => k \in {i, j}
  <2>1. ASSUME NEW k \in Live, rows[k].oid = rows[i].oid, k # i, k # j
        PROVE  FALSE
    <3>1. Mates(rows[i], rows[k]) /\ Mates(rows[j], rows[k])
      BY <1>1, <2>1, LivePair DEF Mates
    <3> QED
      BY <1>1, <3>1 DEF Mates
  <2> QED
    BY <2>1
<1>3. /\ rows[i].cat \in {"class", "attr", "index"} /\ rows[j].cat \in {"class", "attr", "index"}
      /\ \A k \in {i, j} : rows[k].oid = rows[i].oid
      /\ i \in DOMAIN rows
  <2>1. i \in DOMAIN rows /\ j \in DOMAIN rows
    BY LiveIs
  <2> QED
    BY <1>1, <2>1, RowIs DEF Rows, RowFits, Mates
<1>4. rows[i].oid \in files
  <2>1. ~Dead(status, rows[i])
    BY LiveIs
  <2> QED
    BY <1>3, <2>1 DEF FilesInv, FilesFit
<1>5. PairFits(rows[i], rows[j]) /\ PairFits(rows[j], rows[i])
  BY <1>1, LivePair DEF Mates
<1>6. CASE rows[i].cat = "class"
  <2>1. of("class") = {i} /\ of("attr") \cup of("index") = {j}
    BY <1>1, <1>2, <1>3, <1>6 DEF Mates
  <2>2. of("attr") # {} <=> rows[j].cat = "attr"
    BY <1>1, <1>2, <1>3, <1>6
  <2>3. (rows[i].kind = "table") = (of("attr") # {})
    BY <1>1, <1>5, <1>6, <2>2 DEF PairFits, Mates
  <2> QED
    BY <1>4, <2>1, <2>3, FS_Singleton
<1>7. CASE rows[i].cat # "class"
  <2>1. of("class") = {j} /\ of("attr") \cup of("index") = {i}
    BY <1>1, <1>2, <1>3, <1>7 DEF Mates
  <2> QED
    BY <1>4, <1>7, <2>1, FS_Singleton
<1> QED
  BY <1>6, <1>7

\* What a relation consists of is live all together or not at all: one
\* pg_class row, its one pg_attribute or pg_index row, and its file, however
\* the sessions' statements, waits, commits and rollbacks interleave.
THEOREM DDLIsAtomic == Spec => []RelationsAreWhole
<1>1. RowsInv /\ WholeInv /\ FilesInv => RelationsAreWhole
  <2> SUFFICES ASSUME RowsInv, WholeInv, FilesInv, NEW r \in {rows[i] : i \in Live}
               PROVE  LET of(cat) == {i \in Live : rows[i].oid = r.oid /\ rows[i].cat = cat}
                      IN  /\ r.oid \in files
                          /\ Cardinality(of("class")) = 1
                          /\ Cardinality(of("attr") \cup of("index")) = 1
                          /\ r.cat = "class" => (r.kind = "table") = (of("attr") # {})
    BY DEF RelationsAreWhole
  <2>1. PICK i \in Live : r = rows[i]
    OBVIOUS
  <2> QED
    BY <2>1, RelationsOf
<1> QED
  BY RowsAlways, WholeAlways, FilesAlways, <1>1, PTL

=============================================================================

-------------------------- MODULE UniqueIndexProofs --------------------------
(***************************************************************************)
(* The unique index of UniqueIndex, for every number of transactions, keys *)
(* and statements: no two rows of a key, an entry for every row, and no    *)
(* duplicate key error about a row that never was.  IndInv is the          *)
(* inductive invariant: what the versions and entries say of the           *)
(* transactions that wrote them, and how far each statement has got.       *)
(***************************************************************************)
EXTENDS UniqueIndex, TLAPS, WellFoundedInduction, FiniteSetTheorems, SequenceTheorems

Kinds == {"insert", "update", "delete", "build"}
Pcs   == {"off", "idle", "lock", "check", "fetch", "write", "acquire", "build", "error"}

Names    == Xids \cup {InvalidXID, FrozenXID}
Versions == [key : Int, xmin : Xids \cup {FrozenXID}, xmax : Xids \cup {InvalidXID},
             ctid : Nat, hints : {{}}]
Procs    == [pc : Pcs, kind : Kinds, key : Int, qual : Int, target : Nat, new : Nat,
             sees : BOOLEAN, todo : SUBSET Nat, seen : SUBSET Int, wait : Nat]

TypeInv ==
    /\ status \in [Xids -> Statuses]
    /\ heap \in Seq(Versions)
    /\ indexed \subseteq DOMAIN heap
    /\ lock \in Xids \cup {Nobody}
    /\ creator \in Names
    /\ proc \in [Xids -> Procs]
    /\ load \in Workloads
    /\ blamed \in [Xids -> Nat]
    /\ blind \subseteq Nat

-----------------------------------------------------------------------------
(* The versions and their entries.                                         *)

\* A version names transactions that began.
VersionInv == \A i \in DOMAIN heap :
    /\ StatusOf(heap[i].xmin) # "unassigned" /\ StatusOf(heap[i].xmax) # "unassigned"
    /\ heap[i].ctid \in DOMAIN heap

\* There are no entries before there is an index.
CreatorInv == StatusOf(creator) # "unassigned" /\ (creator = InvalidXID => indexed = {})

\* Version i will never be live beside one that z inserted.
DeadFor(z, i) == \/ StatusOf(heap[i].xmin) = "aborted"
                 \/ StatusOf(heap[i].xmax) = "committed"
                 \/ heap[i].xmax = z /\ z # InvalidXID

\* Versions i and j will never be live together: one is dead for whoever
\* looks the index up, or the transaction that inserted one deleted the other.
Excludes(i, j) == \/ DeadFor(creator, i) \/ DeadFor(creator, j)
                  \/ heap[i].xmax = heap[j].xmin \/ heap[j].xmax = heap[i].xmin

Built == StatusOf(creator) # "aborted"

\* Two entries of a key exclude one another.
PairInv == Built => \A i, j \in indexed : i # j /\ heap[i].key = heap[j].key => Excludes(i, j)

\* x, in state p, has still to write the entry of i, or will end in an abort.
Carries(x, p, i) == /\ status[x] = "running"
                    /\ \/ heap[i].xmin = x /\ (p.pc = "error" \/ (p.pc = "acquire" /\ p.new = i)
                                               \/ (lock = x /\ p.new = i))
                       \/ creator = x /\ (p.pc = "error" \/ (p.pc = "build" /\ i \in p.todo))

Settled(i) == i \in indexed \/ i \in blind \/ StatusOf(heap[i].xmin) = "aborted"

\* Every version has its entry, or needs none, or has somebody at work on it.
CoverInv == Built => \A i \in DOMAIN heap : Settled(i) \/ \E x \in Xids : Carries(x, proc[x], i)

\* Who is blamed for a duplicate was there.
BlamedInv == \A x \in Xids : blamed[x] # NoTid =>
    /\ blamed[x] \in DOMAIN heap
    /\ heap[blamed[x]].xmin = x \/ StatusOf(heap[blamed[x]].xmin) = "committed"

-----------------------------------------------------------------------------
(* The sessions.                                                           *)

Changing(p) == p.kind \in {"update", "delete"}

\* A statement knows the index only if nobody is building it any more, or x.
StmtFits(x, p) ==
    /\ status[x] # "running" => p = Off
    /\ status[x] = "running" => p.pc # "off"
    /\ Changing(p) => p.target \in DOMAIN heap
    /\ ~Changing(p) => p.target = NoTid
    /\ p.pc = "lock" => Changing(p)
    /\ p.sees => creator = x \/ StatusOf(creator) = "committed"
    /\ p.pc \in {"fetch", "build"} => p.todo \subseteq DOMAIN heap

\* Between the heap write and the entry.
InsertFits(x, p) ==
    p.pc = "acquire" \/ lock = x =>
        /\ p.sees /\ p.new \in DOMAIN heap
        /\ heap[p.new].xmin = x /\ heap[p.new].key = p.key
        /\ Changing(p) => heap[p.target].xmax = x

\* Under the lock an entry of the key is still to be judged, or is no obstacle.
LockFits(x, p) ==
    lock = x =>
        /\ p.pc = "fetch"
        /\ \A i \in indexed : heap[i].key = p.key /\ i # p.target => i \in p.todo \/ DeadFor(x, i)

\* The builder has seen the key of every entry it must not write twice.
BuildFits(x, p) ==
    p.pc = "build" =>
        /\ creator = x
        /\ \A i \in indexed : heap[i].key \in p.seen \/ DeadFor(x, i)

ProcFits(x, p) == StmtFits(x, p) /\ InsertFits(x, p) /\ LockFits(x, p) /\ BuildFits(x, p)

IndInv == /\ TypeInv /\ VersionInv /\ CreatorInv /\ PairInv /\ CoverInv /\ BlamedInv
          /\ \A x \in Xids : ProcFits(x, proc[x])

-----------------------------------------------------------------------------
(* What a step of session x does to the rest.                              *)

\* A version keeps its key and inserter; x deletes it over a deletion that
\* came to nothing.
Kept(i, x) == LET t == heap[i] u == heap'[i] IN
    /\ u.key = t.key /\ u.xmin = t.xmin
    /\ \/ u.xmax = t.xmax /\ u.ctid = t.ctid
       \/ u.xmax = x /\ StatusOf(t.xmax) = "aborted" /\ u.ctid \in DOMAIN heap'

Added(i, x) == LET u == heap'[i] IN
    u.xmin = x /\ u.xmax = InvalidXID /\ u.ctid \in DOMAIN heap' /\ i \notin indexed

Writes(x) ==
    /\ DOMAIN heap \subseteq DOMAIN heap'
    /\ \A i \in DOMAIN heap : Kept(i, x)
    /\ \A i \in DOMAIN heap' \ DOMAIN heap : Added(i, x)
    /\ blind \subseteq blind'

\* The one entry more is of a version that excludes the others of its key.
NewEntry(n) ==
    /\ n \in DOMAIN heap /\ indexed' = indexed \cup {n}
    /\ \A j \in indexed : j # n /\ heap[j].key = heap[n].key => Excludes(n, j)

Enters(x) == \/ indexed' = indexed
             \/ /\ heap' = heap /\ status' = status /\ creator' = creator
                /\ lock = x \/ proc[x].pc = "build"
                /\ Built /\ \E n \in DOMAIN heap : NewEntry(n)

StatusMoves(x) ==
    \/ status' = status /\ status[x] = "running"
    \/ heap' = heap /\ \/ status[x] = "unassigned" /\ status'[x] = "running"
                       \/ status[x] = "running" /\ status'[x] \in {"committed", "aborted"}

Creates(x) == \/ creator' = creator
              \/ creator = InvalidXID /\ creator' = x /\ status' = status

\* The insert lock is taken by and released by its holder only.
Locks(x) == \A z \in Xids \ {x} : lock' = z <=> lock = z

Others(x) == \A z \in Xids \ {x} :
    status'[z] = status[z] /\ proc'[z] = proc[z] /\ blamed'[z] = blamed[z]

Acts(x) == Others(x) /\ Writes(x) /\ Enters(x) /\ StatusMoves(x) /\ Creates(x) /\ Locks(x)

\* The versions x had to see to, and those it added, are seen to still.
Covers(x) == Built' /\ creator' = creator => \A i \in DOMAIN heap' :
    i \notin DOMAIN heap \/ Carries(x, proc[x], i)
       => Settled(i)' \/ Carries(x, proc[x], i)'

-----------------------------------------------------------------------------
(* Transactions and their verdicts.                                        *)

LEMMA StatusOfXid ==
    ASSUME TypeInv
    PROVE  /\ StatusOf(InvalidXID) = "aborted" /\ StatusOf(FrozenXID) = "committed"
           /\ \A x \in Xids : StatusOf(x) = status[x] /\ x \in Nat /\ x >= FirstNormalXID
           /\ InvalidXID \notin Xids /\ FrozenXID \notin Xids /\ Nobody \notin Xids
           /\ InvalidXID # FrozenXID
  BY XidAssumption DEF StatusOf, InvalidXID, FrozenXID, FirstNormalXID, Xids, Nobody

LEMMA VerdictsStay ==
    ASSUME TypeInv, TypeInv', NEW x \in Xids, Acts(x)
    PROVE  \A y \in Names :
              /\ StatusOf(y) \in {"committed", "aborted"} => StatusOf(y)' = StatusOf(y)
              /\ StatusOf(y) # "unassigned" => StatusOf(y)' # "unassigned"
              /\ y # x => StatusOf(y)' = StatusOf(y)
<1> SUFFICES ASSUME NEW y \in Names
             PROVE  /\ StatusOf(y) \in {"committed", "aborted"} => StatusOf(y)' = StatusOf(y)
                    /\ StatusOf(y) # "unassigned" => StatusOf(y)' # "unassigned"
                    /\ y # x => StatusOf(y)' = StatusOf(y)
  OBVIOUS
<1>1. y \in Xids => StatusOf(y) = status[y] /\ StatusOf(y)' = status'[y]
  BY DEF StatusOf, InvalidXID, FirstNormalXID, Xids
<1>2. y \notin Xids => StatusOf(y)' = StatusOf(y) /\ StatusOf(y) \in {"committed", "aborted"}
  BY DEF Names, StatusOf, InvalidXID, FrozenXID, FirstNormalXID
<1>3. y \in Xids /\ y # x => status'[y] = status[y]
  BY DEF Acts, Others
<1>4. \/ status'[x] = status[x] /\ status[x] = "running"
      \/ status[x] = "unassigned" /\ status'[x] = "running"
      \/ status[x] = "running" /\ status'[x] \in {"committed", "aborted"}
  BY DEF Acts, StatusMoves
<1> QED
  BY <1>1, <1>2, <1>3, <1>4

LEMMA HeapTypes ==
    ASSUME TypeInv
    PROVE  /\ DOMAIN heap = 1 .. Len(heap) /\ Len(heap) \in Nat
           /\ \A i \in DOMAIN heap :
                 /\ heap[i] \in Versions /\ i \in Nat /\ i # NoTid
                 /\ heap[i].xmin \in Names \ {InvalidXID} /\ heap[i].xmax \in Names \ {FrozenXID}
                 /\ heap[i].key \in Int /\ heap[i].ctid \in Nat
<1>1. heap \in Seq(Versions)
  BY DEF TypeInv
<1>2. DOMAIN heap = 1 .. Len(heap) /\ Len(heap) \in Nat
  BY <1>1, LenProperties
<1>3. \A i \in DOMAIN heap : heap[i] \in Versions /\ i \in Nat /\ i # NoTid
  BY <1>1, <1>2, ElementOfSeq DEF NoTid
<1> QED
  BY <1>2, <1>3, StatusOfXid DEF Versions, Names

\* Whoever waits for an entry and whoever builds are not two.
LEMMA OneIndexer ==
    ASSUME TypeInv, NEW x \in Xids, NEW z \in Xids, x # z,
           ProcFits(x, proc[x]), ProcFits(z, proc[z]),
           lock = x \/ proc[x].pc = "build"
    PROVE  lock # z /\ proc[z].pc # "build"
<1>1. \A y \in {x, z} :
         /\ lock = y \/ proc[y].pc = "build" => creator = y \/ StatusOf(creator) = "committed"
         /\ proc[y].pc = "build" => creator = y /\ status[y] = "running"
  BY DEF ProcFits, StmtFits, InsertFits, BuildFits, Off
<1>2. \A y \in {x, z} : StatusOf(y) = status[y]
  BY StatusOfXid
<1> QED
  BY <1>1, <1>2

-----------------------------------------------------------------------------
(* What a step leaves as it was.                                           *)

LEMMA KeptIs ==
    ASSUME TypeInv, TypeInv', NEW x \in Xids, Acts(x), NEW i \in DOMAIN heap
    PROVE  /\ i \in DOMAIN heap' /\ heap'[i].key = heap[i].key /\ heap'[i].xmin = heap[i].xmin
           /\ StatusOf(heap[i].xmax) # "aborted" => heap'[i].xmax = heap[i].xmax
  BY DEF Acts, Writes, Kept

LEMMA DeadStays ==
    ASSUME TypeInv, TypeInv', NEW x \in Xids, Acts(x),
           NEW z \in Names, StatusOf(z) # "aborted", NEW i \in DOMAIN heap, DeadFor(z, i)
    PROVE  DeadFor(z, i)'
<1>1. /\ heap'[i].xmin = heap[i].xmin
      /\ StatusOf(heap[i].xmax) # "aborted" => heap'[i].xmax = heap[i].xmax
  BY KeptIs
<1>2. heap[i].xmin \in Names /\ heap[i].xmax \in Names
  BY HeapTypes
<1>3. CASE StatusOf(heap[i].xmin) = "aborted"
  BY <1>1, <1>2, <1>3, VerdictsStay DEF DeadFor
<1>4. CASE StatusOf(heap[i].xmax) = "committed"
  BY <1>1, <1>2, <1>4, VerdictsStay DEF DeadFor
<1>5. CASE heap[i].xmax = z /\ z # InvalidXID
  BY <1>1, <1>5 DEF DeadFor
<1> QED
  BY <1>3, <1>4, <1>5 DEF DeadFor

\* An index that stands did so before, unless this step created it.
LEMMA BuiltBefore ==
    ASSUME TypeInv, TypeInv', CreatorInv, NEW x \in Xids, Acts(x)
    PROVE  /\ Built' /\ creator' = creator => Built
           /\ creator' # creator => indexed = {} /\ ~Built
<1>1. creator \in Names
  BY DEF TypeInv
<1>2. creator' = creator /\ ~Built => ~Built'
  <2>1. StatusOf(creator) = "aborted" => StatusOf(creator)' = "aborted" \/ creator' # creator
    <3>1. PICK c \in Names : c = creator
      BY <1>1
    <3>2. StatusOf(c) = "aborted" => StatusOf(c)' = "aborted"
      BY <3>1, VerdictsStay
    <3> QED
      BY <3>1, <3>2
  <2> QED
    BY <2>1 DEF Built
<1>3. creator' # creator => creator = InvalidXID
  BY DEF Acts, Creates
<1> QED
  BY <1>2, <1>3, StatusOfXid DEF CreatorInv, Built

LEMMA ExcludesStays ==
    ASSUME TypeInv, TypeInv', NEW x \in Xids, Acts(x), Built, creator' = creator,
           NEW i \in DOMAIN heap, NEW j \in DOMAIN heap, Excludes(i, j)
    PROVE  Excludes(i, j)'
<1>1. PICK c \in Names : c = creator
  BY DEF TypeInv
<1>2. StatusOf(c) # "aborted"
  BY <1>1 DEF Built
<1>3. DeadFor(c, i) \/ DeadFor(c, j) => DeadFor(c, i)' \/ DeadFor(c, j)'
  BY <1>2, DeadStays
<1>4. /\ heap'[i].xmin = heap[i].xmin /\ heap'[j].xmin = heap[j].xmin
      /\ StatusOf(heap[i].xmax) # "aborted" => heap'[i].xmax = heap[i].xmax
      /\ StatusOf(heap[j].xmax) # "aborted" => heap'[j].xmax = heap[j].xmax
  BY KeptIs
<1>5. CASE heap[i].xmax = heap[j].xmin
  <2>1. StatusOf(heap[i].xmax) = "aborted" => DeadFor(c, j)
    BY <1>5 DEF DeadFor
  <2>2. StatusOf(heap[i].xmax) # "aborted" => heap'[i].xmax = heap'[j].xmin
    BY <1>4, <1>5
  <2> QED
    BY <1>1, <1>3, <2>1, <2>2 DEF Excludes
<1>6. CASE heap[j].xmax = heap[i].xmin
  <2>1. StatusOf(heap[j].xmax) = "aborted" => DeadFor(c, i)
    BY <1>6 DEF DeadFor
  <2>2. StatusOf(heap[j].xmax) # "aborted" => heap'[j].xmax = heap'[i].xmin
    BY <1>4, <1>6
  <2> QED
    BY <1>1, <1>3, <2>1, <2>2 DEF Excludes
<1> QED
  BY <1>1, <1>3, <1>5, <1>6 DEF Excludes

LEMMA PairKeeps ==
    ASSUME TypeInv, TypeInv', CreatorInv, PairInv, NEW x \in Xids, Acts(x)
    PROVE  PairInv'
<1> SUFFICES ASSUME Built', NEW i \in indexed', NEW j \in indexed', i # j,
                    heap'[i].key = heap'[j].key
             PROVE  Excludes(i, j)'
  BY DEF PairInv
<1>1. CASE creator' # creator
  BY <1>1, BuiltBefore DEF Acts, Enters
<1>2. CASE creator' = creator
  <2>1. Built /\ indexed \subseteq DOMAIN heap
    BY <1>2, BuiltBefore DEF TypeInv
  <2>2. i \in DOMAIN heap /\ j \in DOMAIN heap
    BY <2>1 DEF Acts, Enters, NewEntry
  <2>3. heap[i].key = heap[j].key
    BY <2>2, KeptIs
  <2>4. ASSUME i \in indexed, j \in indexed PROVE Excludes(i, j)
    BY <2>1, <2>3, <2>4 DEF PairInv
  <2>5. ASSUME ~(i \in indexed /\ j \in indexed) PROVE Excludes(i, j)
    <3>1. PICK n \in DOMAIN heap : NewEntry(n)
      BY <2>1, <2>5 DEF Acts, Enters
    <3>2. (i = n /\ j \in indexed) \/ (j = n /\ i \in indexed)
      <4>1. i \in indexed \cup {n} /\ j \in indexed \cup {n}
        BY <3>1 DEF NewEntry
      <4> QED
        BY <2>5, <4>1
    <3>3. Excludes(i, j) \/ Excludes(j, i)
      BY <2>3, <3>1, <3>2 DEF NewEntry
    <3> QED
      BY <3>3 DEF Excludes
  <2>6. Excludes(i, j)
    BY <2>4, <2>5
  <2> QED
    BY <1>2, <2>1, <2>2, <2>6, ExcludesStays
<1> QED
  BY <1>1, <1>2

\* The versions themselves, those a step adds among them.
LEMMA VersionsKeep ==
    ASSUME TypeInv, TypeInv', VersionInv, CreatorInv, NEW x \in Xids, Acts(x)
    PROVE  VersionInv' /\ CreatorInv'
<1>1. StatusOf(x)' # "unassigned"
  BY StatusOfXid DEF Acts, StatusMoves, StatusOf, Xids, FirstNormalXID, InvalidXID
<1>2. ASSUME NEW i \in DOMAIN heap
      PROVE  /\ StatusOf(heap[i].xmin)' # "unassigned" /\ StatusOf(heap[i].xmax)' # "unassigned"
             /\ heap'[i].ctid \in DOMAIN heap'
  <2>1. PICK a, b \in Names : a = heap[i].xmin /\ b = heap[i].xmax
    BY HeapTypes
  <2>2. StatusOf(a)' # "unassigned" /\ StatusOf(b)' # "unassigned"
    BY <1>2, <2>1, VerdictsStay DEF VersionInv
  <2>3. Kept(i, x) /\ DOMAIN heap \subseteq DOMAIN heap' /\ heap[i].ctid \in DOMAIN heap
    BY DEF Acts, Writes, VersionInv
  <2>4. heap'[i].xmin = a /\ (heap'[i].xmax = b \/ heap'[i].xmax = x)
    BY <2>1, <2>3 DEF Kept
  <2>5. heap'[i].ctid \in DOMAIN heap'
    BY <2>3 DEF Kept
  <2> QED
    BY <1>1, <2>2, <2>4, <2>5
<1>3. ASSUME NEW i \in DOMAIN heap' \ DOMAIN heap
      PROVE  /\ StatusOf(heap[i].xmin)' # "unassigned" /\ StatusOf(heap[i].xmax)' # "unassigned"
             /\ heap'[i].ctid \in DOMAIN heap'
  <2>1. Added(i, x)
    BY DEF Acts, Writes
  <2> QED
    BY <1>1, <2>1, StatusOfXid DEF Added, StatusOf, InvalidXID
<1>4. CreatorInv'
  <2>1. CASE creator' = creator
    <3>1. PICK c \in Names : c = creator
      BY DEF TypeInv
    <3>2. StatusOf(c)' # "unassigned"
      BY <3>1, VerdictsStay DEF CreatorInv
    <3>3. creator = InvalidXID => indexed' = indexed
      BY StatusOfXid DEF Acts, Enters, Built, CreatorInv
    <3> QED
      BY <2>1, <3>1, <3>2, <3>3 DEF CreatorInv
  <2>2. CASE creator' = x /\ x # InvalidXID
    BY <1>1, <2>2 DEF CreatorInv
  <2> QED
    BY <2>1, <2>2, StatusOfXid DEF Acts, Creates
<1> QED
  BY <1>2, <1>3, <1>4 DEF VersionInv

LEMMA BlamedKeeps ==
    ASSUME TypeInv, TypeInv', BlamedInv, NEW x \in Xids, Acts(x), blamed' = blamed
    PROVE  BlamedInv'
<1> SUFFICES ASSUME NEW z \in Xids, blamed[z] # NoTid
             PROVE  /\ blamed[z] \in DOMAIN heap'
                    /\ heap'[blamed[z]].xmin = z \/ StatusOf(heap[blamed[z]].xmin)' = "committed"
  BY DEF BlamedInv
<1>1. PICK i \in DOMAIN heap : i = blamed[z]
  BY DEF BlamedInv
<1>2. PICK a \in Names : a = heap[i].xmin /\ a = heap'[i].xmin /\ i \in DOMAIN heap'
  BY HeapTypes, KeptIs
<1>3. a = z \/ StatusOf(a) = "committed"
  BY <1>1, <1>2 DEF BlamedInv
<1>4. a = z \/ StatusOf(a)' = "committed"
  BY <1>3, VerdictsStay
<1> QED
  BY <1>1, <1>2, <1>4

-----------------------------------------------------------------------------
(* The other sessions.                                                     *)

\* What another session has to see to it still has to, if it is not settled.
LEMMA CarriesStays ==
    ASSUME TypeInv, TypeInv', NEW x \in Xids, Acts(x), NEW z \in Xids \ {x},
           creator' = creator, NEW i \in DOMAIN heap, Carries(z, proc[z], i)
    PROVE  Carries(z, proc[z], i)'
<1>1. status'[z] = status[z] /\ proc'[z] = proc[z] /\ (lock' = z <=> lock = z)
  BY DEF Acts, Others, Locks
<1>2. heap'[i].xmin = heap[i].xmin
  BY KeptIs
<1> QED
  BY <1>1, <1>2 DEF Carries

LEMMA SettledStays ==
    ASSUME TypeInv, TypeInv', NEW x \in Xids, Acts(x), NEW i \in DOMAIN heap, Settled(i)
    PROVE  Settled(i)'
<1>1. indexed \subseteq indexed' /\ blind \subseteq blind'
  BY DEF Acts, Enters, NewEntry, Writes
<1>2. PICK a \in Names : a = heap[i].xmin /\ a = heap'[i].xmin
  BY HeapTypes, KeptIs
<1>3. StatusOf(a) = "aborted" => StatusOf(a)' = "aborted"
  BY VerdictsStay
<1> QED
  BY <1>1, <1>2, <1>3 DEF Settled

LEMMA CoverKeeps ==
    ASSUME TypeInv, TypeInv', CreatorInv, CoverInv, NEW x \in Xids, Acts(x), Covers(x),
           creator' = creator
    PROVE  CoverInv'
<1> SUFFICES ASSUME Built', NEW i \in DOMAIN heap'
             PROVE  Settled(i)' \/ \E z \in Xids : Carries(z, proc[z], i)'
  BY DEF CoverInv
<1>1. Built
  BY BuiltBefore
<1>2. CASE i \notin DOMAIN heap \/ Carries(x, proc[x], i)
  BY <1>2 DEF Covers
<1>3. CASE i \in DOMAIN heap /\ ~Carries(x, proc[x], i)
  <2>1. Settled(i) \/ \E z \in Xids \ {x} : Carries(z, proc[z], i)
    BY <1>1, <1>3 DEF CoverInv
  <2>2. CASE Settled(i)
    BY <1>3, <2>2, SettledStays
  <2>3. CASE \E z \in Xids \ {x} : Carries(z, proc[z], i)
    BY <1>3, <2>3, CarriesStays
  <2> QED
    BY <2>1, <2>2, <2>3
<1> QED
  BY <1>2, <1>3

\* A statement that knows the index goes on knowing it.
LEMMA SeesStays ==
    ASSUME TypeInv, TypeInv', NEW x \in Xids, Acts(x), NEW z \in Xids \ {x},
           creator = z \/ StatusOf(creator) = "committed"
    PROVE  /\ creator' = creator
           /\ creator' = z \/ StatusOf(creator)' = "committed"
<1>1. PICK c \in Names : c = creator
  BY DEF TypeInv
<1>2. creator' = creator
  BY StatusOfXid DEF Acts, Creates
<1>3. StatusOf(c) = "committed" => StatusOf(c)' = "committed"
  BY VerdictsStay
<1> QED
  BY <1>1, <1>2, <1>3

LEMMA OthersKeep ==
    ASSUME IndInv, TypeInv', NEW x \in Xids, Acts(x), NEW z \in Xids \ {x}
    PROVE  ProcFits(z, proc[z])'
<1>0. PICK p \in Procs : p = proc[z] /\ p = proc'[z]
  BY DEF IndInv, TypeInv, Acts, Others
<1>1. /\ TypeInv /\ ProcFits(z, p) /\ ProcFits(x, proc[x]) /\ indexed \subseteq DOMAIN heap
      /\ status'[z] = status[z] /\ (lock' = z <=> lock = z)
  BY <1>0 DEF IndInv, Acts, Others, Locks, TypeInv
<1>2. DOMAIN heap \subseteq DOMAIN heap'
  BY DEF Acts, Writes
<1>3. StmtFits(z, p)'
  <2>1. p.sees => creator' = z \/ StatusOf(creator)' = "committed"
    BY <1>1, SeesStays DEF ProcFits, StmtFits
  <2> QED
    BY <1>1, <1>2, <2>1 DEF ProcFits, StmtFits
<1>4. ASSUME lock = z \/ p.pc \in {"acquire", "build"} PROVE status[z] = "running"
  BY <1>1, <1>4 DEF ProcFits, StmtFits, LockFits, Off
<1>5. ASSUME lock = z \/ p.pc = "build" PROVE indexed' = indexed
  <2>1. lock # x /\ proc[x].pc # "build"
    BY <1>0, <1>1, <1>5, OneIndexer
  <2> QED
    BY <2>1 DEF Acts, Enters
<1>6. ASSUME status[z] = "running", NEW i \in DOMAIN heap
      PROVE  /\ heap[i].xmax = z => heap'[i].xmax = z
             /\ DeadFor(z, i) => DeadFor(z, i)'
  <2>1. StatusOf(z) = "running" /\ z \in Names
    BY <1>1, <1>6, StatusOfXid DEF Names
  <2> QED
    BY <1>1, <2>1, KeptIs, DeadStays
<1>7. \A i \in DOMAIN heap : heap'[i].xmin = heap[i].xmin /\ heap'[i].key = heap[i].key
  BY <1>1, KeptIs
<1>8. InsertFits(z, p)'
  <2>1. SUFFICES ASSUME p.pc = "acquire" \/ lock = z
                 PROVE  /\ p.sees /\ p.new \in DOMAIN heap'
                        /\ heap'[p.new].xmin = z /\ heap'[p.new].key = p.key
                        /\ Changing(p) => heap'[p.target].xmax = z
    BY <1>1 DEF InsertFits
  <2>2. /\ p.sees /\ p.new \in DOMAIN heap
        /\ heap[p.new].xmin = z /\ heap[p.new].key = p.key
        /\ Changing(p) => heap[p.target].xmax = z /\ p.target \in DOMAIN heap
    BY <1>1, <2>1 DEF ProcFits, StmtFits, InsertFits
  <2> QED
    BY <1>2, <1>4, <1>6, <1>7, <2>1, <2>2
<1>9. LockFits(z, p)'
  <2>1. SUFFICES ASSUME lock = z
                 PROVE  /\ p.pc = "fetch"
                        /\ \A i \in indexed' : heap'[i].key = p.key /\ i # p.target
                                                 => i \in p.todo \/ DeadFor(z, i)'
    BY <1>1 DEF LockFits
  <2>2. /\ p.pc = "fetch"
        /\ \A i \in indexed : heap[i].key = p.key /\ i # p.target => i \in p.todo \/ DeadFor(z, i)
    BY <1>1, <2>1 DEF ProcFits, LockFits
  <2> QED
    BY <1>1, <1>4, <1>5, <1>6, <1>7, <2>1, <2>2
<1>10. BuildFits(z, p)'
  <2>1. SUFFICES ASSUME p.pc = "build"
                 PROVE  /\ creator' = z
                        /\ \A i \in indexed' : heap'[i].key \in p.seen \/ DeadFor(z, i)'
    BY <1>1 DEF BuildFits
  <2>2. creator = z /\ \A i \in indexed : heap[i].key \in p.seen \/ DeadFor(z, i)
    BY <1>1, <2>1 DEF ProcFits, BuildFits
  <2>3. creator' = creator
    BY <1>1, <2>2, SeesStays
  <2> QED
    BY <1>1, <1>4, <1>5, <1>6, <1>7, <2>1, <2>2, <2>3
<1> QED
  BY <1>0, <1>3, <1>8, <1>9, <1>10 DEF ProcFits

-----------------------------------------------------------------------------
(* The common part of every step.                                          *)

LEMMA Advance ==
    ASSUME IndInv, TypeInv', NEW x \in Xids, Acts(x), CoverInv', BlamedInv',
           ProcFits(x, proc[x])'
    PROVE  IndInv'
<1>1. TypeInv /\ VersionInv /\ CreatorInv /\ PairInv
  BY DEF IndInv
<1>2. VersionInv' /\ CreatorInv' /\ PairInv'
  BY <1>1, VersionsKeep, PairKeeps
<1>3. \A z \in Xids : ProcFits(z, proc[z])'
  BY OthersKeep
<1> QED
  BY <1>2, <1>3 DEF IndInv

Same == UNCHANGED <<status, heap, indexed, creator, load, blind>>

\* A step in which x moves on to state q, having perhaps taken or released
\* the lock.
LEMMA MovesOn ==
    ASSUME IndInv, NEW x \in Xids, status[x] = "running", NEW q \in Procs,
           proc' = [proc EXCEPT ![x] = q], Same,
           lock' \in Xids \cup {Nobody}, Locks(x),
           blamed' \in [Xids -> Nat], \A z \in Xids \ {x} : blamed'[z] = blamed[z], BlamedInv',
           ProcFits(x, q)',
           \A i \in DOMAIN heap :
              Carries(x, proc[x], i) => Settled(i) \/ Carries(x, q, i)'
    PROVE  IndInv'
<1>0. TypeInv /\ CreatorInv /\ CoverInv
  BY DEF IndInv
<1>1. proc'[x] = q /\ \A z \in Xids \ {x} : proc'[z] = proc[z]
  BY <1>0 DEF TypeInv
<1>2. TypeInv'
  BY <1>0 DEF TypeInv, Same
<1>3. Acts(x)
  BY <1>1 DEF Acts, Others, Writes, Kept, Enters, StatusMoves, Creates, Same
<1>4. Covers(x)
  BY <1>1 DEF Covers, Same, Settled, StatusOf
<1>5. CoverInv'
  BY <1>0, <1>2, <1>3, <1>4, CoverKeeps DEF Same
<1>6. ProcFits(x, proc[x])'
  BY <1>1
<1> QED
  BY <1>2, <1>3, <1>5, <1>6, Advance

\* Nothing but the state of x changes.
Alone(x, q) == proc' = [proc EXCEPT ![x] = q] /\ Same /\ UNCHANGED <<lock, blamed>>

LEMMA GoesOn ==
    ASSUME IndInv, NEW x \in Xids, status[x] = "running", NEW q \in Procs, Alone(x, q),
           ProcFits(x, q),
           \A i \in DOMAIN heap : Carries(x, proc[x], i) => Settled(i) \/ Carries(x, q, i)
    PROVE  IndInv'
<1>0. TypeInv /\ BlamedInv
  BY DEF IndInv
<1>1. Same /\ lock' = lock /\ blamed' = blamed
  BY DEF Alone
<1>2. BlamedInv'
  BY <1>0, <1>1 DEF Same, BlamedInv, StatusOf
<1>3. ProcFits(x, q)'
  BY <1>1 DEF Same, ProcFits, StmtFits, InsertFits, LockFits, BuildFits, DeadFor, StatusOf
<1>4. \A i \in DOMAIN heap : Carries(x, q, i) => Carries(x, q, i)'
  BY <1>1 DEF Same, Carries
<1> QED
  BY <1>0, <1>1, <1>2, <1>3, <1>4, MovesOn DEF Alone, TypeInv, Locks

\* A statement's state, taken at a moment at which it holds and builds nothing:
\* it may choose any other such state.
Plain(x, p) == p.pc \in {"idle", "lock", "check", "write", "fetch"} /\ lock # x

LEMMA PlainGoesOn ==
    ASSUME IndInv, NEW x \in Xids, status[x] = "running", NEW q \in Procs, Alone(x, q),
           Plain(x, proc[x]), Plain(x, q) \/ (q.pc = "error" /\ lock # x), StmtFits(x, q)
    PROVE  IndInv'
<1>1. InsertFits(x, q) /\ LockFits(x, q) /\ BuildFits(x, q)
  BY DEF Plain, InsertFits, LockFits, BuildFits
<1>2. \A i \in DOMAIN heap : ~Carries(x, proc[x], i)
  BY DEF Plain, Carries
<1> QED
  BY <1>1, <1>2, GoesOn DEF ProcFits

\* Fields of a session's state.
LEMMA FieldTypes ==
    ASSUME IndInv, NEW x \in Xids
    PROVE  /\ proc[x] \in Procs /\ Off \in Procs /\ Idle \in Procs
           /\ x \in Nat /\ x \in Names /\ x # InvalidXID
           /\ TypeInv /\ ProcFits(x, proc[x])
<1>1. proc[x] \in Procs
  BY DEF IndInv, TypeInv
<1>2. Off \in Procs /\ Idle \in Procs
  <2>1. Off \in Procs
    BY DEF Procs, Off, Pcs, Kinds, NoKey, NoTid, InvalidXID
  <2> QED
    BY <2>1 DEF Procs, Idle, Pcs
<1>3. x \in Nat /\ x \in Names /\ x # InvalidXID
  BY StatusOfXid DEF IndInv, Names
<1> QED
  BY <1>1, <1>2, <1>3 DEF IndInv, Procs

LEMMA OffIs ==
    /\ Off \in Procs /\ Off.pc = "off" /\ Off.kind = "insert" /\ Off.target = NoTid
    /\ Off.sees = FALSE
  BY DEF Procs, Off, Pcs, Kinds, NoKey, NoTid, InvalidXID

LEMMA InTransaction ==
    ASSUME IndInv, NEW x \in Xids, proc[x].pc # "off"
    PROVE  status[x] = "running"
<1>1. Off.pc = "off"
  BY DEF Off
<1> QED
  BY <1>1, FieldTypes DEF ProcFits, StmtFits

\* To begin or to end a wait for another transaction changes nothing else.
LEMMA WaitsKeep ==
    ASSUME IndInv, NEW x \in Xids, NEW v \in Nat, proc[x].pc # "off",
           Alone(x, [proc[x] EXCEPT !.wait = v])
    PROVE  IndInv'
<1> DEFINE p == proc[x]
           q == [proc[x] EXCEPT !.wait = v]
<1>1. /\ q \in Procs /\ q.pc = p.pc /\ q.kind = p.kind /\ q.target = p.target /\ q.key = p.key
      /\ q.new = p.new /\ q.sees = p.sees /\ q.todo = p.todo /\ q.seen = p.seen
  BY FieldTypes DEF Procs
<1>2. status[x] = "running" /\ Alone(x, q)
  BY InTransaction
<1> HIDE DEF q
<1>3. StmtFits(x, p) /\ InsertFits(x, p) /\ LockFits(x, p) /\ BuildFits(x, p)
  BY FieldTypes DEF ProcFits
<1>4. StmtFits(x, q)
  BY <1>1, <1>2, <1>3 DEF StmtFits, Changing
<1>5. InsertFits(x, q) /\ LockFits(x, q) /\ BuildFits(x, q)
  BY <1>1, <1>3 DEF InsertFits, LockFits, BuildFits, Changing
<1>6. \A i \in DOMAIN heap : Carries(x, p, i) => Carries(x, q, i)
  BY <1>1 DEF Carries
<1> QED
  BY <1>1, <1>2, <1>4, <1>5, <1>6, GoesOn DEF ProcFits

-----------------------------------------------------------------------------
(* The heap's half of a statement.                                         *)

Rest == UNCHANGED <<status, creator, load>>

\* At one of these places x holds no lock, and is not done.
LEMMA PlainNow ==
    ASSUME IndInv, NEW x \in Xids, proc[x].pc \in {"idle", "lock", "check", "write"}
    PROVE  Plain(x, proc[x]) /\ status[x] = "running"
<1>1. lock # x
  BY FieldTypes DEF ProcFits, LockFits
<1> QED
  BY <1>1, InTransaction DEF Plain

\* A statement about an existing row knows its row.
LEMMA TargetIs ==
    ASSUME IndInv, NEW x \in Xids, proc[x].pc = "lock" \/ Changes(x)
    PROVE  /\ proc[x].target \in DOMAIN heap /\ Changing(proc[x])
           /\ heap[proc[x].target] \in Versions /\ heap[proc[x].target].xmax \in Nat
           /\ heap[proc[x].target].ctid \in DOMAIN heap
<1>1. TypeInv /\ VersionInv /\ StmtFits(x, proc[x])
  BY FieldTypes DEF IndInv, ProcFits
<1>2. proc[x].target \in DOMAIN heap /\ Changing(proc[x])
  BY <1>1 DEF StmtFits, Changing, Changes
<1>3. Names \subseteq Nat
  BY <1>1, StatusOfXid DEF Names, InvalidXID, FrozenXID
<1> QED
  BY <1>1, <1>2, <1>3, HeapTypes DEF VersionInv

LEMMA WaitForWriterKeeps ==
    ASSUME IndInv, NEW x \in Xids, WaitForWriter(x), Rest
    PROVE  IndInv'
<1>1. proc[x].pc # "off" /\ heap[proc[x].target].xmax \in Nat
  BY TargetIs DEF WaitForWriter, At
<1> QED
  BY <1>1, WaitsKeep DEF WaitForWriter, Rest, Alone, Same

LEMMA LockTargetKeeps ==
    ASSUME IndInv, NEW x \in Xids, LockTarget(x), Rest
    PROVE  IndInv'
<1> DEFINE next == IF proc[x].sees THEN "check" ELSE "write"
           q == [proc[x] EXCEPT !.pc = next]
<1>1. Plain(x, proc[x]) /\ status[x] = "running"
  BY PlainNow DEF LockTarget, At
<1>2. Alone(x, q)
  BY DEF LockTarget, Rest, Alone, Same
<1>3. next \in {"check", "write"}
  OBVIOUS
<1> HIDE DEF next
<1>4. /\ q \in Procs /\ q.pc = next /\ q.kind = proc[x].kind /\ q.target = proc[x].target
      /\ q.sees = proc[x].sees
  BY <1>3, FieldTypes DEF Procs, Pcs
<1> HIDE DEF q
<1>5. StmtFits(x, q) /\ Plain(x, q)
  BY <1>1, <1>3, <1>4, FieldTypes DEF ProcFits, StmtFits, Changing, Plain
<1> QED
  BY <1>1, <1>2, <1>4, <1>5, PlainGoesOn

\* The statement is over.
LEMMA IdleFits ==
    ASSUME IndInv, NEW x \in Xids, status[x] = "running"
    PROVE  StmtFits(x, Idle) /\ (lock # x => Plain(x, Idle))
  BY DEF StmtFits, Idle, Off, Changing, Plain

LEMMA FollowKeeps ==
    ASSUME IndInv, NEW x \in Xids, Follow(x), Rest
    PROVE  IndInv'
<1> DEFINE old == heap[proc[x].target]
           fail == [proc[x] EXCEPT !.pc = "error"]
           first == IF proc[x].kind = "update" THEN "lock" ELSE "write"
           go == [proc[x] EXCEPT !.target = old.ctid, !.pc = first]
<1>1. Plain(x, proc[x]) /\ status[x] = "running"
  BY PlainNow DEF Follow, At
<1>2. proc[x].pc = "lock" \/ Changes(x)
  BY DEF Follow, At
<1>3. Alone(x, fail) \/ Alone(x, go) \/ Alone(x, Idle)
  <2>1. \/ proc' = [proc EXCEPT ![x] = fail]
        \/ proc' = [proc EXCEPT ![x] = go]
        \/ proc' = [proc EXCEPT ![x] = Idle]
    BY Zenon DEF Follow
  <2>2. UNCHANGED <<heap, indexed, lock, blamed, blind>>
    BY DEF Follow
  <2> QED
    BY <2>1, <2>2 DEF Rest, Alone, Same
<1>4. old.ctid \in DOMAIN heap /\ old.ctid \in Nat /\ Changing(proc[x])
  BY <1>2, TargetIs DEF Versions
<1>5. CASE Alone(x, fail)
  <2>1. /\ fail \in Procs /\ fail.pc = "error" /\ fail.kind = proc[x].kind
        /\ fail.target = proc[x].target /\ fail.sees = proc[x].sees
    BY FieldTypes DEF Procs, Pcs
  <2> HIDE DEF fail
  <2>2. StmtFits(x, fail) /\ lock # x
    BY <1>1, <2>1, FieldTypes DEF ProcFits, StmtFits, Changing, Plain
  <2> QED
    BY <1>1, <1>5, <2>1, <2>2, PlainGoesOn
<1>6. CASE Alone(x, go)
  <2>1. first \in {"lock", "write"}
    OBVIOUS
  <2> HIDE DEF first
  <2>2. /\ go \in Procs /\ go.pc = first /\ go.kind = proc[x].kind
        /\ go.target = old.ctid /\ go.sees = proc[x].sees
    BY <1>4, <2>1, FieldTypes DEF Procs, Pcs
  <2> HIDE DEF go, old
  <2>3. StmtFits(x, go) /\ Plain(x, go)
    BY <1>1, <1>4, <2>1, <2>2, FieldTypes DEF ProcFits, StmtFits, Changing, Plain
  <2> QED
    BY <1>1, <1>6, <2>2, <2>3, PlainGoesOn
<1>7. CASE Alone(x, Idle)
  BY <1>1, <1>7, IdleFits, PlainGoesOn, FieldTypes DEF Plain
<1> QED
  BY <1>3, <1>5, <1>6, <1>7

-----------------------------------------------------------------------------
(* The start of a statement.                                               *)

LEMMA StartIs ==
    ASSUME IndInv, NEW x \in Xids, NEW q, Start(x, q), creator' = creator
    PROVE  Alone(x, q) /\ Plain(x, proc[x]) /\ status[x] = "running"
<1>1. Plain(x, proc[x]) /\ status[x] = "running"
  BY PlainNow DEF Start, At
<1> QED
  BY <1>1 DEF Start, Alone, Same

LEMMA StartInsertKeeps ==
    ASSUME IndInv, NEW x \in Xids, NEW k \in load.keys, StartInsert(x, k)
    PROVE  IndInv'
<1> DEFINE sees == SeesIndex(x)
           first == IF sees THEN "check" ELSE "write"
           q == [Off EXCEPT !.pc = first, !.key = k, !.sees = sees]
<1>1. Alone(x, q) /\ Plain(x, proc[x]) /\ status[x] = "running"
  <2>1. Start(x, q) /\ creator' = creator
    BY DEF StartInsert
  <2> HIDE DEF q
  <2> QED
    BY <2>1, StartIs
<1>2. k \in Int
  BY IndexAssumption DEF IndInv, TypeInv
<1>3. first \in {"check", "write"} /\ sees \in BOOLEAN
  BY DEF SeesIndex
<1>4. sees => creator = x \/ StatusOf(creator) = "committed"
  BY DEF SeesIndex
<1> HIDE DEF sees, first
<1>5. /\ q \in Procs /\ q.pc = first /\ q.kind = "insert" /\ q.target = NoTid /\ q.sees = sees
  BY <1>2, <1>3, OffIs DEF Procs, Pcs, Kinds
<1> HIDE DEF q
<1>6. StmtFits(x, q) /\ Plain(x, q)
  BY <1>1, <1>3, <1>4, <1>5 DEF StmtFits, Changing, Plain
<1> QED
  BY <1>1, <1>5, <1>6, PlainGoesOn

LEMMA StartModifyKeeps ==
    ASSUME IndInv, NEW x \in Xids, NEW kind \in {"update", "delete"},
           NEW v \in Int, NEW k \in Int, StartModify(x, kind, v, k)
    PROVE  IndInv'
<1>1. PICK i \in DOMAIN heap :
        Start(x, [Off EXCEPT !.pc = IF kind = "update" THEN "lock" ELSE "write",
                             !.kind = kind, !.key = k, !.qual = v, !.target = i,
                             !.sees = SeesIndex(x)])
  BY Zenon DEF StartModify
<1> DEFINE sees == SeesIndex(x)
           first == IF kind = "update" THEN "lock" ELSE "write"
           q == [Off EXCEPT !.pc = first, !.kind = kind, !.key = k, !.qual = v, !.target = i,
                            !.sees = sees]
<1>2. Alone(x, q) /\ Plain(x, proc[x]) /\ status[x] = "running"
  <2>1. Start(x, q) /\ creator' = creator
    BY <1>1 DEF StartModify
  <2> HIDE DEF q
  <2> QED
    BY <2>1, StartIs
<1>3. first \in {"lock", "write"} /\ sees \in BOOLEAN /\ i \in Nat
  BY FieldTypes, HeapTypes DEF SeesIndex
<1>4. sees => creator = x \/ StatusOf(creator) = "committed"
  BY DEF SeesIndex
<1> HIDE DEF sees, first
<1>5. q \in Procs /\ q.pc = first /\ q.kind = kind /\ q.target = i /\ q.sees = sees
  BY <1>3, OffIs DEF Procs, Pcs, Kinds, NoTid
<1> HIDE DEF q
<1>6. StmtFits(x, q) /\ Plain(x, q)
  BY <1>2, <1>3, <1>4, <1>5 DEF StmtFits, Changing, Plain
<1> QED
  BY <1>2, <1>5, <1>6, PlainGoesOn

\* The builder takes every version upon itself.
LEMMA StartBuildKeeps ==
    ASSUME IndInv, NEW x \in Xids, StartBuild(x)
    PROVE  IndInv'
<1> DEFINE start == [Off EXCEPT !.pc = "build", !.kind = "build", !.todo = DOMAIN heap]
<1>1. /\ proc' = [proc EXCEPT ![x] = start] /\ creator = InvalidXID /\ creator' = x
      /\ UNCHANGED <<load, status, heap, indexed, lock, blamed, blind>>
  BY Zenon DEF StartBuild, Start
<1>2. Plain(x, proc[x]) /\ status[x] = "running"
  BY PlainNow DEF StartBuild, Start, At
<1>3. TypeInv /\ CreatorInv /\ BlamedInv /\ indexed = {} /\ x \in Names /\ DOMAIN heap \subseteq Nat
  BY <1>1, FieldTypes, HeapTypes DEF IndInv, CreatorInv
<1>4. PICK q \in Procs : /\ proc' = [proc EXCEPT ![x] = q]
                         /\ q.pc = "build" /\ q.kind = "build" /\ q.target = NoTid
                         /\ q.sees = FALSE /\ q.todo = DOMAIN heap
  <2>1. /\ start \in Procs /\ start.pc = "build" /\ start.kind = "build"
        /\ start.target = NoTid /\ start.sees = FALSE /\ start.todo = DOMAIN heap
    BY <1>3, OffIs DEF Procs, Pcs, Kinds
  <2> HIDE DEF start
  <2> QED
    BY <1>1, <2>1
<1> HIDE DEF start
<1>5. proc'[x] = q /\ \A z \in Xids \ {x} : proc'[z] = proc[z]
  BY <1>3, <1>4 DEF TypeInv
<1>6. TypeInv'
  BY <1>1, <1>3, <1>4 DEF TypeInv
<1>7. Acts(x)
  BY <1>1, <1>2, <1>5 DEF Acts, Others, Writes, Kept, Enters, StatusMoves, Creates, Locks
<1>8. CoverInv'
  BY <1>1, <1>2, <1>4, <1>5 DEF CoverInv, Carries
<1>9. BlamedInv'
  BY <1>1, <1>3 DEF BlamedInv, StatusOf
<1>10. ProcFits(x, q)'
  <2>1. StmtFits(x, q)'
    BY <1>1, <1>2, <1>4 DEF StmtFits, Changing
  <2>2. InsertFits(x, q)' /\ LockFits(x, q)' /\ BuildFits(x, q)'
    BY <1>1, <1>2, <1>3, <1>4 DEF InsertFits, LockFits, BuildFits, Plain
  <2> QED
    BY <2>1, <2>2 DEF ProcFits
<1>11. ProcFits(x, proc[x])'
  BY <1>5, <1>10
<1> QED
  BY <1>6, <1>7, <1>8, <1>9, <1>11, Advance

-----------------------------------------------------------------------------
(* The check.                                                              *)

\* An induction goes through the first number that breaks a claim.
LEMMA SmallestOf ==
    ASSUME NEW S \in SUBSET Nat, S # {}
    PROVE  \E m \in S : \A y \in S : m <= y
<1> DEFINE Less == {p \in Nat \X Nat : p[1] < p[2]}
<1>1. IsWellFoundedOn(Less, Nat)
  BY NatLessThanWellFounded DEF OpToRel
<1> HIDE DEF Less
<1>2. PICK m \in S : \A y \in S : ~(<<y, m>> \in Less)
  BY <1>1, WFMin
<1>3. ASSUME NEW y \in S, ~(m <= y) PROVE FALSE
  <2> DEFINE p == <<y, m>>
  <2>1. p \in Nat \X Nat /\ p[1] < p[2]
    BY <1>3
  <2>2. p \in Less
    BY <2>1 DEF Less
  <2> QED
    BY <1>2, <2>2
<1> QED
  BY <1>3

LEMMA FirstIs ==
    ASSUME IndInv, NEW x \in Xids, proc[x].pc \in {"fetch", "build"}, proc[x].todo # {}
    PROVE  First(x) \in proc[x].todo /\ First(x) \in DOMAIN heap
<1>1. proc[x].todo \subseteq DOMAIN heap /\ DOMAIN heap \subseteq Nat
  BY FieldTypes, HeapTypes DEF ProcFits, StmtFits
<1>2. PICK m \in proc[x].todo : \A j \in proc[x].todo : m <= j
  BY <1>1, SmallestOf
<1> QED
  BY <1>1, <1>2 DEF First

\* What Dirty says of a version: whether to wait, whom the key belongs to.
LEMMA DirtyIs ==
    ASSUME IndInv, NEW x \in Xids, NEW i \in DOMAIN heap
    PROVE  LET d == Dirty(Me(x), heap[i]) IN
           /\ d.wait \in Nat
           /\ d.wait = InvalidXID => /\ d.live => heap[i].xmin = x \/ StatusOf(heap[i].xmin) = "committed"
                                     /\ ~d.live => DeadFor(x, i)
                                     /\ ~d.live /\ Modify(Me(x), heap[i], i) = "TMInvisible"
                                           => StatusOf(heap[i].xmin) = "aborted"
<1> DEFINE s == Me(x)
           t == heap[i]
<1>1. /\ t \in Versions /\ t.hints = {} /\ t.xmin \in Nat /\ t.xmax \in Nat
      /\ StatusOf(t.xmin) \in {"running", "committed", "aborted"}
      /\ StatusOf(t.xmax) \in {"running", "committed", "aborted"}
  <2>1. t.xmin \in Names /\ t.xmax \in Names /\ t \in Versions
    BY FieldTypes, HeapTypes
  <2>2. \A y \in Names : y \in Nat /\ StatusOf(y) \in Statuses
    BY FieldTypes, StatusOfXid DEF TypeInv, Names, Statuses, InvalidXID, FrozenXID
  <2>3. StatusOf(t.xmin) # "unassigned" /\ StatusOf(t.xmax) # "unassigned"
    BY DEF IndInv, VersionInv
  <2> QED
    BY <2>1, <2>2, <2>3 DEF Versions, Statuses
<1>2. s.xid = x /\ x # InvalidXID
  BY FieldTypes DEF Me
<1>3. /\ XminStatus(s, t) = IF t.xmin = x THEN "committed" ELSE StatusOf(t.xmin)
      /\ XmaxStatus(t) = StatusOf(t.xmax)
  BY <1>1, <1>2 DEF XminStatus, XmaxStatus
<1>4. DeadFor(x, i) <=> StatusOf(t.xmin) = "aborted" \/ StatusOf(t.xmax) = "committed" \/ t.xmax = x
  BY <1>2 DEF DeadFor
<1>5. StatusOf(t.xmin) = "running" /\ t.xmin # x => t.xmin # InvalidXID
  BY FieldTypes, HeapTypes
<1>6. StatusOf(t.xmax) = "running" => t.xmax # InvalidXID
  BY FieldTypes, StatusOfXid
<1>7. XminStatus(s, t) = "committed" => Modify(s, t, i) # "TMInvisible"
  BY DEF Modify
<1> DEFINE d == Dirty(s, t)
           a == XminStatus(s, t)
           b == XmaxStatus(t)
<1>8. CASE a = "aborted"
  <2>1. d.live = FALSE /\ d.wait = InvalidXID
    BY <1>8 DEF Dirty
  <2> QED
    BY <1>3, <1>4, <1>8, <2>1 DEF InvalidXID
<1>9. CASE a = "running"
  <2>1. d.wait = t.xmin
    BY <1>9 DEF Dirty
  <2> QED
    BY <1>1, <1>3, <1>5, <1>9, <2>1
<1>10. CASE a = "committed"
  <2>1. t.xmin = x \/ StatusOf(t.xmin) = "committed"
    BY <1>3, <1>10
  <2>2. CASE t.xmax = InvalidXID
    <3>1. d.live = TRUE /\ d.wait = InvalidXID
      BY <1>10, <2>2 DEF Dirty
    <3> QED
      BY <2>1, <3>1 DEF InvalidXID
  <2>3. CASE t.xmax = x
    <3>1. d.live = FALSE /\ d.wait = InvalidXID
      BY <1>2, <1>10, <2>3 DEF Dirty
    <3> QED
      BY <1>4, <1>7, <1>10, <2>3, <3>1 DEF InvalidXID
  <2>4. CASE t.xmax # InvalidXID /\ t.xmax # x /\ b = "running"
    <3>1. d.wait = t.xmax
      BY <1>2, <1>10, <2>4 DEF Dirty
    <3> QED
      BY <1>1, <2>4, <3>1
  <2>5. CASE t.xmax # InvalidXID /\ t.xmax # x /\ b # "running"
    <3>1. d.live = (b = "aborted") /\ d.wait = InvalidXID
      BY <1>2, <1>10, <2>5 DEF Dirty
    <3>2. ~d.live => DeadFor(x, i)
      BY <1>1, <1>3, <1>4, <2>5, <3>1
    <3> QED
      BY <1>7, <1>10, <2>1, <3>1, <3>2 DEF InvalidXID
  <2> QED
    BY <2>2, <2>3, <2>4, <2>5
<1> QED
  BY <1>1, <1>3, <1>8, <1>9, <1>10

LEMMA CheckKeeps ==
    ASSUME IndInv, NEW x \in Xids, Check(x), Rest
    PROVE  IndInv'
<1> DEFINE q == [proc[x] EXCEPT !.pc = "fetch", !.todo = Entries(proc[x].key, proc[x].target)]
<1>1. Plain(x, proc[x]) /\ status[x] = "running"
  BY PlainNow DEF Check, At
<1>2. Entries(proc[x].key, proc[x].target) \subseteq DOMAIN heap /\ DOMAIN heap \subseteq Nat
  BY FieldTypes, HeapTypes DEF Entries, TypeInv
<1>3. Alone(x, q)
  BY DEF Check, Rest, Alone, Same
<1>4. /\ q \in Procs /\ q.pc = "fetch" /\ q.kind = proc[x].kind /\ q.target = proc[x].target
      /\ q.sees = proc[x].sees /\ q.todo \subseteq DOMAIN heap
  BY <1>2, FieldTypes DEF Procs, Pcs
<1> HIDE DEF q
<1>5. StmtFits(x, q) /\ Plain(x, q)
  BY <1>1, <1>4, FieldTypes DEF ProcFits, StmtFits, Changing, Plain
<1> QED
  BY <1>1, <1>3, <1>4, <1>5, PlainGoesOn

LEMMA CheckPassesKeeps ==
    ASSUME IndInv, NEW x \in Xids, CheckPasses(x), Rest
    PROVE  IndInv'
<1> DEFINE q == [proc[x] EXCEPT !.pc = "write"]
<1>1. Plain(x, proc[x]) /\ status[x] = "running"
  BY InTransaction DEF CheckPasses, At, Plain
<1>2. Alone(x, q)
  BY DEF CheckPasses, Rest, Alone, Same
<1>3. /\ q \in Procs /\ q.pc = "write" /\ q.kind = proc[x].kind /\ q.target = proc[x].target
      /\ q.sees = proc[x].sees
  BY FieldTypes DEF Procs, Pcs
<1> HIDE DEF q
<1>4. StmtFits(x, q) /\ Plain(x, q)
  BY <1>1, <1>3, FieldTypes DEF ProcFits, StmtFits, Changing, Plain
<1> QED
  BY <1>1, <1>2, <1>3, <1>4, PlainGoesOn

\* An entry judged dead is no obstacle to x any more.
LEMMA FetchDeadKeeps ==
    ASSUME IndInv, NEW x \in Xids, FetchDead(x), Rest
    PROVE  IndInv'
<1> DEFINE p == proc[x]
           q == [proc[x] EXCEPT !.todo = @ \ {First(x)}]
<1>1. p.pc = "fetch" /\ status[x] = "running" /\ p.todo # {}
  BY InTransaction DEF FetchDead, At
<1>2. DeadFor(x, First(x))
  BY <1>1, FirstIs, DirtyIs DEF FetchDead, Judged
<1>3. Alone(x, q)
  BY DEF FetchDead, Rest, Alone, Same
<1>4. /\ q \in Procs /\ q.pc = p.pc /\ q.kind = p.kind /\ q.target = p.target /\ q.key = p.key
      /\ q.new = p.new /\ q.sees = p.sees /\ q.todo = p.todo \ {First(x)}
  BY FieldTypes DEF Procs
<1> HIDE DEF q
<1>5. ProcFits(x, q)
  <2>1. StmtFits(x, p) /\ InsertFits(x, p) /\ LockFits(x, p)
    BY FieldTypes DEF ProcFits
  <2>2. StmtFits(x, q)
    BY <1>1, <1>4, <2>1 DEF StmtFits, Changing
  <2>3. InsertFits(x, q)
    BY <1>4, <2>1 DEF InsertFits, Changing
  <2>4. LockFits(x, q) /\ BuildFits(x, q)
    BY <1>1, <1>2, <1>4, <2>1 DEF LockFits, BuildFits
  <2> QED
    BY <2>2, <2>3, <2>4 DEF ProcFits
<1>6. \A i \in DOMAIN heap : Carries(x, p, i) => Carries(x, q, i)
  BY <1>1, <1>4 DEF Carries
<1> QED
  BY <1>1, <1>3, <1>4, <1>5, <1>6, GoesOn

LEMMA WakeKeeps ==
    ASSUME IndInv, NEW x \in Xids, Wake(x), Rest
    PROVE  IndInv'
<1>1. Off.wait = InvalidXID /\ InvalidXID \in Nat
  BY DEF Off, InvalidXID
<1>2. proc[x].pc # "off"
  BY <1>1, FieldTypes DEF Wake, ProcFits, StmtFits
<1> QED
  BY <1>1, <1>2, WaitsKeep DEF Wake, Rest, Alone, Same

\* To wait, the check lets the lock go.
LEMMA FetchWaitsKeeps ==
    ASSUME IndInv, NEW x \in Xids, FetchWaits(x), Rest
    PROVE  IndInv'
<1> DEFINE p == proc[x]
           next == IF lock = x THEN "acquire" ELSE "check"
           q == [proc[x] EXCEPT !.pc = next, !.todo = {}, !.wait = Judged(x).wait]
<1>1. p.pc = "fetch" /\ status[x] = "running" /\ p.todo # {}
  BY InTransaction DEF FetchWaits, At
<1>2. Judged(x).wait \in Nat
  BY <1>1, FirstIs, DirtyIs DEF Judged
<1>3. proc' = [proc EXCEPT ![x] = q] /\ Same /\ blamed' = blamed
  BY DEF FetchWaits, Rest, Same
<1>4. lock' \in Xids \cup {Nobody} /\ Locks(x) /\ lock' # x
  BY FieldTypes, StatusOfXid DEF FetchWaits, Released, Locks, TypeInv
<1>5. next = IF lock = x THEN "acquire" ELSE "check"
  OBVIOUS
<1> HIDE DEF next
<1>6. /\ q \in Procs /\ q.pc = next /\ q.kind = p.kind /\ q.target = p.target /\ q.key = p.key
      /\ q.new = p.new /\ q.sees = p.sees
  BY <1>2, <1>5, FieldTypes DEF Procs, Pcs
<1>7. PICK r \in Procs : r = q
  BY <1>6
<1> HIDE DEF q
<1>8. StmtFits(x, p) /\ InsertFits(x, p) /\ BlamedInv
  BY FieldTypes DEF ProcFits, IndInv
<1>9. BlamedInv'
  BY <1>3, <1>8 DEF BlamedInv, Same, StatusOf
<1>10. StmtFits(x, r)'
  BY <1>1, <1>3, <1>5, <1>6, <1>7, <1>8 DEF StmtFits, Changing, Same, StatusOf
<1>11. InsertFits(x, r)'
  BY <1>1, <1>3, <1>4, <1>5, <1>6, <1>7, <1>8 DEF InsertFits, Changing, Same
<1>12. LockFits(x, r)' /\ BuildFits(x, r)'
  BY <1>4, <1>5, <1>6, <1>7 DEF LockFits, BuildFits
<1>13. \A i \in DOMAIN heap : Carries(x, p, i) => Carries(x, r, i)'
  BY <1>1, <1>3, <1>5, <1>6, <1>7 DEF Carries, Same
<1>14. blamed \in [Xids -> Nat]
  BY FieldTypes DEF TypeInv
<1> QED
  BY <1>1, <1>3, <1>4, <1>7, <1>9, <1>10, <1>11, <1>12, <1>13, <1>14, MovesOn DEF ProcFits

\* A conflict is with a version that was there, and ends in an abort.
LEMMA FetchConflictsKeeps ==
    ASSUME IndInv, NEW x \in Xids, FetchConflicts(x), Rest
    PROVE  IndInv'
<1> DEFINE p == proc[x]
           q == [proc[x] EXCEPT !.pc = "error", !.todo = {}]
<1>1. p.pc = "fetch" /\ status[x] = "running" /\ p.todo # {}
  BY InTransaction DEF FetchConflicts, At
<1>2. PICK i \in DOMAIN heap : i = First(x) /\ i \in Nat
  BY <1>1, FirstIs, FieldTypes, HeapTypes
<1>3. heap[i].xmin = x \/ StatusOf(heap[i].xmin) = "committed"
  BY <1>2, DirtyIs DEF FetchConflicts, Judged
<1>4. /\ proc' = [proc EXCEPT ![x] = q] /\ Same /\ blamed \in [Xids -> Nat]
      /\ blamed' = [blamed EXCEPT ![x] = i]
  BY <1>2, FieldTypes DEF FetchConflicts, Rest, Same, TypeInv
<1>5. /\ blamed' \in [Xids -> Nat] /\ blamed'[x] = i
      /\ \A z \in Xids \ {x} : blamed'[z] = blamed[z]
  BY <1>2, <1>4
<1>6. lock' \in Xids \cup {Nobody} /\ Locks(x) /\ lock' # x
  BY FieldTypes, StatusOfXid DEF FetchConflicts, Released, Locks, TypeInv
<1>7. PICK r \in Procs : /\ proc' = [proc EXCEPT ![x] = r] /\ r.pc = "error" /\ r.kind = p.kind
                         /\ r.target = p.target /\ r.sees = p.sees
  <2>1. /\ q \in Procs /\ q.pc = "error" /\ q.kind = p.kind
        /\ q.target = p.target /\ q.sees = p.sees
    BY FieldTypes DEF Procs, Pcs
  <2> HIDE DEF q
  <2> QED
    BY <1>4, <2>1
<1> HIDE DEF q
<1>8. StmtFits(x, p) /\ BlamedInv
  BY FieldTypes DEF ProcFits, IndInv
<1>9. BlamedInv'
  BY <1>2, <1>3, <1>4, <1>5, <1>8 DEF BlamedInv, Same, StatusOf
<1>10. StmtFits(x, r)'
  BY <1>1, <1>4, <1>7, <1>8 DEF StmtFits, Changing, Same, StatusOf
<1>11. InsertFits(x, r)' /\ LockFits(x, r)' /\ BuildFits(x, r)'
  BY <1>6, <1>7 DEF InsertFits, LockFits, BuildFits
<1>12. \A j \in DOMAIN heap : Carries(x, p, j) => Carries(x, r, j)'
  BY <1>1, <1>4, <1>7 DEF Carries, Same
<1> QED
  BY <1>1, <1>4, <1>5, <1>6, <1>7, <1>9, <1>10, <1>11, <1>12, MovesOn DEF ProcFits

-----------------------------------------------------------------------------
(* Under the lock.                                                         *)

\* The check is repeated on the entries there are once the lock is held.
LEMMA AcquireKeeps ==
    ASSUME IndInv, NEW x \in Xids, Acquire(x), Rest
    PROVE  IndInv'
<1> DEFINE p == proc[x]
           found == Entries(p.key, p.target)
           q == [proc[x] EXCEPT !.pc = "fetch", !.todo = found]
<1>1. p.pc = "acquire" /\ status[x] = "running"
  BY InTransaction DEF Acquire, At
<1>2. found \subseteq DOMAIN heap /\ DOMAIN heap \subseteq Nat
  BY FieldTypes, HeapTypes DEF Entries, TypeInv
<1>3. /\ proc' = [proc EXCEPT ![x] = q] /\ Same /\ blamed' = blamed
      /\ lock = Nobody /\ lock' = x
  BY DEF Acquire, Rest, Same
<1>4. PICK r \in Procs : /\ proc' = [proc EXCEPT ![x] = r] /\ r.pc = "fetch" /\ r.kind = p.kind
                         /\ r.target = p.target /\ r.key = p.key /\ r.new = p.new
                         /\ r.sees = p.sees /\ r.todo = found
  <2>1. /\ q \in Procs /\ q.pc = "fetch" /\ q.kind = p.kind /\ q.target = p.target
        /\ q.key = p.key /\ q.new = p.new /\ q.sees = p.sees /\ q.todo = found
    BY <1>2, FieldTypes DEF Procs, Pcs
  <2> HIDE DEF q
  <2> QED
    BY <1>3, <2>1
<1> HIDE DEF q
<1>5. StmtFits(x, p) /\ InsertFits(x, p) /\ BlamedInv /\ TypeInv
  BY FieldTypes DEF ProcFits, IndInv
<1>6. lock' \in Xids \cup {Nobody} /\ Locks(x)
  BY <1>3, FieldTypes, StatusOfXid DEF Locks
<1>7. BlamedInv'
  BY <1>3, <1>5 DEF BlamedInv, Same, StatusOf
<1>8. StmtFits(x, r)'
  BY <1>1, <1>2, <1>3, <1>4, <1>5 DEF StmtFits, Changing, Same, StatusOf
<1>9. InsertFits(x, r)'
  BY <1>1, <1>3, <1>4, <1>5 DEF InsertFits, Changing, Same
<1>10. LockFits(x, r)' /\ BuildFits(x, r)'
  BY <1>3, <1>4 DEF LockFits, BuildFits, Entries, Same
<1>11. \A i \in DOMAIN heap : Carries(x, p, i) => Carries(x, r, i)'
  BY <1>1, <1>3, <1>4 DEF Carries, Same
<1>12. blamed' \in [Xids -> Nat]
  BY <1>3, <1>5 DEF TypeInv
<1> QED
  BY <1>1, <1>3, <1>4, <1>6, <1>7, <1>8, <1>9, <1>10, <1>11, <1>12, MovesOn DEF ProcFits

\* Idle fits after every step that leaves x without the lock.
LEMMA IdleFitsAfter ==
    ASSUME NEW x \in Xids, status'[x] = "running", lock' # x
    PROVE  ProcFits(x, Idle)'
  BY DEF ProcFits, StmtFits, InsertFits, LockFits, BuildFits, Idle, Off, Changing

LEMMA WriteEntryKeeps ==
    ASSUME IndInv, NEW x \in Xids, WriteEntry(x), Rest
    PROVE  IndInv'
<1> DEFINE p == proc[x]
           n == proc[x].new
<1>1. p.pc = "fetch" /\ status[x] = "running" /\ p.todo = {} /\ lock = x
  BY InTransaction DEF WriteEntry, At
<1>2. /\ TypeInv /\ BlamedInv /\ CreatorInv /\ CoverInv
      /\ StmtFits(x, p) /\ InsertFits(x, p) /\ LockFits(x, p)
      /\ x \in Names /\ x # InvalidXID
  BY FieldTypes DEF ProcFits, IndInv
<1>3. /\ UNCHANGED <<status, heap, creator, load, blamed, blind>>
      /\ indexed' = indexed \cup {n} /\ lock' = Nobody
      /\ proc' = [proc EXCEPT ![x] = Idle]
  BY DEF WriteEntry, Rest
<1>4. proc'[x] = Idle /\ \A z \in Xids \ {x} : proc'[z] = proc[z]
  BY <1>2, <1>3 DEF TypeInv
<1>5. /\ n \in DOMAIN heap /\ heap[n].xmin = x /\ heap[n].key = p.key
      /\ p.target \in DOMAIN heap => heap[p.target].xmax = x
  BY <1>1, <1>2, HeapTypes DEF StmtFits, InsertFits
<1>6. Built
  <2>1. StatusOf(x) = "running"
    BY <1>1, <1>2, StatusOfXid
  <2> QED
    BY <1>1, <1>2, <2>1 DEF StmtFits, InsertFits, Built
<1>7. NewEntry(n)
  <2>1. SUFFICES ASSUME NEW j \in indexed, j # n, heap[j].key = heap[n].key
                 PROVE  Excludes(n, j)
    BY <1>3, <1>5 DEF NewEntry
  <2>2. j \in DOMAIN heap
    BY <1>2 DEF TypeInv
  <2>3. j = p.target \/ DeadFor(x, j)
    BY <1>1, <1>2, <1>5, <2>1 DEF LockFits
  <2> QED
    BY <1>5, <2>2, <2>3 DEF Excludes, DeadFor
<1>8. TypeInv'
  BY <1>2, <1>3, <1>5, FieldTypes DEF TypeInv
<1>9. Acts(x)
  BY <1>1, <1>3, <1>4, <1>5, <1>6, <1>7, <1>2, StatusOfXid
     DEF Acts, Others, Writes, Kept, Enters, StatusMoves, Creates, Locks
<1>10. Covers(x)
  BY <1>1, <1>3 DEF Covers, Settled, Carries
<1>11. CoverInv'
  BY <1>2, <1>3, <1>8, <1>9, <1>10, CoverKeeps
<1>12. BlamedInv'
  BY <1>2, <1>3 DEF BlamedInv, StatusOf
<1>13. ProcFits(x, proc[x])'
  BY <1>1, <1>2, <1>3, <1>4, IdleFitsAfter, StatusOfXid
<1> QED
  BY <1>8, <1>9, <1>11, <1>12, <1>13, Advance

-----------------------------------------------------------------------------
(* The build.                                                              *)

\* Who builds has created the index and does not hold the lock.
LEMMA BuilderIs ==
    ASSUME IndInv, NEW x \in Xids, proc[x].pc = "build"
    PROVE  /\ status[x] = "running" /\ lock # x /\ creator = x /\ Built
           /\ \A i \in indexed : heap[i].key \in proc[x].seen \/ DeadFor(x, i)
           /\ proc[x].todo \subseteq DOMAIN heap
           /\ \A i \in DOMAIN heap : Carries(x, proc[x], i) => i \in proc[x].todo
<1>1. StmtFits(x, proc[x]) /\ LockFits(x, proc[x]) /\ BuildFits(x, proc[x])
  BY FieldTypes DEF ProcFits
<1>2. status[x] = "running" /\ lock # x /\ creator = x
  BY <1>1, InTransaction DEF LockFits, BuildFits
<1>3. Built
  BY <1>2, FieldTypes, StatusOfXid DEF Built
<1> QED
  BY <1>1, <1>2, <1>3 DEF StmtFits, BuildFits, Carries

LEMMA EndBuildKeeps ==
    ASSUME IndInv, NEW x \in Xids, EndBuild(x), Rest
    PROVE  IndInv'
<1>1. proc[x].pc = "build" /\ proc[x].todo = {}
  BY DEF EndBuild, At
<1>2. status[x] = "running" /\ lock # x /\ \A i \in DOMAIN heap : ~Carries(x, proc[x], i)
  BY <1>1, BuilderIs
<1>3. Alone(x, Idle)
  BY DEF EndBuild, Rest, Alone, Same
<1>4. ProcFits(x, Idle)
  <2>1. StmtFits(x, Idle) /\ Plain(x, Idle)
    BY <1>2, IdleFits
  <2> QED
    BY <2>1 DEF ProcFits, Plain, InsertFits, LockFits, BuildFits
<1> QED
  BY <1>2, <1>3, <1>4, GoesOn, FieldTypes

\* What buildTuple does with the version it has come to: waits for somebody,
\* gives up, or is done with it.
BuildOutcome(x, i) ==
    LET p == proc[x]
        d == Dirty(Me(x), heap[i])
        seen == IF d.live THEN p.seen \cup {heap[i].key} ELSE p.seen
        skip == ~d.live /\ Modify(Me(x), heap[i], i) = "TMInvisible"
    IN  \/ d.wait # InvalidXID /\ Alone(x, [p EXCEPT !.wait = d.wait])
        \/ Alone(x, [Off EXCEPT !.pc = "error"])
        \/ /\ d.wait = InvalidXID /\ ~(d.live /\ heap[i].key \in p.seen)
           /\ proc' = [proc EXCEPT ![x] = [p EXCEPT !.todo = p.todo \ {i}, !.seen = seen]]
           /\ indexed' = IF skip THEN indexed ELSE indexed \cup {i}

LEMMA BuildTupleIs ==
    ASSUME IndInv, NEW x \in Xids, BuildTuple(x), Rest, NEW i, i = First(x)
    PROVE  /\ UNCHANGED <<status, heap, lock, creator, load, blamed, blind>>
           /\ BuildOutcome(x, i)
<1> DEFINE p == proc[x]
           d == Dirty(Me(x), heap[i])
           twice == d.live /\ heap[i].key \in p.seen
           skip  == ~d.live /\ Modify(Me(x), heap[i], i) = "TMInvisible"
<1>1. IF d.wait # InvalidXID
      THEN proc' = [proc EXCEPT ![x].wait = d.wait] /\ UNCHANGED indexed
      ELSE /\ proc' = IF twice THEN [proc EXCEPT ![x] = [Off EXCEPT !.pc = "error"]]
                      ELSE [proc EXCEPT
                              ![x].todo = @ \ {i},
                              ![x].seen = IF d.live THEN @ \cup {heap[i].key} ELSE @]
           /\ indexed' = IF twice \/ skip THEN indexed ELSE indexed \cup {i}
  BY DEF BuildTuple, Judged
<1>2. UNCHANGED <<status, heap, lock, creator, load, blamed, blind>>
  BY DEF BuildTuple, Rest
<1> HIDE DEF d
<1>3. CASE d.wait # InvalidXID
  BY <1>1, <1>2, <1>3 DEF Alone, Same, BuildOutcome, d
<1>4. CASE d.wait = InvalidXID /\ twice
  BY <1>1, <1>2, <1>4 DEF Alone, Same, BuildOutcome, d
<1>5. CASE d.wait = InvalidXID /\ ~twice
  <2>1. proc' = [proc EXCEPT ![x] = [p EXCEPT !.todo = p.todo \ {i},
                   !.seen = IF d.live THEN p.seen \cup {heap[i].key} ELSE p.seen]]
    <3>1. proc' = [proc EXCEPT ![x].todo = @ \ {i},
                               ![x].seen = IF d.live THEN @ \cup {heap[i].key} ELSE @]
      BY <1>1, <1>5
    <3> QED
      BY <3>1, FieldTypes DEF IndInv, TypeInv, Procs
  <2> QED
    BY <1>1, <1>2, <1>5, <2>1 DEF BuildOutcome, d
<1> QED
  BY <1>3, <1>4, <1>5

\* The builder refuses a key twice: its transaction has to abort.
LEMMA BuildFailsKeeps ==
    ASSUME IndInv, NEW x \in Xids, proc[x].pc = "build", Alone(x, [Off EXCEPT !.pc = "error"])
    PROVE  IndInv'
<1> DEFINE q == [Off EXCEPT !.pc = "error"]
<1>1. /\ q \in Procs /\ q.pc = "error" /\ q.kind = "insert" /\ q.target = NoTid /\ q.sees = FALSE
  BY OffIs DEF Procs, Pcs
<1>2. Alone(x, q)
  OBVIOUS
<1> HIDE DEF q
<1>3. ProcFits(x, q)
  BY <1>1, BuilderIs DEF ProcFits, StmtFits, InsertFits, LockFits, BuildFits, Changing
<1>4. \A i \in DOMAIN heap : Carries(x, proc[x], i) => Carries(x, q, i)
  BY <1>1, BuilderIs DEF Carries
<1> QED
  BY <1>1, <1>2, <1>3, <1>4, BuilderIs, GoesOn

LEMMA BuildTupleKeeps ==
    ASSUME IndInv, NEW x \in Xids, BuildTuple(x), Rest
    PROVE  IndInv'
<1> DEFINE p == proc[x]
<1>1. p.pc = "build" /\ p.todo # {}
  BY DEF BuildTuple, At
<1>2. PICK i \in DOMAIN heap : i = First(x) /\ i \in p.todo
  BY <1>1, FirstIs
<1> DEFINE d == Dirty(Me(x), heap[i])
           seen == IF d.live THEN p.seen \cup {heap[i].key} ELSE p.seen
           q == [p EXCEPT !.todo = p.todo \ {i}, !.seen = seen]
           skip == ~d.live /\ Modify(Me(x), heap[i], i) = "TMInvisible"
<1>3. /\ UNCHANGED <<status, heap, lock, creator, load, blamed, blind>>
      /\ \/ d.wait # InvalidXID /\ Alone(x, [p EXCEPT !.wait = d.wait])
         \/ Alone(x, [Off EXCEPT !.pc = "error"])
         \/ /\ d.wait = InvalidXID /\ ~(d.live /\ heap[i].key \in p.seen)
            /\ proc' = [proc EXCEPT ![x] = q]
            /\ indexed' = IF skip THEN indexed ELSE indexed \cup {i}
  <2>1. BuildOutcome(x, i) /\ UNCHANGED <<status, heap, lock, creator, load, blamed, blind>>
    BY <1>2, BuildTupleIs
  <2> QED
    BY <2>1 DEF BuildOutcome
<1>4. CASE Alone(x, [p EXCEPT !.wait = d.wait])
  BY <1>1, <1>2, <1>4, DirtyIs, WaitsKeep
<1>5. CASE Alone(x, [Off EXCEPT !.pc = "error"])
  BY <1>1, <1>5, BuildFailsKeeps
<1>6. ASSUME d.wait = InvalidXID, ~(d.live /\ heap[i].key \in p.seen),
             proc' = [proc EXCEPT ![x] = q],
             indexed' = IF skip THEN indexed ELSE indexed \cup {i}
      PROVE  IndInv'
  <2>1. (~d.live => DeadFor(x, i)) /\ (skip => StatusOf(heap[i].xmin) = "aborted")
    BY <1>6, DirtyIs
  <2>2. heap[i].key \in Int /\ p \in Procs /\ seen \subseteq Int /\ p.seen \subseteq seen
        /\ (d.live => heap[i].key \in seen)
    BY FieldTypes, HeapTypes DEF Procs
  <2> HIDE DEF d, seen, skip
  <2>3. PICK r \in Procs : /\ proc' = [proc EXCEPT ![x] = r] /\ r.pc = p.pc /\ r.kind = p.kind
                           /\ r.target = p.target /\ r.sees = p.sees /\ r.todo = p.todo \ {i}
                           /\ r.seen = seen
    <3>1. /\ q \in Procs /\ q.pc = p.pc /\ q.kind = p.kind /\ q.target = p.target
          /\ q.sees = p.sees /\ q.todo = p.todo \ {i} /\ q.seen = seen
      BY <2>2 DEF Procs
    <3> HIDE DEF q
    <3> QED
      BY <1>6, <3>1
  <2> HIDE DEF q
  <2>4. /\ status[x] = "running" /\ lock # x /\ creator = x /\ Built
        /\ \A j \in indexed : heap[j].key \in p.seen \/ DeadFor(x, j)
        /\ \A j \in DOMAIN heap : Carries(x, p, j) => j \in p.todo
    BY <1>1, BuilderIs
  <2>5. /\ TypeInv /\ BlamedInv /\ CreatorInv /\ CoverInv /\ StmtFits(x, p)
        /\ indexed \subseteq DOMAIN heap
    BY FieldTypes DEF ProcFits, IndInv, TypeInv
  <2>6. proc'[x] = r /\ \A z \in Xids \ {x} : proc'[z] = proc[z]
    BY <2>3, <2>5 DEF TypeInv
  <2>7. NewEntry(i) \/ indexed' = indexed
    <3>1. ASSUME NEW j \in indexed, j # i, heap[j].key = heap[i].key PROVE Excludes(i, j)
      <4>1. DeadFor(x, i) \/ DeadFor(x, j)
        BY <1>6, <2>1, <2>4, <3>1
      <4> QED
        BY <2>4, <4>1 DEF Excludes
    <3> QED
      BY <1>6, <3>1 DEF NewEntry
  <2>8. TypeInv'
    BY <1>3, <1>6, <2>3, <2>5 DEF TypeInv
  <2>9. Acts(x)
    BY <1>1, <1>3, <2>4, <2>6, <2>7
       DEF Acts, Others, Writes, Kept, Enters, StatusMoves, Creates, Locks
  <2>10. Covers(x)
    <3>1. i \in indexed' \/ StatusOf(heap[i].xmin) = "aborted"
      BY <1>6, <2>1
    <3>2. Settled(i)'
      BY <1>3, <3>1 DEF Settled, StatusOf
    <3>3. \A j \in DOMAIN heap : Carries(x, p, j) /\ j # i => Carries(x, r, j)'
      BY <1>1, <1>3, <2>3, <2>4 DEF Carries
    <3> QED
      BY <1>3, <2>6, <3>2, <3>3 DEF Covers
  <2>11. CoverInv'
    BY <1>3, <2>5, <2>8, <2>9, <2>10, CoverKeeps
  <2>12. BlamedInv'
    BY <1>3, <2>5 DEF BlamedInv, StatusOf
  <2>13. ProcFits(x, r)'
    <3>1. StmtFits(x, r)'
      BY <1>1, <1>3, <2>3, <2>4, <2>5 DEF StmtFits, Changing, StatusOf
    <3>2. InsertFits(x, r)' /\ LockFits(x, r)'
      BY <1>1, <1>3, <2>3, <2>4 DEF InsertFits, LockFits
    <3>3. \A j \in indexed' : heap[j].key \in seen \/ DeadFor(x, j)
      BY <1>6, <2>1, <2>2, <2>4
    <3>4. BuildFits(x, r)'
      BY <1>3, <2>3, <2>4, <3>3 DEF BuildFits, DeadFor, StatusOf
    <3> QED
      BY <3>1, <3>2, <3>4 DEF ProcFits
  <2> QED
    BY <2>6, <2>8, <2>9, <2>11, <2>12, <2>13, Advance
<1> QED
  BY <1>3, <1>4, <1>5, <1>6

-----------------------------------------------------------------------------
(* The write.                                                              *)

LEMMA OneChanged ==
    ASSUME NEW h \in Seq(Versions), NEW g \in DOMAIN h, NEW t \in Versions
    PROVE  LET n == [h EXCEPT ![g] = t] IN
           /\ n \in Seq(Versions) /\ DOMAIN n = DOMAIN h
           /\ \A j \in DOMAIN h : n[j] = IF j = g THEN t ELSE h[j]
<1>1. DOMAIN h = 1 .. Len(h) /\ Len(h) \in Nat
  BY LenProperties
<1> QED
  BY <1>1, ExceptSeq

LEMMA OneAdded ==
    ASSUME NEW h \in Seq(Versions), NEW t \in Versions
    PROVE  LET n == Append(h, t) IN
           /\ n \in Seq(Versions) /\ DOMAIN n = DOMAIN h \cup {Len(h) + 1}
           /\ n[Len(h) + 1] = t /\ \A j \in DOMAIN h : n[j] = h[j]
           /\ Len(h) + 1 \notin DOMAIN h
  BY LenProperties

\* A writer goes on where the last deletion came to nothing.
LEMMA OkMeans ==
    ASSUME IndInv, NEW x \in Xids, Changes(x), TM(x) = "TMOk"
    PROVE  StatusOf(heap[proc[x].target].xmax) = "aborted"
<1>1. heap[proc[x].target].hints = {}
  BY TargetIs DEF Versions
<1> QED
  BY <1>1, FieldTypes, StatusOfXid DEF TM, Modify, XmaxStatus

\* The heap a writer leaves: the old version deleted and, but for a DELETE,
\* linked to the new one.
Old(x, i, tid) == [heap[i] EXCEPT !.xmax = x, !.ctid = tid]
New(x, tid)    == Version(proc[x].key, x, tid)

LEMMA WrittenIs ==
    ASSUME IndInv, NEW x \in Xids, WriteHeap(x)
    PROVE  LET p == proc[x] tid == Len(heap) + 1 IN
           /\ heap' \in Seq(Versions) /\ DOMAIN heap \subseteq DOMAIN heap'
           /\ DOMAIN heap' = IF p.kind = "delete" THEN DOMAIN heap ELSE DOMAIN heap \cup {tid}
           /\ p.kind # "delete" => heap'[tid] = New(x, tid) /\ tid \notin DOMAIN heap
           /\ \A i \in DOMAIN heap :
                 IF Changing(p) /\ i = p.target
                 THEN heap'[i] = Old(x, i, IF p.kind = "delete" THEN heap[i].ctid ELSE tid)
                 ELSE heap'[i] = heap[i]
<1> DEFINE p == proc[x]
           g == proc[x].target
           tid == Len(heap) + 1
           dead == Old(x, g, heap[g].ctid)
           moved == Old(x, g, tid)
           new == New(x, tid)
           kept == [heap EXCEPT ![g] = dead]
           linked == [heap EXCEPT ![g] = moved]
<1>1. heap \in Seq(Versions) /\ p \in Procs /\ tid \in Nat
  BY FieldTypes, HeapTypes DEF TypeInv
<1>2. new \in Versions
  BY <1>1, FieldTypes DEF New, Version, Versions, Procs
<1>3. CASE p.kind = "delete"
  <2>1. g \in DOMAIN heap /\ heap[g] \in Versions /\ Changing(p)
    BY <1>3, TargetIs DEF Changes
  <2>2. dead \in Versions /\ dead = [heap[g] EXCEPT !.xmax = x]
    BY <2>1 DEF Old, Versions
  <2>3. heap' = [heap EXCEPT ![g] = [heap[g] EXCEPT !.xmax = x]]
    BY <1>3 DEF WriteHeap, Changes
  <2> HIDE DEF dead
  <2>4. heap' = kept
    BY <2>2, <2>3
  <2> QED
    BY <1>1, <1>3, <2>1, <2>2, <2>4, OneChanged DEF dead
<1>4. CASE p.kind = "update"
  <2>1. g \in DOMAIN heap /\ heap[g] \in Versions /\ Changing(p)
    BY <1>4, TargetIs DEF Changes
  <2>2. moved \in Versions
    BY <1>1, <2>1 DEF Old, Versions
  <2>3. heap' = Append(linked, new)
    <3>1. heap' = Append([[heap EXCEPT ![g].xmax = x] EXCEPT ![g].ctid = tid], new)
      BY <1>4 DEF WriteHeap, Changes, New
    <3>2. [[heap EXCEPT ![g].xmax = x] EXCEPT ![g].ctid = tid] = linked
      BY <1>1, <2>1 DEF Old
    <3> QED
      BY <3>1, <3>2
  <2> HIDE DEF moved, new
  <2>4. /\ linked \in Seq(Versions) /\ DOMAIN linked = DOMAIN heap
        /\ \A j \in DOMAIN heap : linked[j] = IF j = g THEN moved ELSE heap[j]
    BY <1>1, <2>1, <2>2, OneChanged
  <2>5. Len(linked) = Len(heap)
    BY <1>1, <2>4, LenProperties
  <2> HIDE DEF linked
  <2>6. /\ heap' \in Seq(Versions) /\ DOMAIN heap' = DOMAIN heap \cup {tid} /\ heap'[tid] = new
        /\ tid \notin DOMAIN heap /\ \A j \in DOMAIN heap : heap'[j] = linked[j]
    BY <1>2, <2>3, <2>4, <2>5, OneAdded
  <2> QED
    BY <1>4, <2>1, <2>4, <2>6 DEF moved, new
<1>5. CASE p.kind \notin {"update", "delete"}
  <2>1. heap' = Append(heap, new)
    BY <1>5 DEF WriteHeap, Changes, New
  <2> HIDE DEF new
  <2>2. /\ heap' \in Seq(Versions) /\ DOMAIN heap' = DOMAIN heap \cup {tid} /\ heap'[tid] = new
        /\ tid \notin DOMAIN heap /\ \A j \in DOMAIN heap : heap'[j] = heap[j]
    BY <1>1, <1>2, <2>1, OneAdded
  <2> QED
    BY <1>5, <2>2 DEF Changing, new
<1> QED
  BY <1>3, <1>4, <1>5

\* The part of the write that is about the versions.
LEMMA WritesKeep ==
    ASSUME IndInv, NEW x \in Xids, WriteHeap(x)
    PROVE  /\ Writes(x) /\ heap' \in Seq(Versions)
           /\ Changing(proc[x]) => heap'[proc[x].target].xmax = x
<1> DEFINE p == proc[x]
           tid == Len(heap) + 1
<1>1. /\ heap' \in Seq(Versions) /\ DOMAIN heap \subseteq DOMAIN heap'
      /\ DOMAIN heap' = IF p.kind = "delete" THEN DOMAIN heap ELSE DOMAIN heap \cup {tid}
      /\ p.kind # "delete" => heap'[tid] = New(x, tid) /\ tid \notin DOMAIN heap
      /\ \A i \in DOMAIN heap :
            IF Changing(p) /\ i = p.target
            THEN heap'[i] = Old(x, i, IF p.kind = "delete" THEN heap[i].ctid ELSE tid)
            ELSE heap'[i] = heap[i]
  BY WrittenIs
<1>2. TypeInv /\ VersionInv /\ (Changes(x) <=> Changing(p)) /\ tid \in Nat
  BY FieldTypes, HeapTypes DEF IndInv, Changes, Changing
<1>3. ASSUME NEW i \in DOMAIN heap, Changing(p), i = p.target
      PROVE  Kept(i, x) /\ heap'[i].xmax = x
  <2>1. PICK c \in DOMAIN heap' : heap'[i] = Old(x, i, c)
    <3>1. heap[i].ctid \in DOMAIN heap
      BY <1>2 DEF VersionInv
    <3> QED
      BY <1>1, <1>3, <3>1
  <2>2. StatusOf(heap[i].xmax) = "aborted"
    BY <1>2, <1>3, OkMeans DEF WriteHeap
  <2>3. heap[i] \in Versions
    BY <1>2, HeapTypes
  <2>4. /\ heap'[i].key = heap[i].key /\ heap'[i].xmin = heap[i].xmin
        /\ heap'[i].xmax = x /\ heap'[i].ctid = c
    BY <2>1, <2>3 DEF Old, Versions
  <2> QED
    BY <2>1, <2>2, <2>4 DEF Kept
<1>4. ASSUME NEW i \in DOMAIN heap PROVE Kept(i, x)
  <2>1. CASE Changing(p) /\ i = p.target
    BY <1>3, <2>1
  <2>2. CASE ~(Changing(p) /\ i = p.target)
    <3>1. heap'[i] = heap[i]
      BY <1>1, <2>2
    <3> QED
      BY <3>1 DEF Kept
  <2> QED
    BY <2>1, <2>2
<1>5. ASSUME NEW i \in DOMAIN heap' \ DOMAIN heap PROVE Added(i, x)
  <2>1. i = tid /\ heap'[i] = New(x, tid)
    BY <1>1
  <2>2. New(x, tid).xmin = x /\ New(x, tid).xmax = InvalidXID /\ New(x, tid).ctid = tid
    BY DEF New, Version
  <2>3. i \notin indexed
    BY <1>2 DEF TypeInv
  <2> QED
    BY <2>1, <2>2, <2>3 DEF Added
<1>6. blind \subseteq blind'
  BY DEF WriteHeap
<1>7. Changing(p) => p.target \in DOMAIN heap
  BY <1>2, TargetIs
<1> QED
  BY <1>1, <1>3, <1>4, <1>5, <1>6, <1>7 DEF Writes

LEMMA WriteHeapKeeps ==
    ASSUME IndInv, NEW x \in Xids, WriteHeap(x), Rest
    PROVE  IndInv'
<1> DEFINE p == proc[x]
           tid == Len(heap) + 1
           q == [p EXCEPT !.pc = "acquire", !.new = tid]
<1>1. Plain(x, p) /\ status[x] = "running" /\ p.pc = "write" /\ lock # x
  BY PlainNow DEF WriteHeap, At, Plain
<1>2. /\ TypeInv /\ BlamedInv /\ CreatorInv /\ CoverInv /\ StmtFits(x, p)
      /\ p \in Procs /\ Idle \in Procs /\ tid \in Nat
  BY FieldTypes, HeapTypes DEF ProcFits, IndInv
<1>3. /\ Writes(x) /\ heap' \in Seq(Versions)
      /\ Changing(p) => heap'[p.target].xmax = x
  BY WritesKeep
<1>4. /\ DOMAIN heap' = IF p.kind = "delete" THEN DOMAIN heap ELSE DOMAIN heap \cup {tid}
      /\ p.kind # "delete" => heap'[tid].xmin = x /\ heap'[tid].key = p.key
      /\ tid \notin DOMAIN heap /\ DOMAIN heap \subseteq DOMAIN heap'
  <2>1. New(x, tid).xmin = x /\ New(x, tid).key = p.key
    BY DEF New, Version
  <2>2. tid \notin DOMAIN heap
    BY <1>2, HeapTypes
  <2> QED
    BY <2>1, <2>2, WrittenIs
<1>5. UNCHANGED <<status, creator, load, indexed, lock, blamed>>
  BY DEF WriteHeap, Rest
<1>6. PICK r \in Procs :
        /\ proc' = [proc EXCEPT ![x] = r]
        /\ \/ r = Idle /\ (p.kind = "delete" \/ ~p.sees)
           \/ /\ p.kind # "delete" /\ p.sees
              /\ r.pc = "acquire" /\ r.new = tid /\ r.kind = p.kind /\ r.target = p.target
              /\ r.key = p.key /\ r.sees = p.sees
  <2>1. /\ q \in Procs /\ q.pc = "acquire" /\ q.new = tid /\ q.kind = p.kind
        /\ q.target = p.target /\ q.key = p.key /\ q.sees = p.sees
    BY <1>2 DEF Procs, Pcs
  <2>2. CASE p.kind = "delete" \/ ~p.sees
    <3>1. proc' = [proc EXCEPT ![x] = Idle]
      BY <2>2, Zenon DEF WriteHeap, NeedsEntry
    <3> QED
      BY <1>2, <2>2, <3>1
  <2>3. CASE p.kind # "delete" /\ p.sees
    <3>1. proc' = [proc EXCEPT ![x].pc = "acquire", ![x].new = tid]
      BY <2>3, Zenon DEF WriteHeap, NeedsEntry
    <3>2. proc' = [proc EXCEPT ![x] = q]
      BY <1>2, <3>1 DEF TypeInv
    <3> HIDE DEF q
    <3> QED
      BY <2>1, <2>3, <3>2
  <2> QED
    BY <2>2, <2>3
<1> HIDE DEF q
<1>7. proc'[x] = r /\ \A z \in Xids \ {x} : proc'[z] = proc[z]
  BY <1>2, <1>6 DEF TypeInv
<1>8. /\ p.kind # "delete" /\ ~p.sees /\ creator # InvalidXID => tid \in blind'
      /\ blind' \subseteq blind \cup {tid}
  BY DEF WriteHeap
<1>9. TypeInv'
  BY <1>2, <1>3, <1>4, <1>5, <1>6, <1>8 DEF TypeInv
<1>10. Acts(x)
  BY <1>1, <1>3, <1>5, <1>7 DEF Acts, Others, Enters, StatusMoves, Creates, Locks
<1>11. Covers(x)
  <2>1. \A i \in DOMAIN heap : ~Carries(x, p, i)
    BY <1>1 DEF Carries
  <2>2. PICK n \in Nat : n = tid
    BY <1>2
  <2>3. p.kind = "delete" => DOMAIN heap' = DOMAIN heap
    BY <1>4
  <2>4. \A i \in DOMAIN heap' : i \in DOMAIN heap \/ i = n
    BY <1>4, <2>2
  <2>5. ASSUME Built', p.kind # "delete" PROVE Settled(n)' \/ Carries(x, r, n)'
    <3>1. CASE p.sees
      BY <1>1, <1>4, <1>5, <1>6, <2>2, <2>5, <3>1 DEF Carries
    <3>2. CASE ~p.sees
      <4>1. creator # InvalidXID
        BY <1>2, <1>5, <2>5, StatusOfXid DEF Built, StatusOf, InvalidXID
      <4> QED
        BY <1>8, <2>2, <2>5, <3>2, <4>1 DEF Settled
    <3> QED
      BY <3>1, <3>2
  <2> QED
    BY <1>7, <2>1, <2>3, <2>4, <2>5 DEF Covers
<1>12. CoverInv'
  BY <1>2, <1>5, <1>9, <1>10, <1>11, CoverKeeps
<1>13. BlamedInv'
  BY <1>2, <1>5, <1>9, <1>10, BlamedKeeps
<1>14. ProcFits(x, r)'
  <2>1. CASE r = Idle
    BY <1>1, <1>5, <2>1, IdleFitsAfter
  <2>2. CASE r # Idle
    <3>1. StmtFits(x, r)'
      BY <1>1, <1>2, <1>4, <1>5, <1>6, <2>2 DEF StmtFits, Changing, StatusOf
    <3>2. InsertFits(x, r)' /\ LockFits(x, r)' /\ BuildFits(x, r)'
      BY <1>1, <1>3, <1>4, <1>5, <1>6, <2>2 DEF InsertFits, LockFits, BuildFits, Changing
    <3> QED
      BY <3>1, <3>2 DEF ProcFits
  <2> QED
    BY <2>1, <2>2
<1> QED
  BY <1>7, <1>9, <1>10, <1>12, <1>13, <1>14, Advance

-----------------------------------------------------------------------------
(* The ends of a transaction.                                              *)

LEMMA BeginKeeps ==
    ASSUME IndInv, NEW x \in Xids, Begin(x)
    PROVE  IndInv'
<1>1. /\ status[x] = "unassigned" /\ status' = [status EXCEPT ![x] = "running"]
      /\ proc' = [proc EXCEPT ![x].pc = "idle"]
      /\ UNCHANGED <<heap, indexed, lock, creator, load, blamed, blind>>
  <2>1. x \in Nat /\ (\A y \in Assigned : y < x)
    BY FieldTypes DEF Begin, XactBegin
  <2>2. x \notin Assigned
    BY <2>1
  <2> QED
    BY <2>2 DEF Begin, XactBegin, Assigned
<1>2. /\ TypeInv /\ BlamedInv /\ CreatorInv /\ CoverInv /\ ProcFits(x, proc[x])
      /\ Off \in Procs /\ Idle \in Procs
  BY FieldTypes DEF IndInv
<1>3. proc[x] = Off /\ lock # x
  BY <1>1, <1>2, OffIs DEF ProcFits, StmtFits, LockFits
<1>4. proc'[x] = Idle /\ \A z \in Xids \ {x} : proc'[z] = proc[z]
  BY <1>1, <1>2, <1>3 DEF TypeInv, Idle
<1>5. status'[x] = "running" /\ \A z \in Xids \ {x} : status'[z] = status[z]
  BY <1>1, <1>2 DEF TypeInv
<1>6. TypeInv'
  <2>1. proc' = [proc EXCEPT ![x] = Idle]
    BY <1>1, <1>2, <1>3 DEF TypeInv, Idle
  <2> QED
    BY <1>1, <1>2, <2>1 DEF TypeInv, Statuses
<1>7. Acts(x)
  BY <1>1, <1>4, <1>5 DEF Acts, Others, Writes, Kept, Enters, StatusMoves, Creates, Locks
<1>8. Covers(x)
  BY <1>1 DEF Covers, Carries
<1>9. CoverInv' /\ BlamedInv'
  BY <1>1, <1>2, <1>6, <1>7, <1>8, CoverKeeps, BlamedKeeps
<1>10. ProcFits(x, proc[x])'
  BY <1>1, <1>3, <1>4, <1>5, IdleFitsAfter
<1> QED
  BY <1>6, <1>7, <1>9, <1>10, Advance

\* Only an abort ends a transaction that has left a version without an entry.
LEMMA FinishKeeps ==
    ASSUME IndInv, NEW x \in Xids, NEW verdict \in {"committed", "aborted"}, Finish(x, verdict)
    PROVE  IndInv'
<1>1. /\ status[x] = "running" /\ status' = [status EXCEPT ![x] = verdict]
      /\ proc' = [proc EXCEPT ![x] = Off]
      /\ UNCHANGED <<heap, indexed, lock, creator, load, blamed, blind>>
  BY DEF Finish, XactFinish
<1>2. /\ TypeInv /\ BlamedInv /\ CreatorInv /\ CoverInv /\ ProcFits(x, proc[x])
      /\ Off \in Procs /\ x \in Names
  BY FieldTypes DEF IndInv
<1>3. proc[x].pc = "idle" \/ (proc[x].pc = "error" /\ verdict = "aborted")
  BY DEF Finish, At
<1>4. lock # x
  BY <1>2, <1>3 DEF ProcFits, LockFits
<1>5. proc'[x] = Off /\ \A z \in Xids \ {x} : proc'[z] = proc[z]
  BY <1>1, <1>2 DEF TypeInv
<1>6. status'[x] = verdict /\ \A z \in Xids \ {x} : status'[z] = status[z]
  BY <1>1, <1>2 DEF TypeInv
<1>7. TypeInv'
  BY <1>1, <1>2 DEF TypeInv, Statuses
<1>8. Acts(x)
  BY <1>1, <1>5, <1>6 DEF Acts, Others, Writes, Kept, Enters, StatusMoves, Creates, Locks
<1>9. Covers(x)
  <2>1. StatusOf(x)' = verdict
    BY <1>6, <1>7, StatusOfXid DEF StatusOf, Xids, FirstNormalXID, InvalidXID
  <2>2. ASSUME Built', NEW i \in DOMAIN heap, Carries(x, proc[x], i)
        PROVE  heap[i].xmin = x /\ verdict = "aborted"
    <3>1. verdict = "aborted" /\ (heap[i].xmin = x \/ creator = x)
      BY <1>3, <1>4, <2>2 DEF Carries
    <3>2. creator # x
      BY <1>1, <2>1, <2>2, <3>1 DEF Built
    <3> QED
      BY <3>1, <3>2
  <2> QED
    BY <1>1, <2>1, <2>2 DEF Covers, Settled
<1>10. CoverInv' /\ BlamedInv'
  BY <1>1, <1>2, <1>7, <1>8, <1>9, CoverKeeps, BlamedKeeps
<1>11. ProcFits(x, Off)'
  BY <1>1, <1>4, <1>6, OffIs DEF ProcFits, StmtFits, InsertFits, LockFits, BuildFits, Changing
<1>12. ProcFits(x, proc[x])'
  BY <1>5, <1>11
<1> QED
  BY <1>7, <1>8, <1>10, <1>12, Advance

-----------------------------------------------------------------------------
(* The invariant.                                                          *)

\* The rows there are at the start are committed, and indexed if there is an
\* index (catalog and heap as a test finds them).
THEOREM InitInv == Init => IndInv
<1> SUFFICES ASSUME Init PROVE IndInv
  OBVIOUS
<1>1. /\ status = [x \in Xids |-> "unassigned"] /\ load \in Workloads
      /\ heap = [i \in 1 .. load.rows |-> Version(i, FrozenXID, i)]
      /\ creator \in {FrozenXID, InvalidXID}
      /\ indexed = IF creator = FrozenXID THEN DOMAIN heap ELSE {}
      /\ lock = Nobody /\ proc = [x \in Xids |-> Off]
      /\ blamed = [x \in Xids |-> NoTid] /\ blind = {}
  BY DEF Init, XactInit
<1>2. load.rows \in Nat
  BY <1>1, IndexAssumption
<1>3. \A i \in 1 .. load.rows : Version(i, FrozenXID, i) \in Versions
  BY DEF Version, Versions
<1>4. heap \in Seq(Versions) /\ DOMAIN heap = 1 .. load.rows
  BY <1>1, <1>2, <1>3
<1>5. TypeInv
  BY <1>1, <1>4, OffIs DEF TypeInv, Names, Statuses, NoTid
<1>6. /\ StatusOf(FrozenXID) = "committed" /\ StatusOf(InvalidXID) = "aborted"
      /\ FrozenXID # InvalidXID /\ Nobody \notin Xids
  BY <1>5, StatusOfXid
<1>7. \A i \in DOMAIN heap : /\ heap[i].xmin = FrozenXID /\ heap[i].xmax = InvalidXID
                             /\ heap[i].ctid = i /\ heap[i].key = i
  BY <1>1, <1>4 DEF Version
<1>8. VersionInv /\ CreatorInv
  BY <1>1, <1>6, <1>7 DEF VersionInv, CreatorInv
<1>9. PairInv
  BY <1>1, <1>7 DEF PairInv
<1>10. CoverInv
  BY <1>1, <1>6 DEF CoverInv, Built, Settled
<1>11. BlamedInv
  BY <1>1 DEF BlamedInv
<1>12. \A x \in Xids : ProcFits(x, proc[x])
  BY <1>1, <1>6, OffIs DEF ProcFits, StmtFits, InsertFits, LockFits, BuildFits, Changing
<1> QED
  BY <1>5, <1>8, <1>9, <1>10, <1>11, <1>12 DEF IndInv

LEMMA StepKeeps ==
    ASSUME IndInv, NEW x \in Xids, Step(x)
    PROVE  IndInv'
<1>1. Rest
  BY DEF Step, Rest
<1>2. CASE WaitForWriter(x) \/ LockTarget(x) \/ Follow(x) \/ WriteHeap(x) \/ Check(x)
  BY <1>1, <1>2, WaitForWriterKeeps, LockTargetKeeps, FollowKeeps, WriteHeapKeeps, CheckKeeps
<1>3. CASE FetchWaits(x) \/ FetchConflicts(x) \/ FetchDead(x) \/ CheckPasses(x)
  BY <1>1, <1>3, FetchWaitsKeeps, FetchConflictsKeeps, FetchDeadKeeps, CheckPassesKeeps
<1>4. CASE WriteEntry(x) \/ BuildTuple(x) \/ EndBuild(x) \/ Wake(x)
  BY <1>1, <1>4, WriteEntryKeeps, BuildTupleKeeps, EndBuildKeeps, WakeKeeps
<1> QED
  BY <1>2, <1>3, <1>4 DEF Step

\* Every operation of every session keeps the invariant.
THEOREM NextInv == IndInv /\ [Next]_vars => IndInv'
<1> SUFFICES ASSUME IndInv, [Next]_vars PROVE IndInv'
  OBVIOUS
<1>1. CASE UNCHANGED vars
  <2>1. TypeInv' /\ VersionInv' /\ CreatorInv' /\ BlamedInv'
    BY <1>1 DEF vars, IndInv, TypeInv, VersionInv, CreatorInv, BlamedInv, StatusOf
  <2>2. PairInv'
    BY <1>1 DEF vars, IndInv, PairInv, Excludes, DeadFor, Built, StatusOf
  <2>3. CoverInv'
    BY <1>1 DEF vars, IndInv, CoverInv, Carries, Settled, Built, StatusOf
  <2>4. ASSUME NEW x \in Xids PROVE ProcFits(x, proc[x])'
    <3>1. PICK p \in Procs : p = proc[x] /\ p = proc'[x] /\ ProcFits(x, p)
      BY <1>1, FieldTypes DEF vars
    <3>2. ProcFits(x, p)'
      BY <1>1, <3>1 DEF vars, ProcFits, StmtFits, InsertFits, LockFits, BuildFits, DeadFor, StatusOf
    <3> QED
      BY <3>1, <3>2
  <2> QED
    BY <2>1, <2>2, <2>3, <2>4 DEF IndInv
<1>2. ASSUME NEW x \in Xids,
             \/ Begin(x) \/ Finish(x, "committed") \/ Finish(x, "aborted")
             \/ \E k \in load.keys : StartInsert(x, k)
             \/ \E v, k \in load.keys : StartModify(x, "update", v, k)
             \/ \E v \in load.keys : StartModify(x, "delete", v, NoKey)
             \/ StartBuild(x)
             \/ Lock(x) \/ Step(x)
      PROVE  IndInv'
  <2>1. load.keys \subseteq Int /\ NoKey \in Int
    BY IndexAssumption DEF IndInv, TypeInv, NoKey
  <2>2. CASE Begin(x) \/ Finish(x, "committed") \/ Finish(x, "aborted")
    BY <2>2, BeginKeeps, FinishKeeps
  <2>3. CASE \/ \E k \in load.keys : StartInsert(x, k)
             \/ StartBuild(x)
    BY <2>3, StartInsertKeeps, StartBuildKeeps
  <2>4. CASE \/ \E v, k \in load.keys : StartModify(x, "update", v, k)
             \/ \E v \in load.keys : StartModify(x, "delete", v, NoKey)
    BY <2>1, <2>4, StartModifyKeeps
  <2>5. CASE Lock(x)
    BY <2>5, AcquireKeeps DEF Lock, Rest
  <2> QED
    BY <1>2, <2>2, <2>3, <2>4, <2>5, StepKeeps
<1> QED
  BY <1>1, <1>2 DEF Next

\* The invariant holds of every reachable state.
THEOREM Invariance == Spec => []IndInv
  BY InitInv, NextInv, PTL DEF Spec

-----------------------------------------------------------------------------
(* What it says of the index.                                              *)

\* A version others can see has an entry (index.Insert after the heap write,
\* index.Build over what is there).
LEMMA LiveHasEntry ==
    ASSUME IndInv, NEW i \in DOMAIN heap, Live(i)
    PROVE  i \in indexed /\ Built
<1>1. /\ StatusOf(heap[i].xmin) = "committed" /\ StatusOf(creator) = "committed" /\ i \notin blind
  BY DEF Live
<1>2. Built /\ (Settled(i) \/ \E x \in Xids : Carries(x, proc[x], i))
  BY <1>1 DEF Built, IndInv, CoverInv
<1>3. ASSUME NEW x \in Xids, Carries(x, proc[x], i) PROVE FALSE
  <2>1. StatusOf(x) = "running"
    BY <1>3, StatusOfXid DEF Carries, IndInv
  <2> QED
    BY <1>1, <1>3, <2>1 DEF Carries
<1> QED
  BY <1>1, <1>2, <1>3 DEF Settled

\* The tree is in step with the heap.
THEOREM LiveAlwaysIndexed == Spec => []LiveIsIndexed
<1>1. IndInv => LiveIsIndexed
  BY LiveHasEntry DEF LiveIsIndexed
<1> QED
  BY <1>1, Invariance, PTL

\* The unique check works: index.Check before the write, index.Insert's second
\* look under the lock, buildTuple's list of the keys it has seen.
THEOREM KeysAlwaysUnique == Spec => []UniqueKeys
<1>1. ASSUME IndInv, NEW i \in DOMAIN heap, NEW j \in DOMAIN heap, Live(i), Live(j),
             heap[i].key = heap[j].key, i # j
      PROVE  FALSE
  <2>1. i \in indexed /\ j \in indexed /\ Built
    BY <1>1, LiveHasEntry
  <2>2. Excludes(i, j)
    BY <1>1, <2>1 DEF IndInv, PairInv
  <2>3. /\ StatusOf(heap[i].xmin) = "committed" /\ StatusOf(heap[j].xmin) = "committed"
        /\ heap[i].xmax = InvalidXID \/ StatusOf(heap[i].xmax) # "committed"
        /\ heap[j].xmax = InvalidXID \/ StatusOf(heap[j].xmax) # "committed"
        /\ StatusOf(creator) = "committed" /\ StatusOf(InvalidXID) = "aborted"
    BY <1>1, StatusOfXid DEF Live, IndInv
  <2>4. ~DeadFor(creator, i) /\ ~DeadFor(creator, j)
    BY <2>3 DEF DeadFor
  <2> QED
    BY <2>2, <2>3, <2>4 DEF Excludes
<1>2. IndInv => UniqueKeys
  BY <1>1 DEF UniqueKeys
<1> QED
  BY <1>2, Invariance, PTL

\* A duplicate key error is about a row that was there, never about one whose
\* transaction was still running (CheckUnique waits for it) or had aborted.
THEOREM BlamedAlwaysThere == Spec => []BlamedWasThere
<1>1. IndInv => BlamedWasThere
  BY DEF IndInv, BlamedInv, BlamedWasThere
<1> QED
  BY <1>1, Invariance, PTL

=============================================================================

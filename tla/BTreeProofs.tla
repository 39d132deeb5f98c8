---------------------------- MODULE BTreeProofs ----------------------------
(***************************************************************************)
(* No insert loses an entry: at every page write, and after an insert that *)
(* failed half way, the leaf chain of BTree holds what was acknowledged.   *)
(* The tree is sound: between two inserts it passes Tree.Check, as long as *)
(* none has failed. A scan that races with inserts returns what it should. *)
(***************************************************************************)
EXTENDS BTree, TLAPS, WellFoundedInduction, FiniteSetTheorems, SequenceTheorems

-----------------------------------------------------------------------------
(* Numbers: the first one of a set, and the steps of an iteration.         *)

\* An induction goes through the first number that breaks a claim.
LEMMA SmallestOf ==
    ASSUME NEW S \in SUBSET Nat, S # {}
    PROVE  \E m \in S : \A y \in S : m <= y
<1> DEFINE Smaller == {p \in Nat \X Nat : p[1] < p[2]}
<1>1. IsWellFoundedOn(Smaller, Nat)
  BY NatLessThanWellFounded DEF OpToRel
<1> HIDE DEF Smaller
<1>2. PICK m \in S : \A y \in S : ~(<<y, m>> \in Smaller)
  BY <1>1, WFMin
<1>3. ASSUME NEW y \in S, ~(m <= y) PROVE FALSE
  <2> DEFINE p == <<y, m>>
  <2>1. p \in Nat \X Nat /\ p[1] < p[2]
    BY <1>3
  <2>2. p \in Smaller
    BY <2>1 DEF Smaller
  <2> QED
    BY <1>2, <2>2
<1> QED
  BY <1>3

\* What holds of the first value and of each one after it holds of all.
LEMMA StaysIn ==
    ASSUME NEW ch, NEW k \in Nat, NEW S, ch[0] \in S,
           \A n \in 1 .. k : ch[n - 1] \in S => ch[n] \in S
    PROVE  \A n \in 0 .. k : ch[n] \in S
<1> DEFINE Bad == {n \in 0 .. k : ch[n] \notin S}
<1>1. SUFFICES ASSUME Bad # {} PROVE FALSE
  OBVIOUS
<1>2. PICK m \in Bad : \A n \in Bad : m <= n
  <2>1. Bad \in SUBSET Nat
    OBVIOUS
  <2> HIDE DEF Bad
  <2> QED
    BY <1>1, <2>1, SmallestOf
<1>3. m # 0
  BY <1>2
<1>4. m \in 1 .. k /\ m - 1 \in 0 .. k /\ ~(m <= m - 1)
  BY <1>2, <1>3
<1> QED
  BY <1>2, <1>4

\* The first k values of an iteration that starts at a.
Iterates(g, a, step, k) == g = [n \in 0 .. k |-> IF n = 0 THEN a ELSE step[n][g[n - 1]]]

LEMMA IteratesGrow ==
    ASSUME NEW a, NEW step, NEW k \in Nat, \E g : Iterates(g, a, step, k)
    PROVE  \E g : Iterates(g, a, step, k + 1)
<1>1. PICK g : Iterates(g, a, step, k)
  OBVIOUS
<1> DEFINE h == [n \in 0 .. k + 1 |-> IF n = k + 1 THEN step[n][g[k]] ELSE g[n]]
<1>2. ASSUME NEW n \in 0 .. k PROVE h[n] = g[n]
  OBVIOUS
<1>3. h[k + 1] = step[k + 1][g[k]]
  OBVIOUS
<1>4. ASSUME NEW n \in 0 .. k + 1
      PROVE  h[n] = IF n = 0 THEN a ELSE step[n][h[n - 1]]
  <2> HIDE DEF h
  <2>1. CASE n = k + 1
    <3>1. n # 0 /\ n - 1 = k /\ k \in 0 .. k
      BY <2>1
    <3>2. h[k] = g[k]
      BY <1>2, <3>1
    <3> QED
      BY <1>3, <2>1, <3>1, <3>2
  <2>2. CASE n = 0
    <3>1. g[0] = a
      BY <1>1 DEF Iterates
    <3> QED
      BY <1>2, <2>2, <3>1
  <2>3. CASE n # 0 /\ n # k + 1
    <3>1. n \in 0 .. k /\ n - 1 \in 0 .. k
      BY <2>3
    <3>2. g[n] = step[n][g[n - 1]]
      BY <1>1, <2>3, <3>1 DEF Iterates
    <3>3. h[n] = g[n] /\ h[n - 1] = g[n - 1]
      BY <1>2, <3>1
    <3> QED
      BY <2>3, <3>2, <3>3
  <2> QED
    BY <2>1, <2>2, <2>3
<1>5. Iterates(h, a, step, k + 1)
  <2> DEFINE r == [n \in 0 .. k + 1 |-> IF n = 0 THEN a ELSE step[n][h[n - 1]]]
  <2>1. \A n \in 0 .. k + 1 : h[n] = r[n]
    BY <1>4
  <2>2. h = r
    BY <2>1
  <2> QED
    BY <2>2 DEF Iterates
<1> QED
  BY <1>5

LEMMA IterationsExist ==
    ASSUME NEW a, NEW step, NEW k \in Nat
    PROVE  \E g : Iterates(g, a, step, k)
<1> DEFINE Bad == {n \in Nat : ~\E g : Iterates(g, a, step, n)}
<1>1. SUFFICES ASSUME Bad # {} PROVE FALSE
  OBVIOUS
<1>2. PICK m \in Bad : \A n \in Bad : m <= n
  BY <1>1, SmallestOf
<1>3. CASE m = 0
  <2> DEFINE g == [n \in 0 .. 0 |-> a]
  <2>1. g = [n \in 0 .. 0 |-> IF n = 0 THEN a ELSE step[n][g[n - 1]]]
    OBVIOUS
  <2>2. Iterates(g, a, step, 0)
    BY <2>1 DEF Iterates
  <2> QED
    BY <1>3, <2>2
<1>4. CASE m # 0
  <2>1. m - 1 \in Nat /\ (m - 1) + 1 = m /\ ~(m <= m - 1)
    BY <1>4
  <2>2. \E g : Iterates(g, a, step, m - 1)
    BY <1>2, <2>1
  <2>3. \E g : Iterates(g, a, step, m)
    BY <2>1, <2>2, IteratesGrow
  <2> QED
    BY <2>3
<1> QED
  BY <1>3, <1>4

-----------------------------------------------------------------------------
(* A list kept by next links among the numbers 1 to k: next[b] = 0 ends it. *)

Chained(ch, a, next, k) ==
    /\ next \in [0 .. k -> 0 .. k] /\ next[0] = 0
    /\ ch[0] = a /\ a \in 0 .. k
    /\ \A n \in 1 .. k : ch[n] = next[ch[n - 1]]

\* Whatever the list starts in and never leaves, it stays in.
LEMMA ChainStays ==
    ASSUME NEW ch, NEW a, NEW next, NEW k \in Nat, Chained(ch, a, next, k),
           NEW S, a \in S, \A b \in S : next[b] \in S
    PROVE  \A n \in 0 .. k : ch[n] \in S
<1>1. ch[0] \in S /\ \A n \in 1 .. k : ch[n - 1] \in S => ch[n] \in S
  BY DEF Chained
<1> QED
  BY <1>1, StaysIn

\* Within k steps a list of at most k members has ended or come back to where
\* it was, so it leads nowhere it has not been.
LEMMA ChainCloses ==
    ASSUME NEW ch, NEW a, NEW next, NEW k \in Nat, Chained(ch, a, next, k)
    PROVE  \A n \in 0 .. k : ch[n] \in 0 .. k
              /\ (next[ch[n]] = 0 \/ \E m \in 0 .. k : next[ch[n]] = ch[m])
<1>1. \A n \in 0 .. k : ch[n] \in 0 .. k
  <2>1. a \in 0 .. k /\ \A b \in 0 .. k : next[b] \in 0 .. k
    BY DEF Chained
  <2> QED
    BY <2>1, ChainStays
<1>2. \A n \in 0 .. k : n # k => n + 1 \in 0 .. k /\ next[ch[n]] = ch[n + 1]
  <2> SUFFICES ASSUME NEW n \in 0 .. k, n # k
               PROVE  n + 1 \in 0 .. k /\ next[ch[n]] = ch[n + 1]
    OBVIOUS
  <2>1. n + 1 \in 1 .. k /\ (n + 1) - 1 = n
    OBVIOUS
  <2>2. ch[n + 1] = next[ch[(n + 1) - 1]]
    BY <2>1 DEF Chained
  <2> QED
    BY <2>1, <2>2
<1>3. next[ch[k]] = 0 \/ \E m \in 0 .. k : next[ch[k]] = ch[m]
  <2>1. CASE \E n \in 0 .. k : ch[n] = 0
    <3>1. PICK n \in 0 .. k : ch[n] = 0
      BY <2>1
    <3> DEFINE Bad == {j \in n .. k : ch[j] # 0}
    <3>2. SUFFICES Bad = {}
      <4>1. k \in n .. k
        BY <3>1
      <4>2. ch[k] = 0
        BY <3>2, <4>1
      <4> QED
        BY <4>2 DEF Chained
    <3>3. SUFFICES ASSUME Bad # {} PROVE FALSE
      OBVIOUS
    <3>4. PICK m \in Bad : \A j \in Bad : m <= j
      <4>1. Bad \in SUBSET Nat
        OBVIOUS
      <4> HIDE DEF Bad
      <4> QED
        BY <3>3, <4>1, SmallestOf
    <3>5. m # n
      BY <3>1, <3>4
    <3>6. m - 1 \in n .. k /\ m \in 1 .. k /\ ~(m <= m - 1)
      BY <3>4, <3>5
    <3>7. ch[m - 1] = 0 /\ ch[m] = next[ch[m - 1]]
      BY <3>4, <3>6 DEF Chained
    <3> QED
      BY <3>4, <3>7 DEF Chained
  <2>2. CASE \A n \in 0 .. k : ch[n] # 0
    <3> DEFINE f == [n \in 0 .. k |-> ch[n]]
    <3>1. f \in [0 .. k -> 1 .. k]
      BY <1>1, <2>2
    <3>2. /\ IsFiniteSet(0 .. k) /\ IsFiniteSet(1 .. k)
          /\ Cardinality(1 .. k) < Cardinality(0 .. k)
      <4>1. IsFiniteSet(0 .. k) /\ Cardinality(0 .. k) = k + 1
        BY FS_Interval
      <4>2. IsFiniteSet(1 .. k) /\ Cardinality(1 .. k) = k
        BY FS_Interval
      <4> QED
        BY <4>1, <4>2
    <3> HIDE DEF f
    <3>3. PICK x \in 0 .. k, y \in 0 .. k : x # y /\ f[x] = f[y]
      BY <3>1, <3>2, FS_PigeonHole
    <3>4. \E i, j \in 0 .. k : i < j /\ ch[i] = ch[j]
      <4>1. ch[x] = ch[y]
        BY <3>3 DEF f
      <4>2. x < y \/ y < x
        BY <3>3
      <4> QED
        BY <4>1, <4>2
    <3>5. PICK i \in 0 .. k, j \in 0 .. k : i < j /\ ch[i] = ch[j]
      BY <3>4
    <3> DEFINE Bad == {d \in 0 .. k - j : ch[i + d] # ch[j + d]}
    <3>6. Bad = {}
      <4>1. SUFFICES ASSUME Bad # {} PROVE FALSE
        OBVIOUS
      <4>2. PICK m \in Bad : \A d \in Bad : m <= d
        <5>1. Bad \in SUBSET Nat
          OBVIOUS
        <5> HIDE DEF Bad
        <5> QED
          BY <4>1, <5>1, SmallestOf
      <4>3. m # 0
        BY <3>5, <4>2
      <4>4. /\ m - 1 \in 0 .. k - j /\ ~(m <= m - 1) /\ m \in 0 .. k - j
            /\ i + (m - 1) \in 0 .. k /\ j + (m - 1) \in 0 .. k
            /\ i + (m - 1) # k /\ j + (m - 1) # k
            /\ (i + (m - 1)) + 1 = i + m /\ (j + (m - 1)) + 1 = j + m
        BY <3>5, <4>2, <4>3
      <4>5. ch[i + (m - 1)] = ch[j + (m - 1)]
        BY <4>2, <4>4
      <4>6. ch[i + m] = ch[j + m]
        BY <1>2, <4>4, <4>5
      <4> QED
        BY <4>2, <4>6
    <3>7. k - j \in 0 .. k - j /\ j + (k - j) = k
      BY <3>5
    <3>8. ch[i + (k - j)] = ch[k]
      BY <3>6, <3>7
    <3>9. i + (k - j) \in 0 .. k /\ i + (k - j) # k
      BY <3>5
    <3> QED
      BY <1>2, <3>8, <3>9
  <2> QED
    BY <2>1, <2>2
<1> QED
  BY <1>1, <1>2, <1>3

-----------------------------------------------------------------------------
(* Types.                                                                  *)

Keys  == Entries \cup {MinusInf}
Items == [key : Keys, child : Nat]
Pages == [level : Nat, root : BOOLEAN, prev : Nat, next : Nat, high : Entries \cup {PlusInf},
          items : Seq(Items)]
Inserts == [pc : {"idle", "rootleaf", "place", "right", "left", "sibling", "newroot", "meta"},
            entry : Keys, item : Items, blk : Nat, right : Nat, at : Nat, path : Seq(Nat)]

TypeInv ==
    /\ pages \in Seq(Pages)
    /\ meta \in [root : Nat, level : Nat]
    /\ ins \in Inserts
    /\ tried \in SUBSET Entries

-----------------------------------------------------------------------------
(* The tree.                                                               *)

\* What an item of a page of this level leads to: a page one level down, a
\* leaf of the chain.
LeadsDown(it, level) ==
    level > 0 => it.child \in Blocks /\ pages[it.child].level = level - 1
LeadsIn(it, level) == level = 1 => it.child \in LeafChain

\* An internal page's first key, and no other, is minus infinity; a leaf's are
\* entries that were inserted.
ItemsInv(items, level) ==
    /\ level > 0 => items # <<>> /\ items[1].key = MinusInf
    /\ \A i \in DOMAIN items : /\ items[i].key \in Entries \/ (level > 0 /\ i = 1)
                               /\ LeadsDown(items[i], level)
                               /\ level = 0 => items[i].key \in tried

\* The right sibling is of the same level.
PageInv(b) ==
    /\ pages[b].next # None =>
          pages[b].next \in Blocks /\ pages[pages[b].next].level = pages[b].level
    /\ ItemsInv(pages[b].items, pages[b].level)

MetaInv ==
    IF meta.root = None THEN meta.level = 0 /\ acked = {}
    ELSE meta.root \in Blocks /\ pages[meta.root].level = meta.level

Shape == TypeInv /\ MetaInv /\ \A b \in Blocks : PageInv(b)

ItemsIn(items, level) == \A i \in DOMAIN items : LeadsIn(items[i], level)

ChainInv == \A b \in Blocks : ItemsIn(pages[b].items, pages[b].level)

-----------------------------------------------------------------------------
(* The insert.                                                             *)

\* It is at a page of the path it came down, and the root has no right sibling
\* it would not know of.
OnPath ==
    LET level == pages[ins.blk].level IN
    /\ ins.entry \in tried /\ meta.root # None /\ ins.blk \in Blocks
    /\ Len(ins.path) = meta.level
    /\ \A l \in 1 .. meta.level : ins.path[l] \in Blocks /\ pages[ins.path[l]].level = l
    /\ meta.level > 0 => ins.path[meta.level] = meta.root
    /\ level <= meta.level /\ (level = meta.level => ins.blk = meta.root)

\* It has an item for that page: its entry for a leaf of the chain, a downlink
\* for an internal page when the entry is already stored.
ToPlace ==
    LET level == pages[ins.blk].level IN
    /\ OnPath
    /\ ins.item.key \in Entries /\ LeadsDown(ins.item, level) /\ LeadsIn(ins.item, level)
    /\ IF level = 0 THEN ins.item = LeafItem(ins.entry) /\ ins.blk \in LeafChain
       ELSE ins.entry \in Stored

\* Nothing in the tree leads to block x.
NotLed(x) ==
    /\ x # None /\ x # meta.root
    /\ \A c \in Blocks : /\ pages[c].next # x
                         /\ pages[c].level > 0 =>
                               \A i \in DOMAIN pages[c].items : pages[c].items[i].child # x

\* The right page is the insert's own until the left one leads to it.
ToSplit ==
    /\ ToPlace
    /\ ins.right \in Blocks /\ NotLed(ins.right)
    /\ ins.right # ins.blk /\ ins.right # ins.item.child
    /\ \A l \in 1 .. meta.level : ins.path[l] # ins.right
    /\ ins.at \in 1 .. Len(Placed) - 1

RightWritten ==
    LET p == pages[ins.blk] q == pages[ins.right] IN
    /\ q.level = p.level /\ q.next = p.next
    /\ p.level = 0 => q.items = SubSeq(Placed, ins.at + 1, Len(Placed))

\* The page is split in two, and the entry is in one of its leaves.
IsSplit ==
    /\ OnPath /\ ins.right \in Blocks /\ pages[ins.right].level = pages[ins.blk].level
    /\ pages[ins.blk].high \in Entries
    /\ pages[ins.blk].level = 0 => ins.right \in LeafChain
    /\ ins.entry \in Stored

\* The page that is to be the root: the first leaf, or above the old root.
RootReady ==
    LET p == pages[ins.blk] IN
    /\ ins.blk \in Blocks /\ ins.entry \in tried
    /\ IF meta.root = None
       THEN p.level = 0 /\ p.items # <<>> /\ p.items[1].key = ins.entry
       ELSE p.level = meta.level + 1 /\ p.items[1].child = meta.root /\ ins.entry \in Stored

InsInv ==
    /\ ins.pc = "rootleaf" => meta.root = None /\ ins.entry \in tried
    /\ ins.pc = "place"    => ToPlace
    /\ ins.pc = "right"    => ToSplit
    /\ ins.pc = "left"     => ToSplit /\ RightWritten
    /\ ins.pc = "sibling"  => IsSplit
    /\ ins.pc = "newroot"  => IsSplit /\ ins.blk = meta.root
    /\ ins.pc = "meta"     => RootReady

IndInv == Shape /\ ChainInv /\ InsInv /\ AckedIsStored

-----------------------------------------------------------------------------
(* Pages, items and places among them.                                     *)

LEMMA PageTypes ==
    ASSUME TypeInv
    PROVE  /\ Blocks = 1 .. Len(pages) /\ Len(pages) \in Nat
           /\ \A b \in Blocks : /\ pages[b] \in Pages /\ b \in Nat /\ b # None
                                /\ pages[b].items \in Seq(Items) /\ pages[b].level \in Nat
                                /\ pages[b].next \in Nat
                                /\ DOMAIN pages[b].items = 1 .. Len(pages[b].items)
                                /\ Len(pages[b].items) \in Nat
<1>1. pages \in Seq(Pages) /\ Blocks = 1 .. Len(pages) /\ Len(pages) \in Nat
  BY LenProperties DEF TypeInv, Blocks
<1>2. ASSUME NEW b \in Blocks
      PROVE  /\ pages[b] \in Pages /\ b \in Nat /\ b # None
             /\ pages[b].items \in Seq(Items) /\ pages[b].level \in Nat /\ pages[b].next \in Nat
  <2>1. pages[b] \in Pages
    BY <1>1, ElementOfSeq
  <2>2. pages[b].items \in Seq(Items) /\ pages[b].level \in Nat /\ pages[b].next \in Nat
    BY <2>1 DEF Pages
  <2>3. b \in Nat /\ b # None
    BY <1>1 DEF None
  <2> QED
    BY <2>1, <2>2, <2>3
<1>3. ASSUME NEW s \in Seq(Items) PROVE DOMAIN s = 1 .. Len(s) /\ Len(s) \in Nat
  BY LenProperties
<1> QED
  BY <1>1, <1>2, <1>3

LEMMA NoneIsNoBlock == TypeInv => None \notin Blocks
<1> QED
  BY PageTypes

\* No key is below minus infinity, and every entry is above it.
LEMMA KeysAre ==
    /\ \A k \in Keys : ~Less(k, MinusInf)
    /\ \A e \in Entries : Less(MinusInf, e) /\ e # MinusInf /\ e # PlusInf /\ e \in Keys
<1>1. ASSUME NEW e \in Entries
      PROVE Less(MinusInf, e) /\ ~Less(e, MinusInf) /\ e # MinusInf /\ e # PlusInf
  <2>1. e[1] \in 1 .. Null /\ e[2] \in 1 .. MaxTid /\ Null \in Nat /\ MaxTid \in Nat
    BY BoundAssumption DEF Entries, Null
  <2> QED
    BY <2>1 DEF Less, MinusInf, PlusInf
<1>2. ~Less(MinusInf, MinusInf)
  BY DEF Less, MinusInf
<1> QED
  BY <1>1, <1>2 DEF Keys

LEMMA PlacesAre ==
    ASSUME TypeInv, NEW b \in Blocks, NEW k \in Keys
    PROVE  LET p == pages[b] n == Len(p.items) IN
           /\ LeafPosition(p, k) \in 1 .. n + 1
           /\ LinkPosition(p, k) \in 0 .. n
           /\ p.items # <<>> /\ p.items[1].key = MinusInf => LinkPosition(p, k) >= 1
<1> DEFINE p == pages[b]
           n == Len(p.items)
           below == {i \in DOMAIN p.items : Less(p.items[i].key, k)}
           upto  == {i \in DOMAIN p.items : ~Less(k, p.items[i].key)}
<1>1. DOMAIN p.items = 1 .. n /\ n \in Nat /\ p.items \in Seq(Items)
  BY PageTypes
<1>2. IsFiniteSet(1 .. n) /\ Cardinality(1 .. n) = n
  BY <1>1, FS_Interval
<1>3. /\ IsFiniteSet(below) /\ Cardinality(below) <= n /\ Cardinality(below) \in Nat
      /\ IsFiniteSet(upto) /\ Cardinality(upto) <= n /\ Cardinality(upto) \in Nat
  <2>1. below \in SUBSET (1 .. n) /\ upto \in SUBSET (1 .. n)
    BY <1>1
  <2> HIDE DEF below, upto, n
  <2>2. ASSUME NEW S \in SUBSET (1 .. n)
        PROVE  IsFiniteSet(S) /\ Cardinality(S) <= Cardinality(1 .. n)
    BY <1>2, FS_Subset
  <2> QED
    BY <1>2, <2>1, <2>2, FS_CardinalityType
<1>4. LeafPosition(p, k) = Cardinality(below) + 1 /\ LinkPosition(p, k) = Cardinality(upto)
  BY DEF LeafPosition, LinkPosition
<1>5. ASSUME p.items # <<>>, p.items[1].key = MinusInf PROVE Cardinality(upto) >= 1
  <2>1. 1 \in upto
    <3>1. n # 0
      BY <1>1, <1>5, EmptySeq
    <3> QED
      BY <1>1, <1>5, <3>1, KeysAre
  <2> HIDE DEF upto
  <2>2. Cardinality(upto) # 0
    BY <1>3, <2>1, FS_EmptySet
  <2> QED
    BY <1>3, <2>2
<1> HIDE DEF below, upto
<1> QED
  BY <1>1, <1>3, <1>4, <1>5

\* The descent to the left end takes the first downlink.
LEMMA FirstPlace ==
    ASSUME TypeInv, NEW b \in Blocks, PageInv(b), pages[b].level > 0
    PROVE  Child(b, MinusInf) = pages[b].items[1].child /\ 1 \in DOMAIN pages[b].items
<1> DEFINE p == pages[b]
           upto  == {i \in DOMAIN p.items : ~Less(MinusInf, p.items[i].key)}
<1>1. DOMAIN p.items = 1 .. Len(p.items) /\ Len(p.items) \in Nat /\ p.items \in Seq(Items)
  BY PageTypes
<1>2. p.items # <<>> /\ p.items[1].key = MinusInf
  BY DEF PageInv, ItemsInv
<1>3. 1 \in DOMAIN p.items
  BY <1>1, <1>2, EmptySeq
<1>4. upto = {1}
  BY <1>2, <1>3, KeysAre DEF PageInv, ItemsInv, Keys
<1>5. Cardinality({1}) = 1
  BY FS_Singleton
<1>6. LinkPosition(p, MinusInf) = 1
  BY <1>4, <1>5 DEF LinkPosition
<1> QED
  BY <1>3, <1>6 DEF Child

LEMMA ChildIs ==
    ASSUME TypeInv, NEW b \in Blocks, PageInv(b), pages[b].level > 0, NEW k \in Keys
    PROVE  /\ Child(b, k) \in Blocks /\ pages[Child(b, k)].level = pages[b].level - 1
           /\ \E i \in DOMAIN pages[b].items : Child(b, k) = pages[b].items[i].child
<1> DEFINE i == LinkPosition(pages[b], k)
<1>1. pages[b].items # <<>> /\ pages[b].items[1].key = MinusInf
  BY DEF PageInv, ItemsInv
<1>2. DOMAIN pages[b].items = 1 .. Len(pages[b].items) /\ Len(pages[b].items) \in Nat
  BY PageTypes
<1>3. i \in DOMAIN pages[b].items
  BY <1>1, <1>2, PlacesAre
<1>4. Child(b, k) = pages[b].items[i].child
  BY DEF Child
<1> HIDE DEF i
<1>5. LeadsDown(pages[b].items[i], pages[b].level)
  BY <1>3 DEF PageInv, ItemsInv
<1> QED
  BY <1>3, <1>4, <1>5 DEF LeadsDown

-----------------------------------------------------------------------------
(* The descent.                                                            *)

\* It goes down from the root, one level after the other.
Path(k) ==
    /\ \A l \in 0 .. meta.level : Descend(k)[l] \in Blocks /\ pages[Descend(k)[l]].level = l
    /\ Descend(k)[meta.level] = meta.root
    /\ \A l \in 0 .. meta.level : l # meta.level => Descend(k)[l] = Child(Descend(k)[l + 1], k)

LEMMA PathTyped ==
    ASSUME Shape, meta.root # None, NEW k \in Keys, NEW d, d[meta.level] = meta.root,
           \A l \in 0 .. meta.level :
               l # meta.level /\ d[l + 1] \in Blocks => d[l] = Child(d[l + 1], k)
    PROVE  \A l \in 0 .. meta.level : d[l] \in Blocks /\ pages[d[l]].level = l
<1> DEFINE m == meta.level
           Bad == {n \in 0 .. m : ~(d[m - n] \in Blocks /\ pages[d[m - n]].level = m - n)}
<1>1. m \in Nat /\ meta.root \in Blocks /\ pages[meta.root].level = m
  BY DEF Shape, TypeInv, MetaInv
<1>2. SUFFICES Bad = {}
  <2> SUFFICES ASSUME NEW l \in 0 .. m PROVE d[l] \in Blocks /\ pages[d[l]].level = l
    OBVIOUS
  <2>1. m - l \in 0 .. m /\ m - (m - l) = l
    BY <1>1
  <2> QED
    BY <1>2, <2>1
<1>3. SUFFICES ASSUME Bad # {} PROVE FALSE
  OBVIOUS
<1>4. PICK n \in Bad : \A j \in Bad : n <= j
  <2>1. Bad \in SUBSET Nat
    BY <1>1
  <2> HIDE DEF Bad
  <2> QED
    BY <1>3, <2>1, SmallestOf
<1>5. n # 0
  BY <1>1, <1>4
<1>6. /\ n - 1 \in 0 .. m /\ ~(n <= n - 1) /\ m - n \in 0 .. m /\ m - n # m
      /\ m - (n - 1) = (m - n) + 1 /\ (m - n) + 1 > 0
  BY <1>1, <1>4, <1>5
<1>7. d[(m - n) + 1] \in Blocks /\ pages[d[(m - n) + 1]].level = (m - n) + 1
  BY <1>4, <1>6
<1>8. d[m - n] = Child(d[(m - n) + 1], k)
  BY <1>6, <1>7
<1>9. TypeInv /\ PageInv(d[(m - n) + 1])
  BY <1>7 DEF Shape
<1>10. /\ Child(d[(m - n) + 1], k) \in Blocks
       /\ pages[Child(d[(m - n) + 1], k)].level = ((m - n) + 1) - 1
  BY <1>6, <1>7, <1>9, ChildIs
<1>11. ((m - n) + 1) - 1 = m - n
  BY <1>6
<1> QED
  BY <1>4, <1>8, <1>10, <1>11

LEMMA PathIs ==
    ASSUME Shape, meta.root # None, NEW k \in Keys
    PROVE  Path(k)
<1> DEFINE m == meta.level
           step == [n \in 1 .. m |-> [b \in Blocks |-> Child(b, k)]]
<1>1. m \in Nat
  BY DEF Shape, TypeInv
<1>2. PICK g : Iterates(g, meta.root, step, m)
  <2> HIDE DEF step
  <2> QED
    BY <1>1, IterationsExist
<1> DEFINE d == [l \in 0 .. m |-> g[m - l]]
<1>3. d[m] = meta.root
  BY <1>1, <1>2 DEF Iterates
<1>4. ASSUME NEW l \in 0 .. m, l # m, d[l + 1] \in Blocks
      PROVE  d[l] = Child(d[l + 1], k)
  <2>1. /\ m - l \in 1 .. m /\ m - l \in 0 .. m /\ m - l # 0 /\ l + 1 \in 0 .. m
        /\ (m - l) - 1 = m - (l + 1)
    BY <1>1, <1>4
  <2>2. g[m - l] = step[m - l][g[m - (l + 1)]]
    BY <1>2, <2>1 DEF Iterates
  <2>3. d[l] = g[m - l] /\ d[l + 1] = g[m - (l + 1)]
    BY <2>1
  <2>4. step[m - l] = [b \in Blocks |-> Child(b, k)]
    BY <2>1
  <2> HIDE DEF d, step
  <2> QED
    BY <1>4, <2>2, <2>3, <2>4
<1>5. \A l \in 0 .. m : d[l] \in Blocks
  <2> HIDE DEF d
  <2> QED
    BY <1>3, <1>4, PathTyped
<1>6. d = [l \in 0 .. m |-> IF l = m THEN meta.root ELSE Child(d[l + 1], k)]
  <2> DEFINE r == [l \in 0 .. m |-> IF l = m THEN meta.root ELSE Child(d[l + 1], k)]
  <2>1. ASSUME NEW l \in 0 .. m PROVE d[l] = r[l]
    <3>1. CASE l = m
      BY <1>3, <3>1
    <3>2. CASE l # m
      <4>1. l + 1 \in 0 .. m
        BY <1>1, <3>2
      <4> QED
        BY <1>4, <1>5, <3>2, <4>1
    <3> QED
      BY <3>1, <3>2
  <2>2. d = r
    BY <2>1
  <2> QED
    BY <2>2
<1> HIDE DEF d
<1> DEFINE e == Descend(k)
<1>7. e = [l \in 0 .. m |-> IF l = m THEN meta.root ELSE Child(e[l + 1], k)]
  BY <1>6 DEF Descend
<1> HIDE DEF e
<1>8. e[m] = meta.root /\ \A l \in 0 .. m : l # m => e[l] = Child(e[l + 1], k)
  <2>1. m \in 0 .. m
    BY <1>1
  <2> QED
    BY <1>7, <2>1
<1>9. \A l \in 0 .. m : e[l] \in Blocks /\ pages[e[l]].level = l
  BY <1>8, PathTyped
<1> QED
  BY <1>8, <1>9 DEF Path, e

\* The descent to the left end goes by the first downlinks.
First   == Descend(MinusInf)[0]
LeftEnd ==
    meta.root # None =>
        /\ Path(MinusInf)
        /\ \A l \in 0 .. meta.level : l # meta.level =>
              LET p == pages[Descend(MinusInf)[l + 1]] IN
              1 \in DOMAIN p.items /\ Descend(MinusInf)[l] = p.items[1].child

LEMMA LeftEndIs == Shape => LeftEnd
<1> SUFFICES ASSUME Shape, meta.root # None PROVE LeftEnd
  BY DEF LeftEnd
<1>1. Path(MinusInf)
  BY PathIs DEF Keys
<1>2. ASSUME NEW l \in 0 .. meta.level, l # meta.level
      PROVE  LET p == pages[Descend(MinusInf)[l + 1]] IN
             1 \in DOMAIN p.items /\ Descend(MinusInf)[l] = p.items[1].child
  <2>1. meta.level \in Nat /\ TypeInv
    BY DEF Shape, TypeInv
  <2>2. l + 1 \in 0 .. meta.level /\ l + 1 > 0
    BY <1>2, <2>1
  <2>3. PICK b \in Blocks : b = Descend(MinusInf)[l + 1] /\ pages[b].level = l + 1
    BY <1>1, <2>2 DEF Path
  <2>4. Descend(MinusInf)[l] = Child(b, MinusInf)
    BY <1>1, <1>2, <2>3 DEF Path
  <2>5. PageInv(b) /\ pages[b].level > 0
    BY <2>2, <2>3 DEF Shape
  <2> QED
    BY <2>1, <2>3, <2>4, <2>5, FirstPlace
<1> QED
  BY <1>1, <1>2 DEF LeftEnd

-----------------------------------------------------------------------------
(* The leaf chain: what the next links lead to from the left end.          *)

Closed(S) == \A b \in S : pages[b].next # None => pages[b].next \in S

ChainIsClosed ==
    meta.root # None =>
        /\ LeafChain \subseteq Blocks /\ First \in LeafChain /\ Closed(LeafChain)
        /\ \A b \in LeafChain : pages[b].level = 0
        /\ \A S \in SUBSET Blocks : First \in S /\ Closed(S) => LeafChain \subseteq S

LEMMA ChainIs == Shape => ChainIsClosed
<1> SUFFICES ASSUME Shape, meta.root # None PROVE ChainIsClosed
  BY DEF ChainIsClosed
<1> DEFINE k == Len(pages)
           nx == [b \in 0 .. k |-> IF b = 0 THEN 0 ELSE pages[b].next]
           step == [n \in 1 .. k |-> nx]
<1>1. k \in Nat /\ Blocks = 1 .. k /\ \A b \in Blocks : pages[b].next \in Nat /\ PageInv(b)
  BY PageTypes DEF Shape
<1>2. nx \in [0 .. k -> 0 .. k] /\ nx[0] = 0
  <2>1. ASSUME NEW b \in 0 .. k, b # 0 PROVE pages[b].next \in 0 .. k
    <3>1. b \in Blocks
      BY <1>1, <2>1
    <3> QED
      BY <1>1, <3>1 DEF PageInv, None
  <2> QED
    BY <1>1, <2>1
<1>3. \A b \in 0 .. k : After(b) = nx[b]
  BY <1>1 DEF After, None
<1>4. First \in Blocks /\ pages[First].level = 0
  <2>1. meta.level \in Nat
    BY DEF Shape, TypeInv
  <2>2. 0 \in 0 .. meta.level
    BY <2>1
  <2> QED
    BY <2>2, LeftEndIs DEF LeftEnd, Path, First
<1> DEFINE f == First
<1>5. f \in 0 .. k
  BY <1>1, <1>4
<1> HIDE DEF nx
<1>6. PICK g : Iterates(g, f, step, k)
  <2> HIDE DEF f, step, k
  <2> QED
    BY <1>1, IterationsExist
<1>7. g[0] = f /\ \A n \in 1 .. k : g[n] = nx[g[n - 1]]
  <2>1. ASSUME NEW n \in 1 .. k PROVE n # 0 /\ n \in 0 .. k /\ step[n] = nx
    BY <1>1
  <2> HIDE DEF step
  <2>2. \A n \in 0 .. k : g[n] = IF n = 0 THEN f ELSE step[n][g[n - 1]]
    BY <1>6 DEF Iterates
  <2>3. 0 \in 0 .. k
    BY <1>1
  <2> QED
    BY <2>1, <2>2, <2>3
<1>8. \A n \in 0 .. k : g[n] \in 0 .. k
  <2>1. g[0] \in 0 .. k /\ \A n \in 1 .. k : g[n - 1] \in 0 .. k => g[n] \in 0 .. k
    BY <1>2, <1>5, <1>7
  <2> QED
    BY <1>1, <2>1, StaysIn
<1> DEFINE IsChain(c) == c = [n \in 0 .. k |-> IF n = 0 THEN Descend(MinusInf)[0]
                                               ELSE After(c[n - 1])]
           ch == CHOOSE c : IsChain(c)
<1>9. IsChain(ch)
  <2>1. DOMAIN g = 0 .. k /\ g = [n \in 0 .. k |-> g[n]]
    BY <1>6 DEF Iterates
  <2>2. ASSUME NEW n \in 0 .. k
        PROVE  g[n] = IF n = 0 THEN Descend(MinusInf)[0] ELSE After(g[n - 1])
    <3>1. n # 0 => n \in 1 .. k /\ n - 1 \in 0 .. k
      BY <1>1
    <3> QED
      BY <1>3, <1>7, <1>8, <3>1 DEF First
  <2>3. IsChain(g)
    BY <2>1, <2>2
  <2> HIDE DEF IsChain
  <2> QED
    BY <2>3
<1>10. LeafChain = {ch[n] : n \in 0 .. k} \ {None}
  BY DEF LeafChain
<1> HIDE DEF ch
<1>11. ch[0] = f /\ \A n \in 1 .. k : ch[n] = After(ch[n - 1])
  <2>1. ASSUME NEW n \in 0 .. k
        PROVE  ch[n] = IF n = 0 THEN Descend(MinusInf)[0] ELSE After(ch[n - 1])
    BY <1>9
  <2>2. 0 \in 0 .. k /\ \A n \in 1 .. k : n # 0 /\ n \in 0 .. k
    BY <1>1
  <2> QED
    BY <2>1, <2>2 DEF First
<1> HIDE DEF f, k
<1>12. \A n \in 0 .. k : ch[n] \in 0 .. k
  <2>1. ch[0] \in 0 .. k /\ \A n \in 1 .. k : ch[n - 1] \in 0 .. k => ch[n] \in 0 .. k
    BY <1>2, <1>3, <1>5, <1>11
  <2> QED
    BY <1>1, <2>1, StaysIn
<1>13. Chained(ch, f, nx, k)
  <2>1. ASSUME NEW n \in 1 .. k PROVE ch[n] = nx[ch[n - 1]]
    <3>1. n - 1 \in 0 .. k
      BY <1>1
    <3> QED
      BY <1>3, <1>11, <1>12, <3>1
  <2> QED
    BY <1>2, <1>5, <1>11, <2>1 DEF Chained
<1>14. LeafChain \subseteq Blocks
  BY <1>1, <1>10, <1>12 DEF None
<1>15. First \in LeafChain
  <2>1. 0 \in 0 .. k
    BY <1>1
  <2> QED
    BY <1>1, <1>4, <1>10, <1>11, <2>1 DEF f, None
<1>16. \A b \in Blocks : nx[b] = pages[b].next
  BY <1>1 DEF nx
<1>17. Closed(LeafChain)
  <2> SUFFICES ASSUME NEW b \in LeafChain, pages[b].next # None
               PROVE  pages[b].next \in LeafChain
    BY DEF Closed
  <2>1. PICK n \in 0 .. k : b = ch[n]
    BY <1>10
  <2>2. nx[ch[n]] = pages[b].next
    BY <1>14, <1>16, <2>1
  <2>3. nx[ch[n]] = 0 \/ \E m \in 0 .. k : nx[ch[n]] = ch[m]
    BY <1>1, <1>13, ChainCloses
  <2> QED
    BY <1>10, <2>2, <2>3 DEF None
<1>18. ASSUME NEW S \in SUBSET Blocks, First \in S, Closed(S) PROVE LeafChain \subseteq S
  <2> DEFINE T == S \cup {0}
  <2>1. \A b \in T : nx[b] \in T
    BY <1>2, <1>16, <1>18 DEF Closed, None
  <2>2. f \in T
    BY <1>18 DEF f
  <2> HIDE DEF T
  <2>3. \A n \in 0 .. k : ch[n] \in T
    BY <1>1, <1>13, <2>1, <2>2, ChainStays
  <2> QED
    BY <1>10, <2>3 DEF T, None
<1>19. \A b \in LeafChain : pages[b].level = 0
  <2> DEFINE S == {b \in Blocks : pages[b].level = 0}
  <2>1. Closed(S)
    BY <1>1 DEF Closed, PageInv
  <2>2. S \in SUBSET Blocks /\ First \in S
    BY <1>4
  <2> HIDE DEF S
  <2>3. LeafChain \subseteq S
    BY <1>18, <2>1, <2>2
  <2> QED
    BY <2>3 DEF S
<1> QED
  BY <1>14, <1>15, <1>17, <1>18, <1>19 DEF ChainIsClosed

\* A scan of the chain meets what was inserted.
LEMMA StoredIsTried == Shape => Stored \subseteq tried
<1> SUFFICES ASSUME Shape, NEW b \in LeafChain, NEW i \in DOMAIN pages[b].items
             PROVE  pages[b].items[i].key \in tried
  BY DEF Stored
<1>1. meta.root # None
  BY DEF LeafChain
<1>2. b \in Blocks /\ pages[b].level = 0
  BY <1>1, ChainIs DEF ChainIsClosed
<1>3. PageInv(b)
  BY <1>2 DEF Shape
<1> QED
  BY <1>2, <1>3 DEF PageInv, ItemsInv

-----------------------------------------------------------------------------
(* The tree grows: all of its pages stay where they are, except for one    *)
(* that nothing leads to.                                                  *)

LEMMA FreshNotLed ==
    ASSUME Shape
    PROVE  NotLed(Len(pages) + 1) /\ Len(pages) + 1 \notin Blocks /\ Len(pages) + 1 \in Nat
<1> DEFINE x == Len(pages) + 1
<1>1. x \in Nat /\ x \notin Blocks /\ x # None
  BY PageTypes DEF Shape, None
<1>2. x # meta.root
  BY <1>1 DEF Shape, MetaInv
<1>3. ASSUME NEW c \in Blocks PROVE pages[c].next # x
  BY <1>1 DEF Shape, PageInv
<1>4. ASSUME NEW c \in Blocks, pages[c].level > 0, NEW i \in DOMAIN pages[c].items
      PROVE  pages[c].items[i].child # x
  <2>1. LeadsDown(pages[c].items[i], pages[c].level)
    BY DEF Shape, PageInv, ItemsInv
  <2> QED
    BY <1>1, <1>4, <2>1 DEF LeadsDown
<1> HIDE DEF x
<1>5. NotLed(x)
  BY <1>1, <1>2, <1>3, <1>4 DEF NotLed
<1> QED
  BY <1>1, <1>5 DEF x

LEMMA NotLedOut ==
    ASSUME Shape, meta.root # None, NEW x, NotLed(x)
    PROVE  x \notin LeafChain /\ \A l \in 0 .. meta.level : Descend(MinusInf)[l] # x
<1>1. ASSUME NEW l \in 0 .. meta.level PROVE Descend(MinusInf)[l] # x
  <2>1. CASE l = meta.level
    BY <2>1, LeftEndIs DEF LeftEnd, Path, NotLed
  <2>2. CASE l # meta.level
    <3>1. l + 1 \in 0 .. meta.level /\ l + 1 > 0
      BY <2>2 DEF Shape, TypeInv
    <3>2. PICK b \in Blocks : b = Descend(MinusInf)[l + 1] /\ pages[b].level = l + 1
      BY <3>1, LeftEndIs DEF LeftEnd, Path
    <3>3. 1 \in DOMAIN pages[b].items /\ Descend(MinusInf)[l] = pages[b].items[1].child
      BY <2>2, <3>2, LeftEndIs DEF LeftEnd
    <3> QED
      BY <3>1, <3>2, <3>3 DEF NotLed
  <2> QED
    BY <2>1, <2>2
<1>2. x \notin LeafChain
  <2> DEFINE S == Blocks \ {x}
  <2>1. Closed(S)
    BY DEF Closed, NotLed, Shape, PageInv
  <2>2. 0 \in 0 .. meta.level
    BY DEF Shape, TypeInv
  <2>3. First \in S
    BY <1>1, <2>2, LeftEndIs DEF LeftEnd, Path, First
  <2> HIDE DEF S
  <2>4. S \in SUBSET Blocks
    BY DEF S
  <2>5. LeafChain \subseteq S
    BY <2>1, <2>3, <2>4, ChainIs DEF ChainIsClosed
  <2> QED
    BY <2>5 DEF S
<1> QED
  BY <1>1, <1>2

\* A root that is put above the old one leads to it first.
LEMMA LeftPathStays ==
    ASSUME LeftEnd, LeftEnd', meta.root # None, meta'.root # None,
           meta.level \in Nat, meta'.level \in Nat, meta.level <= meta'.level,
           Descend(MinusInf)'[meta.level] = meta.root,
           \A l \in 0 .. meta.level : l > 0 =>
               pages'[Descend(MinusInf)[l]].items[1].child
                   = pages[Descend(MinusInf)[l]].items[1].child
    PROVE  \A l \in 0 .. meta.level : Descend(MinusInf)'[l] = Descend(MinusInf)[l]
<1> DEFINE d == Descend(MinusInf)
           e == Descend(MinusInf)'
           m == meta.level
           r == [n \in 0 .. m |-> m - n]
           same == {n \in 0 .. m : e[n] = d[n]}
<1>1. d[m] = meta.root /\ \A l \in 0 .. m : l # m => d[l] = pages[d[l + 1]].items[1].child
  BY DEF LeftEnd, Path
<1>2. \A l \in 0 .. meta'.level : l # meta'.level => e[l] = pages'[e[l + 1]].items[1].child
  BY DEF LeftEnd
<1>3. e[m] = meta.root
  OBVIOUS
<1>4. \A l \in 0 .. m : l > 0 => pages'[d[l]].items[1].child = pages[d[l]].items[1].child
  OBVIOUS
<1> HIDE DEF d, e
<1>5. \A l \in 0 .. m : l # m /\ e[l + 1] = d[l + 1] => e[l] = d[l]
  <2> SUFFICES ASSUME NEW l \in 0 .. m, l # m, e[l + 1] = d[l + 1] PROVE e[l] = d[l]
    OBVIOUS
  <2>1. l + 1 \in 0 .. m /\ l + 1 > 0 /\ l \in 0 .. meta'.level /\ l # meta'.level
    OBVIOUS
  <2>2. e[l] = pages'[e[l + 1]].items[1].child /\ d[l] = pages[d[l + 1]].items[1].child
    BY <1>1, <1>2, <2>1
  <2>3. pages'[d[l + 1]].items[1].child = pages[d[l + 1]].items[1].child
    BY <1>4, <2>1
  <2> QED
    BY <2>2, <2>3
<1>6. r[0] \in same /\ \A n \in 1 .. m : r[n - 1] \in same => r[n] \in same
  <2>1. r[0] = m /\ m \in 0 .. m
    OBVIOUS
  <2>2. ASSUME NEW n \in 1 .. m
        PROVE  r[n] \in 0 .. m /\ r[n] # m /\ r[n - 1] = r[n] + 1
    OBVIOUS
  <2> HIDE DEF r
  <2> QED
    BY <1>1, <1>3, <1>5, <2>1, <2>2
<1> HIDE DEF same
<1>7. \A n \in 0 .. m : r[n] \in same
  <2> HIDE DEF r, m
  <2>1. m \in Nat
    BY DEF m
  <2> QED
    BY <1>6, <2>1, StaysIn
<1>8. ASSUME NEW l \in 0 .. m PROVE e[l] = d[l]
  <2>1. m - l \in 0 .. m /\ r[m - l] = l
    OBVIOUS
  <2> QED
    BY <1>7, <2>1 DEF same
<1> QED
  BY <1>8 DEF d, e

\* A page on its way to the chain keeps its level and its first downlink, and
\* its next link leads where it did, if over one page more.
Grows(x) ==
    /\ meta' = meta /\ tried \subseteq tried' /\ Blocks \subseteq Blocks'
    /\ \A b \in Blocks : b # x =>
          /\ pages'[b].level = pages[b].level
          /\ pages[b].level > 0 => pages'[b].items[1].child = pages[b].items[1].child
          /\ \/ pages'[b].next = pages[b].next
             \/ /\ pages'[b].next \in Blocks'
                /\ pages'[pages'[b].next].next = pages[b].next

LEMMA ChainGrows ==
    ASSUME Shape, Shape', NEW x, NotLed(x), Grows(x)
    PROVE  LeafChain \subseteq LeafChain'
<1> SUFFICES ASSUME meta.root # None PROVE LeafChain \subseteq LeafChain'
  BY DEF LeafChain
<1>1. meta' = meta /\ meta'.root # None /\ meta.level \in Nat
  BY DEF Grows, Shape, TypeInv
<1>2. LeftEnd /\ LeftEnd' /\ ChainIsClosed /\ ChainIsClosed'
  BY LeftEndIs, ChainIs, PTL
<1>3. First' = First
  <2>1. meta.level \in 0 .. meta.level /\ meta.level <= meta'.level /\ 0 \in 0 .. meta.level
    BY <1>1
  <2>2. Descend(MinusInf)'[meta.level] = meta.root
    BY <1>1, <1>2 DEF LeftEnd, Path
  <2>3. ASSUME NEW l \in 0 .. meta.level, l > 0
        PROVE  pages'[Descend(MinusInf)[l]].items[1].child
                   = pages[Descend(MinusInf)[l]].items[1].child
    <3>1. PICK b \in Blocks : b = Descend(MinusInf)[l] /\ pages[b].level = l
      BY <1>2 DEF LeftEnd, Path
    <3>2. b # x
      BY <3>1, NotLedOut
    <3> QED
      BY <2>3, <3>1, <3>2 DEF Grows
  <2>4. \A l \in 0 .. meta.level : Descend(MinusInf)'[l] = Descend(MinusInf)[l]
    BY <1>1, <1>2, <2>1, <2>2, <2>3, LeftPathStays
  <2> QED
    BY <2>1, <2>4 DEF First
<1> DEFINE S == LeafChain \cap LeafChain'
<1>4. First \in S
  BY <1>1, <1>2, <1>3 DEF ChainIsClosed
<1>5. Closed(S)
  <2> SUFFICES ASSUME NEW b \in S, pages[b].next # None PROVE pages[b].next \in S
    BY DEF Closed
  <2>1. b \in Blocks /\ b # x /\ pages[b].next \in LeafChain
    BY <1>2, NotLedOut DEF ChainIsClosed, Closed
  <2>2. Closed(LeafChain)'
    BY <1>1, <1>2 DEF ChainIsClosed
  <2>3. CASE pages'[b].next = pages[b].next
    BY <2>1, <2>2, <2>3 DEF Closed
  <2>4. CASE pages'[b].next \in Blocks' /\ pages'[pages'[b].next].next = pages[b].next
    <3>1. pages'[b].next # None
      <4>1. TypeInv'
        BY DEF Shape
      <4>2. (None \notin Blocks)'
        BY <4>1, NoneIsNoBlock, PTL
      <4> QED
        BY <2>4, <4>2
    <3>2. pages'[b].next \in LeafChain'
      BY <2>2, <3>1 DEF Closed
    <3> QED
      BY <2>1, <2>2, <2>4, <3>2 DEF Closed
  <2> QED
    BY <2>1, <2>3, <2>4 DEF Grows
<1>6. S \in SUBSET Blocks
  BY <1>2 DEF ChainIsClosed
<1> HIDE DEF S
<1>7. LeafChain \subseteq S
  BY <1>2, <1>4, <1>5, <1>6 DEF ChainIsClosed
<1> QED
  BY <1>7 DEF S

SamePage(b) ==
    /\ b \in Blocks /\ pages'[b].level = pages[b].level
    /\ pages'[b].next = pages[b].next /\ pages'[b].items = pages[b].items

\* What keeps its place keeps its form: items, pages, the path of the insert.
LEMMA DownKept ==
    ASSUME NEW x, Grows(x), NEW it, NEW level, it.child # x, LeadsDown(it, level)
    PROVE  LeadsDown(it, level)'
<1> QED
  BY DEF LeadsDown, Grows

LEMMA ItemsKept ==
    ASSUME NEW x, Grows(x), NEW items, NEW level, ItemsInv(items, level),
           level > 0 => \A i \in DOMAIN items : items[i].child # x
    PROVE  ItemsInv(items, level)'
<1>1. ASSUME NEW i \in DOMAIN items PROVE LeadsDown(items[i], level)'
  <2>1. CASE level > 0
    <3>1. LeadsDown(items[i], level) /\ items[i].child # x
      BY <2>1 DEF ItemsInv
    <3> QED
      BY <3>1, DownKept
  <2>2. CASE ~(level > 0)
    BY <2>2 DEF LeadsDown
  <2> QED
    BY <2>1, <2>2
<1>2. ASSUME NEW i \in DOMAIN items, level = 0 PROVE items[i].key \in tried'
  BY <1>2 DEF ItemsInv, Grows
<1> QED
  BY <1>1, <1>2 DEF ItemsInv

LEMMA PageHas ==
    ASSUME NEW b, NEW items, NEW level, NEW next,
           pages'[b].items = items, pages'[b].level = level, pages'[b].next = next,
           next # None => next \in Blocks' /\ pages'[next].level = level,
           ItemsInv(items, level)'
    PROVE  PageInv(b)'
<1> QED
  BY DEF PageInv

LEMMA PageKept ==
    ASSUME TypeInv, NEW x, NotLed(x), Grows(x),
           NEW b, SamePage(b), PageInv(b)
    PROVE  PageInv(b)'
<1> USE DEF SamePage
<1>1. PICK items \in Seq(Items) : items = pages[b].items
  BY PageTypes
<1>2. PICK level \in Nat : level = pages[b].level
  BY PageTypes
<1>3. PICK next \in Nat : next = pages[b].next
  BY PageTypes
<1>4. next # None => next \in Blocks' /\ pages'[next].level = level
  BY <1>2, <1>3 DEF PageInv, NotLed, Grows
<1>5. ItemsInv(items, level)
  BY <1>1, <1>2 DEF PageInv
<1>6. level > 0 => \A i \in DOMAIN items : items[i].child # x
  BY <1>1, <1>2 DEF NotLed
<1>7. ItemsInv(items, level)'
  BY <1>5, <1>6, ItemsKept
<1>8. pages'[b].items = items /\ pages'[b].level = level /\ pages'[b].next = next
  BY <1>1, <1>2, <1>3
<1> QED
  BY <1>4, <1>7, <1>8, PageHas

LEMMA ShapeGrows ==
    ASSUME Shape, TypeInv', NEW x, NotLed(x), Grows(x), meta.root = None => acked' = acked,
           \A b \in Blocks' : SamePage(b) \/ PageInv(b)'
    PROVE  Shape'
<1>1. MetaInv'
  <2>1. meta' = meta /\ Blocks \subseteq Blocks'
    BY DEF Grows
  <2>2. CASE meta.root = None
    BY <2>1, <2>2 DEF Shape, MetaInv
  <2>3. CASE meta.root # None
    <3>1. meta.root \in Blocks /\ meta.root # x
      BY <2>3 DEF Shape, MetaInv, NotLed
    <3>2. pages'[meta.root].level = pages[meta.root].level
      BY <3>1 DEF Grows
    <3> QED
      BY <2>1, <2>3, <3>1, <3>2 DEF Shape, MetaInv
  <2> QED
    BY <2>2, <2>3
<1>2. ASSUME NEW b \in Blocks' PROVE PageInv(b)'
  <2>1. CASE SamePage(b)
    <3>1. PageInv(b)
      BY <2>1 DEF Shape, SamePage
    <3> QED
      BY <2>1, <3>1, PageKept DEF Shape
  <2> QED
    BY <2>1
<1> QED
  BY <1>1, <1>2 DEF Shape

LEMMA InKept ==
    ASSUME ChainInv, LeafChain \subseteq LeafChain',
           \A b \in Blocks' : SamePage(b) \/ ItemsIn(pages[b].items, pages[b].level)'
    PROVE  ChainInv'
<1>1. ASSUME NEW b, SamePage(b)
      PROVE  ItemsIn(pages[b].items, pages[b].level)'
  BY <1>1 DEF ChainInv, ItemsIn, LeadsIn, SamePage
<1> QED
  BY <1>1 DEF ChainInv

LEMMA PathKept ==
    ASSUME Shape, NEW x, Grows(x), OnPath, ins.blk # x, \A l \in 1 .. meta.level : ins.path[l] # x,
           ins'.entry = ins.entry, ins'.blk = ins.blk, ins'.path = ins.path
    PROVE  OnPath'
<1>1. /\ meta' = meta /\ tried \subseteq tried' /\ Blocks \subseteq Blocks'
      /\ \A b \in Blocks : b # x => pages'[b].level = pages[b].level
  BY DEF Grows
<1> QED
  BY <1>1 DEF OnPath

LEMMA StoredGrows ==
    ASSUME LeafChain \subseteq LeafChain',
           \A b \in LeafChain : \A i \in DOMAIN pages[b].items :
               SamePage(b) \/ pages[b].items[i].key \in Stored'
    PROVE  Stored \subseteq Stored'
<1> SUFFICES ASSUME NEW b \in LeafChain, NEW i \in DOMAIN pages[b].items
             PROVE  pages[b].items[i].key \in Stored'
  BY DEF Stored
<1>1. CASE SamePage(b)
  BY <1>1 DEF Stored, SamePage
<1> QED
  BY <1>1

-----------------------------------------------------------------------------
(* What an insert writes.                                                  *)

LEMMA PageWritten ==
    ASSUME TypeInv, NEW b \in Blocks, NEW q \in Pages, pages' = [pages EXCEPT ![b] = q]
    PROVE  /\ pages' \in Seq(Pages) /\ Len(pages') = Len(pages) /\ Blocks' = Blocks
           /\ pages'[b] = q /\ \A c \in Blocks : c # b => pages'[c] = pages[c]
<1>1. pages \in Seq(Pages) /\ b \in 1 .. Len(pages) /\ Blocks = 1 .. Len(pages)
  BY PageTypes DEF TypeInv
<1>2. pages' \in Seq(Pages) /\ Len(pages') = Len(pages)
      /\ \A c \in 1 .. Len(pages) : pages'[c] = IF c = b THEN q ELSE pages[c]
  BY <1>1, ExceptSeq
<1>3. Blocks' = DOMAIN pages' /\ DOMAIN pages' = 1 .. Len(pages')
  BY <1>2, LenProperties DEF Blocks
<1> QED
  BY <1>1, <1>2, <1>3

LEMMA PageAdded ==
    ASSUME TypeInv, NEW q \in Pages, pages' = Append(pages, q)
    PROVE  /\ pages' \in Seq(Pages) /\ Len(pages') = Len(pages) + 1
           /\ Blocks' = Blocks \cup {Len(pages) + 1}
           /\ pages'[Len(pages) + 1] = q /\ \A c \in Blocks : pages'[c] = pages[c]
<1>1. pages \in Seq(Pages) /\ Blocks = 1 .. Len(pages) /\ Len(pages) \in Nat
  BY PageTypes DEF TypeInv
<1>2. pages' \in Seq(Pages) /\ Len(pages') = Len(pages) + 1
      /\ pages'[Len(pages) + 1] = q /\ \A c \in 1 .. Len(pages) : pages'[c] = pages[c]
  BY <1>1, AppendProperties
<1>3. Blocks' = DOMAIN pages' /\ DOMAIN pages' = 1 .. Len(pages')
  BY <1>2, LenProperties DEF Blocks
<1> QED
  BY <1>1, <1>2, <1>3

LEMMA Slices ==
    ASSUME NEW S, NEW s \in Seq(S), NEW m \in Int, NEW n \in Int, m >= 1, n <= Len(s)
    PROVE  /\ SubSeq(s, m, n) \in Seq(S)
           /\ Len(SubSeq(s, m, n)) = IF m <= n THEN n - m + 1 ELSE 0
           /\ \A i \in 1 .. n - m + 1 : SubSeq(s, m, n)[i] = s[m + i - 1]
<1>1. \A i \in m .. n : s[i] \in S
  <2>1. Len(s) \in Nat
    BY LenProperties
  <2>2. \A i \in m .. n : i \in 1 .. Len(s)
    BY <2>1
  <2> QED
    BY <2>2, ElementOfSeq
<1> QED
  BY <1>1, SubSeqProperties

Splice(s, e, pos) == SubSeq(s, 1, pos - 1) \o <<e>> \o SubSeq(s, pos, Len(s))

IsSpliced(r, s, e, pos) ==
    /\ Len(r) = Len(s) + 1 /\ r[pos] = e
    /\ \A i \in 1 .. Len(s) : r[IF i < pos THEN i ELSE i + 1] = s[i]
    /\ \A i \in 1 .. Len(s) + 1 :
          i # pos => IF i < pos THEN r[i] = s[i] ELSE r[i] = s[i - 1]

LEMMA Spliced ==
    ASSUME NEW S, NEW s \in Seq(S), NEW e \in S, NEW pos \in 1 .. Len(s) + 1
    PROVE  Splice(s, e, pos) \in Seq(S) /\ IsSpliced(Splice(s, e, pos), s, e, pos)
<1> DEFINE n == Len(s)
           u == SubSeq(s, 1, pos - 1)
           v == SubSeq(s, pos, n)
           w == <<e>>
           r == Splice(s, e, pos)
<1>1. n \in Nat /\ pos \in Nat /\ 1 <= pos /\ pos <= n + 1
  BY LenProperties
<1>2. u \in Seq(S) /\ Len(u) = pos - 1 /\ \A i \in 1 .. pos - 1 : u[i] = s[i]
  <2>1. 1 \in Int /\ pos - 1 \in Int /\ 1 >= 1 /\ pos - 1 <= n
    BY <1>1
  <2>2. /\ u \in Seq(S) /\ Len(u) = IF 1 <= pos - 1 THEN (pos - 1) - 1 + 1 ELSE 0
        /\ \A i \in 1 .. (pos - 1) - 1 + 1 : u[i] = s[1 + i - 1]
    BY <2>1, Slices
  <2> HIDE DEF u
  <2>3. (pos - 1) - 1 + 1 = pos - 1 /\ \A i \in 1 .. pos - 1 : 1 + i - 1 = i
    BY <1>1
  <2> QED
    BY <1>1, <2>2, <2>3
<1>3. v \in Seq(S) /\ Len(v) = n - pos + 1 /\ \A i \in 1 .. n - pos + 1 : v[i] = s[pos + i - 1]
  <2>1. pos \in Int /\ n \in Int /\ pos >= 1 /\ n <= n
    BY <1>1
  <2>2. /\ v \in Seq(S) /\ Len(v) = IF pos <= n THEN n - pos + 1 ELSE 0
        /\ \A i \in 1 .. n - pos + 1 : v[i] = s[pos + i - 1]
    BY <2>1, Slices
  <2> HIDE DEF v
  <2> QED
    BY <1>1, <2>2
<1>4. w \in Seq(S) /\ Len(w) = 1 /\ w[1] = e
  OBVIOUS
<1> HIDE DEF n, u, v, w, r
<1>5. /\ u \o w \in Seq(S) /\ Len(u \o w) = pos
      /\ \A i \in 1 .. pos : (u \o w)[i] = IF i < pos THEN s[i] ELSE e
  <2>1. /\ u \o w \in Seq(S) /\ Len(u \o w) = Len(u) + Len(w)
        /\ \A i \in 1 .. Len(u) + Len(w) :
              (u \o w)[i] = IF i <= Len(u) THEN u[i] ELSE w[i - Len(u)]
    BY <1>2, <1>4, ConcatProperties
  <2> QED
    BY <1>1, <1>2, <1>4, <2>1
<1> DEFINE x == u \o w
<1>6. /\ r \in Seq(S) /\ Len(r) = n + 1
      /\ \A i \in 1 .. n + 1 : r[i] = IF i <= pos THEN x[i] ELSE v[i - pos]
  <2>1. r = x \o v
    BY DEF n, u, v, w, r, Splice
  <2>4. /\ x \in Seq(S) /\ Len(x) = pos
    BY <1>5
  <2> HIDE DEF x
  <2>2. /\ x \o v \in Seq(S) /\ Len(x \o v) = Len(x) + Len(v)
        /\ \A i \in 1 .. Len(x) + Len(v) :
              (x \o v)[i] = IF i <= Len(x) THEN x[i] ELSE v[i - Len(x)]
    BY <1>3, <2>4, ConcatProperties
  <2>3. Len(x) + Len(v) = n + 1
    BY <1>1, <1>3, <2>4
  <2> QED
    BY <2>1, <2>2, <2>3, <2>4
<1> HIDE DEF x
<1>7. \A i \in 1 .. pos : x[i] = IF i < pos THEN s[i] ELSE e
  BY <1>5 DEF x
<1>8. ASSUME NEW i \in 1 .. n + 1
      PROVE  r[i] = IF i < pos THEN s[i] ELSE IF i = pos THEN e ELSE s[i - 1]
  <2>1. CASE i <= pos
    <3>1. i \in 1 .. pos /\ (i < pos \/ i = pos) /\ (i = pos => ~(i < pos))
      BY <1>1, <2>1
    <3>2. r[i] = x[i]
      BY <1>6, <2>1, Zenon
    <3>3. x[i] = IF i < pos THEN s[i] ELSE e
      BY <1>7, <3>1, Zenon
    <3> QED
      BY <3>1, <3>2, <3>3, Zenon
  <2>2. CASE i > pos
    <3>1. i - pos \in 1 .. n - pos + 1 /\ pos + (i - pos) - 1 = i - 1
      BY <1>1, <2>2
    <3>2. v[i - pos] = s[pos + (i - pos) - 1]
      BY <1>3, <3>1
    <3>3. ~(i <= pos) /\ ~(i < pos) /\ i # pos
      BY <1>1, <2>2
    <3>4. r[i] = v[i - pos]
      BY <1>6, <3>3, Zenon
    <3> QED
      BY <3>1, <3>2, <3>3, <3>4, Zenon
  <2>3. i <= pos \/ i > pos
    BY <1>1
  <2> QED
    BY <2>1, <2>2, <2>3
<1>9. pos \in 1 .. n + 1 /\ n \in Nat /\ n = Len(s)
  BY <1>1 DEF n
<1>10. ASSUME NEW i \in 1 .. n PROVE r[IF i < pos THEN i ELSE i + 1] = s[i]
  <2>1. CASE i < pos
    <3>1. i \in 1 .. n + 1
      BY <1>9
    <3> QED
      BY <1>8, <2>1, <3>1
  <2>2. CASE ~(i < pos)
    <3>1. i + 1 \in 1 .. n + 1 /\ ~(i + 1 < pos) /\ i + 1 # pos /\ (i + 1) - 1 = i
      BY <1>9, <2>2
    <3>2. r[i + 1] = s[i]
      BY <1>8, <3>1
    <3> QED
      BY <2>2, <3>2
  <2> QED
    BY <2>1, <2>2
<1>11. r[pos] = e
  BY <1>8, <1>9
<1>12. \A i \in 1 .. n + 1 : i # pos => IF i < pos THEN r[i] = s[i] ELSE r[i] = s[i - 1]
  BY <1>8
<1> QED
  BY <1>6, <1>9, <1>10, <1>11, <1>12 DEF r, IsSpliced

\* The page with the new item: every item of the page is still there, and an
\* internal page still starts with its first.
PlacedWell ==
    LET p == pages[ins.blk] n == Len(p.items) IN
    /\ Placed \in Seq(Items) /\ Len(Placed) = n + 1 /\ n \in Nat
    /\ \E j \in 1 .. n + 1 : Placed[j] = ins.item
    /\ \A i \in 1 .. n : \E j \in 1 .. n + 1 : Placed[j] = p.items[i]
    /\ \A j \in 1 .. n + 1 :
          \/ Placed[j] = ins.item /\ (p.level > 0 => j # 1)
          \/ \E i \in 1 .. n : Placed[j] = p.items[i] /\ (p.level > 0 /\ i = 1 => j = 1)
    /\ p.level > 0 => n >= 1 /\ Placed[1] = p.items[1]

LEMMA PlacedIs ==
    ASSUME TypeInv, ins.blk \in Blocks, PageInv(ins.blk), ins.entry \in Entries
    PROVE  PlacedWell
<1> DEFINE p == pages[ins.blk]
           s == p.items
           n == Len(s)
           pos == IF p.level = 0 THEN LeafPosition(p, ins.entry)
                                 ELSE LinkPosition(p, ins.entry) + 1
           e == ins.item
<1>1. s \in Seq(Items) /\ n \in Nat /\ DOMAIN s = 1 .. n /\ p.level \in Nat
  BY PageTypes
<1>2. e \in Items
  BY DEF TypeInv, Inserts
<1>3. pos \in 1 .. n + 1 /\ (p.level > 0 => pos >= 2 /\ n >= 1)
  <2>1. ins.entry \in Keys
    BY DEF Keys
  <2>2. /\ LeafPosition(p, ins.entry) \in 1 .. n + 1
        /\ LinkPosition(p, ins.entry) \in 0 .. n
        /\ p.items # <<>> /\ p.items[1].key = MinusInf => LinkPosition(p, ins.entry) >= 1
    BY <2>1, PlacesAre
  <2>3. p.level > 0 => p.items # <<>> /\ p.items[1].key = MinusInf
    BY DEF PageInv, ItemsInv
  <2> HIDE DEF n, p
  <2> QED
    BY <1>1, <2>2, <2>3
<1> DEFINE r == Placed
<1>4. r = Splice(s, e, pos)
  BY Zenon DEF Placed, Splice
<1> HIDE DEF s, pos, e, r
<1>5. /\ r \in Seq(Items) /\ Len(r) = Len(s) + 1 /\ r[pos] = e
      /\ \A i \in 1 .. Len(s) : r[IF i < pos THEN i ELSE i + 1] = s[i]
      /\ \A i \in 1 .. Len(s) + 1 :
            i # pos => IF i < pos THEN r[i] = s[i] ELSE r[i] = s[i - 1]
  <2>1. r \in Seq(Items) /\ IsSpliced(r, s, e, pos)
    BY <1>1, <1>2, <1>3, <1>4, Spliced
  <2> QED
    BY <2>1, Zenon DEF IsSpliced
<1>6. \A i \in 1 .. n : \E j \in 1 .. n + 1 : r[j] = s[i]
  <2> SUFFICES ASSUME NEW i \in 1 .. n PROVE \E j \in 1 .. n + 1 : r[j] = s[i]
    OBVIOUS
  <2> DEFINE j == IF i < pos THEN i ELSE i + 1
  <2>1. j \in 1 .. n + 1
    BY <1>1
  <2>2. r[j] = s[i]
    BY <1>5
  <2> QED
    BY <2>1, <2>2
<1>7. ASSUME NEW j \in 1 .. n + 1
      PROVE  \/ r[j] = e /\ (p.level > 0 => j # 1)
             \/ \E i \in 1 .. n : r[j] = s[i] /\ (p.level > 0 /\ i = 1 => j = 1)
  <2>1. CASE j = pos
    BY <1>1, <1>3, <1>5, <2>1
  <2>2. CASE j # pos /\ j < pos
    <3>1. j \in 1 .. n
      BY <1>1, <1>3, <2>2
    <3> QED
      BY <1>5, <2>2, <3>1
  <2>3. CASE j # pos /\ ~(j < pos)
    <3>1. j - 1 \in 1 .. n /\ (p.level > 0 => j - 1 # 1)
      BY <1>1, <1>3, <2>3
    <3>2. r[j] = s[j - 1]
      BY <1>5, <2>3
    <3> QED
      BY <3>1, <3>2
  <2> QED
    BY <2>1, <2>2, <2>3
<1>8. p.level > 0 => n >= 1 /\ r[1] = s[1]
  <2>1. p.level > 0 => 1 \in 1 .. Len(s) + 1 /\ 1 # pos /\ 1 < pos
    BY <1>1, <1>3
  <2> QED
    BY <1>3, <1>5, <2>1
<1>9. \E j \in 1 .. n + 1 : r[j] = e
  BY <1>3, <1>5
<1> QED
  BY <1>1, <1>5, <1>6, <1>7, <1>8, <1>9 DEF PlacedWell, s, e, r

\* It is in order for a page of its level, and so are its two parts.
LEMMA PlacedFits ==
    ASSUME Shape, ChainInv, ToPlace
    PROVE  /\ PlacedWell /\ ItemsInv(Placed, pages[ins.blk].level)
           /\ ItemsIn(Placed, pages[ins.blk].level)
<1> DEFINE p == pages[ins.blk]
           s == p.items
           n == Len(s)
           r == Placed
<1>1. TypeInv /\ ins.blk \in Blocks /\ PageInv(ins.blk) /\ ins.entry \in Entries
      /\ ins.entry \in tried
  BY DEF Shape, ToPlace, OnPath, TypeInv
<1>2. PlacedWell
  BY <1>1, PlacedIs
<1>3. /\ r \in Seq(Items) /\ Len(r) = n + 1 /\ n \in Nat /\ DOMAIN r = 1 .. n + 1
      /\ \A j \in 1 .. n + 1 :
            \/ r[j] = ins.item /\ (p.level > 0 => j # 1)
            \/ \E i \in 1 .. n : r[j] = s[i] /\ (p.level > 0 /\ i = 1 => j = 1)
      /\ p.level > 0 => n >= 1 /\ r[1] = s[1]
  BY <1>2, LenProperties DEF PlacedWell
<1>4. DOMAIN s = 1 .. n /\ p.level \in Nat
  BY <1>1, PageTypes
<1>5. ItemsInv(s, p.level) /\ ItemsIn(s, p.level)
  BY <1>1 DEF PageInv, ChainInv
<1>6. /\ ins.item.key \in Entries /\ LeadsDown(ins.item, p.level) /\ LeadsIn(ins.item, p.level)
      /\ p.level = 0 => ins.item.key \in tried
  BY <1>1 DEF ToPlace, LeafItem
<1> HIDE DEF p, s, r, n
<1>7. ASSUME NEW j \in 1 .. n + 1
      PROVE  /\ r[j].key \in Entries \/ (p.level > 0 /\ j = 1)
             /\ LeadsDown(r[j], p.level) /\ LeadsIn(r[j], p.level)
             /\ p.level = 0 => r[j].key \in tried
  <2>1. CASE r[j] = ins.item
    BY <1>6, <2>1
  <2>2. CASE \E i \in 1 .. n : r[j] = s[i] /\ (p.level > 0 /\ i = 1 => j = 1)
    <3>1. PICK i \in 1 .. n : r[j] = s[i] /\ (p.level > 0 /\ i = 1 => j = 1)
      BY <2>2
    <3> QED
      BY <1>4, <1>5, <3>1 DEF ItemsInv, ItemsIn
  <2> QED
    BY <1>3, <2>1, <2>2
<1>8. p.level > 0 => r # <<>> /\ r[1].key = MinusInf
  <2>1. r # <<>>
    BY <1>3, EmptySeq
  <2> QED
    BY <1>3, <1>5, <2>1 DEF ItemsInv
<1>9. ItemsInv(r, p.level) /\ ItemsIn(r, p.level)
  BY <1>3, <1>7, <1>8 DEF ItemsInv, ItemsIn
<1> QED
  BY <1>2, <1>9 DEF p, r

Kept(s, at)         == SubSeq(s, 1, at)
Moved(s, at)        == SubSeq(s, at + 1, Len(s))
ToRight(s, at, level) == IF level = 0 THEN Moved(s, at)
                         ELSE [Moved(s, at) EXCEPT ![1].key = MinusInf]

LEMMA PartsAre ==
    ASSUME NEW s \in Seq(Items), NEW at \in 1 .. Len(s) - 1
    PROVE  /\ Kept(s, at) \in Seq(Items) /\ DOMAIN Kept(s, at) = 1 .. at
           /\ \A i \in 1 .. at : i \in DOMAIN s /\ Kept(s, at)[i] = s[i]
           /\ Moved(s, at) \in Seq(Items) /\ DOMAIN Moved(s, at) = 1 .. Len(s) - at
           /\ \A i \in 1 .. Len(s) - at : i + at \in DOMAIN s /\ Moved(s, at)[i] = s[i + at]
           /\ at + 1 \in DOMAIN s /\ 1 \in DOMAIN s
<1> DEFINE n == Len(s)
           u == Kept(s, at)
           v == Moved(s, at)
<1>1. n \in Nat /\ DOMAIN s = 1 .. n /\ at \in 1 .. n - 1
  BY LenProperties
<1>2. /\ u \in Seq(Items) /\ Len(u) = IF 1 <= at THEN at - 1 + 1 ELSE 0
      /\ \A i \in 1 .. at - 1 + 1 : u[i] = s[1 + i - 1]
  <2>1. 1 \in Int /\ at \in Int /\ 1 >= 1 /\ at <= Len(s)
    BY <1>1
  <2> QED
    BY <2>1, Slices DEF Kept
<1>3. /\ v \in Seq(Items) /\ Len(v) = IF at + 1 <= n THEN n - (at + 1) + 1 ELSE 0
      /\ \A i \in 1 .. n - (at + 1) + 1 : v[i] = s[at + 1 + i - 1]
  <2>1. at + 1 \in Int /\ n \in Int /\ at + 1 >= 1 /\ n <= Len(s)
    BY <1>1
  <2> QED
    BY <2>1, Slices DEF Moved
<1> HIDE DEF u, v, n
<1>4. Len(u) = at /\ \A i \in 1 .. at : i \in 1 .. n /\ u[i] = s[i]
  <2>1. at - 1 + 1 = at /\ 1 <= at /\ \A i \in 1 .. at : 1 + i - 1 = i /\ i \in 1 .. n
    BY <1>1
  <2> QED
    BY <1>2, <2>1
<1>5. Len(v) = n - at /\ \A i \in 1 .. n - at : i + at \in 1 .. n /\ v[i] = s[i + at]
  <2>1. /\ n - (at + 1) + 1 = n - at /\ at + 1 <= n
        /\ \A i \in 1 .. n - at : at + 1 + i - 1 = i + at /\ i + at \in 1 .. n
    BY <1>1
  <2> QED
    BY <1>3, <2>1
<1>6. DOMAIN u = 1 .. at /\ DOMAIN v = 1 .. n - at
  BY <1>2, <1>3, <1>4, <1>5, LenProperties
<1>7. at + 1 \in 1 .. n /\ 1 \in 1 .. n
  BY <1>1
<1> QED
  BY <1>1, <1>2, <1>3, <1>4, <1>5, <1>6, <1>7 DEF u, v, n

LEMMA KeptFits ==
    ASSUME NEW s \in Seq(Items), NEW at \in 1 .. Len(s) - 1, NEW level \in Nat,
           ItemsInv(s, level), ItemsIn(s, level)
    PROVE  /\ ItemsInv(Kept(s, at), level) /\ ItemsIn(Kept(s, at), level)
           /\ Kept(s, at)[1] = s[1] /\ s[at + 1].key \in Entries
<1> DEFINE u == Kept(s, at)
<1>1. /\ u \in Seq(Items) /\ DOMAIN u = 1 .. at /\ 1 \in 1 .. at
      /\ at + 1 \in DOMAIN s /\ at + 1 # 1
      /\ \A i \in 1 .. at : i \in DOMAIN s /\ u[i] = s[i]
  BY PartsAre
<1> HIDE DEF u
<1>2. u # <<>>
  <2>1. Len(u) \in Nat /\ DOMAIN u = 1 .. Len(u)
    BY <1>1, LenProperties
  <2>2. Len(u) # 0
    BY <1>1, <2>1
  <2> QED
    BY <2>2, EmptySeq
<1>3. ItemsInv(u, level) /\ ItemsIn(u, level)
  BY <1>1, <1>2 DEF ItemsInv, ItemsIn
<1>4. s[at + 1].key \in Entries
  BY <1>1 DEF ItemsInv
<1> QED
  BY <1>1, <1>3, <1>4 DEF u

LEMMA MovedFits ==
    ASSUME NEW s \in Seq(Items), NEW at \in 1 .. Len(s) - 1, NEW level \in Nat,
           ItemsInv(s, level), ItemsIn(s, level)
    PROVE  /\ ToRight(s, at, level) \in Seq(Items)
           /\ ItemsInv(ToRight(s, at, level), level)
           /\ ItemsIn(ToRight(s, at, level), level)
           /\ \A i \in DOMAIN ToRight(s, at, level) :
                 \E j \in DOMAIN s : ToRight(s, at, level)[i].child = s[j].child
<1> DEFINE v == Moved(s, at)
           m == Len(s) - at
           e == [v[1] EXCEPT !.key = MinusInf]
           r == ToRight(s, at, level)
<1>1. /\ v \in Seq(Items) /\ DOMAIN v = 1 .. m
      /\ \A i \in 1 .. m : i + at \in DOMAIN s /\ v[i] = s[i + at]
  BY PartsAre
<1>2. Len(s) \in Nat /\ at \in Nat /\ m \in Nat /\ 1 \in 1 .. m /\ Len(v) = m
      /\ \A i \in 1 .. m : i + at # 1
  <2>1. Len(s) \in Nat /\ Len(v) \in Nat /\ DOMAIN v = 1 .. Len(v)
    BY <1>1, LenProperties
  <2> HIDE DEF v
  <2> QED
    BY <1>1, <2>1
<1> HIDE DEF v, m
<1>3. v[1] \in Items /\ e \in Items /\ e.key = MinusInf /\ e.child = v[1].child
  <2>1. v[1] \in Items
    BY <1>1, <1>2, ElementOfSeq
  <2> QED
    BY <2>1 DEF Items, Keys
<1> HIDE DEF e
<1>4. ASSUME NEW i \in 1 .. m
      PROVE  /\ v[i].key \in Entries /\ LeadsDown(v[i], level) /\ LeadsIn(v[i], level)
             /\ level = 0 => v[i].key \in tried
  BY <1>1, <1>2 DEF ItemsInv, ItemsIn
<1>5. CASE level = 0
  <2>1. r = v
    BY <1>5 DEF ToRight, v
  <2>2. ItemsInv(v, level) /\ ItemsIn(v, level)
    BY <1>1, <1>4, <1>5 DEF ItemsInv, ItemsIn
  <2> HIDE DEF r
  <2> QED
    BY <1>1, <2>1, <2>2 DEF r
<1>6. CASE level # 0
  <2>1. r = [v EXCEPT ![1] = e]
    BY <1>6 DEF ToRight, v, e
  <2> HIDE DEF r
  <2>2. /\ r \in Seq(Items) /\ Len(r) = m
        /\ \A j \in 1 .. m : r[j] = IF j = 1 THEN e ELSE v[j]
    BY <1>1, <1>2, <1>3, <2>1, ExceptSeq
  <2>3. DOMAIN r = 1 .. m /\ r # <<>>
    BY <1>2, <2>2, LenProperties, EmptySeq
  <2>4. ASSUME NEW j \in 1 .. m
        PROVE  /\ r[j].key \in Entries \/ (level > 0 /\ j = 1)
               /\ LeadsDown(r[j], level) /\ LeadsIn(r[j], level)
    <3>1. CASE j = 1
      BY <1>2, <1>3, <1>4, <1>6, <2>2, <3>1 DEF LeadsDown, LeadsIn
    <3>2. CASE j # 1
      BY <1>4, <2>2, <3>2
    <3> QED
      BY <3>1, <3>2
  <2>5. r[1].key = MinusInf
    BY <1>2, <1>3, <2>2
  <2>6. ItemsInv(r, level) /\ ItemsIn(r, level)
    BY <1>6, <2>3, <2>4, <2>5 DEF ItemsInv, ItemsIn
  <2>7. ASSUME NEW j \in 1 .. m PROVE j + at \in DOMAIN s /\ r[j].child = s[j + at].child
    BY <1>1, <1>2, <1>3, <2>2
  <2> QED
    BY <2>2, <2>3, <2>6, <2>7 DEF r
<1> QED
  BY <1>5, <1>6

-----------------------------------------------------------------------------
(* One step of the insert after the other.                                 *)

LEMMA PageFits ==
    ASSUME NEW x, Grows(x), NEW b, NEW items \in Seq(Items), NEW level \in Nat,
           NEW next \in Nat,
           pages'[b].items = items, pages'[b].level = level, pages'[b].next = next,
           next # None => next \in Blocks' /\ pages'[next].level = level,
           ItemsInv(items, level), level > 0 => \A i \in DOMAIN items : items[i].child # x
    PROVE  PageInv(b)'
<1>1. ItemsInv(items, level)'
  BY ItemsKept
<1> QED
  BY <1>1, PageHas

LEMMA InFits ==
    ASSUME LeafChain \subseteq LeafChain', NEW b, NEW items, NEW level,
           pages'[b].items = items, pages'[b].level = level, ItemsIn(items, level)
    PROVE  ItemsIn(pages[b].items, pages[b].level)'
<1> QED
  BY DEF ItemsIn, LeadsIn

LEMMA ChildNotFresh ==
    ASSUME NEW items, NEW level, ItemsInv(items, level), level > 0, NEW x, x \notin Blocks
    PROVE  \A i \in DOMAIN items : items[i].child # x
<1> QED
  BY DEF ItemsInv, LeadsDown

\* What is acknowledged stays stored.
LEMMA AckedStays ==
    ASSUME Shape', acked' \subseteq Stored'
    PROVE  AckedIsStored'
<1>1. (Stored \subseteq tried)'
  BY StoredIsTried, PTL
<1> QED
  BY <1>1 DEF AckedIsStored

LEMMA PlaceStep == IndInv /\ Place => IndInv'
<1> SUFFICES ASSUME IndInv, Place PROVE IndInv'
  OBVIOUS
<1>1. /\ Shape /\ ChainInv /\ TypeInv /\ ToPlace /\ acked \subseteq Stored
      /\ ins.blk \in Blocks /\ meta.root # None
  BY DEF IndInv, Shape, InsInv, Place, AckedIsStored, ToPlace, OnPath
<1>2. PlacedWell /\ ItemsInv(Placed, pages[ins.blk].level) /\ ItemsIn(Placed, pages[ins.blk].level)
  BY <1>1, PlacedFits
<1>3. PICK b \in Blocks : b = ins.blk
  BY <1>1
<1>4. pages[b] \in Pages /\ pages[b].level \in Nat /\ pages[b].next \in Nat
      /\ PageInv(b) /\ ItemsIn(pages[b].items, pages[b].level)
      /\ DOMAIN pages[b].items = 1 .. Len(pages[b].items)
  BY <1>1, PageTypes DEF Shape, ChainInv
<1>5. PICK items \in Seq(Items) : items = Placed
  BY <1>2 DEF PlacedWell
<1> DEFINE q == [pages[b] EXCEPT !.items = items]
<1>6. q \in Pages /\ q.items = items /\ q.level = pages[b].level /\ q.next = pages[b].next
  BY <1>4 DEF Pages
<1>7. pages' = [pages EXCEPT ![b] = q]
  BY <1>3, <1>5 DEF Place
<1> HIDE DEF q
<1>8. /\ pages' \in Seq(Pages) /\ Blocks' = Blocks
      /\ pages'[b] = q /\ \A c \in Blocks : c # b => pages'[c] = pages[c]
  BY <1>1, <1>6, <1>7, PageWritten
<1>9. ins' = NoInsert /\ meta' = meta /\ tried' = tried /\ acked' = acked \cup {ins.entry}
  BY DEF Place
<1>10. PICK x \in Nat : NotLed(x) /\ x \notin Blocks
  BY <1>1, FreshNotLed
<1>11. pages[b].level > 0 => items[1] = pages[b].items[1]
  BY <1>2, <1>3, <1>5 DEF PlacedWell
<1>12. Grows(x)
  <2>1. /\ pages'[b].level = pages[b].level /\ pages'[b].next = pages[b].next
        /\ pages[b].level > 0 => pages'[b].items[1].child = pages[b].items[1].child
    BY <1>6, <1>8, <1>11
  <2> QED
    BY <1>8, <1>9, <2>1 DEF Grows
<1>13. TypeInv'
  <2>1. NoInsert \in Inserts
    BY EmptySeq DEF NoInsert, Inserts, LeafItem, Items, Keys, None
  <2> QED
    BY <1>1, <1>8, <1>9, <2>1 DEF TypeInv
<1>14. PICK level \in Nat : level = pages[b].level
  BY <1>4
<1>15. ItemsInv(items, level) /\ ItemsIn(items, level)
  BY <1>2, <1>3, <1>5, <1>14
<1>16. PageInv(b)'
  <2>1. PICK next \in Nat : next = pages[b].next
    BY <1>4
  <2>2. next # None => next \in Blocks' /\ pages'[next].level = level
    BY <1>4, <1>6, <1>8, <1>14, <2>1 DEF PageInv
  <2>3. level > 0 => \A i \in DOMAIN items : items[i].child # x
    BY <1>10, <1>15, ChildNotFresh
  <2>4. pages'[b].items = items /\ pages'[b].level = level /\ pages'[b].next = next
    BY <1>6, <1>8, <1>14, <2>1
  <2> QED
    BY <1>12, <1>15, <2>2, <2>3, <2>4, PageFits
<1>17. Shape'
  BY <1>1, <1>8, <1>10, <1>12, <1>13, <1>16, ShapeGrows DEF SamePage
<1>18. LeafChain \subseteq LeafChain'
  BY <1>1, <1>10, <1>12, <1>17, ChainGrows
<1>19. ChainInv'
  <2>1. ItemsIn(pages[b].items, pages[b].level)'
    <3>1. pages'[b].items = items /\ pages'[b].level = level
      BY <1>6, <1>8, <1>14
    <3> QED
      BY <1>15, <1>18, <3>1, InFits
  <2> QED
    BY <1>1, <1>8, <1>18, <2>1, InKept DEF SamePage
<1>20. DOMAIN items = 1 .. Len(pages[b].items) + 1
  BY <1>2, <1>3, <1>5, LenProperties DEF PlacedWell
<1>21. Stored \subseteq Stored'
  <2>1. ASSUME b \in LeafChain, NEW i \in DOMAIN pages[b].items
        PROVE  pages[b].items[i].key \in Stored'
    <3>1. PICK j \in DOMAIN items : items[j] = pages[b].items[i]
      BY <1>2, <1>3, <1>4, <1>5, <1>20 DEF PlacedWell
    <3> QED
      BY <1>6, <1>8, <1>18, <2>1, <3>1 DEF Stored
  <2> QED
    BY <1>1, <1>8, <1>18, <2>1, ChainIs, StoredGrows DEF ChainIsClosed, SamePage
<1>22. ins.entry \in Stored'
  <2>1. CASE level = 0
    <3>1. PICK j \in DOMAIN items : items[j] = ins.item
      BY <1>2, <1>3, <1>5, <1>20 DEF PlacedWell
    <3>2. ins.item = LeafItem(ins.entry) /\ b \in LeafChain
      BY <1>1, <1>3, <1>14, <2>1 DEF ToPlace
    <3>3. items[j].key = ins.entry
      BY <3>1, <3>2 DEF LeafItem
    <3> QED
      BY <1>6, <1>8, <1>18, <3>2, <3>3 DEF Stored
  <2>2. CASE level # 0
    BY <1>1, <1>3, <1>14, <1>21, <2>2 DEF ToPlace
  <2> QED
    BY <2>1, <2>2
<1>23. AckedIsStored'
  BY <1>1, <1>9, <1>17, <1>21, <1>22, AckedStays
<1>24. InsInv'
  BY <1>9 DEF InsInv, NoInsert
<1> QED
  BY <1>17, <1>19, <1>23, <1>24 DEF IndInv

\* An insert that writes another page than its own still knows where it is.
LEMMA ToPlaceKept ==
    ASSUME Shape, NEW x, Grows(x), ToPlace, LeafChain \subseteq LeafChain', Stored \subseteq Stored',
           ins.blk # x, \A l \in 1 .. meta.level : ins.path[l] # x, ins.item.child # x,
           ins'.entry = ins.entry, ins'.blk = ins.blk, ins'.path = ins.path,
           ins'.item = ins.item
    PROVE  ToPlace'
<1>1. OnPath' /\ ins.blk \in Blocks
  BY PathKept DEF ToPlace, OnPath
<1>2. pages'[ins.blk].level = pages[ins.blk].level
  BY <1>1 DEF Grows
<1>3. PICK it \in Items : it = ins.item
  BY DEF Shape, TypeInv, Inserts
<1>4. PICK level \in Nat : level = pages[ins.blk].level
  BY <1>1, PageTypes DEF Shape
<1>5. LeadsDown(it, level) /\ LeadsIn(it, level) /\ it.child # x
  BY <1>3, <1>4 DEF ToPlace
<1>6. LeadsDown(it, level)' /\ LeadsIn(it, level)'
  BY <1>5, DownKept DEF LeadsIn
<1>7. LeadsDown(ins.item, pages[ins.blk].level)' /\ LeadsIn(ins.item, pages[ins.blk].level)'
  BY <1>2, <1>3, <1>4, <1>6 DEF LeadsDown, LeadsIn
<1> QED
  BY <1>1, <1>2, <1>7 DEF ToPlace

LEMMA PlacedSame ==
    ASSUME ins'.entry = ins.entry, ins'.blk = ins.blk, ins'.item = ins.item,
           pages'[ins.blk] = pages[ins.blk]
    PROVE  Placed' = Placed
<1> QED
  BY DEF Placed, LeafPosition, LinkPosition

LEMMA NewRightStep == IndInv /\ NewRight => IndInv'
<1> SUFFICES ASSUME IndInv, NewRight PROVE IndInv'
  OBVIOUS
<1>1. /\ Shape /\ ChainInv /\ TypeInv /\ ToPlace /\ OnPath /\ acked \subseteq Stored
      /\ ins.blk \in Blocks /\ meta.root # None /\ ins \in Inserts
  BY DEF IndInv, Shape, TypeInv, InsInv, NewRight, AckedIsStored, ToPlace, OnPath
<1>2. PICK x \in Nat : x = Len(pages) + 1 /\ NotLed(x) /\ x \notin Blocks
  BY <1>1, FreshNotLed
<1>3. NewPage \in Pages /\ NewPage.items = <<>> /\ NewPage.level = 0 /\ NewPage.next = None
  BY EmptySeq DEF NewPage, Pages, None
<1>4. /\ pages' \in Seq(Pages) /\ Blocks' = Blocks \cup {x}
      /\ pages'[x] = NewPage /\ \A c \in Blocks : pages'[c] = pages[c]
  BY <1>1, <1>2, <1>3, PageAdded DEF NewRight
<1>5. meta' = meta /\ tried' = tried /\ acked' = acked
  BY DEF NewRight
<1>6. PICK k \in SplitPoints(pages[ins.blk], Len(Placed)) :
          ins' = [ins EXCEPT !.pc = "right", !.at = k, !.right = x]
  BY <1>2, Zenon DEF NewRight
<1>7. k \in Nat /\ k \in 1 .. Len(Placed) - 1
  BY <1>6 DEF SplitPoints
<1>8. /\ ins' \in Inserts /\ ins'.pc = "right" /\ ins'.at = k /\ ins'.right = x
      /\ ins'.entry = ins.entry /\ ins'.blk = ins.blk /\ ins'.path = ins.path
      /\ ins'.item = ins.item
  BY <1>1, <1>6, <1>7 DEF Inserts
<1>9. Grows(x) /\ \A c \in Blocks : SamePage(c)
  BY <1>4, <1>5 DEF Grows, SamePage
<1>10. TypeInv'
  BY <1>1, <1>4, <1>5, <1>8 DEF TypeInv
<1>11. PageInv(x)' /\ ItemsIn(pages[x].items, pages[x].level)'
  BY <1>3, <1>4 DEF PageInv, ItemsInv, ItemsIn
<1>12. Shape'
  BY <1>1, <1>2, <1>4, <1>5, <1>9, <1>10, <1>11, ShapeGrows
<1>13. LeafChain \subseteq LeafChain'
  BY <1>1, <1>2, <1>9, <1>12, ChainGrows
<1>14. ChainInv'
  BY <1>1, <1>4, <1>9, <1>11, <1>13, InKept
<1>15. Stored \subseteq Stored'
  BY <1>1, <1>9, <1>13, ChainIs, StoredGrows DEF ChainIsClosed
<1>16. AckedIsStored'
  BY <1>1, <1>5, <1>12, <1>15, AckedStays
<1>17. NotLed(x)'
  BY <1>2, <1>3, <1>4, <1>5 DEF NotLed
<1>18. /\ ins.blk # x /\ ins.item.child # x
       /\ \A l \in 1 .. meta.level : ins.path[l] # x
  <2>1. pages[ins.blk].level \in Nat /\ x # None
    BY <1>1, <1>2, PageTypes DEF NotLed
  <2> QED
    BY <1>1, <1>2, <2>1 DEF ToPlace, OnPath, LeadsDown, LeafItem
<1>19. ToPlace'
  BY <1>1, <1>8, <1>9, <1>13, <1>15, <1>18, ToPlaceKept
<1>20. Placed' = Placed
  BY <1>1, <1>4, <1>8, PlacedSame
<1>21. InsInv'
  <2>1. ToSplit'
    BY <1>4, <1>5, <1>7, <1>8, <1>17, <1>18, <1>19, <1>20 DEF ToSplit
  <2> QED
    BY <1>8, <2>1 DEF InsInv
<1> QED
  BY <1>12, <1>14, <1>16, <1>21 DEF IndInv

LEMMA WriteRightStep == IndInv /\ WriteRight => IndInv'
<1> SUFFICES ASSUME IndInv, WriteRight PROVE IndInv'
  OBVIOUS
<1>1. /\ Shape /\ ChainInv /\ TypeInv /\ ToPlace /\ OnPath /\ acked \subseteq Stored
      /\ ins.blk \in Blocks /\ meta.root # None /\ ins \in Inserts /\ ToSplit
  BY DEF IndInv, Shape, TypeInv, InsInv, WriteRight, AckedIsStored, ToPlace, OnPath, ToSplit
<1>2. PlacedWell /\ ItemsInv(Placed, pages[ins.blk].level) /\ ItemsIn(Placed, pages[ins.blk].level)
  BY <1>1, PlacedFits
<1>3. PICK b \in Blocks : b = ins.blk
  BY <1>1
<1>4. PICK x \in Blocks : x = ins.right
  BY <1>1 DEF ToSplit
<1>5. PICK s \in Seq(Items) : s = Placed
  BY <1>2 DEF PlacedWell
<1>6. PICK at \in 1 .. Len(s) - 1 : at = ins.at
  BY <1>1, <1>5 DEF ToSplit
<1>7. pages[b] \in Pages /\ pages[b].level \in Nat /\ pages[b].next \in Nat
      /\ PageInv(b) /\ b \in Nat /\ DOMAIN pages[b].items = 1 .. Len(pages[b].items)
  BY <1>1, PageTypes DEF Shape
<1>8. PICK level \in Nat : level = pages[b].level
  BY <1>7
<1>9. PICK next \in Nat : next = pages[b].next
  BY <1>7
<1>10. ItemsInv(s, level) /\ ItemsIn(s, level)
  BY <1>2, <1>3, <1>5, <1>8
<1>11. PICK items \in Seq(Items) :
          /\ items = ToRight(s, at, level)
          /\ ItemsInv(items, level) /\ ItemsIn(items, level)
          /\ \A i \in DOMAIN items : \E j \in DOMAIN s : items[i].child = s[j].child
  BY <1>10, MovedFits
<1> DEFINE q == [pages[b] EXCEPT !.root = FALSE, !.prev = b, !.items = items]
<1>12. q \in Pages /\ q.items = items /\ q.level = level /\ q.next = next
  BY <1>7, <1>8, <1>9 DEF Pages
<1>13. pages' = [pages EXCEPT ![x] = q]
  BY <1>3, <1>4, <1>5, <1>6, <1>8, <1>11 DEF WriteRight, ToRight, Moved
<1> HIDE DEF q
<1>14. /\ pages' \in Seq(Pages) /\ Blocks' = Blocks
       /\ pages'[x] = q /\ \A c \in Blocks : c # x => pages'[c] = pages[c]
  BY <1>1, <1>12, <1>13, PageWritten
<1>15. /\ meta' = meta /\ tried' = tried /\ acked' = acked
       /\ ins' = [ins EXCEPT !.pc = "left"]
  BY DEF WriteRight
<1>16. /\ ins' \in Inserts /\ ins'.pc = "left" /\ ins'.at = ins.at /\ ins'.right = ins.right
       /\ ins'.entry = ins.entry /\ ins'.blk = ins.blk /\ ins'.path = ins.path
       /\ ins'.item = ins.item
  BY <1>1, <1>15 DEF Inserts
<1>17. /\ NotLed(x) /\ b # x /\ ins.item.child # x
       /\ \A l \in 1 .. meta.level : ins.path[l] # x
  BY <1>1, <1>3, <1>4 DEF ToSplit
<1>18. Grows(x) /\ \A c \in Blocks : c # x => SamePage(c)
  BY <1>14, <1>15 DEF Grows, SamePage
<1>19. TypeInv'
  BY <1>1, <1>14, <1>15, <1>16 DEF TypeInv
<1>20. next # x /\ (next # None => next \in Blocks' /\ pages'[next].level = level)
  BY <1>7, <1>8, <1>9, <1>14, <1>17 DEF PageInv, NotLed
<1>21. level > 0 => \A i \in DOMAIN items : items[i].child # x
  <2> SUFFICES ASSUME level > 0, NEW i \in DOMAIN items PROVE items[i].child # x
    OBVIOUS
  <2>1. PICK j \in DOMAIN s : items[i].child = s[j].child
    BY <1>11
  <2>2. s[j] = ins.item \/ \E k \in DOMAIN pages[b].items : s[j] = pages[b].items[k]
    <3>1. DOMAIN s = 1 .. Len(pages[b].items) + 1
      BY <1>2, <1>3, <1>5, LenProperties DEF PlacedWell
    <3>2. \A m \in 1 .. Len(pages[b].items) + 1 :
             \/ s[m] = ins.item
             \/ \E k \in 1 .. Len(pages[b].items) : s[m] = pages[b].items[k]
      BY <1>2, <1>3, <1>5, Zenon DEF PlacedWell
    <3> QED
      BY <1>7, <3>1, <3>2, Zenon
  <2> QED
    BY <1>8, <1>17, <2>1, <2>2 DEF NotLed
<1>22. pages'[x].items = items /\ pages'[x].level = level /\ pages'[x].next = next
  BY <1>12, <1>14
<1>23. PageInv(x)'
  BY <1>11, <1>18, <1>20, <1>21, <1>22, PageFits
<1>24. Shape'
  BY <1>1, <1>14, <1>15, <1>17, <1>18, <1>19, <1>23, ShapeGrows
<1>25. LeafChain \subseteq LeafChain'
  BY <1>1, <1>17, <1>18, <1>24, ChainGrows
<1>26. ChainInv'
  <2>1. ItemsIn(pages[x].items, pages[x].level)'
    BY <1>11, <1>22, <1>25, InFits
  <2> QED
    BY <1>1, <1>14, <1>18, <1>25, <2>1, InKept
<1>27. Stored \subseteq Stored'
  <2>1. x \notin LeafChain /\ LeafChain \subseteq Blocks
    BY <1>1, <1>17, NotLedOut, ChainIs DEF ChainIsClosed
  <2> QED
    BY <1>18, <1>25, <2>1, StoredGrows
<1>28. AckedIsStored'
  BY <1>1, <1>15, <1>24, <1>27, AckedStays
<1>29. NotLed(x)'
  BY <1>14, <1>15, <1>17, <1>20, <1>21, <1>22 DEF NotLed
<1>30. ToPlace'
  BY <1>1, <1>3, <1>16, <1>17, <1>18, <1>25, <1>27, ToPlaceKept
<1>31. Placed' = Placed
  BY <1>3, <1>14, <1>16, <1>17, PlacedSame
<1>32. ToSplit'
  BY <1>1, <1>3, <1>4, <1>14, <1>15, <1>16, <1>17, <1>29, <1>30, <1>31 DEF ToSplit
<1>33. RightWritten'
  <2>1. pages'[b] = pages[b]
    BY <1>14, <1>17
  <2>2. level = 0 => items = SubSeq(s, at + 1, Len(s))
    BY <1>11 DEF ToRight, Moved
  <2>3. ins'.blk = b /\ ins'.right = x /\ ins'.at = at /\ Placed' = s
    BY <1>3, <1>4, <1>5, <1>6, <1>16, <1>31
  <2> QED
    BY <1>8, <1>9, <1>22, <2>1, <2>2, <2>3 DEF RightWritten
<1>34. InsInv'
  BY <1>16, <1>32, <1>33 DEF InsInv
<1> QED
  BY <1>24, <1>26, <1>28, <1>34 DEF IndInv

LEMMA WriteLeftStep == IndInv /\ WriteLeft => IndInv'
<1> SUFFICES ASSUME IndInv, WriteLeft PROVE IndInv'
  OBVIOUS
<1>1. /\ Shape /\ ChainInv /\ TypeInv /\ ToPlace /\ OnPath /\ acked \subseteq Stored
      /\ ins.blk \in Blocks /\ meta.root # None /\ ins \in Inserts /\ ToSplit /\ RightWritten
  BY DEF IndInv, Shape, TypeInv, InsInv, WriteLeft, AckedIsStored, ToPlace, OnPath, ToSplit
<1>2. PlacedWell /\ ItemsInv(Placed, pages[ins.blk].level) /\ ItemsIn(Placed, pages[ins.blk].level)
  BY <1>1, PlacedFits
<1>3. PICK b \in Blocks : b = ins.blk
  BY <1>1
<1>4. PICK r \in Blocks : r = ins.right
  BY <1>1 DEF ToSplit
<1>5. PICK s \in Seq(Items) : s = Placed
  BY <1>2 DEF PlacedWell
<1>6. PICK at \in 1 .. Len(s) - 1 : at = ins.at
  BY <1>1, <1>5 DEF ToSplit
<1>7. /\ pages[b] \in Pages /\ pages[b].level \in Nat /\ pages[b].items \in Seq(Items)
      /\ DOMAIN pages[b].items = 1 .. Len(pages[b].items)
      /\ b # r /\ r \in Nat /\ r # None
  BY <1>1, <1>3, <1>4, PageTypes DEF ToSplit
<1>8. PICK level \in Nat : level = pages[b].level
  BY <1>7
<1>9. ItemsInv(s, level) /\ ItemsIn(s, level)
  BY <1>2, <1>3, <1>5, <1>8
<1>10. PICK items \in Seq(Items) :
          /\ items = Kept(s, at) /\ items[1] = s[1]
          /\ ItemsInv(items, level) /\ ItemsIn(items, level)
  BY <1>9, KeptFits, PartsAre
<1>11. PICK high \in Entries : high = s[at + 1].key
  BY <1>9, KeptFits
<1> DEFINE q == [pages[b] EXCEPT !.root = FALSE, !.next = r, !.high = high, !.items = items]
<1>12. q \in Pages /\ q.items = items /\ q.level = level /\ q.next = r /\ q.high = high
  BY <1>7, <1>8 DEF Pages
<1>13. pages' = [pages EXCEPT ![b] = q]
  BY <1>3, <1>4, <1>5, <1>6, <1>10, <1>11 DEF WriteLeft, Kept
<1> HIDE DEF q
<1>14. /\ pages' \in Seq(Pages) /\ Blocks' = Blocks
       /\ pages'[b] = q /\ \A c \in Blocks : c # b => pages'[c] = pages[c]
  BY <1>1, <1>12, <1>13, PageWritten
<1>15. /\ meta' = meta /\ tried' = tried /\ acked' = acked
       /\ ins' = [ins EXCEPT !.pc = "sibling"]
  BY DEF WriteLeft
<1>16. /\ ins' \in Inserts /\ ins'.pc = "sibling" /\ ins'.right = ins.right
       /\ ins'.entry = ins.entry /\ ins'.blk = ins.blk /\ ins'.path = ins.path
  BY <1>1, <1>15 DEF Inserts
<1>17. PICK x \in Nat : NotLed(x) /\ x \notin Blocks
  BY <1>1, FreshNotLed
<1>18. /\ pages'[b].items = items /\ pages'[b].level = level /\ pages'[b].next = r
       /\ pages'[b].high = high /\ pages'[r] = pages[r]
  BY <1>7, <1>12, <1>14
<1>19. /\ pages[r].level = level /\ pages[r].next = pages[b].next
       /\ level = 0 => pages[r].items = Moved(s, at)
  BY <1>1, <1>3, <1>4, <1>5, <1>6, <1>8 DEF RightWritten, Moved
<1>20. \A c \in Blocks : c # b => SamePage(c)
  BY <1>14 DEF SamePage
<1>21. Grows(x)
  <2>1. level > 0 => items[1] = pages[b].items[1]
    BY <1>2, <1>3, <1>5, <1>8, <1>10 DEF PlacedWell
  <2>2. /\ pages'[b].level = pages[b].level
        /\ pages[b].level > 0 => pages'[b].items[1].child = pages[b].items[1].child
        /\ pages'[b].next \in Blocks' /\ pages'[pages'[b].next].next = pages[b].next
    BY <1>8, <1>14, <1>18, <1>19, <2>1
  <2> QED
    BY <1>14, <1>15, <1>20, <2>2 DEF Grows, SamePage
<1>22. TypeInv'
  BY <1>1, <1>14, <1>15, <1>16 DEF TypeInv
<1>23. PageInv(b)'
  <2>1. r # None => r \in Blocks' /\ pages'[r].level = level
    BY <1>14, <1>18, <1>19
  <2>2. level > 0 => \A i \in DOMAIN items : items[i].child # x
    BY <1>10, <1>17, ChildNotFresh
  <2> QED
    BY <1>7, <1>10, <1>18, <1>21, <2>1, <2>2, PageFits
<1>24. Shape'
  BY <1>1, <1>14, <1>15, <1>17, <1>20, <1>21, <1>22, <1>23, ShapeGrows
<1>25. LeafChain \subseteq LeafChain'
  BY <1>1, <1>17, <1>21, <1>24, ChainGrows
<1>26. ChainInv'
  <2>1. ItemsIn(pages[b].items, pages[b].level)'
    BY <1>10, <1>18, <1>25, InFits
  <2> QED
    BY <1>1, <1>14, <1>20, <1>25, <2>1, InKept
<1>27. b \in LeafChain => b \in LeafChain' /\ r \in LeafChain' /\ level = 0
  <2> SUFFICES ASSUME b \in LeafChain PROVE r \in LeafChain' /\ level = 0
    BY <1>25
  <2>1. level = 0
    BY <1>1, <1>8, ChainIs DEF ChainIsClosed
  <2>2. meta'.root # None
    BY <1>1, <1>15
  <2>3. ChainIsClosed'
    BY <1>24, ChainIs, PTL
  <2>4. Closed(LeafChain)'
    BY <2>2, <2>3 DEF ChainIsClosed
  <2> QED
    BY <1>7, <1>18, <1>25, <2>1, <2>4 DEF Closed
<1>28. ASSUME b \in LeafChain, NEW j \in 1 .. Len(s) PROVE s[j].key \in Stored'
  <2>1. /\ DOMAIN items = 1 .. at /\ \A i \in 1 .. at : items[i] = s[i]
        /\ DOMAIN Moved(s, at) = 1 .. Len(s) - at
        /\ \A i \in 1 .. Len(s) - at : Moved(s, at)[i] = s[i + at]
    BY <1>10, PartsAre
  <2>2. b \in LeafChain' /\ r \in LeafChain' /\ level = 0
    BY <1>27, <1>28
  <2>3. CASE j \in 1 .. at
    <3>1. j \in DOMAIN pages'[b].items /\ pages'[b].items[j] = s[j]
      BY <1>18, <2>1, <2>3
    <3> QED
      BY <2>2, <3>1 DEF Stored
  <2>4. CASE j \notin 1 .. at
    <3>1. j - at \in 1 .. Len(s) - at /\ (j - at) + at = j
      BY <1>6, <2>4
    <3>2. pages'[r].items = Moved(s, at)
      BY <1>18, <1>19, <2>2
    <3>3. j - at \in DOMAIN pages'[r].items /\ pages'[r].items[j - at] = s[j]
      BY <2>1, <3>1, <3>2
    <3> QED
      BY <2>2, <3>3 DEF Stored
  <2> QED
    BY <2>3, <2>4
<1>29. Len(s) = Len(pages[b].items) + 1
  BY <1>2, <1>3, <1>5 DEF PlacedWell
<1>30. Stored \subseteq Stored'
  <2>1. ASSUME b \in LeafChain, NEW i \in DOMAIN pages[b].items
        PROVE  pages[b].items[i].key \in Stored'
    <3>1. \E j \in 1 .. Len(s) : s[j] = pages[b].items[i]
      BY <1>2, <1>3, <1>5, <1>7, <1>29 DEF PlacedWell
    <3> QED
      BY <1>28, <2>1, <3>1
  <2> QED
    BY <1>1, <1>20, <1>25, <2>1, ChainIs, StoredGrows DEF ChainIsClosed
<1>31. AckedIsStored'
  BY <1>1, <1>15, <1>24, <1>30, AckedStays
<1>32. ins.entry \in Stored'
  <2>1. CASE level = 0
    <3>1. ins.item = LeafItem(ins.entry) /\ b \in LeafChain
      BY <1>1, <1>3, <1>8, <2>1 DEF ToPlace
    <3>2. \E j \in 1 .. Len(s) : s[j] = ins.item
      BY <1>2, <1>3, <1>5, <1>29 DEF PlacedWell
    <3> QED
      BY <1>28, <3>1, <3>2 DEF LeafItem
  <2>2. CASE level # 0
    BY <1>1, <1>3, <1>8, <1>30, <2>2 DEF ToPlace
  <2> QED
    BY <2>1, <2>2
<1>33. OnPath'
  <2>1. ins.blk # x /\ \A l \in 1 .. meta.level : ins.path[l] # x
    BY <1>1, <1>17 DEF OnPath
  <2> QED
    BY <1>1, <1>16, <1>21, <2>1, PathKept
<1>34. IsSplit'
  <2>1. level = 0 => r \in LeafChain'
    BY <1>1, <1>3, <1>8, <1>27 DEF ToPlace
  <2>2. ins'.blk = b /\ ins'.right = r /\ ins'.entry = ins.entry /\ r \in Blocks'
    BY <1>3, <1>4, <1>14, <1>16
  <2> QED
    BY <1>18, <1>19, <1>32, <1>33, <2>1, <2>2 DEF IsSplit
<1>35. InsInv'
  BY <1>16, <1>34 DEF InsInv
<1> QED
  BY <1>24, <1>26, <1>31, <1>35 DEF IndInv

LEMMA DownlinkIs ==
    ASSUME NEW k \in Keys, NEW c \in Nat
    PROVE  /\ Downlink(k, c) \in Items
           /\ Downlink(k, c).key = k /\ Downlink(k, c).child = c
<1> QED
  BY DEF Downlink, Items

LEMMA LinkSiblingStep == IndInv /\ LinkSibling => IndInv'
<1> SUFFICES ASSUME IndInv, LinkSibling PROVE IndInv'
  OBVIOUS
<1>1. /\ Shape /\ ChainInv /\ TypeInv /\ OnPath /\ acked \subseteq Stored /\ IsSplit
      /\ ins.blk \in Blocks /\ meta.root # None /\ ins \in Inserts
  BY DEF IndInv, Shape, TypeInv, InsInv, LinkSibling, AckedIsStored, IsSplit, OnPath
<1>2. PICK b \in Blocks : b = ins.blk
  BY <1>1
<1>3. PICK r \in Blocks : r = ins.right
  BY <1>1 DEF IsSplit
<1>4. /\ r \in Nat /\ pages[b].level \in Nat /\ pages[b].high \in Entries
      /\ pages[r].next \in Nat /\ pages[r].level = pages[b].level /\ PageInv(r)
  BY <1>1, <1>2, <1>3, PageTypes DEF IsSplit, Shape
<1>5. PICK level \in Nat : level = pages[b].level
  BY <1>4
<1>6. /\ pages' \in Seq(Pages) /\ Blocks' = Blocks
      /\ \A c \in Blocks : SamePage(c) /\ pages'[c].high = pages[c].high
  <2>1. CASE pages[r].next = None
    <3>1. pages' = pages
      BY <1>3, <2>1 DEF LinkSibling
    <3> QED
      BY <1>1, <3>1 DEF SamePage, Blocks, TypeInv
  <2>2. CASE pages[r].next # None
    <3>1. PICK a \in Blocks : a = pages[r].next
      BY <1>4, <2>2 DEF PageInv
    <3> DEFINE q == [pages[a] EXCEPT !.prev = r]
    <3>2. pages' = [pages EXCEPT ![a] = q]
      BY <1>3, <2>2, <3>1 DEF LinkSibling
    <3>3. /\ q \in Pages /\ q.level = pages[a].level /\ q.next = pages[a].next
          /\ q.items = pages[a].items /\ q.high = pages[a].high
      BY <1>1, <1>4, PageTypes DEF Pages
    <3> HIDE DEF q
    <3>4. /\ pages' \in Seq(Pages) /\ Blocks' = Blocks
          /\ pages'[a] = q /\ \A c \in Blocks : c # a => pages'[c] = pages[c]
      BY <1>1, <3>2, <3>3, PageWritten
    <3> QED
      BY <3>3, <3>4 DEF SamePage
  <2> QED
    BY <2>1, <2>2
<1>7. /\ meta' = meta /\ tried' = tried /\ acked' = acked
      /\ ins' = IF level + 1 > Len(ins.path) THEN [ins EXCEPT !.pc = "newroot"]
                ELSE [ins EXCEPT !.pc = "place", !.blk = ins.path[level + 1],
                                 !.item = Downlink(pages[b].high, r)]
  BY <1>2, <1>3, <1>5 DEF LinkSibling
<1>8. PICK x \in Nat : NotLed(x) /\ x \notin Blocks
  BY <1>1, FreshNotLed
<1>9. Grows(x)
  BY <1>6, <1>7 DEF Grows, SamePage
<1>10. /\ Len(ins.path) = meta.level /\ meta.level \in Nat /\ level <= meta.level
       /\ (level = meta.level => b = meta.root)
       /\ \A l \in 1 .. meta.level : ins.path[l] \in Blocks /\ pages[ins.path[l]].level = l
       /\ meta.level > 0 => ins.path[meta.level] = meta.root
  BY <1>1, <1>2, <1>5 DEF OnPath, TypeInv
<1>11. CASE level + 1 > Len(ins.path)
  <2>1. /\ ins' \in Inserts /\ ins'.pc = "newroot" /\ ins'.blk = b /\ ins'.right = r
        /\ ins'.entry = ins.entry /\ ins'.path = ins.path
    BY <1>1, <1>2, <1>3, <1>7, <1>11 DEF Inserts
  <2>2. b = meta.root
    BY <1>10, <1>11
  <2>3. TypeInv'
    BY <1>1, <1>6, <1>7, <2>1 DEF TypeInv
  <2>4. Shape'
    BY <1>1, <1>6, <1>7, <1>8, <1>9, <2>3, ShapeGrows
  <2>5. LeafChain \subseteq LeafChain'
    BY <1>1, <1>8, <1>9, <2>4, ChainGrows
  <2>6. ChainInv'
    BY <1>1, <1>6, <2>5, InKept
  <2>7. Stored \subseteq Stored'
    BY <1>1, <1>6, <2>5, ChainIs, StoredGrows DEF ChainIsClosed
  <2>8. AckedIsStored'
    BY <1>1, <1>7, <2>4, <2>7, AckedStays
  <2>9. OnPath'
    <3>1. ins.blk # x /\ \A l \in 1 .. meta.level : ins.path[l] # x
      BY <1>1, <1>8, <1>10
    <3> QED
      BY <1>1, <1>2, <1>9, <2>1, <3>1, PathKept
  <2>10. IsSplit'
    <3>1. /\ pages'[r].level = pages'[b].level /\ pages'[b].high \in Entries
          /\ pages'[b].level = 0 => r \in LeafChain'
      BY <1>1, <1>2, <1>3, <1>4, <1>6, <2>5 DEF IsSplit, SamePage
    <3>2. ins.entry \in Stored'
      BY <1>1, <2>7 DEF IsSplit
    <3> QED
      BY <1>6, <2>1, <2>9, <3>1, <3>2 DEF IsSplit
  <2>11. InsInv'
    BY <1>7, <2>1, <2>2, <2>10 DEF InsInv
  <2> QED
    BY <2>4, <2>6, <2>8, <2>11 DEF IndInv
<1>12. CASE ~(level + 1 > Len(ins.path))
  <2>1. level + 1 \in 1 .. meta.level /\ level + 1 > 0 /\ level + 1 # 0
    BY <1>10, <1>12
  <2>2. PICK p \in Blocks : p = ins.path[level + 1] /\ pages[p].level = level + 1
    BY <1>10, <2>1
  <2>3. PICK item \in Items : /\ item = Downlink(pages[b].high, r)
                              /\ item.key = pages[b].high /\ item.child = r
    <3>1. pages[b].high \in Keys
      BY <1>4 DEF Keys
    <3> QED
      BY <1>4, <3>1, DownlinkIs
  <2>4. /\ ins' \in Inserts /\ ins'.pc = "place" /\ ins'.blk = p /\ ins'.item = item
        /\ ins'.entry = ins.entry /\ ins'.path = ins.path
    <3>1. p \in Nat
      BY <1>1, PageTypes
    <3>2. ins' = [ins EXCEPT !.pc = "place", !.blk = p, !.item = item]
      BY <1>7, <1>12, <2>2, <2>3
    <3> QED
      BY <1>1, <3>1, <3>2 DEF Inserts
  <2>5. TypeInv'
    BY <1>1, <1>6, <1>7, <2>4 DEF TypeInv
  <2>6. Shape'
    BY <1>1, <1>6, <1>7, <1>8, <1>9, <2>5, ShapeGrows
  <2>7. LeafChain \subseteq LeafChain'
    BY <1>1, <1>8, <1>9, <2>6, ChainGrows
  <2>8. ChainInv'
    BY <1>1, <1>6, <2>7, InKept
  <2>9. Stored \subseteq Stored'
    BY <1>1, <1>6, <2>7, ChainIs, StoredGrows DEF ChainIsClosed
  <2>10. AckedIsStored'
    BY <1>1, <1>7, <2>6, <2>9, AckedStays
  <2>11. \A c \in Blocks : pages'[c].level = pages[c].level
    BY <1>6 DEF SamePage
  <2>12. OnPath'
    <3>1. ins.entry \in tried'
      BY <1>1, <1>7 DEF OnPath
    <3>2. level + 1 <= meta.level /\ (level + 1 = meta.level => p = meta.root)
      BY <1>10, <2>1, <2>2
    <3>3. pages'[p].level = level + 1
      BY <2>2, <2>11
    <3>4. \A l \in 1 .. meta.level : ins.path[l] \in Blocks /\ pages'[ins.path[l]].level = l
      BY <1>10, <2>11
    <3> QED
      BY <1>1, <1>6, <1>7, <1>10, <2>4, <3>1, <3>2, <3>3, <3>4 DEF OnPath
  <2>13. ToPlace'
    <3>1. pages'[p].level = level + 1 /\ pages'[r].level = level
      BY <1>4, <1>5, <2>2, <2>11
    <3>2. LeadsDown(item, level + 1)'
      BY <1>6, <2>3, <3>1 DEF LeadsDown
    <3>3. level + 1 = 1 => r \in LeafChain'
      BY <1>1, <1>2, <1>3, <1>5, <2>7 DEF IsSplit
    <3>4. LeadsIn(item, level + 1)'
      BY <2>3, <3>3 DEF LeadsIn
    <3>5. LeadsDown(ins.item, pages[ins.blk].level)' /\ LeadsIn(ins.item, pages[ins.blk].level)'
      BY <2>4, <3>1, <3>2, <3>4 DEF LeadsDown, LeadsIn
    <3>6. ins.entry \in Stored' /\ item.key \in Entries
      BY <1>1, <1>4, <2>3, <2>9 DEF IsSplit
    <3> QED
      BY <2>1, <2>4, <2>12, <3>1, <3>5, <3>6 DEF ToPlace
  <2>14. InsInv'
    BY <2>4, <2>13 DEF InsInv
  <2> QED
    BY <2>6, <2>8, <2>10, <2>14 DEF IndInv
<1> QED
  BY <1>11, <1>12

LEMMA NewRootLeafStep == IndInv /\ NewRootLeaf => IndInv'
<1> SUFFICES ASSUME IndInv, NewRootLeaf PROVE IndInv'
  OBVIOUS
<1>1. /\ Shape /\ ChainInv /\ TypeInv /\ meta.root = None /\ meta.level = 0 /\ acked = {}
      /\ ins \in Inserts /\ ins.entry \in tried /\ ins.entry \in Entries
  BY DEF IndInv, Shape, TypeInv, MetaInv, InsInv, NewRootLeaf
<1>2. PICK x \in Nat : x = Len(pages) + 1 /\ NotLed(x) /\ x \notin Blocks
  BY <1>1, FreshNotLed
<1>3. PICK e \in Entries : e = ins.entry
  BY <1>1
<1> DEFINE it == LeafItem(e)
           items == <<it>>
           q == [NewPage EXCEPT !.root = TRUE, !.items = items]
<1>4. it \in Items /\ it.key = e
  BY DEF LeafItem, Items, Keys, None
<1> HIDE DEF it
<1>5. items \in Seq(Items) /\ DOMAIN items = {1} /\ items[1] = it /\ items # <<>>
  BY <1>4
<1> HIDE DEF items
<1>6. q \in Pages /\ q.items = items /\ q.level = 0 /\ q.next = None
  BY <1>5 DEF NewPage, Pages, None
<1>7. pages' = Append(pages, q)
  BY <1>3 DEF NewRootLeaf, it, items
<1> HIDE DEF q
<1>8. /\ pages' \in Seq(Pages) /\ Blocks' = Blocks \cup {x} /\ Len(pages') = x
      /\ pages'[x] = q /\ \A c \in Blocks : pages'[c] = pages[c]
  BY <1>1, <1>2, <1>6, <1>7, PageAdded
<1>9. /\ meta' = meta /\ tried' = tried /\ acked' = acked
      /\ ins' = [ins EXCEPT !.pc = "meta", !.blk = x]
  BY <1>8 DEF NewRootLeaf
<1>10. /\ ins' \in Inserts /\ ins'.pc = "meta" /\ ins'.blk = x /\ ins'.entry = e
  BY <1>1, <1>2, <1>3, <1>9 DEF Inserts
<1>11. Grows(x) /\ \A c \in Blocks : SamePage(c)
  BY <1>8, <1>9 DEF Grows, SamePage
<1>12. TypeInv'
  BY <1>1, <1>8, <1>9, <1>10 DEF TypeInv
<1>13. PageInv(x)' /\ ItemsIn(pages[x].items, pages[x].level)'
  <2>1. e \in tried'
    BY <1>1, <1>3, <1>9
  <2> QED
    BY <1>4, <1>5, <1>6, <1>8, <2>1 DEF PageInv, ItemsInv, ItemsIn, LeadsDown, LeadsIn
<1>14. Shape'
  BY <1>1, <1>2, <1>8, <1>9, <1>11, <1>12, <1>13, ShapeGrows
<1>15. LeafChain \subseteq LeafChain'
  BY <1>1, <1>2, <1>11, <1>14, ChainGrows
<1>16. ChainInv'
  BY <1>1, <1>8, <1>11, <1>13, <1>15, InKept
<1>17. AckedIsStored'
  BY <1>1, <1>9, <1>14, AckedStays
<1>18. InsInv'
  <2>1. RootReady'
    BY <1>1, <1>3, <1>4, <1>5, <1>6, <1>8, <1>9, <1>10 DEF RootReady
  <2> QED
    BY <1>10, <2>1 DEF InsInv
<1> QED
  BY <1>14, <1>16, <1>17, <1>18 DEF IndInv

LEMMA RootPageIs ==
    ASSUME NEW l \in Nat, NEW s \in Seq(Items)
    PROVE  LET q == [NewPage EXCEPT !.level = l, !.root = TRUE, !.items = s] IN
           q \in Pages /\ q.items = s /\ q.level = l /\ q.next = None
<1>1. NewPage \in Pages /\ NewPage.next = None
  BY EmptySeq DEF NewPage, Pages, None
<1> QED
  BY <1>1 DEF Pages

LEMMA NewRootStep == IndInv /\ NewRoot => IndInv'
<1> SUFFICES ASSUME IndInv, NewRoot PROVE IndInv'
  OBVIOUS
<1>1. /\ Shape /\ ChainInv /\ TypeInv /\ OnPath /\ acked \subseteq Stored /\ IsSplit
      /\ ins.blk \in Blocks /\ meta.root # None /\ ins \in Inserts /\ ins.blk = meta.root
      /\ pages[meta.root].level = meta.level /\ meta.level \in Nat
  BY DEF IndInv, Shape, TypeInv, MetaInv, InsInv, NewRoot, AckedIsStored, IsSplit, OnPath
<1>2. PICK x \in Nat : x = Len(pages) + 1 /\ NotLed(x) /\ x \notin Blocks
  BY <1>1, FreshNotLed
<1>3. PICK b \in Blocks : b = ins.blk
  BY <1>1
<1>4. PICK r \in Blocks : r = ins.right
  BY <1>1 DEF IsSplit
<1>5. PICK level \in Nat : level = meta.level
  BY <1>1
<1>6. PICK high \in Entries : high = pages[b].high
  BY <1>1, <1>3 DEF IsSplit
<1>7. b \in Nat /\ r \in Nat /\ pages[b].level = level /\ pages[r].level = level
  BY <1>1, <1>3, <1>4, <1>5, PageTypes DEF IsSplit
<1> DEFINE left  == Downlink(MinusInf, b)
           right == Downlink(high, r)
           items == <<left, right>>
           q == [NewPage EXCEPT !.level = level + 1, !.root = TRUE, !.items = items]
<1>8. /\ left \in Items /\ left.key = MinusInf /\ left.child = b
      /\ right \in Items /\ right.key = high /\ right.child = r
  <2>1. MinusInf \in Keys /\ high \in Keys
    BY DEF Keys
  <2> QED
    BY <1>7, <2>1, DownlinkIs
<1> HIDE DEF left, right
<1>9. /\ items \in Seq(Items) /\ DOMAIN items = {1, 2} /\ items # <<>>
      /\ items[1] = left /\ items[2] = right
  BY <1>8
<1> HIDE DEF items
<1>10. q \in Pages /\ q.items = items /\ q.level = level + 1 /\ q.next = None
  <2>1. level + 1 \in Nat
    OBVIOUS
  <2> QED
    BY <1>9, <2>1, RootPageIs
<1>11. pages' = Append(pages, q)
  BY <1>3, <1>4, <1>6, <1>7 DEF NewRoot, left, right, items
<1> HIDE DEF q
<1>12. /\ pages' \in Seq(Pages) /\ Blocks' = Blocks \cup {x} /\ Len(pages') = x
       /\ pages'[x] = q /\ \A c \in Blocks : pages'[c] = pages[c]
  BY <1>1, <1>2, <1>10, <1>11, PageAdded
<1>13. /\ meta' = meta /\ tried' = tried /\ acked' = acked
       /\ ins' = [ins EXCEPT !.pc = "meta", !.blk = x]
  BY <1>12 DEF NewRoot
<1>14. /\ ins' \in Inserts /\ ins'.pc = "meta" /\ ins'.blk = x /\ ins'.entry = ins.entry
  BY <1>1, <1>2, <1>13 DEF Inserts
<1>15. Grows(x) /\ \A c \in Blocks : SamePage(c)
  BY <1>12, <1>13 DEF Grows, SamePage
<1>16. TypeInv'
  BY <1>1, <1>12, <1>13, <1>14 DEF TypeInv
<1>17. /\ pages'[x].items = items /\ pages'[x].level = level + 1 /\ pages'[x].next = None
       /\ level + 1 \in Nat /\ level + 1 > 0 /\ level + 1 # 0 /\ (level + 1) - 1 = level
  BY <1>10, <1>12
<1>18. PageInv(x)'
  <2>1. b \in Blocks' /\ r \in Blocks' /\ pages'[b].level = level /\ pages'[r].level = level
    BY <1>7, <1>12
  <2> QED
    BY <1>8, <1>9, <1>17, <2>1 DEF PageInv, ItemsInv, LeadsDown
<1>19. Shape'
  BY <1>1, <1>2, <1>12, <1>13, <1>15, <1>16, <1>18, ShapeGrows
<1>20. LeafChain \subseteq LeafChain'
  BY <1>1, <1>2, <1>15, <1>19, ChainGrows
<1>21. level = 0 => b \in LeafChain /\ r \in LeafChain
  <2>1. First \in LeafChain
    BY <1>1, ChainIs DEF ChainIsClosed
  <2>2. level = 0 => First = meta.root
    BY <1>1, <1>5, LeftEndIs DEF LeftEnd, Path, First
  <2> QED
    BY <1>1, <1>3, <1>4, <1>7, <2>1, <2>2 DEF IsSplit
<1>22. ChainInv'
  <2>1. ItemsIn(pages[x].items, pages[x].level)'
    <3>1. level + 1 = 1 => b \in LeafChain' /\ r \in LeafChain'
      BY <1>20, <1>21
    <3> QED
      BY <1>8, <1>9, <1>17, <3>1 DEF ItemsIn, LeadsIn
  <2> QED
    BY <1>1, <1>12, <1>15, <1>20, <2>1, InKept
<1>23. Stored \subseteq Stored'
  BY <1>1, <1>15, <1>20, ChainIs, StoredGrows DEF ChainIsClosed
<1>24. AckedIsStored'
  BY <1>1, <1>13, <1>19, <1>23, AckedStays
<1>25. InsInv'
  <2>1. RootReady'
    <3>1. ins.entry \in tried' /\ ins.entry \in Stored'
      BY <1>1, <1>13, <1>23 DEF OnPath, IsSplit
    <3>2. pages'[x].items[1].child = meta.root
      BY <1>1, <1>3, <1>8, <1>9, <1>17
    <3> QED
      BY <1>1, <1>5, <1>12, <1>13, <1>14, <1>17, <3>1, <3>2 DEF RootReady
  <2> QED
    BY <1>14, <2>1 DEF InsInv
<1> QED
  BY <1>19, <1>22, <1>24, <1>25 DEF IndInv

\* The metapage is written last: a root above the old one leads to the same
\* chain, the first leaf is all of it.
LEMMA WriteMetaStep == IndInv /\ WriteMeta => IndInv'
<1> SUFFICES ASSUME IndInv, WriteMeta PROVE IndInv'
  OBVIOUS
<1>1. /\ Shape /\ ChainInv /\ TypeInv /\ MetaInv /\ acked \subseteq Stored /\ RootReady
      /\ ins.blk \in Blocks /\ meta.level \in Nat
  BY DEF IndInv, Shape, TypeInv, InsInv, WriteMeta, AckedIsStored, RootReady
<1>2. PICK b \in Blocks : b = ins.blk
  BY <1>1
<1>3. PICK level \in Nat : level = pages[b].level
  BY <1>1, PageTypes
<1>4. b \in Nat /\ b # None
  BY <1>1, PageTypes
<1>5. /\ pages' = pages /\ tried' = tried /\ acked' = acked \cup {ins.entry}
      /\ meta' = [root |-> b, level |-> level] /\ ins' = NoInsert
  BY <1>2, <1>3 DEF WriteMeta
<1>6. Blocks' = Blocks /\ \A c \in Blocks : SamePage(c)
  BY <1>5 DEF SamePage, Blocks
<1>7. meta'.root = b /\ meta'.level = level /\ meta'.root # None /\ meta'.level \in Nat
  BY <1>4, <1>5
<1>8. Shape'
  <2>1. TypeInv'
    <3>1. NoInsert \in Inserts
      BY EmptySeq DEF NoInsert, Inserts, LeafItem, Items, Keys, None
    <3> QED
      BY <1>1, <1>4, <1>5, <3>1 DEF TypeInv
  <2>2. MetaInv'
    BY <1>3, <1>5, <1>6, <1>7 DEF MetaInv
  <2>3. ASSUME NEW c \in Blocks PROVE PageInv(c)'
    BY <1>1, <1>5, <1>6 DEF Shape, PageInv, ItemsInv, LeadsDown
  <2> QED
    BY <1>6, <2>1, <2>2, <2>3 DEF Shape
<1>9. LeftEnd' /\ ChainIsClosed'
  BY <1>8, LeftEndIs, ChainIs, PTL
<1>10. LeafChain \subseteq LeafChain'
  <2> SUFFICES ASSUME meta.root # None PROVE LeafChain \subseteq LeafChain'
    BY DEF LeafChain
  <2>1. /\ level = meta.level + 1 /\ pages[b].items[1].child = meta.root
        /\ meta.level <= meta'.level /\ meta.level \in 0 .. meta'.level
        /\ meta.level # meta'.level /\ meta.level + 1 = meta'.level
    BY <1>1, <1>2, <1>3, <1>7 DEF RootReady
  <2>2. LeftEnd /\ ChainIsClosed
    BY <1>1, LeftEndIs, ChainIs
  <2>3. Descend(MinusInf)'[meta.level] = meta.root
    <3>1. Descend(MinusInf)'[meta.level + 1] = b
      BY <1>7, <1>9, <2>1 DEF LeftEnd, Path
    <3>2. Descend(MinusInf)'[meta.level]
              = pages'[Descend(MinusInf)'[meta.level + 1]].items[1].child
      BY <1>7, <1>9, <2>1 DEF LeftEnd
    <3> QED
      BY <1>5, <2>1, <3>1, <3>2
  <2>4. \A l \in 0 .. meta.level : l > 0 =>
            pages'[Descend(MinusInf)[l]].items[1].child
                = pages[Descend(MinusInf)[l]].items[1].child
    BY <1>5
  <2>5. \A l \in 0 .. meta.level : Descend(MinusInf)'[l] = Descend(MinusInf)[l]
    BY <1>1, <1>7, <1>9, <2>1, <2>2, <2>3, <2>4, LeftPathStays
  <2>6. First' = First
    <3>1. 0 \in 0 .. meta.level
      BY <1>1
    <3> QED
      BY <2>5, <3>1 DEF First
  <2> DEFINE S == LeafChain \cap LeafChain'
  <2>7. S \in SUBSET Blocks /\ First \in S
    BY <1>7, <1>9, <2>2, <2>6 DEF ChainIsClosed
  <2>8. Closed(S)
    BY <1>5, <1>7, <1>9, <2>2 DEF ChainIsClosed, Closed
  <2> HIDE DEF S
  <2>9. LeafChain \subseteq S
    BY <2>2, <2>7, <2>8 DEF ChainIsClosed
  <2> QED
    BY <2>9 DEF S
<1>11. ChainInv'
  BY <1>1, <1>6, <1>10, InKept
<1>12. Stored \subseteq Stored'
  <2>1. ASSUME NEW c \in LeafChain PROVE SamePage(c)
    <3>1. meta.root # None
      BY <2>1 DEF LeafChain
    <3> QED
      BY <1>1, <1>6, <2>1, <3>1, ChainIs DEF ChainIsClosed
  <2> QED
    BY <1>10, <2>1, StoredGrows
<1>13. ins.entry \in Stored'
  <2>1. CASE meta.root = None
    <3>1. level = 0 /\ pages[b].items # <<>> /\ pages[b].items[1].key = ins.entry
      BY <1>1, <1>2, <1>3, <2>1 DEF RootReady
    <3>2. 1 \in DOMAIN pages[b].items
      <4>1. /\ pages[b].items \in Seq(Items) /\ Len(pages[b].items) \in Nat
            /\ DOMAIN pages[b].items = 1 .. Len(pages[b].items)
        BY <1>1, PageTypes
      <4>2. Len(pages[b].items) # 0
        BY <3>1, <4>1, EmptySeq
      <4> QED
        BY <4>1, <4>2
    <3>3. b \in LeafChain'
      <4>1. First' = b
        BY <1>7, <1>9, <3>1 DEF LeftEnd, Path, First
      <4> QED
        BY <1>7, <1>9, <4>1 DEF ChainIsClosed
    <3> QED
      BY <1>5, <3>1, <3>2, <3>3 DEF Stored
  <2>2. CASE meta.root # None
    BY <1>1, <1>12, <2>2 DEF RootReady
  <2> QED
    BY <2>1, <2>2
<1>14. AckedIsStored'
  BY <1>1, <1>5, <1>8, <1>12, <1>13, AckedStays
<1>15. InsInv'
  BY <1>5 DEF InsInv, NoInsert
<1> QED
  BY <1>8, <1>11, <1>14, <1>15 DEF IndInv

\* The insert comes down the tree to a leaf of the chain.
LEMMA InsertStartStep ==
    ASSUME IndInv, NEW e \in Entries, InsertStart(e)
    PROVE  IndInv'
<1>1. Shape /\ ChainInv /\ TypeInv /\ acked \subseteq Stored /\ meta.level \in Nat
  BY DEF IndInv, Shape, TypeInv, AckedIsStored
<1>2. /\ pages' = pages /\ meta' = meta /\ acked' = acked /\ tried' = tried \cup {e}
  BY DEF InsertStart
<1>3. Blocks' = Blocks /\ \A c \in Blocks : SamePage(c)
  BY <1>2 DEF SamePage, Blocks
<1>4. PICK x \in Nat : NotLed(x) /\ x \notin Blocks
  BY <1>1, FreshNotLed
<1>5. Grows(x)
  BY <1>2, <1>3 DEF Grows, SamePage
<1>6. e \in Keys /\ LeafItem(e) \in Items /\ NoInsert \in Inserts
  BY EmptySeq DEF NoInsert, Inserts, LeafItem, Items, Keys, None
<1>7. ASSUME ins' \in Inserts PROVE Shape' /\ LeafChain \subseteq LeafChain' /\ ChainInv'
                                    /\ Stored \subseteq Stored' /\ AckedIsStored'
  <2>1. TypeInv'
    BY <1>1, <1>2, <1>7 DEF TypeInv
  <2>2. Shape'
    BY <1>1, <1>2, <1>3, <1>4, <1>5, <2>1, ShapeGrows
  <2>3. LeafChain \subseteq LeafChain'
    BY <1>1, <1>4, <1>5, <2>2, ChainGrows
  <2>4. ChainInv'
    BY <1>1, <1>3, <2>3, InKept
  <2>5. Stored \subseteq Stored'
    <3>1. ASSUME NEW c \in LeafChain PROVE SamePage(c)
      <4>1. meta.root # None
        BY <3>1 DEF LeafChain
      <4> QED
        BY <1>1, <1>3, <3>1, <4>1, ChainIs DEF ChainIsClosed
    <3> QED
      BY <2>3, <3>1, StoredGrows
  <2>6. AckedIsStored'
    BY <1>1, <1>2, <2>2, <2>5, AckedStays
  <2> QED
    BY <2>2, <2>3, <2>4, <2>5, <2>6
<1>8. CASE meta.root = None
  <2>1. ins' = [NoInsert EXCEPT !.pc = "rootleaf", !.entry = e]
    BY <1>8 DEF InsertStart
  <2>2. ins' \in Inserts /\ ins'.pc = "rootleaf" /\ ins'.entry = e
    BY <1>6, <2>1 DEF Inserts
  <2>3. InsInv'
    BY <1>2, <1>8, <2>2 DEF InsInv
  <2> QED
    BY <1>7, <2>2, <2>3 DEF IndInv
<1>9. CASE meta.root # None
  <2>1. Path(e)
    BY <1>1, <1>6, <1>9, PathIs
  <2>2. PICK b \in Blocks : b = Descend(e)[0] /\ pages[b].level = 0
    BY <1>1, <2>1 DEF Path
  <2> DEFINE way == [l \in 1 .. meta.level |-> Descend(e)[l]]
  <2>3. /\ way \in Seq(Nat) /\ Len(way) = meta.level
        /\ \A l \in 1 .. meta.level : way[l] \in Blocks /\ pages[way[l]].level = l
        /\ meta.level > 0 => way[meta.level] = meta.root
    <3>1. ASSUME NEW l \in 1 .. meta.level
          PROVE  Descend(e)[l] \in Blocks /\ Descend(e)[l] \in Nat
                 /\ pages[Descend(e)[l]].level = l
      <4>1. l \in 0 .. meta.level
        BY <1>1
      <4> QED
        BY <1>1, <2>1, <4>1, PageTypes DEF Path
    <3>2. way \in [1 .. meta.level -> Nat]
      BY <3>1
    <3>3. way \in Seq(Nat) /\ Len(way) = meta.level
      BY <1>1, <3>2
    <3>4. meta.level > 0 => meta.level \in 1 .. meta.level
      BY <1>1
    <3> QED
      BY <2>1, <3>1, <3>3, <3>4 DEF Path
  <2>4. ins' = [NoInsert EXCEPT !.pc = "place", !.entry = e, !.item = LeafItem(e),
                                !.blk = b, !.path = way]
    BY <1>9, <2>2 DEF InsertStart
  <2> HIDE DEF way
  <2>5. b \in Nat
    BY <1>1, PageTypes
  <2>6. /\ ins' \in Inserts /\ ins'.pc = "place" /\ ins'.entry = e /\ ins'.item = LeafItem(e)
        /\ ins'.blk = b /\ ins'.path = way
    BY <1>6, <2>3, <2>4, <2>5 DEF Inserts
  <2>7. b \in LeafChain
    <3>1. CASE meta.level = 0
      <4>1. First = meta.root /\ b = meta.root
        BY <1>1, <1>9, <2>1, <2>2, <3>1, LeftEndIs DEF LeftEnd, Path, First
      <4> QED
        BY <1>1, <1>9, <4>1, ChainIs DEF ChainIsClosed
    <3>2. CASE meta.level # 0
      <4>1. 1 \in 0 .. meta.level /\ 0 \in 0 .. meta.level /\ 0 + 1 = 1
        BY <1>1, <3>2
      <4>2. PICK c \in Blocks : c = Descend(e)[1] /\ pages[c].level = 1
        BY <2>1, <4>1 DEF Path
      <4>3. b = Child(c, e)
        BY <2>1, <2>2, <3>2, <4>1, <4>2 DEF Path
      <4>4. PageInv(c) /\ ItemsIn(pages[c].items, pages[c].level)
        BY <1>1 DEF Shape, ChainInv
      <4>5. \E i \in DOMAIN pages[c].items : Child(c, e) = pages[c].items[i].child
        BY <1>1, <1>6, <4>2, <4>4, ChildIs
      <4> QED
        BY <4>2, <4>3, <4>4, <4>5 DEF ItemsIn, LeadsIn
    <3> QED
      BY <3>1, <3>2
  <2>8. OnPath'
    <3>1. 0 <= meta.level /\ (meta.level = 0 => b = meta.root)
      BY <1>1, <2>1, <2>2 DEF Path
    <3> QED
      BY <1>2, <1>3, <1>9, <2>2, <2>3, <2>6, <3>1 DEF OnPath
  <2>9. ToPlace'
    <3>1. pages'[b].level = 0 /\ LeafItem(e).key = e
      BY <1>2, <2>2 DEF LeafItem
    <3>2. b \in LeafChain'
      BY <1>7, <2>6, <2>7
    <3>3. LeadsDown(ins.item, pages[ins.blk].level)' /\ LeadsIn(ins.item, pages[ins.blk].level)'
      BY <2>6, <3>1 DEF LeadsDown, LeadsIn
    <3> QED
      BY <2>6, <2>8, <3>1, <3>2, <3>3 DEF ToPlace
  <2>10. InsInv'
    BY <2>6, <2>9 DEF InsInv
  <2> QED
    BY <1>7, <2>6, <2>10 DEF IndInv
<1> QED
  BY <1>8, <1>9

\* A failed insert leaves the tree as it is, and so does a scan.
LEMMA SameTree ==
    ASSUME pages' = pages, meta' = meta
    PROVE  Blocks' = Blocks /\ LeafChain' = LeafChain /\ Stored' = Stored
<1>1. Blocks' = Blocks
  BY DEF Blocks
<1>2. Descend(MinusInf)' = Descend(MinusInf)
  BY DEF Descend, Child, LinkPosition
<1>3. LeafChain' = LeafChain
  BY <1>2 DEF LeafChain, After
<1>4. Stored' = Stored
  BY <1>3 DEF Stored
<1> QED
  BY <1>1, <1>3, <1>4

LEMMA SameInv ==
    ASSUME IndInv, pages' = pages, meta' = meta, tried' = tried, acked' = acked,
           ins' \in Inserts
    PROVE  Shape' /\ ChainInv' /\ AckedIsStored'
<1>1. Shape /\ ChainInv /\ AckedIsStored /\ TypeInv
  BY DEF IndInv, Shape
<1>2. Blocks' = Blocks /\ LeafChain' = LeafChain /\ Stored' = Stored
  BY SameTree
<1>3. TypeInv' /\ MetaInv'
  BY <1>1, <1>2 DEF Shape, TypeInv, MetaInv
<1>4. ASSUME NEW b \in Blocks PROVE PageInv(b)'
  BY <1>1, <1>2 DEF Shape, PageInv, ItemsInv, LeadsDown
<1>5. ChainInv' /\ AckedIsStored'
  BY <1>1, <1>2 DEF ChainInv, ItemsIn, LeadsIn, AckedIsStored
<1> QED
  BY <1>2, <1>3, <1>4, <1>5 DEF Shape

LEMMA InsertFailsStep == IndInv /\ InsertFails => IndInv'
<1> SUFFICES ASSUME IndInv, InsertFails PROVE IndInv'
  OBVIOUS
<1>1. /\ pages' = pages /\ meta' = meta /\ tried' = tried /\ acked' = acked
      /\ ins' = NoInsert
  BY DEF InsertFails
<1>2. NoInsert \in Inserts
  BY EmptySeq DEF NoInsert, Inserts, LeafItem, Items, Keys, None
<1>3. Shape' /\ ChainInv' /\ AckedIsStored'
  BY <1>1, <1>2, SameInv
<1>4. InsInv'
  BY <1>1 DEF InsInv, NoInsert
<1> QED
  BY <1>3, <1>4 DEF IndInv

LEMMA ScanStep ==
    ASSUME IndInv, UNCHANGED <<pages, meta, ins, tried, acked>>
    PROVE  IndInv'
<1>1. /\ pages' = pages /\ meta' = meta /\ tried' = tried /\ acked' = acked /\ ins' = ins
      /\ ins \in Inserts /\ InsInv
  BY DEF IndInv, Shape, TypeInv
<1>2. Shape' /\ ChainInv' /\ AckedIsStored'
  BY <1>1, SameInv
<1>3. Blocks' = Blocks /\ LeafChain' = LeafChain /\ Stored' = Stored
  BY <1>1, SameTree
<1>4. Placed' = Placed
  BY <1>1, PlacedSame
<1>5. OnPath' = OnPath
  BY <1>1, <1>3 DEF OnPath
<1>6. ToPlace' = ToPlace
  BY <1>1, <1>3, <1>5 DEF ToPlace, LeadsDown, LeadsIn
<1>7. \A x : NotLed(x)' = NotLed(x)
  BY <1>1, <1>3 DEF NotLed
<1>8. ToSplit' = ToSplit
  BY <1>1, <1>3, <1>4, <1>6, <1>7 DEF ToSplit, NotLed
<1>9. /\ RightWritten' = RightWritten /\ IsSplit' = IsSplit /\ RootReady' = RootReady
  BY <1>1, <1>3, <1>4, <1>5 DEF RightWritten, IsSplit, RootReady
<1>10. InsInv'
  BY <1>1, <1>6, <1>8, <1>9 DEF InsInv
<1> QED
  BY <1>2, <1>10 DEF IndInv

-----------------------------------------------------------------------------
LEMMA InitInv == Init => IndInv
<1> SUFFICES ASSUME Init PROVE IndInv
  OBVIOUS
<1>1. /\ pages = <<>> /\ meta = [root |-> None, level |-> 0] /\ ins = NoInsert
      /\ tried = {} /\ acked = {}
  BY DEF Init
<1>2. /\ <<>> \in Seq(Pages) /\ Blocks = {} /\ meta.root = None /\ meta.level = 0
  BY <1>1, EmptySeq DEF Blocks
<1>3. TypeInv
  <2>1. NoInsert \in Inserts
    BY EmptySeq DEF NoInsert, Inserts, LeafItem, Items, Keys, None
  <2> QED
    BY <1>1, <1>2, <2>1 DEF TypeInv, None
<1>4. Shape /\ ChainInv
  BY <1>1, <1>2, <1>3 DEF Shape, MetaInv, ChainInv
<1>5. LeafChain = {}
  BY <1>2 DEF LeafChain
<1>6. AckedIsStored
  BY <1>1, <1>5 DEF AckedIsStored, Stored
<1>7. InsInv
  BY <1>1 DEF InsInv, NoInsert
<1> QED
  BY <1>4, <1>6, <1>7 DEF IndInv

LEMMA NextInv == IndInv /\ [Next]_vars => IndInv'
<1> SUFFICES ASSUME IndInv, [Next]_vars PROVE IndInv'
  OBVIOUS
<1>1. CASE \E e \in Entries : InsertStart(e)
  BY <1>1, InsertStartStep
<1>2. CASE NewRootLeaf
  BY <1>2, NewRootLeafStep
<1>3. CASE Place
  BY <1>3, PlaceStep
<1>4. CASE NewRight
  BY <1>4, NewRightStep
<1>5. CASE WriteRight
  BY <1>5, WriteRightStep
<1>6. CASE WriteLeft
  BY <1>6, WriteLeftStep
<1>7. CASE LinkSibling
  BY <1>7, LinkSiblingStep
<1>8. CASE NewRoot
  BY <1>8, NewRootStep
<1>9. CASE WriteMeta
  BY <1>9, WriteMetaStep
<1>10. CASE InsertFails
  BY <1>10, InsertFailsStep
<1>11. CASE \/ \E r \in Ranges : ScanStart(r[1], r[2])
            \/ ScanDescend \/ ScanLeaf \/ ScanNext \/ ScanClose
  <2>1. UNCHANGED <<pages, meta, ins, tried, acked>>
    BY <1>11 DEF ScanStart, ScanDescend, ScanLeaf, ScanNext, ScanClose
  <2> QED
    BY <2>1, ScanStep
<1>12. CASE UNCHANGED vars
  <2>1. UNCHANGED <<pages, meta, ins, tried, acked>>
    BY <1>12 DEF vars
  <2> QED
    BY <2>1, ScanStep
<1> QED
  BY <1>1, <1>2, <1>3, <1>4, <1>5, <1>6, <1>7, <1>8, <1>9, <1>10, <1>11, <1>12 DEF Next

\* The invariant of the tree and of the insert under way.
THEOREM Invariance == Spec => []IndInv
<1> QED
  BY InitInv, NextInv, PTL DEF Spec

\* However many keys there are, whatever a page holds and however it splits:
\* at every page write, and after any number of inserts that failed half way,
\* the leaf chain holds every entry whose Insert returned nil, and nothing that
\* was never inserted (btree.go, Insert).
THEOREM AckedAlwaysStored == Spec => []AckedIsStored
<1>1. IndInv => AckedIsStored
  BY DEF IndInv
<1> QED
  BY <1>1, Invariance, PTL

-----------------------------------------------------------------------------
(* The order of the keys.                                                  *)

Bounds == Keys \cup {PlusInf} \cup Lows \cup Highs

LEMMA OrderIs ==
    /\ \A a, b \in Bounds : /\ ~(Less(a, b) /\ Less(b, a))
                            /\ Less(a, b) \/ Less(b, a) \/ a = b
    /\ \A a \in Bounds : ~Less(a, a)
    /\ \A a, b, c \in Bounds : /\ Less(a, b) /\ Less(b, c) => Less(a, c)
                               /\ ~Less(b, a) /\ Less(b, c) => Less(a, c)
                               /\ Less(a, b) /\ ~Less(c, b) => Less(a, c)
                               /\ ~Less(b, a) /\ ~Less(c, b) => ~Less(c, a)
<1>1. ASSUME NEW a \in Bounds
      PROVE  a = <<a[1], a[2]>> /\ a[1] \in Nat /\ a[2] \in Nat
  <2>1. Null \in Nat /\ MaxTid \in Nat
    BY BoundAssumption DEF Null
  <2>2. ASSUME a \in Entries PROVE a = <<a[1], a[2]>> /\ a[1] \in Nat /\ a[2] \in Nat
    BY <2>1, <2>2 DEF Entries
  <2>3. ASSUME a \in (1 .. MaxKey) \X {0, MaxTid + 1}
        PROVE  a = <<a[1], a[2]>> /\ a[1] \in Nat /\ a[2] \in Nat
    BY <2>1, <2>3
  <2> QED
    BY <2>1, <2>2, <2>3 DEF Bounds, Keys, Lows, Highs, MinusInf, PlusInf
<1>2. \A a, b \in Bounds : a[1] = b[1] /\ a[2] = b[2] => a = b
  BY <1>1
<1>3. \A a \in Bounds : a[1] \in Nat /\ a[2] \in Nat
  BY <1>1
<1>4. \A a, b \in Bounds : ~(Less(a, b) /\ Less(b, a)) /\ (Less(a, b) \/ Less(b, a) \/ a = b)
  BY <1>2, <1>3 DEF Less
<1>5. \A a \in Bounds : ~Less(a, a)
  BY <1>3 DEF Less
<1>6. \A a, b, c \in Bounds : /\ Less(a, b) /\ Less(b, c) => Less(a, c)
                              /\ ~Less(b, a) /\ Less(b, c) => Less(a, c)
                              /\ Less(a, b) /\ ~Less(c, b) => Less(a, c)
                              /\ ~Less(b, a) /\ ~Less(c, b) => ~Less(c, a)
  BY <1>3 DEF Less
<1> QED
  BY <1>4, <1>5, <1>6

LEMMA EndsAre ==
    /\ \A e \in Entries : /\ e \in Bounds /\ e \in Keys /\ e # MinusInf
                          /\ Less(MinusInf, e) /\ Less(e, PlusInf)
    /\ MinusInf \in Bounds /\ MinusInf \in Keys /\ PlusInf \in Bounds
    /\ Less(MinusInf, PlusInf) /\ Keys \subseteq Bounds
    /\ \A h \in Bounds : ~Less(PlusInf, h) /\ ~Less(h, MinusInf)
    /\ Lows \subseteq Bounds /\ Highs \subseteq Bounds
<1>1. Null \in Nat
  BY BoundAssumption DEF Null
<1>2. ASSUME NEW e \in Entries PROVE Less(e, PlusInf) /\ ~Less(PlusInf, e)
  <2>1. e[1] \in 1 .. Null
    BY DEF Entries
  <2> QED
    BY <1>1, <2>1 DEF Less, PlusInf
<1>3. Less(MinusInf, PlusInf) /\ ~Less(PlusInf, MinusInf) /\ ~Less(PlusInf, PlusInf)
  BY <1>1 DEF Less, MinusInf, PlusInf
<1>4. ASSUME NEW h \in (1 .. MaxKey) \X {0, MaxTid + 1} PROVE ~Less(PlusInf, h) /\ ~Less(h, MinusInf)
  <2>1. h[1] \in 1 .. MaxKey /\ MaxKey \in Nat
    BY BoundAssumption
  <2> QED
    BY <2>1 DEF Less, PlusInf, MinusInf, Null
<1>5. \A h \in Bounds : ~Less(PlusInf, h) /\ ~Less(h, MinusInf)
  BY <1>2, <1>3, <1>4, KeysAre DEF Bounds, Keys, Lows, Highs
<1> QED
  BY <1>2, <1>3, <1>5, KeysAre DEF Bounds, Keys

-----------------------------------------------------------------------------
(* Items in order.                                                         *)

\* Internal pages start with minus infinity, and no other item does; the high
\* key is above all of them.
InOrder(items, level, high) ==
    /\ items # <<>>
    /\ \A i, j \in 1 .. Len(items) : i < j => Less(items[i].key, items[j].key)
    /\ \A i \in 1 .. Len(items) : /\ Less(items[i].key, high)
                                  /\ (items[i].key = MinusInf) <=> (level > 0 /\ i = 1)

\* The items of a page, and the high key of its left sibling.
Above(items, level, high) ==
    \A i \in 1 .. Len(items) : /\ i > 1 => Less(high, items[i].key)
                               /\ level = 0 => ~Less(items[i].key, high)

LEMMA ItemTypes ==
    ASSUME NEW s \in Seq(Items)
    PROVE  /\ Len(s) \in Nat /\ DOMAIN s = 1 .. Len(s)
           /\ \A i \in 1 .. Len(s) : s[i] \in Items /\ s[i].key \in Keys /\ s[i].key \in Bounds
                                     /\ s[i].child \in Nat
           /\ s # <<>> => Len(s) >= 1
<1>1. Len(s) \in Nat /\ DOMAIN s = 1 .. Len(s)
  BY LenProperties
<1>2. \A i \in 1 .. Len(s) : s[i] \in Items
  BY ElementOfSeq
<1>3. s # <<>> => Len(s) >= 1
  BY <1>1, EmptySeq
<1> QED
  BY <1>1, <1>2, <1>3, EndsAre DEF Items

\* A set that has all numbers below each of its own is the first ones.
LEMMA FirstOnes ==
    ASSUME NEW n \in Nat, NEW S \in SUBSET (1 .. n), \A i \in S : \A j \in 1 .. n : j < i => j \in S
    PROVE  Cardinality(S) \in 0 .. n /\ \A i \in 1 .. n : i \in S <=> i <= Cardinality(S)
<1> DEFINE Out == {m \in 1 .. n + 1 : m \notin S}
<1>1. PICK m \in Out : \A j \in Out : m <= j
  <2>1. n + 1 \in Out /\ Out \in SUBSET Nat
    OBVIOUS
  <2> HIDE DEF Out
  <2> QED
    BY <2>1, SmallestOf
<1>2. m \in 1 .. n + 1 /\ m \notin S
  BY <1>1
<1>3. ASSUME NEW i \in 1 .. n PROVE i \in S <=> i <= m - 1
  <2>1. ASSUME i \in S PROVE i <= m - 1
    BY <1>2, <2>1
  <2>2. ASSUME i <= m - 1, i \notin S PROVE FALSE
    <3>1. i \in Out
      BY <2>2
    <3> QED
      BY <1>1, <1>2, <2>2, <3>1
  <2> QED
    BY <2>1, <2>2
<1>4. S = 1 .. m - 1
  <2>1. ASSUME NEW i \in 1 .. m - 1 PROVE i \in 1 .. n /\ i <= m - 1
    BY <1>2
  <2>2. \A i \in S : i \in 1 .. n /\ i >= 1
    OBVIOUS
  <2>3. \A i \in S : i \in 1 .. m - 1
    BY <1>2, <1>3, <2>2
  <2>4. \A i \in 1 .. m - 1 : i \in S
    BY <1>3, <2>1
  <2> QED
    BY <2>3, <2>4
<1>5. Cardinality(S) = m - 1
  BY <1>2, <1>4, FS_Interval
<1> QED
  BY <1>2, <1>3, <1>5

\* The search in a page in order.
LEMMA PositionIs ==
    ASSUME NEW p \in Pages, InOrder(p.items, p.level, p.high), NEW k \in Bounds
    PROVE  LET n == Len(p.items) IN
           /\ LeafPosition(p, k) \in 1 .. n + 1
           /\ \A i \in 1 .. n : Less(p.items[i].key, k) <=> i < LeafPosition(p, k)
           /\ LinkPosition(p, k) \in 0 .. n
           /\ \A i \in 1 .. n : ~Less(k, p.items[i].key) <=> i <= LinkPosition(p, k)
           /\ p.level > 0 => LinkPosition(p, k) >= 1
<1> DEFINE s == p.items
           n == Len(s)
           below == {i \in DOMAIN s : Less(s[i].key, k)}
           upto  == {i \in DOMAIN s : ~Less(k, s[i].key)}
<1>1. s \in Seq(Items)
  BY DEF Pages
<1>2. /\ n \in Nat /\ DOMAIN s = 1 .. n /\ n >= 1 /\ k \in Bounds
      /\ \A i \in 1 .. n : s[i].key \in Bounds
  BY <1>1, ItemTypes, EndsAre DEF InOrder
<1>3. \A i, j \in 1 .. n : j < i => Less(s[j].key, s[i].key)
  BY DEF InOrder
<1>4. LeafPosition(p, k) = Cardinality(below) + 1 /\ LinkPosition(p, k) = Cardinality(upto)
  BY DEF LeafPosition, LinkPosition
<1>5. below \in SUBSET (1 .. n) /\ \A i \in below : \A j \in 1 .. n : j < i => j \in below
  BY <1>2, <1>3, OrderIs
<1>6. upto \in SUBSET (1 .. n) /\ \A i \in upto : \A j \in 1 .. n : j < i => j \in upto
  BY <1>2, <1>3, OrderIs
<1>7. \A i \in 1 .. n : (i \in below <=> Less(s[i].key, k)) /\ (i \in upto <=> ~Less(k, s[i].key))
  BY <1>2
<1>8. p.level > 0 => 1 \in upto
  BY <1>2, EndsAre DEF InOrder
<1> HIDE DEF below, upto, s, n
<1>9. Cardinality(below) \in 0 .. n /\ \A i \in 1 .. n : i \in below <=> i <= Cardinality(below)
  BY <1>2, <1>5, FirstOnes
<1>10. Cardinality(upto) \in 0 .. n /\ \A i \in 1 .. n : i \in upto <=> i <= Cardinality(upto)
  BY <1>2, <1>6, FirstOnes
<1>11. p.level > 0 => Cardinality(upto) >= 1
  BY <1>2, <1>8, <1>10
<1>12. \A i \in 1 .. n : i <= Cardinality(below) <=> i < Cardinality(below) + 1
  BY <1>2, <1>9
<1> QED
  BY <1>4, <1>2, <1>7, <1>9, <1>10, <1>11, <1>12 DEF s, n

\* An item in its place.
Fits(items, e, pos, level, high) ==
    /\ pos \in 1 .. Len(items) + 1 /\ (level > 0 => pos > 1)
    /\ e.key \in Entries /\ Less(e.key, high)
    /\ \A i \in 1 .. Len(items) : IF i < pos THEN Less(items[i].key, e.key)
                                             ELSE Less(e.key, items[i].key)

LEMMA StaysInOrder ==
    ASSUME NEW s \in Seq(Items), NEW e \in Items, NEW level \in Nat, NEW high \in Bounds, NEW pos,
           InOrder(s, level, high), Fits(s, e, pos, level, high),
           NEW r \in Seq(Items), IsSpliced(r, s, e, pos)
    PROVE  /\ InOrder(r, level, high)
           /\ \A h \in Bounds : Above(s, level, h) /\ ~Less(e.key, h) /\ (level > 0 => Less(h, e.key))
                                   => Above(r, level, h)
<1>1. /\ Len(s) \in Nat /\ Len(s) >= 1 /\ pos \in 1 .. Len(s) + 1
      /\ \A i \in 1 .. Len(s) : s[i].key \in Bounds
      /\ \A i \in 1 .. Len(r) : r[i].key \in Bounds
      /\ e.key \in Bounds /\ e.key # MinusInf /\ Len(r) = Len(s) + 1
  BY ItemTypes, EndsAre DEF InOrder, Fits, IsSpliced
<1> DEFINE n == Len(s)
<1>2. \A i \in 1 .. n + 1 : r[i] = IF i < pos THEN s[i] ELSE IF i = pos THEN e ELSE s[i - 1]
  BY <1>1 DEF IsSpliced
<1>3. ASSUME NEW i \in 1 .. n + 1, NEW j \in 1 .. n + 1, i < j
      PROVE  Less(r[i].key, r[j].key)
  <2>1. CASE j < pos
    <3>1. i \in 1 .. n /\ j \in 1 .. n /\ r[i] = s[i] /\ r[j] = s[j]
      BY <1>1, <1>2, <1>3, <2>1
    <3> QED
      BY <1>3, <3>1 DEF InOrder
  <2>2. CASE j = pos
    <3>1. i \in 1 .. n /\ r[i] = s[i] /\ r[j] = e /\ i < pos
      BY <1>1, <1>2, <1>3, <2>2
    <3> QED
      BY <3>1 DEF Fits
  <2>3. CASE j > pos /\ i = pos
    <3>1. j - 1 \in 1 .. n /\ ~(j - 1 < pos) /\ r[i] = e /\ r[j] = s[j - 1]
      BY <1>1, <1>2, <2>3
    <3> QED
      BY <3>1 DEF Fits
  <2>4. CASE i > pos
    <3>1. i - 1 \in 1 .. n /\ j - 1 \in 1 .. n /\ r[i] = s[i - 1] /\ r[j] = s[j - 1] /\ i - 1 < j - 1
      BY <1>1, <1>2, <1>3, <2>4
    <3> QED
      BY <3>1 DEF InOrder
  <2>5. CASE j > pos /\ i < pos
    <3>1. i \in 1 .. n /\ j - 1 \in 1 .. n /\ r[i] = s[i] /\ r[j] = s[j - 1] /\ i < j - 1
      BY <1>1, <1>2, <1>3, <2>5
    <3> QED
      BY <3>1 DEF InOrder
  <2> QED
    BY <1>1, <2>1, <2>2, <2>3, <2>4, <2>5
<1>4. ASSUME NEW i \in 1 .. n + 1
      PROVE  Less(r[i].key, high) /\ ((r[i].key = MinusInf) <=> (level > 0 /\ i = 1))
  <2>1. CASE i < pos
    <3>1. i \in 1 .. n /\ r[i] = s[i]
      BY <1>1, <1>2, <2>1
    <3> QED
      BY <3>1 DEF InOrder
  <2>2. CASE i = pos
    BY <1>1, <1>2, <2>2 DEF Fits
  <2>3. CASE i > pos
    <3>1. i - 1 \in 1 .. n /\ r[i] = s[i - 1] /\ (level > 0 => i - 1 > 1) /\ i # 1
      BY <1>1, <1>2, <2>3 DEF Fits
    <3> QED
      BY <1>1, <3>1 DEF InOrder
  <2> QED
    BY <1>1, <2>1, <2>2, <2>3
<1>5. r # <<>>
  BY <1>1, EmptySeq
<1>6. ASSUME NEW h \in Bounds, Above(s, level, h), ~Less(e.key, h), level > 0 => Less(h, e.key),
             NEW i \in 1 .. n + 1
      PROVE  (i > 1 => Less(h, r[i].key)) /\ (level = 0 => ~Less(r[i].key, h))
  <2>1. CASE i < pos
    <3>1. i \in 1 .. n /\ r[i] = s[i]
      BY <1>1, <1>2, <2>1
    <3> QED
      BY <1>6, <3>1 DEF Above
  <2>2. CASE i = pos
    <3>1. r[i] = e
      BY <1>2, <2>2
    <3>2. ASSUME i > 1, level = 0 PROVE Less(h, e.key)
      <4>1. 1 \in 1 .. n /\ 1 < pos
        BY <1>1, <2>2, <3>2
      <4>2. ~Less(s[1].key, h) /\ Less(s[1].key, e.key)
        BY <1>6, <3>2, <4>1 DEF Above, Fits
      <4> QED
        BY <1>1, <4>1, <4>2, OrderIs
    <3> QED
      BY <1>6, <3>1, <3>2
  <2>3. CASE i > pos
    <3>1. i - 1 \in 1 .. n /\ r[i] = s[i - 1] /\ ~(i - 1 < pos)
      BY <1>1, <1>2, <2>3
    <3>2. Less(e.key, s[i - 1].key) /\ s[i - 1].key \in Bounds
      BY <1>1, <3>1 DEF Fits
    <3>3. Less(h, s[i - 1].key)
      BY <1>1, <1>6, <3>2, OrderIs
    <3> QED
      BY <3>1, <3>2, <3>3, OrderIs
  <2> QED
    BY <1>1, <2>1, <2>2, <2>3
<1> QED
  BY <1>1, <1>3, <1>4, <1>5, <1>6 DEF InOrder, Above

-----------------------------------------------------------------------------
(* A tree: the pages T of pg, page b with the items it[b].                 *)

TreeTypes(T, pg, it) ==
    /\ None \notin T
    /\ \A b \in T : /\ pg[b].level \in Nat /\ pg[b].high \in Entries \cup {PlusInf}
                    /\ it[b] \in Seq(Items)

\* A page and its right sibling.
Sides(T, pg, it) ==
    \A b \in T :
        /\ InOrder(it[b], pg[b].level, pg[b].high)
        /\ (pg[b].next = None) <=> (pg[b].high = PlusInf)
        /\ pg[b].next # None =>
              /\ pg[b].next \in T /\ pg[pg[b].next].level = pg[b].level
              /\ Above(it[pg[b].next], pg[b].level, pg[b].high)

\* What the i-th downlink of a page promises of the child.
Led(pg, it, b, i) ==
    LET c == it[b][i].child IN
    /\ pg[c].level = pg[b].level - 1
    /\ IF i < Len(it[b])
       THEN pg[c].high = it[b][i + 1].key /\ pg[c].next = it[b][i + 1].child
       ELSE /\ pg[c].high = pg[b].high
            /\ pg[c].next = IF pg[b].next = None THEN None ELSE it[pg[b].next][1].child

Down(T, pg, it) ==
    \A b \in T : pg[b].level > 0 =>
        \A i \in 1 .. Len(it[b]) : it[b][i].child \in T /\ Led(pg, it, b, i)

\* One downlink leads to every page but the topmost.
OneLink(T, pg, it, tops) ==
    /\ \A b \in T : b \notin tops =>
          \E a \in T : pg[a].level > 0 /\ \E i \in 1 .. Len(it[a]) : it[a][i].child = b
    /\ \A a \in T : pg[a].level > 0 => \A i \in 1 .. Len(it[a]) :
          /\ it[a][i].child \notin tops
          /\ \A b \in T : pg[b].level > 0 => \A j \in 1 .. Len(it[b]) :
                it[a][i].child = it[b][j].child => a = b /\ i = j

TreeFits(T, pg, it, tops) ==
    TreeTypes(T, pg, it) /\ Sides(T, pg, it) /\ Down(T, pg, it) /\ OneLink(T, pg, it, tops)

\* The links are what the levels and the items of the pages above the leaves say.
LEMMA SameLinks ==
    ASSUME NEW T, NEW pg, NEW it, NEW pg2, NEW it2, NEW tops, OneLink(T, pg, it, tops),
           \A b \in T : pg2[b].level = pg[b].level /\ (pg[b].level > 0 => it2[b] = it[b])
    PROVE  OneLink(T, pg2, it2, tops)
<1>1. ASSUME NEW b \in T, b \notin tops
      PROVE  \E a \in T : pg2[a].level > 0 /\ \E i \in 1 .. Len(it2[a]) : it2[a][i].child = b
  <2>1. PICK a \in T : pg[a].level > 0 /\ \E i \in 1 .. Len(it[a]) : it[a][i].child = b
    BY <1>1 DEF OneLink
  <2>2. pg2[a].level = pg[a].level /\ it2[a] = it[a]
    BY <2>1
  <2> QED
    BY <2>1, <2>2
<1>2. ASSUME NEW a \in T, pg2[a].level > 0, NEW i \in 1 .. Len(it2[a])
      PROVE  /\ it2[a][i].child \notin tops
             /\ \A b \in T : pg2[b].level > 0 => \A j \in 1 .. Len(it2[b]) :
                    it2[a][i].child = it2[b][j].child => a = b /\ i = j
  <2>1. pg[a].level > 0 /\ it2[a] = it[a]
    BY <1>2
  <2>2. it2[a][i].child \notin tops
    BY <1>2, <2>1 DEF OneLink
  <2>3. ASSUME NEW b \in T, pg2[b].level > 0, NEW j \in 1 .. Len(it2[b]),
               it2[a][i].child = it2[b][j].child
        PROVE  a = b /\ i = j
    <3>1. pg[b].level > 0 /\ it2[b] = it[b]
      BY <2>3
    <3>2. it[a][i].child = it[b][j].child
      BY <2>1, <2>3, <3>1
    <3> QED
      BY <1>2, <2>1, <2>3, <3>1, <3>2 DEF OneLink
  <2> QED
    BY <2>2, <2>3
<1> QED
  BY <1>1, <1>2 DEF OneLink

-----------------------------------------------------------------------------
(* A leaf takes an entry.                                                  *)

Takes(T, pg, it, it2, x, e, pos) ==
    /\ x \in T /\ pg[x].level = 0 /\ Fits(it[x], e, pos, 0, pg[x].high)
    /\ \A b \in T : pg[b].next = x => ~Less(e.key, pg[b].high)
    /\ it2[x] \in Seq(Items) /\ IsSpliced(it2[x], it[x], e, pos)
    /\ \A b \in T : b # x => it2[b] = it[b]

LEMMA LeafTakes ==
    ASSUME NEW T, NEW pg, NEW it, NEW it2, NEW tops, TreeFits(T, pg, it, tops),
           NEW x, NEW e \in Items, NEW pos, Takes(T, pg, it, it2, x, e, pos)
    PROVE  TreeFits(T, pg, it2, tops)
<1> USE DEF Takes
<1>1. TreeTypes(T, pg, it2)
  BY DEF TreeFits, TreeTypes
<1>2. /\ it[x] \in Seq(Items) /\ \A b \in T : pg[b].high \in Bounds
      /\ InOrder(it[x], 0, pg[x].high) /\ 0 \in Nat
  BY EndsAre DEF TreeFits, TreeTypes, Sides
<1>3. /\ InOrder(it2[x], 0, pg[x].high)
      /\ \A h \in Bounds : Above(it[x], 0, h) /\ ~Less(e.key, h) /\ (0 > 0 => Less(h, e.key))
                              => Above(it2[x], 0, h)
  BY <1>2, StaysInOrder
<1>4. Sides(T, pg, it2)
  BY <1>2, <1>3 DEF TreeFits, Sides
<1>5. \A b \in T : pg[b].level > 0 => it2[b] = it[b]
  OBVIOUS
<1>6. \A b \in T : pg[b].level > 0 /\ pg[b].next # None => it2[pg[b].next] = it[pg[b].next]
  BY DEF TreeFits, Sides
<1> HIDE DEF Takes
<1>7. Down(T, pg, it2)
  BY <1>5, <1>6 DEF TreeFits, Down, Led
<1>8. OneLink(T, pg, it2, tops)
  <2>1. OneLink(T, pg, it, tops) /\ \A b \in T : pg[b].level > 0 => it2[b] = it[b]
    BY <1>5 DEF TreeFits
  <2> QED
    BY ONLY <2>1, SameLinks
<1> QED
  BY <1>1, <1>4, <1>7, <1>8 DEF TreeFits

-----------------------------------------------------------------------------
(* A page x is split: its items from at + 1 on go to the new page y.       *)

SplitIn(T, pg, it, pg2, it2, x, y, at) ==
    LET n == Len(it[x]) IN
    /\ x \in T /\ y \notin T /\ y # None /\ at \in 1 .. n - 1
    /\ \A b \in T : b # x => pg2[b].next = pg[b].next /\ pg2[b].high = pg[b].high
    /\ \A b \in T : pg2[b].level = pg[b].level
    /\ pg2[x].next = y /\ pg2[x].high = it[x][at + 1].key
    /\ pg2[y].level = pg[x].level /\ pg2[y].next = pg[x].next /\ pg2[y].high = pg[x].high
    /\ it2[x] \in Seq(Items) /\ Len(it2[x]) = at /\ \A i \in 1 .. at : it2[x][i] = it[x][i]
    /\ it2[y] \in Seq(Items) /\ Len(it2[y]) = n - at
    /\ \A i \in 1 .. n - at :
          /\ it2[y][i].child = it[x][at + i].child
          /\ it2[y][i].key = IF pg[x].level > 0 /\ i = 1 THEN MinusInf ELSE it[x][at + i].key

\* The parent p, whose k-th downlink led to x, gets one to y.
LinkedIn(T, pg, it, pg2, it2, x, y, p, k) ==
    /\ p \in T /\ pg[p].level = pg[x].level + 1
    /\ k \in 1 .. Len(it[p]) /\ it[p][k].child = x
    /\ it2[p] \in Seq(Items) /\ IsSpliced(it2[p], it[p], Downlink(pg2[x].high, y), k + 1)

LEMMA SeparatorFits ==
    ASSUME NEW T, NEW pg, NEW it, NEW pg2, NEW it2, NEW tops, TreeFits(T, pg, it, tops),
           NEW x, NEW y \in Nat, NEW at, SplitIn(T, pg, it, pg2, it2, x, y, at),
           NEW p, NEW k, LinkedIn(T, pg, it, pg2, it2, x, y, p, k)
    PROVE  LET e == Downlink(pg2[x].high, y) IN
           /\ e \in Items /\ Fits(it[p], e, k + 1, pg[p].level, pg[p].high)
           /\ \A b \in T : pg[b].next = p => Less(pg[b].high, e.key)
<1> DEFINE n == Len(it[x])
           m == Len(it[p])
           sep == it[x][at + 1].key
<1>1. /\ x \in T /\ p \in T /\ pg[x].level \in Nat /\ pg[p].level = pg[x].level + 1 /\ pg[p].level > 0
      /\ it[x] \in Seq(Items) /\ it[p] \in Seq(Items) /\ \A b \in T : pg[b].high \in Bounds
  <2>1. TreeTypes(T, pg, it)
    BY DEF TreeFits
  <2>2. x \in T /\ p \in T /\ pg[p].level = pg[x].level + 1
    BY DEF SplitIn, LinkedIn
  <2> QED
    BY <2>1, <2>2, EndsAre DEF TreeTypes
<1>2. /\ n \in Nat /\ m \in Nat /\ at + 1 \in 1 .. n /\ at + 1 > 1 /\ k \in 1 .. m
      /\ sep \in Keys /\ sep \in Bounds /\ \A i \in 1 .. m : it[p][i].key \in Bounds
  <2>1. at \in 1 .. n - 1 /\ k \in 1 .. m
    BY DEF SplitIn, LinkedIn
  <2>2. n \in Nat /\ \A i \in 1 .. n : it[x][i].key \in Keys /\ it[x][i].key \in Bounds
    BY <1>1, ItemTypes
  <2>3. m \in Nat /\ \A i \in 1 .. m : it[p][i].key \in Bounds
    BY <1>1, ItemTypes
  <2> HIDE DEF n, m
  <2>4. at + 1 \in 1 .. n /\ at + 1 > 1
    BY <2>1, <2>2
  <2> QED
    BY <2>1, <2>2, <2>3, <2>4
<1>3. /\ InOrder(it[x], pg[x].level, pg[x].high) /\ InOrder(it[p], pg[p].level, pg[p].high)
  BY <1>1 DEF TreeFits, Sides
<1>4. Less(sep, pg[x].high) /\ sep # MinusInf /\ sep \in Entries
  BY <1>2, <1>3 DEF InOrder, Keys
<1>5. it[p][k].child = x /\ Led(pg, it, p, k)
  BY <1>1, <1>2 DEF TreeFits, Down, LinkedIn
<1>6. ASSUME NEW i \in 1 .. m, i > k PROVE Less(sep, it[p][i].key)
  <2>1. k + 1 \in 1 .. m /\ pg[x].high = it[p][k + 1].key /\ (i = k + 1 \/ k + 1 < i)
    BY <1>2, <1>5, <1>6 DEF Led
  <2>2. i # k + 1 => Less(it[p][k + 1].key, it[p][i].key)
    BY <1>3, <2>1 DEF InOrder
  <2> QED
    BY <1>2, <1>4, <2>1, <2>2, OrderIs
<1>7. Less(sep, pg[p].high)
  <2>1. CASE k < m
    <3>1. k + 1 \in 1 .. m /\ k + 1 > k
      BY <1>2, <2>1
    <3>2. Less(it[p][k + 1].key, pg[p].high)
      BY <1>3, <3>1 DEF InOrder
    <3> QED
      BY <1>1, <1>2, <1>6, <3>1, <3>2, OrderIs
  <2>2. CASE ~(k < m)
    BY <1>4, <1>5, <2>2 DEF Led
  <2> QED
    BY <2>1, <2>2
<1>8. ASSUME k # 1 PROVE Less(it[p][k].key, sep)
  <2>1. k - 1 \in 1 .. m /\ k - 1 < m /\ (k - 1) + 1 = k
    BY <1>2, <1>8
  <2>2. PICK d \in T : d = it[p][k - 1].child /\ Led(pg, it, p, k - 1)
    BY <1>1, <2>1 DEF TreeFits, Down
  <2>3. pg[d].high = it[p][k].key /\ pg[d].next = x /\ pg[d].level = pg[x].level
    BY <1>1, <1>5, <2>1, <2>2 DEF Led
  <2>4. x # None
    BY <1>1 DEF TreeFits, TreeTypes
  <2>5. Above(it[x], pg[x].level, pg[d].high)
    BY <2>2, <2>3, <2>4 DEF TreeFits, Sides
  <2> QED
    BY <1>2, <2>3, <2>5 DEF Above
<1>9. ASSUME NEW i \in 1 .. m, i <= k PROVE Less(it[p][i].key, sep)
  <2>1. CASE i = 1
    <3>1. it[p][1].key = MinusInf
      BY <1>1, <1>3, <2>1 DEF InOrder
    <3> QED
      BY <1>4, <2>1, <3>1, EndsAre
  <2>2. CASE i = k
    BY <1>8, <2>1, <2>2
  <2>3. CASE i # k /\ i # 1
    <3>1. i < k /\ k # 1
      BY <1>2, <1>9, <2>3
    <3>2. Less(it[p][i].key, it[p][k].key)
      BY <1>2, <1>3, <3>1 DEF InOrder
    <3> QED
      BY <1>2, <1>8, <3>1, <3>2, OrderIs
  <2> QED
    BY <2>1, <2>2, <2>3
<1>10. ASSUME NEW b \in T, pg[b].next = p PROVE Less(pg[b].high, sep)
  <2>1. /\ p # None /\ pg[b].level = pg[p].level /\ Above(it[p], pg[b].level, pg[b].high)
        /\ it[b] # <<>>
    BY <1>1, <1>10 DEF TreeFits, TreeTypes, Sides, InOrder
  <2>2. CASE k # 1
    <3>1. Less(pg[b].high, it[p][k].key)
      BY <1>2, <2>1, <2>2 DEF Above
    <3> QED
      BY <1>1, <1>2, <1>8, <2>2, <3>1, OrderIs
  <2>3. CASE k = 1
    <3>1. it[b] \in Seq(Items) /\ Len(it[b]) \in 1 .. Len(it[b]) /\ ~(Len(it[b]) < Len(it[b]))
      <4>1. it[b] \in Seq(Items)
        BY DEF TreeFits, TreeTypes
      <4> QED
        BY <2>1, <4>1, ItemTypes
    <3>2. PICK d \in T : d = it[b][Len(it[b])].child /\ Led(pg, it, b, Len(it[b]))
      BY <1>1, <2>1, <3>1 DEF TreeFits, Down
    <3>3. pg[d].high = pg[b].high /\ pg[d].next = x /\ pg[d].level = pg[x].level
      BY <1>1, <1>5, <1>10, <2>1, <2>3, <3>1, <3>2 DEF Led
    <3>4. x # None
      BY <1>1 DEF TreeFits, TreeTypes
    <3>5. Above(it[x], pg[x].level, pg[d].high)
      BY <3>2, <3>3, <3>4 DEF TreeFits, Sides
    <3> QED
      BY <1>2, <3>3, <3>5 DEF Above
  <2> QED
    BY <2>2, <2>3
<1> DEFINE e == Downlink(pg2[x].high, y)
<1>11. e \in Items /\ e.key = sep
  BY <1>2 DEF SplitIn, Downlink, Items
<1> HIDE DEF e, sep
<1>12. Fits(it[p], e, k + 1, pg[p].level, pg[p].high)
  <2>1. k + 1 \in 1 .. m + 1 /\ k + 1 > 1 /\ \A i \in 1 .. m : i < k + 1 <=> i <= k
    BY <1>2
  <2>2. \A i \in 1 .. m : i > k \/ i <= k
    BY <1>2
  <2> QED
    BY <1>4, <1>6, <1>7, <1>9, <1>11, <2>1, <2>2 DEF Fits
<1> QED
  BY <1>10, <1>11, <1>12 DEF e

\* The whole change; without a parent x is the topmost page, and y beside it.
Split(T, pg, it, pg2, it2, tops, tops2, x, y, at, p, k) ==
    /\ SplitIn(T, pg, it, pg2, it2, x, y, at)
    /\ \A b \in T : b # x /\ b # p => it2[b] = it[b]
    /\ IF p = None THEN x \in tops /\ tops2 = tops \cup {y}
       ELSE LinkedIn(T, pg, it, pg2, it2, x, y, p, k) /\ tops2 = tops /\ y \notin tops

LEMMA SplitSides ==
    ASSUME NEW T, NEW pg, NEW it, NEW pg2, NEW it2, NEW tops, NEW tops2, TreeFits(T, pg, it, tops),
           NEW x, NEW y \in Nat, NEW at, NEW p, NEW k,
           Split(T, pg, it, pg2, it2, tops, tops2, x, y, at, p, k)
    PROVE  /\ TreeTypes(T \cup {y}, pg2, it2) /\ Sides(T \cup {y}, pg2, it2)
           /\ p # x /\ y # p /\ pg[x].next # x
           /\ (pg[x].next # None => pg[x].next # p)
<1> DEFINE n == Len(it[x])
           sep == it[x][at + 1].key
           level == pg[x].level
<1>1. SplitIn(T, pg, it, pg2, it2, x, y, at) /\ x \in T /\ y \notin T /\ y # None /\ None \notin T
  BY DEF Split, SplitIn, TreeFits, TreeTypes
<1>2. /\ level \in Nat /\ it[x] \in Seq(Items) /\ \A b \in T : pg[b].high \in Bounds
      /\ InOrder(it[x], level, pg[x].high)
  BY <1>1, EndsAre DEF TreeFits, TreeTypes, Sides
<1>3. /\ n \in Nat /\ at \in 1 .. n - 1 /\ at + 1 \in 1 .. n /\ at + 1 > 1
      /\ sep \in Keys /\ sep \in Bounds
      /\ \A i \in 1 .. n : it[x][i].key \in Bounds /\ it[x][i].key \in Keys
  BY <1>1, <1>2, ItemTypes DEF SplitIn
<1>4. Less(sep, pg[x].high) /\ sep # MinusInf /\ sep \in Entries /\ sep # PlusInf
  BY <1>2, <1>3, KeysAre DEF InOrder, Keys
<1>5. InOrder(it2[x], level, sep)
  <2>1. Len(it2[x]) = at /\ \A i \in 1 .. at : it2[x][i] = it[x][i] /\ i \in 1 .. n /\ i < at + 1
    BY <1>1, <1>3 DEF SplitIn
  <2>2. it2[x] # <<>>
    BY <1>3, <2>1, EmptySeq
  <2> QED
    BY <1>2, <1>3, <2>1, <2>2 DEF InOrder
<1>6. ASSUME NEW i \in 1 .. n - at
      PROVE  /\ at + i \in 1 .. n /\ at + i > 1
             /\ IF level > 0 /\ i = 1 THEN it2[y][i].key = MinusInf
                ELSE it2[y][i].key = it[x][at + i].key
             /\ it[x][at + i].key \in Entries
             /\ i > 1 => at + 1 < at + i
  <2>1. at + i \in 1 .. n /\ at + i > 1 /\ (i > 1 => at + 1 < at + i)
    BY <1>3
  <2>2. it[x][at + i].key \in Entries
    BY <1>2, <1>3, <2>1 DEF InOrder, Keys
  <2> QED
    BY <1>1, <2>1, <2>2 DEF SplitIn
<1>7. Len(it2[y]) = n - at /\ it2[y] # <<>> /\ it2[y] \in Seq(Items)
  <2>1. Len(it2[y]) = n - at /\ it2[y] \in Seq(Items)
    BY <1>1 DEF SplitIn
  <2> QED
    BY <1>3, <2>1, EmptySeq
<1>8. InOrder(it2[y], level, pg[x].high)
  <2>1. ASSUME NEW i \in 1 .. n - at, NEW j \in 1 .. n - at, i < j
        PROVE  Less(it2[y][i].key, it2[y][j].key)
    <3>1. at + i < at + j /\ j # 1
      BY <1>3, <2>1
    <3>2. Less(it[x][at + i].key, it[x][at + j].key)
      BY <1>2, <1>6, <3>1 DEF InOrder
    <3> QED
      BY <1>6, <3>1, <3>2, EndsAre
  <2>2. ASSUME NEW i \in 1 .. n - at
        PROVE  /\ Less(it2[y][i].key, pg[x].high)
               /\ (it2[y][i].key = MinusInf) <=> (level > 0 /\ i = 1)
    <3>1. Less(it[x][at + i].key, pg[x].high) /\ it[x][at + i].key # MinusInf
      BY <1>2, <1>6, EndsAre DEF InOrder
    <3>2. Less(MinusInf, pg[x].high)
      <4>1. pg[x].high \in Entries \cup {PlusInf}
        BY <1>1 DEF TreeFits, TreeTypes
      <4> QED
        BY <4>1, EndsAre
    <3> QED
      BY <1>6, <3>1, <3>2
  <2> QED
    BY <1>7, <2>1, <2>2 DEF InOrder
<1>9. Above(it2[y], level, sep)
  <2>1. ASSUME NEW i \in 1 .. n - at
        PROVE  (i > 1 => Less(sep, it2[y][i].key)) /\ (level = 0 => ~Less(it2[y][i].key, sep))
    <3>1. ASSUME i > 1 PROVE Less(sep, it2[y][i].key)
      <4>1. Less(it[x][at + 1].key, it[x][at + i].key)
        BY <1>2, <1>3, <1>6, <3>1 DEF InOrder
      <4> QED
        BY <1>6, <3>1, <4>1
    <3>2. ASSUME ~(i > 1), level = 0 PROVE ~Less(it2[y][i].key, sep)
      <4>1. i = 1
        BY <1>3, <3>2
      <4> QED
        BY <1>3, <1>6, <3>2, <4>1, OrderIs
    <3>3. it2[y][i].key \in Bounds
      BY <1>6, EndsAre
    <3> QED
      BY <1>3, <3>1, <3>2, <3>3, OrderIs
  <2> QED
    BY <1>7, <2>1 DEF Above
<1>10. \A h : Above(it[x], level, h) => Above(it2[x], level, h)
  <2>1. Len(it2[x]) = at /\ \A i \in 1 .. at : it2[x][i] = it[x][i] /\ i \in 1 .. n
    BY <1>1, <1>3 DEF SplitIn
  <2> QED
    BY <2>1 DEF Above
<1>11. pg[x].next # x
  <2> SUFFICES ASSUME pg[x].next = x PROVE FALSE
    OBVIOUS
  <2>1. Above(it[x], level, pg[x].high)
    BY <1>1 DEF TreeFits, Sides
  <2>2. Less(pg[x].high, sep)
    BY <1>3, <2>1 DEF Above
  <2> QED
    BY <1>1, <1>2, <1>3, <1>4, <2>2, OrderIs
<1>12. p # None => LinkedIn(T, pg, it, pg2, it2, x, y, p, k)
  BY DEF Split
<1>13. p # x /\ y # p /\ (pg[x].next # None => pg[x].next # p)
  <2>1. CASE p = None
    BY <1>1, <2>1
  <2>2. CASE p # None
    <3>1. p \in T /\ pg[p].level = level + 1
      BY <1>12, <2>2 DEF LinkedIn
    <3>2. pg[x].next # None => pg[pg[x].next].level = level
      BY <1>1 DEF TreeFits, Sides
    <3> QED
      BY <1>1, <1>2, <2>2, <3>1, <3>2
  <2> QED
    BY <2>1, <2>2
<1>14. p # None =>
         /\ p \in T /\ it2[p] \in Seq(Items) /\ InOrder(it2[p], pg[p].level, pg[p].high)
         /\ \A b \in T : pg[b].next = p => Above(it2[p], pg[b].level, pg[b].high)
  <2> SUFFICES ASSUME p # None
               PROVE  /\ p \in T /\ it2[p] \in Seq(Items)
                      /\ InOrder(it2[p], pg[p].level, pg[p].high)
                      /\ \A b \in T : pg[b].next = p => Above(it2[p], pg[b].level, pg[b].high)
    OBVIOUS
  <2> DEFINE e == Downlink(pg2[x].high, y)
  <2>1. /\ e \in Items /\ Fits(it[p], e, k + 1, pg[p].level, pg[p].high)
        /\ \A b \in T : pg[b].next = p => Less(pg[b].high, e.key)
    BY <1>1, <1>12, SeparatorFits
  <2>2. /\ p \in T /\ it2[p] \in Seq(Items) /\ IsSpliced(it2[p], it[p], e, k + 1)
    BY <1>12 DEF LinkedIn
  <2> HIDE DEF e
  <2>3. /\ it[p] \in Seq(Items) /\ pg[p].level \in Nat /\ pg[p].high \in Bounds
        /\ InOrder(it[p], pg[p].level, pg[p].high)
    BY <1>2, <2>2 DEF TreeFits, TreeTypes, Sides
  <2>4. /\ InOrder(it2[p], pg[p].level, pg[p].high)
        /\ \A h \in Bounds : Above(it[p], pg[p].level, h) /\ ~Less(e.key, h)
                             /\ (pg[p].level > 0 => Less(h, e.key)) => Above(it2[p], pg[p].level, h)
    BY <2>1, <2>2, <2>3, StaysInOrder
  <2>5. ASSUME NEW b \in T, pg[b].next = p PROVE Above(it2[p], pg[b].level, pg[b].high)
    <3>1. pg[b].level = pg[p].level /\ Above(it[p], pg[b].level, pg[b].high)
      BY <2>5 DEF TreeFits, Sides
    <3>2. Less(pg[b].high, e.key) /\ pg[b].high \in Bounds /\ e.key \in Bounds
      BY <1>2, <2>1, <2>5, EndsAre DEF Fits
    <3>3. ~Less(e.key, pg[b].high)
      BY <3>2, OrderIs
    <3> QED
      BY <2>4, <3>1, <3>2, <3>3
  <2> QED
    BY <2>2, <2>4, <2>5
<1>15. \A b \in T : b # x /\ b # p => it2[b] = it[b]
  BY DEF Split
<1> HIDE DEF n, sep, level
<1>16. TreeTypes(T \cup {y}, pg2, it2)
  <2>1. ASSUME NEW b \in T, b # x
        PROVE  /\ pg2[b].level \in Nat /\ pg2[b].high \in Entries \cup {PlusInf}
               /\ it2[b] \in Seq(Items)
    <3>1. b # p => it2[b] = it[b]
      BY <1>15, <2>1
    <3>2. b = p => it2[b] \in Seq(Items)
      BY <1>1, <1>14
    <3> QED
      BY <1>1, <2>1, <3>1, <3>2 DEF TreeFits, TreeTypes, SplitIn
  <2>2. /\ pg2[x].level = pg[x].level /\ pg2[x].high = sep
        /\ pg2[y].level = pg[x].level /\ pg2[y].high = pg[x].high /\ it2[x] \in Seq(Items)
    BY <1>1 DEF SplitIn, sep
  <2>3. pg[x].level \in Nat /\ pg[x].high \in Entries \cup {PlusInf}
    BY <1>1 DEF TreeFits, TreeTypes
  <2> QED
    BY <1>1, <1>4, <1>7, <2>1, <2>2, <2>3 DEF TreeTypes
<1>17. /\ \A b \in T : b # x => pg2[b].next = pg[b].next /\ pg2[b].high = pg[b].high
       /\ \A b \in T : pg2[b].level = pg[b].level
       /\ pg2[x].next = y /\ pg2[x].high = sep
       /\ pg2[y].level = level /\ pg2[y].next = pg[x].next /\ pg2[y].high = pg[x].high
  BY <1>1 DEF SplitIn, sep, level
<1>18. \A b \in T : /\ InOrder(it[b], pg[b].level, pg[b].high)
                    /\ (pg[b].next = None) <=> (pg[b].high = PlusInf)
                    /\ pg[b].next # None =>
                          /\ pg[b].next \in T /\ pg[pg[b].next].level = pg[b].level
                          /\ Above(it[pg[b].next], pg[b].level, pg[b].high)
  BY DEF TreeFits, Sides
\* A right sibling that had fewer or other items is still above.
<1>19. ASSUME NEW b \in T, pg[b].next # None
       PROVE  Above(it2[pg[b].next], pg[b].level, pg[b].high)
  <2>1. CASE pg[b].next = x
    BY <1>1, <1>10, <1>18, <1>19, <2>1 DEF level
  <2>2. CASE pg[b].next = p
    BY <1>14, <1>19, <2>2
  <2>3. CASE pg[b].next # x /\ pg[b].next # p
    BY <1>15, <1>18, <1>19, <2>3
  <2> QED
    BY <2>1, <2>2, <2>3
<1>20. Sides(T \cup {y}, pg2, it2)
  <2> SUFFICES ASSUME NEW b \in T \cup {y}
               PROVE  /\ InOrder(it2[b], pg2[b].level, pg2[b].high)
                      /\ (pg2[b].next = None) <=> (pg2[b].high = PlusInf)
                      /\ pg2[b].next # None =>
                            /\ pg2[b].next \in T \cup {y}
                            /\ pg2[pg2[b].next].level = pg2[b].level
                            /\ Above(it2[pg2[b].next], pg2[b].level, pg2[b].high)
    BY DEF Sides
  <2>1. CASE b = x
    BY <1>1, <1>4, <1>5, <1>9, <1>17, <2>1 DEF level
  <2>2. CASE b = y
    <3>1. pg[x].next # None =>
             pg[x].next \in T /\ pg[pg[x].next].level = level
             /\ Above(it2[pg[x].next], level, pg[x].high)
      BY <1>1, <1>18, <1>19 DEF level
    <3>2. (pg[x].next = None) <=> (pg[x].high = PlusInf)
      BY <1>1, <1>18
    <3> QED
      BY <1>8, <1>17, <2>2, <3>1, <3>2
  <2>3. CASE b \in T /\ b # x
    <3>1. InOrder(it2[b], pg[b].level, pg[b].high)
      <4>1. CASE b = p
        BY <1>1, <1>14, <2>3, <4>1
      <4>2. CASE b # p
        BY <1>15, <1>18, <2>3, <4>2
      <4> QED
        BY <4>1, <4>2
    <3> QED
      BY <1>17, <1>18, <1>19, <2>3, <3>1
  <2> QED
    BY <2>1, <2>2, <2>3
<1> QED
  BY <1>11, <1>13, <1>16, <1>20

LEMMA SplitDown ==
    ASSUME NEW T, NEW pg, NEW it, NEW pg2, NEW it2, NEW tops, NEW tops2, TreeFits(T, pg, it, tops),
           NEW x, NEW y \in Nat, NEW at, NEW p, NEW k,
           Split(T, pg, it, pg2, it2, tops, tops2, x, y, at, p, k)
    PROVE  Down(T \cup {y}, pg2, it2)
<1> DEFINE n == Len(it[x])
           m == Len(it[p])
<1>1. /\ SplitIn(T, pg, it, pg2, it2, x, y, at) /\ x \in T /\ y \notin T /\ y # None
      /\ None \notin T /\ p # x /\ y # p /\ pg[x].next # x
      /\ (pg[x].next # None => pg[x].next # p)
  <2>1. SplitIn(T, pg, it, pg2, it2, x, y, at) /\ x \in T /\ y \notin T /\ y # None /\ None \notin T
    BY DEF Split, SplitIn, TreeFits, TreeTypes
  <2> QED
    BY <2>1, SplitSides
<1>2. p # None => LinkedIn(T, pg, it, pg2, it2, x, y, p, k) /\ p \in T
  BY DEF Split, LinkedIn
<1>3. \A b \in T : pg[b].level \in Nat /\ it[b] \in Seq(Items) /\ Len(it[b]) \in Nat
  BY ItemTypes DEF TreeFits, TreeTypes
<1>4. /\ \A b \in T : b # x => pg2[b].next = pg[b].next /\ pg2[b].high = pg[b].high
      /\ \A b \in T : pg2[b].level = pg[b].level
      /\ pg2[x].next = y /\ pg2[x].high = it[x][at + 1].key
      /\ pg2[y].level = pg[x].level /\ pg2[y].next = pg[x].next /\ pg2[y].high = pg[x].high
      /\ at \in 1 .. n - 1 /\ n \in Nat
  BY <1>1, <1>3 DEF SplitIn
<1>5. /\ Len(it2[x]) = at /\ \A i \in 1 .. at : it2[x][i] = it[x][i]
      /\ Len(it2[y]) = n - at
      /\ \A i \in 1 .. n - at :
            /\ it2[y][i].child = it[x][at + i].child
            /\ i > 1 => it2[y][i].key = it[x][at + i].key
  <2>1. \A i \in 1 .. n - at : it2[y][i].key = IF pg[x].level > 0 /\ i = 1 THEN MinusInf
                                               ELSE it[x][at + i].key
    BY <1>1 DEF SplitIn
  <2>2. \A i \in 1 .. n - at : i > 1 => i # 1
    BY <1>4
  <2>3. \A i \in 1 .. n - at : i > 1 => it2[y][i].key = it[x][at + i].key
    BY <2>1, <2>2
  <2> QED
    BY <1>1, <2>3 DEF SplitIn
<1>6. p # None =>
         /\ pg[p].level = pg[x].level + 1 /\ k \in 1 .. m /\ it[p][k].child = x /\ m \in Nat
         /\ Len(it2[p]) = m + 1 /\ it2[p][k + 1] = Downlink(pg2[x].high, y)
         /\ \A i \in 1 .. m + 1 : i # k + 1 =>
               IF i < k + 1 THEN it2[p][i] = it[p][i] ELSE it2[p][i] = it[p][i - 1]
  BY <1>2, <1>3 DEF LinkedIn, IsSpliced
<1>7. \A b \in T : b # x /\ b # p => it2[b] = it[b]
  BY DEF Split
<1>8. /\ \A b \in T : pg[b].level > 0 => \A i \in 1 .. Len(it[b]) :
            it[b][i].child \in T /\ Led(pg, it, b, i)
      /\ \A b \in T : pg[b].next # None => pg[b].next \in T /\ pg[pg[b].next].level = pg[b].level
      /\ \A b \in T : it[b] # <<>> /\ 1 \in 1 .. Len(it[b])
  <2>1. \A b \in T : it[b] # <<>>
    BY DEF TreeFits, Sides, InOrder
  <2>2. \A b \in T : Len(it[b]) >= 1
    BY <1>3, <2>1, ItemTypes
  <2> QED
    BY <1>3, <2>1, <2>2 DEF TreeFits, Down, Sides
\* Nothing but the k-th downlink of p led to x.
<1>9. ASSUME NEW b \in T, pg[b].level > 0, NEW i \in 1 .. Len(it[b]), it[b][i].child = x
      PROVE  p # None /\ b = p /\ i = k
  <2>1. x \notin tops
    BY <1>9 DEF TreeFits, OneLink
  <2>2. p # None
    BY <2>1 DEF Split
  <2>3. /\ p \in T /\ pg[p].level > 0 /\ k \in 1 .. Len(it[p]) /\ it[p][k].child = x
    BY <1>1, <1>2, <1>3, <1>6, <2>2
  <2> QED
    BY <1>9, <2>2, <2>3 DEF TreeFits, OneLink
\* Every page starts with the downlink it did.
<1>10. ASSUME NEW b \in T PROVE it2[b][1].child = it[b][1].child
  <2>1. CASE b = x
    BY <1>4, <1>5, <2>1
  <2>2. CASE b = p
    <3>1. p # None
      BY <1>1, <2>2
    <3>2. 1 \in 1 .. m + 1 /\ 1 # k + 1 /\ 1 < k + 1
      BY <1>6, <3>1
    <3>3. it2[p][1] = it[p][1]
      BY <1>6, <3>1, <3>2
    <3> QED
      BY <2>2, <3>3
  <2> QED
    BY <1>7, <2>1, <2>2
<1> HIDE DEF n, m
<1>11. ASSUME NEW b \in T, pg[b].level > 0, NEW i \in 1 .. Len(it[b])
       PROVE  /\ it[b][i].child \in T /\ Led(pg, it, b, i)
              /\ pg2[it[b][i].child].level = pg[b].level - 1
              /\ it[b][i].child # x =>
                    /\ pg2[it[b][i].child].high = pg[it[b][i].child].high
                    /\ pg2[it[b][i].child].next = pg[it[b][i].child].next
  BY <1>4, <1>8, <1>11 DEF Led
<1>12. ASSUME NEW b \in T PROVE pg[b].next # None => it2[pg[b].next][1].child = it[pg[b].next][1].child
  BY <1>8, <1>10
<1> SUFFICES ASSUME NEW b \in T \cup {y}, pg2[b].level > 0, NEW i \in 1 .. Len(it2[b])
             PROVE  it2[b][i].child \in T \cup {y} /\ Led(pg2, it2, b, i)
  BY DEF Down
<1>13. CASE b = x
  <2>1. i \in 1 .. n /\ i \in 1 .. at /\ it2[x][i] = it[x][i] /\ pg[x].level > 0 /\ n = Len(it[x])
    BY <1>4, <1>5, <1>13, <1>1 DEF n
  <2> DEFINE c == it[x][i].child
  <2>2. c \in T /\ Led(pg, it, x, i) /\ pg2[c].level = pg[x].level - 1 /\ c # x
        /\ pg2[c].high = pg[c].high /\ pg2[c].next = pg[c].next
    BY <1>1, <1>9, <1>11, <2>1
  <2>3. CASE i < at
    <3>1. i < n /\ i + 1 \in 1 .. at /\ it2[x][i + 1] = it[x][i + 1]
      BY <1>4, <1>5, <2>1, <2>3
    <3> QED
      BY <1>4, <1>5, <1>13, <2>1, <2>2, <2>3, <3>1 DEF Led
  <2>4. CASE ~(i < at)
    <3>1. i = at /\ i < n /\ 1 \in 1 .. n - at
      BY <1>4, <2>1, <2>4
    <3>2. it2[y][1].child = it[x][i + 1].child
      BY <1>5, <3>1
    <3> QED
      BY <1>1, <1>4, <1>5, <1>13, <2>1, <2>2, <2>4, <3>1, <3>2 DEF Led
  <2> QED
    BY <2>3, <2>4
<1>14. CASE b = y
  <2>1. i \in 1 .. n - at /\ at + i \in 1 .. n /\ pg[x].level > 0 /\ n = Len(it[x])
    BY <1>4, <1>5, <1>14 DEF n
  <2> DEFINE j == at + i
             c == it[x][j].child
  <2>2. it2[y][i].child = c
    BY <1>5, <2>1
  <2>3. c \in T /\ Led(pg, it, x, j) /\ pg2[c].level = pg[x].level - 1 /\ c # x
        /\ pg2[c].high = pg[c].high /\ pg2[c].next = pg[c].next
    BY <1>1, <1>9, <1>11, <2>1
  <2>4. CASE i < n - at
    <3>1. j < n /\ i + 1 \in 1 .. n - at /\ i + 1 > 1 /\ at + (i + 1) = j + 1
      <4>1. n \in Nat /\ at \in Nat /\ i \in Nat /\ 1 <= i /\ j = at + i
        BY <1>4, <2>1
      <4> HIDE DEF j
      <4> QED
        BY <2>4, <4>1
    <3>2. it2[y][i + 1].key = it[x][j + 1].key /\ it2[y][i + 1].child = it[x][j + 1].child
      BY <1>5, <3>1
    <3>3. pg[c].high = it[x][j + 1].key /\ pg[c].next = it[x][j + 1].child
      BY <2>1, <2>3, <3>1 DEF Led
    <3> QED
      <4>1. Len(it2[y]) = n - at /\ pg2[y].level = pg[x].level
        BY <1>4, <1>5
      <4> QED
        BY <1>14, <2>2, <2>3, <2>4, <3>2, <3>3, <4>1 DEF Led
  <2>5. CASE ~(i < n - at)
    <3>1. ~(j < n)
      BY <1>4, <2>1, <2>5
    <3>2. /\ pg[c].high = pg[x].high
          /\ pg[c].next = IF pg[x].next = None THEN None ELSE it2[pg[x].next][1].child
      BY <1>1, <1>12, <2>1, <2>3, <3>1 DEF Led
    <3> QED
      BY <1>4, <1>5, <1>14, <2>2, <2>3, <2>5, <3>2 DEF Led
  <2> QED
    BY <2>4, <2>5
<1>15. CASE b = p
  <2>1. /\ p \in T /\ p # None /\ pg[p].level > 0 /\ i \in 1 .. m + 1 /\ m = Len(it[p])
        /\ pg2[p].level = pg[p].level /\ pg2[p].high = pg[p].high /\ pg2[p].next = pg[p].next
        /\ Len(it2[p]) = m + 1 /\ m \in Nat /\ k \in 1 .. m
    BY <1>1, <1>4, <1>6, <1>15 DEF m
  <2>2. CASE i < k
    <3>1. i \in 1 .. m /\ i # k + 1 /\ i < k + 1 /\ i + 1 \in 1 .. m + 1 /\ i + 1 < k + 1 /\ i + 1 # k + 1
          /\ i < m /\ i < m + 1 /\ i # k
      BY <2>1, <2>2
    <3>2. it2[p][i] = it[p][i] /\ it2[p][i + 1] = it[p][i + 1]
      BY <1>6, <2>1, <3>1
    <3> DEFINE c == it[p][i].child
    <3>3. c \in T /\ Led(pg, it, p, i) /\ pg2[c].level = pg[p].level - 1 /\ c # x
          /\ pg2[c].high = pg[c].high /\ pg2[c].next = pg[c].next
      BY <1>9, <1>11, <2>1, <3>1
    <3> QED
      BY <1>15, <2>1, <3>1, <3>2, <3>3 DEF Led
  <2>3. CASE i = k
    <3>1. i \in 1 .. m /\ i # k + 1 /\ i < k + 1 /\ i < m + 1
      BY <2>1, <2>3
    <3>2. it2[p][i] = it[p][i] /\ it2[p][i + 1] = Downlink(pg2[x].high, y) /\ it[p][i].child = x
      BY <1>6, <2>1, <2>3, <3>1
    <3>3. pg2[x].level = pg[p].level - 1
      <4>1. pg[p].level = pg[x].level + 1 /\ pg[x].level \in Nat /\ pg2[x].level = pg[x].level
        BY <1>1, <1>3, <1>4, <1>6, <2>1
      <4> QED
        BY <4>1
    <3> QED
      BY <1>1, <1>4, <1>15, <2>1, <3>1, <3>2, <3>3 DEF Led, Downlink
  <2>4. CASE i = k + 1
    <3>1. it2[p][i] = Downlink(pg2[x].high, y) /\ it2[p][i].child = y
      BY <1>6, <2>1, <2>4 DEF Downlink
    <3>2. k \in 1 .. Len(it[p]) /\ it[p][k].child = x /\ Led(pg, it, p, k)
      BY <1>6, <1>8, <2>1
    <3>3. pg2[y].level = pg[p].level - 1
      <4>1. pg[p].level = pg[x].level + 1 /\ pg[x].level \in Nat /\ pg2[y].level = pg[x].level
        BY <1>1, <1>3, <1>4, <1>6, <2>1
      <4> QED
        BY <4>1
    <3>4. CASE k < m
      <4>1. i < m + 1 /\ i + 1 \in 1 .. m + 1 /\ i + 1 # k + 1 /\ ~(i + 1 < k + 1) /\ (i + 1) - 1 = k + 1
        BY <2>1, <2>4, <3>4
      <4>2. it2[p][i + 1] = it[p][k + 1]
        BY <1>6, <2>1, <4>1
      <4> QED
        BY <1>4, <1>15, <2>1, <3>1, <3>2, <3>3, <3>4, <4>1, <4>2 DEF Led
    <3>5. CASE ~(k < m)
      <4>1. ~(i < m + 1)
        BY <2>1, <2>4, <3>5
      <4> QED
        BY <1>4, <1>12, <1>15, <2>1, <3>1, <3>2, <3>3, <3>5, <4>1 DEF Led
    <3> QED
      BY <3>4, <3>5
  <2>5. CASE i > k + 1
    <3> DEFINE j == i - 1
               c == it[p][j].child
    <3>1. j \in 1 .. m /\ j # k /\ i # k + 1 /\ ~(i < k + 1)
      BY <2>1, <2>5
    <3>2. it2[p][i] = it[p][j]
      BY <1>6, <2>1, <3>1
    <3>3. c \in T /\ Led(pg, it, p, j) /\ pg2[c].level = pg[p].level - 1 /\ c # x
          /\ pg2[c].high = pg[c].high /\ pg2[c].next = pg[c].next
      BY <1>9, <1>11, <2>1, <3>1
    <3>4. CASE j < m
      <4>1. i < m + 1 /\ i + 1 \in 1 .. m + 1 /\ i + 1 # k + 1 /\ ~(i + 1 < k + 1)
            /\ (i + 1) - 1 = j + 1
        BY <2>1, <2>5, <3>4
      <4>2. it2[p][i + 1] = it[p][j + 1]
        BY <1>6, <2>1, <4>1
      <4> QED
        BY <1>15, <2>1, <3>2, <3>3, <3>4, <4>1, <4>2 DEF Led
    <3>5. CASE ~(j < m)
      <4>1. ~(i < m + 1)
        BY <2>1, <3>5
      <4> QED
        BY <1>12, <1>15, <2>1, <3>2, <3>3, <3>5, <4>1 DEF Led
    <3> QED
      BY <3>4, <3>5
  <2> QED
    BY <2>1, <2>2, <2>3, <2>4, <2>5
<1>16. CASE b \in T /\ b # x /\ b # p
  <2>1. /\ b \in T /\ pg[b].level > 0 /\ it2[b] = it[b] /\ i \in 1 .. Len(it[b])
        /\ pg2[b].level = pg[b].level /\ pg2[b].high = pg[b].high /\ pg2[b].next = pg[b].next
    BY <1>4, <1>7, <1>16
  <2> DEFINE c == it[b][i].child
  <2>2. c \in T /\ Led(pg, it, b, i) /\ pg2[c].level = pg[b].level - 1 /\ c # x
        /\ pg2[c].high = pg[c].high /\ pg2[c].next = pg[c].next
    BY <1>9, <1>11, <1>16, <2>1
  <2> QED
    BY <1>12, <2>1, <2>2 DEF Led
<1> QED
  BY <1>13, <1>14, <1>15, <1>16

\* Where a downlink is after the split: j-th of page a before, i-th of b now.
Carries(x, y, at, p, k, a, j, b, i) ==
    \/ a = x /\ j <= at /\ b = x /\ i = j
    \/ a = x /\ j > at /\ b = y /\ i = j - at
    \/ a = p /\ j <= k /\ b = p /\ i = j
    \/ a = p /\ j > k /\ b = p /\ i = j + 1
    \/ a # x /\ a # p /\ b = a /\ i = j

LEMMA SplitLinks ==
    ASSUME NEW T, NEW pg, NEW it, NEW pg2, NEW it2, NEW tops, NEW tops2, TreeFits(T, pg, it, tops),
           NEW x, NEW y \in Nat, NEW at, NEW p, NEW k,
           Split(T, pg, it, pg2, it2, tops, tops2, x, y, at, p, k)
    PROVE  OneLink(T \cup {y}, pg2, it2, tops2)
<1> DEFINE n == Len(it[x])
           m == Len(it[p])
           M(a, j, b, i) == Carries(x, y, at, p, k, a, j, b, i)
<1>1. /\ SplitIn(T, pg, it, pg2, it2, x, y, at) /\ x \in T /\ y \notin T /\ y # None
      /\ None \notin T /\ p # x /\ y # p /\ y # x
  <2>1. SplitIn(T, pg, it, pg2, it2, x, y, at) /\ x \in T /\ y \notin T /\ y # None /\ None \notin T
    BY DEF Split, SplitIn, TreeFits, TreeTypes
  <2> QED
    BY <2>1, SplitSides
<1>2. p # None => LinkedIn(T, pg, it, pg2, it2, x, y, p, k) /\ p \in T
  BY DEF Split, LinkedIn
<1>3. \A b \in T : pg[b].level \in Nat /\ it[b] \in Seq(Items) /\ Len(it[b]) \in Nat
  BY ItemTypes DEF TreeFits, TreeTypes
<1>4. /\ \A b \in T : pg2[b].level = pg[b].level
      /\ pg2[y].level = pg[x].level /\ at \in 1 .. n - 1 /\ n \in Nat
      /\ Len(it2[x]) = at /\ \A i \in 1 .. at : it2[x][i] = it[x][i]
      /\ Len(it2[y]) = n - at
      /\ \A i \in 1 .. n - at : it2[y][i].child = it[x][at + i].child
  BY <1>1, <1>3 DEF SplitIn
<1>5. p # None =>
         /\ pg[p].level = pg[x].level + 1 /\ k \in 1 .. m /\ it[p][k].child = x /\ m \in Nat
         /\ Len(it2[p]) = m + 1 /\ it2[p][k + 1].child = y
         /\ \A i \in 1 .. m + 1 : i # k + 1 =>
               IF i < k + 1 THEN it2[p][i] = it[p][i] ELSE it2[p][i] = it[p][i - 1]
  BY <1>2, <1>3 DEF LinkedIn, IsSpliced, Downlink
<1>6. \A b \in T : b # x /\ b # p => it2[b] = it[b]
  BY DEF Split
<1>7. \A b \in T : pg[b].level > 0 => \A i \in 1 .. Len(it[b]) : it[b][i].child \in T
  BY DEF TreeFits, Down
<1> HIDE DEF M
\* Every downlink of before has one place now.
<1>8. ASSUME NEW a \in T, pg[a].level > 0, NEW j \in 1 .. Len(it[a])
      PROVE  \E b \in T \cup {y} : /\ pg2[b].level > 0
                                   /\ \E i \in 1 .. Len(it2[b]) : it2[b][i].child = it[a][j].child
  <2>1. CASE a = x /\ j <= at
    <3>1. j \in 1 .. Len(it2[x]) /\ it2[x][j] = it[x][j] /\ pg2[x].level > 0
      BY <1>1, <1>3, <1>4, <1>8, <2>1
    <3> QED
      BY <1>1, <2>1, <3>1
  <2>2. CASE a = x /\ ~(j <= at)
    <3>1. /\ j - at \in 1 .. n - at /\ at + (j - at) = j /\ pg2[y].level > 0
      BY <1>1, <1>3, <1>4, <1>8, <2>2
    <3>2. j - at \in 1 .. Len(it2[y]) /\ it2[y][j - at].child = it[x][j].child
      BY <1>4, <3>1
    <3> QED
      BY <2>2, <3>1, <3>2
  <2>3. CASE a = p /\ j <= k
    <3>1. p # None
      BY <1>1, <2>3
    <3>2. j \in 1 .. m + 1 /\ j # k + 1 /\ j < k + 1
      BY <1>3, <1>5, <2>3, <3>1
    <3>3. j \in 1 .. Len(it2[p]) /\ it2[p][j] = it[p][j] /\ pg2[p].level > 0
      BY <1>4, <1>5, <1>8, <2>3, <3>1, <3>2
    <3> QED
      BY <2>3, <3>3
  <2>4. CASE a = p /\ ~(j <= k)
    <3>1. p # None
      BY <1>1, <2>4
    <3>2. j + 1 \in 1 .. m + 1 /\ j + 1 # k + 1 /\ ~(j + 1 < k + 1) /\ (j + 1) - 1 = j
      BY <1>3, <1>5, <2>4, <3>1
    <3>3. j + 1 \in 1 .. Len(it2[p]) /\ it2[p][j + 1] = it[p][j] /\ pg2[p].level > 0
      <4>1. Len(it2[p]) = m + 1 /\ pg2[p].level = pg[p].level
        BY <1>4, <1>5, <1>8, <2>4, <3>1
      <4>2. it2[p][j + 1] = it[p][j]
        BY <1>5, <3>1, <3>2
      <4> QED
        BY <1>8, <2>4, <3>2, <4>1, <4>2
    <3> QED
      BY <2>4, <3>3
  <2>5. CASE a # x /\ a # p
    <3>1. it2[a] = it[a] /\ pg2[a].level > 0
      BY <1>4, <1>6, <1>8, <2>5
    <3> QED
      BY <3>1
  <2> QED
    BY <2>1, <2>2, <2>3, <2>4, <2>5
\* Every downlink of now is that to y, or has been somewhere.
<1>9. ASSUME NEW b \in T \cup {y}, pg2[b].level > 0, NEW i \in 1 .. Len(it2[b])
      PROVE  \/ p # None /\ b = p /\ i = k + 1 /\ it2[b][i].child = y
             \/ \E a \in T : /\ pg[a].level > 0
                             /\ \E j \in 1 .. Len(it[a]) :
                                   it[a][j].child = it2[b][i].child /\ M(a, j, b, i)
  <2>1. CASE b = x
    <3>1. pg[x].level > 0 /\ i \in 1 .. Len(it[x]) /\ i <= at /\ it2[x][i] = it[x][i]
      BY <1>1, <1>4, <1>9, <2>1
    <3>2. M(x, i, x, i)
      BY <3>1 DEF M, Carries
    <3> QED
      BY <1>1, <2>1, <3>1, <3>2
  <2>2. CASE b = y
    <3>1. /\ pg[x].level > 0 /\ at + i \in 1 .. Len(it[x]) /\ at + i > at /\ i = (at + i) - at
          /\ it2[y][i].child = it[x][at + i].child
      BY <1>1, <1>4, <1>9, <2>2
    <3>2. M(x, at + i, y, i)
      BY <3>1 DEF M, Carries
    <3> QED
      BY <1>1, <2>2, <3>1, <3>2
  <2>3. CASE b = p /\ i = k + 1
    <3>1. p # None
      BY <1>1, <1>9, <2>3
    <3> QED
      BY <1>5, <2>3, <3>1
  <2>4. CASE b = p /\ i < k + 1
    <3>1. p # None
      BY <1>1, <1>9, <2>4
    <3>2. /\ pg[p].level > 0 /\ i \in 1 .. Len(it[p]) /\ i <= k /\ it2[p][i] = it[p][i]
      <4>1. p \in T /\ Len(it2[p]) = m + 1 /\ m \in Nat /\ k \in 1 .. m /\ i \in 1 .. Len(it2[p])
        BY <1>2, <1>5, <1>9, <2>4, <3>1
      <4>2. i \in 1 .. m /\ i \in 1 .. m + 1 /\ i <= k /\ i # k + 1
        BY <2>4, <4>1
      <4>3. pg[p].level > 0
        BY <1>4, <1>9, <2>4, <4>1
      <4>4. it2[p][i] = it[p][i]
        BY <1>5, <2>4, <3>1, <4>2
      <4> QED
        BY <4>2, <4>3, <4>4
    <3>3. M(p, i, p, i)
      BY <3>2 DEF M, Carries
    <3> QED
      BY <1>2, <2>4, <3>1, <3>2, <3>3
  <2>5. CASE b = p /\ i > k + 1
    <3>1. p # None
      BY <1>1, <1>9, <2>5
    <3>2. /\ pg[p].level > 0 /\ i \in 1 .. m + 1 /\ i # k + 1 /\ ~(i < k + 1) /\ m = Len(it[p])
          /\ i - 1 \in 1 .. Len(it[p]) /\ i - 1 > k /\ i = (i - 1) + 1
      BY <1>2, <1>4, <1>5, <1>9, <2>5, <3>1
    <3>4. it2[p][i] = it[p][i - 1]
      BY <1>5, <3>1, <3>2
    <3>3. M(p, i - 1, p, i)
      BY <3>2 DEF M, Carries
    <3> QED
      BY <1>2, <2>5, <3>1, <3>2, <3>3, <3>4
  <2>6. CASE b \in T /\ b # x /\ b # p
    <3>1. pg[b].level > 0 /\ it2[b] = it[b] /\ i \in 1 .. Len(it[b])
      BY <1>4, <1>6, <1>9, <2>6
    <3>2. M(b, i, b, i)
      BY <2>6 DEF M, Carries
    <3> QED
      BY <2>6, <3>1, <3>2
  <2>7. b = p /\ b \in T => p # None /\ i \in Nat /\ k \in Nat
    BY <1>1, <1>5
  <2> QED
    BY <1>1, <2>1, <2>2, <2>3, <2>4, <2>5, <2>6, <2>7
<1>10. ASSUME NEW a, NEW j, NEW b, NEW i, NEW c, NEW l, M(a, j, b, i), M(a, j, c, l), j \in Nat,
              a = p => k \in Nat
       PROVE  b = c /\ i = l
  BY <1>1, <1>4, <1>10 DEF M, Carries
<1>11. \A b \in T \cup {y} : b \notin tops2 =>
          \E a \in T \cup {y} : pg2[a].level > 0 /\ \E i \in 1 .. Len(it2[a]) : it2[a][i].child = b
  <2> SUFFICES ASSUME NEW b \in T \cup {y}, b \notin tops2
               PROVE  \E a \in T \cup {y} : /\ pg2[a].level > 0
                                            /\ \E i \in 1 .. Len(it2[a]) : it2[a][i].child = b
    OBVIOUS
  <2>1. CASE b = y
    <3>1. p # None
      BY <2>1 DEF Split
    <3>2. /\ p \in T /\ pg2[p].level > 0 /\ k + 1 \in 1 .. Len(it2[p]) /\ it2[p][k + 1].child = y
      <4>1. /\ p \in T /\ Len(it2[p]) = m + 1 /\ m \in Nat /\ k \in 1 .. m
            /\ it2[p][k + 1].child = y
        BY <1>2, <1>5, <3>1
      <4>2. /\ pg2[p].level = pg[p].level /\ pg[p].level = pg[x].level + 1
            /\ pg[x].level \in Nat
        BY <1>1, <1>3, <1>4, <1>5, <3>1, <4>1
      <4> QED
        BY <4>1, <4>2
    <3> QED
      BY <2>1, <3>2
  <2>2. CASE b \in T
    <3>1. b \notin tops
      BY DEF Split
    <3>2. PICK a \in T : pg[a].level > 0 /\ \E j \in 1 .. Len(it[a]) : it[a][j].child = b
      BY <2>2, <3>1 DEF TreeFits, OneLink
    <3> QED
      BY <1>8, <3>2
  <2> QED
    BY <2>1, <2>2
<1>12. ASSUME NEW b \in T \cup {y}, pg2[b].level > 0, NEW i \in 1 .. Len(it2[b])
       PROVE  it2[b][i].child \notin tops2
  <2>1. CASE p # None /\ it2[b][i].child = y
    BY <2>1 DEF Split
  <2>2. ASSUME NEW a \in T, pg[a].level > 0, NEW j \in 1 .. Len(it[a]),
               it[a][j].child = it2[b][i].child
        PROVE  it2[b][i].child \notin tops2
    <3>1. it[a][j].child \notin tops /\ it[a][j].child \in T
      BY <1>7, <2>2 DEF TreeFits, OneLink
    <3> QED
      BY <1>1, <2>2, <3>1 DEF Split
  <2> QED
    BY <1>9, <1>12, <2>1, <2>2
<1>13. ASSUME NEW b \in T \cup {y}, pg2[b].level > 0, NEW i \in 1 .. Len(it2[b]),
              NEW c \in T \cup {y}, pg2[c].level > 0, NEW l \in 1 .. Len(it2[c]),
              it2[b][i].child = it2[c][l].child
       PROVE  b = c /\ i = l
  <2>1. CASE it2[b][i].child = y
    <3>1. \A a \in T : pg[a].level > 0 => \A j \in 1 .. Len(it[a]) : it[a][j].child # y
      BY <1>1, <1>7
    <3> QED
      <4>1. b = p /\ i = k + 1
        <5>1. \/ b = p /\ i = k + 1
              \/ \E a \in T : /\ pg[a].level > 0
                              /\ \E j \in 1 .. Len(it[a]) : it[a][j].child = it2[b][i].child
          BY <1>9, <1>13
        <5> QED
          BY <2>1, <3>1, <5>1
      <4>2. c = p /\ l = k + 1
        <5>1. \/ c = p /\ l = k + 1
              \/ \E a \in T : /\ pg[a].level > 0
                              /\ \E j \in 1 .. Len(it[a]) : it[a][j].child = it2[c][l].child
          BY <1>9, <1>13
        <5> QED
          BY <1>13, <2>1, <3>1, <5>1
      <4> QED
        BY <4>1, <4>2
  <2>2. CASE it2[b][i].child # y
    <3>1. PICK a \in T : /\ pg[a].level > 0
                         /\ \E j \in 1 .. Len(it[a]) :
                               it[a][j].child = it2[b][i].child /\ M(a, j, b, i)
      BY <1>9, <1>13, <2>2
    <3>2. PICK j \in 1 .. Len(it[a]) : it[a][j].child = it2[b][i].child /\ M(a, j, b, i)
      BY <3>1
    <3>3. PICK d \in T : /\ pg[d].level > 0
                         /\ \E h \in 1 .. Len(it[d]) :
                               it[d][h].child = it2[c][l].child /\ M(d, h, c, l)
      BY <1>9, <1>13, <2>2
    <3>4. PICK h \in 1 .. Len(it[d]) : it[d][h].child = it2[c][l].child /\ M(d, h, c, l)
      BY <3>3
    <3>5. a = d /\ j = h
      BY <1>13, <3>1, <3>2, <3>3, <3>4 DEF TreeFits, OneLink
    <3>6. j \in Nat /\ (a = p => k \in Nat)
      BY <1>1, <1>5
    <3> QED
      BY <1>10, <3>2, <3>4, <3>5, <3>6
  <2> QED
    BY <2>1, <2>2
<1> QED
  BY <1>11, <1>12, <1>13 DEF OneLink

LEMMA SplitFits ==
    ASSUME NEW T, NEW pg, NEW it, NEW pg2, NEW it2, NEW tops, NEW tops2, TreeFits(T, pg, it, tops),
           NEW x, NEW y \in Nat, NEW at, NEW p, NEW k,
           Split(T, pg, it, pg2, it2, tops, tops2, x, y, at, p, k)
    PROVE  TreeFits(T \cup {y}, pg2, it2, tops2)
<1> QED
  BY SplitSides, SplitDown, SplitLinks DEF TreeFits

-----------------------------------------------------------------------------
(* The tree gets a root: the first leaf, or a page above the two topmost.  *)

LEMMA OneLeaf ==
    ASSUME NEW x \in Nat, x # None, NEW pg, NEW it, pg[x].level = 0, pg[x].next = None,
           pg[x].high = PlusInf, it[x] \in Seq(Items), Len(it[x]) = 1, it[x][1].key \in Entries
    PROVE  TreeFits({x}, pg, it, {x})
<1>1. it[x] # <<>> /\ \A i \in 1 .. 1 : i = 1
  BY EmptySeq
<1>2. InOrder(it[x], 0, PlusInf)
  BY <1>1, EndsAre DEF InOrder
<1>3. TreeTypes({x}, pg, it)
  BY DEF TreeTypes
<1>4. Sides({x}, pg, it)
  BY <1>2 DEF Sides
<1>5. Down({x}, pg, it) /\ OneLink({x}, pg, it, {x})
  BY DEF Down, OneLink
<1> QED
  BY <1>3, <1>4, <1>5 DEF TreeFits

\* The page r with a downlink to each of the two.
RootOver(T, pg, it, pg2, it2, tops, x, y, r) ==
    /\ x \in T /\ y \in T /\ tops = {x, y} /\ pg[x].next = y /\ pg[y].next = None
    /\ r \notin T /\ r # None
    /\ \A b \in T : pg2[b] = pg[b] /\ it2[b] = it[b]
    /\ pg2[r].level = pg[x].level + 1 /\ pg2[r].next = None /\ pg2[r].high = PlusInf
    /\ it2[r] \in Seq(Items) /\ Len(it2[r]) = 2 /\ it2[r][1].child = x /\ it2[r][2].child = y
    /\ it2[r][1].key = MinusInf /\ it2[r][2].key = pg[x].high

LEMMA RootTakes ==
    ASSUME NEW T, NEW pg, NEW it, NEW pg2, NEW it2, NEW tops, TreeFits(T, pg, it, tops),
           NEW x \in Nat, NEW y \in Nat, NEW r, RootOver(T, pg, it, pg2, it2, tops, x, y, r)
    PROVE  TreeFits(T \cup {r}, pg2, it2, {r})
<1> USE DEF RootOver
<1>1. /\ x # None /\ y # None /\ pg[x].level \in Nat /\ pg[y].level = pg[x].level
      /\ pg[x].high \in Entries /\ pg[y].high = PlusInf
      /\ Less(MinusInf, pg[x].high) /\ Less(pg[x].high, PlusInf) /\ Less(MinusInf, PlusInf)
      /\ pg[x].high # MinusInf
  <2>1. x # None /\ y # None /\ pg[x].level \in Nat /\ pg[x].high \in Entries \cup {PlusInf}
    BY DEF TreeFits, TreeTypes
  <2>2. pg[x].high # PlusInf /\ pg[y].high = PlusInf /\ pg[y].level = pg[x].level
    BY <2>1 DEF TreeFits, Sides
  <2> QED
    BY <2>1, <2>2, EndsAre
<1>2. it2[r] # <<>> /\ \A i \in 1 .. Len(it2[r]) : i = 1 \/ i = 2
  <2>1. \A i \in 1 .. 2 : i = 1 \/ i = 2
    OBVIOUS
  <2> QED
    BY <2>1, EmptySeq
<1>3. pg2[r].level \in Nat /\ pg2[r].level > 0 /\ pg2[r].level - 1 = pg[x].level
  BY <1>1
<1>4. InOrder(it2[r], pg2[r].level, PlusInf)
  <2>1. \A i, j \in 1 .. 2 : i < j => i = 1 /\ j = 2
    OBVIOUS
  <2>2. \A i \in 1 .. 2 : i = 1 \/ i = 2
    OBVIOUS
  <2> QED
    BY <1>1, <1>2, <1>3, <2>1, <2>2 DEF InOrder
<1>5. TreeTypes(T \cup {r}, pg2, it2)
  BY <1>2, <1>3 DEF TreeFits, TreeTypes
<1>6. Sides(T \cup {r}, pg2, it2)
  <2> SUFFICES ASSUME NEW b \in T \cup {r}
               PROVE  /\ InOrder(it2[b], pg2[b].level, pg2[b].high)
                      /\ (pg2[b].next = None) <=> (pg2[b].high = PlusInf)
                      /\ pg2[b].next # None =>
                            /\ pg2[b].next \in T \cup {r}
                            /\ pg2[pg2[b].next].level = pg2[b].level
                            /\ Above(it2[pg2[b].next], pg2[b].level, pg2[b].high)
    BY DEF Sides
  <2>1. CASE b = r
    BY <1>4, <2>1
  <2>2. CASE b \in T
    <3>1. pg2[b] = pg[b] /\ it2[b] = it[b]
      BY <2>2
    <3>2. /\ InOrder(it[b], pg[b].level, pg[b].high)
          /\ (pg[b].next = None) <=> (pg[b].high = PlusInf)
          /\ pg[b].next # None =>
                /\ pg[b].next \in T /\ pg[pg[b].next].level = pg[b].level
                /\ Above(it[pg[b].next], pg[b].level, pg[b].high)
      BY <2>2 DEF TreeFits, Sides
    <3> QED
      BY <3>1, <3>2
  <2> QED
    BY <2>1, <2>2
<1>7. Down(T \cup {r}, pg2, it2)
  <2> SUFFICES ASSUME NEW b \in T \cup {r}, pg2[b].level > 0, NEW i \in 1 .. Len(it2[b])
               PROVE  it2[b][i].child \in T \cup {r} /\ Led(pg2, it2, b, i)
    BY DEF Down
  <2>1. CASE b = r
    <3>1. i = 1 \/ i = 2
      BY <1>2, <2>1
    <3>2. it2[r][i].child \in T /\ pg2[x] = pg[x] /\ pg2[y] = pg[y]
      BY <3>1
    <3>3. CASE i = 1
      <4>1. Led(pg2, it2, r, 1)
        BY <1>1, <1>3, <3>2 DEF Led
      <4> QED
        BY <2>1, <3>2, <3>3, <4>1
    <3>4. CASE i = 2
      <4>1. Led(pg2, it2, r, 2)
        BY <1>1, <1>3, <3>2 DEF Led
      <4> QED
        BY <2>1, <3>2, <3>4, <4>1
    <3> QED
      BY <3>1, <3>3, <3>4
  <2>2. CASE b \in T
    <3>1. it2[b] = it[b] /\ pg2[b] = pg[b] /\ pg[b].level > 0 /\ i \in 1 .. Len(it[b])
      BY <2>2
    <3>2. it[b][i].child \in T /\ Led(pg, it, b, i)
      BY <2>2, <3>1 DEF TreeFits, Down
    <3>3. pg[b].next # None => pg[b].next \in T
      BY <2>2 DEF TreeFits, Sides
    <3> QED
      BY <3>1, <3>2, <3>3 DEF Led
  <2> QED
    BY <2>1, <2>2
<1>8. OneLink(T \cup {r}, pg2, it2, {r})
  <2>1. \A a \in T : pg[a].level > 0 => \A i \in 1 .. Len(it[a]) :
           it[a][i].child \in T /\ it[a][i].child # x /\ it[a][i].child # y
    BY DEF TreeFits, Down, OneLink
  <2>2. ASSUME NEW b \in T \cup {r}, b # r
        PROVE  \E a \in T \cup {r} : /\ pg2[a].level > 0
                                     /\ \E i \in 1 .. Len(it2[a]) : it2[a][i].child = b
    <3>1. CASE b = x \/ b = y
      <4>1. 1 \in 1 .. Len(it2[r]) /\ 2 \in 1 .. Len(it2[r])
        OBVIOUS
      <4>2. CASE b = x
        BY <1>3, <4>1, <4>2
      <4>3. CASE b = y
        BY <1>3, <4>1, <4>3
      <4> QED
        BY <3>1, <4>2, <4>3
    <3>2. CASE b # x /\ b # y
      <4>1. PICK a \in T : pg[a].level > 0 /\ \E i \in 1 .. Len(it[a]) : it[a][i].child = b
        BY <2>2, <3>2 DEF TreeFits, OneLink
      <4> QED
        BY <4>1
    <3> QED
      BY <3>1, <3>2
  <2>3. ASSUME NEW a \in T \cup {r}, pg2[a].level > 0, NEW i \in 1 .. Len(it2[a])
        PROVE  it2[a][i].child # r
    <3>1. CASE a = r
      <4>1. i = 1 \/ i = 2
        BY <1>2, <3>1
      <4> QED
        BY <1>2, <3>1, <4>1
    <3>2. CASE a \in T
      BY <2>1, <2>3, <3>2
    <3> QED
      BY <3>1, <3>2
  <2>4. ASSUME NEW a \in T \cup {r}, pg2[a].level > 0, NEW i \in 1 .. Len(it2[a]),
               NEW b \in T \cup {r}, pg2[b].level > 0, NEW j \in 1 .. Len(it2[b]),
               it2[a][i].child = it2[b][j].child
        PROVE  a = b /\ i = j
    <3>1. CASE a = r /\ b = r
      <4>1. (i = 1 \/ i = 2) /\ (j = 1 \/ j = 2)
        BY <1>2, <3>1
      <4>2. x # y
        BY <1>1
      <4> QED
        BY <1>2, <2>4, <3>1, <4>1, <4>2
    <3>2. CASE a = r /\ b \in T
      <4>1. i = 1 \/ i = 2
        BY <1>2, <3>2
      <4> QED
        <5>1. it2[a][i].child = x \/ it2[a][i].child = y
          BY <3>2, <4>1
        <5>2. pg2[b] = pg[b] /\ it2[b] = it[b]
          BY <3>2
        <5>3. it[b][j].child # x /\ it[b][j].child # y
          BY <2>1, <2>4, <3>2, <5>2
        <5> QED
          BY <2>4, <5>1, <5>2, <5>3
    <3>3. CASE a \in T /\ b = r
      <4>1. j = 1 \/ j = 2
        BY <1>2, <3>3
      <4> QED
        BY <1>2, <2>1, <2>4, <3>3, <4>1
    <3>4. CASE a \in T /\ b \in T
      <4>1. pg2[a] = pg[a] /\ it2[a] = it[a] /\ pg2[b] = pg[b] /\ it2[b] = it[b]
        BY <3>4
      <4>2. /\ pg[a].level > 0 /\ i \in 1 .. Len(it[a]) /\ pg[b].level > 0
            /\ j \in 1 .. Len(it[b]) /\ it[a][i].child = it[b][j].child
        BY <2>4, <4>1
      <4> QED
        BY <3>4, <4>2 DEF TreeFits, OneLink
    <3> QED
      BY <3>1, <3>2, <3>3, <3>4
  <2> HIDE DEF RootOver
  <2> QED
    BY <2>2, <2>3, <2>4 DEF OneLink
<1> QED
  BY <1>5, <1>6, <1>7, <1>8 DEF TreeFits

-----------------------------------------------------------------------------
(* The descent for a key.                                                  *)

\* It belongs on page b: it is below the high key, and not below that of a
\* page whose right sibling b is.
Belongs(T, pg, k, b) ==
    b \in T /\ Less(k, pg[b].high) /\ \A d \in T : pg[d].next = b => ~Less(k, pg[d].high)

LEMMA StepDown ==
    ASSUME NEW T, NEW pg, NEW it, NEW tops, TreeFits(T, pg, it, tops),
           \A b \in tops : pg[b].next = None \/ pg[b].next \in tops,
           NEW b \in T, pg[b].level > 0, NEW k \in Bounds, NEW i \in 1 .. Len(it[b]),
           ~Less(k, it[b][i].key)
    PROVE  /\ (\A d \in T : pg[d].next = b => ~Less(k, pg[d].high)) =>
                 \A d \in T : pg[d].next = it[b][i].child => ~Less(k, pg[d].high)
           /\ Less(k, pg[b].high) /\ (i < Len(it[b]) => Less(k, it[b][i + 1].key)) =>
                 Less(k, pg[it[b][i].child].high)
<1> DEFINE c == it[b][i].child
<1>1. c \in T /\ Led(pg, it, b, i) /\ c # None /\ c \notin tops
  BY DEF TreeFits, TreeTypes, Down, OneLink
<1>2. ASSUME \A d \in T : pg[d].next = b => ~Less(k, pg[d].high), NEW d \in T, pg[d].next = c
      PROVE  ~Less(k, pg[d].high)
  <2>1. d \notin tops
    BY <1>1, <1>2
  <2>2. PICK a \in T : pg[a].level > 0 /\ \E j \in 1 .. Len(it[a]) : it[a][j].child = d
    BY <2>1 DEF TreeFits, OneLink
  <2>3. PICK j \in 1 .. Len(it[a]) : it[a][j].child = d
    BY <2>2
  <2>4. Led(pg, it, a, j)
    BY <2>2, <2>3 DEF TreeFits, Down
  <2>5. it[a] \in Seq(Items) /\ Len(it[a]) \in Nat
    BY ItemTypes DEF TreeFits, TreeTypes
  <2>6. CASE j < Len(it[a])
    <3>1. j + 1 \in 1 .. Len(it[a]) /\ pg[d].high = it[a][j + 1].key /\ it[a][j + 1].child = c
      BY <1>2, <2>3, <2>4, <2>5, <2>6 DEF Led
    <3>2. a = b /\ j + 1 = i
      BY <2>2, <3>1 DEF TreeFits, OneLink
    <3> QED
      BY <3>1, <3>2
  <2>7. CASE ~(j < Len(it[a]))
    <3>1. pg[d].high = pg[a].high /\ pg[a].next # None /\ it[pg[a].next][1].child = c
      BY <1>1, <1>2, <2>3, <2>4, <2>7 DEF Led
    <3>2. pg[a].next \in T /\ pg[pg[a].next].level > 0 /\ it[pg[a].next] # <<>>
          /\ it[pg[a].next] \in Seq(Items)
      BY <2>2, <3>1 DEF TreeFits, TreeTypes, Sides, InOrder
    <3>3. 1 \in 1 .. Len(it[pg[a].next])
      BY <3>2, ItemTypes
    <3>4. pg[a].next = b
      BY <3>1, <3>2, <3>3 DEF TreeFits, OneLink
    <3> QED
      BY <1>2, <3>1, <3>4
  <2> QED
    BY <2>6, <2>7
<1>3. ASSUME Less(k, pg[b].high), i < Len(it[b]) => Less(k, it[b][i + 1].key)
      PROVE  Less(k, pg[c].high)
  BY <1>1, <1>3 DEF Led
<1> QED
  BY <1>2, <1>3

-----------------------------------------------------------------------------
(* The tree as it will be once the insert has placed what it has in hand.  *)

\* The page that is to take an item, and the item: an entry for a leaf, the
\* downlink to the right page of a split for the parent.
OwedTo ==
    IF ins.pc \in {"place", "right", "left"} THEN ins.blk
    ELSE IF ins.pc = "sibling" /\ pages[ins.blk].level + 1 <= Len(ins.path)
         THEN ins.path[pages[ins.blk].level + 1] ELSE None
Owed == IF ins.pc = "sibling" THEN Downlink(pages[ins.blk].high, ins.right) ELSE ins.item

Position(p) == IF p.level = 0 THEN LeafPosition(p, ins.entry) ELSE LinkPosition(p, ins.entry) + 1

Due(b) == IF b = OwedTo THEN Splice(pages[b].items, Owed, Position(pages[b])) ELSE pages[b].items
Rows   == [b \in Blocks |-> Due(b)]

\* The right page of a split joins the tree when the left one leads to it.
Tree      == IF ins.pc \in {"right", "left"} THEN Blocks \ {ins.right} ELSE Blocks
Root      == IF ins.pc = "meta" THEN ins.blk ELSE meta.root
RootSplit == ins.pc \in {"sibling", "newroot"} /\ ins.blk = Root
Tops      == IF Root = None THEN {} ELSE IF RootSplit THEN {Root, ins.right} ELSE {Root}

\* The left sibling, as it will be once the one beyond the split knows of it.
Prev(b) == IF ins.pc = "sibling" /\ b = pages[ins.right].next THEN ins.right ELSE pages[b].prev

PrevFits ==
    \A b \in Tree : /\ pages[b].next # None => Prev(pages[b].next) = b
                    /\ Prev(b) # None => Prev(b) \in Tree /\ pages[Prev(b)].next = b

RootFits ==
    /\ (Root = None) <=> (Blocks = {})
    /\ \A b \in Tree : pages[b].root <=> (b = Root /\ ~RootSplit)
    /\ Root # None =>
          /\ Root \in Tree /\ Prev(Root) = None
          /\ IF RootSplit THEN ins.right \in Tree /\ pages[ins.right].next = None
             ELSE pages[Root].next = None

SizeFits ==
    \A b \in Tree : pages[b].items # <<>> /\ Len(pages[b].items) + HighKeys(pages[b]) <= Capacity

\* The pages above the insert still lead to it.
PathFits ==
    ins.pc \in {"place", "right", "left", "sibling"} =>
        \A l \in pages[ins.blk].level + 1 .. Len(ins.path) :
            Child(ins.path[l], ins.entry) =
                IF l = pages[ins.blk].level + 1 THEN ins.blk ELSE ins.path[l - 1]

RightKnown ==
    LET p == pages[ins.blk] q == pages[ins.right] n == Len(Placed) - ins.at IN
    /\ q.level = p.level /\ q.next = p.next /\ q.high = p.high
    /\ q.root = FALSE /\ q.prev = ins.blk /\ Len(q.items) = n
    /\ \A i \in 1 .. n :
          /\ q.items[i].child = Placed[ins.at + i].child
          /\ q.items[i].key = IF p.level > 0 /\ i = 1 THEN MinusInf ELSE Placed[ins.at + i].key

SplitKnown ==
    /\ ins.pc \in {"right", "left"} => ins.at \in SplitPoints(pages[ins.blk], Len(Placed))
    /\ ins.pc = "left" => RightKnown
    /\ ins.pc \in {"sibling", "newroot"} => pages[ins.blk].next = ins.right

SoundTree ==
    /\ TreeFits(Tree, pages, Rows, Tops)
    /\ PrevFits /\ RootFits /\ SizeFits /\ PathFits /\ SplitKnown

SoundInv == failures \in Nat /\ (failures = 0 => SoundTree)

\* A tree is sound by the levels, links, high keys and items of its pages.
LEMMA TreeSame ==
    ASSUME NEW T, NEW pg, NEW it, NEW pg2, NEW it2, NEW tops, TreeFits(T, pg, it, tops),
           \A b \in T : /\ pg2[b].level = pg[b].level /\ pg2[b].next = pg[b].next
                        /\ pg2[b].high = pg[b].high /\ it2[b] = it[b]
    PROVE  TreeFits(T, pg2, it2, tops)
<1>1. TreeTypes(T, pg2, it2)
  BY DEF TreeFits, TreeTypes
<1>2. Sides(T, pg2, it2)
  <2> SUFFICES ASSUME NEW b \in T
               PROVE  /\ InOrder(it2[b], pg2[b].level, pg2[b].high)
                      /\ (pg2[b].next = None) <=> (pg2[b].high = PlusInf)
                      /\ pg2[b].next # None =>
                            /\ pg2[b].next \in T /\ pg2[pg2[b].next].level = pg2[b].level
                            /\ Above(it2[pg2[b].next], pg2[b].level, pg2[b].high)
    BY DEF Sides
  <2> QED
    BY DEF TreeFits, Sides
<1>3. Down(T, pg2, it2)
  <2> SUFFICES ASSUME NEW b \in T, pg2[b].level > 0, NEW i \in 1 .. Len(it2[b])
               PROVE  it2[b][i].child \in T /\ Led(pg2, it2, b, i)
    BY DEF Down
  <2>1. it[b][i].child \in T /\ Led(pg, it, b, i)
    BY DEF TreeFits, Down
  <2>2. pg[b].next # None => it2[pg[b].next] = it[pg[b].next]
    BY DEF TreeFits, Sides
  <2> QED
    <3> DEFINE c == it[b][i].child
    <3>1. /\ it2[b] = it[b] /\ pg2[b].next = pg[b].next /\ pg2[b].high = pg[b].high
          /\ pg2[b].level = pg[b].level
      OBVIOUS
    <3>2. /\ c \in T /\ pg2[c].level = pg[c].level /\ pg2[c].next = pg[c].next
          /\ pg2[c].high = pg[c].high
      BY <2>1
    <3> QED
      BY ONLY <2>1, <2>2, <3>1, <3>2 DEF Led
<1>4. OneLink(T, pg2, it2, tops)
  <2>1. OneLink(T, pg, it, tops)
    BY DEF TreeFits
  <2>2. \A b \in T : pg2[b].level = pg[b].level /\ it2[b] = it[b]
    OBVIOUS
  <2> QED
    BY ONLY <2>1, <2>2, SameLinks
<1> QED
  BY <1>1, <1>2, <1>3, <1>4 DEF TreeFits

LEMMA PlacedIsDue == ins.pc \in {"place", "right", "left"} => Due(ins.blk) = Placed /\ OwedTo = ins.blk
<1> QED
  BY Zenon DEF Due, OwedTo, Owed, Placed, Position, Splice

LEMMA NoneDue == ASSUME TypeInv, OwedTo = None PROVE \A b \in Blocks : Rows[b] = pages[b].items
<1> QED
  BY NoneIsNoBlock DEF Rows, Due

LEMMA PlaceSound == ASSUME IndInv, SoundTree, Place PROVE SoundTree'
<1>1. /\ Shape /\ TypeInv /\ ToPlace /\ ins.blk \in Blocks /\ meta.root # None /\ ins.pc = "place"
      /\ PageInv(ins.blk) /\ ins.entry \in Entries
  BY DEF IndInv, Shape, TypeInv, InsInv, Place, ToPlace, OnPath
<1>2. PlacedWell
  BY <1>1, PlacedIs
<1>3. PICK b \in Blocks : b = ins.blk
  BY <1>1
<1>4. pages[b] \in Pages
  BY <1>1, PageTypes
<1>5. PICK items \in Seq(Items) : items = Placed /\ Len(items) = Len(pages[b].items) + 1
  BY <1>2, <1>3 DEF PlacedWell
<1> DEFINE q == [pages[b] EXCEPT !.items = items]
<1>6. q \in Pages /\ q.items = items /\ q.level = pages[b].level /\ q.next = pages[b].next
      /\ q.high = pages[b].high /\ q.prev = pages[b].prev /\ q.root = pages[b].root
  BY <1>4 DEF Pages
<1>7. pages' = [pages EXCEPT ![b] = q]
  BY <1>3, <1>5 DEF Place
<1> HIDE DEF q
<1>8. /\ pages' \in Seq(Pages) /\ Blocks' = Blocks
      /\ pages'[b] = q /\ \A c \in Blocks : c # b => pages'[c] = pages[c]
  BY <1>1, <1>6, <1>7, PageWritten
<1>9. ins' = NoInsert /\ meta' = meta /\ ins'.pc = "idle"
  BY DEF Place, NoInsert
<1>10. /\ \A c \in Blocks : /\ pages'[c].level = pages[c].level /\ pages'[c].next = pages[c].next
                            /\ pages'[c].high = pages[c].high /\ pages'[c].prev = pages[c].prev
                            /\ pages'[c].root = pages[c].root
       /\ \A c \in Blocks : pages'[c].items = IF c = b THEN items ELSE pages[c].items
  BY <1>6, <1>8
<1>11. Tree = Blocks /\ Tree' = Blocks /\ Root = meta.root /\ Root' = meta.root
       /\ ~RootSplit /\ ~RootSplit' /\ Tops = {meta.root} /\ Tops' = {meta.root}
       /\ OwedTo' = None
  BY <1>1, <1>8, <1>9 DEF Tree, Root, RootSplit, Tops, OwedTo
<1>12. \A c \in Blocks : Rows[c] = pages'[c].items /\ Rows'[c] = pages'[c].items
  <2>1. Rows[b] = items
    BY <1>1, <1>3, <1>5, PlacedIsDue DEF Rows
  <2>2. \A c \in Blocks : c # b => Rows[c] = pages[c].items
    BY <1>1, <1>3, PlacedIsDue DEF Rows, Due
  <2>3. \A c \in Blocks : Rows'[c] = pages'[c].items
    BY <1>1, <1>8, <1>11, NoneIsNoBlock DEF Rows, Due
  <2> QED
    BY <1>10, <2>1, <2>2, <2>3
<1>13. TreeFits(Tree, pages, Rows, Tops)'
  <2>1. TreeFits(Blocks, pages, Rows, {meta.root})
    BY <1>11 DEF SoundTree
  <2>2. TreeFits(Blocks, pages', Rows', {meta.root})
    BY <1>10, <1>12, <2>1, TreeSame
  <2> QED
    BY <1>11, <2>2
<1>14. PrevFits'
  <2>1. \A c \in Blocks : Prev(c) = pages[c].prev /\ Prev(c)' = pages'[c].prev
    BY <1>1, <1>9 DEF Prev
  <2>2. \A c \in Blocks : pages[c].next # None => pages[c].next \in Blocks
    BY <1>1 DEF Shape, PageInv
  <2> QED
    BY <1>10, <1>11, <2>1, <2>2 DEF SoundTree, PrevFits
<1>15. RootFits'
  <2>1. Prev(meta.root) = pages[meta.root].prev /\ Prev(meta.root)' = pages'[meta.root].prev
    BY <1>1, <1>9 DEF Prev
  <2> QED
    BY <1>1, <1>8, <1>9, <1>10, <1>11, <2>1 DEF SoundTree, RootFits
<1>16. SizeFits'
  <2>1. \A c \in Blocks : HighKeys(pages[c])' = HighKeys(pages[c])
    BY <1>10 DEF HighKeys
  <2>2. HighKeys(pages[b]) \in {0, 1} /\ Len(pages[b].items) \in Nat /\ Capacity \in Nat
    BY <1>1, PageTypes, CapacityAssumption DEF HighKeys
  <2>3. Len(items) + HighKeys(pages[b]) <= Capacity /\ items # <<>>
    BY <1>3, <1>5, <2>2, EmptySeq DEF Place, HasRoom
  <2> QED
    BY <1>10, <1>11, <2>1, <2>3 DEF SoundTree, SizeFits
<1>17. PathFits' /\ SplitKnown'
  BY <1>9 DEF PathFits, SplitKnown
<1> QED
  BY <1>13, <1>14, <1>15, <1>16, <1>17 DEF SoundTree

\* Steps that leave the tree alone, or only give its pages the items they are due.
LEMMA TreeKept ==
    ASSUME SoundTree, Tree' = Tree, Tops' = Tops, Root' = Root, RootSplit' <=> RootSplit,
           RootSplit => ins'.right = ins.right, (Blocks' = {}) <=> (Blocks = {}),
           \A c \in Tree : /\ pages'[c].level = pages[c].level /\ pages'[c].next = pages[c].next
                           /\ pages'[c].high = pages[c].high /\ pages'[c].root = pages[c].root
                           /\ pages'[c].items = pages[c].items
                           /\ Rows'[c] = Rows[c] /\ Prev(c)' = Prev(c)
    PROVE  TreeFits(Tree, pages, Rows, Tops)' /\ PrevFits' /\ RootFits' /\ SizeFits'
<1> DEFINE T == Tree
           tops == Tops
<1>1. TreeFits(T, pages, Rows, tops)
  BY DEF SoundTree
<1> HIDE DEF T, tops
<1>2. TreeFits(T, pages', Rows', tops)
  BY <1>1, TreeSame DEF T
<1>3. TreeFits(Tree, pages, Rows, Tops)'
  BY <1>2 DEF T, tops
<1>4. \A c \in T : pages[c].next # None => pages[c].next \in T
  BY <1>1 DEF TreeFits, Sides
<1>5. PrevFits'
  BY <1>4 DEF SoundTree, PrevFits, T
<1>6. RootFits'
  BY DEF SoundTree, RootFits
<1>7. SizeFits'
  BY DEF SoundTree, SizeFits, HighKeys
<1> QED
  BY <1>3, <1>5, <1>6, <1>7

LEMMA NewRightSound == ASSUME IndInv, IndInv', SoundTree, NewRight PROVE SoundTree'
<1>1. /\ Shape /\ TypeInv /\ ToPlace /\ OnPath /\ ins.blk \in Blocks /\ meta.root # None
      /\ ins \in Inserts /\ ins.pc = "place" /\ meta.root \in Blocks
      /\ \A l \in 1 .. meta.level : ins.path[l] \in Blocks
      /\ Len(ins.path) = meta.level /\ pages[ins.blk].level \in Nat
  BY PageTypes DEF IndInv, Shape, MetaInv, TypeInv, InsInv, NewRight, ToPlace, OnPath
<1>2. PICK x \in Nat : x = Len(pages) + 1 /\ NotLed(x) /\ x \notin Blocks
  BY <1>1, FreshNotLed
<1>3. NewPage \in Pages
  BY EmptySeq DEF NewPage, Pages, None
<1>4. /\ Blocks' = Blocks \cup {x} /\ \A c \in Blocks : pages'[c] = pages[c]
  BY <1>1, <1>2, <1>3, PageAdded DEF NewRight
<1>5. meta' = meta
  BY DEF NewRight
<1>6. PICK k \in SplitPoints(pages[ins.blk], Len(Placed)) :
          ins' = [ins EXCEPT !.pc = "right", !.at = k, !.right = x]
  BY <1>2, Zenon DEF NewRight
<1>7. /\ ins'.pc = "right" /\ ins'.at = k /\ ins'.right = x
      /\ ins'.entry = ins.entry /\ ins'.blk = ins.blk /\ ins'.path = ins.path
      /\ ins'.item = ins.item
  BY <1>1, <1>6 DEF Inserts
<1>8. /\ Tree = Blocks /\ Tree' = Blocks /\ Root = meta.root /\ Root' = meta.root
      /\ ~RootSplit /\ ~RootSplit' /\ Tops = {meta.root} /\ Tops' = {meta.root}
      /\ OwedTo = ins.blk /\ OwedTo' = ins.blk /\ Owed = ins.item /\ Owed' = ins.item
  BY <1>1, <1>2, <1>4, <1>5, <1>7 DEF Tree, Root, RootSplit, Tops, OwedTo, Owed
<1>9. ASSUME NEW c \in Blocks PROVE Rows'[c] = Rows[c] /\ Prev(c)' = Prev(c)
  <2>1. Position(pages[c])' = Position(pages[c])
    BY <1>4, <1>7 DEF Position, LeafPosition, LinkPosition
  <2>2. Due(c)' = Due(c)
    BY <1>4, <1>8, <2>1 DEF Due
  <2> QED
    BY <1>1, <1>4, <1>7, <2>2 DEF Rows, Prev
<1>10. TreeFits(Tree, pages, Rows, Tops)' /\ PrevFits' /\ RootFits' /\ SizeFits'
  BY <1>1, <1>4, <1>8, <1>9, TreeKept
<1>11. PathFits'
  <2> SUFFICES ASSUME NEW l \in pages[ins.blk].level + 1 .. Len(ins.path)
               PROVE  Child(ins.path[l], ins.entry)' =
                         IF l = pages[ins.blk].level + 1 THEN ins.blk ELSE ins.path[l - 1]
    BY <1>1, <1>4, <1>7 DEF PathFits
  <2>1. l \in 1 .. meta.level
    BY <1>1
  <2>2. pages'[ins.path[l]] = pages[ins.path[l]]
    BY <1>1, <1>4, <2>1
  <2>3. Child(ins.path[l], ins.entry)' = Child(ins.path[l], ins.entry)
    BY <1>7, <2>2 DEF Child, LinkPosition
  <2> QED
    BY <1>1, <2>3 DEF SoundTree, PathFits
<1>12. SplitKnown'
  <2>1. Placed' = Placed
    BY <1>1, <1>4, <1>7, PlacedSame
  <2>2. pages'[ins.blk] = pages[ins.blk]
    BY <1>1, <1>4
  <2> QED
    BY <1>6, <1>7, <2>1, <2>2 DEF SplitKnown, SplitPoints, HighKeys
<1> QED
  BY <1>10, <1>11, <1>12 DEF SoundTree

\* What the right page of a split gets.
LEMMA ToRightIs ==
    ASSUME NEW s \in Seq(Items), NEW at \in 1 .. Len(s) - 1, NEW level \in Nat
    PROVE  LET r == ToRight(s, at, level) IN
           /\ r \in Seq(Items) /\ Len(r) = Len(s) - at
           /\ \A i \in 1 .. Len(s) - at :
                 /\ r[i].child = s[at + i].child
                 /\ r[i].key = IF level > 0 /\ i = 1 THEN MinusInf ELSE s[at + i].key
<1> DEFINE v == Moved(s, at)
           m == Len(s) - at
           e == [v[1] EXCEPT !.key = MinusInf]
           r == ToRight(s, at, level)
<1>1. /\ v \in Seq(Items) /\ DOMAIN v = 1 .. m
      /\ \A i \in 1 .. m : v[i] = s[i + at]
  BY PartsAre
<1>2. Len(s) \in Nat /\ at \in Nat /\ m \in Nat /\ 1 \in 1 .. m /\ Len(v) = m
      /\ \A i \in 1 .. m : i + at = at + i
  <2>1. Len(s) \in Nat /\ Len(v) \in Nat /\ DOMAIN v = 1 .. Len(v)
    BY <1>1, LenProperties
  <2> HIDE DEF v
  <2> QED
    BY <1>1, <2>1
<1> HIDE DEF v, m
<1>3. v[1] \in Items /\ e \in Items /\ e.key = MinusInf /\ e.child = v[1].child
  <2>1. v[1] \in Items
    BY <1>1, <1>2, ElementOfSeq
  <2> QED
    BY <2>1 DEF Items, Keys
<1> HIDE DEF e
<1>4. CASE level = 0
  <2>1. r = v
    BY <1>4 DEF ToRight, v
  <2> HIDE DEF r
  <2>2. r \in Seq(Items) /\ Len(r) = m /\ \A i \in 1 .. m : r[i] = s[at + i]
    BY <1>1, <1>2, <2>1
  <2> QED
    <3>1. \A i \in 1 .. m : r[i].key = IF level > 0 /\ i = 1 THEN MinusInf ELSE s[at + i].key
      BY <1>4, <2>2
    <3> QED
      BY <2>2, <3>1 DEF r, m
<1>5. CASE level # 0
  <2>1. r = [v EXCEPT ![1] = e]
    BY <1>5 DEF ToRight, v, e
  <2> HIDE DEF r
  <2>2. /\ r \in Seq(Items) /\ Len(r) = m
        /\ \A j \in 1 .. m : r[j] = IF j = 1 THEN e ELSE v[j]
    BY <1>1, <1>2, <1>3, <2>1, ExceptSeq
  <2>3. \A i \in 1 .. m : /\ r[i].child = s[at + i].child
                          /\ r[i].key = IF level > 0 /\ i = 1 THEN MinusInf ELSE s[at + i].key
    BY <1>1, <1>2, <1>3, <1>5, <2>2
  <2> QED
    BY <2>2, <2>3 DEF r, m
<1> QED
  BY <1>4, <1>5

LEMMA WriteRightSound == ASSUME IndInv, IndInv', SoundTree, WriteRight PROVE SoundTree'
<1>1. /\ Shape /\ TypeInv /\ ToPlace /\ OnPath /\ ins.blk \in Blocks /\ meta.root # None
      /\ ins \in Inserts /\ ins.pc = "right" /\ meta.root \in Blocks /\ ToSplit
      /\ ins.right \in Blocks /\ ins.right # ins.blk /\ ins.right # meta.root
      /\ \A l \in 1 .. meta.level : ins.path[l] \in Blocks /\ ins.path[l] # ins.right
      /\ Len(ins.path) = meta.level /\ pages[ins.blk].level \in Nat
  BY PageTypes DEF IndInv, Shape, MetaInv, TypeInv, InsInv, WriteRight, ToSplit, ToPlace, OnPath, NotLed
<1>2. PlacedWell /\ ItemsInv(Placed, pages[ins.blk].level)
  <2>1. ChainInv
    BY DEF IndInv
  <2> QED
    BY <1>1, <2>1, PlacedFits
<1>3. PICK b \in Blocks : b = ins.blk
  BY <1>1
<1>4. PICK x \in Blocks : x = ins.right
  BY <1>1
<1>5. PICK s \in Seq(Items) : s = Placed
  BY <1>2 DEF PlacedWell
<1>6. PICK at \in 1 .. Len(s) - 1 : at = ins.at
  BY <1>1, <1>5 DEF ToSplit
<1>7. pages[b] \in Pages /\ b \in Nat /\ pages[b].level \in Nat
  BY <1>1, PageTypes
<1>8. PICK level \in Nat : level = pages[b].level
  BY <1>7
<1>9. PICK items \in Seq(Items) :
          /\ items = ToRight(s, at, level) /\ Len(items) = Len(s) - at
          /\ \A i \in 1 .. Len(s) - at :
                /\ items[i].child = s[at + i].child
                /\ items[i].key = IF level > 0 /\ i = 1 THEN MinusInf ELSE s[at + i].key
  BY ToRightIs
<1> DEFINE q == [pages[b] EXCEPT !.root = FALSE, !.prev = b, !.items = items]
<1>10. q \in Pages /\ q.items = items /\ q.level = pages[b].level /\ q.next = pages[b].next
       /\ q.high = pages[b].high /\ q.root = FALSE /\ q.prev = b
  BY <1>7 DEF Pages
<1>11. pages' = [pages EXCEPT ![x] = q]
  BY <1>3, <1>4, <1>5, <1>6, <1>8, <1>9 DEF WriteRight, ToRight, Moved
<1> HIDE DEF q
<1>12. /\ Blocks' = Blocks /\ pages'[x] = q /\ \A c \in Blocks : c # x => pages'[c] = pages[c]
  BY <1>1, <1>10, <1>11, PageWritten
<1>13. meta' = meta /\ ins' = [ins EXCEPT !.pc = "left"]
  BY DEF WriteRight
<1>14. /\ ins'.pc = "left" /\ ins'.at = ins.at /\ ins'.right = ins.right
       /\ ins'.entry = ins.entry /\ ins'.blk = ins.blk /\ ins'.path = ins.path
       /\ ins'.item = ins.item
  BY <1>1, <1>13 DEF Inserts
<1>15. /\ Tree = Blocks \ {x} /\ Tree' = Blocks \ {x} /\ Root = meta.root /\ Root' = meta.root
       /\ ~RootSplit /\ ~RootSplit' /\ Tops = {meta.root} /\ Tops' = {meta.root}
       /\ OwedTo = b /\ OwedTo' = b /\ Owed = ins.item /\ Owed' = ins.item
  BY <1>1, <1>3, <1>4, <1>12, <1>13, <1>14 DEF Tree, Root, RootSplit, Tops, OwedTo, Owed
<1>16. ASSUME NEW c \in Tree PROVE Rows'[c] = Rows[c] /\ Prev(c)' = Prev(c) /\ pages'[c] = pages[c]
  <2>1. pages'[c] = pages[c] /\ c \in Blocks
    BY <1>12, <1>15
  <2>2. Position(pages[c])' = Position(pages[c])
    BY <1>14, <2>1 DEF Position, LeafPosition, LinkPosition
  <2>3. Due(c)' = Due(c)
    BY <1>15, <2>1, <2>2 DEF Due
  <2> QED
    BY <1>1, <1>12, <1>14, <2>1, <2>3 DEF Rows, Prev
<1>17. TreeFits(Tree, pages, Rows, Tops)' /\ PrevFits' /\ RootFits' /\ SizeFits'
  BY <1>12, <1>15, <1>16, TreeKept
<1>18. pages'[b] = pages[b] /\ b # x
  BY <1>1, <1>3, <1>4, <1>12
<1>19. PathFits'
  <2> SUFFICES ASSUME NEW l \in pages[ins.blk].level + 1 .. Len(ins.path)
               PROVE  Child(ins.path[l], ins.entry)' =
                         IF l = pages[ins.blk].level + 1 THEN ins.blk ELSE ins.path[l - 1]
    BY <1>3, <1>14, <1>18 DEF PathFits
  <2>1. l \in 1 .. meta.level
    BY <1>1
  <2>2. pages'[ins.path[l]] = pages[ins.path[l]]
    BY <1>1, <1>4, <1>12, <2>1
  <2>3. Child(ins.path[l], ins.entry)' = Child(ins.path[l], ins.entry)
    BY <1>14, <2>2 DEF Child, LinkPosition
  <2> QED
    BY <1>1, <2>3 DEF SoundTree, PathFits
<1>20. Placed' = s
  BY <1>3, <1>5, <1>14, <1>18, PlacedSame
<1>21. RightKnown'
  <2>1. ins'.blk = b /\ ins'.right = x /\ ins'.at = at /\ pages'[x] = q /\ pages'[b] = pages[b]
    BY <1>3, <1>4, <1>6, <1>12, <1>14, <1>18
  <2> QED
    BY <1>5, <1>6, <1>8, <1>9, <1>10, <1>20, <2>1 DEF RightKnown
<1>22. SplitKnown'
  <2>1. SplitPoints(pages[ins.blk], Len(Placed))' = SplitPoints(pages[ins.blk], Len(Placed))
    BY <1>3, <1>5, <1>14, <1>18, <1>20 DEF SplitPoints, HighKeys
  <2> QED
    BY <1>1, <1>14, <1>21, <2>1 DEF SoundTree, SplitKnown
<1> QED
  BY <1>17, <1>19, <1>22 DEF SoundTree

\* What changes neither pages nor insert leaves the tree sound.
LEMMA SameSound == ASSUME SoundTree, UNCHANGED <<pages, meta, ins>> PROVE SoundTree'
<1>1. Blocks' = Blocks
  BY DEF Blocks
<1>2. Placed' = Placed /\ OwedTo' = OwedTo /\ Owed' = Owed /\ Tree' = Tree /\ Root' = Root
      /\ (RootSplit' <=> RootSplit)
  BY <1>1 DEF Placed, LeafPosition, LinkPosition, OwedTo, Owed, Tree, Root, RootSplit
<1>3. \A c \in Blocks : Due(c)' = Due(c)
  BY <1>2 DEF Due, Position, LeafPosition, LinkPosition
<1>4. Rows' = Rows
  BY <1>1, <1>3 DEF Rows
<1>5. Tops' = Tops
  BY <1>2 DEF Tops
<1>6. TreeFits(Tree, pages, Rows, Tops)'
  BY <1>2, <1>4, <1>5 DEF SoundTree
<1>7. PrevFits'
  BY <1>2 DEF SoundTree, PrevFits, Prev
<1>8. RootFits'
  BY <1>1, <1>2 DEF SoundTree, RootFits, Prev
<1>9. SizeFits'
  BY <1>2 DEF SoundTree, SizeFits, HighKeys
<1>10. PathFits'
  BY DEF SoundTree, PathFits, Child, LinkPosition
<1>11. SplitKnown'
  BY <1>2 DEF SoundTree, SplitKnown, RightKnown, SplitPoints, HighKeys
<1> QED
  BY <1>6, <1>7, <1>8, <1>9, <1>10, <1>11 DEF SoundTree

LEMMA WriteMetaSound == ASSUME IndInv, IndInv', SoundTree, WriteMeta PROVE SoundTree'
<1>1. /\ TypeInv /\ TypeInv' /\ ins.pc = "meta" /\ ins.blk \in Blocks
  BY DEF IndInv, Shape, InsInv, WriteMeta, RootReady
<1>2. /\ pages' = pages /\ ins' = NoInsert /\ ins'.pc = "idle" /\ meta'.root = ins.blk
      /\ Blocks' = Blocks
  BY DEF WriteMeta, NoInsert, Blocks
<1>3. /\ Tree = Blocks /\ Tree' = Blocks /\ Root' = Root /\ ~RootSplit /\ ~RootSplit'
      /\ Tops' = Tops /\ OwedTo = None /\ OwedTo' = None
  BY <1>1, <1>2 DEF Tree, Root, RootSplit, Tops, OwedTo
<1>4. \A c \in Blocks : Rows[c] = pages[c].items /\ Rows'[c] = pages'[c].items
  <2>1. \A c \in Blocks : Rows[c] = pages[c].items
    BY <1>1, <1>3, NoneDue
  <2>2. \A c \in Blocks' : Rows'[c] = pages'[c].items
    BY <1>1, <1>2, <1>3, NoneIsNoBlock DEF Rows, Due
  <2> QED
    BY <1>2, <2>1, <2>2
<1>5. \A c \in Blocks : Prev(c)' = Prev(c)
  BY <1>1, <1>2 DEF Prev
<1>6. TreeFits(Tree, pages, Rows, Tops)' /\ PrevFits' /\ RootFits' /\ SizeFits'
  BY <1>2, <1>3, <1>4, <1>5, TreeKept
<1>7. PathFits' /\ SplitKnown'
  BY <1>2 DEF PathFits, SplitKnown
<1> QED
  BY <1>6, <1>7 DEF SoundTree

LEMMA NewRootLeafSound == ASSUME IndInv, IndInv', SoundTree, NewRootLeaf PROVE SoundTree'
<1>1. /\ TypeInv /\ TypeInv' /\ meta.root = None /\ ins \in Inserts /\ ins.pc = "rootleaf"
      /\ ins.entry \in Entries /\ ins.entry \in Keys
  BY DEF IndInv, Shape, TypeInv, InsInv, NewRootLeaf, Keys
<1>2. Root = None /\ Blocks = {}
  BY <1>1 DEF SoundTree, RootFits, Root
<1>3. PICK e \in Entries : e = ins.entry
  BY <1>1
<1> DEFINE it == LeafItem(e)
           items == <<it>>
           q == [NewPage EXCEPT !.root = TRUE, !.items = items]
<1>4. it \in Items /\ it.key = e
  BY DEF LeafItem, Items, Keys, None
<1> HIDE DEF it
<1>5. items \in Seq(Items) /\ Len(items) = 1 /\ items[1] = it /\ items # <<>>
  BY <1>4
<1> HIDE DEF items
<1>6. /\ q \in Pages /\ q.items = items /\ q.level = 0 /\ q.next = None /\ q.prev = None
      /\ q.high = PlusInf /\ q.root = TRUE
  BY <1>5 DEF NewPage, Pages, None
<1>7. pages' = Append(pages, q)
  BY <1>3 DEF NewRootLeaf, it, items
<1> HIDE DEF q
<1>8. Len(pages) = 0
  <2>1. Blocks = 1 .. Len(pages) /\ Len(pages) \in Nat
    BY <1>1, PageTypes
  <2> QED
    BY <1>2, <2>1
<1>9. Blocks' = {1} /\ pages'[1] = q /\ Len(pages') = 1
  BY <1>1, <1>2, <1>6, <1>7, <1>8, PageAdded
<1>10. ins'.pc = "meta" /\ ins'.blk = 1
  BY <1>1, <1>9 DEF NewRootLeaf, Inserts
<1>11. /\ Tree' = {1} /\ Root' = 1 /\ ~RootSplit' /\ Tops' = {1} /\ OwedTo' = None /\ 1 # None
  BY <1>9, <1>10 DEF Tree, Root, RootSplit, Tops, OwedTo, None
<1>12. Rows'[1] = items /\ Prev(1)' = None
  BY <1>6, <1>9, <1>10, <1>11 DEF Rows, Due, Prev
<1>13. TreeFits({1}, pages', Rows', {1})
  BY <1>4, <1>5, <1>6, <1>9, <1>11, <1>12, OneLeaf
<1>14. TreeFits(Tree, pages, Rows, Tops)'
  BY <1>11, <1>13
<1>15. PrevFits' /\ RootFits'
  BY <1>6, <1>9, <1>11, <1>12 DEF PrevFits, RootFits
<1>16. SizeFits'
  <2>1. HighKeys(pages[1])' = 0 /\ pages'[1].items = items
    BY <1>6, <1>9 DEF HighKeys
  <2>2. 1 + 0 <= Capacity
    BY CapacityAssumption
  <2> QED
    BY <1>5, <1>11, <2>1, <2>2 DEF SizeFits
<1>17. PathFits' /\ SplitKnown'
  BY <1>10 DEF PathFits, SplitKnown
<1> QED
  BY <1>14, <1>15, <1>16, <1>17 DEF SoundTree

LEMMA NewRootSound == ASSUME IndInv, IndInv', SoundTree, NewRoot PROVE SoundTree'
<1>1. /\ TypeInv /\ TypeInv' /\ IsSplit /\ ins.pc = "newroot" /\ meta.root # None
      /\ ins \in Inserts /\ ins.blk = meta.root /\ ins.blk \in Blocks /\ ins.right \in Blocks
      /\ pages[ins.blk].high \in Entries
  BY DEF IndInv, Shape, InsInv, NewRoot, IsSplit, OnPath, TypeInv
<1>2. PICK x \in Nat : x = Len(pages) + 1 /\ x # None /\ x \notin Blocks
  BY <1>1, FreshNotLed DEF NotLed, IndInv
<1>3. PICK b \in Blocks : b = ins.blk
  BY <1>1
<1>4. PICK r \in Blocks : r = ins.right
  BY <1>1
<1>5. PICK high \in Entries : high = pages[b].high
  BY <1>1, <1>3
<1>6. b \in Nat /\ r \in Nat /\ pages[b].level \in Nat
  BY <1>1, PageTypes
<1>7. PICK level \in Nat : level = pages[b].level
  BY <1>6
<1> DEFINE left  == Downlink(MinusInf, b)
           right == Downlink(high, r)
           items == <<left, right>>
           q == [NewPage EXCEPT !.level = level + 1, !.root = TRUE, !.items = items]
<1>8. /\ left \in Items /\ left.key = MinusInf /\ left.child = b
      /\ right \in Items /\ right.key = high /\ right.child = r
  <2>1. MinusInf \in Keys /\ high \in Keys
    BY DEF Keys
  <2> QED
    BY <1>6, <2>1, DownlinkIs
<1> HIDE DEF left, right
<1>9. /\ items \in Seq(Items) /\ Len(items) = 2 /\ items # <<>>
      /\ items[1] = left /\ items[2] = right
  BY <1>8
<1> HIDE DEF items
<1>10. /\ q \in Pages /\ q.items = items /\ q.level = level + 1 /\ q.next = None
       /\ q.prev = None /\ q.high = PlusInf /\ q.root = TRUE
  <2>1. level + 1 \in Nat
    OBVIOUS
  <2>2. NewPage \in Pages /\ NewPage.next = None /\ NewPage.prev = None /\ NewPage.high = PlusInf
    BY EmptySeq DEF NewPage, Pages, None
  <2> QED
    BY <1>9, <2>1, <2>2 DEF Pages
<1>11. pages' = Append(pages, q)
  BY <1>3, <1>4, <1>5, <1>7 DEF NewRoot, left, right, items
<1> HIDE DEF q
<1>12. /\ Blocks' = Blocks \cup {x} /\ Len(pages') = x
       /\ pages'[x] = q /\ \A c \in Blocks : pages'[c] = pages[c]
  BY <1>1, <1>2, <1>10, <1>11, PageAdded
<1>13. ins'.pc = "meta" /\ ins'.blk = x
  BY <1>1, <1>2, <1>12 DEF NewRoot, Inserts
<1>14. /\ Tree = Blocks /\ Root = b /\ RootSplit /\ Tops = {b, r} /\ OwedTo = None
       /\ Tree' = Blocks \cup {x} /\ Root' = x /\ ~RootSplit' /\ Tops' = {x} /\ OwedTo' = None
  BY <1>1, <1>2, <1>3, <1>4, <1>12, <1>13 DEF Tree, Root, RootSplit, Tops, OwedTo
<1>15. /\ \A c \in Blocks : Rows[c] = pages[c].items /\ Rows'[c] = pages[c].items
       /\ Rows'[x] = items
  <2>1. \A c \in Blocks : Rows[c] = pages[c].items
    BY <1>1, <1>14, NoneDue
  <2>2. \A c \in Blocks' : Rows'[c] = pages'[c].items
    <3>1. None \notin Blocks'
      BY <1>1, <1>2, <1>12, NoneIsNoBlock
    <3> QED
      BY <1>14, <3>1 DEF Rows, Due
  <2> QED
    BY <1>10, <1>12, <2>1, <2>2
<1>16. /\ TreeFits(Blocks, pages, Rows, {b, r}) /\ pages[b].next = r /\ pages[r].next = None
  <2>1. TreeFits(Blocks, pages, Rows, {b, r})
    BY <1>14 DEF SoundTree
  <2>2. pages[b].next = r
    BY <1>1, <1>3, <1>4 DEF SoundTree, SplitKnown
  <2>3. pages[r].next = None
    BY <1>2, <1>4, <1>14, <1>6, <1>3, <1>1, NoneIsNoBlock DEF SoundTree, RootFits
  <2> QED
    BY <2>1, <2>2, <2>3
<1>17. TreeFits(Blocks \cup {x}, pages', Rows', {x})
  <2>1. pages'[x].level = pages[b].level + 1 /\ pages'[x].next = None /\ pages'[x].high = PlusInf
    BY <1>7, <1>10, <1>12
  <2>2. /\ Rows'[x] \in Seq(Items) /\ Len(Rows'[x]) = 2 /\ Rows'[x][1].child = b
        /\ Rows'[x][2].child = r /\ Rows'[x][1].key = MinusInf /\ Rows'[x][2].key = pages[b].high
    BY <1>5, <1>8, <1>9, <1>15
  <2>3. \A c \in Blocks : pages'[c] = pages[c] /\ Rows'[c] = Rows[c]
    BY <1>12, <1>15
  <2>4. RootOver(Blocks, pages, Rows, pages', Rows', {b, r}, b, r, x)
    BY <1>2, <1>16, <2>1, <2>2, <2>3 DEF RootOver
  <2> QED
    BY <1>6, <1>16, <2>4, RootTakes
<1>18. TreeFits(Tree, pages, Rows, Tops)'
  BY <1>14, <1>17
<1>19. /\ \A c \in Blocks : Prev(c) = pages[c].prev /\ Prev(c)' = pages[c].prev
       /\ Prev(x)' = None
  BY <1>1, <1>10, <1>12, <1>13 DEF Prev
<1>20. PrevFits'
  <2>1. \A c \in Blocks : pages[c].next # None => pages[c].next \in Blocks
    BY <1>16 DEF TreeFits, Sides
  <2>2. \A c \in Blocks : /\ pages[c].next # None => pages[pages[c].next].prev = c
                          /\ pages[c].prev # None => /\ pages[c].prev \in Blocks
                                                     /\ pages[pages[c].prev].next = c
    BY <1>14, <1>19, <2>1 DEF SoundTree, PrevFits
  <2>3. \A c \in Blocks \cup {x} :
           /\ pages'[c].next # None => pages'[pages'[c].next].prev = c
           /\ pages'[c].prev # None => /\ pages'[c].prev \in Blocks \cup {x}
                                       /\ pages'[pages'[c].prev].next = c
    BY <1>10, <1>12, <2>1, <2>2
  <2>4. \A c : Prev(c)' = pages'[c].prev
    BY <1>13 DEF Prev
  <2> QED
    BY <1>14, <2>3, <2>4 DEF PrevFits
<1>21. RootFits'
  <2>1. \A c \in Blocks : ~pages[c].root
    BY <1>14 DEF SoundTree, RootFits
  <2> QED
    BY <1>2, <1>10, <1>12, <1>14, <1>19, <2>1 DEF RootFits
<1>22. SizeFits'
  <2>1. HighKeys(pages[x])' = 0 /\ pages'[x].items = items
    BY <1>10, <1>12 DEF HighKeys
  <2>2. \A c \in Blocks : HighKeys(pages[c])' = HighKeys(pages[c]) /\ pages'[c] = pages[c]
    BY <1>12 DEF HighKeys
  <2>3. 2 + 0 <= Capacity
    BY CapacityAssumption
  <2> QED
    BY <1>9, <1>14, <2>1, <2>2, <2>3 DEF SoundTree, SizeFits
<1>23. PathFits' /\ SplitKnown'
  BY <1>13 DEF PathFits, SplitKnown
<1> QED
  BY <1>18, <1>20, <1>21, <1>22, <1>23 DEF SoundTree

LEMMA LinkSiblingSound == ASSUME IndInv, IndInv', SoundTree, LinkSibling PROVE SoundTree'
<1>1. /\ TypeInv /\ MetaInv /\ IsSplit /\ OnPath /\ ins.pc = "sibling" /\ meta.root # None
      /\ ins \in Inserts /\ ins.blk \in Blocks /\ ins.right \in Blocks
      /\ PageInv(ins.right)
  BY DEF IndInv, Shape, InsInv, LinkSibling, IsSplit, OnPath, TypeInv
<1>2. PICK b \in Blocks : b = ins.blk
  BY <1>1
<1>3. PICK r \in Blocks : r = ins.right
  BY <1>1
<1>4. /\ pages[b].level \in Nat /\ r \in Nat /\ b \in Nat /\ pages[r].next \in Nat
      /\ None \notin Blocks
  BY <1>1, PageTypes
<1>5. PICK level \in Nat : level = pages[b].level
  BY <1>4
<1>6. PICK after \in Nat : after = pages[r].next
  BY <1>4
<1>7. /\ Blocks' = Blocks
      /\ \A c \in Blocks :
            /\ pages'[c].level = pages[c].level /\ pages'[c].next = pages[c].next
            /\ pages'[c].high = pages[c].high /\ pages'[c].root = pages[c].root
            /\ pages'[c].items = pages[c].items
            /\ pages'[c].prev = IF c = after THEN r ELSE pages[c].prev
  <2>1. CASE after = None
    <3>1. pages' = pages
      BY <1>3, <1>6, <2>1 DEF LinkSibling
    <3> QED
      BY <1>4, <2>1, <3>1 DEF Blocks
  <2>2. CASE after # None
    <3>1. after \in Blocks
      BY <1>1, <1>3, <1>6, <2>2 DEF PageInv
    <3> DEFINE q == [pages[after] EXCEPT !.prev = r]
    <3>2. pages' = [pages EXCEPT ![after] = q]
      BY <1>3, <1>6, <2>2 DEF LinkSibling
    <3>3. /\ q \in Pages /\ q.level = pages[after].level /\ q.next = pages[after].next
          /\ q.items = pages[after].items /\ q.high = pages[after].high
          /\ q.root = pages[after].root /\ q.prev = r
      BY <1>1, <1>4, <3>1, PageTypes DEF Pages
    <3> HIDE DEF q
    <3>4. Blocks' = Blocks /\ pages'[after] = q /\ \A c \in Blocks : c # after => pages'[c] = pages[c]
      BY <1>1, <3>1, <3>2, <3>3, PageWritten
    <3> QED
      BY <3>1, <3>3, <3>4
  <2> QED
    BY <2>1, <2>2
<1>8. /\ meta' = meta
      /\ ins' = IF level + 1 > Len(ins.path) THEN [ins EXCEPT !.pc = "newroot"]
                ELSE [ins EXCEPT !.pc = "place", !.blk = ins.path[level + 1],
                                 !.item = Downlink(pages[b].high, r)]
  BY <1>2, <1>3, <1>5 DEF LinkSibling
<1>9. /\ Len(ins.path) = meta.level /\ meta.level \in Nat /\ level <= meta.level
      /\ level = meta.level <=> b = meta.root
      /\ \A l \in 1 .. meta.level : ins.path[l] \in Blocks /\ pages[ins.path[l]].level = l
  BY <1>1, <1>2, <1>5 DEF OnPath, MetaInv, TypeInv
<1>10. /\ ins'.pc = IF level + 1 > meta.level THEN "newroot" ELSE "place"
       /\ ins'.entry = ins.entry /\ ins'.path = ins.path /\ ins'.right = r
  BY <1>1, <1>3, <1>8, <1>9 DEF Inserts
<1>11. CASE level + 1 > meta.level
  <2>1. ins'.blk = b /\ ins'.pc = "newroot" /\ b = meta.root
    BY <1>1, <1>2, <1>8, <1>9, <1>10, <1>11 DEF Inserts
  <2>2. /\ Tree = Blocks /\ Tree' = Blocks /\ Root = meta.root /\ Root' = meta.root
        /\ RootSplit /\ RootSplit' /\ Tops = {meta.root, r} /\ Tops' = {meta.root, r}
    BY <1>1, <1>2, <1>3, <1>7, <1>8, <1>10, <2>1 DEF Tree, Root, RootSplit, Tops
  <2>3. OwedTo = None /\ OwedTo' = None
    <3>1. ~(pages[ins.blk].level + 1 <= Len(ins.path))
      BY <1>2, <1>5, <1>9, <1>11
    <3> QED
      BY <1>1, <2>1, <3>1 DEF OwedTo
  <2>4. \A c \in Blocks : Rows'[c] = Rows[c] /\ Prev(c)' = Prev(c)
    <3>1. \A c \in Blocks : Rows[c] = pages[c].items /\ Rows'[c] = pages'[c].items
      BY <1>4, <1>7, <2>3 DEF Rows, Due
    <3>2. \A c : Prev(c)' = pages'[c].prev
      BY <2>1 DEF Prev
    <3>3. \A c : Prev(c) = IF c = after THEN r ELSE pages[c].prev
      BY <1>1, <1>3, <1>6 DEF Prev
    <3> QED
      BY <1>7, <3>1, <3>2, <3>3
  <2>5. TreeFits(Tree, pages, Rows, Tops)' /\ PrevFits' /\ RootFits' /\ SizeFits'
    BY <1>3, <1>7, <1>10, <2>2, <2>4, TreeKept
  <2>6. SplitKnown'
    <3>1. pages[b].next = r
      BY <1>1, <1>2, <1>3 DEF SoundTree, SplitKnown
    <3> QED
      BY <1>7, <1>10, <2>1, <3>1 DEF SplitKnown
  <2>7. PathFits'
    BY <2>1 DEF PathFits
  <2> QED
    BY <2>5, <2>6, <2>7 DEF SoundTree
<1>12. CASE ~(level + 1 > meta.level)
  <2>1. level + 1 \in 1 .. meta.level
    BY <1>9, <1>12
  <2>2. PICK p \in Blocks : p = ins.path[level + 1] /\ pages[p].level = level + 1
    BY <1>9, <2>1
  <2>3. PICK item \in Items : item = Downlink(pages[b].high, r)
    <3>1. pages[b].high \in Keys
      BY <1>1, <1>2 DEF IsSplit, Keys
    <3> QED
      BY <1>4, <3>1, DownlinkIs
  <2>4. ins'.pc = "place" /\ ins'.blk = p /\ ins'.item = item
    <3>1. ins' = [ins EXCEPT !.pc = "place", !.blk = p, !.item = item]
      BY <1>8, <1>9, <1>12, <2>2, <2>3
    <3> QED
      BY <1>1, <3>1 DEF Inserts
  <2>5. /\ Tree = Blocks /\ Tree' = Blocks /\ Root = meta.root /\ Root' = meta.root
        /\ ~RootSplit /\ ~RootSplit' /\ Tops = {meta.root} /\ Tops' = {meta.root}
    BY <1>1, <1>2, <1>3, <1>7, <1>8, <1>9, <1>12, <2>4 DEF Tree, Root, RootSplit, Tops
  <2>6. OwedTo = p /\ OwedTo' = p /\ Owed = item /\ Owed' = item
    <3>1. pages[ins.blk].level + 1 <= Len(ins.path)
      BY <1>2, <1>5, <1>9, <1>12
    <3> QED
      BY <1>1, <1>2, <1>3, <1>5, <2>2, <2>3, <2>4, <3>1 DEF OwedTo, Owed
  <2>7. \A c \in Blocks : Rows'[c] = Rows[c] /\ Prev(c)' = Prev(c)
    <3> SUFFICES ASSUME NEW c \in Blocks PROVE Rows'[c] = Rows[c] /\ Prev(c)' = Prev(c)
      OBVIOUS
    <3>1. Position(pages[c])' = Position(pages[c])
      BY <1>7, <1>10 DEF Position, LeafPosition, LinkPosition
    <3>2. Due(c)' = Due(c)
      BY <1>7, <2>6, <3>1 DEF Due
    <3>3. Prev(c)' = pages'[c].prev
      BY <2>4 DEF Prev
    <3>4. Prev(c) = IF c = after THEN r ELSE pages[c].prev
      BY <1>1, <1>3, <1>6 DEF Prev
    <3> QED
      BY <1>7, <3>2, <3>3, <3>4 DEF Rows
  <2>8. TreeFits(Tree, pages, Rows, Tops)' /\ PrevFits' /\ RootFits' /\ SizeFits'
    BY <1>3, <1>7, <1>10, <2>5, <2>7, TreeKept
  <2>9. PathFits'
    <3> SUFFICES ASSUME NEW l \in level + 1 + 1 .. Len(ins.path)
                 PROVE  Child(ins.path[l], ins.entry)' =
                           IF l = level + 1 + 1 THEN p ELSE ins.path[l - 1]
      BY <1>7, <1>10, <2>2, <2>4 DEF PathFits
    <3>1. l \in 1 .. meta.level /\ l \in level + 1 .. Len(ins.path) /\ l # level + 1
          /\ (l = level + 1 + 1 => l - 1 = level + 1)
      BY <1>9
    <3>2. pages'[ins.path[l]].items = pages[ins.path[l]].items
      BY <1>7, <1>9, <3>1
    <3>3. Child(ins.path[l], ins.entry)' = Child(ins.path[l], ins.entry)
      BY <1>10, <3>2 DEF Child, LinkPosition
    <3>4. Child(ins.path[l], ins.entry) = ins.path[l - 1]
      BY <1>1, <1>2, <1>5, <3>1 DEF SoundTree, PathFits
    <3> QED
      BY <2>2, <3>1, <3>3, <3>4
  <2>10. SplitKnown'
    BY <2>4 DEF SplitKnown
  <2> QED
    BY <2>8, <2>9, <2>10 DEF SoundTree
<1> QED
  BY <1>11, <1>12

LEMMA WriteLeftSound == ASSUME IndInv, IndInv', SoundTree, WriteLeft PROVE SoundTree'
<1>1. /\ Shape /\ TypeInv /\ ToPlace /\ OnPath /\ ins.blk \in Blocks /\ meta.root # None
      /\ ins \in Inserts /\ ins.pc = "left" /\ meta.root \in Blocks /\ ToSplit /\ NotLed(ins.right)
      /\ ins.right \in Blocks /\ ins.right # ins.blk /\ ins.right # meta.root
      /\ \A l \in 1 .. meta.level : ins.path[l] \in Blocks /\ ins.path[l] # ins.right
      /\ ins.entry \in Entries /\ ChainInv
  BY DEF IndInv, Shape, MetaInv, TypeInv, InsInv, WriteLeft, ToSplit, ToPlace, OnPath, NotLed
<1>2. PlacedWell /\ ItemsInv(Placed, pages[ins.blk].level) /\ ItemsIn(Placed, pages[ins.blk].level)
  BY <1>1, PlacedFits
<1>3. PICK b \in Blocks : b = ins.blk
  BY <1>1
<1>4. PICK r \in Blocks : r = ins.right
  BY <1>1
<1>5. PICK s \in Seq(Items) : s = Placed
  BY <1>2 DEF PlacedWell
<1>6. PICK at \in 1 .. Len(s) - 1 : at = ins.at
  BY <1>1, <1>5 DEF ToSplit
<1>7. /\ pages[b] \in Pages /\ b \in Nat /\ pages[b].level \in Nat /\ pages[b].next \in Nat
      /\ r \in Nat /\ r # None /\ None \notin Blocks /\ b # r /\ r # meta.root
      /\ pages[r].items \in Seq(Items)
  BY <1>1, <1>3, <1>4, PageTypes
<1>8. PICK level \in Nat : level = pages[b].level
  BY <1>7
<1>9. /\ Len(s) \in Nat /\ at \in Nat /\ at >= 1 /\ at + 1 \in 1 .. Len(s) /\ at + 1 >= 2
      /\ 2 \in 1 .. Len(s) /\ \A i \in 1 .. Len(s) : s[i].key \in Bounds
  BY ItemTypes
<1>10. PICK items \in Seq(Items) :
          items = Kept(s, at) /\ Len(items) = at /\ \A i \in 1 .. at : items[i] = s[i]
  <2> DEFINE u == Kept(s, at)
  <2>1. u \in Seq(Items) /\ DOMAIN u = 1 .. at /\ \A i \in 1 .. at : u[i] = s[i]
    BY PartsAre
  <2> HIDE DEF u
  <2>2. Len(u) = at
    <3>1. DOMAIN u = 1 .. Len(u) /\ Len(u) \in Nat
      BY <2>1, LenProperties
    <3> QED
      BY <1>9, <2>1, <3>1
  <2> QED
    BY <2>1, <2>2 DEF u
<1>11. PICK high \in Entries : high = s[at + 1].key
  BY <1>2, <1>3, <1>5, <1>8, KeptFits
<1> DEFINE q == [pages[b] EXCEPT !.root = FALSE, !.next = r, !.high = high, !.items = items]
<1>12. /\ q \in Pages /\ q.items = items /\ q.level = level /\ q.next = r /\ q.high = high
       /\ q.root = FALSE /\ q.prev = pages[b].prev
  BY <1>7, <1>8 DEF Pages
<1>13. pages' = [pages EXCEPT ![b] = q]
  BY <1>3, <1>4, <1>5, <1>6, <1>10, <1>11 DEF WriteLeft, Kept
<1> HIDE DEF q
<1>14. Blocks' = Blocks /\ pages'[b] = q /\ \A c \in Blocks : c # b => pages'[c] = pages[c]
  BY <1>1, <1>12, <1>13, PageWritten
<1>15. /\ meta' = meta /\ ins'.pc = "sibling" /\ ins'.right = r /\ ins'.blk = b
       /\ ins'.entry = ins.entry /\ ins'.path = ins.path
  BY <1>1, <1>3, <1>4 DEF WriteLeft, Inserts
<1>16. /\ Len(ins.path) = meta.level /\ meta.level \in Nat /\ level <= meta.level
       /\ level = meta.level <=> b = meta.root
       /\ \A l \in 1 .. meta.level : ins.path[l] \in Blocks /\ pages[ins.path[l]].level = l
  <2>1. MetaInv
    BY <1>1 DEF Shape
  <2> QED
    BY <1>1, <1>3, <1>8, <2>1 DEF OnPath, MetaInv, TypeInv
<1>17. /\ Tree = Blocks \ {r} /\ Tree' = Tree \cup {r} /\ Tree' = Blocks /\ Root = meta.root
       /\ Root' = meta.root /\ ~RootSplit /\ (RootSplit' <=> b = meta.root) /\ Tops = {meta.root}
       /\ Tops' = (IF b = meta.root THEN Tops \cup {r} ELSE Tops) /\ OwedTo = b
  BY <1>1, <1>3, <1>4, <1>14, <1>15 DEF Tree, Root, RootSplit, Tops, OwedTo
<1>18. Rows[b] = s /\ \A c \in Blocks : c # b => Rows[c] = pages[c].items
  BY <1>1, <1>3, <1>5, <1>17, PlacedIsDue DEF Rows, Due
<1>19. /\ pages[r].level = level /\ pages[r].next = pages[b].next /\ pages[r].high = pages[b].high
       /\ pages[r].root = FALSE /\ pages[r].prev = b /\ Len(pages[r].items) = Len(s) - at
       /\ \A i \in 1 .. Len(s) - at :
             /\ pages[r].items[i].child = s[at + i].child
             /\ pages[r].items[i].key = IF level > 0 /\ i = 1 THEN MinusInf ELSE s[at + i].key
  BY <1>1, <1>3, <1>4, <1>5, <1>6, <1>8 DEF SoundTree, SplitKnown, RightKnown
<1>20. TreeFits(Tree, pages, Rows, Tops)
  BY DEF SoundTree
<1>21. /\ InOrder(s, level, pages[b].high) /\ pages[b].high \in Bounds
       /\ pages[b].next # None => /\ pages[b].next \in Tree
                                  /\ Above(Rows[pages[b].next], level, pages[b].high)
  BY <1>7, <1>8, <1>17, <1>18, <1>20, EndsAre DEF TreeFits, TreeTypes, Sides
<1>22. pages[b].next # b
  <2> SUFFICES ASSUME pages[b].next = b PROVE FALSE
    OBVIOUS
  <2>1. Less(pages[b].high, s[2].key)
    BY <1>7, <1>9, <1>18, <1>21 DEF Above
  <2>2. Less(s[2].key, pages[b].high)
    BY <1>9, <1>21 DEF InOrder
  <2> QED
    BY <1>9, <1>21, <2>1, <2>2, OrderIs

<1>23. PICK p \in Nat :
          /\ p = OwedTo' /\ p # b /\ p # r
          /\ p = None => b = meta.root
          /\ p # None => /\ level + 1 \in 1 .. meta.level /\ b # meta.root /\ p \in Tree
                         /\ p = ins.path[level + 1] /\ pages[p].level = level + 1
  <2>1. CASE level + 1 > meta.level
    <3>1. OwedTo' = None
      <4>1. pages'[b].level = level
        BY <1>12, <1>14
      <4>2. ~(level + 1 <= Len(ins.path))
        BY <1>16, <2>1
      <4> QED
        BY <1>15, <4>1, <4>2 DEF OwedTo
    <3> QED
      BY <1>7, <1>16, <2>1, <3>1 DEF None
  <2>2. CASE ~(level + 1 > meta.level)
    <3>1. level + 1 \in 1 .. meta.level
      BY <1>16, <2>2
    <3>2. PICK p \in Blocks : p = ins.path[level + 1] /\ p # r /\ pages[p].level = level + 1
      BY <1>1, <1>4, <1>16, <3>1
    <3>3. OwedTo' = p
      BY <1>12, <1>14, <1>15, <1>16, <3>1, <3>2 DEF OwedTo
    <3>4. p \in Nat /\ p # b
      BY <1>1, <1>8, <3>2, PageTypes
    <3>5. p \in Tree /\ p # None /\ b # meta.root
      BY <1>7, <1>16, <1>17, <3>1, <3>2
    <3> QED
      BY <3>1, <3>2, <3>3, <3>4, <3>5
  <2> QED
    BY <2>1, <2>2
<1>24. PICK item \in Items : item = Owed' /\ item = Downlink(high, r)
  <2>1. high \in Keys
    BY DEF Keys
  <2>2. Downlink(high, r) \in Items
    BY <1>7, <2>1, DownlinkIs
  <2> QED
    BY <1>12, <1>14, <1>15, <2>2 DEF Owed
<1>25. /\ Rows'[b] = items /\ Rows'[r] = pages[r].items
       /\ \A c \in Tree : c # b /\ c # p => Rows'[c] = Rows[c]
  <2>1. \A c \in Blocks : c # p => Rows'[c] = pages'[c].items
    BY <1>14, <1>23 DEF Rows, Due
  <2> QED
    <3>1. Rows'[b] = items
      BY <1>12, <1>14, <1>23, <2>1
    <3>2. Rows'[r] = pages[r].items
      BY <1>7, <1>14, <1>23, <2>1
    <3>3. ASSUME NEW c \in Tree, c # b, c # p PROVE Rows'[c] = Rows[c]
      BY <1>14, <1>17, <1>18, <2>1, <3>3
    <3> QED
      BY <3>1, <3>2, <3>3
<1>26. SplitIn(Tree, pages, Rows, pages', Rows', b, r, at)
  <2>1. /\ \A c \in Tree : c # b => pages'[c] = pages[c]
        /\ \A c \in Tree : pages'[c].level = pages[c].level
        /\ pages'[r] = pages[r] /\ b \in Tree /\ r \notin Tree
    BY <1>7, <1>8, <1>12, <1>14, <1>17
  <2> QED
    BY <1>7, <1>8, <1>10, <1>11, <1>12, <1>14, <1>18, <1>19, <1>25, <2>1 DEF SplitIn
<1>27. p # None => \E k : LinkedIn(Tree, pages, Rows, pages', Rows', b, r, p, k)
  <2> SUFFICES ASSUME p # None PROVE \E k : LinkedIn(Tree, pages, Rows, pages', Rows', b, r, p, k)
    OBVIOUS
  <2>1. /\ p \in Blocks /\ level + 1 \in 1 .. meta.level /\ p = ins.path[level + 1]
        /\ pages[p].level = level + 1 /\ level + 1 > 0 /\ level + 1 # 0
    BY <1>17, <1>23
  <2>2. pages[p] \in Pages /\ pages[p].items \in Seq(Items) /\ pages'[p] = pages[p]
    BY <1>1, <1>14, <1>23, <2>1, PageTypes
  <2>3. PICK t \in Seq(Items) : t = pages[p].items /\ Rows[p] = t
    BY <1>18, <1>23, <2>1, <2>2
  <2>4. InOrder(t, pages[p].level, pages[p].high)
    BY <1>17, <1>20, <1>23, <2>3 DEF TreeFits, Sides
  <2>5. ins.entry \in Bounds
    BY <1>1, EndsAre
  <2>6. LinkPosition(pages[p], ins.entry) \in 0 .. Len(t) /\ LinkPosition(pages[p], ins.entry) >= 1
    <3>1. InOrder(pages[p].items, pages[p].level, pages[p].high)
      BY <2>3, <2>4
    <3>2. pages[p].level > 0 /\ pages[p].items = t
      BY <2>1, <2>3
    <3> QED
      BY ONLY <2>2, <2>5, <3>1, <3>2, PositionIs
  <2>7. Len(t) \in Nat
    BY ItemTypes
  <2>8. PICK k \in 1 .. Len(t) : k = LinkPosition(pages[p], ins.entry)
    BY <2>6, <2>7
  <2>9. k + 1 \in 1 .. Len(t) + 1
    BY <2>7
  <2>10. t[k].child = b
    <3>1. level + 1 \in level + 1 .. Len(ins.path)
      BY <1>16, <2>1
    <3>2. Child(ins.path[level + 1], ins.entry) = b
      BY <1>1, <1>3, <1>8, <3>1 DEF SoundTree, PathFits
    <3> QED
      BY <2>1, <2>3, <2>8, <3>2 DEF Child
  <2>11. Rows'[p] = Splice(t, item, k + 1)
    <3>1. Position(pages[p])' = k + 1
      BY <1>15, <2>1, <2>2, <2>8 DEF Position, LinkPosition
    <3> QED
      <4>1. Rows'[p] = Due(p)'
        BY <1>14, <2>1 DEF Rows
      <4>2. p = OwedTo' /\ Owed' = item /\ pages'[p].items = t
        BY <1>23, <1>24, <2>2, <2>3
      <4> QED
        BY <3>1, <4>1, <4>2 DEF Due
  <2>12. Rows'[p] \in Seq(Items) /\ IsSpliced(Rows'[p], t, item, k + 1)
    BY <2>9, <2>11, Spliced
  <2>13. item = Downlink(pages'[b].high, r)
    BY <1>12, <1>14, <1>24
  <2>14. LinkedIn(Tree, pages, Rows, pages', Rows', b, r, p, k)
    <3>1. p \in Tree /\ pages[p].level = pages[b].level + 1
      BY <1>8, <1>23, <2>1
    <3>2. k \in 1 .. Len(Rows[p]) /\ Rows[p][k].child = b
      BY <2>3, <2>10
    <3>3. /\ Rows'[p] \in Seq(Items)
          /\ IsSpliced(Rows'[p], Rows[p], Downlink(pages'[b].high, r), k + 1)
      BY <2>3, <2>12, <2>13
    <3> QED
      BY <3>1, <3>2, <3>3 DEF LinkedIn
  <2> QED
    BY <2>14
<1>28. TreeFits(Tree, pages, Rows, Tops)'
  <2>1. \E k : Split(Tree, pages, Rows, pages', Rows', Tops, Tops', b, r, at, p, k)
    <3>1. CASE p = None
      <4>1. Split(Tree, pages, Rows, pages', Rows', Tops, Tops', b, r, at, p, 0)
        BY <1>17, <1>23, <1>25, <1>26, <3>1 DEF Split
      <4> QED
        BY <4>1
    <3>2. CASE p # None
      <4>1. PICK k : LinkedIn(Tree, pages, Rows, pages', Rows', b, r, p, k)
        BY <1>27, <3>2
      <4>2. Split(Tree, pages, Rows, pages', Rows', Tops, Tops', b, r, at, p, k)
        BY <1>7, <1>17, <1>23, <1>25, <1>26, <3>2, <4>1 DEF Split
      <4> QED
        BY <4>2
    <3> QED
      BY <3>1, <3>2
  <2>2. PICK k : Split(Tree, pages, Rows, pages', Rows', Tops, Tops', b, r, at, p, k)
    BY <2>1
  <2>3. TreeFits(Tree \cup {r}, pages', Rows', Tops')
    BY <1>7, <1>20, <2>2, SplitFits
  <2> QED
    BY <1>17, <2>3
<1> DEFINE a == pages[b].next
<1>29. /\ \A c \in Blocks : Prev(c) = pages[c].prev
       /\ \A c \in Blocks : Prev(c)' = IF c = a THEN r ELSE pages[c].prev
  <2>1. \A c : Prev(c) = pages[c].prev
    BY <1>1 DEF Prev
  <2>2. pages'[r].next = a
    BY <1>7, <1>14, <1>19
  <2>3. \A c : Prev(c)' = IF c = a THEN r ELSE pages'[c].prev
    BY <1>15, <2>2 DEF Prev
  <2> QED
    BY <1>12, <1>14, <2>1, <2>3
<1>30. /\ \A c \in Blocks : pages[c].next # r
       /\ \A c \in Tree : /\ pages[c].next # None => /\ pages[c].next \in Tree
                                                     /\ pages[pages[c].next].prev = c
                          /\ pages[c].prev # None => /\ pages[c].prev \in Tree
                                                     /\ pages[pages[c].prev].next = c
  <2>1. \A c \in Blocks : pages[c].next # r
    BY <1>1, <1>4 DEF NotLed
  <2>2. \A c \in Tree : pages[c].next # None => pages[c].next \in Tree
    BY <1>20 DEF TreeFits, Sides
  <2> QED
    BY <1>17, <1>29, <2>1, <2>2 DEF SoundTree, PrevFits
<1>31. /\ pages'[b].next = r /\ pages'[r].next = a
       /\ \A c \in Blocks : c # b /\ c # r => pages'[c].next = pages[c].next
  BY <1>7, <1>12, <1>14, <1>19
<1>32. a # b /\ a # r
  BY <1>22, <1>30
<1>33. PrevFits'
  <2>1. \A c : Prev(c)' = IF c = a THEN r ELSE pages'[c].prev
    BY <1>15, <1>31 DEF Prev
  <2>2. pages'[r].prev = b /\ \A c \in Blocks : pages'[c].prev = pages[c].prev
    BY <1>7, <1>12, <1>14, <1>19
  <2>3. b \in Tree /\ r \in Blocks /\ Tree' = Blocks /\ \A c \in Blocks : c = r \/ c \in Tree
    BY <1>7, <1>17
  <2>4. ASSUME NEW c \in Blocks, NEW d, d = pages'[c].next, d # None
        PROVE  (IF d = a THEN r ELSE pages'[d].prev) = c
    <3>1. CASE c = b
      BY <1>31, <1>32, <2>2, <2>4, <3>1
    <3>2. CASE c = r
      BY <1>31, <2>4, <3>2
    <3>3. CASE c # b /\ c # r
      <4>1. d = pages[c].next /\ c \in Tree
        BY <1>31, <2>3, <2>4, <3>3
      <4>2. d \in Tree /\ pages[d].prev = c
        BY <1>30, <2>4, <4>1
      <4>3. d # a
        BY <1>30, <2>3, <2>4, <3>3, <4>2
      <4> QED
        BY <1>17, <2>2, <4>2, <4>3
    <3> QED
      BY <3>1, <3>2, <3>3
  <2>5. ASSUME NEW c \in Blocks, NEW d, d = (IF c = a THEN r ELSE pages'[c].prev), d # None
        PROVE  d \in Blocks /\ pages'[d].next = c
    <3>1. CASE c = a
      BY <1>31, <2>3, <2>5, <3>1
    <3>2. CASE c # a /\ c = r
      BY <1>31, <2>2, <2>5, <3>2
    <3>3. CASE c # a /\ c # r
      <4>1. d = pages[c].prev /\ c \in Tree
        BY <2>2, <2>3, <2>5, <3>3
      <4>2. d \in Tree /\ pages[d].next = c
        BY <1>30, <2>5, <4>1
      <4>3. d # b /\ d # r /\ d \in Blocks
        BY <1>17, <3>3, <4>2
      <4> QED
        BY <1>31, <4>2, <4>3
    <3> QED
      BY <3>1, <3>2, <3>3
  <2> QED
    BY <2>1, <2>3, <2>4, <2>5 DEF PrevFits
<1>34. RootFits'
  <2>1. /\ \A c \in Tree : pages[c].root <=> c = meta.root
        /\ meta.root \in Tree /\ pages[meta.root].prev = None /\ pages[meta.root].next = None
    BY <1>1, <1>17, <1>29 DEF SoundTree, RootFits
  <2>2. Prev(meta.root)' = None
    <3>1. ASSUME meta.root = a PROVE FALSE
      <4>1. a # None /\ b \in Tree /\ b # None
        BY <1>1, <1>7, <1>17, <3>1
      <4>2. pages[a].prev = b
        BY <1>30, <4>1
      <4> QED
        BY <2>1, <3>1, <4>1, <4>2
    <3>2. PICK c \in Blocks : c = meta.root
      BY <1>1
    <3>3. Prev(c)' = pages[c].prev
      BY <1>29, <3>1, <3>2
    <3> QED
      BY <1>15, <2>1, <3>2, <3>3
  <2>3. \A c \in Blocks : pages'[c].root <=> (c = meta.root /\ b # meta.root)
    <3> SUFFICES ASSUME NEW c \in Blocks
                 PROVE  pages'[c].root <=> (c = meta.root /\ b # meta.root)
      OBVIOUS
    <3>1. CASE c = b
      BY <1>12, <1>14, <3>1
    <3>2. CASE c = r
      BY <1>7, <1>14, <1>19, <3>2
    <3>3. CASE c # b /\ c # r
      BY <1>14, <1>17, <2>1, <3>3
    <3> QED
      BY <3>1, <3>2, <3>3
  <2>4. IF b = meta.root THEN pages'[r].next = None ELSE pages'[meta.root].next = None
    BY <1>1, <1>7, <1>14, <1>19, <2>1
  <2> QED
    BY <1>1, <1>14, <1>15, <1>17, <2>2, <2>3, <2>4 DEF RootFits
<1>35. SizeFits'
  <2>1. at + 1 <= Capacity /\ Len(s) - at + HighKeys(pages[b]) <= Capacity
    BY <1>1, <1>3, <1>5, <1>6 DEF SoundTree, SplitKnown, SplitPoints
  <2>2. HighKeys(pages[b])' = 1 /\ pages'[b].items = items /\ items # <<>>
    BY <1>7, <1>9, <1>10, <1>12, <1>14, EmptySeq DEF HighKeys
  <2>3. /\ HighKeys(pages[r])' = HighKeys(pages[b]) /\ pages'[r].items = pages[r].items
        /\ pages[r].items # <<>>
    <3>1. Len(pages[r].items) # 0
      BY <1>9, <1>19
    <3> QED
      BY <1>7, <1>14, <1>19, <3>1, EmptySeq DEF HighKeys
  <2>4. ASSUME NEW c \in Tree, c # b
        PROVE  /\ pages'[c].items # <<>>
               /\ Len(pages'[c].items) + HighKeys(pages[c])' <= Capacity
    <3>1. pages'[c] = pages[c] /\ HighKeys(pages[c])' = HighKeys(pages[c])
      BY <1>14, <1>17, <2>4 DEF HighKeys
    <3> QED
      BY <3>1 DEF SoundTree, SizeFits
  <2> QED
    BY <1>10, <1>17, <1>19, <2>1, <2>2, <2>3, <2>4 DEF SizeFits
<1>36. PathFits'
  <2> SUFFICES ASSUME NEW l \in level + 1 .. Len(ins.path)
               PROVE  Child(ins.path[l], ins.entry)' =
                         IF l = level + 1 THEN b ELSE ins.path[l - 1]
    BY <1>12, <1>14, <1>15 DEF PathFits
  <2>1. l \in 1 .. meta.level /\ l # level
    BY <1>16
  <2>2. pages'[ins.path[l]] = pages[ins.path[l]]
    BY <1>8, <1>14, <1>16, <2>1
  <2>3. Child(ins.path[l], ins.entry)' = Child(ins.path[l], ins.entry)
    BY <1>15, <2>2 DEF Child, LinkPosition
  <2> QED
    BY <1>1, <1>3, <1>8, <2>3 DEF SoundTree, PathFits
<1>37. SplitKnown'
  BY <1>12, <1>14, <1>15 DEF SplitKnown
<1> QED
  BY <1>28, <1>33, <1>34, <1>35, <1>36, <1>37 DEF SoundTree

\* Between two inserts the descent for a key comes by the pages it belongs on.
LEMMA PathBelongs ==
    ASSUME IndInv, SoundTree, ins.pc = "idle", meta.root # None, NEW k \in Entries
    PROVE  \A l \in 0 .. meta.level : Belongs(Blocks, pages, k, Descend(k)[l])
<1> DEFINE m == meta.level
           d == Descend(k)
           Bad == {n \in 0 .. m : ~Belongs(Blocks, pages, k, d[m - n])}
<1>1. /\ Shape /\ TypeInv /\ m \in Nat /\ meta.root \in Blocks /\ k \in Keys /\ k \in Bounds
      /\ None \notin Blocks
  <2>1. Shape /\ TypeInv /\ MetaInv
    BY DEF IndInv, Shape
  <2>2. None \notin Blocks
    BY <2>1, NoneIsNoBlock
  <2> QED
    BY <2>1, <2>2, EndsAre DEF TypeInv, MetaInv
<1>2. /\ \A l \in 0 .. m : d[l] \in Blocks /\ pages[d[l]].level = l
      /\ d[m] = meta.root
      /\ \A l \in 0 .. m : l # m => d[l] = Child(d[l + 1], k)
  <2>1. Path(k)
    BY <1>1, PathIs
  <2> QED
    BY <2>1 DEF Path
<1>3. /\ Tree = Blocks /\ Root = meta.root /\ ~RootSplit /\ Tops = {meta.root} /\ OwedTo = None
      /\ \A c : Prev(c) = pages[c].prev
  BY DEF Tree, Root, RootSplit, Tops, OwedTo, Prev
<1>4. TreeFits(Blocks, pages, Rows, {meta.root}) /\ pages[meta.root].next = None
  BY <1>3 DEF SoundTree, RootFits
<1>5. \A c \in Blocks : Rows[c] = pages[c].items
  BY <1>1, <1>3, NoneDue
<1>6. Belongs(Blocks, pages, k, meta.root)
  <2>1. Less(k, pages[meta.root].high)
    BY <1>1, <1>4, EndsAre DEF TreeFits, Sides
  <2>2. ASSUME NEW c \in Blocks, pages[c].next = meta.root PROVE FALSE
    <3>1. pages[meta.root].prev = None /\ pages[meta.root].prev = c
      BY <1>1, <1>3, <2>2 DEF SoundTree, PrevFits, RootFits
    <3> QED
      BY <1>1, <3>1
  <2> QED
    BY <1>1, <2>1, <2>2 DEF Belongs
<1>7. ASSUME NEW l \in 0 .. m, l # m, Belongs(Blocks, pages, k, d[l + 1])
      PROVE  Belongs(Blocks, pages, k, d[l])
  <2>1. l + 1 \in 0 .. m /\ l + 1 > 0
    BY <1>1, <1>7
  <2>2. PICK b \in Blocks : b = d[l + 1] /\ pages[b].level > 0
    BY <1>2, <2>1
  <2>3. pages[b] \in Pages /\ InOrder(pages[b].items, pages[b].level, pages[b].high)
    BY <1>1, <1>4, <1>5, PageTypes DEF TreeFits, Sides
  <2>4. PICK s \in Seq(Items) : s = pages[b].items /\ s = Rows[b]
    BY <1>1, <1>5, PageTypes
  <2>5. LET i == LinkPosition(pages[b], k) IN
        /\ i \in 0 .. Len(s) /\ i >= 1 /\ Len(s) \in Nat
        /\ \A j \in 1 .. Len(s) : ~Less(k, s[j].key) <=> j <= i
    BY <1>1, <2>2, <2>3, <2>4, PositionIs, ItemTypes
  <2>6. PICK i \in 1 .. Len(s) : i = LinkPosition(pages[b], k) /\ ~Less(k, s[i].key)
                                 /\ (i < Len(s) => Less(k, s[i + 1].key))
    <3>1. LinkPosition(pages[b], k) \in 1 .. Len(s)
      BY <2>5
    <3>2. PICK i \in 1 .. Len(s) : i = LinkPosition(pages[b], k)
      BY <3>1
    <3>3. i < Len(s) => i + 1 \in 1 .. Len(s) /\ ~(i + 1 <= i)
      BY <2>5
    <3> QED
      BY <2>5, <3>2, <3>3
  <2>7. d[l] = s[i].child
    BY <1>2, <1>7, <2>2, <2>4, <2>6 DEF Child
  <2>8. \A c \in {meta.root} : pages[c].next = None
    BY <1>4
  <2>9. /\ (\A c \in Blocks : pages[c].next = b => ~Less(k, pages[c].high)) =>
              \A c \in Blocks : pages[c].next = Rows[b][i].child => ~Less(k, pages[c].high)
        /\ Less(k, pages[b].high) /\ (i < Len(Rows[b]) => Less(k, Rows[b][i + 1].key)) =>
              Less(k, pages[Rows[b][i].child].high)
    BY <1>1, <1>4, <2>2, <2>4, <2>6, <2>8, StepDown
  <2>10. d[l] \in Blocks
    BY <1>2
  <2> QED
    BY <1>7, <2>2, <2>4, <2>6, <2>7, <2>9, <2>10 DEF Belongs
<1> HIDE DEF d
<1>8. Bad = {}
  <2> SUFFICES ASSUME Bad # {} PROVE FALSE
    OBVIOUS
  <2>1. PICK n \in Bad : \A j \in Bad : n <= j
    <3>1. Bad \in SUBSET Nat
      BY <1>1
    <3> HIDE DEF Bad
    <3> QED
      BY <3>1, SmallestOf
  <2>2. n # 0
    BY <1>1, <1>2, <1>6, <2>1
  <2>3. /\ n - 1 \in 0 .. m /\ ~(n <= n - 1) /\ m - n \in 0 .. m /\ m - n # m
        /\ m - (n - 1) = (m - n) + 1
    BY <1>1, <2>1, <2>2
  <2>4. Belongs(Blocks, pages, k, d[(m - n) + 1])
    BY <2>1, <2>3
  <2> QED
    BY <1>7, <2>1, <2>3, <2>4
<1> QED
  <2> SUFFICES ASSUME NEW l \in 0 .. m PROVE Belongs(Blocks, pages, k, d[l])
    BY DEF d
  <2>1. m - l \in 0 .. m /\ m - (m - l) = l
    BY <1>1
  <2> QED
    BY <1>8, <2>1

LEMMA InsertStartSound ==
    ASSUME IndInv, IndInv', SoundTree, NEW e \in Entries, InsertStart(e)
    PROVE  SoundTree'
<1>1. /\ Shape /\ TypeInv /\ ins.pc = "idle" /\ e \notin tried /\ meta.level \in Nat
      /\ e \in Keys /\ e \in Bounds /\ LeafItem(e) \in Items /\ LeafItem(e).key = e
      /\ None \notin Blocks
  <2>1. Shape /\ TypeInv
    BY DEF IndInv, Shape
  <2>2. LeafItem(e) \in Items /\ LeafItem(e).key = e
    BY EndsAre DEF LeafItem, Items, None
  <2> QED
    BY <2>1, <2>2, NoneIsNoBlock, EndsAre DEF InsertStart, TypeInv
<1>2. pages' = pages /\ meta' = meta /\ Blocks' = Blocks
  BY DEF InsertStart, Blocks
<1>3. /\ Tree = Blocks /\ Root = meta.root /\ ~RootSplit /\ OwedTo = None
      /\ \A c : Prev(c) = pages[c].prev
  BY <1>1 DEF Tree, Root, RootSplit, OwedTo, Prev
<1>4. \A c \in Blocks : Rows[c] = pages[c].items
  BY <1>1, <1>3, NoneDue
<1>5. CASE meta.root = None
  <2>1. ins' = [NoInsert EXCEPT !.pc = "rootleaf", !.entry = e]
    BY <1>5 DEF InsertStart
  <2>2. ins'.pc = "rootleaf"
    BY <2>1 DEF NoInsert
  <2>3. Blocks = {} /\ Tree' = {}
    BY <1>2, <1>3, <1>5, <2>2 DEF SoundTree, RootFits, Tree
  <2>4. Root' = Root /\ ~RootSplit' /\ Tops' = Tops
    BY <1>2, <1>3, <1>5, <2>2 DEF Root, RootSplit, Tops
  <2>5. TreeFits(Tree, pages, Rows, Tops)' /\ PrevFits' /\ RootFits' /\ SizeFits'
    BY <1>2, <1>3, <2>3, <2>4, TreeKept
  <2>6. PathFits' /\ SplitKnown'
    BY <2>2 DEF PathFits, SplitKnown
  <2> QED
    BY <2>5, <2>6 DEF SoundTree
<1>6. CASE meta.root # None
  <2>1. Path(e) /\ \A l \in 0 .. meta.level : Belongs(Blocks, pages, e, Descend(e)[l])
    BY <1>1, <1>6, PathIs, PathBelongs
  <2>2. 0 \in 0 .. meta.level
    BY <1>1
  <2>3. PICK x \in Blocks : x = Descend(e)[0] /\ pages[x].level = 0
    BY <2>1, <2>2 DEF Path
  <2>4. Belongs(Blocks, pages, e, x)
    BY <2>1, <2>2, <2>3
  <2>5. PICK way : /\ way = [l \in 1 .. meta.level |-> Descend(e)[l]] /\ Len(way) = meta.level
                   /\ \A l \in 1 .. meta.level : way[l] = Descend(e)[l]
    <3> DEFINE way == [l \in 1 .. meta.level |-> Descend(e)[l]]
    <3>1. ASSUME NEW l \in 1 .. meta.level PROVE Descend(e)[l] \in Blocks /\ Descend(e)[l] \in Nat
      <4>1. l \in 0 .. meta.level
        BY <1>1
      <4> QED
        BY <1>1, <2>1, <4>1, PageTypes DEF Path
    <3>2. way \in [1 .. meta.level -> Nat]
      BY <3>1
    <3>3. Len(way) = meta.level
      BY <1>1, <3>2
    <3>4. /\ way = [l \in 1 .. meta.level |-> Descend(e)[l]]
          /\ \A l \in 1 .. meta.level : way[l] = Descend(e)[l]
      OBVIOUS
    <3> HIDE DEF way
    <3> QED
      BY <3>3, <3>4
  <2>7. ins' = [NoInsert EXCEPT !.pc = "place", !.entry = e, !.item = LeafItem(e),
                                !.blk = x, !.path = way]
    BY <1>6, <2>3, <2>5 DEF InsertStart
  <2>8. /\ ins'.pc = "place" /\ ins'.entry = e /\ ins'.item = LeafItem(e)
        /\ ins'.blk = x /\ ins'.path = way
    BY <2>7 DEF NoInsert
  <2>9. /\ Tree' = Blocks /\ Root' = meta.root /\ ~RootSplit' /\ Tops' = Tops
        /\ Tops = {meta.root} /\ OwedTo' = x /\ Owed' = LeafItem(e)
        /\ \A c : Prev(c)' = pages[c].prev
    BY <1>2, <1>3, <1>6, <2>8 DEF Tree, Root, RootSplit, Tops, OwedTo, Owed, Prev
  <2>10. TreeFits(Blocks, pages, Rows, Tops)
    BY <1>3 DEF SoundTree
  <2>11. PICK s \in Seq(Items) : s = pages[x].items /\ s = Rows[x]
    BY <1>1, <1>4, PageTypes
  <2>12. pages[x] \in Pages /\ InOrder(s, 0, pages[x].high) /\ pages[x].level = 0
    BY <1>1, <2>3, <2>10, <2>11, PageTypes DEF TreeFits, Sides
  <2>13. LET pos == LeafPosition(pages[x], e) IN
         /\ pos \in 1 .. Len(s) + 1
         /\ \A i \in 1 .. Len(s) : Less(s[i].key, e) <=> i < pos
    <3>1. InOrder(pages[x].items, pages[x].level, pages[x].high) /\ e \in Bounds
      BY <1>1, <2>11, <2>12
    <3> QED
      BY ONLY <2>11, <2>12, <3>1, PositionIs
  <2>14. PICK pos \in 1 .. Len(s) + 1 :
            /\ pos = LeafPosition(pages[x], e)
            /\ \A i \in 1 .. Len(s) : Less(s[i].key, e) <=> i < pos
    BY <2>13
  <2>15. ASSUME NEW i \in 1 .. Len(s), ~(i < pos) PROVE Less(e, s[i].key)
    <3>1. s[i].key \in tried
      <4>1. PageInv(x) /\ DOMAIN s = 1 .. Len(s)
        BY <1>1, <2>11, ItemTypes DEF Shape
      <4> QED
        BY <2>3, <2>11, <4>1 DEF PageInv, ItemsInv
    <3>2. s[i].key # e /\ s[i].key \in Bounds
      BY <1>1, <3>1, ItemTypes
    <3> QED
      BY <1>1, <2>14, <2>15, <3>2, OrderIs
  <2>16. Fits(s, LeafItem(e), pos, 0, pages[x].high)
    BY <1>1, <2>4, <2>14, <2>15 DEF Fits, Belongs
  <2>17. \A c \in Blocks : pages[c].next = x => ~Less(LeafItem(e).key, pages[c].high)
    BY <1>1, <2>4 DEF Belongs
  <2>18. /\ Rows'[x] \in Seq(Items) /\ IsSpliced(Rows'[x], s, LeafItem(e), pos)
         /\ \A c \in Blocks : c # x => Rows'[c] = Rows[c]
    <3>1. Rows'[x] = Splice(s, LeafItem(e), pos)
      <4>1. Position(pages[x])' = pos
        BY <1>2, <2>8, <2>12, <2>14 DEF Position, LeafPosition
      <4> QED
        BY <1>2, <2>9, <2>11, <4>1 DEF Rows, Due
    <3>2. Splice(s, LeafItem(e), pos) \in Seq(Items)
          /\ IsSpliced(Splice(s, LeafItem(e), pos), s, LeafItem(e), pos)
      BY <1>1, Spliced
    <3>3. \A c \in Blocks : c # x => Rows'[c] = Rows[c]
      BY <1>2, <1>4, <2>9 DEF Rows, Due
    <3> QED
      BY <3>1, <3>2, <3>3
  <2>19. TreeFits(Blocks, pages, Rows', Tops)
    <3>1. Takes(Blocks, pages, Rows, Rows', x, LeafItem(e), pos)
      BY <2>11, <2>12, <2>16, <2>17, <2>18 DEF Takes
    <3> QED
      BY <1>1, <2>10, <3>1, LeafTakes
  <2>20. TreeFits(Tree, pages, Rows, Tops)'
    BY <1>2, <2>9, <2>19
  <2>21. PrevFits' /\ RootFits' /\ SizeFits'
    BY <1>2, <1>3, <2>9 DEF SoundTree, PrevFits, RootFits, SizeFits, HighKeys
  <2>22. PathFits'
    <3> SUFFICES ASSUME NEW l \in 0 + 1 .. meta.level
                 PROVE  Child(way[l], e)' = IF l = 0 + 1 THEN x ELSE way[l - 1]
      BY <1>2, <2>3, <2>5, <2>8 DEF PathFits
    <3>1. /\ l \in 1 .. meta.level /\ l - 1 \in 0 .. meta.level /\ l - 1 # meta.level
          /\ (l - 1) + 1 = l /\ (l # 1 => l - 1 \in 1 .. meta.level) /\ (l = 1 => l - 1 = 0)
      BY <1>1
    <3>2. Child(way[l], e)' = Child(way[l], e)
      BY <1>2, <2>7 DEF Child, LinkPosition
    <3>3. Descend(e)[l - 1] = Child(way[l], e)
      BY <2>1, <2>5, <3>1 DEF Path
    <3> QED
      BY <2>3, <2>5, <3>1, <3>2, <3>3
  <2>23. SplitKnown'
    BY <2>8 DEF SplitKnown
  <2> QED
    BY <2>20, <2>21, <2>22, <2>23 DEF SoundTree
<1> QED
  BY <1>5, <1>6

LEMMA InitSound == Init => SoundInv
<1> SUFFICES ASSUME Init PROVE SoundTree
  BY DEF SoundInv, Init
<1>1. ins.pc = "idle" /\ meta.root = None /\ Blocks = {}
  BY DEF Init, NoInsert, Blocks
<1>2. Tree = {} /\ Root = None /\ ~RootSplit /\ Tops = {}
  BY <1>1 DEF Tree, Root, RootSplit, Tops
<1>3. TreeFits(Tree, pages, Rows, Tops)
  BY <1>2 DEF TreeFits, TreeTypes, Sides, Down, OneLink
<1>4. PrevFits /\ RootFits /\ SizeFits
  BY <1>1, <1>2 DEF PrevFits, RootFits, SizeFits
<1>5. PathFits /\ SplitKnown
  BY <1>1 DEF PathFits, SplitKnown
<1> QED
  BY <1>3, <1>4, <1>5 DEF SoundTree

LEMMA NextSound == IndInv /\ IndInv' /\ SoundInv /\ [Next]_vars => SoundInv'
<1> SUFFICES ASSUME IndInv, IndInv', SoundInv, [Next]_vars PROVE SoundInv'
  OBVIOUS
<1>1. CASE InsertFails
  BY <1>1 DEF InsertFails, SoundInv
<1>2. CASE failures' = failures
  <2> SUFFICES ASSUME SoundTree PROVE SoundTree'
    BY <1>2 DEF SoundInv
  <2>1. ASSUME NEW e \in Entries, InsertStart(e) PROVE SoundTree'
    BY <2>1, InsertStartSound
  <2>2. CASE NewRootLeaf
    BY <2>2, NewRootLeafSound
  <2>3. CASE Place
    BY <2>3, PlaceSound
  <2>4. CASE NewRight
    BY <2>4, NewRightSound
  <2>5. CASE WriteRight
    BY <2>5, WriteRightSound
  <2>6. CASE WriteLeft
    BY <2>6, WriteLeftSound
  <2>7. CASE LinkSibling
    BY <2>7, LinkSiblingSound
  <2>8. CASE NewRoot
    BY <2>8, NewRootSound
  <2>9. CASE WriteMeta
    BY <2>9, WriteMetaSound
  <2>10. CASE \/ \E r \in Ranges : ScanStart(r[1], r[2])
              \/ ScanDescend \/ ScanLeaf \/ ScanNext \/ ScanClose \/ UNCHANGED vars
    <3>1. UNCHANGED <<pages, meta, ins>>
      BY <2>10 DEF ScanStart, ScanDescend, ScanLeaf, ScanNext, ScanClose, vars
    <3> QED
      BY <3>1, SameSound
  <2>11. CASE InsertFails
    <3>1. failures \in Nat /\ failures' = failures + 1
      BY <2>11 DEF InsertFails, SoundInv
    <3>2. failures + 1 # failures
      BY <3>1
    <3> QED
      BY ONLY <1>2, <3>1, <3>2
  <2> QED
    BY <2>1, <2>2, <2>3, <2>4, <2>5, <2>6, <2>7, <2>8, <2>9, <2>10, <2>11 DEF Next
<1>3. InsertFails \/ failures' = failures
  BY DEF Next, vars, InsertStart, NewRootLeaf, Place, NewRight, WriteRight, WriteLeft,
         LinkSibling, NewRoot, WriteMeta, ScanStart, ScanDescend, ScanLeaf, ScanNext, ScanClose
<1> QED
  BY <1>1, <1>2, <1>3

-----------------------------------------------------------------------------
(* The items of a leaf lead nowhere.                                       *)

Nowhere(items) == \A i \in DOMAIN items : items[i].child = None
LeafInv == \A b \in Blocks : pages[b].level = 0 => Nowhere(pages[b].items)

LEMMA PlacedNowhere ==
    ASSUME IndInv, LeafInv, ToPlace, pages[ins.blk].level = 0
    PROVE  Nowhere(Placed)
<1>1. /\ TypeInv /\ ChainInv /\ Shape /\ ins.blk \in Blocks /\ ins.item.child = None
  BY DEF IndInv, Shape, ToPlace, OnPath, LeafItem
<1>2. PlacedWell
  BY <1>1, PlacedFits
<1>3. DOMAIN Placed = 1 .. Len(pages[ins.blk].items) + 1
  BY <1>2, LenProperties DEF PlacedWell
<1>4. DOMAIN pages[ins.blk].items = 1 .. Len(pages[ins.blk].items)
  BY <1>1, PageTypes
<1>5. \A i \in 1 .. Len(pages[ins.blk].items) : pages[ins.blk].items[i].child = None
  BY <1>1, <1>4 DEF LeafInv, Nowhere
<1>6. \A j \in 1 .. Len(pages[ins.blk].items) + 1 :
         \/ Placed[j] = ins.item
         \/ \E i \in 1 .. Len(pages[ins.blk].items) : Placed[j] = pages[ins.blk].items[i]
  BY <1>2 DEF PlacedWell
<1> QED
  BY <1>1, <1>3, <1>5, <1>6 DEF Nowhere

\* A page written over another, or added.
LEMMA LeafWritten ==
    ASSUME LeafInv, TypeInv, NEW b \in Blocks, NEW q \in Pages, pages' = [pages EXCEPT ![b] = q],
           q.level = 0 => Nowhere(q.items)
    PROVE  LeafInv'
<1>1. Blocks' = Blocks /\ pages'[b] = q /\ \A c \in Blocks : c # b => pages'[c] = pages[c]
  BY PageWritten
<1> QED
  BY <1>1 DEF LeafInv

LEMMA LeafAdded ==
    ASSUME LeafInv, TypeInv, NEW q \in Pages, pages' = Append(pages, q),
           q.level = 0 => Nowhere(q.items)
    PROVE  LeafInv'
<1>1. /\ Blocks' = Blocks \cup {Len(pages) + 1} /\ pages'[Len(pages) + 1] = q
      /\ \A c \in Blocks : pages'[c] = pages[c]
  BY PageAdded
<1> QED
  BY <1>1 DEF LeafInv

LEMMA LeafStep == IndInv /\ LeafInv /\ [Next]_vars => LeafInv'
<1> SUFFICES ASSUME IndInv, LeafInv, [Next]_vars PROVE LeafInv'
  OBVIOUS
<1>1. /\ TypeInv /\ Shape /\ ChainInv /\ InsInv /\ ins \in Inserts
      /\ \A b \in Blocks : pages[b] \in Pages /\ pages[b].items \in Seq(Items)
                           /\ pages[b].level \in Nat /\ pages[b].next \in Nat /\ b \in Nat
  BY PageTypes DEF IndInv, Shape, TypeInv
<1>2. CASE NewRootLeaf
  <2> DEFINE items == <<LeafItem(ins.entry)>>
  <2>1. ins.entry \in Keys
    BY <1>1 DEF Inserts
  <2>2. LeafItem(ins.entry) \in Items /\ LeafItem(ins.entry).child = None
    BY <2>1 DEF LeafItem, Items, None
  <2>3. items \in Seq(Items) /\ DOMAIN items = {1} /\ items[1] = LeafItem(ins.entry)
    BY <2>2
  <2> HIDE DEF items
  <2>4. [NewPage EXCEPT !.root = TRUE, !.items = items] \in Pages
    BY <2>3, EmptySeq DEF NewPage, Pages, None
  <2>5. Nowhere(items)
    BY <2>2, <2>3 DEF Nowhere
  <2>6. pages' = Append(pages, [NewPage EXCEPT !.root = TRUE, !.items = items])
    BY <1>2 DEF NewRootLeaf, items
  <2>7. [NewPage EXCEPT !.root = TRUE, !.items = items].items = items
    BY DEF NewPage
  <2> QED
    BY <1>1, <2>4, <2>5, <2>6, <2>7, LeafAdded
<1>3. CASE Place
  <2>1. ToPlace /\ ins.blk \in Blocks
    BY <1>1, <1>3 DEF Place, InsInv, ToPlace, OnPath
  <2>2. PlacedWell
    BY <1>1, <2>1, PlacedFits
  <2>3. PICK items \in Seq(Items) : items = Placed
    BY <2>2 DEF PlacedWell
  <2> DEFINE q == [pages[ins.blk] EXCEPT !.items = items]
  <2>4. q \in Pages /\ q.items = items /\ q.level = pages[ins.blk].level
    BY <1>1, <2>1 DEF Pages
  <2>5. pages' = [pages EXCEPT ![ins.blk] = q]
    BY <1>3, <2>3 DEF Place
  <2> HIDE DEF q
  <2>6. q.level = 0 => Nowhere(q.items)
    BY <2>1, <2>3, <2>4, PlacedNowhere
  <2> QED
    BY <1>1, <2>1, <2>4, <2>5, <2>6, LeafWritten
<1>4. CASE NewRight
  <2>1. NewPage \in Pages /\ Nowhere(NewPage.items)
    BY EmptySeq DEF NewPage, Pages, None, Nowhere
  <2>2. pages' = Append(pages, NewPage)
    BY <1>4 DEF NewRight
  <2> QED
    BY <1>1, <2>1, <2>2, LeafAdded
<1>5. CASE WriteRight
  <2>1. /\ ToPlace /\ ToSplit /\ ins.blk \in Blocks /\ ins.right \in Blocks
    BY <1>1, <1>5 DEF WriteRight, InsInv, ToSplit, ToPlace, OnPath
  <2>2. PlacedWell /\ ItemsInv(Placed, pages[ins.blk].level)
    BY <1>1, <2>1, PlacedFits
  <2>3. PICK s \in Seq(Items) : s = Placed
    BY <2>2 DEF PlacedWell
  <2>4. PICK at \in 1 .. Len(s) - 1 : at = ins.at
    BY <2>1, <2>3 DEF ToSplit
  <2>5. PICK level \in Nat : level = pages[ins.blk].level
    BY <1>1, <2>1
  <2>6. PICK items \in Seq(Items) : items = ToRight(s, at, level)
    BY ToRightIs
  <2> DEFINE q == [pages[ins.blk] EXCEPT !.root = FALSE, !.prev = ins.blk, !.items = items]
  <2>7. q \in Pages /\ q.items = items /\ q.level = level
    BY <1>1, <2>1, <2>5 DEF Pages
  <2>8. pages' = [pages EXCEPT ![ins.right] = q]
    BY <1>5, <2>3, <2>4, <2>5, <2>6 DEF WriteRight, ToRight, Moved
  <2> HIDE DEF q
  <2>9. ASSUME level = 0 PROVE Nowhere(items)
    <3>1. items = Moved(s, at) /\ Nowhere(s)
      BY <2>1, <2>3, <2>5, <2>6, <2>9, PlacedNowhere DEF ToRight
    <3>2. /\ DOMAIN Moved(s, at) = 1 .. Len(s) - at
          /\ \A i \in 1 .. Len(s) - at : i + at \in DOMAIN s /\ Moved(s, at)[i] = s[i + at]
      BY PartsAre
    <3> QED
      BY <3>1, <3>2 DEF Nowhere
  <2> QED
    BY <1>1, <2>1, <2>7, <2>8, <2>9, LeafWritten
<1>6. CASE WriteLeft
  <2>1. /\ ToPlace /\ ToSplit /\ ins.blk \in Blocks /\ ins.right \in Blocks
    BY <1>1, <1>6 DEF WriteLeft, InsInv, ToSplit, ToPlace, OnPath
  <2>2. PlacedWell /\ ItemsInv(Placed, pages[ins.blk].level) /\ ItemsIn(Placed, pages[ins.blk].level)
    BY <1>1, <2>1, PlacedFits
  <2>3. PICK s \in Seq(Items) : s = Placed
    BY <2>2 DEF PlacedWell
  <2>4. PICK at \in 1 .. Len(s) - 1 : at = ins.at
    BY <2>1, <2>3 DEF ToSplit
  <2>5. PICK level \in Nat : level = pages[ins.blk].level
    BY <1>1, <2>1
  <2>6. PICK items \in Seq(Items) : items = Kept(s, at)
    BY PartsAre
  <2>7. PICK high \in Entries : high = s[at + 1].key
    BY <2>2, <2>3, <2>5, KeptFits
  <2> DEFINE q == [pages[ins.blk] EXCEPT !.root = FALSE, !.next = ins.right, !.high = high,
                                         !.items = items]
  <2>8. q \in Pages /\ q.items = items /\ q.level = level
    BY <1>1, <2>1, <2>5 DEF Pages
  <2>9. pages' = [pages EXCEPT ![ins.blk] = q]
    BY <1>6, <2>3, <2>4, <2>6, <2>7 DEF WriteLeft, Kept
  <2> HIDE DEF q
  <2>10. ASSUME level = 0 PROVE Nowhere(items)
    <3>1. Nowhere(s)
      BY <2>1, <2>3, <2>5, <2>10, PlacedNowhere
    <3>2. DOMAIN Kept(s, at) = 1 .. at /\ \A i \in 1 .. at : i \in DOMAIN s /\ Kept(s, at)[i] = s[i]
      BY PartsAre
    <3> QED
      BY <2>6, <3>1, <3>2 DEF Nowhere
  <2> QED
    BY <1>1, <2>1, <2>8, <2>9, <2>10, LeafWritten
<1>7. CASE LinkSibling
  <2>1. ins.right \in Blocks /\ PageInv(ins.right)
    BY <1>1, <1>7 DEF LinkSibling, InsInv, IsSplit, Shape
  <2>2. CASE pages[ins.right].next = None
    BY <1>7, <2>2 DEF LinkSibling, LeafInv, Blocks
  <2>3. CASE pages[ins.right].next # None
    <3>1. PICK a \in Blocks : a = pages[ins.right].next
      BY <2>1, <2>3 DEF PageInv
    <3> DEFINE q == [pages[a] EXCEPT !.prev = ins.right]
    <3>2. q \in Pages /\ q.level = pages[a].level /\ q.items = pages[a].items
      BY <1>1, <2>1 DEF Pages
    <3>3. pages' = [pages EXCEPT ![a] = q]
      BY <1>7, <2>3, <3>1 DEF LinkSibling
    <3> HIDE DEF q
    <3> QED
      BY <1>1, <3>2, <3>3, LeafWritten DEF LeafInv
  <2> QED
    BY <2>2, <2>3
<1>8. CASE NewRoot
  <2>1. /\ ins.blk \in Blocks /\ ins.right \in Blocks /\ pages[ins.blk].high \in Entries
    BY <1>1, <1>8 DEF NewRoot, InsInv, IsSplit, OnPath
  <2> DEFINE left  == Downlink(MinusInf, ins.blk)
             right == Downlink(pages[ins.blk].high, ins.right)
             items == <<left, right>>
             level == pages[ins.blk].level + 1
             q == [NewPage EXCEPT !.level = level, !.root = TRUE, !.items = items]
  <2>2. left \in Items /\ right \in Items
    <3>1. MinusInf \in Keys /\ pages[ins.blk].high \in Keys
      BY <2>1 DEF Keys
    <3> QED
      BY <1>1, <2>1, <3>1, DownlinkIs
  <2> HIDE DEF left, right
  <2>3. items \in Seq(Items) /\ level \in Nat /\ level # 0
    BY <1>1, <2>1, <2>2
  <2> HIDE DEF items, level
  <2>4. q \in Pages /\ q.level = level
    BY <2>3, RootPageIs
  <2>5. pages' = Append(pages, q)
    BY <1>8 DEF NewRoot, left, right, items, level
  <2> HIDE DEF q
  <2> QED
    BY <1>1, <2>3, <2>4, <2>5, LeafAdded
<1>9. CASE UNCHANGED pages
  BY <1>9 DEF LeafInv, Blocks
<1> QED
  BY <1>2, <1>3, <1>4, <1>5, <1>6, <1>7, <1>8, <1>9
  DEF Next, vars, InsertStart, WriteMeta, InsertFails, ScanStart, ScanDescend, ScanLeaf,
      ScanNext, ScanClose

-----------------------------------------------------------------------------
(* Tree.Check between two inserts.                                         *)

LEMMA CheckPasses == IndInv /\ SoundInv /\ LeafInv => TreeIsSound
<1> SUFFICES ASSUME IndInv, SoundInv, LeafInv, ins.pc = "idle", failures = 0
             PROVE  /\ (meta.root = None) = (pages = <<>>)
                    /\ \A b \in Blocks :
                          /\ PageIsSound(b)
                          /\ pages[b].level > 0 => DownlinksAreSound(b)
                          /\ Cardinality(LinksTo(b)) = IF b = meta.root THEN 0 ELSE 1
  BY DEF TreeIsSound
<1> DEFINE root == meta.root
           tops == IF root = None THEN {} ELSE {root}
           it   == Rows
<1>1. /\ TypeInv /\ MetaInv /\ SoundTree
      /\ \A b \in Blocks : /\ pages[b] \in Pages /\ b # None /\ pages[b].items \in Seq(Items)
                           /\ pages[b].level \in Nat
                           /\ DOMAIN pages[b].items = 1 .. Len(pages[b].items)
  BY PageTypes DEF IndInv, Shape, SoundInv
<1>2. /\ Tree = Blocks /\ Root = root /\ ~RootSplit /\ Tops = tops /\ OwedTo = None
      /\ \A c : Prev(c) = pages[c].prev
  BY DEF Tree, Root, RootSplit, Tops, OwedTo, Prev
<1>3. \A c \in Blocks : it[c] = pages[c].items
  BY <1>1, <1>2, NoneDue
<1>4. TreeFits(Blocks, pages, it, tops)
  BY <1>1, <1>2 DEF SoundTree
<1> HIDE DEF it
<1>5. /\ \A b \in Blocks : /\ pages[b].next # None => pages[pages[b].next].prev = b
                           /\ pages[b].prev # None => /\ pages[b].prev \in Blocks
                                                      /\ pages[pages[b].prev].next = b
  BY <1>1, <1>2 DEF SoundTree, PrevFits
<1>6. /\ root = None <=> Blocks = {}
      /\ \A b \in Blocks : pages[b].root <=> b = root
      /\ root # None => root \in Blocks /\ pages[root].prev = None /\ pages[root].next = None
  BY <1>1, <1>2 DEF SoundTree, RootFits
<1>7. (meta.root = None) = (pages = <<>>)
  <2>1. Blocks = {} <=> pages = <<>>
    <3>1. Blocks = 1 .. Len(pages) /\ Len(pages) \in Nat /\ pages \in Seq(Pages)
      BY <1>1, PageTypes DEF TypeInv
    <3>2. Len(pages) = 0 <=> pages = <<>>
      BY <3>1, EmptySeq
    <3>3. Len(pages) # 0 => 1 \in Blocks
      BY <3>1
    <3>4. Len(pages) = 0 => Blocks = {}
      BY <3>1
    <3> QED
      BY <3>2, <3>3, <3>4
  <2> QED
    BY <1>6, <2>1
<1> SUFFICES ASSUME NEW b \in Blocks
             PROVE  /\ PageIsSound(b)
                    /\ pages[b].level > 0 => DownlinksAreSound(b)
                    /\ Cardinality(LinksTo(b)) = IF b = meta.root THEN 0 ELSE 1
  BY <1>7
<1> DEFINE p == pages[b]
<1>8. /\ InOrder(p.items, p.level, p.high)
      /\ (p.next = None) <=> (p.high = PlusInf)
      /\ p.next # None => p.next \in Blocks /\ pages[p.next].level = p.level
  BY <1>3, <1>4 DEF TreeFits, Sides
<1>9. p.prev # None =>
         p.prev \in Blocks /\ pages[p.prev].level = p.level
         /\ Above(p.items, p.level, pages[p.prev].high)
  BY <1>1, <1>3, <1>4, <1>5 DEF TreeFits, Sides
<1>10. PageIsSound(b)
  <2>1. p.items # <<>> /\ Len(p.items) + HighKeys(p) <= Capacity
    BY <1>1, <1>2 DEF SoundTree, SizeFits
  <2>2. p.root = (b = meta.root)
    <3>1. p.root \in BOOLEAN
      BY <1>1 DEF Pages
    <3> QED
      BY <1>6, <3>1
  <2>3. p.root => p.level = meta.level /\ p.prev = None /\ p.next = None
    BY <1>1, <1>6 DEF MetaInv
  <2>4. (p.next = None) = (p.high = PlusInf)
    BY <1>8
  <2>5. p.next # None => pages[p.next].prev = b /\ pages[p.next].level = p.level
    BY <1>5, <1>8
  <2>6. p.prev # None => /\ pages[p.prev].next = b
                         /\ p.level = 0 => ~Less(p.items[1].key, pages[p.prev].high)
    <3>1. 1 \in 1 .. Len(p.items)
      BY <1>1, <2>1, ItemTypes
    <3> QED
      BY <1>5, <1>9, <3>1 DEF Above
  <2>7. \A i, j \in DOMAIN p.items : i < j => Less(p.items[i].key, p.items[j].key)
    BY <1>1, <1>8 DEF InOrder
  <2>8. \A i \in DOMAIN p.items : /\ Less(p.items[i].key, p.high)
                                  /\ (p.items[i].key = MinusInf) = (p.level > 0 /\ i = 1)
    BY <1>1, <1>8 DEF InOrder
  <2> QED
    BY <2>1, <2>2, <2>3, <2>4, <2>5, <2>6, <2>7, <2>8 DEF PageIsSound
<1>11. ASSUME p.level > 0 PROVE DownlinksAreSound(b)
  <2> SUFFICES ASSUME NEW i \in DOMAIN p.items
               PROVE  LET c == pages[p.items[i].child] IN
                      /\ c.level = p.level - 1
                      /\ IF i < Len(p.items)
                         THEN c.high = p.items[i + 1].key /\ c.next = p.items[i + 1].child
                         ELSE /\ c.high = p.high
                              /\ c.next = IF p.next = None THEN None
                                          ELSE pages[p.next].items[1].child
    BY DEF DownlinksAreSound
  <2>1. it[b] = p.items /\ i \in 1 .. Len(it[b])
    BY <1>1, <1>3
  <2>2. Led(pages, it, b, i)
    BY <1>4, <1>11, <2>1 DEF TreeFits, Down
  <2>3. p.next # None => it[p.next] = pages[p.next].items
    BY <1>3, <1>8
  <2> QED
    BY <2>1, <2>2, <2>3 DEF Led
<1>12. ASSUME NEW a \in Blocks, NEW i \in 1 .. Capacity, <<a, i>> \in LinksTo(b)
       PROVE  pages[a].level > 0 /\ i \in 1 .. Len(it[a]) /\ it[a][i].child = b
  <2>1. i \in DOMAIN pages[a].items /\ pages[a].items[i].child = b
    BY <1>12 DEF LinksTo
  <2>2. pages[a].level # 0
    BY <1>1, <2>1 DEF LeafInv, Nowhere
  <2> QED
    BY <1>1, <1>3, <2>1, <2>2
<1>13. LinksTo(b) \subseteq Blocks \X (1 .. Capacity)
  BY DEF LinksTo
<1>14. CASE b = root
  <2>1. ASSUME NEW l \in LinksTo(b) PROVE FALSE
    <3>1. PICK a \in Blocks, i \in 1 .. Capacity : l = <<a, i>>
      BY <1>13
    <3>2. pages[a].level > 0 /\ i \in 1 .. Len(it[a]) /\ it[a][i].child = b
      BY <1>12, <3>1
    <3>3. b \in tops
      BY <1>1, <1>14
    <3> QED
      BY <1>4, <3>2, <3>3 DEF TreeFits, OneLink
  <2>2. LinksTo(b) = {}
    BY <2>1
  <2> QED
    BY <1>10, <1>11, <1>14, <2>2, FS_EmptySet
<1>15. CASE b # root
  <2>1. b \notin tops
    BY <1>15
  <2>2. PICK a \in Blocks : pages[a].level > 0 /\ \E i \in 1 .. Len(it[a]) : it[a][i].child = b
    BY <1>4, <2>1 DEF TreeFits, OneLink
  <2>3. PICK i \in 1 .. Len(it[a]) : it[a][i].child = b
    BY <2>2
  <2>4. i \in 1 .. Capacity /\ i \in DOMAIN pages[a].items
    <3>1. Len(pages[a].items) + HighKeys(pages[a]) <= Capacity /\ HighKeys(pages[a]) \in {0, 1}
      BY <1>1, <1>2 DEF SoundTree, SizeFits, HighKeys
    <3>2. i \in 1 .. Len(pages[a].items) /\ Len(pages[a].items) \in Nat
      BY <1>1, <1>3, ItemTypes
    <3> QED
      BY <1>1, <3>1, <3>2, CapacityAssumption
  <2>5. <<a, i>> \in LinksTo(b)
    BY <1>3, <2>3, <2>4 DEF LinksTo
  <2>6. ASSUME NEW l \in LinksTo(b) PROVE l = <<a, i>>
    <3>1. PICK c \in Blocks, j \in 1 .. Capacity : l = <<c, j>>
      BY <1>13
    <3>2. pages[c].level > 0 /\ j \in 1 .. Len(it[c]) /\ it[c][j].child = b
      BY <1>12, <3>1
    <3>3. c = a /\ j = i
      BY <1>4, <2>2, <2>3, <3>2 DEF TreeFits, OneLink
    <3> QED
      BY <3>1, <3>3
  <2>7. LinksTo(b) = {<<a, i>>}
    BY <2>5, <2>6
  <2>8. Cardinality(LinksTo(b)) = 1
    BY <2>7, FS_Singleton
  <2> QED
    BY <1>10, <1>11, <1>15, <2>8
<1> QED
  BY <1>14, <1>15

\* However many keys there are, whatever a page holds and wherever it splits,
\* as long as no insert has failed half way: between two inserts the tree
\* passes Tree.Check (btree.go), its order, high keys and sibling links, a
\* downlink to every page but the root, and under each page what its downlinks
\* promise.
THEOREM TreeAlwaysSound == Spec => []TreeIsSound
<1>1. Init => SoundInv /\ LeafInv
  <2>1. Init => LeafInv
    BY DEF Init, LeafInv, Blocks
  <2> QED
    BY <2>1, InitSound
<1>2. IndInv /\ IndInv' /\ SoundInv /\ LeafInv /\ [Next]_vars => SoundInv' /\ LeafInv'
  BY NextSound, LeafStep
<1>3. IndInv /\ SoundInv /\ LeafInv => TreeIsSound
  BY CheckPasses
<1> QED
  BY <1>1, <1>2, <1>3, Invariance, PTL DEF Spec

-----------------------------------------------------------------------------
(* A key belongs on one page of each level.                                *)

\* Where it belongs on a child, it belongs on the parent, at that downlink.
LEMMA StepUp ==
    ASSUME NEW T, NEW pg, NEW it, NEW tops, TreeFits(T, pg, it, tops),
           NEW b \in T, pg[b].level > 0, NEW k \in Bounds, NEW i \in 1 .. Len(it[b]),
           Belongs(T, pg, k, it[b][i].child)
    PROVE  /\ Belongs(T, pg, k, b) /\ ~Less(k, it[b][i].key)
           /\ i < Len(it[b]) => Less(k, it[b][i + 1].key)
<1> DEFINE s == it[b]
           c == s[i].child
<1>1. /\ s \in Seq(Items) /\ Len(s) \in Nat /\ \A j \in 1 .. Len(s) : s[j].key \in Bounds
      /\ Led(pg, it, b, i) /\ c # None /\ InOrder(s, pg[b].level, pg[b].high)
      /\ \A d \in T : pg[d].high \in Bounds
  <2>1. s \in Seq(Items) /\ \A d \in T : pg[d].high \in Bounds
    BY EndsAre DEF TreeFits, TreeTypes
  <2>2. Led(pg, it, b, i) /\ c # None /\ InOrder(s, pg[b].level, pg[b].high)
    BY DEF TreeFits, TreeTypes, Sides, Down
  <2> QED
    BY <2>1, <2>2, ItemTypes
<1>2. Less(k, pg[c].high) /\ \A d \in T : pg[d].next = c => ~Less(k, pg[d].high)
  BY DEF Belongs
<1>3. i < Len(s) => Less(k, s[i + 1].key)
  BY <1>1, <1>2 DEF Led
<1>4. Less(k, pg[b].high)
  <2>1. CASE i < Len(s)
    <3>1. i + 1 \in 1 .. Len(s)
      BY <1>1, <2>1
    <3>2. Less(s[i + 1].key, pg[b].high) /\ s[i + 1].key \in Bounds
      BY <1>1, <3>1 DEF InOrder
    <3> QED
      BY <1>1, <1>3, <2>1, <3>2, OrderIs
  <2>2. CASE ~(i < Len(s))
    BY <1>1, <1>2, <2>2 DEF Led
  <2> QED
    BY <2>1, <2>2
<1>5. CASE i = 1
  <2>1. ~Less(k, s[i].key)
    BY <1>1, <1>5, EndsAre DEF InOrder
  <2>2. ASSUME NEW d \in T, pg[d].next = b PROVE ~Less(k, pg[d].high)
    <3>1. b # None /\ pg[d].level = pg[b].level /\ it[d] # <<>> /\ it[d] \in Seq(Items)
      BY <2>2 DEF TreeFits, TreeTypes, Sides, InOrder
    <3>2. Len(it[d]) \in 1 .. Len(it[d])
      BY <3>1, ItemTypes
    <3>3. it[d][Len(it[d])].child \in T /\ Led(pg, it, d, Len(it[d]))
      BY <3>1, <3>2 DEF TreeFits, Down
    <3>4. ~(Len(it[d]) < Len(it[d]))
      BY <3>2
    <3>5. pg[it[d][Len(it[d])].child].high = pg[d].high /\ pg[it[d][Len(it[d])].child].next = c
      BY <1>5, <2>2, <3>1, <3>3, <3>4 DEF Led
    <3> QED
      BY <1>2, <3>3, <3>5
  <2> QED
    BY <1>3, <1>4, <2>1, <2>2 DEF Belongs
<1>6. CASE i # 1
  <2>1. i - 1 \in 1 .. Len(s) /\ i - 1 < Len(s) /\ (i - 1) + 1 = i /\ i > 1
    BY <1>1, <1>6
  <2>2. s[i - 1].child \in T /\ Led(pg, it, b, i - 1)
    BY <2>1 DEF TreeFits, Down
  <2>3. pg[s[i - 1].child].high = s[i].key /\ pg[s[i - 1].child].next = c
    BY <2>1, <2>2 DEF Led
  <2>4. ~Less(k, s[i].key)
    BY <1>2, <2>2, <2>3
  <2>5. ASSUME NEW d \in T, pg[d].next = b PROVE ~Less(k, pg[d].high)
    <3>1. Less(pg[d].high, s[i].key)
      BY <2>1, <2>5 DEF TreeFits, TreeTypes, Sides, Above
    <3> QED
      BY <1>1, <2>4, <3>1, OrderIs
  <2> QED
    BY <1>3, <1>4, <2>4, <2>5 DEF Belongs
<1> QED
  BY <1>5, <1>6

\* Finitely many numbers have a bound.
LEMMA BoundExists ==
    ASSUME NEW n \in Nat, NEW f, \A i \in 1 .. n : f[i] \in Nat
    PROVE  \E M \in Nat : \A i \in 1 .. n : f[i] <= M
<1> DEFINE Out == {m \in 0 .. n : ~\E M \in Nat : \A i \in 1 .. m : f[i] <= M}
<1> SUFFICES ASSUME n \in Out PROVE FALSE
  OBVIOUS
<1>1. PICK m \in Out : \A j \in Out : m <= j
  <2>1. Out \in SUBSET Nat
    OBVIOUS
  <2> HIDE DEF Out
  <2> QED
    BY <2>1, SmallestOf
<1>2. m # 0
  <2>1. \A i \in 1 .. 0 : f[i] <= 0
    OBVIOUS
  <2> QED
    BY <1>1, <2>1
<1>3. m - 1 \in 0 .. n /\ ~(m <= m - 1) /\ m \in 1 .. n
  BY <1>1, <1>2
<1>4. PICK M \in Nat : \A i \in 1 .. m - 1 : f[i] <= M
  BY <1>1, <1>3
<1>5. ASSUME NEW i \in 1 .. m PROVE f[i] <= M + f[m]
  <2>1. /\ i \in 1 .. n /\ i \in Nat /\ f[i] \in Nat /\ f[m] \in Nat /\ M \in Nat
        /\ i = m \/ i \in 1 .. m - 1
    BY <1>3
  <2>2. i \in 1 .. m - 1 => f[i] <= M
    BY <1>4
  <2> QED
    BY <2>1, <2>2
<1>6. M + f[m] \in Nat
  BY <1>3
<1> QED
  BY <1>1, <1>5, <1>6

\* A search ends at one place.
LEMMA OneDownlink ==
    ASSUME NEW s \in Seq(Items), NEW level, NEW high, InOrder(s, level, high), NEW k \in Bounds,
           NEW i \in 1 .. Len(s), ~Less(k, s[i].key), i < Len(s) => Less(k, s[i + 1].key),
           NEW j \in 1 .. Len(s), ~Less(k, s[j].key), j < Len(s) => Less(k, s[j + 1].key)
    PROVE  i = j
<1>1. /\ Len(s) \in Nat /\ \A l \in 1 .. Len(s) : s[l].key \in Bounds
      /\ \A l, r \in 1 .. Len(s) : l < r => Less(s[l].key, s[r].key)
  BY ItemTypes DEF InOrder
<1>2. ASSUME NEW g \in 1 .. Len(s), NEW h \in 1 .. Len(s), g < h, ~Less(k, s[h].key),
             g < Len(s) => Less(k, s[g + 1].key)
      PROVE  FALSE
  <2>1. g < Len(s) /\ g + 1 \in 1 .. Len(s) /\ (g + 1 = h \/ g + 1 < h)
    BY <1>1, <1>2
  <2>2. s[g + 1].key = s[h].key \/ Less(s[g + 1].key, s[h].key)
    BY <1>1, <2>1
  <2>3. Less(k, s[g + 1].key) /\ s[g + 1].key \in Bounds /\ s[h].key \in Bounds
    BY <1>1, <1>2, <2>1
  <2> QED
    BY <1>2, <2>2, <2>3, OrderIs
<1>3. i < j \/ j < i \/ i = j
  BY <1>1
<1> QED
  BY <1>2, <1>3

LEMMA OnePage ==
    ASSUME NEW n \in Nat, NEW T \in SUBSET (1 .. n), NEW pg, NEW it, NEW tops,
           TreeFits(T, pg, it, tops),
           \A t, u \in tops : t \in T /\ (t = u \/ pg[t].next = u \/ pg[u].next = t),
           NEW k \in Bounds, NEW b \in T, NEW d \in T,
           Belongs(T, pg, k, b), Belongs(T, pg, k, d), pg[b].level = pg[d].level
    PROVE  b = d
<1>1. None \notin T /\ \A t \in T : pg[t].level \in Nat /\ it[t] \in Seq(Items)
  BY DEF TreeFits, TreeTypes
<1>2. ASSUME NEW t \in T, t \notin tops
      PROVE  \E a \in T : /\ pg[a].level > 0 /\ pg[a].level = pg[t].level + 1
                          /\ \E i \in 1 .. Len(it[a]) : it[a][i].child = t
  <2>1. PICK a \in T : pg[a].level > 0 /\ \E i \in 1 .. Len(it[a]) : it[a][i].child = t
    BY <1>2 DEF TreeFits, OneLink
  <2>2. PICK i \in 1 .. Len(it[a]) : it[a][i].child = t
    BY <2>1
  <2>3. pg[t].level = pg[a].level - 1
    BY <2>1, <2>2 DEF TreeFits, Down, Led
  <2> QED
    <3>1. pg[a].level = pg[t].level + 1
      BY <1>1, <2>3
    <3> QED
      BY <2>1, <3>1
<1> DEFINE Height == {m \in Nat : \A t \in T : pg[t].level <= m}
<1>3. PICK M \in Height : \A j \in Height : M <= j
  <2>1. \E m \in Nat : \A i \in 1 .. n : (IF i \in T THEN pg[i].level ELSE 0) <= m
    <3> DEFINE f == [i \in 1 .. n |-> IF i \in T THEN pg[i].level ELSE 0]
    <3>1. \A i \in 1 .. n : f[i] \in Nat /\ f[i] = IF i \in T THEN pg[i].level ELSE 0
      BY <1>1
    <3> HIDE DEF f
    <3>2. \E m \in Nat : \A i \in 1 .. n : f[i] <= m
      BY <3>1, BoundExists
    <3> QED
      BY <3>1, <3>2
  <2>2. \E m \in Nat : m \in Height
    BY <2>1
  <2>3. Height \in SUBSET Nat
    OBVIOUS
  <2> HIDE DEF Height
  <2> QED
    BY <2>2, <2>3, SmallestOf
<1>4. PICK top \in T : pg[top].level = M
  <2> SUFFICES ASSUME \A t \in T : pg[t].level # M PROVE FALSE
    OBVIOUS
  <2>1. M # 0 /\ M \in Nat
    BY <1>1, <1>3
  <2>2. M - 1 \in Nat /\ ~(M <= M - 1)
    BY <2>1
  <2>3. \A t \in T : pg[t].level <= M - 1
    BY <1>1, <1>3, <2>1
  <2> QED
    BY <1>3, <2>2, <2>3
<1>5. \A t \in T : pg[t].level = M => t \in tops
  BY <1>1, <1>2, <1>3
<1>6. \A t \in tops : pg[t].level = M
  <2>1. top \in tops
    BY <1>4, <1>5
  <2> QED
    BY <1>1, <1>4, <2>1 DEF TreeFits, Sides
<1> DEFINE Two(x, y, m) == /\ pg[x].level = M - m /\ pg[y].level = M - m /\ x # y
                           /\ Belongs(T, pg, k, x) /\ Belongs(T, pg, k, y)
           Bad == {m \in 0 .. M : \E x, y \in T : Two(x, y, m)}
<1>7. Bad = {}
  <2> SUFFICES ASSUME Bad # {} PROVE FALSE
    OBVIOUS
  <2>1. PICK m \in Bad : \A j \in Bad : m <= j
    <3>1. Bad \in SUBSET Nat
      BY <1>3
    <3> HIDE DEF Bad
    <3> QED
      BY <3>1, SmallestOf
  <2>2. PICK x \in T, y \in T : Two(x, y, m)
    BY <2>1
  <2>3. ASSUME NEW u \in T, NEW v \in T, Two(u, v, m), u \in tops PROVE FALSE
    <3>1. v \in tops
      BY <1>5, <1>6, <2>3
    <3>2. pg[u].next = v \/ pg[v].next = u
      BY <2>3, <3>1
    <3> QED
      BY <2>3, <3>2 DEF Belongs
  <2>4. x \notin tops /\ y \notin tops
    BY <2>2, <2>3
  <2>5. PICK a \in T : /\ pg[a].level > 0 /\ pg[a].level = pg[x].level + 1
                       /\ \E i \in 1 .. Len(it[a]) : it[a][i].child = x
    BY <1>2, <2>4
  <2>6. PICK c \in T : /\ pg[c].level > 0 /\ pg[c].level = pg[y].level + 1
                       /\ \E i \in 1 .. Len(it[c]) : it[c][i].child = y
    BY <1>2, <2>4
  <2>7. PICK i \in 1 .. Len(it[a]) : it[a][i].child = x
    BY <2>5
  <2>8. PICK j \in 1 .. Len(it[c]) : it[c][j].child = y
    BY <2>6
  <2>9. /\ Belongs(T, pg, k, a) /\ ~Less(k, it[a][i].key)
        /\ i < Len(it[a]) => Less(k, it[a][i + 1].key)
    BY <2>2, <2>5, <2>7, StepUp
  <2>10. /\ Belongs(T, pg, k, c) /\ ~Less(k, it[c][j].key)
         /\ j < Len(it[c]) => Less(k, it[c][j + 1].key)
    BY <2>2, <2>6, <2>8, StepUp
  <2>11. a = c
    <3>1. m # 0 /\ m \in Nat /\ M \in Nat /\ m <= M
      <4>1. m \in 0 .. M /\ M \in Nat /\ pg[x].level = M - m
        BY <1>3, <2>1, <2>2
      <4>2. pg[a].level <= M
        BY <1>3
      <4>3. m # 0 /\ m \in Nat /\ M \in Nat
        BY <2>5, <4>1, <4>2
      <4> HIDE DEF Height, Two, Bad
      <4> QED
        BY <4>1, <4>3
    <3>2. m - 1 \in 0 .. M /\ ~(m <= m - 1) /\ M - m + 1 = M - (m - 1)
      <4> HIDE DEF Height, Two, Bad
      <4> QED
        BY ONLY <3>1
    <3>3. pg[a].level = M - (m - 1) /\ pg[c].level = M - (m - 1)
      BY <2>2, <2>5, <2>6, <3>2
    <3>4. m - 1 \notin Bad
      BY <2>1, <3>2
    <3> QED
      BY <2>9, <2>10, <3>2, <3>3, <3>4
  <2>12. i = j
    <3>1. PICK s \in Seq(Items) : s = it[a]
      BY <1>1
    <3>2. InOrder(s, pg[a].level, pg[a].high)
      BY <3>1 DEF TreeFits, Sides
    <3>3. i \in 1 .. Len(s) /\ j \in 1 .. Len(s)
      BY <2>11, <3>1
    <3>4. /\ ~Less(k, s[i].key) /\ (i < Len(s) => Less(k, s[i + 1].key))
          /\ ~Less(k, s[j].key) /\ (j < Len(s) => Less(k, s[j + 1].key))
      BY <2>9, <2>10, <2>11, <3>1
    <3> QED
      BY <3>2, <3>3, <3>4, OneDownlink
  <2> QED
    BY <2>2, <2>7, <2>8, <2>11, <2>12
<1>8. ASSUME b # d PROVE FALSE
  <2>1. M \in Nat /\ pg[b].level \in 0 .. M
    BY <1>1, <1>3
  <2>2. M - pg[b].level \in 0 .. M /\ M - (M - pg[b].level) = pg[b].level
    BY <2>1
  <2> QED
    BY <1>7, <1>8, <2>2
<1> QED
  BY <1>8

-----------------------------------------------------------------------------
(* What is on the pages, of the tree as it will be.                        *)

LEMMA TopsAre ==
    ASSUME IndInv, SoundTree
    PROVE  /\ Tree \subseteq Blocks /\ Tree \in SUBSET (1 .. Len(pages)) /\ Len(pages) \in Nat
           /\ \A t \in Tops : pages[t].next = None \/ pages[t].next \in Tops
           /\ \A t, u \in Tops : t \in Tree /\ (t = u \/ pages[t].next = u \/ pages[u].next = t)
<1>1. Tree \subseteq Blocks /\ Tree \in SUBSET (1 .. Len(pages)) /\ Len(pages) \in Nat
  BY PageTypes DEF IndInv, Shape, Tree
<1>2. CASE RootSplit
  <2>1. Tops \subseteq {Root, ins.right} /\ pages[Root].next = ins.right
    BY <1>2 DEF Tops, RootSplit, SoundTree, SplitKnown
  <2>2. Root # None => Root \in Tree /\ ins.right \in Tree /\ pages[ins.right].next = None
    BY <1>2 DEF SoundTree, RootFits
  <2>3. Root = None => Tops = {}
    BY DEF Tops
  <2>4. Root # None => Tops = {Root, ins.right}
    BY <1>2 DEF Tops
  <2> QED
    BY <1>1, <2>1, <2>2, <2>3, <2>4
<1>3. CASE ~RootSplit
  <2>1. Root # None => Tops = {Root} /\ Root \in Tree /\ pages[Root].next = None
    BY <1>3 DEF Tops, SoundTree, RootFits
  <2>2. Root = None => Tops = {}
    BY DEF Tops
  <2> QED
    BY <1>1, <2>1, <2>2
<1> QED
  BY <1>2, <1>3

\* The items on a page are among those it will have, in the same order.
Among(s, r) ==
    \E m \in [1 .. Len(s) -> 1 .. Len(r)] :
        /\ \A i \in 1 .. Len(s) : r[m[i]] = s[i]
        /\ \A i, j \in 1 .. Len(s) : i < j => m[i] < m[j]

LEMMA SplicedAmong ==
    ASSUME NEW s \in Seq(Items), NEW r \in Seq(Items), NEW e, NEW pos \in 1 .. Len(s) + 1,
           IsSpliced(r, s, e, pos)
    PROVE  Among(s, r)
<1> DEFINE n == Len(s)
           m == [i \in 1 .. n |-> IF i < pos THEN i ELSE i + 1]
<1>1. n \in Nat /\ Len(r) = n + 1 /\ pos \in 1 .. n + 1
  BY ItemTypes DEF IsSpliced
<1>2. \A i \in 1 .. n : m[i] = IF i < pos THEN i ELSE i + 1
  OBVIOUS
<1>3. m \in [1 .. n -> 1 .. Len(r)]
  BY <1>1
<1> HIDE DEF m
<1>4. \A i \in 1 .. n : r[m[i]] = s[i]
  <2> SUFFICES ASSUME NEW i \in 1 .. n PROVE r[m[i]] = s[i]
    OBVIOUS
  <2>1. r[IF i < pos THEN i ELSE i + 1] = s[i]
    BY DEF IsSpliced
  <2> QED
    BY <1>2, <2>1
<1>5. \A i, j \in 1 .. n : i < j => m[i] < m[j]
  BY <1>1, <1>2
<1> QED
  BY <1>3, <1>4, <1>5 DEF Among

LEMMA RawRows ==
    ASSUME IndInv, SoundTree, NEW b \in Tree
    PROVE  /\ b \in Blocks /\ pages[b] \in Pages /\ b # None
           /\ pages[b].items \in Seq(Items) /\ Rows[b] \in Seq(Items)
           /\ Among(pages[b].items, Rows[b])
<1>1. /\ b \in Blocks /\ pages[b] \in Pages /\ b # None /\ pages[b].items \in Seq(Items)
      /\ TypeInv
  BY PageTypes DEF IndInv, Shape, Tree
<1>2. Rows[b] \in Seq(Items)
  BY DEF SoundTree, TreeFits, TreeTypes
<1>3. PICK s \in Seq(Items) : s = pages[b].items
  BY <1>1
<1>4. CASE b # OwedTo
  <2>1. Rows[b] = s
    BY <1>1, <1>3, <1>4 DEF Rows, Due
  <2> DEFINE m == [i \in 1 .. Len(s) |-> i]
  <2>2. /\ m \in [1 .. Len(s) -> 1 .. Len(s)]
        /\ \A i \in 1 .. Len(s) : s[m[i]] = s[i]
        /\ \A i, j \in 1 .. Len(s) : i < j => m[i] < m[j]
    OBVIOUS
  <2>3. Among(s, s)
    BY <2>2 DEF Among
  <2> QED
    BY <1>1, <1>2, <1>3, <2>1, <2>3
<1>5. CASE b = OwedTo
  <2>1. ins.pc \in {"place", "right", "left", "sibling"}
    BY <1>1, <1>5 DEF OwedTo
  <2>2. Owed \in Items
    <3>1. CASE ins.pc = "sibling"
      <4>1. IsSplit /\ ins \in Inserts
        BY <1>1, <3>1 DEF IndInv, InsInv, TypeInv
      <4>2. pages[ins.blk].high \in Entries /\ ins.right \in Nat
        BY <4>1 DEF IsSplit, Inserts
      <4> QED
        BY <3>1, <4>2, KeysAre DEF Owed, Downlink, Items
    <3>2. CASE ins.pc # "sibling"
      BY <1>1, <3>2 DEF Owed, TypeInv, Inserts
    <3> QED
      BY <3>1, <3>2
  <2>3. Position(pages[b]) \in 1 .. Len(s) + 1
    <3>1. ins.entry \in Keys
      BY <1>1 DEF TypeInv, Inserts
    <3>2. LeafPosition(pages[b], ins.entry) \in 1 .. Len(s) + 1
          /\ LinkPosition(pages[b], ins.entry) \in 0 .. Len(s)
      BY <1>1, <1>3, <3>1, PlacesAre
    <3>3. Len(s) \in Nat
      BY ItemTypes
    <3> QED
      BY <3>2, <3>3 DEF Position
  <2>4. PICK pos \in 1 .. Len(s) + 1 : pos = Position(pages[b])
    BY <2>3
  <2>5. Rows[b] = Splice(s, Owed, pos)
    BY <1>1, <1>3, <1>5, <2>4 DEF Rows, Due
  <2>6. IsSpliced(Rows[b], s, Owed, pos)
    BY <2>2, <2>5, Spliced
  <2>7. Among(s, Rows[b])
    BY <1>2, <2>6, SplicedAmong
  <2> QED
    BY <1>1, <1>2, <1>3, <2>7
<1> QED
  BY <1>4, <1>5

\* So a page is in order already, its items between its left sibling's high key
\* and its own.
LEMMA RawFits ==
    ASSUME IndInv, SoundTree, NEW b \in Tree
    PROVE  LET s == pages[b].items IN
           /\ s \in Seq(Items) /\ s # <<>>
           /\ \A i, j \in 1 .. Len(s) : i < j => Less(s[i].key, s[j].key)
           /\ \A i \in 1 .. Len(s) :
                 /\ Less(s[i].key, pages[b].high)
                 /\ \E j \in 1 .. Len(Rows[b]) : Rows[b][j] = s[i]
                 /\ pages[b].level = 0 =>
                       \A d \in Tree : pages[d].next = b => ~Less(s[i].key, pages[d].high)
<1>1. PICK s \in Seq(Items), r \in Seq(Items) :
          s = pages[b].items /\ r = Rows[b] /\ Among(s, r) /\ b # None
  BY RawRows
<1>2. PICK m \in [1 .. Len(s) -> 1 .. Len(r)] :
          /\ \A i \in 1 .. Len(s) : r[m[i]] = s[i]
          /\ \A i, j \in 1 .. Len(s) : i < j => m[i] < m[j]
  BY <1>1 DEF Among
<1>3. InOrder(r, pages[b].level, pages[b].high)
  BY <1>1 DEF SoundTree, TreeFits, Sides
<1>4. \A i \in 1 .. Len(s) : m[i] \in 1 .. Len(r)
  OBVIOUS
<1>5. \A i, j \in 1 .. Len(s) : i < j => Less(s[i].key, s[j].key)
  BY <1>2, <1>3, <1>4 DEF InOrder
<1>6. ASSUME NEW i \in 1 .. Len(s)
      PROVE  /\ Less(s[i].key, pages[b].high)
             /\ \E j \in 1 .. Len(r) : r[j] = s[i]
             /\ pages[b].level = 0 =>
                   \A d \in Tree : pages[d].next = b => ~Less(s[i].key, pages[d].high)
  <2>1. PICK j \in 1 .. Len(r) : r[j] = s[i]
    BY <1>2, <1>4
  <2>2. ASSUME NEW d \in Tree, pages[d].next = b, pages[b].level = 0
        PROVE  ~Less(s[i].key, pages[d].high)
    <3>1. pages[d].level = 0 /\ Above(r, 0, pages[d].high)
      BY <1>1, <2>2 DEF SoundTree, TreeFits, Sides
    <3> QED
      BY <2>1, <3>1 DEF Above
  <2> QED
    BY <1>3, <2>1, <2>2 DEF InOrder
<1>7. s # <<>>
  BY <1>1 DEF SoundTree, SizeFits
<1> QED
  BY <1>1, <1>5, <1>6, <1>7

\* An acknowledged entry is on a leaf of the tree, on the one where it belongs.
LEMMA AckedIsHeld ==
    ASSUME IndInv, SoundTree, NEW e \in acked
    PROVE  \E c \in Tree : /\ pages[c].level = 0 /\ Belongs(Tree, pages, e, c)
                           /\ \E i \in 1 .. Len(pages[c].items) : pages[c].items[i].key = e
<1>1. /\ Shape /\ TypeInv /\ MetaInv /\ e \in Stored /\ None \notin Blocks
  <2>1. Shape /\ TypeInv /\ MetaInv /\ e \in Stored
    BY DEF IndInv, Shape, AckedIsStored
  <2> QED
    BY <2>1, NoneIsNoBlock
<1>2. PICK c \in LeafChain : e \in {pages[c].items[i].key : i \in DOMAIN pages[c].items}
  BY <1>1 DEF Stored
<1>3. meta.root # None
  BY <1>2 DEF LeafChain
<1>4. c \in Blocks /\ pages[c].level = 0
  BY <1>1, <1>2, <1>3, ChainIs DEF ChainIsClosed
<1>5. c \in Tree
  <2>1. CASE ins.pc \in {"right", "left"}
    <3>1. NotLed(ins.right)
      BY <2>1 DEF IndInv, InsInv, ToSplit
    <3>2. c # ins.right
      BY <1>1, <1>2, <1>3, <3>1, NotLedOut
    <3> QED
      BY <1>4, <3>2 DEF Tree
  <2>2. CASE ins.pc \notin {"right", "left"}
    BY <1>4, <2>2 DEF Tree
  <2> QED
    BY <2>1, <2>2
<1>6. PICK i \in 1 .. Len(pages[c].items) : pages[c].items[i].key = e
  BY <1>1, <1>2, <1>4, PageTypes
<1>7. Belongs(Tree, pages, e, c)
  BY <1>4, <1>5, <1>6, RawFits DEF Belongs
<1> QED
  BY <1>4, <1>5, <1>6, <1>7

-----------------------------------------------------------------------------
(* The scan.                                                               *)

\* Nothing from k on is left of page b.
NotLeft(k, b) == \A d \in Tree : pages[d].next = b => ~Less(k, pages[d].high)

Found  == {scan.result[i] : i \in 1 .. Len(scan.result)}
Wanted == {e \in scan.before : Less(scan.lo, e) /\ Less(e, scan.hi)}

ScanTypes ==
    /\ scan \in [pc : {"idle", "descend", "next", "end"}, lo : Lows, hi : Highs, blk : Nat,
                 result : Seq(Entries), before : SUBSET Entries]
    /\ scan.before \subseteq acked

ResultFits ==
    /\ Found \subseteq tried /\ \A e \in Found : Less(e, scan.hi)
    /\ \A i, j \in 1 .. Len(scan.result) : i < j => Less(scan.result[i], scan.result[j])

\* The descent is at a page, or left of it, where the lower bound belongs.
DescentFits ==
    scan.pc = "descend" =>
        scan.blk \in Tree /\ scan.result = <<>> /\ NotLeft(scan.lo, scan.blk)

\* What it has found lies left of the leaf it is to read, what it has not yet
\* found does not.
ChainFits ==
    scan.pc = "next" =>
        /\ scan.blk # None
        /\ \E d \in Tree : /\ pages[d].level = 0 /\ pages[d].next = scan.blk
                           /\ \A e \in Found : Less(e, pages[d].high)
        /\ \A e \in Wanted : e \in Found \/ NotLeft(e, scan.blk)

EndFits == scan.pc = "end" => Wanted \subseteq Found

ScanFits == ScanTypes /\ ResultFits /\ DescentFits /\ ChainFits /\ EndFits

ScanInv == failures = 0 => ScanFits

LEMMA StopIs ==
    ASSUME NEW p, NEW s \in Seq(Items), p.items = s, scan.hi \in Bounds,
           \A i, j \in 1 .. Len(s) : i < j => Less(s[i].key, s[j].key),
           NEW off \in 1 .. Len(s) + 1
    PROVE  /\ Stop(p, off) \in off .. Len(s) + 1
           /\ \A i \in off .. Len(s) : i < Stop(p, off) <=> Less(s[i].key, scan.hi)
<1> DEFINE n == Len(s)
           above == {i \in off .. n : ~Less(s[i].key, scan.hi)}
<1>1. n \in Nat /\ off \in Nat /\ off >= 1 /\ \A i \in 1 .. n : s[i].key \in Bounds
  BY ItemTypes
<1>2. CASE above = {}
  <2>1. Stop(p, off) = n + 1
    BY <1>2 DEF Stop
  <2> QED
    BY <1>1, <1>2, <2>1
<1>3. CASE above # {}
  <2>1. Stop(p, off) = CHOOSE i \in above : \A j \in above : i <= j
    BY <1>3 DEF Stop
  <2>2. \E i \in above : \A j \in above : i <= j
    <3>1. above \in SUBSET Nat
      BY <1>1
    <3> HIDE DEF above
    <3> QED
      BY <1>3, <3>1, SmallestOf
  <2>3. Stop(p, off) \in above /\ \A j \in above : Stop(p, off) <= j
    <3> HIDE DEF above
    <3> QED
      BY <2>1, <2>2
  <2>4. PICK stop \in off .. n : /\ stop = Stop(p, off) /\ ~Less(s[stop].key, scan.hi)
                                 /\ \A j \in above : stop <= j
    BY <2>3
  <2>5. ASSUME NEW i \in off .. n PROVE i < stop <=> Less(s[i].key, scan.hi)
    <3>1. i \in 1 .. n /\ stop \in 1 .. n
      BY <1>1
    <3>2. CASE i < stop
      BY <1>1, <2>4, <3>1, <3>2
    <3>3. CASE i = stop
      BY <2>4, <3>1, <3>3
    <3>4. CASE stop < i
      <4>1. Less(s[stop].key, s[i].key)
        BY <3>1, <3>4
      <4>2. ~Less(s[i].key, scan.hi)
        BY <1>1, <2>4, <3>1, <4>1, OrderIs
      <4> QED
        BY <3>1, <3>4, <4>2
    <3> QED
      BY <3>1, <3>2, <3>3, <3>4
  <2> QED
    BY <1>1, <2>4, <2>5
<1> QED
  BY <1>2, <1>3

LEMMA LoadFits ==
    ASSUME IndInv, SoundTree, ScanTypes, ResultFits, scan.blk \in Tree, pages[scan.blk].level = 0,
           NEW off \in 1 .. Len(pages[scan.blk].items) + 1,
           \A i \in 1 .. Len(pages[scan.blk].items) :
              IF i < off THEN ~Less(scan.lo, pages[scan.blk].items[i].key)
                         ELSE \A e \in Found : Less(e, pages[scan.blk].items[i].key),
           \A e \in Found : Less(e, pages[scan.blk].high),
           \A e \in Wanted : e \in Found \/ NotLeft(e, scan.blk),
           scan' = Load(pages[scan.blk], off), UNCHANGED <<pages, meta, ins, tried, acked>>
    PROVE  ScanFits'
<1>1. PICK b \in Tree : b = scan.blk
  OBVIOUS
<1>2. /\ b \in Blocks /\ pages[b] \in Pages /\ pages[b].level = 0 /\ b # None
      /\ pages[b].items \in Seq(Items)
  BY <1>1, RawRows
<1>3. PICK s \in Seq(Items) : s = pages[b].items
  BY <1>2
<1>4. /\ s # <<>> /\ \A i, j \in 1 .. Len(s) : i < j => Less(s[i].key, s[j].key)
      /\ \A i \in 1 .. Len(s) : Less(s[i].key, pages[b].high)
  BY <1>3, RawFits
<1>5. \A i \in 1 .. Len(s) : s[i].key \in Entries /\ s[i].key \in tried /\ s[i].key \in Bounds
  <2>1. PageInv(b) /\ tried \in SUBSET Entries
    BY <1>2 DEF IndInv, Shape, TypeInv
  <2> QED
    BY <1>2, <1>3, <2>1, ItemTypes DEF PageInv, ItemsInv
<1>6. /\ scan.lo \in Bounds /\ scan.hi \in Bounds /\ scan.before \subseteq Entries
      /\ Entries \subseteq Bounds /\ scan.result \in Seq(Entries)
  BY EndsAre DEF ScanTypes
<1> DEFINE n == Len(s)
           old == scan.result
<1>7. n \in Nat /\ off \in 1 .. n + 1
  BY <1>1, <1>3, ItemTypes
<1>8. PICK stop \in off .. n + 1 :
          /\ stop = Stop(pages[b], off)
          /\ \A i \in off .. n : i < stop <=> Less(s[i].key, scan.hi)
  <2>1. /\ Stop(pages[b], off) \in off .. Len(s) + 1
        /\ \A i \in off .. Len(s) : i < Stop(pages[b], off) <=> Less(s[i].key, scan.hi)
    BY <1>3, <1>4, <1>6, <1>7, StopIs
  <2> QED
    BY <2>1
<1> DEFINE new == [i \in 1 .. stop - off |-> s[off + i - 1].key]
<1>9. /\ new \in Seq(Entries) /\ Len(new) = stop - off /\ stop - off \in Nat
      /\ \A i \in 1 .. stop - off : new[i] = s[off + i - 1].key /\ off + i - 1 \in off .. stop - 1
      /\ \A i \in off .. stop - 1 : i \in 1 .. n /\ i < stop
  <2>1. stop - off \in Nat /\ \A i \in 1 .. stop - off : off + i - 1 \in off .. stop - 1
    BY <1>7
  <2>2. \A i \in off .. stop - 1 : i \in 1 .. n /\ i < stop
    BY <1>7
  <2>3. \A i \in 1 .. stop - off : s[off + i - 1].key \in Entries
    BY <1>5, <2>1, <2>2
  <2>4. new \in [1 .. stop - off -> Entries]
    BY <2>3
  <2>5. new \in Seq(Entries) /\ Len(new) = stop - off
    <3> HIDE DEF new
    <3>1. PICK m \in Nat : m = stop - off
      BY <2>1
    <3>2. new \in [1 .. m -> Entries]
      BY <2>4, <3>1
    <3>3. new \in Seq(Entries) /\ Len(new) = m
      BY <3>2
    <3> QED
      BY <3>1, <3>3
  <2> QED
    BY <2>1, <2>2, <2>5
<1>10. scan' = [scan EXCEPT !.result = old \o new, !.blk = pages[b].next,
                            !.pc = IF stop = n + 1 /\ pages[b].next # None THEN "next" ELSE "end"]
  BY <1>1, <1>3, <1>8 DEF Load
<1>11. /\ scan'.result = old \o new /\ scan'.blk = pages[b].next /\ scan'.lo = scan.lo
       /\ scan'.hi = scan.hi /\ scan'.before = scan.before
       /\ scan'.pc = IF stop = n + 1 /\ pages[b].next # None THEN "next" ELSE "end"
  BY <1>10 DEF ScanTypes
<1> HIDE DEF new
<1> DEFINE k == Len(old)
<1>12. /\ old \o new \in Seq(Entries) /\ Len(old \o new) = k + (stop - off) /\ k \in Nat
       /\ \A i \in 1 .. k + (stop - off) :
             (old \o new)[i] = IF i <= k THEN old[i] ELSE new[i - k]
  <2>1. /\ old \o new \in Seq(Entries) /\ Len(old \o new) = Len(old) + Len(new)
        /\ \A i \in 1 .. Len(old) + Len(new) :
              (old \o new)[i] = IF i <= Len(old) THEN old[i] ELSE new[i - Len(old)]
    <3>1. old \in Seq(Entries) /\ new \in Seq(Entries)
      BY <1>6, <1>9
    <3> HIDE DEF old, k
    <3> QED
      BY ONLY <3>1, ConcatProperties
  <2>2. k \in Nat
    BY <1>6, LenProperties
  <2> QED
    BY <1>9, <2>1, <2>2
<1> DEFINE res == old \o new
           len == k + (stop - off)
<1>13. \A i \in 1 .. len : \/ i \in 1 .. k /\ res[i] = old[i] /\ res[i] \in Found
                           \/ /\ i - k \in 1 .. stop - off /\ i > k
                              /\ off + (i - k) - 1 \in off .. stop - 1
                              /\ res[i] = s[off + (i - k) - 1].key
  <2> SUFFICES ASSUME NEW i \in 1 .. len
               PROVE  \/ i \in 1 .. k /\ res[i] = old[i] /\ res[i] \in Found
                      \/ /\ i - k \in 1 .. stop - off /\ i > k
                         /\ off + (i - k) - 1 \in off .. stop - 1
                         /\ res[i] = s[off + (i - k) - 1].key
    OBVIOUS
  <2>1. CASE i <= k
    <3>1. i \in 1 .. k
      BY <1>12, <2>1
    <3>2. res[i] = old[i]
      BY <1>12, <2>1
    <3> QED
      BY <3>1, <3>2 DEF Found
  <2>2. CASE ~(i <= k)
    <3>1. i - k \in 1 .. stop - off /\ i > k
      <4>1. /\ k \in Nat /\ off \in Nat /\ stop \in Nat /\ i \in Nat /\ i <= k + (stop - off)
            /\ ~(i <= k)
        BY <1>7, <1>12, <2>2
      <4> HIDE DEF k
      <4> QED
        BY ONLY <4>1
    <3>2. res[i] = new[i - k]
      BY <1>12, <2>2
    <3> QED
      BY <1>9, <3>1, <3>2
  <2> QED
    BY <2>1, <2>2
<1> HIDE DEF k
<1>14. Found' = Found \cup {s[i].key : i \in off .. stop - 1}
  <2>1. Found' = {res[i] : i \in 1 .. len}
    BY <1>11, <1>12 DEF Found
  <2>2. ASSUME NEW i \in off .. stop - 1 PROVE s[i].key \in {res[j] : j \in 1 .. len}
    <3>1. k \in Nat /\ off \in Nat /\ stop \in Nat /\ i \in Nat /\ off <= i /\ i <= stop - 1
      BY <1>7, <1>12
    <3>2. PICK g \in 1 .. stop - off : g = i - off + 1 /\ off + g - 1 = i
      BY <3>1
    <3>3. k + g \in 1 .. len /\ ~(k + g <= k) /\ (k + g) - k = g
      BY <3>1, <3>2
    <3>4. res[k + g] = new[g]
      BY <1>12, <3>3
    <3>5. new[g] = s[i].key
      BY <1>9, <3>2
    <3> QED
      BY <3>3, <3>4, <3>5
  <2>3. ASSUME NEW i \in 1 .. k PROVE old[i] \in {res[j] : j \in 1 .. len}
    <3>1. i \in 1 .. len /\ i <= k
      BY <1>9, <1>12
    <3> QED
      BY <1>12, <3>1
  <2>4. ASSUME NEW i \in 1 .. len
        PROVE  res[i] \in Found \cup {s[j].key : j \in off .. stop - 1}
    BY <1>13
  <2> HIDE DEF res
  <2>5. \A e \in Found : e \in {res[j] : j \in 1 .. len}
    BY <2>3 DEF Found, k
  <2>6. PICK R : R = {res[i] : i \in 1 .. len}
    OBVIOUS
  <2>7. PICK K : K = {s[i].key : i \in off .. stop - 1}
    OBVIOUS
  <2>8. R = Found \cup K
    <3>1. \A e \in R : e \in Found \cup K
      BY <2>4, <2>6, <2>7
    <3>2. \A e \in K : e \in R
      BY <2>2, <2>6, <2>7
    <3>3. \A e \in Found : e \in R
      BY <2>5, <2>6
    <3> QED
      BY <3>1, <3>2, <3>3
  <2> QED
    BY <2>1, <2>6, <2>7, <2>8
<1> HIDE DEF res
<1>15. ScanTypes'
  <2>1. pages[b].next \in Nat
    BY <1>2 DEF Pages
  <2> QED
    BY <1>6, <1>10, <1>12, <2>1 DEF ScanTypes, res
<1>16. ResultFits'
  <2>1. \A e \in Found' : e \in tried
    BY <1>5, <1>9, <1>14 DEF ResultFits
  <2>2. \A e \in Found' : Less(e, scan.hi)
    BY <1>8, <1>9, <1>14 DEF ResultFits
  <2>3. ASSUME NEW i \in 1 .. len, NEW j \in 1 .. len, i < j PROVE Less(res[i], res[j])
    <3>1. CASE i \in 1 .. k /\ j \in 1 .. k /\ res[i] = old[i] /\ res[j] = old[j]
      BY <2>3, <3>1 DEF ResultFits, k
    <3>2. CASE /\ res[i] \in Found /\ off + (j - k) - 1 \in off .. stop - 1
               /\ res[j] = s[off + (j - k) - 1].key
      <4>1. PICK h \in off .. stop - 1 : res[j] = s[h].key
        BY <3>2
      <4>2. h \in 1 .. n /\ ~(h < off)
        BY <1>7, <1>9
      <4> QED
        BY <1>1, <1>3, <3>2, <4>1, <4>2
    <3>3. CASE /\ i > k /\ off + (i - k) - 1 \in off .. stop - 1
               /\ res[i] = s[off + (i - k) - 1].key
               /\ j > k /\ off + (j - k) - 1 \in off .. stop - 1
               /\ res[j] = s[off + (j - k) - 1].key
      <4>1. /\ off + (i - k) - 1 < off + (j - k) - 1
            /\ off + (i - k) - 1 \in 1 .. n /\ off + (j - k) - 1 \in 1 .. n
        <5>1. PICK g \in off .. stop - 1 : g = off + (i - k) - 1
          BY <3>3
        <5>2. PICK h \in off .. stop - 1 : h = off + (j - k) - 1
          BY <3>3
        <5>3. i \in Nat /\ j \in Nat /\ k \in Nat /\ off \in Nat
          BY <1>7, <1>9, <1>12
        <5>4. g < h
          BY <2>3, <5>1, <5>2, <5>3
        <5> QED
          BY <1>9, <5>1, <5>2, <5>4
      <4> QED
        BY <1>4, <3>3, <4>1
    <3>4. ~(i > k /\ j \in 1 .. k)
      BY <1>12, <2>3
    <3> QED
      BY <1>13, <3>1, <3>2, <3>3, <3>4
  <2>4. Len(scan'.result) = len /\ scan'.result = res /\ scan'.hi = scan.hi
    BY <1>11, <1>12 DEF res
  <2>5. \A i, j \in 1 .. Len(scan'.result) : i < j => Less(scan'.result[i], scan'.result[j])
    BY <2>3, <2>4
  <2>6. tried' = tried
    OBVIOUS
  <2> QED
    BY <2>1, <2>2, <2>4, <2>5, <2>6 DEF ResultFits
<1>17. Wanted' = Wanted /\ scan'.pc \in {"next", "end"}
  BY <1>11 DEF Wanted
<1>18. ASSUME NEW e \in Wanted, e \notin Found' PROVE ~Less(e, pages[b].high)
  <2> SUFFICES ASSUME Less(e, pages[b].high) PROVE FALSE
    OBVIOUS
  <2>1. e \in acked /\ e \in Bounds /\ e \notin Found /\ Less(scan.lo, e) /\ Less(e, scan.hi)
    BY <1>6, <1>14, <1>18 DEF Wanted, ScanTypes
  <2>2. Belongs(Tree, pages, e, b)
    BY <1>1, <2>1 DEF Belongs, NotLeft
  <2>3. PICK c \in Tree : /\ pages[c].level = 0 /\ Belongs(Tree, pages, e, c)
                          /\ \E i \in 1 .. Len(pages[c].items) : pages[c].items[i].key = e
    BY <2>1, AckedIsHeld
  <2>4. c = b
    <3>1. TreeFits(Tree, pages, Rows, Tops)
      BY DEF SoundTree
    <3> QED
      BY <1>2, <2>1, <2>2, <2>3, <3>1, OnePage, TopsAre
  <2>5. PICK i \in 1 .. n : s[i].key = e
    BY <1>3, <2>3, <2>4
  <2>6. ~(i < off)
    BY <1>1, <1>3, <1>6, <2>1, <2>5, OrderIs
  <2>7. i \in off .. n /\ i < stop
    BY <1>7, <1>8, <2>1, <2>5, <2>6
  <2>8. i \in off .. stop - 1
    BY <1>7, <2>7
  <2> QED
    BY <1>14, <1>18, <2>5, <2>8
<1>19. Tree' = Tree /\ \A e, c : NotLeft(e, c)' <=> NotLeft(e, c)
  <2>1. Tree' = Tree
    BY DEF Tree, Blocks
  <2> QED
    BY <2>1 DEF NotLeft
<1>20. ChainFits'
  <2> SUFFICES ASSUME scan'.pc = "next" PROVE ChainFits'
    BY DEF ChainFits
  <2>1. stop = n + 1 /\ pages[b].next # None
    BY <1>11
  <2>2. ASSUME NEW e \in Found' PROVE Less(e, pages[b].high)
    BY <1>1, <1>4, <1>9, <1>14
  <2>3. ASSUME NEW e \in Wanted, e \notin Found' PROVE NotLeft(e, pages[b].next)
    <3>1. ASSUME NEW d \in Tree, pages[d].next = pages[b].next PROVE d = b
      BY <2>1, <3>1 DEF SoundTree, PrevFits
    <3> QED
      BY <1>18, <2>3, <3>1 DEF NotLeft
  <2>4. \E d \in Tree' : /\ pages'[d].level = 0 /\ pages'[d].next = scan'.blk
                         /\ \A e \in Found' : Less(e, pages'[d].high)
    BY <1>2, <1>11, <1>19, <2>2
  <2> QED
    BY <1>11, <1>17, <1>19, <2>1, <2>3, <2>4 DEF ChainFits
<1>21. EndFits'
  <2> SUFFICES ASSUME scan'.pc = "end", NEW e \in Wanted, e \notin Found' PROVE FALSE
    BY <1>17 DEF EndFits
  <2>1. e \in Bounds /\ e \in Entries /\ Less(e, scan.hi) /\ pages[b].high \in Bounds
    BY <1>2, <1>6, EndsAre DEF Wanted, Pages
  <2>2. ~Less(e, pages[b].high)
    BY <1>18
  <2>3. CASE pages[b].next = None
    <3>1. pages[b].high = PlusInf
      BY <2>3 DEF SoundTree, TreeFits, Sides
    <3> QED
      BY <2>1, <2>2, <3>1, EndsAre
  <2>4. CASE stop # n + 1
    <3>1. stop \in off .. n /\ stop \in 1 .. n /\ ~(stop < stop)
      BY <1>7, <2>4
    <3>2. ~Less(s[stop].key, scan.hi)
      BY <1>8, <3>1
    <3>3. Less(s[stop].key, pages[b].high) /\ s[stop].key \in Bounds
      BY <1>4, <1>5, <3>1
    <3> QED
      BY <1>6, <2>1, <2>2, <3>2, <3>3, OrderIs
  <2> QED
    BY <1>11, <2>3, <2>4
<1>22. DescentFits'
  BY <1>17 DEF DescentFits
<1> QED
  BY <1>15, <1>16, <1>20, <1>21, <1>22 DEF ScanFits

-----------------------------------------------------------------------------
(* The insert under a scan.                                                *)

\* It is enough that a page's left sibling is replaced by one of its high key.
LEMMA LeftsStay ==
    ASSUME SoundTree, ScanFits, scan' = scan, acked \subseteq acked', tried \subseteq tried',
           Tree \subseteq Tree',
           \A d \in Tree' : pages'[d].next \in Tree =>
              \E c \in Tree : pages[c].next = pages'[d].next /\ pages[c].high = pages'[d].high,
           \A c \in Tree : pages[c].next \in Tree =>
              \E d \in Tree' : /\ pages'[d].next = pages[c].next /\ pages'[d].high = pages[c].high
                               /\ pages'[d].level = pages[c].level
    PROVE  ScanFits'
<1>1. ASSUME NEW k, NEW b \in Tree, NotLeft(k, b) PROVE NotLeft(k, b)'
  BY <1>1 DEF NotLeft
<1>2. Found' = Found /\ Wanted' = Wanted
  BY DEF Found, Wanted
<1>3. ScanTypes' /\ ResultFits' /\ EndFits'
  BY <1>2 DEF ScanFits, ScanTypes, ResultFits, EndFits
<1>4. DescentFits'
  BY <1>1 DEF ScanFits, DescentFits
<1>5. ChainFits'
  <2> SUFFICES ASSUME scan.pc = "next" PROVE ChainFits'
    BY DEF ChainFits
  <2>1. PICK c \in Tree : /\ pages[c].level = 0 /\ pages[c].next = scan.blk /\ scan.blk # None
                          /\ \A e \in Found : Less(e, pages[c].high)
    BY DEF ScanFits, ChainFits
  <2>2. scan.blk \in Tree
    BY <2>1 DEF SoundTree, TreeFits, Sides
  <2>3. PICK d \in Tree' : /\ pages'[d].next = scan.blk /\ pages'[d].high = pages[c].high
                           /\ pages'[d].level = 0
    BY <2>1, <2>2
  <2>4. \A e \in Wanted : e \in Found \/ NotLeft(e, scan.blk)'
    BY <1>1, <2>2 DEF ScanFits, ChainFits
  <2> QED
    BY <1>2, <2>1, <2>3, <2>4 DEF ChainFits
<1> QED
  BY <1>3, <1>4, <1>5 DEF ScanFits

LEMMA SameLefts ==
    ASSUME SoundTree, ScanFits, scan' = scan, acked \subseteq acked', tried \subseteq tried',
           Tree \subseteq Tree', None \notin Tree,
           \A c \in Tree : /\ pages'[c].next = pages[c].next /\ pages'[c].high = pages[c].high
                           /\ pages'[c].level = pages[c].level,
           \A d \in Tree' : d \notin Tree => pages'[d].next = None
    PROVE  ScanFits'
<1>1. ASSUME NEW d \in Tree', pages'[d].next \in Tree
      PROVE  \E c \in Tree : pages[c].next = pages'[d].next /\ pages[c].high = pages'[d].high
  BY <1>1
<1>2. ASSUME NEW c \in Tree
      PROVE  \E d \in Tree' : /\ pages'[d].next = pages[c].next /\ pages'[d].high = pages[c].high
                              /\ pages'[d].level = pages[c].level
  BY <1>2
<1> QED
  BY <1>1, <1>2, LeftsStay

LEMMA AddedLefts ==
    ASSUME TypeInv, SoundTree, ScanFits, scan' = scan, acked' = acked, tried' = tried,
           Tree = Blocks, NEW q, pages' = Append(pages, q), q.next = None,
           Tree' = Blocks \/ Tree' = Blocks'
    PROVE  ScanFits'
<1>1. Blocks = 1 .. Len(pages) /\ Len(pages) \in Nat /\ None \notin Blocks
  BY PageTypes, NoneIsNoBlock
<1>2. /\ Blocks' = 1 .. Len(pages) + 1 /\ pages'[Len(pages) + 1] = q
      /\ \A c \in 1 .. Len(pages) : pages'[c] = pages[c]
  BY <1>1 DEF TypeInv, Blocks
<1>3. \A d \in Blocks' : d \notin Blocks => d = Len(pages) + 1
  BY <1>1, <1>2
<1> QED
  BY <1>1, <1>2, <1>3, SameLefts

LEMMA InsertScan ==
    ASSUME IndInv, SoundTree, ScanFits,
           \/ \E e \in Entries : InsertStart(e)
           \/ NewRootLeaf \/ Place \/ NewRight \/ WriteRight \/ WriteLeft
           \/ LinkSibling \/ NewRoot \/ WriteMeta
    PROVE  ScanFits'
<1>1. /\ TypeInv /\ None \notin Blocks /\ None \notin Tree /\ Tree \subseteq Blocks
      /\ ins \in Inserts /\ \A c \in Blocks : pages[c] \in Pages
  <2>1. TypeInv /\ ins \in Inserts
    BY DEF IndInv, Shape, TypeInv
  <2>2. None \notin Blocks /\ \A c \in Blocks : pages[c] \in Pages
    BY <2>1, NoneIsNoBlock, PageTypes
  <2>3. Tree \subseteq Blocks
    BY DEF Tree
  <2>4. None \notin Tree
    BY <2>2, <2>3
  <2> QED
    BY <2>1, <2>2, <2>3, <2>4
<1>2. /\ scan' = scan /\ acked \subseteq acked' /\ tried \subseteq tried'
  BY DEF InsertStart, NewRootLeaf, Place, NewRight, WriteRight, WriteLeft, LinkSibling,
         NewRoot, WriteMeta
<1>3. CASE \E e \in Entries : InsertStart(e)
  <2>1. PICK e \in Entries : InsertStart(e)
    BY <1>3
  <2>2. pages' = pages /\ Blocks' = Blocks /\ ins.pc = "idle"
    BY <2>1 DEF InsertStart, Blocks
  <2>3. ins'.pc \in {"rootleaf", "place"}
    BY <2>1 DEF InsertStart, NoInsert
  <2>4. Tree' = Tree
    BY <2>2, <2>3 DEF Tree
  <2> QED
    BY <1>1, <1>2, <2>2, <2>4, SameLefts
<1>4. CASE NewRootLeaf
  <2> DEFINE q == [NewPage EXCEPT !.root = TRUE, !.items = <<LeafItem(ins.entry)>>]
  <2>1. q.next = None /\ pages' = Append(pages, q) /\ acked' = acked /\ tried' = tried
    BY <1>4 DEF NewRootLeaf, NewPage
  <2>2. ins.pc = "rootleaf" /\ ins'.pc = "meta"
    BY <1>1, <1>4 DEF NewRootLeaf, Inserts
  <2>3. Tree = Blocks /\ Tree' = Blocks'
    BY <2>2 DEF Tree
  <2> HIDE DEF q
  <2> QED
    BY <1>1, <1>2, <2>1, <2>3, AddedLefts
<1>5. CASE Place
  <2>1. ins.pc = "place" /\ ins'.pc = "idle" /\ ins.blk \in Blocks
    BY <1>5 DEF Place, NoInsert, IndInv, InsInv, ToPlace, OnPath
  <2>2. /\ Blocks' = Blocks
        /\ \A c \in Blocks : pages'[c] = IF c = ins.blk THEN [pages[c] EXCEPT !.items = Placed]
                                         ELSE pages[c]
    BY <1>5 DEF Place, Blocks
  <2>3. \A c \in Blocks : /\ pages'[c].next = pages[c].next /\ pages'[c].high = pages[c].high
                          /\ pages'[c].level = pages[c].level
    BY <1>1, <2>2 DEF Pages
  <2>4. Tree = Blocks /\ Tree' = Blocks
    BY <2>1, <2>2 DEF Tree
  <2> QED
    BY <1>1, <1>2, <2>3, <2>4, SameLefts
<1>6. CASE NewRight
  <2>1. PICK x : x = Len(pages) + 1
    OBVIOUS
  <2>2. ins.pc = "place" /\ ins'.pc = "right" /\ ins'.right = x
    <3>1. PICK k : ins' = [ins EXCEPT !.pc = "right", !.at = k, !.right = x]
      BY <1>6, <2>1 DEF NewRight
    <3> QED
      BY <1>1, <1>6, <3>1 DEF NewRight, Inserts
  <2>3. pages' = Append(pages, NewPage) /\ NewPage.next = None /\ acked' = acked /\ tried' = tried
    BY <1>6 DEF NewRight, NewPage
  <2>4. Blocks' = Blocks \cup {x} /\ x \notin Blocks
    <3>1. Blocks = 1 .. Len(pages) /\ Len(pages) \in Nat
      BY <1>1, PageTypes
    <3>2. Blocks' = 1 .. Len(pages) + 1
      BY <1>1, <2>3, <3>1 DEF TypeInv, Blocks
    <3> QED
      BY <2>1, <3>1, <3>2
  <2>5. Tree = Blocks /\ Tree' = Blocks
    BY <2>2, <2>4 DEF Tree
  <2> HIDE DEF NewPage
  <2> QED
    BY <1>1, <1>2, <2>3, <2>5, AddedLefts
<1>7. CASE WriteRight
  <2>1. ins.pc = "right" /\ ins'.pc = "left" /\ ins'.right = ins.right
    BY <1>1, <1>7 DEF WriteRight, Inserts
  <2>2. Blocks' = Blocks /\ \A c \in Blocks : c # ins.right => pages'[c] = pages[c]
    BY <1>7 DEF WriteRight, Blocks
  <2>3. Tree = Blocks \ {ins.right} /\ Tree' = Tree
    BY <2>1, <2>2 DEF Tree
  <2> QED
    BY <1>1, <1>2, <2>2, <2>3, SameLefts
<1>8. CASE WriteLeft
  <2>1. /\ ins.pc = "left" /\ ins'.pc = "sibling" /\ ins.blk \in Blocks /\ ins.right \in Blocks
        /\ ins.blk # ins.right /\ RightKnown
    BY <1>1, <1>8 DEF WriteLeft, Inserts, IndInv, InsInv, ToSplit, ToPlace, OnPath,
                      SoundTree, SplitKnown
  <2>2. PICK b \in Blocks, r \in Blocks : b = ins.blk /\ r = ins.right /\ b # r
    BY <2>1
  <2>3. /\ pages[r].next = pages[b].next /\ pages[r].high = pages[b].high
        /\ pages[r].level = pages[b].level
    BY <2>1, <2>2 DEF RightKnown
  <2>4. Blocks' = Blocks /\ \A c \in Blocks : c # b => pages'[c] = pages[c]
    BY <1>8, <2>2 DEF WriteLeft, Blocks
  <2>5. pages'[b].next = r
    BY <1>1, <1>8, <2>2 DEF WriteLeft, Blocks, Pages
  <2>6. Tree = Blocks \ {r} /\ Tree' = Blocks
    BY <2>1, <2>2, <2>4 DEF Tree
  <2>7. ASSUME NEW d \in Tree', pages'[d].next \in Tree
        PROVE  \E c \in Tree : pages[c].next = pages'[d].next /\ pages[c].high = pages'[d].high
    <3>1. d # b
      BY <2>5, <2>6, <2>7
    <3>2. pages'[d] = pages[d] /\ d \in Blocks
      BY <2>4, <2>6, <3>1
    <3>3. CASE d = r
      BY <2>2, <2>3, <2>6, <3>2, <3>3
    <3>4. CASE d # r
      BY <2>6, <3>2, <3>4
    <3> QED
      BY <3>3, <3>4
  <2>8. ASSUME NEW c \in Tree
        PROVE  \E d \in Tree' : /\ pages'[d].next = pages[c].next /\ pages'[d].high = pages[c].high
                                /\ pages'[d].level = pages[c].level
    <3>1. CASE c = b
      BY <2>2, <2>3, <2>4, <2>6, <3>1
    <3>2. CASE c # b
      BY <2>4, <2>6, <3>2
    <3> QED
      BY <3>1, <3>2
  <2>9. Tree \subseteq Tree'
    BY <2>6
  <2> QED
    BY <1>1, <1>2, <2>7, <2>8, <2>9, LeftsStay
<1>9. CASE LinkSibling
  <2>1. ins.pc = "sibling" /\ ins'.pc \in {"newroot", "place"}
    BY <1>1, <1>9 DEF LinkSibling, Inserts
  <2>2. PICK after : after = pages[ins.right].next
    OBVIOUS
  <2>3. pages' = IF after = None THEN pages ELSE [pages EXCEPT ![after].prev = ins.right]
    BY <1>9, <2>2 DEF LinkSibling
  <2>4. /\ Blocks' = Blocks
        /\ \A c \in Blocks : \/ pages'[c] = pages[c]
                             \/ pages'[c] = [pages[c] EXCEPT !.prev = ins.right]
    BY <2>3 DEF Blocks
  <2>5. \A c \in Blocks : /\ pages'[c].next = pages[c].next /\ pages'[c].high = pages[c].high
                          /\ pages'[c].level = pages[c].level
    BY <1>1, <2>4 DEF Pages
  <2>6. Tree = Blocks /\ Tree' = Blocks
    BY <2>1, <2>4 DEF Tree
  <2> QED
    BY <1>1, <1>2, <2>5, <2>6, SameLefts
<1>10. CASE NewRoot
  <2> DEFINE q == [NewPage EXCEPT !.level = pages[ins.blk].level + 1, !.root = TRUE,
                                  !.items = <<Downlink(MinusInf, ins.blk),
                                              Downlink(pages[ins.blk].high, ins.right)>>]
  <2>1. q.next = None /\ pages' = Append(pages, q) /\ acked' = acked /\ tried' = tried
    BY <1>10 DEF NewRoot, NewPage
  <2>2. ins.pc = "newroot" /\ ins'.pc = "meta"
    BY <1>1, <1>10 DEF NewRoot, Inserts
  <2>3. Tree = Blocks /\ Tree' = Blocks'
    BY <2>2 DEF Tree
  <2> HIDE DEF q
  <2> QED
    BY <1>1, <1>2, <2>1, <2>3, AddedLefts
<1>11. CASE WriteMeta
  <2>1. ins.pc = "meta" /\ ins'.pc = "idle" /\ pages' = pages /\ Blocks' = Blocks
    BY <1>11 DEF WriteMeta, NoInsert, Blocks
  <2>2. Tree' = Tree
    BY <2>1 DEF Tree
  <2> QED
    BY <1>1, <1>2, <2>1, <2>2, SameLefts
<1> QED
  BY <1>3, <1>4, <1>5, <1>6, <1>7, <1>8, <1>9, <1>10, <1>11

-----------------------------------------------------------------------------
(* The steps of a scan.                                                    *)

LEMMA RawInOrder ==
    ASSUME IndInv, SoundTree, NEW b \in Tree
    PROVE  InOrder(pages[b].items, pages[b].level, pages[b].high)
<1>1. /\ b \in Blocks /\ pages[b].items \in Seq(Items) /\ PageInv(b) /\ tried \subseteq Entries
      /\ pages[b].level \in Nat
  BY RawRows DEF IndInv, Shape, TypeInv, Pages
<1>2. PICK s \in Seq(Items) : s = pages[b].items
  BY <1>1
<1>3. /\ s # <<>> /\ \A i, j \in 1 .. Len(s) : i < j => Less(s[i].key, s[j].key)
      /\ \A i \in 1 .. Len(s) : Less(s[i].key, pages[b].high)
  BY <1>2, RawFits
<1>4. DOMAIN s = 1 .. Len(s) /\ Len(s) \in Nat
  BY ItemTypes
<1>5. ASSUME NEW i \in 1 .. Len(s)
      PROVE  s[i].key = MinusInf <=> pages[b].level > 0 /\ i = 1
  <2>1. \A e \in Entries : e # MinusInf
    BY EndsAre
  <2>2. ItemsInv(s, pages[b].level)
    BY <1>1, <1>2 DEF PageInv
  <2>3. pages[b].level = 0 \/ pages[b].level > 0
    BY <1>1
  <2> QED
    BY <1>1, <1>4, <2>1, <2>2, <2>3 DEF ItemsInv
<1> QED
  BY <1>2, <1>3, <1>5 DEF InOrder

\* The downlinks on the pages lead no key too far right.
LEMMA LedFits ==
    ASSUME IndInv, SoundTree, NEW b \in Tree, pages[b].level > 0, NEW k \in Bounds, NotLeft(k, b),
           NEW i \in 1 .. Len(pages[b].items), ~Less(k, pages[b].items[i].key)
    PROVE  pages[b].items[i].child \in Tree /\ NotLeft(k, pages[b].items[i].child)
<1>1. PICK j \in 1 .. Len(Rows[b]) : Rows[b][j] = pages[b].items[i]
  BY RawFits
<1>2. /\ TreeFits(Tree, pages, Rows, Tops)
      /\ \A t \in Tops : pages[t].next = None \/ pages[t].next \in Tops
  BY TopsAre DEF SoundTree
<1>3. Rows[b][j].child \in Tree
  BY <1>2 DEF TreeFits, Down
<1>4. (\A d \in Tree : pages[d].next = b => ~Less(k, pages[d].high)) =>
          \A d \in Tree : pages[d].next = Rows[b][j].child => ~Less(k, pages[d].high)
  BY <1>1, <1>2, StepDown
<1> QED
  BY <1>1, <1>3, <1>4 DEF NotLeft

\* A descent that starts at the root of the metapage starts far enough left,
\* although the root may have been split since.
LEMMA RootFirst ==
    ASSUME IndInv, SoundTree, meta.root # None, NEW k \in Bounds
    PROVE  meta.root \in Tree /\ NotLeft(k, meta.root)
<1>1. /\ TypeInv /\ None \notin Blocks /\ meta.root \in Blocks /\ None \notin Tree
  BY NoneIsNoBlock DEF IndInv, Shape, MetaInv, Tree
<1>2. meta.root \in Tree
  <2>1. ins.pc \in {"right", "left"} => ins.right # meta.root
    BY DEF IndInv, InsInv, ToSplit, NotLed
  <2> QED
    BY <1>1, <2>1 DEF Tree
<1>3. ASSUME Root # None PROVE \A d \in Tree : pages[d].next # Root
  BY <1>1, <1>3 DEF SoundTree, PrevFits, RootFits
<1>4. CASE ins.pc # "meta"
  BY <1>2, <1>3, <1>4 DEF Root, NotLeft
<1>5. CASE ins.pc = "meta"
  <2>1. PICK b \in Blocks : /\ b = ins.blk /\ pages[b].level = meta.level + 1
                            /\ pages[b].items[1].child = meta.root
    BY <1>5 DEF IndInv, InsInv, RootReady
  <2>2. b \in Tree /\ Root = b /\ b # None /\ pages[b].level > 0
    BY <1>1, <1>5, <2>1 DEF Tree, Root, TypeInv
  <2>3. NotLeft(k, b)
    BY <1>3, <2>2 DEF NotLeft
  <2>4. 1 \in 1 .. Len(pages[b].items) /\ pages[b].items[1].key = MinusInf
    <3>1. InOrder(pages[b].items, pages[b].level, pages[b].high) /\ pages[b].items \in Seq(Items)
      BY <2>2, RawInOrder, RawRows
    <3>2. 1 \in 1 .. Len(pages[b].items)
      BY <3>1, ItemTypes DEF InOrder
    <3> QED
      BY <2>2, <3>1, <3>2 DEF InOrder
  <2>5. ~Less(k, pages[b].items[1].key)
    BY <2>4, EndsAre
  <2> QED
    BY <1>2, <2>1, <2>2, <2>3, <2>4, <2>5, LedFits
<1> QED
  BY <1>4, <1>5

LEMMA TreeStays ==
    ASSUME UNCHANGED <<pages, ins>>
    PROVE  Tree' = Tree /\ \A k, b : NotLeft(k, b)' <=> NotLeft(k, b)
<1>1. Tree' = Tree
  BY DEF Tree, Blocks
<1> QED
  BY <1>1 DEF NotLeft

LEMMA ScanStartFits ==
    ASSUME IndInv, SoundTree, NEW lo \in Lows, NEW hi \in Highs, ScanStart(lo, hi)
    PROVE  ScanFits'
<1>1. /\ scan' = [NoScan EXCEPT !.pc = IF meta.root = None THEN "end" ELSE "descend",
                                !.lo = lo, !.hi = hi, !.blk = meta.root, !.before = acked]
      /\ UNCHANGED <<pages, meta, ins, tried, acked, failures>>
  BY DEF ScanStart
<1>2. /\ scan'.pc = (IF meta.root = None THEN "end" ELSE "descend") /\ scan'.lo = lo
      /\ scan'.hi = hi /\ scan'.blk = meta.root /\ scan'.before = acked /\ scan'.result = <<>>
  BY <1>1 DEF NoScan
<1>3. acked \subseteq Entries /\ meta.root \in Nat /\ (meta.root = None => acked = {})
  BY DEF IndInv, Shape, TypeInv, MetaInv, AckedIsStored
<1>4. <<>> \in Seq(Entries) /\ Len(<<>>) = 0 /\ 1 .. 0 = {}
  OBVIOUS
<1>5. ScanTypes'
  <2>1. /\ scan' = [pc |-> IF meta.root = None THEN "end" ELSE "descend", lo |-> lo, hi |-> hi,
                    blk |-> meta.root, result |-> <<>>, before |-> acked]
    BY <1>1 DEF NoScan
  <2>2. scan' \in [pc : {"idle", "descend", "next", "end"}, lo : Lows, hi : Highs, blk : Nat,
                   result : Seq(Entries), before : SUBSET Entries]
    BY <1>3, <1>4, <2>1
  <2> QED
    BY <1>1, <1>2, <2>2 DEF ScanTypes
<1>6. Found' = {}
  BY <1>2, <1>4 DEF Found
<1>7. ResultFits'
  BY <1>2, <1>4, <1>6 DEF ResultFits
<1>8. DescentFits'
  <2>1. meta.root # None => meta.root \in Tree /\ NotLeft(lo, meta.root)
    BY RootFirst, EndsAre
  <2>2. Tree' = Tree /\ (NotLeft(lo, meta.root)' <=> NotLeft(lo, meta.root))
    BY <1>1, TreeStays
  <2> QED
    BY <1>1, <1>2, <2>1, <2>2 DEF DescentFits, NotLeft
<1>9. ChainFits'
  BY <1>2 DEF ChainFits
<1>10. EndFits'
  BY <1>2, <1>3 DEF EndFits, Wanted
<1> QED
  BY <1>5, <1>7, <1>8, <1>9, <1>10 DEF ScanFits

LEMMA ScanDescendFits == ASSUME IndInv, SoundTree, ScanFits, ScanDescend PROVE ScanFits'
<1>1. PICK b \in Tree : /\ b = scan.blk /\ scan.pc = "descend" /\ pages[b].level > 0
                        /\ scan.result = <<>> /\ NotLeft(scan.lo, b)
  BY DEF ScanDescend, ScanFits, DescentFits
<1>2. PICK k \in Bounds : k = scan.lo /\ k \in Lows
  BY EndsAre DEF ScanFits, ScanTypes
<1>3. /\ pages[b] \in Pages /\ pages[b].items \in Seq(Items)
      /\ InOrder(pages[b].items, pages[b].level, pages[b].high)
  BY RawRows, RawInOrder
<1>4. PICK s \in Seq(Items) : s = pages[b].items
  BY <1>3
<1>5. /\ LinkPosition(pages[b], k) \in 0 .. Len(s) /\ LinkPosition(pages[b], k) >= 1
      /\ \A i \in 1 .. Len(s) : ~Less(k, s[i].key) <=> i <= LinkPosition(pages[b], k)
  BY <1>1, <1>3, <1>4, PositionIs
<1>6. Len(s) \in Nat
  BY ItemTypes
<1>7. PICK i \in 1 .. Len(s) : i = LinkPosition(pages[b], k) /\ ~Less(k, s[i].key)
  <2>1. PICK i \in 1 .. Len(s) : i = LinkPosition(pages[b], k)
    BY <1>5, <1>6
  <2> QED
    BY <1>5, <1>6, <2>1
<1>8. s[i].child \in Tree /\ NotLeft(k, s[i].child)
  <2>1. i \in 1 .. Len(pages[b].items) /\ ~Less(k, pages[b].items[i].key)
    BY <1>4, <1>7
  <2>2. NotLeft(k, b) /\ pages[b].level > 0
    BY <1>1, <1>2
  <2>3. pages[b].items[i].child \in Tree /\ NotLeft(k, pages[b].items[i].child)
    BY <2>1, <2>2, LedFits
  <2> QED
    BY <1>4, <2>3
<1>9. scan' = [scan EXCEPT !.blk = s[i].child] /\ UNCHANGED <<pages, meta, ins, tried, acked>>
  BY <1>1, <1>2, <1>4, <1>7 DEF ScanDescend, Child
<1>10. /\ scan'.blk = s[i].child /\ scan'.pc = scan.pc /\ scan'.lo = scan.lo /\ scan'.hi = scan.hi
       /\ scan'.result = scan.result /\ scan'.before = scan.before
  BY <1>9 DEF ScanFits, ScanTypes
<1>11. Tree' = Tree /\ (NotLeft(k, s[i].child)' <=> NotLeft(k, s[i].child))
  BY <1>9, TreeStays
<1>12. ScanTypes' /\ ResultFits'
  <2>1. s[i].child \in Nat
    BY ItemTypes
  <2>2. Found' = Found
    BY <1>10 DEF Found
  <2> QED
    BY <1>9, <1>10, <2>1, <2>2 DEF ScanFits, ScanTypes, ResultFits
<1>13. DescentFits'
  BY <1>1, <1>2, <1>8, <1>9, <1>10, <1>11 DEF DescentFits, NotLeft
<1>14. ChainFits' /\ EndFits'
  BY <1>1, <1>10 DEF ChainFits, EndFits
<1> QED
  BY <1>12, <1>13, <1>14 DEF ScanFits

LEMMA ScanLeafFits == ASSUME IndInv, SoundTree, ScanFits, ScanLeaf PROVE ScanFits'
<1>1. PICK b \in Tree : /\ b = scan.blk /\ scan.pc = "descend" /\ pages[b].level = 0
                        /\ scan.result = <<>> /\ NotLeft(scan.lo, b)
  BY DEF ScanLeaf, ScanFits, DescentFits
<1>2. scan.lo \in Bounds /\ scan.before \subseteq Entries /\ Entries \subseteq Bounds
  BY EndsAre DEF ScanFits, ScanTypes
<1>3. /\ pages[b] \in Pages /\ pages[b].items \in Seq(Items)
      /\ InOrder(pages[b].items, pages[b].level, pages[b].high)
      /\ \A d \in Tree : pages[d].high \in Bounds
  <2>1. \A d \in Tree : pages[d].high \in Bounds
    BY EndsAre DEF SoundTree, TreeFits, TreeTypes
  <2> QED
    BY <2>1, RawRows, RawInOrder
<1>4. PICK s \in Seq(Items) : s = pages[b].items
  BY <1>3
<1>5. PICK off \in 1 .. Len(s) + 1 :
          /\ off = LeafPosition(pages[b], scan.lo)
          /\ \A i \in 1 .. Len(s) : Less(s[i].key, scan.lo) <=> i < off
  BY <1>2, <1>3, <1>4, PositionIs
<1>6. Found = {}
  BY <1>1 DEF Found
<1>7. \A i \in 1 .. Len(s) : IF i < off THEN ~Less(scan.lo, s[i].key)
                                       ELSE \A e \in Found : Less(e, s[i].key)
  BY <1>2, <1>5, <1>6, OrderIs, ItemTypes
<1>8. \A e \in Wanted : NotLeft(e, b)
  BY <1>1, <1>2, <1>3, OrderIs DEF Wanted, NotLeft
<1>9. scan' = Load(pages[b], off) /\ UNCHANGED <<pages, meta, ins, tried, acked>>
  BY <1>1, <1>5 DEF ScanLeaf
<1> QED
  BY <1>1, <1>4, <1>6, <1>7, <1>8, <1>9, LoadFits DEF ScanFits

LEMMA ScanNextFits == ASSUME IndInv, SoundTree, ScanFits, ScanNext PROVE ScanFits'
<1>1. PICK d \in Tree : /\ pages[d].level = 0 /\ pages[d].next = scan.blk /\ scan.blk # None
                        /\ \A e \in Found : Less(e, pages[d].high)
  BY DEF ScanNext, ScanFits, ChainFits
<1>2. PICK b \in Tree : b = scan.blk /\ pages[b].level = 0
  BY <1>1 DEF SoundTree, TreeFits, Sides
<1>3. pages[b].items \in Seq(Items) /\ pages[d].high \in Bounds /\ pages[b].high \in Bounds
  <2>1. \A c \in Tree : pages[c].high \in Bounds
    BY EndsAre DEF SoundTree, TreeFits, TreeTypes
  <2> QED
    BY <2>1, RawRows
<1>4. PICK s \in Seq(Items) : s = pages[b].items
  BY <1>3
<1>5. /\ s # <<>> /\ Len(s) \in Nat
      /\ \A i \in 1 .. Len(s) : /\ ~Less(s[i].key, pages[d].high) /\ Less(s[i].key, pages[b].high)
                                /\ s[i].key \in Bounds
  BY <1>1, <1>2, <1>4, RawFits, ItemTypes
<1>6. Found \subseteq Bounds
  BY EndsAre, ElementOfSeq DEF ScanFits, ScanTypes, Found
<1>7. \A i \in 1 .. Len(s) : \A e \in Found : Less(e, s[i].key)
  BY <1>1, <1>3, <1>5, <1>6, OrderIs
<1>8. 1 \in 1 .. Len(s) /\ 1 \in 1 .. Len(s) + 1 /\ \A i \in 1 .. Len(s) : ~(i < 1)
  BY <1>5, ItemTypes
<1>9. \A e \in Found : Less(e, pages[b].high)
  BY <1>3, <1>5, <1>6, <1>7, <1>8, OrderIs
<1>10. \A e \in Wanted : e \in Found \/ NotLeft(e, b)
  BY <1>2 DEF ScanNext, ScanFits, ChainFits
<1>11. scan' = Load(pages[b], 1) /\ UNCHANGED <<pages, meta, ins, tried, acked>>
  BY <1>2 DEF ScanNext
<1>12. ScanTypes /\ ResultFits
  BY DEF ScanFits
<1> QED
  BY <1>2, <1>4, <1>7, <1>8, <1>9, <1>10, <1>11, <1>12, LoadFits

LEMMA NoScanFits ==
    ASSUME scan' = NoScan
    PROVE  ScanFits'
<1>1. /\ scan'.pc = "idle" /\ scan'.result = <<>> /\ scan'.before = {}
      /\ scan' = [pc |-> "idle", lo |-> MinusInf, hi |-> PlusInf, blk |-> None,
                  result |-> <<>>, before |-> {}]
  BY DEF NoScan
<1>2. <<>> \in Seq(Entries) /\ Len(<<>>) = 0 /\ 1 .. 0 = {}
  OBVIOUS
<1>3. ScanTypes'
  BY <1>1, <1>2 DEF ScanTypes, Lows, Highs, None
<1>4. ResultFits'
  BY <1>1, <1>2 DEF ResultFits, Found
<1> QED
  BY <1>1, <1>3, <1>4 DEF ScanFits, DescentFits, ChainFits, EndFits

LEMMA InitScan == Init => ScanInv
<1> SUFFICES ASSUME Init PROVE ScanFits
  BY DEF ScanInv
<1>1. scan = NoScan
  BY DEF Init
<1>2. /\ scan.pc = "idle" /\ scan.result = <<>> /\ scan.before = {}
      /\ scan = [pc |-> "idle", lo |-> MinusInf, hi |-> PlusInf, blk |-> None,
                 result |-> <<>>, before |-> {}]
  BY <1>1 DEF NoScan
<1>3. <<>> \in Seq(Entries) /\ Len(<<>>) = 0 /\ 1 .. 0 = {}
  OBVIOUS
<1>4. ScanTypes
  BY <1>2, <1>3 DEF ScanTypes, Lows, Highs, None
<1>5. ResultFits
  BY <1>2, <1>3 DEF ResultFits, Found
<1> QED
  BY <1>2, <1>4, <1>5 DEF ScanFits, DescentFits, ChainFits, EndFits

LEMMA NextScan == IndInv /\ SoundInv /\ ScanInv /\ [Next]_vars => ScanInv'
<1> SUFFICES ASSUME IndInv, SoundInv, ScanInv, [Next]_vars PROVE ScanInv'
  OBVIOUS
<1>1. CASE InsertFails
  BY <1>1 DEF InsertFails, SoundInv, ScanInv
<1>2. CASE failures' = failures /\ ~InsertFails
  <2> SUFFICES ASSUME SoundTree, ScanFits PROVE ScanFits'
    BY <1>2 DEF SoundInv, ScanInv
  <2>1. CASE \/ \E e \in Entries : InsertStart(e)
             \/ NewRootLeaf \/ Place \/ NewRight \/ WriteRight \/ WriteLeft
             \/ LinkSibling \/ NewRoot \/ WriteMeta
    BY <2>1, InsertScan
  <2>2. CASE \E r \in Ranges : ScanStart(r[1], r[2])
    <3>1. PICK r \in Lows \X Highs : ScanStart(r[1], r[2])
      BY <2>2, RangeAssumption
    <3>2. r[1] \in Lows /\ r[2] \in Highs
      OBVIOUS
    <3> QED
      BY <3>1, <3>2, ScanStartFits
  <2>3. CASE ScanDescend
    BY <2>3, ScanDescendFits
  <2>4. CASE ScanLeaf
    BY <2>4, ScanLeafFits
  <2>5. CASE ScanNext
    BY <2>5, ScanNextFits
  <2>6. CASE ScanClose
    BY <2>6, NoScanFits DEF ScanClose
  <2>7. CASE UNCHANGED vars
    <3>1. /\ scan' = scan /\ pages' = pages /\ ins' = ins /\ tried' = tried /\ acked' = acked
          /\ None \notin Tree
      BY <2>7, NoneIsNoBlock DEF vars, IndInv, Shape, Tree
    <3>2. Tree' = Tree
      <4>1. UNCHANGED <<pages, ins>>
        BY <3>1
      <4> QED
        BY <4>1, TreeStays, Zenon
    <3> QED
      BY <3>1, <3>2, SameLefts
  <2> QED
    BY <1>2, <2>1, <2>2, <2>3, <2>4, <2>5, <2>6, <2>7 DEF Next
<1>3. InsertFails \/ failures' = failures
  BY DEF Next, vars, InsertStart, NewRootLeaf, Place, NewRight, WriteRight, WriteLeft,
         LinkSibling, NewRoot, WriteMeta, ScanStart, ScanDescend, ScanLeaf, ScanNext, ScanClose
<1> QED
  BY <1>1, <1>2, <1>3

\* However inserts split pages and put new roots over a scan, and whatever its
\* bounds are, as long as no insert has failed half way: it returns, in strictly
\* increasing order and below its upper bound, every entry between its bounds
\* whose Insert had returned when it started, and nothing nobody inserted
\* (btree.go, Scan).
THEOREM ScanAlwaysComplete == Spec => []ScanIsComplete
<1>1. Init => SoundInv /\ ScanInv
  BY InitSound, InitScan
<1>2. IndInv /\ IndInv' /\ SoundInv /\ ScanInv /\ [Next]_vars => SoundInv' /\ ScanInv'
  BY NextSound, NextScan
<1>3. ScanInv => ScanIsComplete
  <2> SUFFICES ASSUME ScanFits, scan.pc = "end"
               PROVE  LET r == scan.result
                          found == {r[i] : i \in DOMAIN r}
                      IN  /\ \A e \in scan.before :
                                Less(scan.lo, e) /\ Less(e, scan.hi) => e \in found
                          /\ found \subseteq tried
                          /\ \A e \in found : Less(e, scan.hi)
                          /\ \A i, j \in DOMAIN r : i < j => Less(r[i], r[j])
    BY DEF ScanInv, ScanIsComplete
  <2>1. DOMAIN scan.result = 1 .. Len(scan.result)
    BY LenProperties DEF ScanFits, ScanTypes
  <2>2. {scan.result[i] : i \in DOMAIN scan.result} = Found
    BY <2>1 DEF Found
  <2> QED
    BY <2>1, <2>2 DEF ScanFits, ResultFits, EndFits, Wanted
<1> QED
  BY <1>1, <1>2, <1>3, Invariance, PTL DEF Spec
=============================================================================

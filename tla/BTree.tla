-------------------------------- MODULE BTree --------------------------------
(***************************************************************************)
(* internal/btree: the tree of an index as one writer at a time (the       *)
(* relation's insert lock) changes it page by page, while a scan reads it  *)
(* page by page with no lock between two pages.                            *)
(*                                                                         *)
(* An entry is <<key, heap TID>> and sorts by both; NULL is the key after  *)
(* every value.  Search keys and bounds are pairs too: a TID of 0 is below *)
(* every heap TID (skey.tidMode -1), one of MaxTid + 1 above (tidMode +1). *)
(* Sizes are counted in items and not in bytes: a page has room for        *)
(* Capacity of them, its high key included, and as items differ in length  *)
(* any split that leaves two pages that fit may be the one chosen.         *)
(***************************************************************************)
EXTENDS Integers, Sequences, FiniteSets

CONSTANTS
    MaxKey,       \* bound: keys are 1 .. MaxKey, and NULL
    MaxTid,       \* bound: entries per key
    Capacity,     \* items on a page: MaxItemSize guarantees three
    Ranges,       \* bound: the pairs of bounds a scan is started with
    MaxFailures,  \* bound: how many inserts fail in a call to the pool
    MaxWork       \* bound: inserts, a failure counting as two

ASSUME BoundAssumption    == MaxKey \in Nat /\ MaxTid \in Nat
ASSUME WorkAssumption     == MaxFailures \in Nat /\ MaxWork \in Nat
ASSUME CapacityAssumption == Capacity \in Nat /\ Capacity >= 3

None     == 0
Null     == MaxKey + 1
MinusInf == <<0, 0>>
PlusInf  == <<Null + 1, 0>>

Entries == (1 .. Null) \X (1 .. MaxTid)

\* Tree.Scan's bounds: open, inclusive or exclusive, never NULL.
Lows  == {MinusInf} \cup (1 .. MaxKey) \X {0, MaxTid + 1}
Highs == {PlusInf}  \cup (1 .. MaxKey) \X {0, MaxTid + 1}

ASSUME RangeAssumption == Ranges \subseteq Lows \X Highs

\* compareTuples: the key, then the heap TID.
Less(a, b) == a[1] < b[1] \/ (a[1] = b[1] /\ a[2] < b[2])

\* A leaf tuple has no child; a downlink's key is its separator.
LeafItem(e)         == [key |-> e, child |-> None]
Downlink(sep, blk)  == [key |-> sep, child |-> blk]

\* What newPage leaves in a block: nothing, linked to nothing.
NewPage == [level |-> 0, root |-> FALSE, prev |-> None, next |-> None,
            high |-> PlusInf, items |-> <<>>]

NoInsert == [pc |-> "idle", entry |-> MinusInf, item |-> LeafItem(MinusInf),
             blk |-> None, right |-> None, at |-> 0, path |-> <<>>]
NoScan   == [pc |-> "idle", lo |-> MinusInf, hi |-> PlusInf, blk |-> None,
             result |-> <<>>, before |-> {}]

VARIABLES
    pages,     \* the tree pages, by block number
    meta,      \* the metapage: the root block and its level
    ins,       \* the Insert that holds the insert lock
    scan,      \* the Scan in progress
    tried,     \* history: the entries Insert was called with
    acked,     \* history: the entries whose Insert returned nil
    failures   \* how many inserts failed

vars == <<pages, meta, ins, scan, tried, acked, failures>>

Init ==
    /\ pages = <<>>
    /\ meta = [root |-> None, level |-> 0]
    /\ ins = NoInsert
    /\ scan = NoScan
    /\ tried = {}
    /\ acked = {}
    /\ failures = 0

-----------------------------------------------------------------------------
(* binsrch: on a leaf the first item >= the key, on an internal page the   *)
(* last downlink <= it.                                                    *)

LeafPosition(p, k) == Cardinality({i \in DOMAIN p.items : Less(p.items[i].key, k)}) + 1
LinkPosition(p, k) == Cardinality({i \in DOMAIN p.items : ~Less(k, p.items[i].key)})
Child(blk, k)      == pages[blk].items[LinkPosition(pages[blk], k)].child

\* descend: the blocks from the leaf (level 0) up to the root.
Descend(k) ==
    LET blocks[l \in 0 .. meta.level] ==
            IF l = meta.level THEN meta.root ELSE Child(blocks[l + 1], k)
    IN  blocks

\* The page's data items with the new one in place: a leaf takes it where its
\* key belongs, a parent right after the downlink that led to the split page.
Placed ==
    LET p   == pages[ins.blk]
        pos == IF p.level = 0 THEN LeafPosition(p, ins.entry)
                              ELSE LinkPosition(p, ins.entry) + 1
    IN  SubSeq(p.items, 1, pos - 1) \o <<ins.item>> \o SubSeq(p.items, pos, Len(p.items))

HighKeys(p) == IF p.next = None THEN 0 ELSE 1

HasRoom(p) == Len(p.items) + HighKeys(p) < Capacity

\* splitPoint: the left page gets a new high key, the right one the old.
SplitPoints(p, n) == {k \in 1 .. n - 1 : k + 1 <= Capacity /\ n - k + HighKeys(p) <= Capacity}

-----------------------------------------------------------------------------
(* Insert.  The descent is one step, as only the holder of the insert lock *)
(* changes pages; after it every page write is a step of its own.          *)

WorkLeft == Cardinality(tried) + 2 * failures < MaxWork

InsertStart(e) ==
    /\ ins.pc = "idle" /\ WorkLeft
    /\ e \notin tried
    /\ tried' = tried \cup {e}
    /\ ins' = IF meta.root = None
              THEN [NoInsert EXCEPT !.pc = "rootleaf", !.entry = e]
              ELSE [NoInsert EXCEPT !.pc = "place", !.entry = e, !.item = LeafItem(e),
                                    !.blk = Descend(e)[0],
                                    !.path = [l \in 1 .. meta.level |-> Descend(e)[l]]]
    /\ UNCHANGED <<pages, meta, scan, acked, failures>>

\* newRootLeaf: nothing leads to the block before the metapage does, so taking
\* and writing it are one step, here and in NewRoot.
NewRootLeaf ==
    /\ ins.pc = "rootleaf"
    /\ pages' = Append(pages, [NewPage EXCEPT !.root = TRUE,
                                              !.items = <<LeafItem(ins.entry)>>])
    /\ ins' = [ins EXCEPT !.pc = "meta", !.blk = Len(pages')]
    /\ UNCHANGED <<meta, scan, tried, acked, failures>>

\* insertAt, when the item fits.
Place ==
    /\ ins.pc = "place"
    /\ HasRoom(pages[ins.blk])
    /\ pages' = [pages EXCEPT ![ins.blk].items = Placed]
    /\ acked' = acked \cup {ins.entry}
    /\ ins' = NoInsert
    /\ UNCHANGED <<meta, scan, tried, failures>>

\* insertAt, when it does not: split takes the right page and a split point.
NewRight ==
    /\ ins.pc = "place"
    /\ ~HasRoom(pages[ins.blk])
    /\ \E k \in SplitPoints(pages[ins.blk], Len(Placed)) :
           ins' = [ins EXCEPT !.pc = "right", !.at = k, !.right = Len(pages) + 1]
    /\ pages' = Append(pages, NewPage)
    /\ UNCHANGED <<meta, scan, tried, acked, failures>>

\* The right page: the old high key and next, and on an internal page a first
\* downlink whose key is minus infinity.
WriteRight ==
    /\ ins.pc = "right"
    /\ LET p == pages[ins.blk]
           moved == SubSeq(Placed, ins.at + 1, Len(Placed))
       IN  pages' = [pages EXCEPT ![ins.right] =
               [p EXCEPT !.root = FALSE, !.prev = ins.blk,
                         !.items = IF p.level = 0 THEN moved
                                   ELSE [moved EXCEPT ![1].key = MinusInf]]]
    /\ ins' = [ins EXCEPT !.pc = "left"]
    /\ UNCHANGED <<meta, scan, tried, acked, failures>>

\* Slip: the high key is made from the last item that stays.
WriteLeftOwnLast ==
    /\ ins.pc = "left"
    /\ pages' = [pages EXCEPT ![ins.blk] =
           [@ EXCEPT !.root = FALSE, !.next = ins.right, !.high = Placed[ins.at].key,
                     !.items = SubSeq(Placed, 1, ins.at)]]
    /\ ins' = [ins EXCEPT !.pc = "sibling"]
    /\ UNCHANGED <<meta, scan, tried, acked, failures>>

\* Slip: next still leads past the new page.
WriteLeftOldNext ==
    /\ ins.pc = "left"
    /\ pages' = [pages EXCEPT ![ins.blk] =
           [@ EXCEPT !.root = FALSE, !.high = Placed[ins.at + 1].key,
                     !.items = SubSeq(Placed, 1, ins.at)]]
    /\ ins' = [ins EXCEPT !.pc = "sibling"]
    /\ UNCHANGED <<meta, scan, tried, acked, failures>>

\* The left page over the old one: its high key is a copy of the first moved item.
WriteLeft ==
    /\ ins.pc = "left"
    /\ pages' = [pages EXCEPT ![ins.blk] =
           [@ EXCEPT !.root = FALSE, !.next = ins.right, !.high = Placed[ins.at + 1].key,
                     !.items = SubSeq(Placed, 1, ins.at)]]
    /\ ins' = [ins EXCEPT !.pc = "sibling"]
    /\ UNCHANGED <<meta, scan, tried, acked, failures>>

\* The old right sibling's prev, then on to the parent: the page of the path
\* one level up, or a new root when the path is used up.
LinkSibling ==
    /\ ins.pc = "sibling"
    /\ LET after == pages[ins.right].next
           level == pages[ins.blk].level + 1
       IN  /\ pages' = IF after = None THEN pages
                       ELSE [pages EXCEPT ![after].prev = ins.right]
           /\ ins' = IF level > Len(ins.path) THEN [ins EXCEPT !.pc = "newroot"]
                     ELSE [ins EXCEPT !.pc = "place", !.blk = ins.path[level],
                                      !.item = Downlink(pages[ins.blk].high, ins.right)]
    /\ UNCHANGED <<meta, scan, tried, acked, failures>>

NewRoot ==
    /\ ins.pc = "newroot"
    /\ LET left == pages[ins.blk]
       IN  pages' = Append(pages,
               [NewPage EXCEPT !.level = left.level + 1, !.root = TRUE,
                               !.items = <<Downlink(MinusInf, ins.blk),
                                           Downlink(left.high, ins.right)>>])
    /\ ins' = [ins EXCEPT !.pc = "meta", !.blk = Len(pages')]
    /\ UNCHANGED <<meta, scan, tried, acked, failures>>

WriteMeta ==
    /\ ins.pc = "meta"
    /\ meta' = [root |-> ins.blk, level |-> pages[ins.blk].level]
    /\ acked' = acked \cup {ins.entry}
    /\ ins' = NoInsert
    /\ UNCHANGED <<pages, scan, tried, failures>>

\* A call to the pool fails (no free frame, an I/O error): Insert returns the
\* error and leaves what it has written.
InsertFails ==
    /\ ins.pc # "idle"
    /\ failures < MaxFailures /\ WorkLeft
    /\ failures' = failures + 1
    /\ ins' = NoInsert
    /\ UNCHANGED <<pages, meta, scan, tried, acked>>

-----------------------------------------------------------------------------
(* Scan.  readPage copies one page under its lock; nothing is held between *)
(* the metapage, the pages of the descent and the leaves that follow.      *)

\* The first item from off on that is not below the upper bound.
Stop(p, off) ==
    LET above == {i \in off .. Len(p.items) : ~Less(p.items[i].key, scan.hi)}
    IN  IF above = {} THEN Len(p.items) + 1 ELSE CHOOSE i \in above : \A j \in above : i <= j

\* Slip: a leaf without a qualifying entry ends the scan.
LoadNonEmpty(p, off) ==
    LET stop == Stop(p, off)
    IN  [scan EXCEPT !.result = @ \o [i \in 1 .. stop - off |-> p.items[off + i - 1].key],
                     !.blk = p.next,
                     !.pc = IF stop = Len(p.items) + 1 /\ stop > off /\ p.next # None
                            THEN "next" ELSE "end"]

\* load: copies the entries from off on, done at the first that is not below the
\* upper bound, and where to go on.
Load(p, off) ==
    LET stop == Stop(p, off)
    IN  [scan EXCEPT !.result = @ \o [i \in 1 .. stop - off |-> p.items[off + i - 1].key],
                     !.blk = p.next,
                     !.pc = IF stop = Len(p.items) + 1 /\ p.next # None THEN "next" ELSE "end"]

\* Scan and the metapage read of its descent.
ScanStart(lo, hi) ==
    /\ scan.pc = "idle"
    /\ scan' = [NoScan EXCEPT !.pc = IF meta.root = None THEN "end" ELSE "descend",
                              !.lo = lo, !.hi = hi, !.blk = meta.root, !.before = acked]
    /\ UNCHANGED <<pages, meta, ins, tried, acked, failures>>

ScanDescend ==
    /\ scan.pc = "descend"
    /\ pages[scan.blk].level > 0
    /\ scan' = [scan EXCEPT !.blk = Child(scan.blk, scan.lo)]
    /\ UNCHANGED <<pages, meta, ins, tried, acked, failures>>

ScanLeaf ==
    /\ scan.pc = "descend"
    /\ pages[scan.blk].level = 0
    /\ scan' = Load(pages[scan.blk], LeafPosition(pages[scan.blk], scan.lo))
    /\ UNCHANGED <<pages, meta, ins, tried, acked, failures>>

\* Next, past the last entry of a leaf: the following one, from its first item.
ScanNext ==
    /\ scan.pc = "next"
    /\ scan' = Load(pages[scan.blk], 1)
    /\ UNCHANGED <<pages, meta, ins, tried, acked, failures>>

ScanClose ==
    /\ scan.pc = "end"
    /\ scan' = NoScan
    /\ UNCHANGED <<pages, meta, ins, tried, acked, failures>>

-----------------------------------------------------------------------------
Next ==
    \/ \E e \in Entries : InsertStart(e)
    \/ NewRootLeaf \/ Place \/ NewRight \/ WriteRight \/ WriteLeft
    \/ LinkSibling \/ NewRoot \/ WriteMeta \/ InsertFails
    \/ \E r \in Ranges : ScanStart(r[1], r[2])
    \/ ScanDescend \/ ScanLeaf \/ ScanNext \/ ScanClose

Spec == Init /\ [][Next]_vars

-----------------------------------------------------------------------------
Blocks == DOMAIN pages

\* Tree.Check of one page: order, high key, links to both siblings.
PageIsSound(b) ==
    LET p == pages[b]
    IN  /\ p.items # <<>>
        /\ Len(p.items) + HighKeys(p) <= Capacity
        /\ p.root = (b = meta.root)
        /\ p.root => p.level = meta.level /\ p.prev = None /\ p.next = None
        /\ (p.next = None) = (p.high = PlusInf)
        /\ p.next # None => /\ pages[p.next].prev = b
                            /\ pages[p.next].level = p.level
        /\ p.prev # None => /\ pages[p.prev].next = b
                            /\ p.level = 0 => ~Less(p.items[1].key, pages[p.prev].high)
        /\ \A i, j \in DOMAIN p.items : i < j => Less(p.items[i].key, p.items[j].key)
        /\ \A i \in DOMAIN p.items : /\ Less(p.items[i].key, p.high)
                                     /\ (p.items[i].key = MinusInf) = (p.level > 0 /\ i = 1)

\* Tree.Check of one parent: each child has the next downlink as its high key
\* and the next downlink's child as its sibling.
DownlinksAreSound(b) ==
    LET p == pages[b]
    IN  \A i \in DOMAIN p.items :
          LET c == pages[p.items[i].child]
          IN  /\ c.level = p.level - 1
              /\ IF i < Len(p.items)
                 THEN c.high = p.items[i + 1].key /\ c.next = p.items[i + 1].child
                 ELSE /\ c.high = p.high
                      /\ c.next = IF p.next = None THEN None
                                  ELSE pages[p.next].items[1].child

\* The downlinks to a block.
LinksTo(b) == {l \in Blocks \X (1 .. Capacity) :
                  l[2] \in DOMAIN pages[l[1]].items /\ pages[l[1]].items[l[2]].child = b}

\* Between two inserts the tree passes Tree.Check (btree.go), whatever was
\* inserted in which order and however its pages were split, as long as no
\* insert has failed half way.
TreeIsSound ==
    ins.pc = "idle" /\ failures = 0 =>
        /\ (meta.root = None) = (pages = <<>>)
        /\ \A b \in Blocks : /\ PageIsSound(b)
                             /\ pages[b].level > 0 => DownlinksAreSound(b)
                             /\ Cardinality(LinksTo(b)) = IF b = meta.root THEN 0 ELSE 1

\* The entries of the leaf chain from its left end, as a full scan meets them.
After(b) == IF b = None THEN None ELSE pages[b].next
LeafChain ==
    LET chain[n \in 0 .. Len(pages)] ==
            IF n = 0 THEN Descend(MinusInf)[0] ELSE After(chain[n - 1])
    IN  IF meta.root = None THEN {} ELSE {chain[n] : n \in 0 .. Len(pages)} \ {None}
Stored == UNION {{pages[b].items[i].key : i \in DOMAIN pages[b].items} : b \in LeafChain}

\* At every single page write, and after an insert that failed half way, a full
\* scan from the left end would meet every entry whose Insert returned nil and
\* none that was never inserted: splitting a page loses no entry (btree.go,
\* Insert).
AckedIsStored == acked \subseteq Stored /\ Stored \subseteq tried

\* A scan that races with inserts and splits returns, in strictly increasing
\* order and below its upper bound, every entry between its bounds that was
\* there when it started, and nothing nobody inserted (btree.go, Scan).
ScanIsComplete ==
    scan.pc = "end" /\ failures = 0 =>
        LET r == scan.result
            found == {r[i] : i \in DOMAIN r}
        IN  /\ \A e \in scan.before : Less(scan.lo, e) /\ Less(e, scan.hi) => e \in found
            /\ found \subseteq tried
            /\ \A e \in found : Less(e, scan.hi)
            /\ \A i, j \in DOMAIN r : i < j => Less(r[i], r[j])

\* btree.go says of Scan that it is "a forward scan over the entries between
\* lo and hi": nothing it returns is below the lower bound.
ScanInBounds ==
    scan.pc = "end" => \A i \in DOMAIN scan.result : Less(scan.lo, scan.result[i])

=============================================================================

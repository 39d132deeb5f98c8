-------------------------------- MODULE Page --------------------------------
(***************************************************************************)
(* internal/page: the slotted page.  A page is its header, its line        *)
(* pointers and what its bytes hold: data gives, for each offset an item   *)
(* was written at and no later write has touched, the item and its length. *)
(* Items are opaque and never empty, as tuples and index tuples are.       *)
(***************************************************************************)
EXTENDS Integers, Sequences, FiniteSets

CONSTANT PageSize   \* bytes of a page

HeaderSize      == 24
LinePointerSize == 4
Align8(n)       == 8 * ((n + 7) \div 8)
MaxItemSize     == 8 * ((PageSize - HeaderSize - LinePointerSize) \div 8)

ASSUME PageAssumption == PageSize \in Nat /\ PageSize >= HeaderSize /\ PageSize % 8 = 0

\* ItemID; DeleteItem zeroes the offset and the length.
UnusedItem      == [off |-> 0, len |-> 0, normal |-> FALSE]
NormalItem(o, l) == [off |-> o, len |-> l, normal |-> TRUE]

NoBytes == [o \in {} |-> UnusedItem]

\* All bytes zero, as Extend leaves a block.
ZeroPage == [lower |-> 0, upper |-> 0, special |-> 0, lp |-> <<>>, data |-> NoBytes]
IsNew(p) == p.upper = 0

\* Init: what the data area holds is no longer anybody's.
InitPage(size) ==
    [lower |-> HeaderSize, upper |-> PageSize - Align8(size),
     special |-> PageSize - Align8(size), lp |-> <<>>, data |-> NoBytes]

NumItems(p) == IF p.lower <= HeaderSize THEN 0
               ELSE (p.lower - HeaderSize) \div LinePointerSize
Items(p)    == {n \in 1 .. NumItems(p) : p.lp[n].normal}
FreeSpace(p) == LET free == p.upper - p.lower - LinePointerSize
                IN  IF free > 0 THEN free ELSE 0

\* copy: a write leaves nothing of what overlapped it.
Copy(data, at, len, item) ==
    [o \in {at} \cup {o \in DOMAIN data : o + data[o].len <= at \/ at + len <= o} |->
        IF o = at THEN [len |-> len, item |-> item] ELSE data[o]]

\* GetItem of an item in use.
GetItem(p, n) == p.data[p.lp[n].off].item

\* A write through the slice GetItem returns, which aliases the page.
PutItem(p, n, item) == [p EXCEPT !.data[p.lp[n].off].item = item]

Failed(p, err)     == [page |-> p, off |-> 0, err |-> err]
Stored(p, off)     == [page |-> p, off |-> off, err |-> "none"]

\* The lowest unused line pointer, or a new one.
FreePointer(p) ==
    LET unused == 1 .. NumItems(p) \ Items(p)
    IN  IF unused = {} THEN NumItems(p) + 1
        ELSE CHOOSE n \in unused : \A m \in unused : n <= m

\* Slip: the item's place is not aligned.
AddItemUnaligned(p, item, len) ==
    LET n     == FreePointer(p)
        lower == IF n > NumItems(p) THEN p.lower + LinePointerSize ELSE p.lower
        upper == p.upper - len
    IN  IF len > MaxItemSize THEN Failed(p, "ErrItemTooLarge")
        ELSE IF upper < lower THEN Failed(p, "ErrNoSpace")
        ELSE Stored([lower |-> lower, upper |-> upper, special |-> p.special,
                     lp |-> [m \in 1 .. NumItems(p) \cup {n} |->
                                IF m = n THEN NormalItem(upper, len) ELSE p.lp[m]],
                     data |-> Copy(p.data, upper, len, item)], n)

AddItem(p, item, len) ==
    LET n     == FreePointer(p)
        lower == IF n > NumItems(p) THEN p.lower + LinePointerSize ELSE p.lower
        upper == p.upper - Align8(len)
    IN  IF len > MaxItemSize THEN Failed(p, "ErrItemTooLarge")
        ELSE IF upper < lower THEN Failed(p, "ErrNoSpace")
        ELSE Stored([lower |-> lower, upper |-> upper, special |-> p.special,
                     lp |-> [m \in 1 .. NumItems(p) \cup {n} |->
                                IF m = n THEN NormalItem(upper, len) ELSE p.lp[m]],
                     data |-> Copy(p.data, upper, len, item)], n)

\* As item n: the line pointers from n on move up, unused ones with them.
InsertItem(p, n, item, len) ==
    LET upper == p.upper - Align8(len)
        lower == p.lower + LinePointerSize
    IN  IF len > MaxItemSize THEN Failed(p, "ErrItemTooLarge")
        ELSE IF n \notin 1 .. NumItems(p) + 1 THEN Failed(p, "ErrInvalidOffset")
        ELSE IF upper < lower THEN Failed(p, "ErrNoSpace")
        ELSE Stored([lower |-> lower, upper |-> upper, special |-> p.special,
                     lp |-> [m \in 1 .. NumItems(p) + 1 |->
                                IF m < n THEN p.lp[m]
                                ELSE IF m = n THEN NormalItem(upper, len)
                                ELSE p.lp[m - 1]],
                     data |-> Copy(p.data, upper, len, item)], n)

DeleteItem(p, n) ==
    IF n \notin 1 .. NumItems(p) THEN Failed(p, "ErrInvalidOffset")
    ELSE IF ~p.lp[n].normal THEN Failed(p, "ErrItemUnused")
    ELSE Stored([p EXCEPT !.lp[n] = UnusedItem], n)

\* Where Compact lays item n: below the items with lower numbers.
Below(p) ==
    LET below[n \in 0 .. NumItems(p)] ==
            IF n = 0 THEN p.special
            ELSE below[n - 1] - IF n \in Items(p) THEN Align8(p.lp[n].len) ELSE 0
    IN  below

\* Slip: the line pointers are cut to the number of items that are left.
CompactToCount(p) ==
    LET last  == Cardinality(Items(p))
        below == Below(p)
    IN  [lower |-> HeaderSize + LinePointerSize * last,
         upper |-> below[NumItems(p)], special |-> p.special,
         lp |-> [n \in 1 .. last |-> IF n \in Items(p)
                    THEN NormalItem(below[n], p.lp[n].len) ELSE UnusedItem],
         data |-> [o \in {below[n] : n \in Items(p)} |->
                     LET n == CHOOSE n \in Items(p) : below[n] = o
                     IN  [len |-> p.lp[n].len, item |-> GetItem(p, n)]]]

Compact(p) ==
    LET last  == CHOOSE n \in Items(p) \cup {0} : \A m \in Items(p) : m <= n
        below == Below(p)
    IN  [lower |-> HeaderSize + LinePointerSize * last,
         upper |-> below[NumItems(p)], special |-> p.special,
         lp |-> [n \in 1 .. last |-> IF n \in Items(p)
                    THEN NormalItem(below[n], p.lp[n].len) ELSE UnusedItem],
         data |-> [o \in {below[n] : n \in Items(p)} |->
                     LET n == CHOOSE n \in Items(p) : below[n] = o
                     IN  [len |-> p.lp[n].len, item |-> GetItem(p, n)]]]

-----------------------------------------------------------------------------
(* What every mutating method keeps.                                       *)

HeaderOK(p) == /\ HeaderSize <= p.lower /\ p.lower <= p.upper
               /\ p.upper <= p.special /\ p.special <= PageSize
               /\ p.lower = HeaderSize + LinePointerSize * NumItems(p)
               /\ DOMAIN p.lp = 1 .. NumItems(p)

\* The items lie between upper and special, aligned, clear of each other,
\* and the bytes of each are the ones written for it.
ItemsOK(p) ==
    \A n \in Items(p) :
        /\ p.lp[n].off % 8 = 0
        /\ p.upper <= p.lp[n].off /\ p.lp[n].off + p.lp[n].len <= p.special
        /\ p.lp[n].off \in DOMAIN p.data /\ p.data[p.lp[n].off].len = p.lp[n].len
        /\ \A m \in Items(p) \ {n} : \/ p.lp[n].off + p.lp[n].len <= p.lp[m].off
                                     \/ p.lp[m].off + p.lp[m].len <= p.lp[n].off

PageOK(p) == HeaderOK(p) /\ ItemsOK(p)
Contents(p) == [n \in Items(p) |-> GetItem(p, n)]
=============================================================================

------------------------------ MODULE HeapFile ------------------------------
(***************************************************************************)
(* internal/heap over pages of real bytes: where an insert goes when       *)
(* several sessions, each with a handle of its own, insert into one        *)
(* relation, and what a crash leaves of it.  A step is what happens under  *)
(* one lock of one page.  Visibility is a set of committed transactions:   *)
(* MvccHeap has the rest of it, and the waiting.                           *)
(***************************************************************************)
EXTENDS Page, Tuple, SequencesExt

CONSTANTS
    Rels,       \* relations
    Desc,       \* the descriptor of each
    Sessions,   \* sessions, each with a handle on every relation
    Rows,       \* the rows statements may insert into each relation
    InitRows,   \* the rows each relation starts with
    Xids        \* transaction IDs

Values == Nat \cup {Null}
FrozenXID == 2

ASSUME HeapAssumption ==
    /\ Desc \in [Rels -> Seq(Types)]
    /\ \A r \in Rels :
          /\ Rows[r] \subseteq [1 .. Len(Desc[r]) -> Values]
          /\ InitRows[r] \in Seq(Rows[r])
          /\ \A i \in DOMAIN InitRows[r] : Form(Desc[r], InitRows[r][i]).len <= MaxItemSize
    /\ FrozenXID \in Xids

NoBlock  == -1
NoTid    == <<-1, 0>>
NoTuple  == Form(<<>>, <<>>)
NoInsert == [pc |-> "idle", rel |-> "", row |-> <<>>, tuple |-> NoTuple,
             blk |-> NoBlock, tid |-> NoTid]

VARIABLES
    files,     \* the pages of each relation, through the pool
    disk,      \* the pages as last written
    target,    \* Relation.target of each session's handles
    insert,    \* the Insert each session is in
    handed     \* history: the row behind every TID Insert returned

heapVars == <<files, disk, target, insert, handed>>

NBlocks(rel)  == Len(files[rel])
PageAt(rel, blk) == files[rel][blk + 1]
FreshHandle   == [r \in Rels |-> NoBlock]

\* A set as a sequence.
InOrder(S, Before(_, _)) ==
    [i \in 1 .. Cardinality(S) |-> CHOOSE x \in S : Cardinality({y \in S : Before(y, x)}) = i - 1]

TidBefore(t, u) == t[1] < u[1] \/ (t[1] = u[1] /\ t[2] < u[2])

\* Every TID with an item, blocks in order and items in item order.
TidsOf(rel) == UNION {{<<b, n>> : n \in Items(PageAt(rel, b))} : b \in 0 .. NBlocks(rel) - 1}
TupleAt(rel, tid) == GetItem(PageAt(rel, tid[1]), tid[2])

\* Committed in snap, or the transaction's own.
Visible(t, snap, xid) ==
    /\ t.xmin \in snap \cup {xid}
    /\ t.xmax = 0 \/ t.xmax \notin snap \cup {xid}

\* loadBlock: the visible tuples of one block, under its shared lock.
BlockItems(rel, blk, snap, xid) ==
    LET p    == PageAt(rel, blk)
        seen == {n \in Items(p) : Visible(GetItem(p, n), snap, xid)}
        nth  == InOrder(seen, <)
    IN  [i \in 1 .. Len(nth) |-> [tid |-> <<blk, nth[i]>>, tuple |-> GetItem(p, nth[i])]]

-----------------------------------------------------------------------------
(* Relation.Insert: the steps of one session.                              *)

\* ErrTupleTooLarge before anything; the header stamped, hint bits cleared.
StartInsert(s, rel, values, xid) ==
    LET t == [Form(Desc[rel], values) EXCEPT !.xmin = xid]
    IN  insert' = [insert EXCEPT ![s] =
                     IF t.len > MaxItemSize
                     THEN [NoInsert EXCEPT !.pc = "failed"]
                     ELSE [pc |-> "pick", rel |-> rel, row |-> values, tuple |-> t,
                           blk |-> NoBlock, tid |-> NoTid]]

GoesOn(i, pc, blk) == [i EXCEPT !.pc = pc, !.blk = blk]

\* The target block, else the last one of the relation, else a new one.
InsertPick(s) ==
    /\ insert[s].pc = "pick"
    /\ LET rel == insert[s].rel
           blk == IF target[s][rel] # NoBlock THEN target[s][rel] ELSE NBlocks(rel) - 1
       IN  insert' = [insert EXCEPT ![s] =
                        GoesOn(@, IF blk = NoBlock THEN "extend" ELSE "try", blk)]
    /\ UNCHANGED <<files, disk, target, handed>>

\* putTuple: AddItem, then the ctid on the stored copy.
PutOn(page, blk, t) ==
    LET r == AddItem(page, t, t.len)
    IN  IF r.err # "none" THEN r
        ELSE [r EXCEPT !.page = PutItem(r.page, r.off, [t EXCEPT !.ctid = <<blk, r.off>>])]

PutTuple(rel, blk, t) == PutOn(PageAt(rel, blk), blk, t)

\* The TID Insert returns is good from then on.
HandOut(tids, tid, row) ==
    [i \in {tid} \cup DOMAIN tids |-> IF i = tid THEN row ELSE tids[i]]

PutSucceeds(s) ==
    LET rel == insert[s].rel
        blk == insert[s].blk
        r   == PutTuple(rel, blk, insert[s].tuple)
    IN  /\ r.err = "none"
        /\ files' = [files EXCEPT ![rel][blk + 1] = r.page]
        /\ target' = [target EXCEPT ![s][rel] = blk]
        /\ insert' = [insert EXCEPT ![s] =
                        [pc |-> "done", rel |-> rel, row |-> <<>>, tuple |-> NoTuple,
                         blk |-> NoBlock, tid |-> <<blk, r.off>>]]
        /\ handed' = [handed EXCEPT ![rel] = HandOut(@, <<blk, r.off>>, insert[s].row)]
        /\ UNCHANGED disk

PutFails(s, pc) ==
    /\ PutTuple(insert[s].rel, insert[s].blk, insert[s].tuple).err # "none"
    /\ insert' = [insert EXCEPT ![s].pc = pc]
    /\ UNCHANGED <<files, disk, target, handed>>

InsertTry(s) ==
    /\ insert[s].pc = "try"
    /\ PutSucceeds(s) \/ PutFails(s, "extend")

\* Pool.Extend writes the zeroed block before anybody can initialise it.
InsertExtend(s) ==
    /\ insert[s].pc = "extend"
    /\ LET rel == insert[s].rel IN
       /\ files' = [files EXCEPT ![rel] = Append(@, ZeroPage)]
       /\ disk' = [disk EXCEPT ![rel] = Append(@, ZeroPage)]
       /\ insert' = [insert EXCEPT ![s] = GoesOn(@, "init", NBlocks(rel))]
    /\ UNCHANGED <<target, handed>>

\* Slip: any session that meets a zeroed block initialises it.
InitLast(s) ==
    /\ insert[s].pc = "init"
    /\ LET rel == insert[s].rel IN
       files' = [files EXCEPT ![rel][NBlocks(rel)] = InitPage(0)]
    /\ insert' = [insert EXCEPT ![s].pc = "put"]
    /\ UNCHANGED <<disk, target, handed>>

InsertInit(s) ==
    /\ insert[s].pc = "init"
    /\ LET rel == insert[s].rel IN
       files' = [files EXCEPT ![rel][insert[s].blk + 1] = InitPage(0)]
    /\ insert' = [insert EXCEPT ![s].pc = "put"]
    /\ UNCHANGED <<disk, target, handed>>

\* Another session may have filled the new page first: the insert fails.
InsertPut(s) ==
    /\ insert[s].pc = "put"
    /\ PutSucceeds(s) \/ PutFails(s, "failed")

InsertStep(s) == \/ InsertPick(s) \/ InsertTry(s) \/ InsertExtend(s)
                 \/ InsertInit(s) \/ InsertPut(s)

-----------------------------------------------------------------------------
\* markDeleted: xmax, and the new version's TID if there is one.
Marked(t, xid, ctid) == [t EXCEPT !.xmax = xid, !.ctid = IF ctid = NoTid THEN @ ELSE ctid]

MarkDeleted(rel, tid, xid, ctid) ==
    LET p == PageAt(rel, tid[1])
    IN  /\ files' = [files EXCEPT ![rel][tid[1] + 1] =
                        PutItem(p, tid[2], Marked(GetItem(p, tid[2]), xid, ctid))]
        /\ UNCHANGED <<disk, target, handed>>

\* FlushAll of a committing session.
FlushAll == disk' = files

\* A crash: each block is what the disk had or, evicted since, what it was.
Survives(choice) ==
    [r \in Rels |-> [b \in 1 .. NBlocks(r) |->
                        IF <<r, b>> \in choice THEN files[r][b] ELSE disk[r][b]]]

HeapCrash ==
    /\ \E choice \in SUBSET UNION {{<<r, b>> : b \in {c \in 1 .. NBlocks(r) : files[r][c] # disk[r][c]}} :
                                 r \in Rels} :
          files' = Survives(choice) /\ disk' = Survives(choice)
    /\ target' = [s \in Sessions |-> FreshHandle]
    /\ insert' = [s \in Sessions |-> NoInsert]
    /\ handed' = [r \in Rels |->
                    [i \in {i \in DOMAIN handed[r] :
                               i[2] \in Items(files'[r][i[1] + 1])} |-> handed[r][i]]]

-----------------------------------------------------------------------------
(* The heap by itself: what any statements may do with it.                 *)

\* One more row of those a relation starts with, frozen, on its last page or
\* on a new one.
LoadRow(rel, loaded, row) ==
    LET t   == [Form(Desc[rel], row) EXCEPT !.xmin = FrozenXID]
        blk == Len(loaded.pages)
        old == IF blk = 0 THEN Failed(ZeroPage, "ErrNoSpace")
               ELSE PutOn(loaded.pages[blk], blk - 1, t)
        new == PutOn(InitPage(0), blk, t)
    IN  IF old.err = "none"
        THEN [pages  |-> [loaded.pages EXCEPT ![blk] = old.page],
              handed |-> HandOut(loaded.handed, <<blk - 1, old.off>>, row)]
        ELSE [pages  |-> Append(loaded.pages, new.page),
              handed |-> HandOut(loaded.handed, <<blk, new.off>>, row)]

Loads(rel) ==
    LET loaded[n \in 0 .. Len(InitRows[rel])] ==
            IF n = 0 THEN [pages |-> <<>>, handed |-> <<>>]
            ELSE LoadRow(rel, loaded[n - 1], InitRows[rel][n])
    IN  loaded
Loaded(rel) == Loads(rel)[Len(InitRows[rel])]

HeapInit ==
    /\ files = [r \in Rels |-> Loaded(r).pages]
    /\ disk = files
    /\ target = [s \in Sessions |-> FreshHandle]
    /\ insert = [s \in Sessions |-> NoInsert]
    /\ handed = [r \in Rels |-> Loaded(r).handed]

BeginInsert(s) ==
    /\ insert[s].pc = "idle"
    /\ \E r \in Rels : \E row \in Rows[r], x \in Xids : StartInsert(s, r, row, x)
    /\ UNCHANGED <<files, disk, target, handed>>

\* Between two Inserts: one that is over is forgotten, an old version gets its
\* xmax, a committing session flushes.
Forget(s) ==
    /\ insert[s].pc \in {"done", "failed"}
    /\ insert' = [insert EXCEPT ![s] = NoInsert]

MarkOld == \E r \in Rels : \E tid \in TidsOf(r), x \in Xids, ctid \in TidsOf(r) \cup {NoTid} :
                MarkDeleted(r, tid, x, ctid)

Between ==
    /\ UNCHANGED insert \/ \E s \in Sessions : Forget(s)
    /\ \/ UNCHANGED <<files, disk, target, handed>>
       \/ FlushAll /\ UNCHANGED <<files, target, handed>>
       \/ MarkOld

HeapNext == \/ Between
            \/ \E s \in Sessions : InsertStep(s) \/ BeginInsert(s)
            \/ HeapCrash

HeapSpec == HeapInit /\ [][HeapNext]_heapVars

-----------------------------------------------------------------------------
(* Properties.                                                             *)

\* Every page is a zeroed one or sound: its header in order, its items
\* inside the data area, aligned, clear of each other and untouched since
\* they were written, whatever order the sessions extend, initialise and
\* fill blocks in and whichever blocks a crash takes back.
PagesAreSound ==
    \A r \in Rels : \A b \in DOMAIN files[r] :
        files[r][b] = ZeroPage \/ PageOK(files[r][b])

\* A TID Insert has returned stays good: the item is there and deforms to
\* the row it was formed from, NULLs and alignment gaps included, for as
\* long as no crash has taken the item back.
RowsStay ==
    \A r \in Rels : \A i \in DOMAIN handed[r] :
        /\ i \in TidsOf(r)
        /\ Deform(Desc[r], TupleAt(r, i)) = handed[r][i]

\* On every page there is, DeleteItem with Compact and InsertItem do to the
\* items exactly what they say: the others keep their numbers and bytes, or
\* move up by one, and the page stays sound.
PageOpsKeepItems ==
    \A r \in Rels : \A b \in DOMAIN files[r] :
        LET p == files[r][b] IN
        /\ \A n \in Items(p) :
              LET c == Compact(DeleteItem(p, n).page)
              IN  PageOK(c) /\ Contents(c) = [m \in Items(p) \ {n} |-> GetItem(p, m)]
        /\ \A n \in 1 .. NumItems(p) + 1 :
              LET i == InsertItem(p, n, NoTuple, NoTuple.len)
              IN  i.err = "none" =>
                    /\ PageOK(i.page)
                    /\ Contents(i.page) = [m \in Items(i.page) |->
                          IF m = n THEN NoTuple ELSE GetItem(p, IF m < n THEN m ELSE m - 1)]
=============================================================================

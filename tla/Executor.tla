------------------------------ MODULE Executor ------------------------------
(***************************************************************************)
(* internal/executor over the plan nodes of internal/plan, and the         *)
(* expressions of internal/executor/expr.  A node is a record: its kind,   *)
(* what the plan says of it and the state Build gives it; Open, Next and   *)
(* Rescan return the node they leave.  One Next is one step: the snapshot  *)
(* fixes what its reads can see.  An index is its entries, those of every  *)
(* tuple in the heap; UniqueIndex and BTree have what is below.            *)
(***************************************************************************)
EXTENDS HeapFile

CONSTANTS
    Indexed,    \* for each relation, the attributes with an index
    NotNull,    \* for each relation, the attributes that are NOT NULL
    MaxInt      \* the largest value an int4 holds

False == 0
True  == 1
Err   == -3     \* ErrOutOfRange

-----------------------------------------------------------------------------
(* expr.  A range is the relations a row is laid out over, in order, each  *)
(* with the Index it has in the range table.                               *)

Entry(rel, index) == [rel |-> rel, index |-> index]

RECURSIVE Width(_)
Width(range) == IF range = <<>> THEN 0
                ELSE Len(Desc[Head(range).rel]) + Width(Tail(range))

\* Layout: the slot before each entry's first column.
Slot(range, v) ==
    LET at == CHOOSE i \in DOMAIN range : range[i].index = v.rel
    IN  Width(SubSeq(range, 1, at - 1)) + v.attr

Var(rel, attr) == [op |-> "var", rel |-> rel, attr |-> attr]
Const(v)       == [op |-> "const", v |-> v]
Op(op, l, r)   == [op |-> op, args |-> <<l, r>>]
AndOf(quals)   == [op |-> "and", args |-> quals]
IsNullOf(e)    == [op |-> "isnull", args |-> <<e>>]

Comparisons == {"=", "<>", "<", "<=", ">", ">="}
Bool(b)     == IF b THEN True ELSE False

Holds(op, l, r) == CASE op = "=" -> l = r [] op = "<>" -> l # r
                     [] op = "<" -> l < r [] op = "<=" -> l <= r
                     [] op = ">" -> l > r [] op = ">=" -> l >= r

\* Every operator but AND, OR and IS NULL: NULL in, NULL out, and the right
\* operand is not evaluated when the left one is NULL or an error.
Strict(op, l, r) ==
    IF l \in {Null, Err} THEN l
    ELSE IF r \in {Null, Err} THEN r
    ELSE IF op \in Comparisons THEN Bool(Holds(op, l, r))
    ELSE IF l + r > MaxInt THEN Err ELSE l + r

\* AND stops at the first FALSE, OR at the first TRUE, both at an error.
Kleene(args, stop) ==
    LET ends == {i \in DOMAIN args : args[i] \in {stop, Err}}
    IN  IF ends # {} THEN args[Min(ends)]
        ELSE IF Null \in Range(args) THEN Null ELSE 1 - stop

RECURSIVE Eval(_, _, _)
Eval(e, vals, range) ==
    LET arg(i) == Eval(e.args[i], vals, range)
        args   == [i \in DOMAIN e.args |-> arg(i)]
    IN  CASE e.op = "var"    -> vals[Slot(range, e)]
          [] e.op = "const"  -> e.v
          [] e.op = "and"    -> Kleene(args, False)
          [] e.op = "or"     -> Kleene(args, True)
          [] e.op = "isnull" -> IF arg(1) = Err THEN Err ELSE Bool(arg(1) = Null)
          [] OTHER           -> Strict(e.op, arg(1), arg(2))

EvalAll(exprs, vals, range) == [i \in DOMAIN exprs |-> Eval(exprs[i], vals, range)]

\* The order of a sort key and of an index: NULL after everything.
KeyBefore(a, b) == a # b /\ a # Null /\ (b = Null \/ a < b)

-----------------------------------------------------------------------------
(* plan: the nodes, as Build leaves them.                                  *)

ResultNode            == [kind |-> "Result", done |-> FALSE]
ValuesNode(lists)     == [kind |-> "Values", lists |-> lists, pos |-> 0]
SeqScanNode(entry)    == [kind |-> "SeqScan", entry |-> entry,
                          nblocks |-> 0, next |-> 0, buffer |-> <<>>]
IndexScanNode(entry, attr, quals) ==
    [kind |-> "IndexScan", entry |-> entry, attr |-> attr, quals |-> quals,
     started |-> FALSE, scan |-> <<>>]
FilterNode(n, qual)   == [kind |-> "Filter", input |-> n, qual |-> qual]
ProjectNode(n, exprs) == [kind |-> "Project", input |-> n, targets |-> exprs]
SortNode(n, key)      == [kind |-> "Sort", input |-> n, key |-> key,
                          sorted |-> FALSE, rows |-> <<>>]
LimitNode(n, count)   == [kind |-> "Limit", input |-> n, count |-> count, left |-> 0]
MaterializeNode(n)    == [kind |-> "Materialize", input |-> n,
                          full |-> FALSE, rows |-> <<>>, pos |-> 0]
NoRow                 == [vals |-> <<>>, tid |-> NoTid]
NestLoopNode(o, i, qual) ==
    [kind |-> "NestLoop", outer |-> o, inner |-> i, qual |-> qual,
     have |-> FALSE, row |-> NoRow]
HashNode(n)           == [kind |-> "Hash", input |-> n]
HashJoinNode(o, i, hashQuals, qual) ==
    [kind |-> "HashJoin", outer |-> o, inner |-> i, hashQuals |-> hashQuals,
     qual |-> qual, built |-> FALSE, table |-> <<>>, row |-> NoRow, bucket |-> <<>>]
ModifyTableNode(op, entry, n, set) ==
    [kind |-> "ModifyTable", op |-> op, entry |-> entry, input |-> n, set |-> set]

RECURSIVE RangeOf(_)
RangeOf(n) ==
    CASE n.kind \in {"SeqScan", "IndexScan"} -> <<n.entry>>
      [] n.kind \in {"NestLoop", "HashJoin"} -> RangeOf(n.outer) \o RangeOf(n.inner)
      [] n.kind \in {"Filter", "Sort", "Limit", "Hash", "Materialize"} -> RangeOf(n.input)
      [] OTHER -> <<>>

-----------------------------------------------------------------------------
(* Open and Rescan.                                                        *)

\* Limit evaluates its count before the input is opened.
LimitCount(n) == Eval(n.count, <<>>, <<>>)
OpenFails(n)  == n.kind = "Limit" /\ (LimitCount(n) < Null \/ LimitCount(n) = Err)

\* What a node forgets both when it opens and when it is rescanned.
Restart(n) ==
    CASE n.kind = "Result"    -> [n EXCEPT !.done = FALSE]
      [] n.kind = "Values"    -> [n EXCEPT !.pos = 0]
      [] n.kind = "SeqScan"   -> [n EXCEPT !.nblocks = NBlocks(n.entry.rel),
                                           !.next = 0, !.buffer = <<>>]
      [] n.kind = "IndexScan" -> [n EXCEPT !.started = FALSE, !.scan = <<>>]
      [] n.kind = "Sort"      -> [n EXCEPT !.sorted = FALSE, !.rows = <<>>]
      [] n.kind = "Limit"     -> [n EXCEPT !.left = LimitCount(n)]
      [] n.kind = "Materialize" -> [n EXCEPT !.pos = 0]
      [] n.kind = "NestLoop"  -> [n EXCEPT !.have = FALSE]
      [] n.kind = "HashJoin"  -> [n EXCEPT !.bucket = <<>>]
      [] OTHER                -> n

RECURSIVE NodeOpen(_)
NodeOpen(n) ==
    LET m == Restart(n)
    IN  CASE n.kind \in {"NestLoop", "HashJoin"} ->
                [m EXCEPT !.outer = NodeOpen(@), !.inner = NodeOpen(@)]
          [] n.kind \in {"Result", "Values", "SeqScan", "IndexScan"} -> m
          [] OTHER -> [m EXCEPT !.input = NodeOpen(@)]

\* Materialize and the hash table keep what they read; the inner side of a
\* nested loop is rescanned when the next outer row arrives.
RECURSIVE NodeRescan(_)
NodeRescan(n) ==
    LET m == Restart(n)
    IN  CASE n.kind \in {"NestLoop", "HashJoin"} -> [m EXCEPT !.outer = NodeRescan(@)]
          [] n.kind \in {"Result", "Values", "SeqScan", "IndexScan", "Materialize"} -> m
          [] OTHER -> [m EXCEPT !.input = NodeRescan(@)]

-----------------------------------------------------------------------------
(* The index scan.                                                         *)

\* The larger lower bound, the smaller upper one, exclusive at a tie.
Tightest(bounds, lower) ==
    CHOOSE b \in bounds : \A c \in bounds :
        \/ (IF lower THEN b.key > c.key ELSE b.key < c.key)
        \/ b.key = c.key /\ (~b.incl \/ c.incl)

Within(key, los, his) ==
    /\ los = {} \/ LET lo == Tightest(los, TRUE)
                   IN  key = Null \/ key > lo.key \/ (key = lo.key /\ lo.incl)
    /\ his = {} \/ LET hi == Tightest(his, FALSE)
                   IN  key # Null /\ (key < hi.key \/ (key = hi.key /\ hi.incl))

\* start: the right operands are evaluated on the row the loop stored.
Bounds(n, outer) ==
    [i \in DOMAIN n.quals |-> Eval(n.quals[i].args[2], outer.row.vals, outer.range)]

StartScan(n, outer) ==
    LET right == Bounds(n, outer)
        side(ops) == {[key |-> right[i], incl |-> n.quals[i].op \in {"=", "<=", ">="}, at |-> i] :
                         i \in {j \in DOMAIN n.quals : n.quals[j].op \in ops}}
        los == side({"=", ">", ">="})
        his == side({"=", "<", "<="})
        key(tid) == Deform(Desc[n.entry.rel], TupleAt(n.entry.rel, tid))[n.attr]
        entries == {[tid |-> t, key |-> key(t)] : t \in TidsOf(n.entry.rel)}
        before(e, f) == \/ KeyBefore(e.key, f.key)
                        \/ e.key = f.key /\ TidBefore(e.tid, f.tid)
    IN  [n EXCEPT !.started = TRUE,
                  !.scan = IF Null \in Range(right) THEN <<>>
                           ELSE InOrder({e \in entries : Within(e.key, los, his)}, before)]

-----------------------------------------------------------------------------
(* Next.  Outer is the row the nested loop above stored, with its range.   *)

NoOuter == [range |-> <<>>, row |-> NoRow]

Got(n, row) == [node |-> n, is |-> "row", row |-> row]
End(n)      == [node |-> n, is |-> "end", row |-> NoRow]
Fails(n)    == [node |-> n, is |-> "error", row |-> NoRow]

HeapRow(rel, item) == [vals |-> Deform(Desc[rel], item.tuple), tid |-> item.tid]
Join(o, i)         == [vals |-> o.vals \o i.vals, tid |-> NoTid]
Evaluated(n, exprs, row, range) ==
    LET vals == EvalAll(exprs, row.vals, range)
    IN  IF Err \in Range(vals) THEN Fails(n) ELSE Got(n, [row EXCEPT !.vals = vals])

\* Unequal values may share a hash: here those of the same parity.
HashOf(keys) == FoldLeft(LAMBDA h, k : (h + k) % 2, 0, keys)

Stable(keys) == InOrder(DOMAIN keys,
                    LAMBDA i, j : \/ KeyBefore(keys[i], keys[j])
                                  \/ keys[i] = keys[j] /\ i < j)

RECURSIVE NodeNext(_, _, _), Drain(_, _, _, _)

\* Every row of a node, one after the other.
Drain(n, rows, outer, env) ==
    LET r == NodeNext(n, outer, env)
    IN  IF r.is = "row" THEN Drain(r.node, Append(rows, r.row), outer, env)
        ELSE [node |-> r.node, is |-> r.is, rows |-> rows]

\* A row a qual decides on: passed up, or the next one tried.
Qualified(n, qual, row, outer, env) ==
    LET v == Eval(qual, row.vals, RangeOf(n))
    IN  CASE v = Err -> Fails(n) [] v = True -> Got(n, row)
          [] OTHER -> NodeNext(n, outer, env)

NextSeqScan(n, outer, env) ==
    IF n.buffer # <<>>
    THEN Got([n EXCEPT !.buffer = Tail(@)], HeapRow(n.entry.rel, Head(n.buffer)))
    ELSE IF n.next = n.nblocks THEN End(n)
    ELSE NodeNext([n EXCEPT !.next = @ + 1,
                        !.buffer = BlockItems(n.entry.rel, n.next, env.snap, env.xid)],
              outer, env)

\* An error of a bound stops the statement, the scan not started; with a
\* qual, the first NULL key ends the scan.
NextIndexScan(n, outer, env) ==
    IF ~n.started
    THEN IF Err \in Range(Bounds(n, outer)) THEN Fails(n)
         ELSE NodeNext(StartScan(n, outer), outer, env)
    ELSE IF n.scan = <<>> \/ (n.quals # <<>> /\ Head(n.scan).key = Null) THEN End(n)
    ELSE LET tid  == Head(n.scan).tid
             item == [tid |-> tid, tuple |-> TupleAt(n.entry.rel, tid)]
             rest == [n EXCEPT !.scan = Tail(@)]
         IN  IF Visible(item.tuple, env.snap, env.xid)
             THEN Got(rest, HeapRow(n.entry.rel, item)) ELSE NodeNext(rest, outer, env)

\* Filter, Project and Limit pass the rows of their input one by one.
NextUnary(n, outer, env) ==
    LET r == NodeNext(n.input, outer, env)
        m == [n EXCEPT !.input = r.node]
    IN  IF n.kind = "Limit" /\ n.left = 0 THEN End(n)
        ELSE IF r.is # "row" THEN [r EXCEPT !.node = m]
        ELSE
        CASE n.kind = "Limit"   -> Got([m EXCEPT !.left = IF @ = Null THEN @ ELSE @ - 1], r.row)
          [] n.kind = "Project" -> Evaluated(m, n.targets, r.row, RangeOf(n.input))
          [] n.kind = "Filter"  -> Qualified(m, n.qual, r.row, outer, env)

\* load: the rows, stably sorted by the key each had when it was pulled.
NextSort(n, outer, env) ==
    IF n.sorted
    THEN IF n.rows = <<>> THEN End(n) ELSE Got([n EXCEPT !.rows = Tail(@)], Head(n.rows))
    ELSE LET d     == Drain(n.input, <<>>, outer, env)
             keys  == [i \in DOMAIN d.rows |-> Eval(n.key, d.rows[i].vals, RangeOf(n.input))]
             order == Stable(keys)
             m     == [n EXCEPT !.input = d.node, !.sorted = TRUE,
                                !.rows = [i \in DOMAIN order |-> d.rows[order[i]]]]
         IN  IF d.is = "error" \/ Err \in Range(keys) THEN Fails(m) ELSE NodeNext(m, outer, env)

NextMaterialize(n, outer, env) ==
    IF n.pos < Len(n.rows) THEN Got([n EXCEPT !.pos = @ + 1], n.rows[n.pos + 1])
    ELSE IF n.full THEN End(n)
    ELSE LET r == NodeNext(n.input, outer, env)
             m == [n EXCEPT !.input = r.node]
         IN  IF r.is = "row" THEN NodeNext([m EXCEPT !.rows = Append(@, r.row)], outer, env)
             ELSE [r EXCEPT !.node = [m EXCEPT !.full = (r.is = "end")]]

\* The inner side runs with the loop's outer row, and is rescanned for it.
NextNestLoop(n, outer, env) ==
    IF n.have
    THEN LET r == NodeNext(n.inner, [range |-> RangeOf(n.outer), row |-> n.row], env)
             m == [n EXCEPT !.inner = r.node]
         IN  CASE r.is = "error" -> Fails(m)
               [] r.is = "end"   -> NodeNext([m EXCEPT !.have = FALSE], outer, env)
               [] r.is = "row"   -> Qualified(m, n.qual, Join(n.row, r.row), outer, env)
    ELSE LET r == NodeNext(n.outer, outer, env)
             m == [n EXCEPT !.outer = r.node]
         IN  IF r.is # "row" THEN [r EXCEPT !.node = m]
             ELSE NodeNext([m EXCEPT !.have = TRUE, !.row = r.row, !.inner = NodeRescan(@)], outer, env)

\* A NULL key is neither stored nor probed with; an error of one stops.
HashKeys(n, side, row) ==
    EvalAll([i \in DOMAIN n.hashQuals |-> n.hashQuals[i].args[side]], row.vals,
            RangeOf(IF side = 1 THEN n.outer ELSE n.inner))

NextHashJoin(n, outer, env) ==
    IF ~n.built
    THEN LET d == Drain(n.inner.input, <<>>, outer, env)
             keys(row) == Range(HashKeys(n, 2, row))
             stored(row) == Null \notin keys(row)
             m == [n EXCEPT !.inner.input = d.node, !.built = TRUE,
                            !.table = SelectSeq(d.rows, stored)]
         IN  IF d.is = "error" \/ \E i \in DOMAIN d.rows : Err \in keys(d.rows[i]) THEN Fails(n)
             ELSE NodeNext(m, outer, env)
    ELSE IF n.bucket # <<>>
    THEN Qualified([n EXCEPT !.bucket = Tail(@)], AndOf(n.hashQuals \o <<n.qual>>),
                   Join(n.row, Head(n.bucket)), outer, env)
    ELSE LET r     == NodeNext(n.outer, outer, env)
             probe == HashKeys(n, 1, r.row)
             same(row) == HashOf(HashKeys(n, 2, row)) = HashOf(probe)
             m     == [n EXCEPT !.outer = r.node, !.row = r.row,
                                !.bucket = IF Null \in Range(probe) THEN <<>>
                                           ELSE SelectSeq(n.table, same)]
         IN  IF r.is # "row" THEN [r EXCEPT !.node = [n EXCEPT !.outer = r.node]]
             ELSE IF Err \in Range(probe) THEN Fails(m) ELSE NodeNext(m, outer, env)

NodeNext(n, outer, env) ==
    CASE n.kind = "Result" ->
            IF n.done THEN End(n) ELSE Got([n EXCEPT !.done = TRUE], NoRow)
      [] n.kind = "Values" ->
            IF n.pos = Len(n.lists) THEN End(n)
            ELSE Evaluated([n EXCEPT !.pos = @ + 1], n.lists[n.pos + 1], NoRow, <<>>)
      [] n.kind = "SeqScan"     -> NextSeqScan(n, outer, env)
      [] n.kind = "IndexScan"   -> NextIndexScan(n, outer, env)
      [] n.kind = "Sort"        -> NextSort(n, outer, env)
      [] n.kind = "Materialize" -> NextMaterialize(n, outer, env)
      [] n.kind = "NestLoop"    -> NextNestLoop(n, outer, env)
      [] n.kind = "HashJoin"    -> NextHashJoin(n, outer, env)
      [] OTHER                  -> NextUnary(n, outer, env)
=============================================================================

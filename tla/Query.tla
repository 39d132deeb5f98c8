-------------------------------- MODULE Query --------------------------------
(***************************************************************************)
(* A statement from its plan to the pages and back: one session runs       *)
(* statements of a fixed list, each its own transaction under any plan the *)
(* planner may choose, while another inserts single rows into the same     *)
(* relations, and the process may crash.  The tables are, beside all this, *)
(* what the committed statements say they are: "rows" of each relation.    *)
(***************************************************************************)
EXTENDS Planner

CONSTANTS
    Statements,     \* the statements the session may run
    Foreign,        \* <<relation, row>>: what the other session inserts
    MaxStatements,  \* bounds: statements, of which only the last a SELECT,
    MaxForeign,     \* inserts of the other session, crashes, and rescans of
    MaxCrashes,     \* a root; all of them together
    MaxRescans,
    MaxWork

Own   == "own"
Other == "other"

ASSUME QueryAssumption ==
    /\ Sessions = {Own, Other}
    /\ {MaxStatements, MaxForeign, MaxCrashes, MaxRescans, MaxWork} \subseteq Nat

VARIABLES
    query,      \* the statement being run, "pc" what it is doing
    root,       \* its executor tree, without the ModifyTable
    got,        \* the rows the tree has produced
    written,    \* how many of them ModifyTable has written
    snap,       \* the transactions its snapshot sees as committed
    xid,        \* the transaction of each session, 0 if none
    committed,  \* the committed transactions
    rows,       \* history: the rows of each relation, as committed
    seen,       \* history: how many of them the statement is to see
    used        \* work done, for the bounds

qvars == <<query, root, got, written, snap, xid, committed, rows, seen, used>>
vars  == <<heapVars, qvars>>

NoQuery == [pc |-> "idle", q |-> [op |-> "none"]]

Init ==
    /\ HeapInit
    /\ query = NoQuery /\ root = ResultNode /\ got = <<>> /\ written = 0 /\ snap = {}
    /\ xid = [s \in Sessions |-> 0]
    /\ committed = {FrozenXID}
    /\ rows = InitRows
    /\ seen = [r \in Rels |-> 0]
    /\ used = [statements |-> 0, foreign |-> 0, crashes |-> 0, rescans |-> 0,
               answered |-> FALSE]

Work      == 2 * used.statements + used.foreign + used.crashes + used.rescans
env       == [snap |-> snap, xid |-> xid[Own]]
NextXid   == 3 + Work
Spend(what) == used' = [used EXCEPT ![what] = @ + 1]

-----------------------------------------------------------------------------
(* The statement.  Exec: Open, every Next, Close.                          *)

PlansFor == [q \in Statements |-> Plans(q)]

Begin ==
    /\ query.pc = "idle" /\ used.statements < MaxStatements /\ ~used.answered /\ Work + 2 <= MaxWork
    /\ \E q \in Statements : \E p \in PlansFor[q] :
          /\ query' = [pc |-> IF OpenFails(p) THEN "failed" ELSE "pull", q |-> q]
          /\ root' = IF OpenFails(p) THEN p ELSE NodeOpen(p)
          /\ used' = [used EXCEPT !.statements = @ + 1, !.answered = (q.op = "select")]
    /\ snap' = committed /\ xid' = [xid EXCEPT ![Own] = NextXid]
    /\ seen' = [r \in Rels |-> Len(rows[r])]
    /\ got' = <<>> /\ written' = 0
    /\ UNCHANGED <<heapVars, committed, rows>>

\* ModifyTable pulls every row of its input before it writes the first.
Pull ==
    /\ query.pc = "pull"
    /\ LET r == NodeNext(root, NoOuter, env) IN
       /\ root' = r.node
       /\ got' = IF r.is = "row" THEN Append(got, r.row) ELSE got
       /\ query' = [query EXCEPT !.pc =
                      CASE r.is = "row" -> "pull" [] r.is = "error" -> "failed"
                        [] OTHER -> IF query.q.op = "select" THEN "done" ELSE "write"]
    /\ UNCHANGED <<heapVars, written, snap, xid, committed, rows, seen, used>>

\* Any open node may be restarted, drained or not.
RescanRoot ==
    /\ query.pc \in {"pull", "done"} /\ query.q.op = "select" /\ used.rescans < MaxRescans
    /\ Work < MaxWork
    /\ root' = NodeRescan(root)
    /\ got' = <<>>
    /\ query' = [query EXCEPT !.pc = "pull"]
    /\ Spend("rescans")
    /\ UNCHANGED <<heapVars, written, snap, xid, committed, rows, seen>>

-----------------------------------------------------------------------------
(* ModifyTable.write.                                                      *)

Rel == query.q.from[1]

\* The old row with the assigned columns replaced.
Assigned(q, vals) ==
    [a \in DOMAIN vals |->
        IF a \in DOMAIN q.set THEN Eval(q.set[a], vals, <<Entry(q.from[1], 1)>>) ELSE vals[a]]

NewRow(q, vals) == IF q.op = "update" THEN Assigned(q, vals) ELSE vals
RowFails(rel, vals) == Err \in Range(vals) \/ \E a \in NotNull[rel] : vals[a] = Null

\* The next row, its new version if it has one.
Write ==
    /\ query.pc = "write" /\ written < Len(got)
    /\ LET row  == got[written + 1]
           vals == NewRow(query.q, row.vals)
       IN  IF query.q.op = "delete"
           THEN /\ MarkDeleted(Rel, row.tid, xid[Own], NoTid)
                /\ written' = written + 1
                /\ UNCHANGED <<insert, query>>
           ELSE IF RowFails(Rel, vals)
           THEN /\ query' = [query EXCEPT !.pc = "failed"]
                /\ UNCHANGED <<heapVars, written>>
           ELSE /\ StartInsert(Own, Rel, vals, xid[Own])
                /\ query' = [query EXCEPT !.pc = "insert"]
                /\ UNCHANGED <<files, disk, target, handed, written>>
    /\ UNCHANGED <<root, got, snap, xid, committed, rows, seen, used>>

Insert(s) == InsertStep(s) /\ UNCHANGED qvars

\* Slip: the old version is marked before the new one is in.
InsertedAtOnce ==
    /\ query.pc = "insert" /\ insert[Own].pc # "idle"
    /\ insert' = [insert EXCEPT ![Own] = NoInsert]
    /\ IF insert[Own].pc = "failed"
       THEN /\ query' = [query EXCEPT !.pc = "failed"]
            /\ UNCHANGED <<files, disk, target, handed, written>>
       ELSE /\ query' = [query EXCEPT !.pc = "write"]
            /\ written' = written + 1
            /\ IF query.q.op = "insert" THEN UNCHANGED <<files, disk, target, handed>>
               ELSE MarkDeleted(Rel, got[written + 1].tid, xid[Own], insert[Own].tid)
    /\ UNCHANGED <<root, got, snap, xid, committed, rows, seen, used>>

\* The new version is in: the old one gets its xmax and ctid.
Inserted ==
    /\ query.pc = "insert" /\ insert[Own].pc \in {"done", "failed"}
    /\ insert' = [insert EXCEPT ![Own] = NoInsert]
    /\ IF insert[Own].pc = "failed"
       THEN /\ query' = [query EXCEPT !.pc = "failed"]
            /\ UNCHANGED <<files, disk, target, handed, written>>
       ELSE /\ query' = [query EXCEPT !.pc = "write"]
            /\ written' = written + 1
            /\ IF query.q.op = "insert" THEN UNCHANGED <<files, disk, target, handed>>
               ELSE MarkDeleted(Rel, got[written + 1].tid, xid[Own], insert[Own].tid)
    /\ UNCHANGED <<root, got, snap, xid, committed, rows, seen, used>>

Complete == query.pc = "done" \/ (query.pc = "write" /\ written = Len(got))

-----------------------------------------------------------------------------
(* What the statement means.                                               *)

\* The tables as the statement is to see them.
Table(rel) == SubSeq(rows[rel], 1, seen[rel])

FullRange(q) == [i \in DOMAIN q.from |-> Entry(q.from[i], i)]
Passes(q, vals) == Eval(AndOf(q.where), vals, FullRange(q)) = True

\* The columns of one row of every relation of FROM, in FROM order.
Product(q, f) == FoldLeft(LAMBDA vals, i : vals \o Table(q.from[i])[f[i]],
                          <<>>, [i \in DOMAIN q.from |-> i])

\* A bag of values is a set of pairs with the values second.
Pairs(f) == {<<x, f[x]>> : x \in DOMAIN f}
Times(bag, v) == Cardinality({p \in bag : p[2] = v})
WithinBag(B, C) == \A p \in B : Times(B, p[2]) <= Times(C, p[2])
SameBag(B, C) == WithinBag(B, C) /\ WithinBag(C, B)

\* One row of every relation, by number.
Combinations(q) == {f \in [DOMAIN q.from -> UNION {1 .. seen[r] : r \in Rels}] :
                  \A i \in DOMAIN f : f[i] <= seen[q.from[i]]}

\* A conjunct that cannot be evaluated, and none that rejects the row.
Breaks(q, vals) ==
    LET says == Range(EvalAll(q.where, vals, FullRange(q)))
    IN  Err \in says /\ says \subseteq {Err, True}

Answer(q) ==
    LET all == {<<f, Product(q, f)>> : f \in Combinations(q)}
    IN  {<<p[1], EvalAll(q.targets, p[2], FullRange(q))>> : p \in {p \in all : Passes(q, p[2])}}

\* The rows of the relation once the statement is through.
After(q) ==
    CASE q.op = "insert" -> Table(q.from[1]) \o [i \in DOMAIN q.lists |-> EvalAll(q.lists[i], <<>>, <<>>)]
      [] q.op = "delete" -> SelectSeq(Table(q.from[1]), LAMBDA vals : ~Passes(q, vals))
      [] q.op = "update" -> [i \in 1 .. seen[q.from[1]] |->
            LET vals == Table(q.from[1])[i] IN IF Passes(q, vals) THEN Assigned(q, vals) ELSE vals]

-----------------------------------------------------------------------------
(* The end of a transaction, the other session, a crash.                   *)

Over == /\ query' = NoQuery /\ root' = ResultNode /\ got' = <<>> /\ written' = 0
        /\ snap' = {} /\ seen' = [r \in Rels |-> 0]

Commit ==
    /\ Complete
    /\ FlushAll
    /\ committed' = committed \cup {xid[Own]}
    /\ rows' = IF query.q.op = "select" THEN rows
               ELSE [rows EXCEPT ![Rel] = After(query.q) \o SubSeq(@, seen[Rel] + 1, Len(@))]
    /\ Over /\ xid' = [xid EXCEPT ![Own] = 0]
    /\ UNCHANGED <<files, target, insert, handed, used>>

\* The statement failed: its transaction aborts and nothing is undone.
Abort ==
    /\ query.pc = "failed"
    /\ Over /\ xid' = [xid EXCEPT ![Own] = 0]
    /\ UNCHANGED <<heapVars, committed, rows, used>>

ForeignBegin ==
    /\ xid[Other] = 0 /\ used.foreign < MaxForeign /\ Work < MaxWork
    /\ \E w \in Foreign : StartInsert(Other, w[1], w[2], NextXid)
    /\ xid' = [xid EXCEPT ![Other] = NextXid]
    /\ Spend("foreign")
    /\ UNCHANGED <<files, disk, target, handed, query, root, got, written, snap,
                   committed, rows, seen>>

ForeignEnd ==
    /\ insert[Other].pc \in {"done", "failed"}
    /\ insert' = [insert EXCEPT ![Other] = NoInsert]
    /\ xid' = [xid EXCEPT ![Other] = 0]
    /\ IF insert[Other].pc = "failed" THEN UNCHANGED <<disk, committed, rows>>
       ELSE LET rel == insert[Other].rel
            IN  /\ FlushAll
                /\ committed' = committed \cup {xid[Other]}
                /\ rows' = [rows EXCEPT ![rel] = Append(@, handed[rel][insert[Other].tid])]
    /\ UNCHANGED <<files, target, handed, query, root, got, written, snap, seen, used>>

Crash ==
    /\ used.crashes < MaxCrashes /\ Work < MaxWork
    /\ HeapCrash
    /\ Over /\ xid' = [s \in Sessions |-> 0]
    /\ Spend("crashes")
    /\ UNCHANGED <<committed, rows>>

-----------------------------------------------------------------------------
Next == \/ Begin \/ Pull \/ RescanRoot \/ Write \/ Inserted \/ Commit \/ Abort
        \/ ForeignBegin \/ ForeignEnd \/ Crash
        \/ \E s \in Sessions : Insert(s)

Spec == Init /\ [][Next]_vars

-----------------------------------------------------------------------------
(* Properties.                                                             *)

\* The committed contents of every relation, read through pages, line
\* pointers, tuple headers and deforming, are the rows the committed
\* statements leave, each as many times: no statement is applied twice to a
\* row (the Halloween problem), none in part, whatever ran beside it, and a
\* crash loses nothing committed and brings back nothing else.
EffectIsExact ==
    \A r \in Rels :
        SameBag({<<i, Deform(Desc[r], TupleAt(r, i))>> :
                    i \in {t \in TidsOf(r) : Visible(TupleAt(r, t), committed, 0)}},
                Pairs(rows[r]))

\* What a SELECT returns is what its text means on the tables of its
\* snapshot, whichever plan runs it and whether or not its tree was
\* rescanned: every row as many times, in the order asked for, and under a
\* LIMIT the first ones.  It returns nothing if an expression of WHERE fails
\* on a row the others let through, wherever the plan evaluates it.
ResultIsExact ==
    query.pc = "done" =>
        LET q      == query.q
            answer == Answer(q)
            out    == {<<i, got[i].vals>> : i \in DOMAIN got}
            count  == IF q.limit = <<>> THEN Null ELSE Eval(q.limit[1], <<>>, <<>>)
            key(p) == p[2][CHOOSE k \in DOMAIN q.targets : q.targets[k] = q.order[1]]
            rest   == {p \in answer : Times(out, p[2]) < Times(answer, p[2])}
        IN  /\ q.limit = <<>> => \A f \in Combinations(q) : ~Breaks(q, Product(q, f))
            /\ WithinBag(out, answer)
            /\ Cardinality(out) = IF count = Null THEN Cardinality(answer)
                                  ELSE Min({count, Cardinality(answer)})
            /\ q.order # <<>> =>
                  \A p \in out : /\ \A r \in out : p[1] < r[1] => ~KeyBefore(key(r), key(p))
                                 /\ \A r \in rest : ~KeyBefore(key(r), key(p))

\* Whatever statements run under whatever plan, all they do to the heap are
\* the steps of HeapFile: the Inserts of a session come one after the other,
\* an old version is marked only where there is one, with the TID of a new
\* version that is in, and nothing else touches a page.
ImplementsHeap == HeapSpec
=============================================================================

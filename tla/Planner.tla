------------------------------ MODULE Planner ------------------------------
(***************************************************************************)
(* internal/planner: every plan the search can end with.  A path is a way  *)
(* to produce the rows of a set of relations; which path is kept and wins  *)
(* is a question of estimated cost, so the model lets any of them win.  A  *)
(* query names the FROM list (relation i has Index i), the conjuncts of    *)
(* WHERE and ON, the targets, and, as sequences of at most one expression, *)
(* the ORDER BY key and the LIMIT.                                         *)
(***************************************************************************)
EXTENDS Executor

RECURSIVE RelsOf(_)
RelsOf(e) == CASE e.op = "var" -> {e.rel} [] e.op = "const" -> {}
               [] OTHER -> UNION {RelsOf(e.args[i]) : i \in DOMAIN e.args}

Mirrored == [op \in Comparisons |->
               CASE op = "<" -> ">" [] op = "<=" -> ">=" [] op = ">" -> "<"
                 [] op = ">=" -> "<=" [] OTHER -> op]

\* The comparison with its left side on the right.
Turned(e) == Op(Mirrored[e.op], e.args[2], e.args[1])

\* indexQual: a comparison of the column alone with an expression without
\* columns of its relation; here its forms with the column on the left.
IndexForms(e, column) ==
    IF e.op \notin Comparisons \ {"<>"} THEN {}
    ELSE {f \in {e, Turned(e)} : f.args[1] = column /\ column.rel \notin RelsOf(f.args[2])}

Pick1(S) == CHOOSE x \in S : TRUE

Path(node, ordered, params, enforced) ==
    [node |-> node, ordered |-> ordered, params |-> params, enforced |-> enforced]

\* The conjuncts with the given numbers.
Quals(q, set) == LET nth == InOrder(set, <) IN [i \in DOMAIN nth |-> q.where[nth[i]]]

Filtered(node, quals) == IF quals = <<>> THEN node ELSE FilterNode(node, AndOf(quals))

\* The conjuncts over relation i alone; those without columns go to the
\* first relation.
Restrictions(q, i) == {c \in DOMAIN q.where : RelsOf(q.where[c]) = {i}
                                             \/ (RelsOf(q.where[c]) = {} /\ i = 1)}

\* Slip: an index scan is taken for a conjunct without being given it.
ScanPathForgets(q, i, attr, given, all) ==
    LET entry == Entry(q.from[i], i)
        col   == Var(i, attr)
        conds == [k \in DOMAIN Quals(q, given) |-> Pick1(IndexForms(Quals(q, given)[k], col))]
    IN  Filtered(IndexScanNode(entry, attr, [k \in DOMAIN conds \cap {1} |-> conds[k]]), Quals(q, all \ given))

\* An index scan given some conjuncts, under a filter with the rest.
ScanPath(q, i, attr, given, all) ==
    LET entry == Entry(q.from[i], i)
        col   == Var(i, attr)
        conds == [k \in DOMAIN Quals(q, given) |-> Pick1(IndexForms(Quals(q, given)[k], col))]
    IN  Filtered(IndexScanNode(entry, attr, conds), Quals(q, all \ given))

\* The sequential scan; per index the scan that takes every conjunct it can
\* or gives the order, and one more per join qual it can take.
BasePaths(q, i) ==
    LET own == Restrictions(q, i)
        usable(attr) == {c \in own : IndexForms(q.where[c], Var(i, attr)) # {}}
        joins(attr) == {c \in DOMAIN q.where \ own : IndexForms(q.where[c], Var(i, attr)) # {}}
        sorts(attr) == q.order = <<Var(i, attr)>>
    IN  {Path(Filtered(SeqScanNode(Entry(q.from[i], i)), Quals(q, own)),
              q.order = <<>>, {}, {})}
        \cup {Path(ScanPath(q, i, attr, usable(attr), own), sorts(attr) \/ q.order = <<>>, {}, {}) :
                 attr \in {a \in Indexed[q.from[i]] : usable(a) # {} \/ sorts(a)}}
        \cup UNION {{Path(ScanPath(q, i, attr, usable(attr) \cup {c}, own \cup {c}),
                          FALSE, RelsOf(q.where[c]) \ {i}, {c}) : c \in joins(attr)} :
                       attr \in Indexed[q.from[i]]}

\* The conjuncts first decided where L meets R.
JoinQuals(q, L, R) == {c \in DOMAIN q.where : /\ RelsOf(q.where[c]) \subseteq L \cup R
                                             /\ ~(RelsOf(q.where[c]) \subseteq L)
                                             /\ ~(RelsOf(q.where[c]) \subseteq R)}

\* splitHashQuals: an equality between the sides, the outer one on the left.
HashForms(e, L, R) ==
    IF e.op # "=" THEN {}
    ELSE {f \in {e, Turned(e)} : RelsOf(f.args[1]) \subseteq L /\ RelsOf(f.args[2]) \subseteq R}

JoinOf(q, L, R, o, i) ==
    LET quals  == JoinQuals(q, L, R)
        hashed == {c \in quals : HashForms(q.where[c], L, R) # {}}
        hashQuals == [k \in DOMAIN Quals(q, hashed) |-> Pick1(HashForms(Quals(q, hashed)[k], L, R))]
        loop(inner) == Path(NestLoopNode(o.node, inner, AndOf(Quals(q, quals \ i.enforced))),
                            o.ordered, {}, {})
    IN  IF i.params # {} THEN {loop(i.node)}
        ELSE {loop(MaterializeNode(i.node))}
             \cup IF hashed = {} THEN {}
                  ELSE {Path(HashJoinNode(o.node, HashNode(i.node), hashQuals,
                                          AndOf(Quals(q, quals \ hashed))),
                             q.order = <<>>, {}, {})}

RECURSIVE PathsOf(_, _)
PathsOf(q, set) ==
    IF Cardinality(set) = 1 THEN BasePaths(q, Pick1(set))
    ELSE UNION {UNION {JoinOf(q, L, set \ L, o, i) :
                          o \in {p \in PathsOf(q, L) : p.params = {}},
                          i \in {p \in PathsOf(q, set \ L) : p.params \subseteq L}} :
                   L \in SUBSET set \ {{}, set}}

-----------------------------------------------------------------------------
Finished(q, path) ==
    LET sorted    == IF path.ordered THEN path.node ELSE SortNode(path.node, q.order[1])
        projected == ProjectNode(sorted, q.targets)
    IN  IF q.limit = <<>> THEN projected ELSE LimitNode(projected, q.limit[1])

\* The plans of a statement; of a ModifyTable, its input.
Plans(q) ==
    CASE q.op = "insert" -> {ValuesNode(q.lists)}
      [] q.op \in {"update", "delete"} -> {p.node : p \in {b \in BasePaths(q, 1) : b.params = {}}}
      [] q.op = "select" /\ q.from = <<>> ->
            {Finished(q, Path(Filtered(ResultNode, q.where), q.order = <<>>, {}, {}))}
      [] q.op = "select" /\ q.from # <<>> ->
            {Finished(q, p) : p \in {f \in PathsOf(q, DOMAIN q.from) : f.params = {}}}
=============================================================================

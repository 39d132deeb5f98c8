------------------------------- MODULE MCQuery -------------------------------
\* Two relations on pages of 112 bytes: two small rows, or one with a long
\* text, fill a page.  t.a is NOT NULL; u.a is not, and has a value that
\* shares a hash with one of t.a.  An update or an insert takes t.a + t.a out
\* of range, a hash key of one plan and the bound of another's scan.
EXTENDS Query

MCRels    == {"t", "u"}
MCDesc    == [t |-> <<"Int4", "Text">>, u |-> <<"Bool", "Int4", "Bool">>]
MCIndexed == [t |-> {1}, u |-> {2}]
MCNotNull == [t |-> {1}, u |-> {}]
MCInit    == [t |-> <<<<1, 1>>, <<2, 48>>, <<2, Null>>>>,
              u |-> <<<<1, 2, 0>>, <<0, Null, 1>>, <<1, 4, 1>>>>]
MCRows    == [t |-> (0 .. 4) \X {Null, 1, 48, 49}, u |-> {MCInit["u"][i] : i \in 1 .. 3}]
MCXids    == 2 .. 7
MCForeign == {<<"t", <<1, 48>>>>, <<"t", <<1, 49>>>>}

Select(from, where, targets, order, limit) ==
    [op |-> "select", from |-> from, where |-> where, targets |-> targets,
     order |-> order, limit |-> limit]
Modify(op, where, set, lists) ==
    [op |-> op, from |-> <<"t">>, where |-> where, set |-> set, lists |-> lists,
     order |-> <<>>, limit |-> <<>>]

T(attr) == Var(1, attr)
U(attr) == Var(2, attr)

MCStatements ==
    { Select(<<"t">>, <<Op("<", Const(0), T(1)), Op(">", T(1), Const(1))>>, <<T(1), T(2)>>,
             <<T(1)>>, <<Const(2)>>),
      Select(<<"u">>, <<>>, <<T(2)>>, <<>>, <<Const(-4)>>),
      Select(<<"t", "u">>, <<Op("=", U(2), Op("+", T(1), T(1)))>>, <<T(1), U(1)>>, <<T(1)>>, <<>>),
      Select(<<"t", "u", "t">>, <<Op("=", T(1), U(2)), Op(">", T(1), Var(3, 1)), Op("=", U(3), Const(0))>>,
             <<T(2), Var(3, 2)>>, <<>>, <<>>),
      Select(<<>>, <<>>, <<Const(1)>>, <<>>, <<Const(Null)>>),
      Modify("insert", <<>>, <<>>, <<<<Const(4), Const(1)>>, <<Const(2), Const(Null)>>>>),
      Modify("insert", <<>>, <<>>, <<<<Const(4), Const(1)>>, <<Const(Null), Const(1)>>>>),
      Modify("update", <<Op(">=", T(1), Const(1))>>, <<Op("+", T(1), Const(1))>>, <<>>),
      Modify("delete", <<IsNullOf(T(2))>>, <<>>, <<>>) }
=============================================================================

---------------------------- MODULE SampleTexts ----------------------------
(***************************************************************************)
(* Stored queries to print, and the property of their texts: what the      *)
(* parser makes of the text is what was stored.  A step prints the query,  *)
(* as pg_get_viewdef() does, with or without prettyPrint, and with the     *)
(* names of the columns of the view, if it has any.                        *)
(***************************************************************************)
EXTENDS QueryReader

VARIABLES view, text    \* a stored query; the names of the view's columns and its text

-----------------------------------------------------------------------------
(* Nodes.                                                                  *)
V(rel, col) == [k |-> "Var", up |-> 0, rel |-> rel, col |-> col]
Up(n, rel, col) == [V(rel, col) EXCEPT !.up = n]
K(v, type) == [k |-> "Const", v |-> v, neg |-> FALSE, type |-> type, coll |-> ""]
Neg(k) == [k EXCEPT !.neg = TRUE]
O(op, l, r) == [k |-> "Op", op |-> op, args |-> <<l, r>>]
Minus(e) == [k |-> "Op", op |-> "-", args |-> <<e>>]
F(f, args) == [k |-> "Func", f |-> f, form |-> "call", args |-> args, type |-> "integer", typmod |-> -1, variadic |-> FALSE]
As(e, type, typmod) == [F(type, <<e>>) EXCEPT !.form = "explicit", !.type = type, !.typmod = typmod]
Implicit(e, type) == [As(e, type, -1) EXCEPT !.form = "implicit"]
Dom(e, type, form) == [k |-> "domain", form |-> form, arg |-> e, type |-> type, typmod |-> -1]
R(args) == [k |-> "Row", args |-> args]
T(e, name) == [e |-> e, name |-> name, junk |-> FALSE]
Junk(e) == [T(e, "") EXCEPT !.junk = TRUE]
A(f, args) == [k |-> "Agg", f |-> f, args |-> [i \in DOMAIN args |-> T(args[i], "")], star |-> args = << >>,
               variadic |-> FALSE, distinct |-> FALSE, order |-> << >>, filter |-> << >>, direct |-> << >>]
W(f, args, winref) == [k |-> "Win", f |-> f, args |-> args, star |-> args = << >>, filter |-> << >>, winref |-> winref]
S(kind, test, op, q) == [k |-> "Sub", kind |-> kind, test |-> test, op |-> op, row |-> Len(test) > 1, q |-> q]
Asc(ref) == [ref |-> ref, op |-> "<", nullsfirst |-> FALSE]
Desc(ref) == [ref |-> ref, op |-> ">", nullsfirst |-> TRUE]

I == K("1", "integer")
Two == K("2", "integer")

Item(kind, name, alias) ==
  [kind |-> kind, name |-> name, alias |-> alias, cols |-> << >>, coldefs |-> << >>, sample |-> << >>,
   lists |-> << >>, call |-> << >>, q |-> << >>, names |-> << >>, infrom |-> TRUE]
Table(name) == Item("table", name, name)
Sub(q, alias) == [Item("sub", "", alias) EXCEPT !.q = <<q>>]
Values(lists, names, alias) == [Item("values", "", alias) EXCEPT !.lists = lists, !.names = names]
Function(call, alias) == [Item("func", "", alias) EXCEPT !.call = <<call>>]

Q(tlist, from) ==
  [command |-> "SELECT", tlist |-> tlist, from |-> from, distinct |-> "no", distincton |-> << >>,
   where |-> << >>, group |-> << >>, sets |-> << >>, groupdistinct |-> FALSE, having |-> << >>,
   windows |-> << >>, setop |-> << >>, sort |-> << >>, limit |-> << >>, offset |-> << >>, ties |-> FALSE,
   marks |-> << >>, ctes |-> << >>, recursive |-> FALSE]
Update(tlist, from) == [Q(tlist, from) EXCEPT !.command = "UPDATE", !.from[1].infrom = FALSE]
Cte(name, q) == [name |-> name, cols |-> << >>, materialized |-> "", q |-> q, search |-> << >>, cycle |-> << >>]
Mark(rel, strength, wait) == [rel |-> rel, strength |-> strength, wait |-> wait, pushed |-> FALSE]
Win(name, ref, part, order, frame) ==
  [name |-> name, ref |-> ref, part |-> part, order |-> order, frame |-> frame, copied |-> FALSE]
Bound(kind, e, dir) == [kind |-> kind, e |-> e, dir |-> dir]

FromT == <<Table("t")>>
TU == <<Table("t"), Table("u")>>
OneA == Q(<<T(V(1, "a"), "a")>>, FromT)
OneC == Q(<<T(V(1, "c"), "c")>>, <<Table("u")>>)

-----------------------------------------------------------------------------
(* Expressions, casts and constants.                                       *)
Arithmetic == Q(<<
  T(O("-", O("-", V(1, "a"), V(1, "b")), I), "x"), T(O("-", V(1, "a"), O("-", V(1, "b"), I)), "y"),
  T(O("*", O("+", V(1, "a"), V(1, "b")), Minus(V(1, "a"))), "z"),
  T(O("+", O("*", V(1, "a"), Two), O("-", V(1, "b"), Neg(I))), "?column?"),
  T(F("f", <<O("||", V(1, "a"), O("||", V(1, "b"), K("x", "text"))), Minus(Neg(Two))>>), "f"),
  T(O("=", O("=", V(1, "a"), V(1, "b")), K("true", "boolean")), "order")>>, FromT)

Constants == [Q(<<
  T(K("NULL", "integer"), "n"), T(K("x", "unknown"), "x"), T([K("x", "text") EXCEPT !.coll = "C"], "y"),
  T(K("1.5", "numeric"), "d"), T(K("2", "numeric"), "i"), T(Neg(K("1.5", "numeric")), "m"), T(Neg(I), "k")>>, FromT)
  EXCEPT !.where = <<K("true", "boolean")>>]

Casts == Q(<<
  T(As(O("+", V(1, "a"), I), "numeric", 3), "x"), T(As(K("2", "numeric"), "numeric", 3), "y"),
  T(O("=", As(V(1, "a"), "text", -1), Implicit(V(1, "b"), "text")), "z"),
  T(Minus(As(Minus(V(1, "a")), "bigint", -1)), "m"), T(As(Neg(I), "text", -1), "i"),
  T(Dom(O("+", V(1, "a"), I), "char", "explicit"), "d"),
  T([F("f", <<V(1, "a"), V(1, "b")>>) EXCEPT !.variadic = TRUE], "v")>>, FromT)

Rows == Q(<<T(V(1, "*"), "t"), T(R(<<V(1, "*"), V(2, "c")>>), "row"), T(F("f", <<V(2, "*")>>), "f"),
            T(V(1, "*"), "order")>>, TU)

Quoted == [Q(<<T(V(1, "Mixed"), "Mixed"), T(V(2, "a"), "order")>>, <<Item("table", "order", "v"), Item("table", "t", "T")>>)
  EXCEPT !.where = <<O("=", V(1, "Mixed"), V(2, "a"))>>]

(* Aggregates, groups and windows.                                         *)
Groups == [Q(<<T(V(1, "a"), "a"), T(F("cube", <<V(1, "b")>>), "cube"), T(A("count", << >>), "count"),
               T([A("sum", <<V(1, "a")>>) EXCEPT !.distinct = TRUE, !.order = <<Desc(1)>>,
                                                 !.filter = <<O("=", V(1, "b"), I)>>], "s"),
               Junk(I), Junk(O("+", V(1, "a"), V(1, "b")))>>, FromT)
  EXCEPT !.group = <<1, 2, 5, 6>>, !.groupdistinct = TRUE, !.having = <<O("=", A("count", << >>), I)>>,
         !.sort = <<Asc(6), [Desc(5) EXCEPT !.nullsfirst = FALSE], [Asc(1) EXCEPT !.op = "~~"], [Asc(2) EXCEPT !.nullsfirst = TRUE]>>]

G(kind, content) == [kind |-> kind, content |-> content]
GroupingSets == [Q(<<T(V(1, "a"), "a"), T(V(1, "b"), "b"), T(A("count", << >>), "count"),
                     T([A("mode", <<V(1, "b")>>) EXCEPT !.direct = <<I>>, !.order = <<Asc(1)>>], "m")>>, FromT)
  EXCEPT !.group = <<1, 2>>,
         !.sets = <<G("GROUPING SETS", <<G("SIMPLE", <<1>>), G("SIMPLE", <<1, 2>>), G("EMPTY", << >>),
                                         G("ROLLUP", <<G("SIMPLE", <<1>>), G("SIMPLE", <<2, 1>>)>>)>>), G("SIMPLE", <<2>>)>>]

Frame1 == <<[mode |-> "ROWS", start |-> Bound("offset", <<O("+", I, V(1, "a"))>>, "PRECEDING"),
             end |-> <<Bound("unbounded", << >>, "")>>, exclude |-> "TIES"]>>
Frame2 == <<[mode |-> "RANGE", start |-> Bound("current", << >>, ""), end |-> << >>, exclude |-> ""]>>
Windows == [Q(<<T(W("sum", <<V(1, "a")>>, 1), "s"), T(W("count", << >>, 2), "c"), T(W("sum", <<V(1, "b")>>, 3), "d"),
                T(W("sum", <<V(1, "b")>>, 4), "x"), Junk(V(1, "b")), Junk(O("+", V(1, "a"), I))>>, FromT)
  EXCEPT !.windows = <<Win("w", "", <<5>>, << >>, << >>), Win("order", "w", <<5>>, <<Asc(6)>>, Frame1),
                       [Win("", "w", <<5>>, <<Desc(6)>>, Frame2) EXCEPT !.copied = FALSE],
                       Win("", "", <<6>>, <<Asc(5)>>, << >>)>>]

(* Sets of rows.                                                           *)
Leaf(i) == [k |-> "leaf", i |-> i]
Both(op, l, r) == [k |-> "setop", op |-> op, all |-> FALSE, l |-> l, r |-> r]
All(s) == [s EXCEPT !.all = TRUE]
Limited == [OneC EXCEPT !.limit = <<I>>, !.sort = <<Asc(1)>>]
Subs == <<Sub(OneA, "*SELECT* 1"), Sub(OneC, "*SELECT* 2"), Sub(Limited, "*SELECT* 3")>>
Union(s) == [Q(<<T(V(1, "a"), "a")>>, Subs) EXCEPT !.setop = <<s>>]
Unions == {
  Union(Both("UNION", Both("UNION", Leaf(1), Leaf(2)), Leaf(3))),
  Union(Both("UNION", Leaf(1), Both("UNION", Leaf(2), Leaf(3)))),
  Union(Both("INTERSECT", Both("UNION", Leaf(1), Leaf(2)), Leaf(3))),
  Union(Both("UNION", Both("INTERSECT", Leaf(3), Leaf(2)), Leaf(1))),
  [Union(Both("UNION", All(Both("UNION", Leaf(1), Leaf(2))), Leaf(3))) EXCEPT !.sort = <<Desc(1)>>, !.limit = <<Two>>],
  [Union(All(Both("EXCEPT", Leaf(1), Both("EXCEPT", Leaf(2), Leaf(3))))) EXCEPT !.offset = <<I>>]}

TwoRows == <<<<I, K("x", "text")>>, <<Two, K("y", "text")>>>>
ValuesView == Q(<<T(V(1, "column1"), "column1"), T(V(1, "column2"), "column2")>>,
                <<Values(TwoRows, <<"column1", "column2">>, "*VALUES*")>>)

(* FROM, WITH and what stands behind the query.                            *)
FromAll == Q(<<T(V(1, "x"), "x"), T(V(2, "y"), "y"), T(V(3, "a"), "a"), T(V(4, "v"), "v"), T(V(5, "c"), "c")>>,
  <<[Sub(ValuesView, "s1") EXCEPT !.cols = <<"x", "order">>],
    [Function(F("f", <<I>>), "g") EXCEPT !.coldefs = <<[name |-> "y", type |-> "integer", coll |-> ""],
                                                       [name |-> "z", type |-> "text", coll |-> "C"]>>],
    [Table("t") EXCEPT !.sample = <<[method |-> "system", args |-> <<O("+", I, Two)>>, repeatable |-> <<Two>>]>>],
    [Function(As(I, "bigint", -1), "h") EXCEPT !.cols = <<"v">>],
    Sub(Limited, "s2")>>)

Shadowed == [Q(<<T(V(1, "a"), "a"), T(V(2, "a"), "x")>>, <<Item("cte", "t", "t"), Item("table", "t", "v")>>)
  EXCEPT !.ctes = <<[Cte("t", OneA) EXCEPT !.materialized = "MATERIALIZED", !.cols = <<"a">>]>>,
         !.marks = <<[Mark(1, "SHARE", "") EXCEPT !.pushed = TRUE], Mark(2, "UPDATE", "SKIP LOCKED")>>]

Recursive == [Q(<<T(V(1, "n"), "n")>>, <<Item("cte", "r", "r")>>)
  EXCEPT !.recursive = TRUE, !.limit = <<K("NULL", "bigint")>>, !.sort = <<Asc(1)>>, !.offset = <<I>>,
         !.ctes = <<[Cte("r", [Q(<<T(V(1, "c"), "n")>>,
                       <<Sub(OneC, "*SELECT* 1"), Sub(Q(<<T(O("+", V(1, "n"), I), "?column?")>>, <<Item("cte", "r", "r")>>), "*SELECT* 2")>>)
                     EXCEPT !.setop = <<All(Both("UNION", Leaf(1), Leaf(2)))>>]) EXCEPT !.cols = <<"n">>]>>]

Distincts == [Q(<<T(O("+", V(1, "a"), V(1, "b")), "b"), T(V(1, "a"), "a"), Junk(Two)>>, FromT)
  EXCEPT !.distinct = "on", !.distincton = <<1, 2, 3>>, !.sort = <<Asc(2), Asc(1)>>, !.limit = <<Two>>, !.ties = TRUE]

Correlated == [OneC EXCEPT !.where = <<O("=", V(1, "c"), Up(1, 1, "a"))>>]
Sublinks == [Q(<<T(S("EXPR", << >>, "", [OneC EXCEPT !.distinct = "all"]), "x"), T(S("ARRAY", << >>, "", OneC), "y"),
                 T(O("+", S("EXPR", << >>, "", Correlated), I), "z")>>, FromT)
  EXCEPT !.where = <<O("=", S("EXISTS", << >>, "", Correlated), S("ANY", <<V(1, "a")>>, "=", OneC))>>,
         !.having = <<O("=", S("ROWCOMPARE", <<V(1, "a"), V(1, "b")>>, "<", Shadowed), S("ALL", <<I>>, "<", OneC))>>]
(* Not among the texts below: with prettyPrint this one reads back as      *)
(* a = (b IN (SELECT ...)).                                                *)
ComparedTest ==
  [OneA EXCEPT !.where = <<S("ANY", <<O("=", V(1, "a"), V(1, "b"))>>, "=", OneC)>>]

(* UPDATE: elements, fields and rows of columns.                           *)
Multi(n) == [k |-> "multi", id |-> 1, n |-> n]
Element(up, low, e) == [k |-> "element", upper |-> up, lower |-> low, arg |-> e]
Field(name, e) == [k |-> "field", name |-> name, arg |-> e]
Updates == {
  [Update(<<T(O("+", V(1, "a"), I), "b"), T(Field("y", Element(<<<<V(2, "c")>>>>, << >>, Implicit(Two, "bigint"))), "a")>>, TU)
    EXCEPT !.where = <<O("=", V(1, "a"), V(2, "c"))>>, !.ctes = <<Cte("v", OneC)>>],
  Update(<<T(Multi(1), "a"), T(Dom(Element(<<<<I>>, <<Two>>>>, <<<<I>>, <<I>>>>, Implicit(Multi(2), "bigint")), "char", "implicit"), "order"),
           T(I, "b"), Junk(S("MULTIEXPR", << >>, "", Q(<<T(I, "x"), T(Up(1, 1, "b"), "y")>>, <<Table("u")>>)))>>, FromT)}

Texts == {Arithmetic, Constants, Casts, Rows, Quoted, Groups, GroupingSets, Windows, ValuesView, FromAll,
          Shadowed, Recursive, Distincts, Sublinks} \cup Unions \cup Updates

-----------------------------------------------------------------------------
TextsInit == view \in Texts /\ text = << >>

GetViewdef ==
  /\ "command" \in DOMAIN view /\ text = << >>
  /\ \E pretty \in BOOLEAN, result \in {<< >>, <<"v">>, <<"column1", "order">>} :
       /\ view.command = "UPDATE" => result = << >>
       /\ text' = <<result, QueryDef(view, << >>, pretty, TRUE, result)>>
  /\ UNCHANGED view

TextsNext == GetViewdef

(* What is printed of a query reads back as that query: the parentheses    *)
(* that are left out are not needed, no name or number is taken for        *)
(* another one, and nothing is lost.                                       *)
TextReadsBack == text # << >> => ReadText(text[2]) = QueryMeans(view, << >>, TRUE, text[1])
=============================================================================

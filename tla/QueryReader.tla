----------------------------- MODULE QueryReader -----------------------------
(***************************************************************************)
(* The parser, as far as DeparseQuery prints: what it makes of a text, and *)
(* what a stored query means, in the same form: a column is the name of    *)
(* its relation, and how many queries further out it is; casts that the    *)
(* parser adds by itself are left out, windows are written out.            *)
(***************************************************************************)
EXTENDS DeparseQuery, TLC

CONSTANTS Names, Numbers, Strings     \* the names, numbers and texts that queries hold

StoredTables == DOMAIN Columns

(* Nodes.                                                                  *)
Col(up, rel, col) == [k |-> "Col", up |-> up, rel |-> rel, col |-> col]
Constant(v, neg, type) == [k |-> "Constant", v |-> v, neg |-> neg, type |-> type]
Operator(op, args) == [k |-> "Operator", op |-> op, args |-> args]
Call(f, args, variadic, distinct, order, filter, within) ==
  [k |-> "Call", f |-> f, args |-> args, variadic |-> variadic, distinct |-> distinct,
   order |-> order, filter |-> filter, within |-> within]
Over(call, spec) == [k |-> "Over", call |-> call, spec |-> spec]
CastTo(e, type, typmod) == [k |-> "CastTo", type |-> type, typmod |-> typmod, arg |-> e]
Collate(e, coll) == [k |-> "Collate", coll |-> coll, arg |-> e]
RowOf(args) == [k |-> "RowOf", args |-> args]
SubLink(kind, test, op, q) == [k |-> "SubLink", kind |-> kind, test |-> test, op |-> op, q |-> q]
MultiColumn(q, n) == [k |-> "MultiColumn", q |-> q, n |-> n]
Star == Constant("*", FALSE, "star")

SortItem(e, op, nullsfirst) == [e |-> e, op |-> op, nullsfirst |-> nullsfirst]
SetOf(kind, content) == [kind |-> kind, content |-> content]
Simple(es) == SetOf("SIMPLE", es)
Spec(part, order, frame) == [part |-> part, order |-> order, frame |-> frame]
NoSpec == Spec(<< >>, << >>, << >>)
Position(n) == Constant(ToString(n), FALSE, "position")

Select(distinct, on, targets, from, where, group, gdistinct, having) ==
  [k |-> "select", distinct |-> distinct, on |-> on, targets |-> targets, from |-> from,
   where |-> where, group |-> group, gdistinct |-> gdistinct, having |-> having]
Setop(op, all, l, r) == [k |-> "setop", op |-> op, all |-> all, l |-> l, r |-> r]
Query(ctes, recursive, body, sort, offset, limit, ties, marks) ==
  [ctes |-> ctes, recursive |-> recursive, body |-> body, sort |-> sort, offset |-> offset,
   limit |-> limit, ties |-> ties, marks |-> marks]
Only(body) == Query(<< >>, FALSE, body, << >>, << >>, << >>, FALSE, << >>)

-----------------------------------------------------------------------------
(* What a stored query means.                                              *)
RECURSIVE Means(_, _, _), QueryMeans(_, _, _, _)

MeansAll(es, c, show) == [i \in DOMAIN es |-> Means(es[i], c, show)]
OrderMeans(list, tlist, c) ==
  [i \in DOMAIN list |-> SortItem(Means(tlist[list[i].ref].e, c, TRUE), list[i].op, list[i].nullsfirst)]
RefsMean(refs, tlist, c) == [i \in DOMAIN refs |-> Means(tlist[refs[i]].e, c, TRUE)]

BoundMeans(b, c) == [b EXCEPT !.e = MeansAll(b.e, c, FALSE)]
FrameMeans(f, c) ==
  [f EXCEPT !.start = BoundMeans(@, c), !.end = [i \in DOMAIN @ |-> BoundMeans(@[i], c)]]
SpecMeans(w, tlist, c) ==
  Spec(RefsMean(w.part, tlist, c), OrderMeans(w.order, tlist, c),
       [i \in DOMAIN w.frame |-> FrameMeans(w.frame[i], c)])

Means(e, c, show) ==
  CASE e.k = "Var" -> Col(e.up, c.ns[e.up + 1].from[e.rel].alias, e.col)
    [] e.k = "Const" ->
         LET k == Constant(e.v, e.neg, e.type) IN IF e.coll = "" THEN k ELSE Collate(k, e.coll)
    [] e.k = "Op" -> Operator(e.op, MeansAll(e.args, c, TRUE))
    [] e.k = "Func" /\ e.form = "call" ->
         Call(e.f, MeansAll(e.args, c, TRUE), e.variadic, FALSE, << >>, << >>, << >>)
    [] e.k = "Func" /\ e.form = "implicit" /\ ~show -> Means(e.args[1], c, FALSE)
    [] e.k = "Func" /\ e.form # "call" /\ (e.form = "explicit" \/ show) ->
         CastTo(Means(e.args[1], c, FALSE), e.type, e.typmod)
    [] e.k = "domain" ->
         IF e.form = "implicit" THEN Means(e.arg, c, FALSE)
         ELSE CastTo(Means(e.arg, c, FALSE), e.type, e.typmod)
    [] e.k = "Row" -> RowOf(MeansAll(e.args, c, TRUE))
    [] e.k = "Agg" ->
         LET shown == SelectSeq(e.args, LAMBDA t : ~t.junk) IN
         Call(e.f,
              IF e.star THEN <<Star>> ELSE [i \in DOMAIN shown |-> Means(shown[i].e, c, TRUE)],
              e.variadic, e.distinct, OrderMeans(e.order, e.args, c), MeansAll(e.filter, c, FALSE),
              MeansAll(e.direct, c, TRUE))
    [] e.k = "Win" ->
         Over(Call(e.f, IF e.star THEN <<Star>> ELSE MeansAll(e.args, c, TRUE), FALSE, FALSE, << >>,
                   MeansAll(e.filter, c, FALSE), << >>),
              SpecMeans(c.windows[e.winref], c.wtlist, c))
    [] e.k = "Sub" ->
         SubLink(IF e.kind = "MULTIEXPR" THEN "EXPR" ELSE e.kind,
                 MeansAll(e.test, c, TRUE), e.op, QueryMeans(e.q, c.ns, FALSE, << >>))

ItemMeans(item, c) ==
  [kind |-> item.kind, name |-> item.name, alias |-> item.alias, cols |-> item.cols,
   coldefs |-> item.coldefs,
   sample |-> [i \in DOMAIN item.sample |->
                 [item.sample[i] EXCEPT !.args = MeansAll(@, c, FALSE), !.repeatable = MeansAll(@, c, FALSE)]],
   lists |-> [i \in DOMAIN item.lists |-> MeansAll(item.lists[i], c, FALSE)],
   call |-> MeansAll(item.call, c, TRUE),
   q |-> [i \in DOMAIN item.q |-> QueryMeans(item.q[i], c.ns, TRUE, << >>)]]

(* A FROM item that is just a VALUES list, whichever way it is stored.     *)
Flat(item) ==
  IF item.kind # "sub" THEN item
  ELSE LET q == item.q[1] IN
       IF /\ q.body.k = "select" /\ q = Only(q.body)
          /\ Len(q.body.from) = 1 /\ q.body.from[1].kind = "values"
          /\ \A i \in DOMAIN q.body.targets : q.body.targets[i].e.k = "Col"
       THEN [item EXCEPT !.kind = "values", !.lists = q.body.from[1].lists, !.q = << >>]
       ELSE item

FromMeans(q, c) ==
  LET shown == SelectSeq(q.from, LAMBDA item : item.infrom) IN
  [i \in DOMAIN shown |-> Flat(ItemMeans(shown[i], c))]

RECURSIVE SetMeans(_, _, _), SetopMeans(_, _, _, _, _)
SetMeans(g, tlist, c) ==
  SetOf(g.kind, CASE g.kind = "SIMPLE" -> RefsMean(g.content, tlist, c)
                  [] OTHER -> [i \in DOMAIN g.content |-> SetMeans(g.content[i], tlist, c)])

TargetsMean(q, c, visible, result) ==
  LET shown == SelectSeq(q.tlist, LAMBDA t : ~t.junk) IN
  [i \in DOMAIN shown |->
     [e |-> Means(shown[i].e, c, TRUE), name |-> IF visible THEN TargetName(q, i, result) ELSE ""]]

SelectMeans(q, c, visible, result) ==
  LET cg == [c EXCEPT !.group = TRUE] IN
  Select(q.distinct, RefsMean(q.distincton, q.tlist, c), TargetsMean(q, c, visible, result),
         FromMeans(q, c), MeansAll(q.where, c, FALSE),
         IF q.sets # << >> THEN [i \in DOMAIN q.sets |-> SetMeans(q.sets[i], q.tlist, cg)]
         ELSE [i \in DOMAIN q.group |-> Simple(RefsMean(<<q.group[i]>>, q.tlist, cg))],
         q.groupdistinct, MeansAll(q.having, c, FALSE))

SetopMeans(s, q, c, visible, result) ==
  IF s.k = "leaf" THEN QueryMeans(q.from[s.i].q[1], c.ns, visible, result)
  ELSE Only(Setop(s.op, s.all, SetopMeans(s.l, q, c, visible, result), SetopMeans(s.r, q, c, FALSE, result)))

Shown(marks) == SelectSeq(marks, LAMBDA m : ~m.pushed)

AssignmentMeans(t, sublinks, c) ==
  LET RECURSIVE path(_)
      path(e) == IF ~IsAssignment(e) THEN << >>
                 ELSE (CASE e.k = "field" -> <<Constant(e.name, FALSE, "field")>>
                         [] e.k = "element" -> <<RowOf([i \in DOMAIN e.upper |->
                              RowOf((IF i \in DOMAIN e.lower THEN <<RowOf(MeansAll(e.lower[i], c, FALSE))>> ELSE << >>)
                                      \o <<RowOf(MeansAll(e.upper[i], c, FALSE))>>)])>>
                         [] OTHER -> << >>) \o path(e.arg)
      v == Assigned(t.e)
      m == StripImplicit(v)
  IN  [name |-> t.name, path |-> path(t.e),
       value |-> IF m.k = "multi" THEN MultiColumn(QueryMeans(sublinks[m.id].e.q, c.ns, FALSE, << >>), m.n)
                 ELSE Means(v, c, FALSE)]

QueryMeans(q, ns, visible, result) ==
  LET base == Context(q, ns, FALSE)
      c == [base EXCEPT !.windows = q.windows, !.wtlist = q.tlist]
      ctes == [i \in DOMAIN q.ctes |->
                 [name |-> q.ctes[i].name, cols |-> q.ctes[i].cols, materialized |-> q.ctes[i].materialized,
                  q |-> QueryMeans(q.ctes[i].q, c.ns, TRUE, << >>)]]
      body == IF q.setop # << >> THEN SetopMeans(q.setop[1], q, c, visible, result).body
              ELSE SelectMeans(q, c, visible, result)
      sort == IF q.setop = << >> THEN OrderMeans(q.sort, q.tlist, c)
              ELSE [i \in DOMAIN q.sort |-> SortItem(Position(q.sort[i].ref), q.sort[i].op, q.sort[i].nullsfirst)]
      marks == [i \in DOMAIN Shown(q.marks) |->
                  [rel |-> q.from[Shown(q.marks)[i].rel].alias, strength |-> Shown(q.marks)[i].strength,
                   wait |-> Shown(q.marks)[i].wait]]
  IN  IF q.command = "UPDATE"
      THEN LET sublinks == SelectSeq(q.tlist, LAMBDA t : t.junk)
               shown == SelectSeq(q.tlist, LAMBDA t : ~t.junk)
           IN  [ctes |-> ctes, table |-> q.from[1].name, alias |-> q.from[1].alias,
                sets |-> [i \in DOMAIN shown |-> AssignmentMeans(shown[i], sublinks, c)],
                from |-> FromMeans(q, c), where |-> MeansAll(q.where, c, FALSE)]
      ELSE Query(ctes, q.recursive, body, sort, MeansAll(q.offset, c, FALSE), MeansAll(q.limit, c, FALSE),
                 q.ties, marks)

-----------------------------------------------------------------------------
(* Reading.  A result is a value and the tokens that are left; after an    *)
(* error, Err is left, which nothing accepts.  scope: the relations and    *)
(* their columns, innermost query first, the windows, the CTEs, and the    *)
(* columns that ORDER BY and GROUP BY may name.                            *)
Err == <<"#error">>
Got(v, s) == [v |-> v, s |-> s]
Wrong == Got(Star, Err)
At(s, t) == s # << >> /\ s[1] = t
AtAny(s, T) == s # << >> /\ s[1] \in T
Skip(s, t) == IF At(s, t) THEN Tail(s) ELSE Err
SkipAny(s, T) == IF AtAny(s, T) THEN Tail(s) ELSE Err

NameOf(t) ==
  IF t \in Names \ (Keywords \cup MixedCase) THEN t
  ELSE IF \E n \in Names : t = "\"" \o n \o "\"" THEN CHOOSE n \in Names : t = "\"" \o n \o "\"" ELSE ""
IsName(s) == s # << >> /\ NameOf(s[1]) # ""

NumberOf(t) == LET N == {n \in 1 .. 9 : ToString(n) = t} IN IF N = {} THEN 0 ELSE CHOOSE n \in N : TRUE
Types == {"integer", "numeric", "boolean", "text", "char", "bigint"} \cup StoredTables
TypeOf(t) == IF t \in Types THEN <<t, -1>> ELSE <<CHOOSE x \in Types : t = x \o "(3)", 3>>
IsType(t) == \E x \in Types : t \in {x, x \o "(3)"}

LiteralOf(t) ==
  CASE t \in Numbers \ Floats -> <<Constant(t, FALSE, "integer")>>
    [] t \in Floats -> <<Constant(t, FALSE, "numeric")>>
    [] t \in {"true", "false"} -> <<Constant(t, FALSE, "boolean")>>
    [] t = "NULL" -> <<Constant(t, FALSE, "unknown")>>
    [] \E v \in Strings \cup Numbers : t = "'" \o v \o "'" ->
         <<Constant(CHOOSE v \in Strings \cup Numbers : t = "'" \o v \o "'", FALSE, "unknown")>>
    [] \E v \in Numbers : t = "'-" \o v \o "'" ->
         <<Constant(CHOOSE v \in Numbers : t = "'-" \o v \o "'", TRUE, "unknown")>>
    [] OTHER -> << >>

(* Name lookup; t.* is a row, but at the top of a list all its columns.    *)
Resolved(scope, rel, col) ==
  LET Fits(r) == IF rel # "" THEN r.alias = rel ELSE col \in ToSet(r.cols)
      levels == {i \in DOMAIN scope.rels : \E j \in DOMAIN scope.rels[i] : Fits(scope.rels[i][j])}
  IN  IF levels = {} THEN Col(0, "?", col)
      ELSE LET i == CHOOSE l \in levels : \A m \in levels : l <= m
               j == CHOOSE l \in DOMAIN scope.rels[i] : Fits(scope.rels[i][l])
           IN  Col(i - 1, scope.rels[i][j].alias, col)
Whole(e) == IF e.k = "Expand" THEN [e EXCEPT !.k = "Col"] ELSE e

AsCast(e, t) ==
  LET type == TypeOf(t)[1]
      typmod == TypeOf(t)[2]
      b == IF e.k = "Constant" /\ e.type = "unknown" THEN [e EXCEPT !.type = type] ELSE e
  IN  IF e.k = "Expand" /\ type = e.rel THEN Whole(e)
      ELSE IF b.k \in {"Constant", "CastTo"} /\ typmod < 0 THEN IF b.type = type THEN b ELSE CastTo(b, type, typmod)
      ELSE CastTo(Whole(b), type, typmod)

OpsOf == [x \in {"=", "<"} |-> 1] @@ [x \in {"||", "~~"} |-> 3] @@ [x \in {"+", "-"} |-> 4] @@ [x \in {"*"} |-> 5]
Comparisons == {"=", "<"}
TestOf(e) == IF e.k = "Tuple" THEN e.args ELSE <<e>>

(* A row that is compared with a subquery.                                 *)
Combined(op, l, r) ==
  IF l.k = "Tuple" /\ r.k = "SubLink" /\ r.kind = "EXPR" THEN SubLink("ROWCOMPARE", l.args, op, r.q)
  ELSE Operator(op, <<Whole(l), Whole(r)>>)

StartsQuery(s) ==
  LET i == SelectInSeq(s, LAMBDA t : t # "(") IN i # 0 /\ s[i] \in {"SELECT", "VALUES", "WITH"}

Pushed(scope, level) == [scope EXCEPT !.rels = <<level>> \o @]
SQL99 == "sql99"
Inner(scope) == [scope EXCEPT !.mode = SQL99]

(* Read(what, s, scope, how): every production that others refer to, by    *)
(* name; how is what it needs to know besides.                             *)
RECURSIVE Read(_, _, _, _)

ReadSubquery(s, scope, visible) ==
  LET q == Read("query", Skip(s, "("), Inner(scope), visible) IN Got(q.v, Skip(q.s, ")"))

ReadPrimary(s, scope) ==
  IF s = << >> THEN Wrong
  ELSE LET t == s[1]
           next == IF Len(s) > 1 THEN s[2] ELSE ""
           third == IF Len(s) > 2 THEN s[3] ELSE ""
       IN
  CASE LiteralOf(t) # << >> -> Got(LiteralOf(t)[1], Tail(s))
    [] t = "(" ->
         LET q == IF StartsQuery(s) THEN Read("subquery", s, scope, FALSE) ELSE Wrong
             es == Read("many", Tail(s), Inner(scope), "expr")
         IN  IF q.s # Err THEN Got(SubLink("EXPR", << >>, "", q.v), q.s)
             ELSE Got(IF Len(es.v) = 1 THEN Whole(es.v[1]) ELSE [RowOf(es.v) EXCEPT !.k = "Tuple"], Skip(es.s, ")"))
    [] t \in {"EXISTS", "ARRAY"} ->
         LET q == Read("subquery", Tail(s), scope, FALSE) IN Got(SubLink(t, << >>, "", q.v), q.s)
    [] t = "ROW" -> LET es == Read("many", Skip(Tail(s), "("), scope, "item") IN Got(RowOf(es.v), Skip(es.s, ")"))
    [] t = "CAST" ->
         LET e == Read("operators", Skip(Tail(s), "("), scope, 0)
             rest == Skip(e.s, "AS")
         IN  IF rest = Err \/ rest = << >> \/ ~IsType(rest[1]) THEN Wrong
             ELSE Got(AsCast(e.v, rest[1]), Skip(Tail(rest), ")"))
    [] IsName(s) /\ next = "(" -> Read("call", SubSeq(s, 3, Len(s)), scope, NameOf(t))
    [] IsName(s) /\ next = "." /\ third = "*" ->
         Got([Resolved(scope, NameOf(t), "*") EXCEPT !.k = "Expand"], SubSeq(s, 4, Len(s)))
    [] IsName(s) /\ next = "." /\ Len(s) > 3 /\ s[4] = "(" -> Read("call", SubSeq(s, 5, Len(s)), scope, NameOf(third))
    [] IsName(s) /\ next = "." /\ NameOf(third) # "" -> Got(Resolved(scope, NameOf(t), NameOf(third)), SubSeq(s, 4, Len(s)))
    [] IsName(s) -> Got(Resolved(scope, "", NameOf(t)), Tail(s))
    [] OTHER -> Wrong

ReadExpr(s, scope, min) ==
  IF At(s, "-")
  THEN LET e == Read("operators", Tail(s), scope, 7) IN
       Read("infix", Got(IF s[2] \in Numbers /\ e.s = SubSeq(s, 3, Len(s)) THEN [e.v EXCEPT !.neg = TRUE]
                     ELSE Operator("-", <<Whole(e.v)>>), e.s), scope, min)
  ELSE Read("infix", Read("primary", s, scope, ""), scope, min)

ReadInfix(l, scope, min) ==
  LET s == l.s IN
  CASE s = << >> -> l
    [] At(s, "::") ->
         IF Len(s) < 2 \/ ~IsType(s[2]) THEN Wrong
         ELSE Read("infix", Got(AsCast(l.v, s[2]), SubSeq(s, 3, Len(s))), scope, min)
    [] At(s, "COLLATE") /\ min <= 6 -> Read("infix", Got(Collate(l.v, s[2]), SubSeq(s, 3, Len(s))), scope, min)
    [] At(s, "IN") /\ min <= 2 ->
         LET q == Read("subquery", Tail(s), scope, FALSE) IN
         Read("infix", Got(SubLink("ANY", TestOf(l.v), "=", q.v), q.s), scope, min)
    [] AtAny(s, DOMAIN OpsOf) /\ OpsOf[s[1]] >= min ->
         LET link == Len(s) > 1 /\ s[2] \in {"ANY", "ALL"}
             r == IF link THEN Read("subquery", SubSeq(s, 3, Len(s)), scope, FALSE)
                  ELSE Read("operators", Tail(s), scope, OpsOf[s[1]] + 1)
             v == IF link THEN SubLink(s[2], TestOf(l.v), s[1], r.v) ELSE Combined(s[1], l.v, r.v)
         IN  Read("infix", Got(v, IF s[1] \in Comparisons /\ AtAny(r.s, Comparisons) THEN Err ELSE r.s), scope, min)
    [] OTHER -> l

-----------------------------------------------------------------------------
(* Clauses.                                                                *)
ReadBound(s, scope) ==
  IF At(s, "UNBOUNDED")
  THEN Got([kind |-> "unbounded", e |-> << >>, dir |-> ""], SkipAny(Tail(s), {"PRECEDING", "FOLLOWING"}))
  ELSE IF At(s, "CURRENT ROW") THEN Got([kind |-> "current", e |-> << >>, dir |-> ""], Tail(s))
  ELSE LET e == Read("operators", s, scope, 0) IN
       Got([kind |-> "offset", e |-> <<e.v>>, dir |-> IF e.s = << >> THEN "" ELSE e.s[1]],
           SkipAny(e.s, {"PRECEDING", "FOLLOWING"}))

ReadFrame(s, scope) ==
  IF ~AtAny(s, {"RANGE", "ROWS", "GROUPS"}) THEN Got(<< >>, s)
  ELSE LET between == Len(s) > 1 /\ s[2] = "BETWEEN"
           from == Read("bound", IF between THEN SubSeq(s, 3, Len(s)) ELSE Tail(s), scope, "")
           to == IF between THEN Read("bound", Skip(from.s, "AND"), scope, "") ELSE Got(<< >>, from.s)
           exclude == At(to.s, "EXCLUDE") /\ Len(to.s) > 1
       IN  Got(<<[mode |-> s[1], start |-> from.v, end |-> IF between THEN <<to.v>> ELSE << >>,
                  exclude |-> IF exclude THEN to.s[2] ELSE ""]>>,
               IF exclude THEN SubSeq(to.s, 3, Len(to.s)) ELSE to.s)

(* What a window takes from the one it names: the partition, and the order *)
(* if it has one; a frame cannot be taken.                                 *)
NamedWindow(scope, name) ==
  LET W == {i \in DOMAIN scope.windows : scope.windows[i].name = name} IN
  IF W = {} THEN << >> ELSE <<scope.windows[CHOOSE i \in W : TRUE].spec>>

ReadClause(s, scope, how) == IF At(s, how[2]) THEN Read("many", Tail(s), scope, how[1]) ELSE Got(<< >>, s)

ReadSpec(s, scope) ==
  LET base == IF IsName(s) THEN NamedWindow(scope, NameOf(s[1])) ELSE <<NoSpec>>
      part == Read("clause", IF IsName(s) THEN Tail(s) ELSE s, Inner(scope), <<"expr", "PARTITION BY">>)
      order == Read("clause", part.s, Inner(scope), <<"sort", "ORDER BY">>)
      frame == ReadFrame(order.s, Inner(scope))
      legal == /\ base # << >>
               /\ IsName(s) => /\ part.v = << >> /\ base[1].frame = << >>
                               /\ order.v = << >> \/ base[1].order = << >>
  IN  IF ~legal THEN Wrong
      ELSE Got(Spec(IF IsName(s) THEN base[1].part ELSE part.v,
                    IF base[1].order # << >> THEN base[1].order ELSE order.v, frame.v), Skip(frame.s, ")"))

ReadWindow(s, scope) ==
  IF At(s, "(") THEN Read("spec", Tail(s), scope, "")
  ELSE IF IsName(s) /\ NamedWindow(scope, NameOf(s[1])) # << >>
  THEN Got(NamedWindow(scope, NameOf(s[1]))[1], Tail(s))
  ELSE Got(NoSpec, IF IsName(s) THEN Tail(s) ELSE Err)      \* in the first pass, windows are unknown

ReadCall(s, outer, f) ==
  LET scope == Inner(outer)
      distinct == At(s, "DISTINCT")
      s1 == IF distinct THEN Tail(s) ELSE s
      args == IF At(s1, ")") THEN Got(<< >>, s1)
              ELSE IF At(s1, "*") THEN Got(<<[e |-> Star, variadic |-> FALSE]>>, Tail(s1))
              ELSE Read("many", s1, scope, "arg")
      es == [i \in DOMAIN args.v |-> Whole(args.v[i].e)]
      variadic == \E i \in DOMAIN args.v : args.v[i].variadic
      order == Read("clause", args.s, scope, <<"sort", "ORDER BY">>)
      s2 == Skip(order.s, ")")
      within == At(s2, "WITHIN GROUP")
      worder == IF within THEN Read("clause", Skip(Tail(s2), "("), scope, <<"sort", "ORDER BY">>) ELSE Got(<< >>, s2)
      s3 == IF within THEN Skip(worder.s, ")") ELSE s2
      filter == IF At(s3, "FILTER") THEN Read("clause", Skip(Tail(s3), "("), scope, <<"expr", "WHERE">>)
                ELSE Got(<< >>, s3)
      s4 == IF At(s3, "FILTER") THEN Skip(filter.s, ")") ELSE s3
      window == IF At(s4, "OVER") THEN ReadWindow(Tail(s4), scope) ELSE Got(NoSpec, s4)
      call == IF within
              THEN Call(f, [i \in DOMAIN worder.v |-> worder.v[i].e], variadic, distinct, worder.v, filter.v, es)
              ELSE Call(f, es, variadic, distinct, order.v, filter.v, << >>)
  IN  Got(IF At(s4, "OVER") THEN Over(call, window.v) ELSE call, window.s)

(* ORDER BY and DISTINCT ON: a bare name is first that of a target, a bare *)
(* number its position; GROUP BY: first that of a column.                  *)
ReadSortable(s, scope) ==
  LET e == Read("operators", s, scope, 0)
      bare == s # << >> /\ e.s = Tail(s)
      named == {i \in DOMAIN scope.out : IsName(s) /\ scope.out[i].name = NameOf(s[1])}
      n == IF bare /\ s[1] \in Numbers \ Floats THEN NumberOf(s[1]) ELSE 0
  IN  CASE scope.mode = "setop" -> IF n # 0 THEN Got(Position(n), e.s) ELSE Wrong
        [] scope.mode \in {"order", "group"} /\ n # 0 ->
             IF n \in DOMAIN scope.out THEN Got(scope.out[n].e, e.s) ELSE Wrong
        [] scope.mode = "order" /\ bare /\ named # {} -> Got(scope.out[CHOOSE i \in named : TRUE].e, e.s)
        [] OTHER -> e

ReadSort(s, scope) ==
  LET e == Read("sortable", s, scope, "")
      op == IF At(e.s, "DESC") THEN ">" ELSE IF At(e.s, "USING") /\ Len(e.s) > 1 THEN e.s[2] ELSE "<"
      s1 == IF At(e.s, "DESC") THEN Tail(e.s) ELSE IF At(e.s, "USING") THEN SubSeq(e.s, 3, Len(e.s)) ELSE e.s
      nulls == AtAny(s1, {"NULLS FIRST", "NULLS LAST"})
  IN  Got(SortItem(Whole(e.v), op, IF nulls THEN s1[1] = "NULLS FIRST" ELSE op = ">"), IF nulls THEN Tail(s1) ELSE s1)

ReadGroup(s, scope) ==
  LET word == IF s = << >> THEN "" ELSE s[1]
      sets == word \in {"CUBE", "ROLLUP", "GROUPING SETS", "cube", "rollup"} /\ Len(s) > 1 /\ s[2] = "("
  IN  IF sets THEN LET g == Read("many", SubSeq(s, 3, Len(s)), scope, "group") IN Got(SetOf(word, g.v), Skip(g.s, ")"))
      ELSE IF word = "(" /\ Len(s) > 1 /\ s[2] = ")" THEN Got(SetOf("EMPTY", << >>), SubSeq(s, 3, Len(s)))
      ELSE LET e == Read("sortable", s, scope, "") IN Got(Simple(TestOf(Whole(e.v))), e.s)

-----------------------------------------------------------------------------
(* Queries.  The text of a SELECT is read from its FROM clause on, since   *)
(* everything before it is about the relations that are listed there.      *)
SetWords == {"UNION", "INTERSECT", "EXCEPT"}
StrengthOf(op) == IF op = "INTERSECT" THEN 2 ELSE 1

RECURSIVE WordAt(_, _, _, _)
WordAt(s, i, depth, W) ==
  CASE i > Len(s) -> 0
    [] i <= Len(s) /\ depth = 0 /\ s[i] \in W \cup {")"} \cup SetWords -> IF s[i] \in W THEN i ELSE 0
    [] OTHER -> WordAt(s, i + 1, depth + (IF s[i] = "(" THEN 1 ELSE IF s[i] = ")" THEN -1 ELSE 0), W)

(* The list behind a word of this SELECT.                                  *)
ReadAfter(s, scope, how) ==
  LET i == WordAt(s, 1, 0, {how[2]}) IN
  IF i = 0 THEN Got(<< >>, s) ELSE Read("many", SubSeq(s, i + 1, Len(s)), scope, how[1])

ItemOf(kind, name, lists, call, q) ==
  [kind |-> kind, name |-> name, alias |-> "", cols |-> << >>, coldefs |-> << >>, sample |-> << >>,
   lists |-> lists, call |-> call, q |-> q]

TargetNames(q) ==
  LET RECURSIVE first(_)
      first(b) == IF b.k = "setop" THEN first(b.l.body) ELSE [i \in DOMAIN b.targets |-> b.targets[i].name]
  IN  first(q.body)
ColumnNames(n) == [i \in 1 .. n |-> "column" \o ToString(i)]

(* The columns of an item: those it lists, or those of what it stands for. *)
RelColumns(item, scope) ==
  LET C == {i \in DOMAIN scope.ctes : scope.ctes[i].name = item.name} IN
  CASE item.cols # << >> -> item.cols
    [] item.coldefs # << >> -> [i \in DOMAIN item.coldefs |-> item.coldefs[i].name]
    [] item.kind = "table" /\ item.name \in StoredTables -> Columns[item.name]
    [] item.kind = "cte" /\ C # {} -> scope.ctes[CHOOSE i \in C : \A j \in C : j <= i].cols
    [] item.kind = "sub" -> TargetNames(item.q[1])
    [] item.kind = "values" -> ColumnNames(Len(item.lists[1]))
    [] OTHER -> <<item.alias>>
Relations(items, scope) ==
  [i \in DOMAIN items |-> [alias |-> items[i].alias, cols |-> RelColumns(items[i], scope)]]

ReadRelation(s, scope) ==
  LET qualified == At(s, "s") /\ Len(s) > 2 /\ s[2] = "."
      name == NameOf(IF qualified THEN s[3] ELSE s[1])
      isCte == ~qualified /\ \E i \in DOMAIN scope.ctes : scope.ctes[i].name = name
      q == Read("subquery", s, scope, TRUE)
      call == Read("primary", s, scope, "")
  IN  CASE At(s, "(") -> Got(ItemOf("sub", "", << >>, << >>, <<q.v>>), q.s)
        [] At(s, "CAST") \/ (IsName(s) /\ Len(s) > 1 /\ s[2] = "(") ->
             Got(ItemOf("func", "", << >>, <<call.v>>, << >>), call.s)
        [] ~At(s, "(") /\ name # "" ->
             Got(ItemOf(IF isCte THEN "cte" ELSE "table", name, << >>, << >>, << >>),
                 SubSeq(s, IF qualified THEN 4 ELSE 2, Len(s)))
        [] OTHER -> Wrong

ReadSample(s, scope) ==
  IF ~At(s, "TABLESAMPLE") \/ Len(s) < 3 THEN Got(<< >>, s)
  ELSE LET args == Read("many", Skip(SubSeq(s, 3, Len(s)), "("), scope, "expr")
           s1 == Skip(args.s, ")")
           seed == IF At(s1, "REPEATABLE") THEN Read("many", Skip(Tail(s1), "("), scope, "expr") ELSE Got(<< >>, s1)
       IN  Got(<<[method |-> s[2], args |-> args.v, repeatable |-> seed.v]>>,
               IF At(s1, "REPEATABLE") THEN Skip(seed.s, ")") ELSE s1)

ReadFrom(s, scope) ==
  LET rel == ReadRelation(s, scope)
      s1 == Skip(rel.s, "AS")
      s2 == IF IsName(s1) THEN Tail(s1) ELSE Err
      listed == At(s2, "(")
      defs == listed /\ Len(s2) > 2 /\ IsType(s2[3])
      cols == IF listed THEN Read("many", Tail(s2), scope, IF defs THEN "coldef" ELSE "ident") ELSE Got(<< >>, s2)
      sample == ReadSample(IF listed THEN Skip(cols.s, ")") ELSE s2, scope)
  IN  IF s2 = Err \/ rel = Wrong THEN Wrong
      ELSE Got(Flat([rel.v EXCEPT !.alias = NameOf(s1[1]), !.sample = sample.v,
                                  !.cols = IF defs THEN << >> ELSE cols.v,
                                  !.coldefs = IF defs THEN cols.v ELSE << >>]), sample.s)

ReadTarget(s, scope) ==
  LET e == Read("operators", s, scope, 0)
      as == At(e.s, "AS") /\ Len(e.s) > 1
  IN  Got([e |-> e.v,
           name |-> CASE as -> NameOf(e.s[2]) [] ~as /\ e.v.k = "Col" -> e.v.col
                      [] ~as /\ e.v.k = "Call" -> e.v.f [] OTHER -> "?column?"],
          IF as THEN SubSeq(e.s, 3, Len(e.s)) ELSE e.s)

ReadColdef(s, scope) ==
  LET coll == Len(s) > 3 /\ s[3] = "COLLATE" IN
  IF ~IsName(s) \/ Len(s) < 3 THEN Wrong
  ELSE Got([name |-> NameOf(s[1]), type |-> s[2], coll |-> IF coll THEN s[4] ELSE ""],
           SubSeq(s, IF coll THEN 5 ELSE 3, Len(s)))

ReadCte(s, scope) ==
  LET s1 == IF IsName(s) THEN Tail(s) ELSE Err
      cols == IF At(s1, "(") THEN Read("many", Tail(s1), scope, "ident") ELSE Got(<< >>, s1)
      s2 == Skip(IF At(s1, "(") THEN Skip(cols.s, ")") ELSE s1, "AS")
      words == AtAny(s2, {"MATERIALIZED", "NOT MATERIALIZED"})
      own == IF scope.recursive THEN <<[name |-> NameOf(s[1]), cols |-> cols.v]>> ELSE << >>
      q == Read("subquery", IF words THEN Tail(s2) ELSE s2, [scope EXCEPT !.ctes = @ \o own], TRUE)
  IN  IF s2 = Err THEN Wrong
      ELSE Got([name |-> NameOf(s[1]), cols |-> cols.v, materialized |-> IF words THEN s2[1] ELSE "", q |-> q.v], q.s)

(* An assignment of an UPDATE, or several of one row.                      *)
ReadPath(s, scope) ==
  CASE At(s, ".") /\ Len(s) > 1 ->
         LET p == Read("path", SubSeq(s, 3, Len(s)), scope, "") IN
         Got(<<Constant(NameOf(s[2]), FALSE, "field")>> \o p.v, p.s)
    [] At(s, "[") ->
         LET RECURSIVE bounds(_)
             bounds(r) ==
               IF ~At(r, "[") THEN Got(<< >>, r)
               ELSE LET l == Read("operators", Tail(r), scope, 0)
                        u == IF At(l.s, ":") THEN Read("operators", Tail(l.s), scope, 0) ELSE l
                        rest == bounds(Skip(u.s, "]"))
                    IN  Got(<<RowOf((IF At(l.s, ":") THEN <<RowOf(<<l.v>>)>> ELSE << >>) \o <<RowOf(<<u.v>>)>>)>>
                              \o rest.v, rest.s)
             b == bounds(s)
             p == Read("path", b.s, scope, "")
         IN  Got(<<RowOf(b.v)>> \o p.v, p.s)
    [] OTHER -> Got(<< >>, s)

ReadColumn(s, scope) ==
  IF ~IsName(s) THEN Wrong
  ELSE LET p == Read("path", Tail(s), scope, "") IN Got([name |-> NameOf(s[1]), path |-> p.v], p.s)

ReadAssign(s, scope) ==
  LET multi == At(s, "(")
      cols == Read("many", IF multi THEN Tail(s) ELSE << >>, scope, "column")
      col == Read("column", s, scope, "")
      q == Read("subquery", Skip(Skip(cols.s, ")"), "="), scope, FALSE)
      e == Read("operators", Skip(col.s, "="), scope, 0)
      Set(c, v) == [name |-> c.name, path |-> c.path, value |-> v]
  IN  CASE multi /\ q.s # Err -> Got([i \in DOMAIN cols.v |-> Set(cols.v[i], MultiColumn(q.v, i))], q.s)
        [] ~multi /\ col.s # Err -> Got(<<Set(col.v, Whole(e.v))>>, e.s)
        [] OTHER -> Wrong

(* A window sees those before it, and so does a CTE.                       *)
ReadMany(s, scope, kind) ==
  LET one == Read(kind, s, scope, "")
      after == CASE kind = "window" -> [scope EXCEPT !.windows = Append(@, one.v)]
                 [] kind = "cte" /\ one.s # Err -> [scope EXCEPT !.ctes = Append(@,
                      [name |-> one.v.name, cols |-> IF one.v.cols # << >> THEN one.v.cols ELSE TargetNames(one.v.q)])]
                 [] OTHER -> scope
      more == IF At(one.s, ",") THEN Read("many", Tail(one.s), after, kind) ELSE Got(<< >>, one.s)
  IN  IF one.s = Err THEN Got(<< >>, Err) ELSE Got(<<one.v>> \o more.v, more.s)

(* A SELECT; its scope is what its ORDER BY and LIMIT see.                 *)
ReadSelect(s, outer, visible) ==
  LET from == Read("after", s, Pushed(outer, << >>), <<"from", "FROM">>)
      base == [Pushed(outer, Relations(from.v, outer)) EXCEPT !.windows = << >>]
      windows == Read("after", s, Inner(base), <<"window", "WINDOW">>)
      scope == [base EXCEPT !.windows = windows.v]
      distinct == At(s, "DISTINCT")
      on == distinct /\ Len(s) > 1 /\ s[2] = "ON"
      s1 == IF on THEN Skip(SubSeq(s, 3, Len(s)), "(") ELSE s
      skipped == IF on THEN Skip(Read("many", s1, scope, "expr").s, ")") ELSE IF distinct THEN Tail(s) ELSE s
      targets == Read("many", skipped, Inner(scope), "target")
      out == [i \in DOMAIN targets.v |-> [e |-> Whole(targets.v[i].e), name |-> targets.v[i].name]]
      sees(mode) == [scope EXCEPT !.mode = mode, !.out = out]
      onlist == IF on THEN Read("many", s1, sees("order"), "sort").v ELSE << >>
      ons == [i \in DOMAIN onlist |-> onlist[i].e]
      s2 == IF At(targets.s, "FROM") THEN from.s ELSE targets.s
      where == Read("clause", s2, Inner(scope), <<"expr", "WHERE">>)
      gdistinct == At(where.s, "GROUP BY") /\ Len(where.s) > 1 /\ where.s[2] = "DISTINCT"
      group == IF gdistinct THEN Read("many", SubSeq(where.s, 3, Len(where.s)), sees("group"), "group")
               ELSE Read("clause", where.s, sees("group"), <<"group", "GROUP BY">>)
      having == Read("clause", group.s, Inner(scope), <<"expr", "HAVING">>)
      s3 == IF At(having.s, "WINDOW") THEN windows.s ELSE having.s
      body == Select(IF on THEN "on" ELSE IF distinct THEN "all" ELSE "no", ons,
                     [i \in DOMAIN targets.v |->
                        [e |-> targets.v[i].e, name |-> IF visible THEN targets.v[i].name ELSE ""]],
                     from.v, where.v, group.v, gdistinct, having.v)
  IN  [v |-> Only(body), s |-> s3, scope |-> sees("order")]

(* VALUES is a SELECT of all the columns of the list.                      *)
ReadValues(s, outer, visible) ==
  LET scope == Pushed(outer, << >>)
      lists == Read("many", s, scope, "row")
      names == IF lists.v = << >> THEN << >> ELSE ColumnNames(Len(lists.v[1]))
      item == [ItemOf("values", "", lists.v, << >>, << >>) EXCEPT !.alias = "*VALUES*"]
      targets == [i \in DOMAIN names |->
                    [e |-> Col(0, "*VALUES*", names[i]), name |-> IF visible THEN names[i] ELSE ""]]
  IN  [v |-> Only(Select("no", << >>, targets, <<item>>, << >>, << >>, FALSE, << >>)), s |-> lists.s,
       scope |-> [scope EXCEPT !.mode = "order", !.out = targets]]

(* Read("body", s, scope, <<min, visible>>): the set operations from min on.   *)
ReadSetop(l, scope, how) ==
  IF ~AtAny(l.s, SetWords) \/ StrengthOf(l.s[1]) < how[1] THEN l
  ELSE LET all == Len(l.s) > 1 /\ l.s[2] = "ALL"
           r == Read("body", SubSeq(l.s, IF all THEN 3 ELSE 2, Len(l.s)), scope, <<StrengthOf(l.s[1]) + 1, FALSE>>)
       IN  Read("setop", [v |-> Only(Setop(l.s[1], all, l.v, r.v)), s |-> r.s,
                      scope |-> [Pushed(scope, << >>) EXCEPT !.mode = "setop"]], scope, how)

ReadBody(s, scope, how) ==
  LET q == Read("subquery", s, scope, how[2]) IN
  CASE At(s, "SELECT") -> Read("setop", ReadSelect(Tail(s), scope, how[2]), scope, how)
    [] At(s, "VALUES") -> Read("setop", ReadValues(Tail(s), scope, how[2]), scope, how)
    [] At(s, "(") -> Read("setop", [v |-> q.v, s |-> q.s, scope |-> scope], scope, how)
    [] OTHER -> [v |-> Star, s |-> Err, scope |-> scope]

RECURSIVE ReadMarks(_)
ReadMarks(s) ==
  IF ~At(s, "FOR") \/ Len(s) < 4 THEN Got(<< >>, s)
  ELSE LET waits == Len(s) > 4 /\ s[5] \in {"NOWAIT", "SKIP LOCKED"}
           more == ReadMarks(SubSeq(s, IF waits THEN 6 ELSE 5, Len(s)))
       IN  Got(<<[rel |-> NameOf(s[4]), strength |-> s[2], wait |-> IF waits THEN s[5] ELSE ""]>> \o more.v, more.s)

ReadLimit(s, scope) ==
  IF At(s, "LIMIT") /\ Len(s) > 1 /\ s[2] = "ALL" THEN Got(<<Constant("NULL", FALSE, "bigint")>>, SubSeq(s, 3, Len(s)))
  ELSE IF At(s, "LIMIT") THEN Read("many", Tail(s), scope, "expr")
  ELSE IF At(s, "FETCH FIRST")
  THEN LET e == Read("primary", Tail(s), scope, "") IN Got(<<e.v>>, Skip(e.s, "ROWS WITH TIES"))
  ELSE Got(<< >>, s)

ReadUpdate(s, ctes, outer) ==
  LET target == Read("from", s, outer, "")
      from == Read("after", s, Pushed(outer, << >>), <<"from", "FROM">>)
      scope == Inner(Pushed(outer, Relations(<<target.v>> \o from.v, outer)))
      sets == Read("many", Skip(target.s, "SET"), scope, "assign")
      s1 == IF At(sets.s, "FROM") THEN from.s ELSE sets.s
      where == Read("clause", s1, scope, <<"expr", "WHERE">>)
  IN  IF target = Wrong THEN Wrong
      ELSE Got([ctes |-> ctes, table |-> target.v.name, alias |-> target.v.alias,
                sets |-> FlattenSeq(sets.v), from |-> from.v, where |-> where.v], where.s)

ReadQuery(s, outer, visible) ==
  LET with == At(s, "WITH")
      recursive == with /\ Len(s) > 1 /\ s[2] = "RECURSIVE"
      ctes == IF with THEN Read("many", SubSeq(s, IF recursive THEN 3 ELSE 2, Len(s)),
                                [Pushed(outer, << >>) EXCEPT !.recursive = recursive], "cte")
              ELSE Got(<< >>, s)
      own == [i \in DOMAIN ctes.v |-> [name |-> ctes.v[i].name,
                cols |-> IF ctes.v[i].cols # << >> THEN ctes.v[i].cols ELSE TargetNames(ctes.v[i].q)]]
      scope == [outer EXCEPT !.ctes = @ \o own]
      body == Read("body", ctes.s, scope, <<1, visible>>)
      sort == Read("clause", body.s, body.scope, <<"sort", "ORDER BY">>)
      offset == Read("clause", sort.s, Inner(body.scope), <<"expr", "OFFSET">>)
      limit == ReadLimit(offset.s, Inner(body.scope))
      marks == ReadMarks(limit.s)
      whole == Query(ctes.v, recursive, body.v.body, sort.v, offset.v, limit.v, At(offset.s, "FETCH FIRST"), marks.v)
  IN  CASE At(ctes.s, "UPDATE") -> ReadUpdate(Tail(ctes.s), ctes.v, scope)
        [] ~At(ctes.s, "UPDATE") /\ body.s = Err -> Wrong
        [] OTHER -> IF whole = Only(body.v.body) THEN Got(body.v, marks.s)
                    ELSE Got(whole, IF body.v = Only(body.v.body) THEN marks.s ELSE Err)

Read(what, s, scope, how) ==
  CASE what = "expr" -> LET e == Read("operators", s, scope, 0) IN Got(Whole(e.v), e.s)
    [] what = "item" -> Read("operators", s, scope, 0)
    [] what = "arg" -> LET e == Read("operators", IF At(s, "VARIADIC") THEN Tail(s) ELSE s, scope, 0) IN
                       Got([e |-> e.v, variadic |-> At(s, "VARIADIC")], e.s)
    [] what = "ident" -> IF IsName(s) THEN Got(NameOf(s[1]), Tail(s)) ELSE Wrong
    [] what = "row" -> LET es == Read("many", Skip(s, "("), Inner(scope), "item") IN Got(es.v, Skip(es.s, ")"))
    [] what = "window" ->
         IF ~IsName(s) THEN Wrong
         ELSE LET w == Read("spec", Skip(Skip(Tail(s), "AS"), "("), scope, "") IN
              Got([name |-> NameOf(s[1]), spec |-> w.v], w.s)
    [] what = "sort" -> ReadSort(s, scope)
    [] what = "group" -> ReadGroup(s, scope)
    [] what = "target" -> ReadTarget(s, scope)
    [] what = "coldef" -> ReadColdef(s, scope)
    [] what = "cte" -> ReadCte(s, scope)
    [] what = "assign" -> ReadAssign(s, scope)
    [] what = "from" -> ReadFrom(s, scope)
    [] what = "column" -> ReadColumn(s, scope)
    [] what = "primary" -> ReadPrimary(s, scope)
    [] what = "operators" -> ReadExpr(s, scope, how)
    [] what = "infix" -> ReadInfix(s, scope, how)
    [] what = "bound" -> ReadBound(s, scope)
    [] what = "clause" -> ReadClause(s, scope, how)
    [] what = "after" -> ReadAfter(s, scope, how)
    [] what = "many" -> ReadMany(s, scope, how)
    [] what = "spec" -> ReadSpec(s, scope)
    [] what = "call" -> ReadCall(s, scope, how)
    [] what = "sortable" -> ReadSortable(s, scope)
    [] what = "path" -> ReadPath(s, scope)
    [] what = "subquery" -> ReadSubquery(s, scope, how)
    [] what = "setop" -> ReadSetop(s, scope, how)
    [] what = "body" -> ReadBody(s, scope, how)
    [] what = "query" -> ReadQuery(s, scope, how)

(* The whole of a text.                                                    *)
Outermost == [rels |-> << >>, windows |-> << >>, ctes |-> << >>, out |-> << >>, mode |-> SQL99, recursive |-> FALSE]
ReadText(s) ==
  LET q == Read("query", s, Outermost, TRUE) IN IF q.s = << >> THEN q.v ELSE Star
=============================================================================

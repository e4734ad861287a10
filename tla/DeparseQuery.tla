---------------------------- MODULE DeparseQuery ----------------------------
(***************************************************************************)
(* How a stored query is printed (the ruleutils functions in               *)
(* citus_fn.cpp and pg_ivm_fn.cpp), from the names that DeparseNames gives *)
(* down to the text: as a sequence of tokens, without white space, which   *)
(* is all that the indentation of prettyPrint changes.  pretty is          *)
(* PRETTY_PAREN: parentheses only where they are needed.  A function,      *)
(* type or operator is its name.                                           *)
(***************************************************************************)
EXTENDS Integers, Sequences, SequencesExt, FiniteSets

CONSTANTS
  Columns,       \* table |-> its columns
  Keywords,      \* names that are keywords, other than unreserved ones
  MixedCase,     \* names with an upper-case letter
  Floats         \* numbers that are printed with a point or an exponent

-----------------------------------------------------------------------------
(* Text.                                                                   *)
When(b, s) == IF b THEN s ELSE << >>
Parens(s) == <<"(">> \o s \o <<")">>
ParenIf(b, s) == IF b THEN Parens(s) ELSE s
Commas(ss) ==
  IF ss = << >> THEN << >> ELSE FoldLeft(LAMBDA a, s : a \o <<",">> \o s, ss[1], Tail(ss))

QuoteIdentifier(n) == IF n \in Keywords \cup MixedCase THEN "\"" \o n \o "\"" ELSE n
Idents(ns) == Commas([i \in DOMAIN ns |-> <<QuoteIdentifier(ns[i])>>])
Qualified(need, n) == When(need, <<"s", ".">>) \o <<QuoteIdentifier(n)>>

TypeName(type, typmod) == IF typmod < 0 THEN type ELSE type \o "(3)"
Cast(type, typmod) == <<"::", TypeName(type, typmod)>>

-----------------------------------------------------------------------------
(* The tree.  k is the type of a node; a field that may be absent is a     *)
(* sequence of one or none.  A sort or group reference is the position of  *)
(* its target entry.                                                       *)
Unlisted(e) == e.k \in {"Func", "Agg", "Win"}

(* exprType, exprTypmod: the declared type of what is called or computed.  *)
IsCast(e) == e.k = "Func" /\ e.form # "call"

(* context: the namespaces, innermost first, and what get_query_def sets.  *)
Context(q, ns, pretty) ==
  [ns |-> <<q>> \o ns, pretty |-> pretty, varprefix |-> ns # << >> \/ Len(q.from) # 1,
   windows |-> << >>, wtlist |-> << >>, group |-> FALSE]

GetVariable(v, c, top) ==
  LET ref == <<QuoteIdentifier(c.ns[v.up + 1].from[v.rel].alias)>> IN
  IF v.col = "*" THEN ref \o <<".", "*">> \o When(top, <<"::", c.ns[v.up + 1].from[v.rel].name>>)
  ELSE When(c.varprefix, ref \o <<".">>) \o <<QuoteIdentifier(v.col)>>

FuncName(f, c) == Qualified(c.group /\ f \in {"cube", "rollup"}, f)

RelName(rel, c) ==
  Qualified(\E i \in DOMAIN c.ns : \E j \in DOMAIN c.ns[i].ctes : c.ns[i].ctes[j].name = rel, rel)

-----------------------------------------------------------------------------
(* Constants.                                                              *)
ConstLiteral(k) ==
  CASE k.type = "integer" -> IF k.neg THEN "'-" \o k.v \o "'" ELSE k.v
    [] k.type = "numeric" ->
         IF k.neg THEN "'-" \o k.v \o "'" ELSE IF k.v \in Floats THEN k.v ELSE "'" \o k.v \o "'"
    [] k.type = "boolean" -> k.v
    [] OTHER -> "'" \o k.v \o "'"

NeedLabel(k) ==
  CASE k.type \in {"boolean", "unknown"} -> FALSE
    [] k.type = "integer" -> k.neg
    [] k.type = "numeric" -> k.neg \/ k.v \notin Floats
    [] OTHER -> TRUE

Collation(k) == When(k.coll # "", <<"COLLATE", k.coll>>)

(* showtype is -1 (never), 0 (where needed) or 1 (always).                 *)
ConstExpr(k, showtype) ==
  IF k.v = "NULL" THEN <<"NULL">> \o When(showtype >= 0, Cast(k.type, -1) \o Collation(k))
  ELSE <<ConstLiteral(k)>> \o
       When(showtype >= 0, When(NeedLabel(k) \/ showtype > 0, Cast(k.type, -1)) \o Collation(k))

RangePartboundString(bound) ==
  Parens(Commas([i \in DOMAIN bound |->
    IF bound[i].k = "Const" THEN ConstExpr(bound[i], -1) ELSE <<bound[i].k>>]))

-----------------------------------------------------------------------------
(* Where prettyPrint leaves parentheses out.                               *)
SimpleBinaryOpName(e) == IF Len(e.args) = 2 /\ e.op # "||" THEN e.op ELSE ""

Binding(op) == CASE op \in {"+", "-"} -> 1 [] op = "*" -> 2 [] OTHER -> 0

IsSimpleNode(e, parent, first) ==
  CASE e.k = "Op" /\ parent.k = "Op" ->
         LET b == Binding(SimpleBinaryOpName(e))
             p == Binding(SimpleBinaryOpName(parent))
         IN  b > 0 /\ p > 0 /\ (b > p \/ (b = p /\ first))
    [] e.k \in {"Op", "Sub"} -> parent.k = "Func" /\ parent.form = "call"
    [] OTHER -> TRUE

LooksLikeFunction(e) == e.k = "Func" /\ e.form = "call"

-----------------------------------------------------------------------------
(* Expressions.  show: also implicit casts.                                *)
RECURSIVE RuleExpr(_, _, _), QueryDef(_, _, _, _, _), AggExpr(_, _), WindowSpec(_, _, _)

RuleExprParen(e, c, show, parent, first) ==
  ParenIf(c.pretty /\ ~IsSimpleNode(e, parent, first), RuleExpr(e, c, show))

RuleExprs(es, c, show) == Commas([i \in DOMAIN es |-> RuleExpr(es[i], c, show)])

RuleExprToplevel(e, c, show) ==
  IF e.k = "Var" THEN GetVariable(e, c, TRUE) ELSE RuleExpr(e, c, show)

RuleListToplevel(es, c, show) == Commas([i \in DOMAIN es |-> RuleExprToplevel(es[i], c, show)])

RuleExprFunccall(e, c, show) ==
  IF LooksLikeFunction(e) THEN RuleExpr(e, c, show)
  ELSE <<"CAST", "(">> \o RuleExpr(e, c, FALSE) \o <<"AS", TypeName(e.type, -1), ")">>

OperExpr(e, c) ==
  ParenIf(~c.pretty,
          IF Len(e.args) = 2
          THEN RuleExprParen(e.args[1], c, TRUE, e, TRUE) \o <<e.op>>
                 \o RuleExprParen(e.args[2], c, TRUE, e, FALSE)
          ELSE <<e.op>> \o RuleExprParen(e.args[1], c, TRUE, e, TRUE))

CoercionExpr(arg, c, parent) ==
  (IF arg.k = "Const" /\ arg.type = parent.type
   THEN ConstExpr(arg, -1)
   ELSE ParenIf(~c.pretty, RuleExprParen(arg, c, FALSE, parent, TRUE)))
    \o Cast(parent.type, parent.typmod)

(* VARIADIC stands before the last argument.                               *)
Arguments(es, c, variadic) ==
  Commas([i \in DOMAIN es |-> When(variadic /\ i = Len(es), <<"VARIADIC">>) \o RuleExpr(es[i], c, TRUE)])

FuncExpr(e, c, show) ==
  CASE e.form = "implicit" /\ ~show -> RuleExprParen(e.args[1], c, FALSE, e, TRUE)
    [] e.form # "call" /\ (e.form = "explicit" \/ show) -> CoercionExpr(e.args[1], c, e)
    [] OTHER -> FuncName(e.f, c) \o Parens(Arguments(e.args, c, e.variadic))

Filtered(filter, c) ==
  When(filter # << >>, <<"FILTER", "(", "WHERE">> \o RuleExprs(filter, c, FALSE) \o <<")">>)

-----------------------------------------------------------------------------
(* Sort and group clauses.                                                 *)
\* Mutant: a constant is printed like any other expression.
SortGroupClauseBare(ref, tlist, colno, c) ==
  IF colno THEN <<ToString(ref)>> ELSE RuleExpr(tlist[ref].e, c, TRUE)

SortGroupClause(ref, tlist, colno, c) ==
  LET e == tlist[ref].e IN
  CASE colno -> <<ToString(ref)>>
    [] ~colno /\ e.k = "Const" -> ConstExpr(e, 1)
    [] ~colno /\ e.k = "Var" -> RuleExpr(e, c, TRUE)
    [] OTHER -> ParenIf(c.pretty \/ Unlisted(e), RuleExpr(e, c, TRUE))

OrderByItem(srt, tlist, colno, c) ==
  SortGroupClause(srt.ref, tlist, colno, c) \o
  CASE srt.op = "<" -> When(srt.nullsfirst, <<"NULLS FIRST">>)
    [] srt.op = ">" -> <<"DESC">> \o When(~srt.nullsfirst, <<"NULLS LAST">>)
    [] OTHER -> <<"USING", srt.op, IF srt.nullsfirst THEN "NULLS FIRST" ELSE "NULLS LAST">>

OrderBy(list, tlist, colno, c) ==
  Commas([i \in DOMAIN list |-> OrderByItem(list[i], tlist, colno, c)])

SortGroupClauses(refs, tlist, c) ==
  Commas([i \in DOMAIN refs |-> SortGroupClause(refs[i], tlist, FALSE, c)])

RECURSIVE RuleGroupingSet(_, _, _, _)
RuleGroupingSet(g, tlist, omit, c) ==
  CASE g.kind = "EMPTY" -> <<"(", ")">>
    [] g.kind = "SIMPLE" -> ParenIf(~omit \/ Len(g.content) # 1, SortGroupClauses(g.content, tlist, c))
    [] OTHER ->
         <<g.kind>> \o Parens(Commas([i \in DOMAIN g.content |->
                                        RuleGroupingSet(g.content[i], tlist, g.kind # "GROUPING SETS", c)]))

-----------------------------------------------------------------------------
(* Aggregates and windows.                                                 *)
AggExpr(a, c) ==
  LET shown == SelectSeq(a.args, LAMBDA t : ~t.junk) IN
  FuncName(a.f, c) \o <<"(">> \o When(a.distinct, <<"DISTINCT">>) \o
  (IF a.direct # << >>
   THEN RuleExprs(a.direct, c, TRUE) \o <<")", "WITHIN GROUP", "(", "ORDER BY">>
          \o OrderBy(a.order, a.args, FALSE, c)
   ELSE (IF a.star THEN <<"*">>
         ELSE Arguments([i \in DOMAIN shown |-> shown[i].e], c, a.variadic))
          \o When(a.order # << >>, <<"ORDER BY">> \o OrderBy(a.order, a.args, FALSE, c)))
    \o <<")">> \o Filtered(a.filter, c)

FrameBound(b, c, dir) ==
  CASE b.kind = "unbounded" -> <<"UNBOUNDED", dir>>
    [] b.kind = "current" -> <<"CURRENT ROW">>
    [] OTHER -> RuleExprs(b.e, c, FALSE) \o <<b.dir>>

Frame(f, c) ==
  <<f.mode>> \o When(f.end # << >>, <<"BETWEEN">>) \o FrameBound(f.start, c, "PRECEDING")
    \o (IF f.end # << >> THEN <<"AND">> \o FrameBound(f.end[1], c, "FOLLOWING") ELSE << >>)
    \o When(f.exclude # "", <<"EXCLUDE", f.exclude>>)

WindowSpec(w, tlist, c) ==
  Parens(When(w.ref # "", <<QuoteIdentifier(w.ref)>>)
         \o When(w.part # << >> /\ w.ref = "", <<"PARTITION BY">> \o SortGroupClauses(w.part, tlist, c))
         \o When(w.order # << >> /\ ~w.copied, <<"ORDER BY">> \o OrderBy(w.order, tlist, FALSE, c))
         \o (IF w.frame # << >> THEN Frame(w.frame[1], c) ELSE << >>))

WindowClause(q, c) ==
  LET named == SelectSeq(q.windows, LAMBDA w : w.name # "")
      Text(w) == <<QuoteIdentifier(w.name), "AS">> \o WindowSpec(w, q.tlist, c)
  IN  When(named # << >>, <<"WINDOW">> \o Commas([i \in DOMAIN named |-> Text(named[i])]))

WindowfuncExpr(e, c) ==
  FuncName(e.f, c) \o Parens(IF e.star THEN <<"*">> ELSE RuleExprs(e.args, c, TRUE))
    \o Filtered(e.filter, c) \o <<"OVER">> \o
  (IF e.winref \notin DOMAIN c.windows THEN <<"(", "?", ")">>
   ELSE LET w == c.windows[e.winref] IN
        IF w.name # "" THEN <<QuoteIdentifier(w.name)>> ELSE WindowSpec(w, c.wtlist, c))

(* test: the left operands of the operators that combine the rows.         *)
SublinkExpr(s, c) ==
  LET test == IF s.row THEN Parens(RuleExprs(s.test, c, TRUE)) ELSE RuleExprs(s.test, c, TRUE)
      link == CASE s.kind = "EXISTS" -> <<"EXISTS">>
                [] s.kind = "ANY" -> IF s.op = "=" THEN <<"IN">> ELSE <<s.op, "ANY">>
                [] s.kind = "ALL" -> <<s.op, "ALL">>
                [] s.kind = "ROWCOMPARE" -> <<s.op>>
                [] OTHER -> << >>
      sub == QueryDef(s.q, c.ns, c.pretty, FALSE, << >>)
  IN  When(s.kind = "ARRAY", <<"ARRAY">>)
        \o Parens(test \o link \o ParenIf(s.kind \notin {"EXPR", "MULTIEXPR", "ARRAY"}, sub))

RuleExpr(e, c, show) ==
  CASE e.k = "Var" -> GetVariable(e, c, FALSE)
    [] e.k = "Const" -> ConstExpr(e, 0)
    [] e.k = "Op" -> OperExpr(e, c)
    [] e.k = "Func" -> FuncExpr(e, c, show)
    [] e.k = "Row" -> <<"ROW">> \o Parens(RuleListToplevel(e.args, c, TRUE))
    [] e.k = "Agg" -> AggExpr(e, c)
    [] e.k = "Win" -> WindowfuncExpr(e, c)
    [] e.k = "Sub" -> SublinkExpr(e, c)
    [] e.k = "domain" ->
         IF e.form = "implicit" /\ ~show THEN RuleExpr(e.arg, c, FALSE) ELSE CoercionExpr(e.arg, c, e)
    [] OTHER -> <<"$1">>

-----------------------------------------------------------------------------
(* FROM.                                                                   *)
ColumnAliasList(names) == When(names # << >>, Parens(Idents(names)))

FromClauseColdeflist(cols) ==
  Parens(Commas([i \in DOMAIN cols |-> <<QuoteIdentifier(cols[i].name), TypeName(cols[i].type, -1)>>
                                         \o Collation(cols[i])]))

TablesampleDef(ts, c) ==
  <<"TABLESAMPLE">> \o FuncName(ts.method, [c EXCEPT !.group = FALSE]) \o Parens(RuleExprs(ts.args, c, FALSE))
    \o When(ts.repeatable # << >>, <<"REPEATABLE">> \o Parens(RuleExprs(ts.repeatable, c, FALSE)))

ValuesDef(lists, c) ==
  <<"VALUES">> \o Commas([i \in DOMAIN lists |-> Parens(RuleListToplevel(lists[i], c, FALSE))])

(* get_from_clause_item: what stands for the item, its alias and columns.  *)
FromClauseItem(item, c) ==
  (CASE item.kind = "table" -> RelName(item.name, c)
     [] item.kind = "cte" -> <<QuoteIdentifier(item.name)>>
     [] item.kind = "values" -> Parens(ValuesDef(item.lists, c))
     [] item.kind = "func" -> RuleExprFunccall(item.call[1], c, TRUE)
     [] item.kind = "sub" -> Parens(QueryDef(item.q[1], c.ns, c.pretty, TRUE, << >>)))
    \o <<"AS", QuoteIdentifier(item.alias)>>
    \o (IF item.coldefs # << >> THEN FromClauseColdeflist(item.coldefs) ELSE ColumnAliasList(item.cols))
    \o (IF item.sample # << >> THEN TablesampleDef(item.sample[1], c) ELSE << >>)

FromClause(q, prefix, c) ==
  LET shown == SelectSeq(q.from, LAMBDA item : item.infrom) IN
  When(shown # << >>, <<prefix>> \o Commas([i \in DOMAIN shown |-> FromClauseItem(shown[i], c)]))

-----------------------------------------------------------------------------
(* SELECT.  result: the names of the columns of the view, if it is one.    *)
TargetName(q, i, result) == IF i \in DOMAIN result THEN result[i] ELSE q.tlist[i].name

SimpleValuesRte(q, result) ==
  LET values == {i \in DOMAIN q.from : q.from[i].kind = "values" /\ q.from[i].infrom}
      others == {i \in DOMAIN q.from \ values : q.from[i].kind # "table" \/ q.from[i].infrom}
      cols == IF values = {} THEN << >> ELSE q.from[CHOOSE i \in values : TRUE].names
  IN  IF /\ Cardinality(values) = 1 /\ others = {}
         /\ Len(cols) = Len(q.tlist)
         /\ \A i \in DOMAIN q.tlist : ~q.tlist[i].junk /\ TargetName(q, i, result) = cols[i]
      THEN values ELSE {}

(* The junk entries come last.                                             *)
TargetList(q, c, visible, result) ==
  LET shown == SelectSeq(q.tlist, LAMBDA t : ~t.junk)
      Attname(e) == IF e.k = "Var" THEN IF e.col = "*" THEN << >> ELSE <<e.col>>
                    ELSE IF visible THEN << >> ELSE <<"?column?">>
      Target(i) ==
        LET e == shown[i].e
            name == TargetName(q, i, result)
        IN  RuleExprToplevel(e, c, TRUE) \o When(Attname(e) # <<name>>, <<"AS", QuoteIdentifier(name)>>)
  IN  Commas([i \in DOMAIN shown |-> Target(i)])

Distinct(q, c) ==
  CASE q.distinct = "no" -> << >>
    [] q.distinct = "all" -> <<"DISTINCT">>
    [] OTHER -> <<"DISTINCT", "ON">> \o Parens(SortGroupClauses(q.distincton, q.tlist, c))

GroupClause(q, c) ==
  LET cg == [c EXCEPT !.group = TRUE] IN
  When(q.group # << >> \/ q.sets # << >>,
       <<"GROUP BY">> \o When(q.groupdistinct, <<"DISTINCT">>) \o
       IF q.sets = << >> THEN SortGroupClauses(q.group, q.tlist, cg)
       ELSE Commas([i \in DOMAIN q.sets |-> RuleGroupingSet(q.sets[i], q.tlist, TRUE, cg)]))

Qual(word, e, c) == When(e # << >>, <<word>> \o RuleExprs(e, c, FALSE))

BasicSelectQuery(q, c, visible, result) ==
  LET values == SimpleValuesRte(q, result) IN
  IF values # {} THEN ValuesDef(q.from[CHOOSE i \in values : TRUE].lists, c)
  ELSE <<"SELECT">> \o Distinct(q, c) \o TargetList(q, c, visible, result)
         \o FromClause(q, "FROM", c) \o Qual("WHERE", q.where, c) \o GroupClause(q, c)
         \o Qual("HAVING", q.having, c) \o WindowClause(q, c)

NeedsParens(q) == \/ q.ctes # << >> \/ q.sort # << >> \/ q.marks # << >>
                  \/ q.offset # << >> \/ q.limit # << >>

SameSetop(a, b) == a.k = "setop" /\ b.k = "setop" /\ a.op = b.op /\ a.all = b.all

RECURSIVE SetopQuery(_, _, _, _, _)
SetopQuery(s, q, c, visible, result) ==
  IF s.k = "leaf"
  THEN LET sub == q.from[s.i].q[1] IN
       ParenIf(NeedsParens(sub), QueryDef(sub, c.ns, c.pretty, visible, result))
  ELSE ParenIf(s.l.k = "setop" /\ ~SameSetop(s.l, s), SetopQuery(s.l, q, c, visible, result))
         \o <<s.op>> \o When(s.all, <<"ALL">>)
         \o ParenIf(s.r.k = "setop", SetopQuery(s.r, q, c, FALSE, result))

WithClause(q, c) ==
  LET Cte(t) ==
        <<QuoteIdentifier(t.name)>> \o ColumnAliasList(t.cols) \o <<"AS">>
          \o When(t.materialized # "", <<t.materialized>>)
          \o Parens(QueryDef(t.q, c.ns, c.pretty, TRUE, << >>))
          \o When(t.search # << >>, <<"SEARCH">> \o t.search)
          \o When(t.cycle # << >>, <<"CYCLE">> \o t.cycle)
  IN  When(q.ctes # << >>,
           <<"WITH">> \o When(q.recursive, <<"RECURSIVE">>)
             \o Commas([i \in DOMAIN q.ctes |-> Cte(q.ctes[i])]))

LimitClauses(q, c) ==
  Qual("OFFSET", q.offset, c) \o
  CASE q.limit = << >> -> << >>
    [] q.limit # << >> /\ q.ties -> <<"FETCH FIRST">> \o RuleExprs(q.limit, c, FALSE) \o <<"ROWS WITH TIES">>
    [] OTHER -> <<"LIMIT">> \o IF q.limit[1].k = "Const" /\ q.limit[1].v = "NULL" THEN <<"ALL">>
                               ELSE RuleExprs(q.limit, c, FALSE)

LockingClauses(q) ==
  LET shown == SelectSeq(q.marks, LAMBDA m : ~m.pushed)
      Mark(m) == <<"FOR", m.strength, "OF", QuoteIdentifier(q.from[m.rel].alias)>>
                   \o When(m.wait # "", <<m.wait>>)
  IN  FlattenSeq([i \in DOMAIN shown |-> Mark(shown[i])])

SelectQueryDef(q, context, visible, result) ==
  LET c == [context EXCEPT !.windows = q.windows, !.wtlist = q.tlist] IN
  WithClause(q, c)
    \o (IF q.setop # << >> THEN SetopQuery(q.setop[1], q, c, visible, result)
        ELSE BasicSelectQuery(q, c, visible, result))
    \o When(q.sort # << >>, <<"ORDER BY">> \o OrderBy(q.sort, q.tlist, q.setop # << >>, c))
    \o LimitClauses(q, c) \o LockingClauses(q)

-----------------------------------------------------------------------------
(* The assignments of an UPDATE.  A store to a field or to an element of a *)
(* column is a node around the value; multi is the parameter that stands   *)
(* for a column of a row that is assigned at once.                         *)
IsAssignment(e) == e.k \in {"field", "element"} \/ (e.k = "domain" /\ e.form = "implicit")

RECURSIVE Assigned(_), ProcessIndirection(_, _)
Assigned(e) == IF IsAssignment(e) THEN Assigned(e.arg) ELSE e

StripImplicit(e) == IF IsCast(e) /\ e.form = "implicit" THEN e.args[1] ELSE e

Subscripts(e, c) ==
  LET Bound(b) == RuleExprs(b, c, FALSE) IN
  FlattenSeq([i \in DOMAIN e.upper |->
    <<"[">> \o (IF i \in DOMAIN e.lower THEN Bound(e.lower[i]) \o <<":">> ELSE << >>)
            \o Bound(e.upper[i]) \o <<"]">>])

(* What is printed after the name of the column, and what is assigned.     *)
ProcessIndirection(e, c) ==
  IF e.k = "domain" /\ e.form = "implicit" /\ e.arg.k \notin {"field", "element", "domain"}
  THEN [text |-> << >>, value |-> e]
  ELSE IF IsAssignment(e)
  THEN LET below == ProcessIndirection(e.arg, c) IN
       [below EXCEPT !.text =
          (CASE e.k = "field" -> <<".", QuoteIdentifier(e.name)>>
             [] e.k = "element" -> Subscripts(e, c)
             [] OTHER -> << >>) \o @]
  ELSE [text |-> << >>, value |-> e]

NonjunkEntries(q) == Len(SelectSeq(q.tlist, LAMBDA t : ~t.junk))

UpdateTargetlistDef(q, c) ==
  LET isMulti(t) == t.junk /\ t.e.k = "Sub" /\ t.e.kind = "MULTIEXPR"
      sublinks == SelectSeq(q.tlist, isMulti)
      shown == SelectSeq(q.tlist, LAMBDA t : ~t.junk)
      Entry(st, t) ==
        LET starts == st.next <= Len(sublinks) /\ st.left = 0
                        /\ StripImplicit(Assigned(t.e)).k = "multi"
            left == IF starts THEN NonjunkEntries(sublinks[st.next].e.q) ELSE st.left
            cur == IF starts THEN st.next ELSE st.cur
            target == ProcessIndirection(t.e, c)
        IN  [text |-> st.text \o When(st.text # << >>, <<",">>) \o When(starts, <<"(">>)
                        \o <<QuoteIdentifier(t.name)>> \o target.text
                        \o CASE left > 1 -> << >>
                             [] left = 1 -> <<")", "=">> \o RuleExpr(sublinks[cur].e, c, FALSE)
                             [] OTHER -> <<"=">> \o RuleExpr(target.value, c, FALSE),
             next |-> IF starts THEN st.next + 1 ELSE st.next,
             cur |-> cur,
             left |-> IF left = 0 THEN 0 ELSE left - 1]
  IN  FoldLeft(Entry, [text |-> << >>, next |-> 1, cur |-> 0, left |-> 0], shown).text

UpdateQueryDef(q, c) ==
  WithClause(q, c) \o <<"UPDATE">> \o RelName(q.from[1].name, c) \o <<"AS", QuoteIdentifier(q.from[1].alias), "SET">>
    \o UpdateTargetlistDef(q, c) \o FromClause(q, "FROM", c) \o Qual("WHERE", q.where, c)

QueryDef(q, ns, pretty, visible, result) ==
  LET c == Context(q, ns, pretty) IN
  IF q.command = "UPDATE" THEN UpdateQueryDef(q, c) ELSE SelectQueryDef(q, c, visible, result)
=============================================================================

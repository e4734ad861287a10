----------------------------- MODULE MCQueries -----------------------------
(***************************************************************************)
(* What the analyzed functions do with a query, one of four: the FROM      *)
(* clause of a stored query is named (DeparseNames), a stored query is     *)
(* printed (DeparseQuery), a query is planned (JoinSearch), or a plan is   *)
(* explained (PlanReferences).                                             *)
(***************************************************************************)
EXTENDS DeparseNames, TLC

CONSTANT NoRow

(* Two or three tables, joined in every way with USING, named or not, with *)
(* column aliases or not.                                                  *)
A == <<"a">>
B == <<"b">>
A1 == <<"a", 1>>
MCTables == {"t", "u", "v"}
MCColumns == [t |-> <<A, B>>, u |-> <<B>>, v |-> <<A, NoName, B>>]
MCNewNames == {A, A1}
MCNewRelNames == {<<"t">>}
MCOuterNames == {{}, {<<"t">>, <<"t", 1>>}}

Table(t) == [kind |-> "table", table |-> t, alias |-> NoName, cols |-> << >>]
Aliased(t, cs) == [kind |-> "table", table |-> t, alias |-> <<"x">>, cols |-> cs]
Join(l, r, us, full, alias, cs) ==
  [kind |-> "join", left |-> l, right |-> r, using |-> us, full |-> full, alias |-> alias, cols |-> cs]

Usings == {<< >>, <<A>>, <<B, A>>}
Aliases == {<<NoName, << >>>>, <<<<"j">>, << >>>>, <<<<"j">>, <<B>>>>}
Outers == {<<NoName, << >>>>, <<<<"k">>, <<A1>>>>}
Joins(l, r, as) ==
  {Join(l, r, us, full, a[1], a[2]) : us \in Usings, full \in BOOLEAN, a \in as}

(* (t JOIN u) JOIN v, v JOIN (t JOIN u), and (t JOIN u), v.                *)
Trees ==
  {<<Table("t"), l, Table("v"), j, k>> :
     l \in {Table("u"), Aliased("t", <<B, A>>)}, j \in Joins(1, 2, Aliases),
     k \in Joins(3, 4, Outers) \cup Joins(4, 3, Outers)}
Lists ==
  {<<Table("t"), l, j, Table("v")>> :
     l \in {Table("u"), Aliased("t", <<B, A>>)}, j \in Joins(1, 2, Aliases)}
MCQueries == Trees \cup Lists

-----------------------------------------------------------------------------
(* Plans: partial aggregates over nested loops and a partitioned table;    *)
(* common table expressions, one of them recursive, with records; subplans *)
(* in subplans; the other kinds of scans; the body of a function.          *)
PlanNode(type, tlist, up) ==
  [type |-> type, tlist |-> tlist, up |-> up, quals |-> << >>, scan |-> FALSE, outer |-> 0, inner |-> 0,
   kids |-> << >>, sub |-> 0, cte |-> 0, wt |-> 0, merge |-> FALSE, excluded |-> << >>, index |-> << >>,
   params |-> << >>, initplans |-> << >>, apprelids |-> {}]
ScanOf(type, tlist, up, quals) == [PlanNode(type, tlist, up) EXCEPT !.scan = TRUE, !.quals = quals]
Over(type, tlist, up, outer) == [PlanNode(type, tlist, up) EXCEPT !.outer = outer]
JoinOf(type, tlist, up, outer, inner) == [Over(type, tlist, up, outer) EXCEPT !.inner = inner]
SubPlan(up, params) == [PlanNode("SubPlan", << >>, up) EXCEPT !.params = params]
PlanOf(nodes) ==
  [nodes |-> nodes, subplans |-> << >>, parent |-> [r \in {"v1", "v2"} |-> "v"],
   argnames |-> << >>, funcname |-> "f", rtables |-> << >>]

Vr(rel, col, n) == [k |-> "Var", rel |-> rel, col |-> col, n |-> n]
In(which, n) == [k |-> "Var", rel |-> which, col |-> n]
Prm(id) == [k |-> "Param", id |-> id]
Op2(a, b) == [k |-> "Op", op |-> "=", args |-> <<a, b>>]
AggOf(split, a) == [k |-> "Agg", f |-> "sum", split |-> split, args |-> <<a>>]
RecordOf(a, b) == [k |-> "Record", names |-> <<"f1", "f2">>, args |-> <<a, b>>]
FieldOf(a, n) == [k |-> "Field", args |-> <<a>>, n |-> n]
Sub(id) == [k |-> "SubPlan", id |-> id]
Extern(n) == [k |-> "Extern", n |-> n, id |-> ToString(n)]
Assign(id, e) == [id |-> id, value |-> e]

Partials == PlanOf(<<
  [Over("Agg", <<AggOf("combine", In("OUTER", 1)), In("OUTER", 2)>>, 0, 2)
     EXCEPT !.quals = <<Op2(AggOf("combine", In("OUTER", 1)), In("OUTER", 2))>>],
  Over("Gather", <<In("OUTER", 1), In("OUTER", 2)>>, 1, 3),
  Over("Agg", <<AggOf("partial", Op2(In("OUTER", 1), In("OUTER", 2))), In("OUTER", 2)>>, 2, 4),
  [JoinOf("NestLoop", <<In("INNER", 2), In("OUTER", 2)>>, 3, 5, 6)
     EXCEPT !.params = <<Assign("0", In("OUTER", 1)), Assign("1", In("OUTER", 2))>>],
  ScanOf("SeqScan", <<Vr("t", "a", 1), Op2(Vr("t", "a", 1), Vr("t", "b", 2))>>, 4, <<Op2(Vr("t", "a", 1), Prm("9"))>>),
  [JoinOf("NestLoop", <<In("OUTER", 1), In("INNER", 2)>>, 4, 7, 8)
     EXCEPT !.params = <<Assign("2", In("OUTER", 1)), Assign("3", Op2(In("OUTER", 1), Prm("1")))>>],
  [ScanOf("IndexOnlyScan", <<In("INDEX", 1)>>, 6, <<Op2(In("INDEX", 1), Prm("0"))>>) EXCEPT !.index = <<Vr("u", "c", 1)>>],
  [PlanNode("Append", <<In("OUTER", 2), In("OUTER", 1)>>, 6) EXCEPT !.kids = <<9, 10>>, !.apprelids = {"v"}],
  ScanOf("IndexScan", <<Vr("v1", "d", 1), Vr("v1", "e", 2)>>, 8, <<Op2(Vr("v1", "d", 1), Prm("1")), Op2(Prm("2"), Prm("0"))>>),
  ScanOf("IndexScan", <<Vr("v2", "d", 1), Vr("v2", "e", 2)>>, 8, <<Op2(Vr("v2", "d", 1), Prm("3"))>>)>>)

Recursion == [PlanOf(<<
  [JoinOf("HashJoin", <<In("INNER", 1), FieldOf(In("OUTER", 1), 2), Sub("2"), FieldOf(In("INNER", 2), 1)>>, 0, 2, 3)
     EXCEPT !.initplans = <<1>>, !.quals = <<Op2(FieldOf(In("OUTER", 1), 1), In("INNER", 1))>>],
  [ScanOf("CteScan", <<Vr("r", "x", 1)>>, 1, <<Op2(FieldOf(Vr("r", "x", 1), 2), Prm("7"))>>) EXCEPT !.cte = 1],
  [ScanOf("SubqueryScan", <<Vr("s", "y", 1), Vr("s", "z", 2)>>, 1, <<FieldOf(Vr("s", "z", 2), 2)>>) EXCEPT !.sub = 4, !.scan = FALSE],
  ScanOf("ForeignScan", <<In("INDEX", 2), RecordOf(In("INDEX", 1), In("INDEX", 2))>>, 3, << >>),
  [JoinOf("RecursiveUnion", <<In("OUTER", 1)>>, 9, 6, 7) EXCEPT !.wt = "w"],
  PlanNode("Result", <<RecordOf(Prm("7"), Prm("8"))>>, 5),
  [ScanOf("WorkTableScan", <<RecordOf(FieldOf(Vr("r", "x", 1), 2), FieldOf(Vr("r", "x", 1), 1))>>, 5, << >>) EXCEPT !.wt = "w"],
  ScanOf("SeqScan", <<Vr("w", "g", 1)>>, 10, <<Op2(FieldOf(Prm("10"), 2), Prm("11"))>>),
  SubPlan(1, << >>),
  SubPlan(1, <<Assign("10", In("INNER", 2)), Assign("11", In("INNER", 1))>>)>>) EXCEPT !.subplans = <<5, 8>>, !.nodes[4].index = <<Vr("t", "a", 1), Vr("u", "c", 1)>>]

Subplans == [PlanOf(<<
  [JoinOf("NestLoop", <<In("OUTER", 1), In("INNER", 1)>>, 0, 2, 3) EXCEPT !.params = <<Assign("0", In("OUTER", 1))>>],
  [PlanNode("MergeAppend", <<In("OUTER", 1)>>, 1) EXCEPT !.kids = <<4, 4>>, !.apprelids = {"v"}],
  [ScanOf("IndexScan", <<Vr("u", "c", 1)>>, 1, <<Op2(Vr("u", "c", 1), Prm("0")), Op2(Sub("1"), Prm("3"))>>) EXCEPT !.initplans = <<3>>],
  ScanOf("SeqScan", <<Op2(Vr("v1", "d", 1), Vr("v1", "e", 2))>>, 2, << >>),
  [JoinOf("NestLoop", <<In("INNER", 1), FieldOf(Prm("5"), 2)>>, 9, 6, 7) EXCEPT !.params = <<Assign("4", In("OUTER", 1))>>],
  ScanOf("SeqScan", <<Vr("t", "a", 1)>>, 5, <<Op2(Sub("2"), Prm("1")), Op2(Vr("t", "a", 1), Prm("2"))>>),
  ScanOf("SeqScan", <<Vr("w", "g", 1)>>, 5, <<Op2(Prm("4"), Prm("1")), FieldOf(Prm("5"), 1)>>),
  ScanOf("SeqScan", <<Vr("x", "h", 1)>>, 10, <<Op2(Prm("6"), Prm("1"))>>),
  SubPlan(3, <<Assign("1", Prm("0")), Assign("2", Vr("u", "c", 1)), Assign("5", RecordOf(Vr("u", "c", 1), Prm("0")))>>),
  SubPlan(6, <<Assign("6", Op2(Vr("t", "a", 1), Prm("2")))>>), 
  SubPlan(3, << >>)>>) EXCEPT !.subplans = <<5, 8, 4>>]

Upsert == PlanOf(<<
  [Over("ModifyTable", <<Vr("t", "a", 1)>>, 0, 2)
     EXCEPT !.excluded = <<Vr("excluded", "a", 1), Vr("excluded", "b", 2)>>, !.quals = <<Op2(Vr("t", "b", 2), In("INNER", 2))>>],
  PlanNode("Result", <<Prm("7")>>, 1)>>)

Body(argnames, rtables) ==
  [PlanOf(<<[PlanNode("Result", << >>, 0) EXCEPT !.quals = <<Extern(1), Extern(2), Extern(3)>>]>>)
     EXCEPT !.argnames = argnames, !.rtables = rtables]
Bodies == {<<<<"x", "">>, <<{}>>>>, <<<<"x", "y">>, <<{"x"}, {}>>>>, <<<<"", "x">>, <<{}, {"x", "y"}>>>>}

(* A subquery of a MERGE action: its parameter is a column of the source.  *)
Merge == PlanOf(<<
  [Over("ModifyTable", << >>, 0, 2) EXCEPT !.merge = TRUE],
  JoinOf("HashJoin", <<In("OUTER", 1), In("INNER", 1)>>, 1, 3, 4),
  ScanOf("SeqScan", <<Vr("t", "a", 1)>>, 2, << >>),
  ScanOf("SeqScan", <<Vr("s", "b", 1)>>, 2, << >>),
  ScanOf("SeqScan", <<Vr("u", "c", 1)>>, 6, <<Op2(Vr("u", "c", 1), Prm("0"))>>),
  SubPlan(1, <<Assign("0", In("INNER", 2))>>)>>)

MCPlans == <<Partials, Recursion, Subplans, Upsert>> \o SetToSeq({Body(b[1], b[2]) : b \in Bodies}) \o <<Merge>>

-----------------------------------------------------------------------------

VARIABLES query, tables, root, rels, todo, levels, pairs, step, view, text, plan, at, dpns, shown
search == <<query, tables, root, rels, todo, levels, pairs, step>>
texts == <<view, text>>
explained == <<plan, at, dpns, shown>>

Sample == INSTANCE SampleQueries WITH Rels <- 1 .. 5
Search == INSTANCE JoinSearch WITH Rels <- 1 .. 5, Cases <- Sample!SampleCases, phase <- step

TextColumns ==
  [x \in {"t", "u", "order"} |-> CASE x = "t" -> <<"a", "b">> [] x = "u" -> <<"c">> [] OTHER -> <<"Mixed">>]
TextNames ==
  {"a", "b", "c", "d", "f", "g", "h", "i", "k", "m", "n", "r", "s", "t", "u", "v", "w", "x", "y", "z",
   "T", "Mixed", "order", "s1", "s2", "row", "cube", "count", "sum", "mode", "column1", "column2",
   "?column?", "*VALUES*"}
Text == INSTANCE SampleTexts WITH
  Columns <- TextColumns, Keywords <- {"order"}, MixedCase <- {"T", "Mixed", "*VALUES*", "?column?"},
  Floats <- {"1.5"}, Names <- TextNames, Numbers <- {"1", "2", "1.5"}, Strings <- {"x", "y"}

Explaining == INSTANCE PlanReferences WITH Plans <- MCPlans

Idle == << >>
NoSearch ==
  /\ query = Idle /\ tables = Idle /\ root = Idle /\ rels = Idle
  /\ todo = Idle /\ levels = Idle /\ pairs = Idle /\ step = "idle"
NoDeparse ==
  /\ relname = Idle /\ attrs = Idle /\ rtable = Idle /\ from = Idle /\ parents = Idle
  /\ names = Idle /\ colinfo = Idle /\ using = Idle /\ alters = 0 /\ phase = "idle"
NoText == view = Idle /\ text = Idle
NoPlan == plan = 0 /\ at = 0 /\ dpns = Idle /\ shown = Idle

(* The last plan has a run of its own, MergeSpec.                          *)
QueriesInit ==
  \/ Init /\ NoSearch /\ NoText /\ NoPlan
  \/ NoDeparse /\ Search!Init /\ NoText /\ NoPlan
  \/ NoDeparse /\ NoSearch /\ Text!TextsInit /\ NoPlan
  \/ NoDeparse /\ NoSearch /\ NoText /\ Explaining!PlansInit /\ plan < Len(MCPlans)
QueriesNext ==
  \/ Next /\ UNCHANGED <<search, texts, explained>>
  \/ Search!Next /\ UNCHANGED <<vars, texts, explained>>
  \/ Text!TextsNext /\ UNCHANGED <<vars, search, explained>>
  \/ plan # 0 /\ Explaining!PlansNext /\ UNCHANGED <<vars, search, texts>>
QueriesSpec == QueriesInit /\ [][QueriesNext]_<<vars, search, texts, explained>>

(* Some plan is found, and all plans give the rows that are asked for, as  *)
(* JoinSearch states it.                                                   *)
JoinFound == step # "idle" => Search!JoinFound
PathsAgree == step # "idle" => Search!PathsAgree

(* What is printed of a query reads back as that query, as SampleTexts     *)
(* states it.                                                              *)
TextReadsBack == Text!TextReadsBack

(* What is shown of a plan is what its expressions mean, as PlanReferences *)
(* states it.                                                              *)
ReferencesRead == plan # 0 => Explaining!ReferencesRead

-----------------------------------------------------------------------------
(* A subquery whose left operand is itself an operator.                    *)
SublinkSpec ==
  /\ NoDeparse /\ NoSearch /\ view = Text!ComparedTest /\ text = Idle /\ NoPlan
  /\ [][QueriesNext]_<<vars, search, texts, explained>>

(* Parentheses are added where a node does not embrace its argument: "any  *)
(* node that does *not* embrace its argument node by sql syntax [...]      *)
(* should use get_rule_expr_paren instead of get_rule_expr so parentheses  *)
(* can be added" (citus_fn.cpp:2329-2332).                                 *)
OperandsEmbraced == Text!TextReadsBack

-----------------------------------------------------------------------------
(* The plan of a MERGE.                                                    *)
MergeSpec ==
  /\ NoDeparse /\ NoSearch /\ NoText /\ Explaining!PlansInit /\ plan = Len(MCPlans)
  /\ [][QueriesNext]_<<vars, search, texts, explained>>

(* A column of a MERGE's source is shown as that column: "For MERGE, make  *)
(* the inner tlist point to the merge source tlist" (citus_fn.cpp:494) and *)
(* "When expanding an OUTER_VAR or INNER_VAR reference, we must adjust the *)
(* deparse context in case the referenced expression itself uses           *)
(* OUTER_VAR/INNER_VAR" (citus_fn.cpp:563-565).                            *)
SourceReferencesRead == Explaining!ReferencesRead
=============================================================================

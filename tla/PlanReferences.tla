--------------------------- MODULE PlanReferences ---------------------------
(***************************************************************************)
(* How an expression of a plan is printed (the ruleutils functions in      *)
(* citus_fn.cpp and pg_ivm_fn.cpp).  In a plan, a Var names a column of an *)
(* input (OUTER, INNER) or of what is scanned (INDEX), and a parameter     *)
(* stands for an expression of a plan above: each is printed as the        *)
(* expression it comes from, which is printed in turn with the attention   *)
(* (dpns) on the plan it belongs to.  dpns is changed in place, and put    *)
(* back afterwards.                                                        *)
(*                                                                         *)
(* A plan is a sequence of nodes; 0 stands for no plan.  The SubPlan nodes *)
(* of its expressions are at the end of the sequence, and up is the node   *)
(* that EXPLAIN comes from.                                                *)
(***************************************************************************)
EXTENDS Integers, Sequences, SequencesExt, FiniteSetsExt

CONSTANT Plans     \* a sequence of plans, each with its nodes, its subplans, and what else it needs

VARIABLES plan,    \* the one that is explained
          at,      \* the node that is shown
          dpns,    \* the topmost deparse_namespace
          shown    \* the texts of the node's expressions, so far
planvars == <<plan, at, dpns, shown>>

P == Plans[plan]
Node(p) == P.nodes[p]
Appends == {"Append", "MergeAppend"}
SpecialVarnos == {"OUTER", "INNER", "INDEX"}
IsSpecial(e) == e.k = "Var" /\ e.rel \in SpecialVarnos

ParenIf(b, text) == IF b THEN <<"(">> \o text \o <<")">> ELSE text
Commas(texts) ==
  IF texts = << >> THEN << >> ELSE FoldLeft(LAMBDA a, t : a \o <<",">> \o t, texts[1], Tail(texts))

-----------------------------------------------------------------------------
(* The attention.                                                          *)
FindRecursiveUnion(ancestors, wt) ==
  CHOOSE i \in DOMAIN ancestors : Node(ancestors[i]).type = "RecursiveUnion" /\ Node(ancestors[i]).wt = wt

OuterPlan(n) == IF n.type \in Appends THEN n.kids[1] ELSE n.outer
InnerPlan(n, p, ancestors) ==
  CASE n.type = "SubqueryScan" -> n.sub
    [] n.type = "CteScan" -> P.subplans[n.cte]
    [] n.type = "WorkTableScan" -> ancestors[FindRecursiveUnion(ancestors, n.wt)]
    [] n.type = "ModifyTable" -> p
    [] OTHER -> n.inner

(* tlist of no plan is NIL; index is the tlist of an index-only, foreign   *)
(* or custom scan.                                                         *)
Targets(p) == IF p = 0 THEN << >> ELSE Node(p).tlist
InnerTlist(n, inner) ==
  CASE n.type # "ModifyTable" -> Targets(inner)
    [] n.merge -> Targets(OuterPlan(n))
    [] OTHER -> n.excluded
Attention(p, n, ancestors, outer, inner) ==
  [plan |-> p, ancestors |-> ancestors, outer |-> outer, inner |-> inner,
   outertlist |-> Targets(outer), innertlist |-> InnerTlist(n, inner), indextlist |-> n.index]
SetDeparsePlan(ancestors, p) ==
  Attention(p, Node(p), ancestors, OuterPlan(Node(p)), InnerPlan(Node(p), p, ancestors))

PushChildPlan(d, p) == SetDeparsePlan(<<d.plan>> \o d.ancestors, p)
\* Mutant: the list cell that push_child_plan added stays.
PopChildPlanKeeping(d, save) == [save EXCEPT !.ancestors = d.ancestors]
PopChildPlan(d, save) == [save EXCEPT !.ancestors = Tail(d.ancestors)]
PushAncestorPlan(d, i) ==
  SetDeparsePlan(SubSeq(d.ancestors, i + 1, Len(d.ancestors)), d.ancestors[i])
PopAncestorPlan(d, save) == save

-----------------------------------------------------------------------------
(* Parameters.  child_plan is the last plan passed on the way up.          *)
IsSubPlan(d, i) == Node(d.ancestors[i]).type = "SubPlan"
ChildPlan(d, i) ==
  LET f[j \in 1 .. i] == IF j = 1 THEN d.plan ELSE IF IsSubPlan(d, j - 1) THEN f[j - 1] ELSE d.ancestors[j - 1]
  IN  f[i]
LeavesSubplan(d, i) ==
  \/ IsSubPlan(d, i)
  \/ \E k \in DOMAIN Node(d.ancestors[i]).initplans : P.subplans[Node(d.ancestors[i]).initplans[k]] = ChildPlan(d, i)
InSamePlanLevel(d, i) == \A j \in 1 .. i - 1 : ~LeavesSubplan(d, j)

Supplies(d, i, id) ==
  LET n == Node(d.ancestors[i]) IN
  /\ \E k \in DOMAIN n.params : n.params[k].id = id
  /\ \/ n.type = "NestLoop" /\ ChildPlan(d, i) = n.inner /\ InSamePlanLevel(d, i)
     \/ n.type = "SubPlan"

(* Where among the ancestors the referent is to be read, 0 if there is     *)
(* none: the arguments of a SubPlan belong to the plan around it.          *)
ReadAt(d, i) == CHOOSE j \in i .. Len(d.ancestors) : ~IsSubPlan(d, j) /\ \A h \in i .. j - 1 : IsSubPlan(d, h)
ValueOf(params, id) == params[CHOOSE k \in DOMAIN params : params[k].id = id].value
Referent(d, i, id) == [at |-> ReadAt(d, i), e |-> ValueOf(Node(d.ancestors[i]).params, id)]
FindParamReferent(d, id) ==
  LET above == {i \in DOMAIN d.ancestors : Supplies(d, i, id)}
  IN  IF above = {} THEN [at |-> 0] ELSE Referent(d, CHOOSE i \in above : \A j \in above : i <= j, id)

(* A parameter of the function whose body is printed.                      *)
ExternName(e) ==
  LET name == IF e.n \in DOMAIN P.argnames THEN P.argnames[e.n] ELSE ""
      qualify == \E i \in DOMAIN P.rtables : P.rtables[i] # {}
  IN  IF name = "" THEN <<"$", e.id>>
      ELSE (IF qualify THEN <<P.funcname, ".">> ELSE << >>) \o <<name>>

-----------------------------------------------------------------------------
(* c is the context: dpns, varprefix and appendparents.                    *)
(*                                                                         *)
(* Through the inputs down to what a Var stands for; saved is what each    *)
(* call on the way keeps for its pop_child_plan, the last one first.       *)
RECURSIVE ResolveSpecialVarno(_, _, _), FieldName(_, _, _), RuleExpr(_, _), AggExpr(_, _, _)
Tlist(v, d) == CASE v.rel = "OUTER" -> d.outertlist [] v.rel = "INNER" -> d.innertlist [] OTHER -> d.indextlist
Down(v, c, d) ==
  CASE v.rel = "OUTER" -> [c EXCEPT !.dpns = PushChildPlan(d, d.outer), !.parents = @ \cup Node(d.plan).apprelids]
    [] v.rel = "INNER" -> [c EXCEPT !.dpns = PushChildPlan(d, d.inner)]
    [] OTHER -> c
ResolveSpecialVarno(e, c, saved) ==
  IF IsSpecial(e) /\ e.col \in DOMAIN Tlist(e, c.dpns)
  THEN ResolveSpecialVarno(Tlist(e, c.dpns)[e.col], Down(e, c, c.dpns),
                           IF e.rel = "INDEX" THEN saved ELSE <<c.dpns>> \o saved)
  ELSE [e |-> e, c |-> c, saved |-> saved]
Returned(d, saved) == FoldLeft(PopChildPlan, d, saved)

(* The name of a field of a record: get_name_for_var_field goes the same   *)
(* ways, and for what a scan reads from a plan of its own, into that plan. *)
FieldOfReferent(r, f, d) == FieldName(r.e, f, PushAncestorPlan(d, r.at))
FieldName(e, f, d) ==
  CASE e.k = "Record" -> e.names[f]
    [] e.k = "Param" -> FieldOfReferent(FindParamReferent(d, e.id), f, d)
    [] e.rel = "OUTER" -> FieldName(d.outertlist[e.col], f, PushChildPlan(d, d.outer))
    [] e.rel = "INDEX" -> FieldName(d.indextlist[e.col], f, d)
    [] OTHER -> FieldName(d.innertlist[IF e.rel = "INNER" THEN e.col ELSE e.n], f, PushChildPlan(d, d.inner))

(* get_variable names the inheritance parent of what an Append has read    *)
(* from its first child.                                                   *)
ParentIn(rel, parents) ==
  IF rel \in DOMAIN P.parent /\ P.parent[rel] \in parents THEN P.parent[rel] ELSE rel
Column(v, prefix, parents) ==
  (IF prefix THEN <<ParentIn(v.rel, parents), ".">> ELSE << >>) \o <<v.col>>

(* These return a text, and dpns as they leave it.                         *)
Argument(a, r) == [texts |-> Append(a.texts, r.text), dpns |-> r.dpns]
Arguments(args, c) ==
  FoldLeft(LAMBDA a, e : Argument(a, RuleExpr(e, [c EXCEPT !.dpns = a.dpns])),
           [texts |-> << >>, dpns |-> c.dpns], args)

(* A combining aggregate is printed as the partial one whose result it     *)
(* has for an argument.                                                    *)
Back(r, saved) == [r EXCEPT !.dpns = Returned(@, saved)]
AggCombineExpr(s, original) ==
  IF s.e.k = "Agg" THEN Back(AggExpr(s.e, s.c, original), s.saved) ELSE [text |-> <<"ERROR">>, dpns |-> s.c.dpns]
AggCall(a, r, original) ==
  [text |-> (IF original.split = "partial" THEN <<"PARTIAL">> ELSE << >>) \o <<a.f, "(">> \o Commas(r.texts) \o <<")">>,
   dpns |-> r.dpns]
AggExpr(a, c, original) ==
  IF a.split = "combine" THEN AggCombineExpr(ResolveSpecialVarno(a.args[1], c, << >>), original)
  ELSE AggCall(a, Arguments(a.args, c), original)

SpecialVariable(s) ==
  IF IsSpecial(s.e) THEN [text |-> <<"ERROR">>, dpns |-> s.c.dpns]
  ELSE Back([RuleExpr(s.e, s.c) EXCEPT !.text = ParenIf(s.e.k # "Var", @)], s.saved)

Referred(e, r, d) == [text |-> ParenIf(e.k \notin {"Var", "Agg", "Param"}, r.text), dpns |-> PopAncestorPlan(r.dpns, d)]
Parameter(referent, id, c) ==
  IF referent.at = 0 THEN [text |-> <<"$", id>>, dpns |-> c.dpns]
  ELSE Referred(referent.e,
         RuleExpr(referent.e, [c EXCEPT !.dpns = PushAncestorPlan(@, referent.at), !.prefix = TRUE]), c.dpns)

Composed(e, r) ==
  [text |-> CASE e.k = "Record" -> <<"ROW", "(">> \o Commas(r.texts) \o <<")">>
              [] e.k = "Op" -> ParenIf(TRUE, r.texts[1] \o <<e.op>> \o r.texts[2])
              [] e.k = "Field" -> ParenIf(TRUE, r.texts[1]) \o <<".", FieldName(e.args[1], e.n, r.dpns)>>,
   dpns |-> r.dpns]
RuleExpr(e, c) ==
  CASE IsSpecial(e) -> SpecialVariable(ResolveSpecialVarno(e, c, << >>))
    [] e.k = "Var" -> [text |-> Column(e, c.prefix, c.parents), dpns |-> c.dpns]
    [] e.k = "Param" -> Parameter(FindParamReferent(c.dpns, e.id), e.id, c)
    [] e.k = "Extern" -> [text |-> ExternName(e), dpns |-> c.dpns]
    [] e.k = "SubPlan" -> [text |-> <<"SubPlan", e.id>>, dpns |-> c.dpns]
    [] e.k = "Agg" -> AggExpr(e, c, e)
    [] OTHER -> Composed(e, Arguments(e.args, c))

-----------------------------------------------------------------------------
(* EXPLAIN shows the plan nodes in turn, and of each the expressions of    *)
(* its target list and its quals; those of a scan without the name of the  *)
(* relation.                                                               *)
Up(p) ==
  LET f[n \in DOMAIN P.nodes] == IF Node(n).up = 0 THEN << >> ELSE <<Node(n).up>> \o f[Node(n).up]
  IN  f[p]
ContextPlan(p) == SetDeparsePlan(Up(p), p)

Exprs(p) == Node(p).tlist \o Node(p).quals
Prefixed(p, i) == i <= Len(Node(p).tlist) \/ ~Node(p).scan

PlansInit == plan \in DOMAIN Plans /\ at = 1 /\ dpns = ContextPlan(1) /\ shown = << >>

ShowExpr ==
  /\ Len(shown) < Len(Exprs(at))
  /\ LET i == Len(shown) + 1
         r == RuleExpr(Exprs(at)[i], [dpns |-> dpns, prefix |-> Prefixed(at, i), parents |-> {}])
     IN  shown' = Append(shown, r.text) /\ dpns' = r.dpns
  /\ UNCHANGED <<plan, at>>

ExplainNode ==
  /\ Len(shown) = Len(Exprs(at))
  /\ at < Len(P.nodes) /\ Node(at + 1).type # "SubPlan"
  /\ at' = at + 1
  /\ dpns' = ContextPlan(at')
  /\ shown' = << >>
  /\ UNCHANGED plan

PlansNext == ShowExpr \/ ExplainNode

-----------------------------------------------------------------------------
(* What an expression of node p means, from the plan alone: a Var is what  *)
(* the executor finds in it, a parameter what is assigned to it, wherever  *)
(* in the plan that is.                                                    *)
Origin(p, v) ==
  LET n == Node(p)
      From(q) == [at |-> q, e |-> Node(q).tlist[v.col]]
  IN  CASE v.rel = "INDEX" -> [at |-> p, e |-> n.index[v.col]]
        [] v.rel = "OUTER" -> From(IF n.type \in Appends THEN n.kids[1] ELSE n.outer)
        [] n.type # "ModifyTable" -> From(n.inner)
        [] n.merge -> From(n.outer)
        [] OTHER -> [at |-> p, e |-> n.excluded[v.col]]

Assigners(id) == {p \in DOMAIN P.nodes : \E a \in Range(Node(p).params) : a.id = id}
Assigned(id) ==
  LET p == Min(Assigners(id))
  IN  [at |-> IF Node(p).type = "SubPlan" THEN Node(p).up ELSE p, e |-> ValueOf(Node(p).params, id)]

(* The plan whose rows a scan returns.                                     *)
Scanned(p) ==
  LET n == Node(p) IN
  CASE n.type = "SubqueryScan" -> n.sub
    [] n.type = "CteScan" -> P.subplans[n.cte]
    [] OTHER -> CHOOSE u \in DOMAIN P.nodes : Node(u).type = "RecursiveUnion" /\ Node(u).wt = n.wt

RECURSIVE Source(_, _, _), Meaning(_, _, _, _), FieldMeans(_, _, _)
Source(p, e, parents) ==
  IF ~IsSpecial(e) THEN [at |-> p, e |-> e, parents |-> parents]
  ELSE LET o == Origin(p, e)
       IN  Source(o.at, o.e, parents \cup (IF e.rel = "OUTER" THEN Node(p).apprelids ELSE {}))

FieldMeans(p, e, f) ==
  LET s == IF e.k = "Param" THEN Assigned(e.id) ELSE Source(p, e, {}) IN
  CASE e.k = "Record" -> e.names[f]
    [] e.k = "Var" /\ ~IsSpecial(e) -> FieldMeans(Scanned(p), Node(Scanned(p)).tlist[e.n], f)
    [] OTHER -> FieldMeans(s.at, s.e, f)

Meaning(p, e, prefix, parents) ==
  LET Of(x) == Meaning(p, x, prefix, parents)
      All(xs) == Commas([i \in DOMAIN xs |-> Of(xs[i])])
      From(s) == Meaning(s.at, s.e, prefix, s.parents)
  IN
  CASE IsSpecial(e) -> LET s == Source(p, e, parents) IN ParenIf(s.e.k # "Var", From(s))
    [] e.k = "Var" -> Column(e, prefix, parents)
    [] e.k = "Param" /\ Assigners(e.id) = {} -> <<"$", e.id>>
    [] e.k = "Param" -> LET s == Assigned(e.id)
                        IN  ParenIf(s.e.k \notin {"Var", "Agg", "Param"}, Meaning(s.at, s.e, TRUE, {}))
    [] e.k = "Agg" /\ e.split = "combine" -> Tail(From(Source(p, e.args[1], parents)))
    [] e.k = "Agg" -> (IF e.split = "partial" THEN <<"PARTIAL">> ELSE << >>) \o <<e.f, "(">> \o All(e.args) \o <<")">>
    [] e.k = "SubPlan" -> <<"SubPlan", e.id>>
    [] e.k = "Record" -> <<"ROW", "(">> \o All(e.args) \o <<")">>
    [] e.k = "Op" -> ParenIf(TRUE, Of(e.args[1]) \o <<e.op>> \o Of(e.args[2]))
    [] e.k = "Field" -> ParenIf(TRUE, Of(e.args[1])) \o <<".", FieldMeans(p, e.args[1], e.n)>>

(* How the body of a function is read: a name alone is a column before it  *)
(* is a parameter.                                                         *)
ReadsAs(e, text) ==
  CASE text[1] = "$" -> text = <<"$", e.id>>
    [] Len(text) = 1 -> P.argnames[e.n] = text[1] /\ \A i \in DOMAIN P.rtables : text[1] \notin P.rtables[i]
    [] OTHER -> text = <<P.funcname, ".", P.argnames[e.n]>>

(* Every expression of a plan is shown as what it means, through any chain *)
(* of inputs, subplans and parameters, and each leaves the attention where *)
(* the next one needs it (push_child_plan, push_ancestor_plan and their    *)
(* pops in get_parameter and resolve_special_varno). It does not hold of   *)
(* the columns of a MERGE's source, when they are columns of a join.       *)
ReferencesRead ==
  /\ dpns = ContextPlan(at)
  /\ \A i \in DOMAIN shown :
       LET e == Exprs(at)[i] IN
       IF e.k = "Extern" THEN ReadsAs(e, shown[i]) ELSE shown[i] = Meaning(at, e, Prefixed(at, i), {})
=============================================================================

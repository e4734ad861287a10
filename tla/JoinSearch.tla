----------------------------- MODULE JoinSearch -----------------------------
(***************************************************************************)
(* The join search of pg_hint_plan_fn.cpp: standard_join_search, level by  *)
(* level, over the items of one join problem after the other; which pairs  *)
(* of relations are tried, and which of them may be joined.  A joinrel of  *)
(* an unfinished level gets its paths from every pair that makes it.       *)
(***************************************************************************)
EXTENDS JoinPaths, Integers

CONSTANT
  Cases       \* queries, with the rows of each table and its partitions

VARIABLES
  query, tables,
  root,       \* join_info_list, the restrictions, and the join problems
  rels,       \* join_rel_list and the base relations
  todo,       \* the problems still to do, the one at hand first
  levels,     \* root->join_rel_level
  pairs,      \* the pairs still to try at the last of them
  phase       \* "start", "clauses", "forced", "done", "failed", "unsupported"

vars == <<query, tables, root, rels, todo, levels, pairs, phase>>

(* The base relations and their partitions, in the order of their values.  *)
(* A partition is planned, or known to be empty before (unplanned) or after*)
(* (empty) its expressions are set up, or left out altogether (pruned);    *)
(* tables has the rows of planned ones only.                               *)
PlannedValues(parts) ==
  IF parts = << >> THEN 0 .. 2
  ELSE UNION {p.values : p \in {x \in ToSet(parts) : x.state = "planned"}}

Stored(rows, parts) == [r \in Rels |-> {n \in rows[r] : Val(n) \in PlannedValues(parts[r])}]

Rows(r, values) == {[Blank EXCEPT ![r] = n] : n \in {m \in tables[r] : Val(m) \in values}}

BaseRel(r, parts) ==
  [NewRel(parts # << >>) EXCEPT
     !.paths = {Rows(r, 0 .. 2)},
     !.dummy = PlannedValues(parts) = {},
     !.nparts = IF parts = << >> THEN @ ELSE Len(parts),
     !.bounds = [k \in DOMAIN parts |-> parts[k].values],
     !.part_rels = [k \in DOMAIN parts |->
                      IF parts[k].state = "pruned" THEN {} ELSE {<<r, k>>}]]

Child(r, part) ==
  [NewRel(FALSE) EXCEPT !.paths = {Rows(r, part.values)},
                        !.dummy = part.state # "planned",
                        !.consider = part.state # "unplanned"]

BaseRels(R, layout) ==
  LET children == {x \in UNION {{<<r, k>> : k \in DOMAIN layout[r]} : r \in R} :
                     layout[x[1]][x[2]].state # "pruned"}
  IN  [S \in {{x} : x \in Base(R) \cup children} |->
         LET x == CHOOSE y \in S : TRUE
         IN  IF x[2] = 0 THEN BaseRel(x[1], layout[x[1]]) ELSE Child(x[1], layout[x[1]][x[2]])]

Init ==
  \E c \in Cases :
    /\ query = c.query /\ tables = Stored(c.rows, c.parts)
    /\ root = [join_info_list |-> JoinInfoList(query), clauses |-> RestrictInfos(query)]
    /\ rels = BaseRels(RelsOf(query)[Len(query)], c.parts)
    /\ todo = JoinProblems(query)
    /\ levels = << >> /\ pairs = << >> /\ phase = "start"

-----------------------------------------------------------------------------
(* Join clauses and join order restrictions.                               *)
SpecialJoins == ToSet(root.join_info_list)
JoinInfo(S) == {c \in root.clauses : Overlap(c.required_relids, S) /\ ~(c.required_relids \subseteq S)}
HaveRelevantJoinclause(S1, S2) == \E c \in JoinInfo(S1) : Overlap(c.required_relids, S2)

IsWithin(sj, S) == sj.min_lefthand \subseteq S /\ sj.min_righthand \subseteq S
Implements(sj, left, right) == sj.min_lefthand \subseteq left /\ sj.min_righthand \subseteq right
UniqueSide(sj, S) == sj.jointype = "semi" /\ sj.syn_righthand = S /\ sj.can_unique

HasJoinRestriction(S) ==
  \E sj \in SpecialJoins :
    /\ sj.jointype # "full" /\ ~IsWithin(sj, S)
    /\ Overlap(sj.min_lefthand, S) \/ Overlap(sj.min_righthand, S)

\* Mutant: a semijoin whose RHS was made unique is still to be done.
RelevantUnlessDone(sj, S1, S2) ==
  /\ Overlap(sj.min_righthand, S1 \cup S2)
  /\ ~(S1 \cup S2 \subseteq sj.min_righthand)
  /\ ~IsWithin(sj, S1) /\ ~IsWithin(sj, S2)

(* join_is_legal.  A special join matters to a join that overlaps its RHS, *)
(* goes beyond it, and does not come after it in either input, where a     *)
(* semijoin whose RHS was made unique also counts as done;                 *)
Relevant(sj, S1, S2) ==
  LET done(S) == \/ IsWithin(sj, S)
                 \/ (sj.jointype = "semi" /\ sj.syn_righthand \subseteq S /\ sj.syn_righthand # S)
  IN  /\ Overlap(sj.min_righthand, S1 \cup S2)
      /\ ~(S1 \cup S2 \subseteq sj.min_righthand)
      /\ ~done(S1) /\ ~done(S2)

Forwards(sj, S1, S2) ==
  Implements(sj, S1, S2) \/ (~Implements(sj, S2, S1) /\ UniqueSide(sj, S2))
Backwards(sj, S1, S2) == ~Forwards(sj, S1, S2) /\ (Implements(sj, S2, S1) \/ UniqueSide(sj, S1))

Matching(S1, S2) ==
  {sj \in SpecialJoins : Relevant(sj, S1, S2) /\ (Forwards(sj, S1, S2) \/ Backwards(sj, S1, S2))}

\* Mutant: an earlier, allowed violation of the RHS is not excused.
ViolatedAnyway(S1, S2) == {sj \in SpecialJoins \ Matching(S1, S2) : Relevant(sj, S1, S2)}

(* the others are violated, except where both inputs reach into the RHS;   *)
(* only a LEFT join may be, by a strict LEFT join apart from its LHS.      *)
Violated(S1, S2) ==
  {sj \in SpecialJoins \ Matching(S1, S2) :
     /\ Relevant(sj, S1, S2)
     /\ ~(Overlap(S1, sj.min_righthand) /\ Overlap(S2, sj.min_righthand))}

JoinIsLegal(S1, S2) ==
  /\ Cardinality(Matching(S1, S2)) <= 1
  /\ \A sj \in Violated(S1, S2) :
       sj.jointype = "left" /\ ~Overlap(S1 \cup S2, sj.min_lefthand)
  /\ Violated(S1, S2) # {} =>
       \E sj \in Matching(S1, S2) : sj.jointype = "left" /\ sj.lhs_strict

(* have_join_order_restriction and has_legal_joinclause: a join forced by  *)
(* a special join, unless either input can use a join clause.              *)
HasLegalJoinclause(S) ==
  \E T \in ToSet(levels[1]) :
    ~Overlap(S, T) /\ HaveRelevantJoinclause(S, T) /\ JoinIsLegal(S, T)

HaveJoinOrderRestriction(S1, S2) ==
  /\ \E sj \in SpecialJoins :
       /\ sj.jointype # "full"
       /\ \/ Implements(sj, S1, S2) \/ Implements(sj, S2, S1)
          \/ Overlap(sj.min_righthand, S1) /\ Overlap(sj.min_righthand, S2)
          \/ Overlap(sj.min_lefthand, S1) /\ Overlap(sj.min_lefthand, S2)
  /\ ~HasLegalJoinclause(S1) /\ ~HasLegalJoinclause(S2)

-----------------------------------------------------------------------------
(* The pairs that join_search_one_level tries, in its order.               *)
Linked(S1, S2) == HaveRelevantJoinclause(S1, S2) \/ HaveJoinOrderRestriction(S1, S2)
HasLinks(S) == JoinInfo(S) # {} \/ HasJoinRestriction(S)

From(list, i) == SubSeq(list, i, Len(list))
With(S, others) == [k \in DOMAIN others |-> <<S, others[k]>>]
Disjoint(p) == ~Overlap(p[1], p[2])

MakeRelsByClauseJoins(S, others) ==
  SelectSeq(With(S, others), LAMBDA p : Disjoint(p) /\ Linked(p[1], p[2]))
MakeRelsByClauselessJoins(S, others) == SelectSeq(With(S, others), Disjoint)

OneSidedPairs(level) ==
  LET smaller == levels[level - 1]
      others(i) == IF level = 2 THEN From(smaller, i + 1) ELSE levels[1]
  IN  FlattenSeq([i \in DOMAIN smaller |->
        IF HasLinks(smaller[i]) THEN MakeRelsByClauseJoins(smaller[i], others(i))
        ELSE MakeRelsByClauselessJoins(smaller[i], levels[1])])

BushyPairs(level) ==
  LET others(k, i) == IF k = level - k THEN From(levels[k], i + 1) ELSE levels[level - k]
      of(k) == FlattenSeq([i \in DOMAIN levels[k] |->
                 IF HasLinks(levels[k][i]) THEN MakeRelsByClauseJoins(levels[k][i], others(k, i))
                 ELSE << >>])
  IN  FlattenSeq([n \in 1 .. (level \div 2) - 1 |-> of(n + 1)])

LevelPairs(level) == OneSidedPairs(level) \o BushyPairs(level)

ForcedPairs(level) ==
  LET smaller == levels[level - 1]
  IN  FlattenSeq([i \in DOMAIN smaller |-> MakeRelsByClauselessJoins(smaller[i], levels[1])])

-----------------------------------------------------------------------------
(* make_join_rel and build_join_rel.  A join is partitioned when both its  *)
(* inputs are and an equality joins their partition keys.                  *)
Restrictlist(S1, S2) ==
  {c \in JoinInfo(S1) \cup JoinInfo(S2) : c.required_relids \subseteq S1 \cup S2}

InnerJoin(S1, S2) ==
  [jointype |-> "inner", lhs_strict |-> FALSE, syn_lefthand |-> S1, syn_righthand |-> S2,
   min_lefthand |-> S1, min_righthand |-> S2, can_unique |-> FALSE, semi_rhs_exprs |-> {}]

HavePartkeyEquiJoin(S1, S2, type) ==
  \E c \in Restrictlist(S1, S2) :
    /\ c.kind = "eq" /\ Cardinality(c.clause) = 2 /\ Overlap(c.clause, S1) /\ Overlap(c.clause, S2)
    /\ type \in {"inner", "semi"} \/ ~IsPushedDown(c, S1 \cup S2)

WithJoinrel(S1, S2, type) ==
  LET J == S1 \cup S2
      scheme == /\ rels[S1].part_scheme /\ rels[S2].part_scheme
                /\ HavePartkeyEquiJoin(S1, S2, type)
  IN  IF J \in DOMAIN rels THEN rels ELSE rels @@ (J :> NewRel(scheme))

Joined(S1, S2, sj) ==
  LET J == S1 \cup S2
      built == WithJoinrel(S1, S2, sj.jointype)
  IN  IF built[J].dummy THEN built
      ELSE PopulateJoinrelWithPaths(built, S1, S2, J, sj, Restrictlist(S1, S2))

(* The relations trade places for a special join that holds backwards.     *)
JoinOf(S1, S2) ==
  IF Matching(S1, S2) = {} THEN Joined(S1, S2, InnerJoin(S1, S2))
  ELSE LET sj == CHOOSE x \in Matching(S1, S2) : TRUE
       IN  IF Forwards(sj, S1, S2) THEN Joined(S1, S2, sj) ELSE Joined(S2, S1, sj)

Level == Len(levels)

MakeJoinRel ==
  /\ phase \in {"clauses", "forced"} /\ pairs # << >>
  /\ LET S1 == Head(pairs)[1]
         S2 == Head(pairs)[2]
         J == S1 \cup S2
     IN  IF JoinIsLegal(S1, S2)
         THEN /\ rels' = JoinOf(S1, S2)
              /\ levels' = IF J \in DOMAIN rels THEN levels ELSE [levels EXCEPT ![Level] = Append(@, J)]
              /\ phase' = IF rels'[J].paths = {} THEN "unsupported" ELSE phase
         ELSE UNCHANGED <<rels, levels, phase>>
  /\ pairs' = Tail(pairs)
  /\ UNCHANGED <<query, tables, root, todo>>

-----------------------------------------------------------------------------
(* standard_join_search.                                                   *)
StartSearch ==
  /\ phase = "start"
  /\ levels' = <<Head(todo)>> /\ phase' = "level"
  /\ UNCHANGED <<query, tables, root, rels, todo, pairs>>

StartLevel ==
  /\ phase = "level" /\ Level < Len(levels[1])
  /\ levels' = Append(levels, << >>)
  /\ pairs' = LevelPairs(Level + 1)
  /\ phase' = "clauses"
  /\ UNCHANGED <<query, tables, root, rels, todo>>

(* The last-ditch effort, when no pair could be joined.                    *)
ForceJoins ==
  /\ phase = "clauses" /\ pairs = << >> /\ levels[Level] = << >>
  /\ pairs' = ForcedPairs(Level)
  /\ phase' = "forced"
  /\ UNCHANGED <<query, tables, root, rels, todo, levels>>

FinishLevel ==
  /\ phase \in {"clauses", "forced"} /\ pairs = << >>
  /\ levels[Level] # << >> \/ phase = "forced"
  /\ rels' = FoldLeft(GeneratePartitionwisePaths, rels, levels[Level])
  /\ phase' = IF levels[Level] = << >> /\ root.join_info_list = << >> THEN "failed" ELSE "level"
  /\ UNCHANGED <<query, tables, root, todo, levels, pairs>>

FinishSearch ==
  /\ phase = "level" /\ Level = Len(levels[1])
  /\ IF levels[Level] = << >> THEN phase' = "failed" /\ UNCHANGED <<todo, levels>>
     ELSE /\ todo' = Tail(todo)
          /\ phase' = IF todo' = << >> THEN "done" ELSE "start"
          /\ levels' = IF todo' = << >> THEN levels ELSE << >>
  /\ UNCHANGED <<query, tables, root, rels, pairs>>

Next == StartSearch \/ StartLevel \/ MakeJoinRel \/ ForceJoins \/ FinishLevel \/ FinishSearch

Spec == Init /\ [][Next]_vars

-----------------------------------------------------------------------------
(* Some plan is found whatever the special joins forbid and however the    *)
(* heuristics put clauseless joins off (the errors "failed to build any    *)
(* %d-way joins" are never raised), and it joins all items, in one rel.    *)
JoinFound ==
  /\ phase # "failed"
  /\ phase = "done" => levels[Level] = <<UNION ToSet(levels[1])>>

(* All paths of a relation, the partitionwise ones included, give the same *)
(* rows, the same number of times, and those of the final relation are the *)
(* rows that the query asks for.  What the RHS of a finished semijoin      *)
(* looks like does not matter.                                             *)
Hidden(S) ==
  LET whole == Base(NumbersIn(S))
      done == {sj \in SpecialJoins : sj.jointype = "semi" /\ IsWithin(sj, whole)}
  IN  UNION {NumbersIn(sj.syn_righthand) : sj \in done}

PathsAgree ==
  /\ \A S \in DOMAIN rels : \A p, q \in rels[S].paths : Counts(p, Hidden(S)) = Counts(q, Hidden(S))
  /\ phase = "done" =>
       LET top == levels[Level][1]
       IN  \A p \in rels[top].paths : Counts(p, Hidden(top)) = Counts(Answer(query, tables), Hidden(top))
=============================================================================

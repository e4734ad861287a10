----------------------------- MODULE JoinPaths -----------------------------
(***************************************************************************)
(* What the join search of pg_hint_plan_fn.cpp is given, and what the      *)
(* paths it adds compute: the special joins and join clauses of a query's  *)
(* join tree, as PostgreSQL derives them, and joins of sets of rows.       *)
(*                                                                         *)
(* A query is a sequence of nodes, children first, the last one its root.  *)
(* A relation is <<r, 0>>, and <<r, k>> its k-th partition.  A row gives   *)
(* each r its row number in the table, or NoRow where r is null-extended   *)
(* or not part of the row.  Left out: LATERAL, placeholders, equivalence   *)
(* classes.                                                                *)
(*                                                                         *)
(* Then the paths a join relation gets: populate_joinrel_with_paths,       *)
(* restriction_is_constant_false and the partitionwise join.               *)
(*                                                                         *)
(* rels is root's relations, relids |-> RelOptInfo.  A path is the set of  *)
(* rows it computes; which of a relation's paths is the cheapest is not    *)
(* modelled: joins are built on each.  {} is a NULL RelOptInfo.  The       *)
(* partitions of a relation are not partitioned themselves.                *)
(***************************************************************************)
EXTENDS Naturals, Sequences, FiniteSets, SequencesExt, FiniteSetsExt, TLC

CONSTANTS
  Rels,      \* the numbers of relations
  NoRow      \* a null-extended or absent row

Base(R) == {<<r, 0>> : r \in R}
NumbersIn(relids) == {x[1] : x \in relids}
Overlap(a, b) == a \cap b # {}

(* A table's one column: row numbers 3 apart have the same value.          *)
Val(row) == row % 3

-----------------------------------------------------------------------------
(* Rows.  A qual is FALSE ("never"), an equality ("eq"), or an equality    *)
(* that accepts nulls ("lax").                                             *)
Blank == [r \in Rels |-> NoRow]
Merged(a, b) == [r \in Rels |-> IF a[r] # NoRow THEN a[r] ELSE b[r]]
Equal(row, R) == \A r, s \in R : Val(row[r]) = Val(row[s])

Holds(qual, row) ==
  LET R == NumbersIn(qual.clause) IN
  CASE qual.kind = "never" -> FALSE
    [] qual.kind = "eq" -> (\A r \in R : row[r] # NoRow) /\ Equal(row, R)
    [] qual.kind = "lax" -> (\E r \in R : row[r] = NoRow) \/ Equal(row, R)

AllHold(quals, row) == \A q \in quals : Holds(q, row)

Matches(left, right, quals) ==
  {m \in {Merged(a, b) : a \in left, b \in right} : AllHold(quals, m)}
Unmatched(left, right, quals) ==
  {a \in left : \A b \in right : ~AllHold(quals, Merged(a, b))}

JoinRows(type, left, right, quals) ==
  CASE type = "inner" -> Matches(left, right, quals)
    [] type = "left" -> Matches(left, right, quals) \cup Unmatched(left, right, quals)
    [] type = "full" -> Matches(left, right, quals) \cup Unmatched(left, right, quals)
                        \cup Unmatched(right, left, quals)
    [] type = "semi" -> left \ Unmatched(left, right, quals)
    [] type = "anti" -> Unmatched(left, right, quals)

(* create_unique_path keeps one row for each value of the semijoin's RHS.  *)
Uniquified(rows, R) ==
  LET key(row) == [r \in R |-> Val(row[r])]
  IN  {CHOOSE row \in {x \in rows : key(x) = k} : TRUE : k \in {key(x) : x \in rows}}

(* How often a row is there, once the relations in Hidden are projected    *)
(* away.                                                                   *)
Projected(row, Hidden) == [r \in Rels |-> IF r \in Hidden THEN NoRow ELSE row[r]]
Counts(rows, Hidden) ==
  [p \in {Projected(x, Hidden) : x \in rows} |->
     Cardinality({x \in rows : Projected(x, Hidden) = p})]

-----------------------------------------------------------------------------
(* The join tree.                                                          *)
IsRel(node) == node.type = "rel"

(* Its relations, for each node, and those that are inside inner joins.    *)
RelsOf(query) ==
  LET f[i \in DOMAIN query] ==
        IF IsRel(query[i]) THEN {query[i].rel} ELSE f[query[i].l] \cup f[query[i].r]
  IN  f

InnerRelsOf(query) ==
  LET R == RelsOf(query)
      f[i \in DOMAIN query] ==
        IF IsRel(query[i]) THEN {}
        ELSE IF query[i].type = "inner" THEN R[i]
        ELSE f[query[i].l] \cup f[query[i].r]
  IN  f

(* What the query means: its nodes one by one, as they are written.        *)
Answer(query, tables) ==
  LET f[i \in DOMAIN query] ==
        IF IsRel(query[i]) THEN {[Blank EXCEPT ![query[i].rel] = n] : n \in tables[query[i].rel]}
        ELSE JoinRows(query[i].type, f[query[i].l], f[query[i].r], query[i].quals)
  IN  f[Len(query)]

(* make_outerjoininfo: the relations each side needs at least.  An earlier *)
(* special join is kept below this one unless the two may change places.   *)
(* compute_semijoin_info: the RHS of a semijoin can be made unique if its  *)
(* quals are equalities of one relation of each side.                      *)
MinLeft(node, L, earlier) ==
  LET used == UNION {NumbersIn(q.clause) : q \in node.quals}
      strict == UNION {NumbersIn(q.clause) : q \in {x \in node.quals : x.kind = "eq"}}
      kept == {sj \in earlier :
                 IF sj.type = "full" THEN Overlap(L, sj.left \cup sj.right)
                 ELSE /\ Overlap(L, sj.right) /\ Overlap(used, sj.right)
                      /\ node.type \in {"semi", "anti"} \/ ~Overlap(strict, sj.minRight)}
      all == (used \cap L) \cup UNION {sj.left \cup sj.right : sj \in kept}
  IN  IF all = {} THEN L ELSE all

MinRight(node, R, inners, earlier) ==
  LET used == UNION {NumbersIn(q.clause) : q \in node.quals}
      kept == {sj \in earlier :
                 IF sj.type = "full" THEN Overlap(R, sj.left \cup sj.right)
                 ELSE /\ Overlap(R, sj.right)
                      /\ \/ Overlap(used, sj.right) \/ ~Overlap(used, sj.minLeft)
                         \/ {node.type, sj.type} \cap {"semi", "anti"} # {}
                         \/ ~sj.strict}
      all == ((used \cup inners) \cap R) \cup UNION {sj.left \cup sj.right : sj \in kept}
  IN  IF all = {} THEN R ELSE all

SpecialJoin(query, i, earlier) ==
  LET node == query[i]
      L == RelsOf(query)[node.l]
      R == RelsOf(query)[node.r]
      used == UNION {NumbersIn(q.clause) : q \in node.quals}
      strict == UNION {NumbersIn(q.clause) : q \in {x \in node.quals : x.kind = "eq"}}
      full == node.type = "full"
      linking == {q \in node.quals : q.clause # {}}
  IN [type |-> node.type, node |-> i, left |-> L, right |-> R,
      strict |-> ~full /\ Overlap(strict, L),
      unique |-> /\ node.type = "semi" /\ linking # {}
                 /\ \A q \in linking : q.kind = "eq" /\ Cardinality(q.clause) = 2,
      rhsExprs |-> used \cap R,
      minLeft |-> IF full THEN L ELSE MinLeft(node, L, earlier),
      minRight |-> IF full THEN R ELSE MinRight(node, R, InnerRelsOf(query)[i], earlier)]

(* root->join_info_list, in the order the tree is deconstructed.           *)
JoinInfos(query) ==
  LET f[i \in 0 .. Len(query)] ==
        IF i = 0 THEN << >>
        ELSE IF query[i].type \in {"rel", "inner"} THEN f[i - 1]
        ELSE Append(f[i - 1], SpecialJoin(query, i, ToSet(f[i - 1])))
  IN  f[Len(query)]

(* SpecialJoinInfo nodes as the search uses them, over relids.             *)
AsRelids(sj) ==
  [jointype |-> sj.type, lhs_strict |-> sj.strict,
   syn_lefthand |-> Base(sj.left), syn_righthand |-> Base(sj.right),
   min_lefthand |-> Base(sj.minLeft), min_righthand |-> Base(sj.minRight),
   can_unique |-> sj.unique, semi_rhs_exprs |-> sj.rhsExprs]

JoinInfoList(query) == [k \in DOMAIN JoinInfos(query) |-> AsRelids(JoinInfos(query)[k])]

(* distribute_qual_to_rels: a qual of an outer join waits for that join;   *)
(* one that names no relation waits for all of its node's.                 *)
RestrictInfos(query) ==
  LET outer(i) == {sj \in ToSet(JoinInfos(query)) : sj.node = i /\ sj.type # "semi"}
      required(i, q) ==
        IF outer(i) # {} THEN UNION {Base(sj.minLeft \cup sj.minRight) : sj \in outer(i)}
        ELSE IF q.clause = {} THEN Base(RelsOf(query)[i])
        ELSE q.clause
  IN  UNION {{[kind |-> q.kind, clause |-> q.clause, required_relids |-> required(i, q),
               is_pushed_down |-> outer(i) = {}] : q \in query[i].quals} :
             i \in {j \in DOMAIN query : ~IsRel(query[j])}}

(* The join problems, innermost first, each with its items in order.  A    *)
(* FULL join and its sides are problems of their own, and so is a node     *)
(* that a collapse limit cut off (sub).                                    *)
JoinProblems(query) ==
  LET isProblem(i) ==
        ~IsRel(query[i]) /\
        (i = Len(query) \/ query[i].type = "full" \/ query[i].sub
         \/ \E j \in DOMAIN query : query[j].type = "full" /\ i \in {query[j].l, query[j].r})
      items[i \in DOMAIN query] ==
        IF IsRel(query[i]) THEN <<Base({query[i].rel})>>
        ELSE LET of(c) == IF isProblem(c) THEN <<Base(RelsOf(query)[c])>> ELSE items[c]
             IN  of(query[i].l) \o of(query[i].r)
  IN  SelectSeq([i \in DOMAIN query |-> IF isProblem(i) THEN items[i] ELSE << >>],
                LAMBDA p : p # << >>)
-----------------------------------------------------------------------------
(* A new RelOptInfo: bounds gives the values of each partition, and nparts *)
(* is -1 while they are not known.                                         *)
NewRel(scheme) ==
  [paths |-> {}, dummy |-> FALSE, part_scheme |-> scheme, consider |-> scheme,
   nparts |-> 0 - 1, bounds |-> << >>, part_rels |-> << >>, merged |-> FALSE]

IsSimple(relids) == Cardinality(relids) = 1

MarkDummyRel(rels, S) == [rels EXCEPT ![S].paths = {{}}, ![S].dummy = TRUE]

IsPartitioned(rel) ==
  rel.part_scheme /\ rel.bounds # << >> /\ rel.nparts > 0 /\ ~rel.dummy

IsPushedDown(rinfo, J) == rinfo.is_pushed_down \/ ~(rinfo.required_relids \subseteq J)

RestrictionIsConstantFalse(restrictlist, J, only_pushed_down) ==
  \E rinfo \in restrictlist :
    rinfo.kind = "never" /\ (only_pushed_down => IsPushedDown(rinfo, J))

(* A join path: what an outer join's pushed-down quals reject is not       *)
(* null-extended, it is lost.  A FULL join needs equalities.               *)
PathRows(type, outer, inner, restrictlist, J) ==
  LET pushed == {rinfo \in restrictlist : type \notin {"inner", "semi"} /\ IsPushedDown(rinfo, J)}
  IN  {row \in JoinRows(type, outer, inner, restrictlist \ pushed) : AllHold(pushed, row)}

AddPaths(rels, J, type, outers, inners, restrictlist) ==
  IF type = "full" /\ \E rinfo \in restrictlist : rinfo.kind = "lax" THEN rels
  ELSE [rels EXCEPT ![J].paths =
          @ \cup {PathRows(type, p, q, restrictlist, J) : p \in outers, q \in inners}]

(* create_unique_path: over the RHS columns of the semijoin's quals.       *)
UniquePaths(rels, S, sj) == {Uniquified(p, sj.semi_rhs_exprs) : p \in rels[S].paths}

-----------------------------------------------------------------------------
(* One join type each.  The join is dummy where no row can come of it.     *)
NothingJoins(rels, S1, S2, J, sj, restrictlist) ==
  CASE sj.jointype \in {"inner", "semi"} ->
         \/ rels[S1].dummy \/ rels[S2].dummy
         \/ RestrictionIsConstantFalse(restrictlist, J, FALSE)
    [] sj.jointype \in {"left", "anti"} ->
         rels[S1].dummy \/ RestrictionIsConstantFalse(restrictlist, J, TRUE)
    [] sj.jointype = "full" ->
         \/ rels[S1].dummy /\ rels[S2].dummy
         \/ RestrictionIsConstantFalse(restrictlist, J, TRUE)

(* No row of the inner side joins, where the qual of a LEFT or ANTI join   *)
(* is FALSE: the inner relation itself becomes dummy.                      *)
WithoutInner(rels, S2, J, sj, restrictlist) ==
  IF /\ sj.jointype \in {"left", "anti"}
     /\ RestrictionIsConstantFalse(restrictlist, J, FALSE)
     /\ S2 \subseteq sj.syn_righthand
  THEN MarkDummyRel(rels, S2) ELSE rels

IsWholeSemi(S1, S2, sj) == sj.min_lefthand \subseteq S1 /\ sj.min_righthand \subseteq S2
IsUniqueSemi(S2, sj) == sj.syn_righthand = S2 /\ sj.can_unique

AddSemiPaths(rels, S1, S2, J, sj, restrictlist) ==
  LET semi == IF ~IsWholeSemi(S1, S2, sj) THEN rels
              ELSE AddPaths(rels, J, "semi", rels[S1].paths, rels[S2].paths, restrictlist)
  IN  IF ~IsUniqueSemi(S2, sj) THEN semi
      ELSE AddPaths(semi, J, "inner", rels[S1].paths,
                    UniquePaths(rels, S2, sj), restrictlist)

PopulateJoin(rels, S1, S2, J, sj, restrictlist) ==
  IF sj.jointype = "semi" /\ ~IsWholeSemi(S1, S2, sj) /\ ~IsUniqueSemi(S2, sj) THEN rels
  ELSE IF NothingJoins(rels, S1, S2, J, sj, restrictlist) THEN MarkDummyRel(rels, J)
  ELSE IF sj.jointype = "semi" THEN AddSemiPaths(rels, S1, S2, J, sj, restrictlist)
  ELSE LET kept == WithoutInner(rels, S2, J, sj, restrictlist)
       IN  AddPaths(kept, J, sj.jointype, kept[S1].paths, kept[S2].paths, restrictlist)


-----------------------------------------------------------------------------
(* The partitionwise join.  The children of a joinrel join the partitions  *)
(* of S1 and S2 pair by pair.                                              *)

(* partition_bounds_merge: the pairs of live partitions that share values, *)
(* each partition in one pair at most, and for an outer join a pair with   *)
(* no partner for each partition that has none.  0 is no partition.        *)
IsLive(rels, c) == c # {} /\ ~rels[c].dummy
LivePartitions(rels, S) == {k \in 1 .. rels[S].nparts : IsLive(rels, rels[S].part_rels[k])}

MergedPairs(rels, S1, S2, type) ==
  LET share(i, j) == Overlap(rels[S1].bounds[i], rels[S2].bounds[j])
      live1 == LivePartitions(rels, S1)
      live2 == LivePartitions(rels, S2)
      matched == {p \in live1 \X live2 : share(p[1], p[2])}
      alone1 == {<<i, 0>> : i \in {k \in live1 : \A j \in live2 : ~share(k, j)}}
      alone2 == {<<0, j>> : j \in {k \in live2 : \A i \in live1 : ~share(i, k)}}
  IN  IF \E p, q \in matched : p # q /\ (p[1] = q[1] \/ p[2] = q[2]) THEN {}
      ELSE matched \cup (IF type \in {"left", "anti", "full"} THEN alone1 ELSE {})
                   \cup (IF type = "full" THEN alone2 ELSE {})

MergedBounds(rels, S1, S2, type, pair) ==
  LET of(S, k) == IF k = 0 THEN {} ELSE rels[S].bounds[k]
      one == of(S1, pair[1])
      two == of(S2, pair[2])
  IN  CASE type \in {"inner", "semi"} -> one \cap two
        [] type \in {"left", "anti"} -> one
        [] type = "full" -> one \cup two

PartOf(rel, k) == IF k = 0 THEN {} ELSE rel.part_rels[k]

(* compute_partition_bounds, the first time: with equal bounds, partitions *)
(* of the same position belong together.                                   *)
SameBounds(rel1, rel2) ==
  ~rel1.merged /\ ~rel2.merged /\ rel1.nparts = rel2.nparts /\ rel1.bounds = rel2.bounds

NoParts(n) == [k \in 1 .. n |-> {}]

FirstBounds(rels, S1, S2, J, sj) ==
  LET pairs == SetToSeq(MergedPairs(rels, S1, S2, sj.jointype))
  IN  IF SameBounds(rels[S1], rels[S2])
      THEN [rels[J] EXCEPT !.bounds = rels[S1].bounds, !.nparts = rels[S1].nparts,
                           !.part_rels = NoParts(rels[S1].nparts)]
      ELSE IF pairs = << >> THEN [rels[J] EXCEPT !.nparts = 0]
      ELSE [rels[J] EXCEPT !.merged = TRUE, !.nparts = Len(pairs),
              !.bounds = [k \in DOMAIN pairs |-> MergedBounds(rels, S1, S2, sj.jointype, pairs[k])],
              !.part_rels = NoParts(Len(pairs))]

AllPartrels(rel) == UNION ToSet(rel.part_rels)
Found(rels, c) == IF c \in DOMAIN rels THEN c ELSE {}

(* get_matching_part_pairs, from then on: what the child join is made of.  *)
GetMatchingPartPairs(rels, S1, S2, J) ==
  LET of(k, S) == rels[J].part_rels[k] \cap AllPartrels(rels[S])
  IN  [k \in 1 .. rels[J].nparts |-> <<Found(rels, of(k, S1)), Found(rels, of(k, S2))>>]

ComputePartitionBounds(rels, S1, S2, J, sj) ==
  IF rels[J].nparts < 0 THEN [rels EXCEPT ![J] = FirstBounds(rels, S1, S2, J, sj)] ELSE rels

ChildPairs(rels, S1, S2, J, sj) ==
  LET after == ComputePartitionBounds(rels, S1, S2, J, sj)[J]
      fresh == SetToSeq(MergedPairs(rels, S1, S2, sj.jointype))
  IN  IF ~after.merged
      THEN [k \in 1 .. after.nparts |-> <<PartOf(rels[S1], k), PartOf(rels[S2], k)>>]
      ELSE IF rels[J].nparts > 0 THEN GetMatchingPartPairs(rels, S1, S2, J)
      ELSE [k \in DOMAIN fresh |-> <<PartOf(rels[S1], fresh[k][1]), PartOf(rels[S2], fresh[k][2])>>]

(* build_child_join_sjinfo and adjust_appendrel_attrs: relids of a parent  *)
(* become those of its child.                                              *)
Adjusted(relids, child) ==
  {x \in child : <<x[1], 0>> \in relids} \cup {x \in relids : x[1] \notin NumbersIn(child)}

ChildSjinfo(sj, c1, c2) ==
  [sj EXCEPT !.min_lefthand = Adjusted(@, c1), !.min_righthand = Adjusted(@, c2),
             !.syn_lefthand = Adjusted(@, c1), !.syn_righthand = Adjusted(@, c2)]

ChildRestrictlist(restrictlist, child) ==
  {[rinfo EXCEPT !.clause = Adjusted(@, child), !.required_relids = Adjusted(@, child)] :
     rinfo \in restrictlist}

SegmentIsEmpty(rels, c1, c2, type) ==
  CASE type \in {"inner", "semi"} -> ~IsLive(rels, c1) \/ ~IsLive(rels, c2)
    [] type \in {"left", "anti"} -> ~IsLive(rels, c1)
    [] type = "full" -> ~IsLive(rels, c1) /\ ~IsLive(rels, c2)

Unplanned(rels, S, c) == IsSimple(S) /\ ~rels[c].consider

JoinSegment(rels, S1, S2, J, k, pair, sj, restrictlist) ==
  LET c1 == pair[1]
      c2 == pair[2]
      child == IF rels[J].part_rels[k] = {} THEN c1 \cup c2 ELSE rels[J].part_rels[k]
      built == IF rels[J].part_rels[k] # {} THEN rels
               ELSE (child :> NewRel(FALSE)) @@ [rels EXCEPT ![J].part_rels[k] = child]
  IN  IF rels[J].nparts = 0 \/ SegmentIsEmpty(rels, c1, c2, sj.jointype) THEN rels
      ELSE IF c1 = {} \/ c2 = {} \/ Unplanned(rels, S1, c1) \/ Unplanned(rels, S2, c2)
           THEN [rels EXCEPT ![J].nparts = 0]
           ELSE PopulateJoin(built, c1, c2, child, ChildSjinfo(sj, c1, c2),
                             ChildRestrictlist(restrictlist, child))

TryPartitionwiseJoin(rels, S1, S2, J, sj, restrictlist) ==
  LET pairs == ChildPairs(rels, S1, S2, J, sj)
      step(acc, k) == JoinSegment(acc, S1, S2, J, k, pairs[k], sj, restrictlist)
  IN  IF \/ ~rels[J].part_scheme \/ rels[J].nparts = 0
         \/ ~IsPartitioned(rels[S1]) \/ ~IsPartitioned(rels[S2])
      THEN rels
      ELSE FoldLeft(step, ComputePartitionBounds(rels, S1, S2, J, sj), [k \in DOMAIN pairs |-> k])

PopulateJoinrelWithPaths(rels, S1, S2, J, sj, restrictlist) ==
  TryPartitionwiseJoin(PopulateJoin(rels, S1, S2, J, sj, restrictlist),
                       S1, S2, J, sj, restrictlist)

(* generate_partitionwise_join_paths: the children appended, those that    *)
(* are dummy left out.                                                     *)
AppendPaths(rels, children) ==
  {UNION {f[c] : c \in children} :
     f \in {g \in [children -> UNION {rels[c].paths : c \in children}] :
              \A c \in children : g[c] \in rels[c].paths}}

GeneratePartitionwisePaths(rels, J) ==
  LET children == {c \in ToSet(rels[J].part_rels) : IsLive(rels, c)}
  IN  IF ~IsPartitioned(rels[J]) THEN rels
      ELSE IF \E c \in children : rels[c].paths = {} THEN [rels EXCEPT ![J].nparts = 0]
      ELSE IF children = {} THEN MarkDummyRel(rels, J)
      ELSE [rels EXCEPT ![J].paths = @ \cup AppendPaths(rels, children)]
=============================================================================

---------------------------- MODULE SampleQueries ----------------------------
(***************************************************************************)
(* Queries for the join search: those of three relations joined in every   *)
(* way, some of four, also with a join of their own (sub), and of five,    *)
(* which two semijoins leave no join of four; and their partitions.        *)
(***************************************************************************)
EXTENDS JoinPaths

Rel(r) == <<[type |-> "rel", rel |-> r]>>

Shifted(q, n) ==
  [i \in DOMAIN q |-> IF IsRel(q[i]) THEN q[i] ELSE [q[i] EXCEPT !.l = @ + n, !.r = @ + n]]
Join(a, b, type, quals) ==
  a \o Shifted(b, Len(a)) \o
  <<[type |-> type, l |-> Len(a), r |-> Len(a) + Len(b), quals |-> quals, sub |-> FALSE]>>

Qual(kind, R) == [kind |-> kind, clause |-> Base(R)]

(* What a qual above a query may name, and what of it may be null.         *)
Visible(q) ==
  LET f[i \in DOMAIN q] ==
        IF IsRel(q[i]) THEN {q[i].rel}
        ELSE f[q[i].l] \cup (IF q[i].type \in {"semi", "anti"} THEN {} ELSE f[q[i].r])
  IN  f[Len(q)]
Nullable(q) ==
  LET R == RelsOf(q)
      f[i \in DOMAIN q] ==
        IF IsRel(q[i]) THEN {}
        ELSE CASE q[i].type = "left" -> f[q[i].l] \cup R[q[i].r]
               [] q[i].type = "full" -> R[i]
               [] q[i].type = "inner" -> f[q[i].l] \cup f[q[i].r]
               [] OTHER -> f[q[i].l]
  IN  f[Len(q)]

(* reduce_outer_joins was there before: no strict qual rejects rows that   *)
(* an outer join below has null-extended.                                  *)
Reduced(a, b, type, quals) ==
  \A q \in quals :
    LET R == NumbersIn(q.clause) IN
    /\ type \in {"inner", "semi"} => ~Overlap(R, Nullable(a) \cup Nullable(b))
    /\ type \in {"left", "anti"} /\ q.kind = "eq" => ~Overlap(R, Nullable(b))

Singles(kinds, a, b) == {{Qual(k, {x, y})} : k \in kinds, x \in Visible(a), y \in Visible(b)}
AnyQuals(a, b) ==
  {{}, {Qual("never", {})}} \cup Singles({"eq", "lax"}, a, b)
  \cup {s \cup t : s, t \in Singles({"eq"}, a, b)}
PlainQuals(a, b) == {{}} \cup Singles({"eq"}, a, b)

Joins(A, B, Types, Quals(_, _)) ==
  UNION {{Join(p[1], p[2], t, qs) : qs \in {x \in Quals(p[1], p[2]) : Reduced(p[1], p[2], t, x)}} :
         p \in A \X B, t \in Types}

One == {Rel(1)}
Two == {Rel(2)}
Three == {Rel(3)}
Four == {Rel(4)}

All == {"inner", "left", "full", "semi", "anti"}
ThreeRels ==
  Joins(Joins(One, Two, All, AnyQuals), Three, All, AnyQuals)
  \cup Joins(One, Joins(Two, Three, All, AnyQuals), All, AnyQuals)

Some == {"inner", "left", "semi"}
Plain(A, B) == Joins(A, B, Some, PlainQuals)
FourRels ==
  Plain(Plain(One, Two), Plain(Three, Four)) \cup Plain(Plain(Plain(One, Two), Three), Four)
  \cup Plain(Plain(One, Plain(Two, Three)), Four) \cup Plain(One, Plain(Two, Plain(Three, Four)))
Inners(A, B) == Joins(A, B, {"inner"}, PlainQuals)
SubProblems ==
  {[q EXCEPT ![3].sub = TRUE] : q \in Inners(Inners(Inners(One, Two), Three), Four)}

Related(kind, a, b) == {Qual(kind, {a, b})}
FiveRels ==
  {Join(Join(Rel(1), Join(Rel(2), Rel(3), "inner", Related("eq", 2, 3)), "semi", Related(k, 1, 2)),
        Join(Rel(4), Rel(5), "inner", Related("eq", 4, 5)), "semi", Related(l, 1, 4)) :
     k, l \in {"eq", "lax"}}

-----------------------------------------------------------------------------
Contents == {[r \in Rels |-> CASE r = 1 -> {0, 1} [] r = 2 -> t [] r = 3 -> u [] OTHER -> {0, 2}] :
             t \in {{}, {1, 4}, {0}}, u \in {{0, 2, 5}, {1, 2, 4}}}
Unpartitioned == [r \in Rels |-> << >>]

Partition(sets, k, state) == [values |-> sets[k], state |-> IF k = Len(sets) THEN state ELSE "planned"]
Partitions(sets, state) == [k \in DOMAIN sets |-> Partition(sets, k, state)]
Splits == {<<{0}, {1}, {2}>>, <<{0}, {1}>>, <<{0, 2}, {1}>>}
Layouts ==
  {[r \in Rels |-> CASE r = 1 -> Partitions(<<{0}, {1}>>, s)
                     [] r = 2 -> Partitions(p, t)
                     [] r = 3 -> Partitions(<<{0}, {1}, {2}>>, "planned")
                     [] OTHER -> << >>] :
     p \in Splits, s \in {"planned", "pruned"}, t \in {"planned", "empty", "unplanned", "pruned"}}
Partitioned == {q \in ThreeRels : \A i \in DOMAIN q : ~IsRel(q[i]) =>
                  \E x \in q[i].quals : q[i].quals = {x} /\ x.kind # "lax"}

With(Queries, rows, parts) ==
  {[query |-> q, rows |-> t, parts |-> p] : q \in Queries, t \in rows, p \in parts}
OneTable == {[r \in Rels |-> CASE r = 1 -> {0, 1} [] r = 2 -> {1, 4} [] OTHER -> {0, 2}]}
WholeTables == {[r \in Rels |-> CASE r = 1 -> {0, 1, 2} [] r = 2 -> {1, 2, 4} [] OTHER -> {0, 1, 5}]}

SampleCases ==
  With(ThreeRels, Contents, {Unpartitioned})
  \cup With(FourRels \cup SubProblems \cup FiveRels, OneTable, {Unpartitioned})
  \cup With(Partitioned, WholeTables, Layouts)
=============================================================================

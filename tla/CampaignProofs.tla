--------------------------- MODULE CampaignProofs ---------------------------
(***************************************************************************)
(* Proofs about ParallelCampaign, for every list and every database of     *)
(* extensions without a cycle of dependencies: the table of pairwise mode, *)
(* the list files of the workers, and the merge of their reports.          *)
(***************************************************************************)
EXTENDS ParallelCampaign, HostProofs

ListTyped == extnList \in Seq(Names)

-----------------------------------------------------------------------------
(* The position of a pair: one more than that of the cell before, when the *)
(* cell is about a pair.                                                   *)
Before(r, c) ==
  {rc \in Cells : (rc[1] < r \/ (rc[1] = r /\ rc[2] <= c)) /\ extnList[rc[1]] # extnList[rc[2]]}

LEMMA PositionFacts ==
  ASSUME ListTyped
  PROVE  /\ \A r, c \in 0 .. Len(extnList) : Position(r, c) \in Nat
         /\ Position(0, Len(extnList)) = 0
         /\ \A r \in 1 .. Len(extnList) : Position(r, 0) = Position(r - 1, Len(extnList))
         /\ \A r, c \in 1 .. Len(extnList) :
              Position(r, c) = IF extnList[r] = extnList[c] THEN Position(r, c - 1) ELSE Position(r, c - 1) + 1
<1> DEFINE n == Len(extnList)
<1>0. n \in Nat /\ DOMAIN extnList = 1 .. n
  BY DEF ListTyped
<1>1. Cells = (1 .. n) \X (1 .. n)
  BY <1>0 DEF Cells
<1>2. IsFiniteSet(Cells)
  <2> DEFINE ats == 1 .. n
  <2>1. IsFiniteSet(ats)
    BY <1>0, FS_Interval
  <2> HIDE DEF ats
  <2>2. IsFiniteSet(ats \X ats)
    BY <2>1, FS_Product
  <2> QED BY <1>1, <2>2 DEF ats
<1>3. \A r, c : IsFiniteSet(Before(r, c)) /\ Position(r, c) = Cardinality(Before(r, c))
  BY <1>2, FS_Subset DEF Before, Position
<1>4. \A r, c : Position(r, c) \in Nat
  BY <1>3, FS_CardinalityType
<1> HIDE DEF n
<1>5. Before(0, n) = {}
  BY <1>0, <1>1 DEF Before
<1>6. ASSUME NEW r \in 1 .. n PROVE Before(r, 0) = Before(r - 1, n)
  <2>1. ASSUME NEW rc \in Cells
        PROVE  (rc[1] < r \/ (rc[1] = r /\ rc[2] <= 0)) <=> (rc[1] < r - 1 \/ (rc[1] = r - 1 /\ rc[2] <= n))
    <3>1. rc[1] \in 1 .. n /\ rc[2] \in 1 .. n
      BY <1>1
    <3> QED BY <1>0, <3>1
  <2> QED BY <2>1 DEF Before
<1>7. ASSUME NEW r \in 1 .. n, NEW c \in 1 .. n
      PROVE  Position(r, c) = IF extnList[r] = extnList[c] THEN Position(r, c - 1) ELSE Position(r, c - 1) + 1
  <2> DEFINE S == Before(r, c - 1)
             x == <<r, c>>
  <2>1. x \in Cells /\ x[1] = r /\ x[2] = c
    BY <1>1
  <2>2. ASSUME NEW rc \in Cells
        PROVE  rc[1] = r /\ rc[2] <= c <=> rc = x \/ (rc[1] = r /\ rc[2] <= c - 1)
    <3>1. rc[1] \in 1 .. n /\ rc[2] \in 1 .. n /\ rc = <<rc[1], rc[2]>>
      BY <1>1
    <3>2. rc[2] <= c <=> rc[2] = c \/ rc[2] <= c - 1
      BY <1>0, <3>1
    <3> QED BY <3>1, <3>2
  <2>3. x \notin S
    BY <1>0, <2>1 DEF Before
  <2>4. CASE extnList[r] = extnList[c]
    <3>1. Before(r, c) = S
      BY <2>1, <2>2, <2>4 DEF Before
    <3> QED BY <1>3, <2>4, <3>1
  <2>5. CASE extnList[r] # extnList[c]
    <3>1. Before(r, c) = S \cup {x}
      BY <2>1, <2>2, <2>5 DEF Before
    <3> HIDE DEF S, x
    <3>2. IsFiniteSet(S) /\ Position(r, c - 1) = Cardinality(S)
      BY <1>3 DEF S
    <3>3. Cardinality(S \cup {x}) = Cardinality(S) + 1
      BY <2>3, <3>2, FS_AddElement
    <3> QED BY <1>3, <2>5, <3>1, <3>2, <3>3
  <2> QED BY <2>4, <2>5
<1>8. Position(0, n) = 0
  BY <1>3, <1>5, FS_EmptySet
<1>9. \A r \in 1 .. n : Position(r, 0) = Position(r - 1, n)
  BY <1>3, <1>6
<1> QED BY <1>4, <1>7, <1>8, <1>9 DEF n
-----------------------------------------------------------------------------
(* The pairs of the list up to a cell, each at its position,               *)
Reached(a, b, r, c) == a < r \/ (a = r /\ b <= c)

PairsUpTo(ps, r, c) ==
  /\ ps \in Seq(Names \X Names)
  /\ Len(ps) = Position(r, c)
  /\ \A a, b \in 1 .. Len(extnList) : Reached(a, b, r, c) /\ extnList[a] # extnList[b] =>
       Position(a, b) \in 1 .. Len(ps) /\ ps[Position(a, b)] = <<extnList[a], extnList[b]>>
  /\ \A k \in 1 .. Len(ps) : \E a, b \in 1 .. Len(extnList) :
       extnList[a] # extnList[b] /\ ps[k] = <<extnList[a], extnList[b]>>

LEMMA PairsUpToCell ==
  ASSUME ListTyped, NEW r \in 1 .. Len(extnList), NEW c \in 1 .. Len(extnList), NEW ps,
         PairsUpTo(ps, r, c - 1)
  PROVE  PairsUpTo(IF extnList[r] = extnList[c] THEN ps ELSE Append(ps, <<extnList[r], extnList[c]>>), r, c)
<1> DEFINE n == Len(extnList)
<1>0. /\ n \in Nat /\ DOMAIN extnList = 1 .. n /\ \A k \in 1 .. n : extnList[k] \in Names
      /\ ps \in Seq(Names \X Names) /\ Len(ps) \in Nat
  BY DEF ListTyped, PairsUpTo
<1>1. /\ Len(ps) = Position(r, c - 1)
      /\ \A a, b \in 1 .. n : Reached(a, b, r, c - 1) /\ extnList[a] # extnList[b] =>
           Position(a, b) \in 1 .. Len(ps) /\ ps[Position(a, b)] = <<extnList[a], extnList[b]>>
      /\ \A k \in 1 .. Len(ps) : \E a, b \in 1 .. n :
           extnList[a] # extnList[b] /\ ps[k] = <<extnList[a], extnList[b]>>
  BY DEF PairsUpTo
<1>2. Position(r, c) = IF extnList[r] = extnList[c] THEN Position(r, c - 1) ELSE Position(r, c - 1) + 1
  BY PositionFacts
<1>3. \A a, b \in 1 .. n :
        Reached(a, b, r, c) => Reached(a, b, r, c - 1) \/ (a = r /\ b = c)
  BY <1>0 DEF Reached
<1>4. CASE extnList[r] = extnList[c]
  <2>1. \A a, b \in 1 .. n : Reached(a, b, r, c) /\ extnList[a] # extnList[b] => Reached(a, b, r, c - 1)
    BY <1>3, <1>4
  <2>2. Len(ps) = Position(r, c)
    BY <1>1, <1>2, <1>4
  <2> QED BY <1>0, <1>1, <1>4, <2>1, <2>2 DEF PairsUpTo
<1>5. CASE extnList[r] # extnList[c]
  <2> DEFINE x == <<extnList[r], extnList[c]>>
             u == Append(ps, x)
  <2>1. x \in Names \X Names
    BY <1>0
  <2>2. /\ u \in Seq(Names \X Names) /\ Len(u) = Len(ps) + 1
        /\ \A i \in 1 .. Len(ps) : u[i] = ps[i]
        /\ u[Len(ps) + 1] = x
    BY <1>0, <2>1
  <2>3. Len(u) = Position(r, c)
    BY <1>1, <1>2, <1>5, <2>2
  <2> HIDE DEF u
  <2>4. ASSUME NEW a \in 1 .. n, NEW b \in 1 .. n, Reached(a, b, r, c), extnList[a] # extnList[b]
        PROVE  Position(a, b) \in 1 .. Len(u) /\ u[Position(a, b)] = <<extnList[a], extnList[b]>>
    <3>1. CASE Reached(a, b, r, c - 1)
      <4>1. Position(a, b) \in 1 .. Len(ps) /\ ps[Position(a, b)] = <<extnList[a], extnList[b]>>
        BY <1>1, <2>4, <3>1
      <4> QED BY <1>0, <2>2, <4>1
    <3>2. CASE a = r /\ b = c
      <4>1. Position(a, b) = Len(ps) + 1
        BY <2>2, <2>3, <3>2
      <4> QED BY <1>0, <2>2, <3>2, <4>1
    <3> QED BY <1>3, <2>4, <3>1, <3>2
  <2>5. ASSUME NEW k \in 1 .. Len(u)
        PROVE  \E a, b \in 1 .. n : extnList[a] # extnList[b] /\ u[k] = <<extnList[a], extnList[b]>>
    <3>1. k \in 1 .. Len(ps) \/ k = Len(ps) + 1
      BY <1>0, <2>2
    <3>2. CASE k \in 1 .. Len(ps)
      <4>1. PICK a, b \in 1 .. n : extnList[a] # extnList[b] /\ ps[k] = <<extnList[a], extnList[b]>>
        BY <1>1, <3>2
      <4>2. u[k] = ps[k]
        BY <2>2, <3>2
      <4> QED BY <4>1, <4>2
    <3>3. CASE k = Len(ps) + 1
      <4>1. extnList[r] # extnList[c] /\ u[k] = <<extnList[r], extnList[c]>>
        BY <1>5, <2>2, <3>3
      <4> QED BY <4>1
    <3> QED BY <3>1, <3>2, <3>3
  <2>6. PairsUpTo(u, r, c)
    BY <2>2, <2>3, <2>4, <2>5 DEF PairsUpTo
  <2> QED BY <1>5, <2>6 DEF u
<1> QED BY <1>4, <1>5

LEMMA PairsUpToRow ==
  ASSUME ListTyped, NEW r \in 1 .. Len(extnList), NEW ps, PairsUpTo(ps, r - 1, Len(extnList))
  PROVE  PairsUpTo(ps, r, 0)
<1>0. Len(extnList) \in Nat
  BY DEF ListTyped
<1>1. \A a, b \in 1 .. Len(extnList) : Reached(a, b, r, 0) => Reached(a, b, r - 1, Len(extnList))
  BY <1>0 DEF Reached
<1>2. Position(r, 0) = Position(r - 1, Len(extnList))
  BY PositionFacts
<1> QED BY <1>1, <1>2 DEF PairsUpTo

LEMMA PairsUpToStart ==
  ASSUME ListTyped
  PROVE  PairsUpTo(<< >>, 0, Len(extnList))
<1>0. Len(extnList) \in Nat
  BY DEF ListTyped
<1>1. \A a, b \in 1 .. Len(extnList) : ~Reached(a, b, 0, Len(extnList))
  BY <1>0 DEF Reached
<1> QED BY <1>0, <1>1, PositionFacts DEF PairsUpTo

(* as the two loops of pairwise_mode make them: the fold of PairsWith,     *)
PairSteps(ps, first, S) ==
  {h \in [0 .. Len(extnList) -> Seq(S)] :
     /\ h[0] = ps
     /\ \A k \in 1 .. Len(extnList) :
          h[k] = IF first = extnList[k] THEN h[k - 1] ELSE Append(h[k - 1], <<first, extnList[k]>>)}

LEMMA FoldPairsWith ==
  ASSUME ListTyped, NEW first \in Names, NEW ps \in Seq(Names \X Names)
  PROVE  \E h \in PairSteps(ps, first, Names \X Names) : PairsWith(ps, first, extnList) = h[Len(extnList)]
<1> DEFINE V == Seq(Names \X Names)
           n == Len(extnList)
           step == [k \in 1 .. n |->
                      [v \in V |-> (IF first = extnList[k] THEN v ELSE Append(v, <<first, extnList[k]>>))]]
           Solves(f) == f = [s \in SUBSET DOMAIN extnList |->
                               IF s = {} THEN ps
                               ELSE (IF first = extnList[Max(s)] THEN f[s \ {Max(s)}]
                                     ELSE Append(f[s \ {Max(s)}], <<first, extnList[Max(s)]>>))]
           iter == CHOOSE g : Solves(g)
<1>1. n \in Nat /\ DOMAIN extnList = 1 .. n /\ ps \in V /\ \A k \in 1 .. n : extnList[k] \in Names
  BY DEF ListTyped
<1>2. step \in [1 .. n -> [V -> V]]
  <2>1. ASSUME NEW v \in V, NEW k \in 1 .. n
        PROVE  (IF first = extnList[k] THEN v ELSE Append(v, <<first, extnList[k]>>)) \in V
    BY <1>1
  <2> QED BY <2>1
<1>3. PICK f \in Iterates(V, n, ps, step) :
        \A s \in SUBSET (1 .. n) : s # {} => Max(s) \in 1 .. n /\ f[s \ {Max(s)}] \in V
  <2> HIDE DEF V, n, step
  <2> QED BY <1>1, <1>2, IteratesThere
<1>4. Solves(f)
  BY <1>1, <1>3 DEF Iterates
<1>5. Solves(iter)
  <2> HIDE DEF Solves
  <2> QED BY <1>4
<1>6. PairsWith(ps, first, extnList) = iter[1 .. n]
  BY <1>1 DEF FoldLeft, MapThenFoldSet, PairsWith
<1> HIDE DEF iter
<1>7. iter[{}] = ps
  BY <1>5
<1>8. \A s \in SUBSET (1 .. n) : s # {} /\ iter[s \ {Max(s)}] \in V =>
        iter[s] = step[Max(s)][iter[s \ {Max(s)}]]
  BY <1>1, <1>3, <1>5
<1>9. PICK h \in Steps(V, n, ps, step) : iter[1 .. n] = h[n]
  <2> HIDE DEF V, n, step
  <2>1. Iterating(V, n, ps, step, iter)
    BY <1>7, <1>8 DEF Iterating
  <2> QED BY <1>1, <1>2, <2>1, StepsOfIterate
<1> QED BY <1>1, <1>6, <1>9 DEF Steps, PairSteps

LEMMA PairsWithFacts ==
  ASSUME ListTyped, NEW r \in 1 .. Len(extnList), NEW ps, PairsUpTo(ps, r - 1, Len(extnList))
  PROVE  PairsUpTo(PairsWith(ps, extnList[r], extnList), r, Len(extnList))
<1> DEFINE n == Len(extnList)
           first == extnList[r]
<1>0. n \in Nat /\ n \in 0 .. n /\ first \in Names /\ ps \in Seq(Names \X Names)
  BY DEF ListTyped, PairsUpTo
<1>1. PICK h \in PairSteps(ps, first, Names \X Names) : PairsWith(ps, first, extnList) = h[n]
  <2> HIDE DEF first, n
  <2> QED BY <1>0, FoldPairsWith DEF n
<1> DEFINE T == {k \in 0 .. n : PairsUpTo(h[k], r, k)}
<1>2. 0 \in T
  BY <1>0, <1>1, PairsUpToRow DEF PairSteps
<1>3. ASSUME NEW k \in 1 .. n, k - 1 \in T PROVE k \in T
  <2> DEFINE q == h[k - 1]
  <2>1. PairsUpTo(q, r, k - 1)
    BY <1>3
  <2>2. h[k] = IF extnList[r] = extnList[k] THEN q ELSE Append(q, <<extnList[r], extnList[k]>>)
    BY <1>1 DEF PairSteps
  <2> HIDE DEF q
  <2>3. PairsUpTo(h[k], r, k)
    BY <2>1, <2>2, PairsUpToCell
  <2> QED BY <1>0, <2>3
<1>4. 0 .. n \subseteq T
  <2> HIDE DEF T, n
  <2> QED BY <1>0, <1>2, <1>3, UpToInduction
<1> QED BY <1>0, <1>1, <1>4

(* and the fold of OrderedPairs.                                           *)
OrderedSteps(S) ==
  {h \in [0 .. Len(extnList) -> Seq(S)] :
     h[0] = << >> /\ \A k \in 1 .. Len(extnList) : h[k] = PairsWith(h[k - 1], extnList[k], extnList)}

LEMMA FoldOrderedPairs ==
  ASSUME ListTyped
  PROVE  \E h \in OrderedSteps(Names \X Names) : OrderedPairs(extnList) = h[Len(extnList)]
<1> DEFINE V == Seq(Names \X Names)
           n == Len(extnList)
           step == [k \in 1 .. n |-> [v \in V |-> PairsWith(v, extnList[k], extnList)]]
           Solves(f) == f = [s \in SUBSET DOMAIN extnList |->
                               IF s = {} THEN << >>
                               ELSE PairsWith(f[s \ {Max(s)}], extnList[Max(s)], extnList)]
           iter == CHOOSE g : Solves(g)
<1>1. n \in Nat /\ DOMAIN extnList = 1 .. n /\ << >> \in V /\ \A k \in 1 .. n : extnList[k] \in Names
  BY DEF ListTyped
<1>2. step \in [1 .. n -> [V -> V]]
  <2>1. ASSUME NEW v \in V, NEW first \in Names PROVE PairsWith(v, first, extnList) \in V
    <3>1. PICK h \in PairSteps(v, first, Names \X Names) : PairsWith(v, first, extnList) = h[n]
      BY FoldPairsWith
    <3> QED BY <1>1, <3>1 DEF PairSteps
  <2> QED BY <1>1, <2>1
<1>3. PICK f \in Iterates(V, n, << >>, step) :
        \A s \in SUBSET (1 .. n) : s # {} => Max(s) \in 1 .. n /\ f[s \ {Max(s)}] \in V
  <2> HIDE DEF V, n, step
  <2> QED BY <1>1, <1>2, IteratesThere
<1>4. Solves(f)
  BY <1>1, <1>3 DEF Iterates
<1>5. Solves(iter)
  <2> HIDE DEF Solves
  <2> QED BY <1>4
<1>6. OrderedPairs(extnList) = iter[1 .. n]
  BY <1>1 DEF FoldLeft, MapThenFoldSet, OrderedPairs
<1> HIDE DEF iter
<1>7. iter[{}] = << >>
  BY <1>5
<1>8. \A s \in SUBSET (1 .. n) : s # {} /\ iter[s \ {Max(s)}] \in V =>
        iter[s] = step[Max(s)][iter[s \ {Max(s)}]]
  BY <1>1, <1>3, <1>5
<1>9. PICK h \in Steps(V, n, << >>, step) : iter[1 .. n] = h[n]
  <2> HIDE DEF V, n, step
  <2>1. Iterating(V, n, << >>, step, iter)
    BY <1>7, <1>8 DEF Iterating
  <2> QED BY <1>1, <1>2, <2>1, StepsOfIterate
<1> QED BY <1>1, <1>6, <1>9 DEF Steps, OrderedSteps

LEMMA OrderedPairsFacts ==
  ASSUME ListTyped
  PROVE  PairsUpTo(OrderedPairs(extnList), Len(extnList), Len(extnList))
<1> DEFINE n == Len(extnList)
<1>0. n \in Nat /\ n \in 0 .. n
  BY DEF ListTyped
<1>1. PICK h \in OrderedSteps(Names \X Names) : OrderedPairs(extnList) = h[n]
  BY FoldOrderedPairs
<1> DEFINE T == {k \in 0 .. n : PairsUpTo(h[k], k, n)}
<1>2. 0 \in T
  BY <1>0, <1>1, PairsUpToStart DEF OrderedSteps
<1>3. ASSUME NEW k \in 1 .. n, k - 1 \in T PROVE k \in T
  <2> DEFINE q == h[k - 1]
  <2>1. PairsUpTo(q, k - 1, n)
    BY <1>3
  <2>2. h[k] = PairsWith(q, extnList[k], extnList)
    BY <1>1 DEF OrderedSteps
  <2> HIDE DEF q
  <2>3. PairsUpTo(h[k], k, n)
    BY <2>1, <2>2, PairsWithFacts
  <2> QED BY <1>0, <2>3
<1>4. 0 .. n \subseteq T
  <2> HIDE DEF T, n
  <2> QED BY <1>0, <1>2, <1>3, UpToInduction
<1> QED BY <1>0, <1>1, <1>4

(* So the pairs are those of different names of the list.                  *)
LEMMA PairsOfList ==
  ASSUME ListTyped
  PROVE  /\ OrderedPairs(extnList) \in Seq(Names \X Names)
         /\ ToSet(OrderedPairs(extnList)) =
              {p \in ToSet(extnList) \X ToSet(extnList) : p[1] # p[2]}
<1> DEFINE n == Len(extnList)
           ps == OrderedPairs(extnList)
<1>0. n \in Nat /\ DOMAIN extnList = 1 .. n
  BY DEF ListTyped
<1>1. PairsUpTo(ps, n, n)
  BY OrderedPairsFacts
<1> HIDE DEF ps
<1>2. ps \in Seq(Names \X Names) /\ DOMAIN ps = 1 .. Len(ps)
  BY <1>1 DEF PairsUpTo
<1>3. ASSUME NEW p \in ToSet(ps) PROVE p \in ToSet(extnList) \X ToSet(extnList) /\ p[1] # p[2]
  <2>1. PICK k \in 1 .. Len(ps) : p = ps[k]
    BY <1>2 DEF ToSet
  <2>2. PICK a, b \in 1 .. n : extnList[a] # extnList[b] /\ ps[k] = <<extnList[a], extnList[b]>>
    BY <1>1 DEF PairsUpTo
  <2> QED BY <1>0, <2>1, <2>2 DEF ToSet
<1>4. ASSUME NEW p \in ToSet(extnList) \X ToSet(extnList), p[1] # p[2] PROVE p \in ToSet(ps)
  <2>1. PICK a, b \in 1 .. n : p[1] = extnList[a] /\ p[2] = extnList[b]
    BY <1>0 DEF ToSet
  <2>2. Reached(a, b, n, n)
    <3> HIDE DEF n
    <3> QED BY <1>0, <2>1 DEF Reached
  <2>3. Position(a, b) \in 1 .. Len(ps) /\ ps[Position(a, b)] = <<extnList[a], extnList[b]>>
    BY <1>1, <1>4, <2>1, <2>2 DEF PairsUpTo
  <2>4. p = <<p[1], p[2]>>
    BY <1>4
  <2> QED BY <1>2, <2>1, <2>3, <2>4 DEF ToSet
<1> QED BY <1>2, <1>3, <1>4 DEF ps

-----------------------------------------------------------------------------
(* The cells of a row up to a column, and the index of the next verdict,   *)
(* which is the position of the next pair,                                 *)
CellFor(verdicts, a, b) ==
  IF extnList[b] = extnList[a] THEN "n/a" ELSE Answer(verdicts[Position(a, b)])

CellTexts == {"n/a", "yes", "no"}
RowParts == [cells : Seq(CellTexts), i : Nat]
RowUpTo(acc, verdicts, r, c) ==
  /\ acc \in RowParts
  /\ acc.i = Position(r, c) + 1
  /\ Len(acc.cells) = c
  /\ \A b \in 1 .. c : acc.cells[b] = CellFor(verdicts, r, b)

AnotherCell(acc, verdicts, extn, other) ==
  IF other = extn THEN [acc EXCEPT !.cells = Append(@, "n/a")]
  ELSE [cells |-> Append(acc.cells, Answer(verdicts[acc.i])), i |-> acc.i + 1]

LEMMA AnswerTyped ==
  ASSUME NEW v
  PROVE  Answer(v) \in CellTexts
BY Zenon DEF Answer, CellTexts

LEMMA AnotherCellTyped ==
  ASSUME NEW acc \in RowParts, NEW verdicts, NEW extn, NEW other
  PROVE  /\ AnotherCell(acc, verdicts, extn, other) \in RowParts
         /\ AnotherCell(acc, verdicts, extn, other) =
              IF other = extn THEN [cells |-> Append(acc.cells, "n/a"), i |-> acc.i]
              ELSE [cells |-> Append(acc.cells, Answer(verdicts[acc.i])), i |-> acc.i + 1]
<1>1. acc.cells \in Seq(CellTexts) /\ acc.i \in Nat /\ acc = [cells |-> acc.cells, i |-> acc.i]
  BY DEF RowParts
<1>2. Answer(verdicts[acc.i]) \in CellTexts
  BY AnswerTyped
<1>3. CASE other = extn
  <2>1. AnotherCell(acc, verdicts, extn, other) = [cells |-> Append(acc.cells, "n/a"), i |-> acc.i]
    BY <1>1, <1>3 DEF AnotherCell
  <2>2. Append(acc.cells, "n/a") \in Seq(CellTexts)
    BY <1>1 DEF CellTexts
  <2> QED BY <1>1, <1>3, <2>1, <2>2 DEF RowParts
<1>4. CASE other # extn
  BY <1>1, <1>2, <1>4 DEF AnotherCell, RowParts
<1> QED BY <1>3, <1>4

LEMMA RowUpToCell ==
  ASSUME ListTyped, NEW r \in 1 .. Len(extnList), NEW c \in 1 .. Len(extnList), NEW acc, NEW verdicts,
         RowUpTo(acc, verdicts, r, c - 1)
  PROVE  RowUpTo(AnotherCell(acc, verdicts, extnList[r], extnList[c]), verdicts, r, c)
<1>0. c \in Nat /\ c - 1 \in Nat
  BY DEF ListTyped
<1>1. /\ acc \in RowParts /\ acc.cells \in Seq(CellTexts) /\ acc.i \in Nat
      /\ acc.i = Position(r, c - 1) + 1 /\ Len(acc.cells) = c - 1
      /\ \A b \in 1 .. c - 1 : acc.cells[b] = CellFor(verdicts, r, b)
  BY DEF RowUpTo, RowParts
<1>2. Position(r, c) = IF extnList[r] = extnList[c] THEN Position(r, c - 1) ELSE Position(r, c - 1) + 1
  BY PositionFacts
<1> DEFINE new == AnotherCell(acc, verdicts, extnList[r], extnList[c])
           cell == IF extnList[c] = extnList[r] THEN "n/a" ELSE Answer(verdicts[acc.i])
<1>3. /\ new \in RowParts
      /\ new.cells = Append(acc.cells, cell)
      /\ new.i = IF extnList[c] = extnList[r] THEN acc.i ELSE acc.i + 1
  <2>1. /\ new \in RowParts
        /\ new = IF extnList[c] = extnList[r] THEN [cells |-> Append(acc.cells, "n/a"), i |-> acc.i]
                 ELSE [cells |-> Append(acc.cells, Answer(verdicts[acc.i])), i |-> acc.i + 1]
    BY <1>1, AnotherCellTyped
  <2> HIDE DEF new
  <2> QED BY <2>1
<1>4. cell = CellFor(verdicts, r, c) /\ new.i = Position(r, c) + 1
  <2>1. CASE extnList[c] = extnList[r]
    BY <1>1, <1>2, <1>3, <2>1 DEF CellFor
  <2>2. CASE extnList[c] # extnList[r]
    <3>1. Position(r, c) = acc.i
      BY <1>1, <1>2, <2>2
    <3> QED BY <1>3, <2>2, <3>1 DEF CellFor
  <2> QED BY <2>1, <2>2
<1>5. cell \in CellTexts
  <2>1. "n/a" \in CellTexts
    BY DEF CellTexts
  <2> QED BY <2>1, AnswerTyped
<1> HIDE DEF new, cell
<1>6. /\ Len(new.cells) = c
      /\ \A b \in 1 .. c - 1 : new.cells[b] = acc.cells[b]
      /\ new.cells[c] = cell
  BY <1>0, <1>1, <1>3, <1>5
<1>7. \A b \in 1 .. c : b = c \/ b \in 1 .. c - 1
  BY <1>0
<1>8. RowUpTo(new, verdicts, r, c)
  BY <1>1, <1>3, <1>4, <1>6, <1>7 DEF RowUpTo
<1> QED BY <1>8 DEF new

RowSteps(verdicts, extn, i) ==
  {h \in [0 .. Len(extnList) -> RowParts] :
     /\ h[0] = [cells |-> << >>, i |-> i]
     /\ \A k \in 1 .. Len(extnList) : h[k] = AnotherCell(h[k - 1], verdicts, extn, extnList[k])}

LEMMA FoldPairwiseRow ==
  ASSUME ListTyped, NEW verdicts, NEW extn, NEW i \in Nat
  PROVE  \E h \in RowSteps(verdicts, extn, i) : PairwiseRow(extnList, verdicts, extn, i) = h[Len(extnList)]
<1> DEFINE V == RowParts
           n == Len(extnList)
           base == [cells |-> << >>, i |-> i]
           step == [k \in 1 .. n |-> [v \in V |-> AnotherCell(v, verdicts, extn, extnList[k])]]
           Solves(f) == f = [s \in SUBSET DOMAIN extnList |->
                               IF s = {} THEN base
                               ELSE AnotherCell(f[s \ {Max(s)}], verdicts, extn, extnList[Max(s)])]
           iter == CHOOSE g : Solves(g)
<1>1. n \in Nat /\ DOMAIN extnList = 1 .. n /\ base \in V
  BY DEF ListTyped, RowParts
<1>2. step \in [1 .. n -> [V -> V]]
  BY AnotherCellTyped
<1>3. PICK f \in Iterates(V, n, base, step) :
        \A s \in SUBSET (1 .. n) : s # {} => Max(s) \in 1 .. n /\ f[s \ {Max(s)}] \in V
  <2> HIDE DEF V, n, base, step
  <2> QED BY <1>1, <1>2, IteratesThere
<1>4. Solves(f)
  <2> HIDE DEF AnotherCell, base
  <2> QED BY <1>1, <1>3 DEF Iterates
<1>5. Solves(iter)
  <2> HIDE DEF Solves
  <2> QED BY <1>4
<1>6. PairwiseRow(extnList, verdicts, extn, i) = iter[1 .. n]
  BY <1>1 DEF FoldLeft, MapThenFoldSet, PairwiseRow, AnotherCell
<1> HIDE DEF iter
<1>7. iter[{}] = base
  BY <1>5
<1>8. \A s \in SUBSET (1 .. n) : s # {} /\ iter[s \ {Max(s)}] \in V =>
        iter[s] = step[Max(s)][iter[s \ {Max(s)}]]
  BY <1>1, <1>3, <1>5
<1>9. PICK h \in Steps(V, n, base, step) : iter[1 .. n] = h[n]
  <2> HIDE DEF V, n, base, step
  <2>1. Iterating(V, n, base, step, iter)
    BY <1>7, <1>8 DEF Iterating
  <2> QED BY <1>1, <1>2, <2>1, StepsOfIterate
<1> QED BY <1>1, <1>6, <1>9 DEF Steps, RowSteps

LEMMA PairwiseRowFacts ==
  ASSUME ListTyped, NEW r \in 1 .. Len(extnList), NEW verdicts
  PROVE  RowUpTo(PairwiseRow(extnList, verdicts, extnList[r], Position(r, 0) + 1), verdicts, r, Len(extnList))
<1> DEFINE n == Len(extnList)
           i == Position(r, 0) + 1
<1>0. n \in Nat /\ n \in 0 .. n /\ 0 \in 0 .. n /\ i \in Nat
  <2>1. Len(extnList) \in Nat
    BY DEF ListTyped
  <2> QED BY <2>1, PositionFacts
<1> HIDE DEF i
<1>1. PICK h \in RowSteps(verdicts, extnList[r], i) : PairwiseRow(extnList, verdicts, extnList[r], i) = h[n]
  BY <1>0, FoldPairwiseRow
<1> DEFINE T == {k \in 0 .. n : RowUpTo(h[k], verdicts, r, k)}
<1>2. 0 \in T
  <2>1. h[0] = [cells |-> << >>, i |-> i] /\ h[0] \in RowParts
    BY <1>0, <1>1 DEF RowSteps
  <2> QED BY <1>0, <2>1 DEF RowUpTo, i
<1>3. ASSUME NEW k \in 1 .. n, k - 1 \in T PROVE k \in T
  <2> DEFINE acc == h[k - 1]
  <2>1. RowUpTo(acc, verdicts, r, k - 1)
    BY <1>3
  <2>2. h[k] = AnotherCell(acc, verdicts, extnList[r], extnList[k])
    BY <1>1 DEF RowSteps
  <2> HIDE DEF acc
  <2>3. RowUpTo(h[k], verdicts, r, k)
    BY <2>1, <2>2, RowUpToCell
  <2> QED BY <1>0, <2>3
<1>4. 0 .. n \subseteq T
  <2> HIDE DEF T, n
  <2> QED BY <1>0, <1>2, <1>3, UpToInduction
<1> QED BY <1>0, <1>1, <1>4 DEF i

(* and of a table up to a row.                                             *)
TableRows == Names \X Seq(CellTexts)
TableParts == [table : Seq(TableRows), i : Nat]
TableUpTo(acc, verdicts, r) ==
  /\ acc \in TableParts
  /\ acc.i = Position(r, Len(extnList)) + 1
  /\ Len(acc.table) = r
  /\ \A a \in 1 .. r :
       /\ acc.table[a][1] = extnList[a]
       /\ \A b \in 1 .. Len(extnList) : acc.table[a][2][b] = CellFor(verdicts, a, b)

AnotherRow(acc, verdicts, extn) ==
  LET row == PairwiseRow(extnList, verdicts, extn, acc.i)
  IN  [table |-> Append(acc.table, <<extn, row.cells>>), i |-> row.i]

LEMMA AnotherRowTyped ==
  ASSUME ListTyped, NEW acc \in TableParts, NEW verdicts, NEW extn \in Names
  PROVE  AnotherRow(acc, verdicts, extn) \in TableParts
<1> DEFINE row == PairwiseRow(extnList, verdicts, extn, acc.i)
<1>1. acc.i \in Nat /\ acc.table \in Seq(TableRows) /\ Len(extnList) \in Nat
  BY DEF TableParts, ListTyped
<1>2. row \in RowParts
  <2>1. PICK h \in RowSteps(verdicts, extn, acc.i) : row = h[Len(extnList)]
    BY <1>1, FoldPairwiseRow
  <2> QED BY <1>1, <2>1 DEF RowSteps
<1> HIDE DEF row
<1>3. row.cells \in Seq(CellTexts) /\ row.i \in Nat
  BY <1>2 DEF RowParts
<1>4. <<extn, row.cells>> \in TableRows
  BY <1>3 DEF TableRows
<1>5. Append(acc.table, <<extn, row.cells>>) \in Seq(TableRows)
  BY <1>1, <1>4
<1> QED BY <1>3, <1>5 DEF AnotherRow, TableParts, row

LEMMA TableUpToRow ==
  ASSUME ListTyped, NEW r \in 1 .. Len(extnList), NEW acc, NEW verdicts,
         TableUpTo(acc, verdicts, r - 1)
  PROVE  TableUpTo(AnotherRow(acc, verdicts, extnList[r]), verdicts, r)
<1> DEFINE n == Len(extnList)
           row == PairwiseRow(extnList, verdicts, extnList[r], acc.i)
           new == AnotherRow(acc, verdicts, extnList[r])
<1>0. n \in Nat /\ r \in Nat /\ extnList[r] \in Names /\ acc \in TableParts
  BY DEF ListTyped, TableUpTo
<1>1. /\ acc.table \in Seq(TableRows) /\ Len(acc.table) = r - 1
      /\ \A a \in 1 .. r - 1 :
           /\ acc.table[a][1] = extnList[a]
           /\ \A b \in 1 .. n : acc.table[a][2][b] = CellFor(verdicts, a, b)
  BY DEF TableUpTo, TableParts
<1>2. acc.i = Position(r, 0) + 1
  BY PositionFacts DEF TableUpTo
<1>3. RowUpTo(row, verdicts, r, n)
  BY <1>2, PairwiseRowFacts
<1>4. new \in TableParts
  BY <1>0, AnotherRowTyped
<1>5. new.table = Append(acc.table, <<extnList[r], row.cells>>) /\ new.i = row.i
  BY DEF AnotherRow
<1> HIDE DEF row, new
<1>6. /\ row.i = Position(r, n) + 1 /\ row.cells \in Seq(CellTexts)
      /\ \A b \in 1 .. n : row.cells[b] = CellFor(verdicts, r, b)
  BY <1>3 DEF RowUpTo, RowParts
<1>7. <<extnList[r], row.cells>> \in TableRows
  BY <1>0, <1>6 DEF TableRows
<1>8. /\ Len(new.table) = r
      /\ \A a \in 1 .. r - 1 : new.table[a] = acc.table[a]
      /\ new.table[r] = <<extnList[r], row.cells>>
  BY <1>0, <1>1, <1>5, <1>7
<1>9. \A a \in 1 .. r : a = r \/ a \in 1 .. r - 1
  BY <1>0
<1>10. ASSUME NEW a \in 1 .. r
       PROVE  /\ new.table[a][1] = extnList[a]
              /\ \A b \in 1 .. n : new.table[a][2][b] = CellFor(verdicts, a, b)
  <2>1. CASE a = r
    BY <1>6, <1>8, <2>1
  <2>2. CASE a \in 1 .. r - 1
    BY <1>1, <1>8, <2>2
  <2> QED BY <1>9, <2>1, <2>2
<1>11. TableUpTo(new, verdicts, r)
  BY <1>4, <1>5, <1>6, <1>8, <1>10 DEF TableUpTo
<1> QED BY <1>11 DEF new

TableSteps(verdicts) ==
  {h \in [0 .. Len(extnList) -> TableParts] :
     /\ h[0] = [table |-> << >>, i |-> 1]
     /\ \A k \in 1 .. Len(extnList) : h[k] = AnotherRow(h[k - 1], verdicts, extnList[k])}

LEMMA FoldPairwiseTable ==
  ASSUME ListTyped, NEW verdicts
  PROVE  \E h \in TableSteps(verdicts) : PairwiseTable(extnList, verdicts) = h[Len(extnList)].table
<1> DEFINE V == TableParts
           n == Len(extnList)
           base == [table |-> << >>, i |-> 1]
           step == [k \in 1 .. n |-> [v \in V |-> AnotherRow(v, verdicts, extnList[k])]]
           Solves(f) == f = [s \in SUBSET DOMAIN extnList |->
                               IF s = {} THEN base
                               ELSE AnotherRow(f[s \ {Max(s)}], verdicts, extnList[Max(s)])]
           iter == CHOOSE g : Solves(g)
<1>1. n \in Nat /\ DOMAIN extnList = 1 .. n /\ base \in V /\ \A k \in 1 .. n : extnList[k] \in Names
  BY DEF ListTyped, TableParts
<1>2. step \in [1 .. n -> [V -> V]]
  BY <1>1, AnotherRowTyped
<1>3. PICK f \in Iterates(V, n, base, step) :
        \A s \in SUBSET (1 .. n) : s # {} => Max(s) \in 1 .. n /\ f[s \ {Max(s)}] \in V
  <2> HIDE DEF V, n, base, step
  <2> QED BY <1>1, <1>2, IteratesThere
<1>4. Solves(f)
  <2> HIDE DEF base
  <2> QED BY <1>1, <1>3 DEF Iterates
<1>5. Solves(iter)
  <2> HIDE DEF Solves
  <2> QED BY <1>4
<1>6. PairwiseTable(extnList, verdicts) = iter[1 .. n].table
  BY <1>1 DEF FoldLeft, MapThenFoldSet, PairwiseTable, AnotherRow
<1> HIDE DEF iter
<1>7. iter[{}] = base
  BY <1>5
<1>8. \A s \in SUBSET (1 .. n) : s # {} /\ iter[s \ {Max(s)}] \in V =>
        iter[s] = step[Max(s)][iter[s \ {Max(s)}]]
  BY <1>1, <1>3, <1>5
<1>9. PICK h \in Steps(V, n, base, step) : iter[1 .. n] = h[n]
  <2> HIDE DEF V, n, base, step
  <2>1. Iterating(V, n, base, step, iter)
    BY <1>7, <1>8 DEF Iterating
  <2> QED BY <1>1, <1>2, <2>1, StepsOfIterate
<1> QED BY <1>1, <1>6, <1>9 DEF Steps, TableSteps

(* The table of pairwise mode, whatever the verdicts.                      *)
LEMMA PairwiseTableFacts ==
  ASSUME ListTyped, NEW verdicts
  PROVE  LET written == PairwiseTable(extnList, verdicts) IN
         /\ Len(written) = Len(extnList)
         /\ \A a, b \in 1 .. Len(extnList) :
              /\ written[a][1] = extnList[a]
              /\ written[a][2][b] = CellFor(verdicts, a, b)
<1> DEFINE n == Len(extnList)
<1>0. n \in Nat /\ n \in 0 .. n /\ Position(0, n) = 0
  <2>1. Len(extnList) \in Nat
    BY DEF ListTyped
  <2> QED BY <2>1, PositionFacts
<1>1. PICK h \in TableSteps(verdicts) : PairwiseTable(extnList, verdicts) = h[n].table
  BY FoldPairwiseTable
<1> DEFINE T == {k \in 0 .. n : TableUpTo(h[k], verdicts, k)}
<1>2. 0 \in T
  <2>1. h[0] = [table |-> << >>, i |-> 1] /\ h[0] \in TableParts
    BY <1>0, <1>1 DEF TableSteps
  <2> QED BY <1>0, <2>1 DEF TableUpTo
<1>3. ASSUME NEW k \in 1 .. n, k - 1 \in T PROVE k \in T
  <2> DEFINE acc == h[k - 1]
  <2>1. TableUpTo(acc, verdicts, k - 1)
    BY <1>3
  <2>2. h[k] = AnotherRow(acc, verdicts, extnList[k])
    BY <1>1 DEF TableSteps
  <2> HIDE DEF acc
  <2>3. TableUpTo(h[k], verdicts, k)
    BY <2>1, <2>2, TableUpToRow
  <2> QED BY <1>0, <2>3
<1>4. 0 .. n \subseteq T
  <2> HIDE DEF T, n
  <2> QED BY <1>0, <1>2, <1>3, UpToInduction
<1>5. TableUpTo(h[n], verdicts, n)
  BY <1>0, <1>4
<1> QED BY <1>1, <1>5 DEF TableUpTo

ListInv == extnList \in CampaignLists /\ ListTyped

LEMMA ListStep == ListInv /\ [ParallelNext]_parallelVars => ListInv'
BY DEF ListInv, ListTyped, ParallelNext, parallelVars, PairwiseReports, Merge, WorkerReports

(* The table pairwise_mode writes has in each cell the verdict of the pair *)
(* its row and column name, for every list and all verdicts (compatibility_*)
(* analysis.py:639-666).                                                   *)
THEOREM TableMatchesPairsAlways == ParallelSpec => TableMatchesPairs
<1>1. ParallelInit => ListInv
  BY ParallelCampaignAssumption DEF ParallelInit, ListInv, ListTyped
<1>2. ListInv /\ [ParallelNext]_parallelVars => ListInv'
  BY ListStep
<1>3. ASSUME ListInv, PairwiseReports PROVE TableOfVerdicts
  <2>0. ListTyped /\ Len(extnList) \in Nat /\ DOMAIN extnList = 1 .. Len(extnList)
    BY <1>3 DEF ListInv, ListTyped
  <2>1. PICK verdicts : judged' = verdicts /\ table' = PairwiseTable(extnList, verdicts)
    BY <1>3 DEF PairwiseReports
  <2>2. /\ Len(table') = Len(extnList)
        /\ \A a, b \in 1 .. Len(extnList) :
             table'[a][1] = extnList[a] /\ table'[a][2][b] = CellFor(judged', a, b)
    BY <2>0, <2>1, PairwiseTableFacts
  <2>3. ASSUME NEW a \in 1 .. Len(extnList), NEW b \in 1 .. Len(extnList), extnList[a] # extnList[b]
        PROVE  OrderedPairs(extnList)[Position(a, b)] = <<extnList[a], extnList[b]>>
    <3> DEFINE n == Len(extnList)
    <3>1. Reached(a, b, n, n)
      <4>1. n \in Nat /\ a \in 1 .. n /\ b \in 1 .. n
        BY <2>0
      <4> HIDE DEF n
      <4> QED BY <4>1 DEF Reached
    <3> QED BY <2>0, <2>3, <3>1, OrderedPairsFacts DEF PairsUpTo
  <2>4. ASSUME NEW rc \in Cells
        PROVE  LET row == table'[rc[1]]
                   k == Position(rc[1], rc[2])
                   p == <<extnList[rc[1]], extnList[rc[2]]>>
               IN
               /\ row[1] = p[1]
               /\ IF p[1] = p[2] THEN row[2][rc[2]] = "n/a"
                  ELSE OrderedPairs(extnList)[k] = p /\ row[2][rc[2]] = Answer(judged'[k])
    <3>1. rc[1] \in 1 .. Len(extnList) /\ rc[2] \in 1 .. Len(extnList)
      BY <2>0 DEF Cells
    <3> DEFINE a == rc[1]
               b == rc[2]
    <3>2. a \in 1 .. Len(extnList) /\ b \in 1 .. Len(extnList)
      BY <3>1
    <3> HIDE DEF a, b
    <3>3. table'[a][1] = extnList[a] /\ table'[a][2][b] = CellFor(judged', a, b)
      BY <2>2, <3>2
    <3>4. CASE extnList[a] = extnList[b]
      BY <3>3, <3>4 DEF CellFor, a, b
    <3>5. CASE extnList[a] # extnList[b]
      <4>1. OrderedPairs(extnList)[Position(a, b)] = <<extnList[a], extnList[b]>>
        BY <2>3, <3>2, <3>5
      <4> QED BY <3>3, <3>5, <4>1 DEF CellFor, a, b
    <3> QED BY <3>4, <3>5
  <2> QED BY <2>2, <2>4 DEF TableOfVerdicts
<1>4. ListInv /\ [ParallelNext]_parallelVars => [PairwiseReports => TableOfVerdicts]_parallelVars
  BY <1>3
<1> QED BY <1>1, <1>2, <1>4, PTL DEF ParallelSpec, TableMatchesPairs

-----------------------------------------------------------------------------
(* How often something is in a sequence.                                   *)
TimesUpTo(x, s, k) == Cardinality({j \in 1 .. k : s[j] = x})

LEMMA TimesUpToNone == \A s, x : TimesUpTo(x, s, 0) = 0
<1>1. \A s, x : {j \in 1 .. 0 : s[j] = x} = {}
  OBVIOUS
<1> QED BY <1>1, FS_EmptySet DEF TimesUpTo

LEMMA TimesUpToStep ==
  ASSUME NEW s, NEW x, NEW k \in Nat \ {0}
  PROVE  TimesUpTo(x, s, k) = IF s[k] = x THEN TimesUpTo(x, s, k - 1) + 1 ELSE TimesUpTo(x, s, k - 1)
<1> DEFINE before == {j \in 1 .. k - 1 : s[j] = x}
           at == {j \in 1 .. k : s[j] = x}
<1>1. 1 .. k = (1 .. k - 1) \cup {k} /\ k \notin before /\ k - 1 \in Nat
  OBVIOUS
<1>2. IsFiniteSet(before)
  <2>1. IsFiniteSet(1 .. k - 1)
    BY <1>1, FS_Interval
  <2>2. before \in SUBSET (1 .. k - 1)
    OBVIOUS
  <2> HIDE DEF before
  <2> QED BY <2>1, <2>2, FS_Subset
<1>3. CASE s[k] = x
  <2>1. at = before \cup {k}
    BY <1>1, <1>3
  <2> HIDE DEF before, at
  <2>2. Cardinality(before \cup {k}) = Cardinality(before) + 1
    BY <1>1, <1>2, FS_AddElement
  <2> QED BY <1>3, <2>1, <2>2 DEF TimesUpTo, before, at
<1>4. CASE s[k] # x
  <2>1. at = before
    BY <1>1, <1>4
  <2> QED BY <1>4, <2>1 DEF TimesUpTo
<1> QED BY <1>3, <1>4

LEMMA TimesIsUpTo ==
  ASSUME NEW S, NEW s \in Seq(S), NEW x
  PROVE  Times(x, s) = TimesUpTo(x, s, Len(s))
<1>1. {k \in DOMAIN s : s[k] = x} = {j \in 1 .. Len(s) : s[j] = x}
  OBVIOUS
<1> QED BY <1>1 DEF Times, TimesUpTo

LEMMA TimesAppend ==
  ASSUME NEW S, NEW s \in Seq(S), NEW x, NEW y \in S
  PROVE  Times(x, Append(s, y)) = IF y = x THEN Times(x, s) + 1 ELSE Times(x, s)
<1> DEFINE u == Append(s, y)
           n == Len(s)
           m == n + 1
<1>1. /\ u \in Seq(S) /\ n \in Nat /\ Len(u) = m /\ u[m] = y
      /\ \A j \in 1 .. n : u[j] = s[j]
  OBVIOUS
<1>2. TimesUpTo(x, u, n) = TimesUpTo(x, s, n)
  <2>1. {j \in 1 .. n : u[j] = x} = {j \in 1 .. n : s[j] = x}
    BY <1>1
  <2> QED BY <2>1 DEF TimesUpTo
<1> HIDE DEF u, n
<1>3. m \in Nat \ {0} /\ m - 1 = n
  BY <1>1
<1>5. Times(x, u) = TimesUpTo(x, u, Len(u)) /\ Times(x, s) = TimesUpTo(x, s, Len(s))
  BY <1>1, TimesIsUpTo
<1> HIDE DEF m
<1>4. TimesUpTo(x, u, m) = IF u[m] = x THEN TimesUpTo(x, u, m - 1) + 1 ELSE TimesUpTo(x, u, m - 1)
  BY <1>3, TimesUpToStep
<1> QED BY <1>1, <1>2, <1>3, <1>4, <1>5 DEF u, n

(* What is selected is in the result as often as before, and nothing else. *)
LEMMA SelectedTimes ==
  ASSUME NEW S, NEW seq \in Seq(S), NEW C
  PROVE  /\ Selected(seq, C) \in Seq(S)
         /\ ToSet(Selected(seq, C)) = ToSet(seq) \cap C
         /\ \A x \in C : Times(x, Selected(seq, C)) = Times(x, seq)
<1> DEFINE m == Len(seq)
           upTo(k) == {seq[j] : j \in 1 .. k}
<1>1. m \in Nat /\ m \in 0 .. m /\ DOMAIN seq = 1 .. m /\ \A k \in 1 .. m : seq[k] \in S
  OBVIOUS
<1>2. PICK h \in SelectedSteps(seq, S, C) : Selected(seq, C) = h[m]
  BY FoldSelected
<1>3. /\ h \in [0 .. m -> Seq(S)] /\ h[0] = << >>
      /\ \A k \in 1 .. m : h[k] = IF seq[k] \in C THEN Append(h[k - 1], seq[k]) ELSE h[k - 1]
  BY <1>2 DEF SelectedSteps
<1> DEFINE T == {k \in 0 .. m : /\ ToSet(h[k]) = upTo(k) \cap C
                                /\ \A x \in C : Times(x, h[k]) = TimesUpTo(x, seq, k)}
<1>4. 0 \in T
  <2>1. ToSet(h[0]) = {} /\ upTo(0) = {}
    BY <1>3 DEF ToSet
  <2>2. \A x : Times(x, << >>) = 0
    <3>1. \A x : {k \in DOMAIN << >> : << >>[k] = x} = {}
      OBVIOUS
    <3> QED BY <3>1, FS_EmptySet DEF Times
  <2>3. \A x : TimesUpTo(x, seq, 0) = 0
    BY TimesUpToNone
  <2> QED BY <1>1, <1>3, <2>1, <2>2, <2>3
<1>5. ASSUME NEW k \in 1 .. m, k - 1 \in T PROVE k \in T
  <2> DEFINE s == h[k - 1]
             y == seq[k]
  <2>0. k - 1 \in 0 .. m /\ k \in Nat \ {0} /\ k \in 0 .. m
    <3> HIDE DEF m
    <3> QED BY <1>1
  <2>1. s \in Seq(S) /\ y \in S /\ k \in Nat \ {0} /\ k \in 0 .. m
    <3> HIDE DEF m
    <3> QED BY <1>1, <1>3, <2>0
  <2>2. ToSet(s) = upTo(k - 1) \cap C /\ \A x \in C : Times(x, s) = TimesUpTo(x, seq, k - 1)
    BY <1>5
  <2>3. upTo(k) = upTo(k - 1) \cup {y}
    BY ToSetOfPrefix
  <2>4. h[k] = IF y \in C THEN Append(s, y) ELSE s
    BY <1>3
  <2>5. \A x : TimesUpTo(x, seq, k) =
               IF y = x THEN TimesUpTo(x, seq, k - 1) + 1 ELSE TimesUpTo(x, seq, k - 1)
    <3> TAKE x
    <3> HIDE DEF m
    <3> QED BY <2>1, TimesUpToStep
  <2> HIDE DEF s, y, upTo
  <2>6. CASE y \in C
    <3>1. ToSet(Append(s, y)) = ToSet(s) \cup {y}
      BY <2>1, AppendFacts
    <3>2. \A x : Times(x, Append(s, y)) = IF y = x THEN Times(x, s) + 1 ELSE Times(x, s)
      BY <2>1, TimesAppend
    <3>3. ToSet(h[k]) = upTo(k) \cap C
      BY <2>2, <2>3, <2>4, <2>6, <3>1
    <3>4. \A x \in C : Times(x, h[k]) = TimesUpTo(x, seq, k)
      BY <2>2, <2>4, <2>5, <2>6, <3>2
    <3> QED BY <2>1, <3>3, <3>4
  <2>7. CASE y \notin C
    <3>1. \A x \in C : Times(x, h[k]) = TimesUpTo(x, seq, k)
      BY <2>2, <2>4, <2>5, <2>7
    <3> QED BY <2>1, <2>2, <2>3, <2>4, <2>7, <3>1
  <2> QED BY <2>6, <2>7
<1>6. 0 .. m \subseteq T
  <2> HIDE DEF T, m
  <2> QED BY <1>1, <1>4, <1>5, UpToInduction
<1>7. m \in T
  BY <1>1, <1>6
<1>8. ToSet(seq) = upTo(m) /\ \A x : Times(x, seq) = TimesUpTo(x, seq, m)
  BY ToSetOfPrefix, TimesIsUpTo
<1>9. h[m] \in Seq(S)
  BY <1>1, <1>3
<1> HIDE DEF upTo, m
<1> QED BY <1>2, <1>7, <1>8, <1>9

(* Appending what is new, of any kind.                                     *)
LEMMA AllNew ==
  ASSUME NEW S, NEW seq \in Seq(S)
  PROVE  /\ AppendAllNew(<< >>, seq) \in Seq(S)
         /\ ToSet(AppendAllNew(<< >>, seq)) = ToSet(seq)
         /\ IsInjective(AppendAllNew(<< >>, seq))
<1> DEFINE m == Len(seq)
           upTo(k) == {seq[j] : j \in 1 .. k}
           none == << >>
<1>1. m \in Nat /\ m \in 0 .. m /\ \A k \in 1 .. m : seq[k] \in S
  OBVIOUS
<1>2. none \in Seq(S) /\ ToSet(none) = {} /\ IsInjective(none) /\ upTo(0) = {}
  BY DEF ToSet, IsInjective
<1> HIDE DEF none
<1>3. PICK h \in [0 .. m -> Seq(S)] :
        /\ h[0] = none
        /\ \A k \in 1 .. m : h[k] = AppendNew(h[k - 1], seq[k])
        /\ AppendAllNew(none, seq) = h[m]
  BY <1>2, FoldAppendNew
<1> DEFINE T == {k \in 0 .. m : ToSet(h[k]) = upTo(k) /\ IsInjective(h[k])}
<1>4. 0 \in T
  BY <1>1, <1>2, <1>3
<1>5. ASSUME NEW k \in 1 .. m, k - 1 \in T PROVE k \in T
  <2> DEFINE s == h[k - 1]
             y == seq[k]
  <2>1. s \in Seq(S) /\ y \in S /\ k \in 0 .. m /\ h[k] = AppendNew(s, y)
    BY <1>1, <1>3
  <2>2. ToSet(s) = upTo(k - 1) /\ IsInjective(s)
    BY <1>5
  <2>3. upTo(k) = upTo(k - 1) \cup {y}
    BY ToSetOfPrefix
  <2> HIDE DEF s, y, upTo
  <2>4. CASE Contains(s, y)
    <3>1. AppendNew(s, y) = s /\ y \in ToSet(s)
      BY <2>4 DEF AppendNew, Contains, ToSet
    <3> QED BY <2>1, <2>2, <2>3, <3>1
  <2>5. CASE ~Contains(s, y)
    <3>1. AppendNew(s, y) = Append(s, y)
      BY <2>5 DEF AppendNew
    <3>2. IsInjective(Append(s, y))
      BY <2>1, <2>2, <2>5, AppendFacts DEF IsInjective, Contains
    <3>3. ToSet(Append(s, y)) = ToSet(s) \cup {y}
      BY <2>1, AppendFacts
    <3> QED BY <2>1, <2>2, <2>3, <3>1, <3>2, <3>3
  <2> QED BY <2>4, <2>5
<1>6. 0 .. m \subseteq T
  <2> HIDE DEF T, m
  <2> QED BY <1>1, <1>4, <1>5, UpToInduction
<1>7. ToSet(seq) = upTo(m)
  BY ToSetOfPrefix
<1>8. h[m] \in Seq(S) /\ ToSet(h[m]) = upTo(m) /\ IsInjective(h[m])
  BY <1>1, <1>3, <1>6
<1> HIDE DEF upTo
<1> QED BY <1>3, <1>7, <1>8 DEF none

-----------------------------------------------------------------------------
(* What list_to_pairs groups by is what a worker builds with: the options  *)
(* of everything the two extensions need.                                  *)
LEMMA OptionsSame ==
  ASSUME ProperDatabase, NEW p \in Names \X Names
  PROVE  GetConfigureOptions(GetExtnsToInstall(p)) = OptionsKey(p)
<1> DEFINE x == p[1]
           y == p[2]
           installed == GetExtnsToInstall(p)
           walked == WithDeps(x) \o WithDeps(y)
<1>1. x \in Names /\ y \in Names /\ p = <<x, y>>
  OBVIOUS
<1> HIDE DEF x, y
<1>2. p \in Seq(Names) /\ ToSet(p) = {x, y}
  BY <1>1, PairOfNames
<1>3. /\ installed \in Seq(Names) /\ DependenciesFirst(installed, Names) /\ ToSet(p) \subseteq ToSet(installed)
      /\ \A S : Closed(S) /\ ToSet(p) \subseteq S => ToSet(installed) \subseteq S
  BY <1>2, InstalledFacts
<1>4. /\ WithDeps(x) \in Seq(Names) /\ WithDeps(y) \in Seq(Names)
      /\ Closed(ToSet(WithDeps(x))) /\ Closed(ToSet(WithDeps(y)))
      /\ x \in ToSet(WithDeps(x)) /\ y \in ToSet(WithDeps(y))
      /\ \A S : Closed(S) /\ x \in S /\ y \in S =>
                  ToSet(WithDeps(x)) \subseteq S /\ ToSet(WithDeps(y)) \subseteq S
  BY <1>1, WithDepsFacts, OrderIsClosed
<1>5. ToSet(walked) = ToSet(WithDeps(x)) \cup ToSet(WithDeps(y))
  BY <1>4, ConcatFacts
<1> HIDE DEF installed
<1>6. ToSet(walked) \subseteq ToSet(installed)
  <2>1. Closed(ToSet(installed))
    BY <1>3, OrderIsClosed
  <2> QED BY <1>2, <1>3, <1>4, <1>5, <2>1
<1>7. ToSet(installed) \subseteq ToSet(walked)
  <2>1. Closed(ToSet(walked))
    BY <1>4, <1>5 DEF Closed
  <2> HIDE DEF walked
  <2> QED BY <1>2, <1>3, <1>4, <1>5, <2>1
<1> HIDE DEF walked
<1>8. ToSet(installed) = ToSet(walked)
  BY <1>6, <1>7
<1> QED BY <1>8 DEF GetConfigureOptions, OptionsKey, installed, walked, x, y

(* The files of a list: one for each key, with all of its pairs.           *)
FilesSplit(split, pairs, keys) ==
  /\ DOMAIN split = DOMAIN keys /\ IsInjective(keys)
  /\ \E n \in Nat : DOMAIN keys = 1 .. n
  /\ \A f \in DOMAIN keys :
       /\ split[f] \in Seq(Names \X Names)
       /\ ToSet(split[f]) = {p \in ToSet(pairs) : OptionsKey(p) = keys[f]}
       /\ \A p \in ToSet(split[f]) : Times(p, split[f]) = Times(p, pairs)
  /\ \A p \in ToSet(pairs) : \E f \in DOMAIN keys : OptionsKey(p) = keys[f]

LEMMA ListFilesSplit ==
  ASSUME ListTyped
  PROVE  \E keys : FilesSplit(ListFiles(extnList), OrderedPairs(extnList), keys)
<1> DEFINE pairs == OrderedPairs(extnList)
           S == Names \X Names
           K == {OptionsKey(p) : p \in S}
           seq == [k \in DOMAIN pairs |-> OptionsKey(pairs[k])]
           keys == AppendAllNew(<< >>, seq)
           C(f) == {p \in ToSet(pairs) : OptionsKey(p) = keys[f]}
<1>1. pairs \in Seq(S)
  BY PairsOfList
<1>2. ListFiles(extnList) = [f \in DOMAIN keys |-> Selected(pairs, C(f))]
  BY DEF ListFiles
<1> HIDE DEF pairs, S
<1>3. seq \in Seq(K) /\ ToSet(seq) = {OptionsKey(p) : p \in ToSet(pairs)}
  <2>1. DOMAIN pairs = 1 .. Len(pairs) /\ Len(pairs) \in Nat /\ \A k \in 1 .. Len(pairs) : pairs[k] \in S
    BY <1>1
  <2>2. DOMAIN seq = 1 .. Len(pairs) /\ \A k \in 1 .. Len(pairs) : seq[k] = OptionsKey(pairs[k]) /\ seq[k] \in K
    BY <2>1
  <2>3. seq \in Seq(K)
    BY <2>1, <2>2
  <2> QED BY <2>1, <2>2, <2>3 DEF ToSet
<1> HIDE DEF K, seq
<1>4. keys \in Seq(K) /\ ToSet(keys) = ToSet(seq) /\ IsInjective(keys)
  BY <1>3, AllNew
<1>5. \A p \in ToSet(pairs) : \E f \in DOMAIN keys : OptionsKey(p) = keys[f]
  BY <1>3, <1>4 DEF ToSet
<1>8. \E n \in Nat : DOMAIN keys = 1 .. n
  <2> HIDE DEF keys
  <2>1. Len(keys) \in Nat /\ DOMAIN keys = 1 .. Len(keys)
    BY <1>4
  <2> QED BY <2>1
<1> HIDE DEF keys
<1>6. ASSUME NEW f \in DOMAIN keys
      PROVE  /\ Selected(pairs, C(f)) \in Seq(S)
             /\ ToSet(Selected(pairs, C(f))) = C(f)
             /\ \A p \in C(f) : Times(p, Selected(pairs, C(f))) = Times(p, pairs)
  <2>1. ToSet(pairs) \cap C(f) = C(f)
    OBVIOUS
  <2> HIDE DEF C
  <2> QED BY <1>1, <2>1, SelectedTimes
<1>7. FilesSplit(ListFiles(extnList), pairs, keys)
  BY <1>2, <1>4, <1>5, <1>6, <1>8 DEF FilesSplit, S
<1> QED BY <1>7 DEF pairs

LEMMA SplitIsPartition ==
  ASSUME ProperDatabase, ListTyped, lists = ListFiles(extnList)
  PROVE  FilesPartitionThePairs
<1> DEFINE pairs == OrderedPairs(extnList)
           built == [p \in ToSet(pairs) |-> GetConfigureOptions(GetExtnsToInstall(p))]
<1>1. PICK keys : FilesSplit(lists, pairs, keys)
  BY ListFilesSplit
<1>2. pairs \in Seq(Names \X Names) /\ ToSet(pairs) \subseteq Names \X Names
  BY PairsOfList DEF ToSet
<1>3. \A p \in ToSet(pairs) : built[p] = OptionsKey(p)
  BY <1>2, OptionsSame
<1> HIDE DEF pairs, built
<1>4. /\ DOMAIN lists = DOMAIN keys
      /\ \A f, g \in DOMAIN keys : keys[f] = keys[g] => f = g
      /\ \A f \in DOMAIN keys :
           /\ ToSet(lists[f]) = {p \in ToSet(pairs) : OptionsKey(p) = keys[f]}
           /\ \A p \in ToSet(lists[f]) : Times(p, lists[f]) = Times(p, pairs)
      /\ \A p \in ToSet(pairs) : \E f \in DOMAIN keys : OptionsKey(p) = keys[f]
  BY <1>1 DEF FilesSplit, IsInjective
<1>5. \A f \in DOMAIN lists : ToSet(lists[f]) \subseteq ToSet(pairs)
  BY <1>4
<1>6. ASSUME NEW f \in DOMAIN lists, NEW g \in DOMAIN lists,
             NEW p \in ToSet(lists[f]), NEW q \in ToSet(lists[g])
      PROVE  built[p] = built[q] <=> f = g
  <2>1. built[p] = keys[f] /\ built[q] = keys[g]
    BY <1>3, <1>4
  <2> QED BY <1>4, <2>1
<1>7. ASSUME NEW p \in ToSet(pairs)
      PROVE  \E f \in DOMAIN lists :
               /\ Times(p, lists[f]) = Times(p, pairs)
               /\ \A g \in DOMAIN lists : p \in ToSet(lists[g]) => f = g
  <2>1. PICK f \in DOMAIN keys : OptionsKey(p) = keys[f]
    BY <1>4
  <2>2. p \in ToSet(lists[f])
    BY <1>4, <2>1
  <2>3. \A g \in DOMAIN lists : p \in ToSet(lists[g]) => f = g
    BY <1>4, <2>1
  <2> QED BY <1>4, <2>1, <2>2, <2>3
<1> QED BY <1>5, <1>6, <1>7 DEF FilesPartitionThePairs, pairs, built

FilesInv == ListInv /\ lists = ListFiles(extnList)

LEMMA FilesStep == FilesInv /\ [ParallelNext]_parallelVars => FilesInv'
<1> SUFFICES ASSUME FilesInv, [ParallelNext]_parallelVars PROVE FilesInv'
  OBVIOUS
<1>1. ListInv'
  BY ListStep DEF FilesInv
<1>2. UNCHANGED <<extnList, lists>>
  BY DEF ParallelNext, parallelVars, PairwiseReports, Merge, WorkerReports
<1> QED BY <1>1, <1>2 DEF FilesInv

LEMMA FilesStart == ParallelInit => FilesInv
BY ParallelCampaignAssumption DEF ParallelInit, FilesInv, ListInv, ListTyped

(* Whatever the list: every pair is in exactly one list file, as often as  *)
(* in the list, and two pairs are in the same file exactly when a worker   *)
(* builds PostgreSQL with the same options for both (list_to_pairs.py).    *)
THEOREM FilesPartitionAlways == ParallelSpec => []FilesPartitionThePairs
<1>1. FilesInv => FilesPartitionThePairs
  BY ParallelCampaignAssumption, SplitIsPartition DEF FilesInv, ListInv
<1> QED BY FilesStart, FilesStep, <1>1, PTL DEF ParallelSpec

-----------------------------------------------------------------------------
(* results_db: a verdict for some of the pairs.                            *)
Rows == Names \X Names \X BOOLEAN
PairOf(row) == <<row[1], row[2]>>
Dbs == UNION {[D -> BOOLEAN] : D \in SUBSET (Names \X Names)}
NoResults == [p \in {} |-> FALSE]

LEMMA AddRowFacts ==
  ASSUME NEW db \in Dbs, NEW row \in Rows
  PROVE  /\ AddRow(db, row) \in Dbs
         /\ DOMAIN AddRow(db, row) = DOMAIN db \cup {PairOf(row)}
         /\ \A p \in DOMAIN AddRow(db, row) :
              AddRow(db, row)[p] = IF p = PairOf(row) THEN row[3] ELSE db[p]
<1> DEFINE new == AddRow(db, row)
           pair == PairOf(row)
<1>1. PICK D \in SUBSET (Names \X Names) : db \in [D -> BOOLEAN]
  BY DEF Dbs
<1>2. pair \in Names \X Names /\ row[3] \in BOOLEAN
  BY DEF Rows, PairOf
<1>3. new = [p \in D \cup {pair} |-> IF p = pair THEN row[3] ELSE db[p]]
  BY <1>1 DEF AddRow, PairOf
<1> HIDE DEF new, pair
<1>4. new \in [D \cup {pair} -> BOOLEAN]
  BY <1>1, <1>2, <1>3
<1>5. D \cup {pair} \in SUBSET (Names \X Names)
  BY <1>1, <1>2
<1>6. new \in Dbs
  BY <1>4, <1>5 DEF Dbs
<1>7. DOMAIN new = DOMAIN db \cup {pair}
  BY <1>1, <1>3
<1>8. \A p \in DOMAIN new : new[p] = IF p = pair THEN row[3] ELSE db[p]
  BY <1>3
<1> QED BY <1>6, <1>7, <1>8 DEF new, pair

(* The rows of a report go in one after the other,                         *)
RowsSteps(db, rows) ==
  {h \in [0 .. Len(rows) -> Dbs] :
     h[0] = db /\ \A k \in 1 .. Len(rows) : h[k] = AddRow(h[k - 1], rows[k])}

LEMMA FoldAddReport ==
  ASSUME NEW db \in Dbs, NEW rows \in Seq(Rows)
  PROVE  \E h \in RowsSteps(db, rows) : AddReport(db, rows) = h[Len(rows)]
<1> DEFINE V == Dbs
           n == Len(rows)
           step == [k \in 1 .. n |-> [v \in V |-> AddRow(v, rows[k])]]
           Solves(f) == f = [s \in SUBSET DOMAIN rows |->
                               IF s = {} THEN db
                               ELSE AddRow(f[s \ {Max(s)}], rows[Max(s)])]
           iter == CHOOSE g : Solves(g)
<1>1. n \in Nat /\ DOMAIN rows = 1 .. n /\ db \in V /\ \A k \in 1 .. n : rows[k] \in Rows
  OBVIOUS
<1>2. step \in [1 .. n -> [V -> V]]
  BY <1>1, AddRowFacts
<1>3. PICK f \in Iterates(V, n, db, step) :
        \A s \in SUBSET (1 .. n) : s # {} => Max(s) \in 1 .. n /\ f[s \ {Max(s)}] \in V
  <2> HIDE DEF V, n, step
  <2> QED BY <1>1, <1>2, IteratesThere
<1>4. Solves(f)
  BY <1>1, <1>3 DEF Iterates
<1>5. Solves(iter)
  <2> HIDE DEF Solves
  <2> QED BY <1>4
<1>6. AddReport(db, rows) = iter[1 .. n]
  BY <1>1 DEF FoldLeft, MapThenFoldSet, AddReport
<1> HIDE DEF iter
<1>7. iter[{}] = db
  BY <1>5
<1>8. \A s \in SUBSET (1 .. n) : s # {} /\ iter[s \ {Max(s)}] \in V =>
        iter[s] = step[Max(s)][iter[s \ {Max(s)}]]
  BY <1>1, <1>3, <1>5
<1>9. PICK h \in Steps(V, n, db, step) : iter[1 .. n] = h[n]
  <2> HIDE DEF V, n, step
  <2>1. Iterating(V, n, db, step, iter)
    BY <1>7, <1>8 DEF Iterating
  <2> QED BY <1>1, <1>2, <2>1, StepsOfIterate
<1> QED BY <1>1, <1>6, <1>9 DEF Steps, RowsSteps

(* so that the last row about a pair counts.                               *)
LastAt(rows, p, j, k) ==
  /\ j \in 1 .. k /\ PairOf(rows[j]) = p
  /\ \A i \in 1 .. k : PairOf(rows[i]) = p => i <= j

RowsUpTo(new, db, rows, k) ==
  /\ new \in Dbs
  /\ DOMAIN new = DOMAIN db \cup {PairOf(rows[j]) : j \in 1 .. k}
  /\ \A p \in DOMAIN new :
       \/ \E j \in 1 .. k : LastAt(rows, p, j, k) /\ new[p] = rows[j][3]
       \/ p \in DOMAIN db /\ new[p] = db[p]

LEMMA RowsUpToNext ==
  ASSUME NEW db \in Dbs, NEW rows \in Seq(Rows), NEW k \in 1 .. Len(rows), NEW old,
         RowsUpTo(old, db, rows, k - 1)
  PROVE  RowsUpTo(AddRow(old, rows[k]), db, rows, k)
<1> DEFINE row == rows[k]
           pair == PairOf(row)
           new == AddRow(old, row)
<1>1. row \in Rows /\ k \in Nat /\ k \in 1 .. k
  OBVIOUS
<1>2. \A j \in 1 .. k : j = k \/ j \in 1 .. k - 1
  OBVIOUS
<1>3. \A j \in 1 .. k - 1 : j \in 1 .. k /\ j <= k
  OBVIOUS
<1>4. /\ old \in Dbs
      /\ DOMAIN old = DOMAIN db \cup {PairOf(rows[j]) : j \in 1 .. k - 1}
      /\ \A p \in DOMAIN old :
           \/ \E j \in 1 .. k - 1 : LastAt(rows, p, j, k - 1) /\ old[p] = rows[j][3]
           \/ p \in DOMAIN db /\ old[p] = db[p]
  BY DEF RowsUpTo
<1> HIDE DEF row
<1>5. /\ new \in Dbs
      /\ DOMAIN new = DOMAIN old \cup {pair}
      /\ \A p \in DOMAIN new : new[p] = IF p = pair THEN row[3] ELSE old[p]
  BY <1>1, <1>4, AddRowFacts
<1> HIDE DEF new
<1>6. {PairOf(rows[j]) : j \in 1 .. k} = {PairOf(rows[j]) : j \in 1 .. k - 1} \cup {pair}
  BY <1>1, <1>2, <1>3 DEF row
<1>7. ASSUME NEW p \in DOMAIN new
      PROVE  \/ \E j \in 1 .. k : LastAt(rows, p, j, k) /\ new[p] = rows[j][3]
             \/ p \in DOMAIN db /\ new[p] = db[p]
  <2>1. CASE p = pair
    <3>1. LastAt(rows, p, k, k)
      BY <1>1, <1>2, <1>3, <2>1 DEF LastAt, row
    <3>2. new[p] = rows[k][3]
      BY <1>5, <2>1 DEF row
    <3> QED BY <1>1, <3>1, <3>2
  <2>2. CASE p # pair
    <3>1. p \in DOMAIN old /\ new[p] = old[p]
      BY <1>5, <2>2
    <3>2. CASE p \in DOMAIN db /\ old[p] = db[p]
      BY <3>1, <3>2
    <3>3. ASSUME NEW j \in 1 .. k - 1, LastAt(rows, p, j, k - 1), old[p] = rows[j][3]
          PROVE  LastAt(rows, p, j, k) /\ new[p] = rows[j][3] /\ j \in 1 .. k
      BY <1>2, <1>3, <2>2, <3>1, <3>3 DEF LastAt, row
    <3> QED BY <1>4, <3>1, <3>2, <3>3
  <2> QED BY <2>1, <2>2
<1>8. RowsUpTo(new, db, rows, k)
  BY <1>4, <1>5, <1>6, <1>7 DEF RowsUpTo
<1> QED BY <1>8 DEF new, row

LEMMA AddReportFacts ==
  ASSUME NEW db \in Dbs, NEW rows \in Seq(Rows)
  PROVE  RowsUpTo(AddReport(db, rows), db, rows, Len(rows))
<1> DEFINE n == Len(rows)
<1>0. n \in Nat /\ n \in 0 .. n /\ 0 \in 0 .. n
  OBVIOUS
<1>1. PICK h \in RowsSteps(db, rows) : AddReport(db, rows) = h[n]
  BY FoldAddReport
<1> DEFINE T == {k \in 0 .. n : RowsUpTo(h[k], db, rows, k)}
<1>2. 0 \in T
  <2>1. h[0] = db
    BY <1>1 DEF RowsSteps
  <2>2. {PairOf(rows[j]) : j \in 1 .. 0} = {}
    OBVIOUS
  <2> QED BY <1>0, <2>1, <2>2 DEF RowsUpTo
<1>3. ASSUME NEW k \in 1 .. n, k - 1 \in T PROVE k \in T
  <2> DEFINE old == h[k - 1]
  <2>1. RowsUpTo(old, db, rows, k - 1)
    BY <1>3
  <2>2. h[k] = AddRow(old, rows[k])
    BY <1>1 DEF RowsSteps
  <2> HIDE DEF old
  <2>3. RowsUpTo(h[k], db, rows, k)
    BY <2>1, <2>2, RowsUpToNext
  <2>4. k \in 0 .. n
    <3> HIDE DEF n
    <3> QED BY <1>0
  <2> QED BY <2>3, <2>4
<1>4. 0 .. n \subseteq T
  <2> HIDE DEF T, n
  <2> QED BY <1>0, <1>2, <1>3, UpToInduction
<1> QED BY <1>0, <1>1, <1>4

(* One report after the other: of every pair in a report a last row counts.*)
ResultSteps(R) ==
  {h \in [0 .. Len(R) -> Dbs] :
     h[0] = NoResults /\ \A k \in 1 .. Len(R) : h[k] = AddReport(h[k - 1], R[k])}

LEMMA FoldResultsDb ==
  ASSUME NEW R \in Seq(Seq(Rows))
  PROVE  \E h \in ResultSteps(R) : ResultsDb(R) = h[Len(R)]
<1> DEFINE V == Dbs
           n == Len(R)
           step == [k \in 1 .. n |-> [v \in V |-> AddReport(v, R[k])]]
           Solves(f) == f = [s \in SUBSET DOMAIN R |->
                               IF s = {} THEN NoResults
                               ELSE AddReport(f[s \ {Max(s)}], R[Max(s)])]
           iter == CHOOSE g : Solves(g)
<1>1. n \in Nat /\ DOMAIN R = 1 .. n /\ \A k \in 1 .. n : R[k] \in Seq(Rows)
  OBVIOUS
<1>0. NoResults \in V
  <2>1. NoResults \in [{} -> BOOLEAN] /\ {} \in SUBSET (Names \X Names)
    BY DEF NoResults
  <2> QED BY <2>1 DEF Dbs
<1>2. step \in [1 .. n -> [V -> V]]
  <2>1. ASSUME NEW v \in V, NEW k \in 1 .. n PROVE AddReport(v, R[k]) \in V
    <3> DEFINE rows == R[k]
    <3>1. rows \in Seq(Rows)
      BY <1>1
    <3> HIDE DEF rows
    <3>2. RowsUpTo(AddReport(v, rows), v, rows, Len(rows))
      BY <3>1, AddReportFacts
    <3> QED BY <3>2 DEF RowsUpTo, rows
  <2> QED BY <2>1
<1>3. PICK f \in Iterates(V, n, NoResults, step) :
        \A s \in SUBSET (1 .. n) : s # {} => Max(s) \in 1 .. n /\ f[s \ {Max(s)}] \in V
  <2> HIDE DEF V, n, step
  <2> QED BY <1>0, <1>1, <1>2, IteratesThere
<1>4. Solves(f)
  BY <1>1, <1>3 DEF Iterates
<1>5. Solves(iter)
  <2> HIDE DEF Solves
  <2> QED BY <1>4
<1>6. ResultsDb(R) = iter[1 .. n]
  BY <1>1 DEF FoldLeft, MapThenFoldSet, ResultsDb, NoResults
<1> HIDE DEF iter
<1>7. iter[{}] = NoResults
  BY <1>5
<1>8. \A s \in SUBSET (1 .. n) : s # {} /\ iter[s \ {Max(s)}] \in V =>
        iter[s] = step[Max(s)][iter[s \ {Max(s)}]]
  BY <1>1, <1>3, <1>5
<1>9. PICK h \in Steps(V, n, NoResults, step) : iter[1 .. n] = h[n]
  <2> HIDE DEF V, n, step
  <2>1. Iterating(V, n, NoResults, step, iter)
    BY <1>7, <1>8 DEF Iterating
  <2> QED BY <1>0, <1>1, <1>2, <2>1, StepsOfIterate
<1> QED BY <1>1, <1>6, <1>9 DEF Steps, ResultSteps

ResultsUpTo(db, R, k) ==
  /\ db \in Dbs
  /\ \A a \in 1 .. k : \A j \in 1 .. Len(R[a]) : PairOf(R[a][j]) \in DOMAIN db
  /\ \A p \in DOMAIN db : \E a \in 1 .. k : \E j \in 1 .. Len(R[a]) :
       LastAt(R[a], p, j, Len(R[a])) /\ db[p] = R[a][j][3]

LEMMA ResultsUpToNext ==
  ASSUME NEW R \in Seq(Seq(Rows)), NEW k \in 1 .. Len(R), NEW old, ResultsUpTo(old, R, k - 1)
  PROVE  ResultsUpTo(AddReport(old, R[k]), R, k)
<1> DEFINE rows == R[k]
           new == AddReport(old, rows)
           n == Len(rows)
<1>1. rows \in Seq(Rows) /\ k \in 1 .. k
  OBVIOUS
<1>2. \A a \in 1 .. k : a = k \/ a \in 1 .. k - 1
  OBVIOUS
<1>3. \A a \in 1 .. k - 1 : a \in 1 .. k
  OBVIOUS
<1>4. /\ old \in Dbs
      /\ \A a \in 1 .. k - 1 : \A j \in 1 .. Len(R[a]) : PairOf(R[a][j]) \in DOMAIN old
      /\ \A p \in DOMAIN old : \E a \in 1 .. k - 1 : \E j \in 1 .. Len(R[a]) :
           LastAt(R[a], p, j, Len(R[a])) /\ old[p] = R[a][j][3]
  BY DEF ResultsUpTo
<1> HIDE DEF rows
<1>5. RowsUpTo(new, old, rows, Len(rows))
  BY <1>1, <1>4, AddReportFacts
<1> HIDE DEF new
<1>6. /\ new \in Dbs
      /\ DOMAIN new = DOMAIN old \cup {PairOf(rows[j]) : j \in 1 .. n}
      /\ \A p \in DOMAIN new :
           \/ \E j \in 1 .. n : LastAt(rows, p, j, n) /\ new[p] = rows[j][3]
           \/ p \in DOMAIN old /\ new[p] = old[p]
  BY <1>5 DEF RowsUpTo
<1>7. ASSUME NEW a \in 1 .. k, NEW j \in 1 .. Len(R[a]) PROVE PairOf(R[a][j]) \in DOMAIN new
  <2>1. CASE a = k
    BY <1>6, <2>1 DEF rows
  <2>2. CASE a \in 1 .. k - 1
    BY <1>4, <1>6, <2>2
  <2> QED BY <1>2, <2>1, <2>2
<1>8. ASSUME NEW p \in DOMAIN new
      PROVE  \E a \in 1 .. k : \E j \in 1 .. Len(R[a]) :
               LastAt(R[a], p, j, Len(R[a])) /\ new[p] = R[a][j][3]
  <2>1. CASE \E j \in 1 .. n : LastAt(rows, p, j, n) /\ new[p] = rows[j][3]
    BY <1>1, <2>1 DEF rows
  <2>2. CASE p \in DOMAIN old /\ new[p] = old[p]
    BY <1>3, <1>4, <2>2
  <2> QED BY <1>6, <2>1, <2>2
<1>9. ResultsUpTo(new, R, k)
  BY <1>6, <1>7, <1>8 DEF ResultsUpTo
<1> QED BY <1>9 DEF new, rows

LEMMA ResultsDbFacts ==
  ASSUME NEW R \in Seq(Seq(Rows))
  PROVE  ResultsUpTo(ResultsDb(R), R, Len(R))
<1> DEFINE n == Len(R)
<1>0. n \in Nat /\ n \in 0 .. n /\ 0 \in 0 .. n
  OBVIOUS
<1>1. PICK h \in ResultSteps(R) : ResultsDb(R) = h[n]
  BY FoldResultsDb
<1> DEFINE T == {k \in 0 .. n : ResultsUpTo(h[k], R, k)}
<1>2. 0 \in T
  <2>1. h[0] = NoResults /\ h[0] \in Dbs /\ DOMAIN NoResults = {}
    BY <1>0, <1>1 DEF ResultSteps, NoResults
  <2> QED BY <1>0, <2>1 DEF ResultsUpTo
<1>3. ASSUME NEW k \in 1 .. n, k - 1 \in T PROVE k \in T
  <2> DEFINE old == h[k - 1]
  <2>1. ResultsUpTo(old, R, k - 1)
    BY <1>3
  <2>2. h[k] = AddReport(old, R[k])
    BY <1>1 DEF ResultSteps
  <2> HIDE DEF old
  <2>3. ResultsUpTo(h[k], R, k)
    BY <2>1, <2>2, ResultsUpToNext
  <2>4. k \in 0 .. n
    <3> HIDE DEF n
    <3> QED BY <1>0
  <2> QED BY <2>3, <2>4
<1>4. 0 .. n \subseteq T
  <2> HIDE DEF T, n
  <2> QED BY <1>0, <1>2, <1>3, UpToInduction
<1> QED BY <1>0, <1>1, <1>4

-----------------------------------------------------------------------------
(* Of the pairs of a list file, truth has either nothing, and there is no  *)
(* report, or what the report says of the last position of each.           *)
Positions(f, p) == {k \in DOMAIN lists[f] : lists[f][k] = p}

Missing(f) == reports[f] = << >> /\ ToSet(lists[f]) \cap DOMAIN truth = {}

Reported(f) ==
  \E verdicts \in [DOMAIN lists[f] -> BOOLEAN] :
    /\ reports[f] = ReportRows(lists[f], verdicts)
    /\ \A p \in ToSet(lists[f]) :
         p \in DOMAIN truth /\ truth[p] = verdicts[Max(Positions(f, p))]

ReportInv ==
  /\ FilesInv
  /\ DOMAIN reports = DOMAIN lists
  /\ \A f \in DOMAIN lists : Missing(f) \/ Reported(f)
  /\ \A p \in DOMAIN truth : \E f \in DOMAIN lists : p \in ToSet(lists[f])

(* No pair is in two files.                                                *)
FilesApart ==
  /\ \E n \in Nat : DOMAIN lists = 1 .. n
  /\ \A f \in DOMAIN lists : lists[f] \in Seq(Names \X Names)
  /\ \A f, g \in DOMAIN lists : \A p : p \in ToSet(lists[f]) /\ p \in ToSet(lists[g]) => f = g
  /\ UNION {ToSet(lists[f]) : f \in DOMAIN lists} = ToSet(OrderedPairs(extnList))

LEMMA FilesAreApart == FilesInv => FilesApart
<1> SUFFICES ASSUME FilesInv PROVE FilesApart
  OBVIOUS
<1>1. ListTyped /\ lists = ListFiles(extnList)
  BY DEF FilesInv, ListInv
<1> DEFINE pairs == OrderedPairs(extnList)
<1>2. PICK keys : FilesSplit(lists, pairs, keys)
  BY <1>1, ListFilesSplit
<1> HIDE DEF pairs
<1>3. /\ DOMAIN lists = DOMAIN keys
      /\ \E n \in Nat : DOMAIN keys = 1 .. n
      /\ \A f, g \in DOMAIN keys : keys[f] = keys[g] => f = g
      /\ \A f \in DOMAIN keys :
           /\ lists[f] \in Seq(Names \X Names)
           /\ ToSet(lists[f]) = {p \in ToSet(pairs) : OptionsKey(p) = keys[f]}
      /\ \A p \in ToSet(pairs) : \E f \in DOMAIN keys : OptionsKey(p) = keys[f]
  BY <1>2 DEF FilesSplit, IsInjective
<1>4. UNION {ToSet(lists[f]) : f \in DOMAIN lists} = ToSet(pairs)
  BY <1>3
<1>5. \A f, g \in DOMAIN lists : \A p : p \in ToSet(lists[f]) /\ p \in ToSet(lists[g]) => f = g
  BY <1>3
<1> QED BY <1>3, <1>4, <1>5 DEF FilesApart, pairs

LEMMA ReportStart == ParallelInit => ReportInv
<1> SUFFICES ASSUME ParallelInit PROVE ReportInv
  OBVIOUS
<1>1. FilesInv
  BY FilesStart
<1>2. reports = [f \in DOMAIN lists |-> << >>] /\ DOMAIN truth = {}
  BY DEF ParallelInit
<1> QED BY <1>1, <1>2 DEF ReportInv, Missing

LEMMA ReportStep == ReportInv /\ [ParallelNext]_parallelVars => ReportInv'
<1> SUFFICES ASSUME ReportInv, [ParallelNext]_parallelVars PROVE ReportInv'
  OBVIOUS
<1>1. FilesInv /\ FilesInv'
  BY FilesStep DEF ReportInv
<1>2. CASE UNCHANGED <<lists, reports, truth>>
  <2>1. lists' = lists /\ reports' = reports /\ truth' = truth
    BY <1>2
  <2>2. ASSUME NEW f \in DOMAIN lists
        PROVE  (Missing(f) => Missing(f)') /\ (Reported(f) => Reported(f)')
    <3>1. Missing(f) => Missing(f)'
      BY <2>1 DEF Missing
    <3>2. \A p : Positions(f, p)' = Positions(f, p)
      BY <2>1 DEF Positions
    <3>3. Reported(f) => Reported(f)'
      BY <2>1, <3>2 DEF Reported
    <3> QED BY <3>1, <3>3
  <2> QED BY <1>1, <2>1, <2>2 DEF ReportInv
<1>3. ASSUME NEW f \in DOMAIN lists, WorkerReports(f) PROVE ReportInv'
  <2> DEFINE inFile == ToSet(lists[f])
  <2>1. PICK verdicts \in [DOMAIN lists[f] -> BOOLEAN] :
          /\ reports' = [reports EXCEPT ![f] = ReportRows(lists[f], verdicts)]
          /\ truth' = [p \in DOMAIN truth \cup inFile |->
                         IF p \in inFile THEN verdicts[Max(Positions(f, p))] ELSE truth[p]]
    BY <1>3 DEF WorkerReports, Positions
  <2>2. lists' = lists
    BY <1>3 DEF WorkerReports
  <2>3. DOMAIN reports' = DOMAIN lists' /\ DOMAIN reports = DOMAIN lists
    BY <2>1, <2>2 DEF ReportInv
  <2> HIDE DEF inFile
  <2>4. /\ DOMAIN truth' = DOMAIN truth \cup inFile
        /\ \A p \in inFile : truth'[p] = verdicts[Max(Positions(f, p))]
        /\ \A p \in DOMAIN truth \ inFile : truth'[p] = truth[p]
    BY <2>1
  <2>5. \A g, p : Positions(g, p)' = Positions(g, p)
    BY <2>2 DEF Positions
  <2>6. ASSUME NEW g \in DOMAIN lists PROVE Missing(g)' \/ Reported(g)'
    <3>1. CASE g = f
      <4>1. reports'[f] = ReportRows(lists[f], verdicts)
        BY <2>1, <2>3
      <4>2. Reported(f)'
        <5>1. /\ lists'[f] = lists[f]
              /\ \A p \in ToSet(lists[f]) :
                   p \in DOMAIN truth' /\ truth'[p] = verdicts[Max(Positions(f, p)')]
          BY <2>2, <2>4, <2>5 DEF inFile
        <5> QED BY <4>1, <5>1 DEF Reported
      <4> QED BY <3>1, <4>2
    <3>2. CASE g # f
      <4>1. reports'[g] = reports[g]
        BY <2>1, <2>3, <3>2
      <4>2. ToSet(lists[g]) \cap inFile = {}
        BY <1>1, <3>2, FilesAreApart DEF FilesApart, inFile
      <4>3. CASE Missing(g)
        <5>1. Missing(g)'
          BY <2>2, <2>4, <4>1, <4>2, <4>3 DEF Missing
        <5> QED BY <5>1
      <4>4. CASE Reported(g)
        <5>1. PICK v \in [DOMAIN lists[g] -> BOOLEAN] :
                /\ reports[g] = ReportRows(lists[g], v)
                /\ \A p \in ToSet(lists[g]) :
                     p \in DOMAIN truth /\ truth[p] = v[Max(Positions(g, p))]
          BY <4>4 DEF Reported
        <5>2. \A p \in ToSet(lists[g]) :
                p \in DOMAIN truth' /\ truth'[p] = v[Max(Positions(g, p)')]
          BY <2>4, <2>5, <4>2, <5>1
        <5>3. Reported(g)'
          BY <2>2, <4>1, <5>1, <5>2 DEF Reported
        <5> QED BY <5>3
      <4> QED BY <4>3, <4>4 DEF ReportInv
    <3> QED BY <3>1, <3>2
  <2>7. \A p \in DOMAIN truth' : \E g \in DOMAIN lists' : p \in ToSet(lists'[g])
    BY <2>2, <2>4 DEF ReportInv, inFile
  <2> QED BY <1>1, <2>2, <2>3, <2>6, <2>7 DEF ReportInv
<1> QED BY <1>2, <1>3 DEF ParallelNext, parallelVars, PairwiseReports, Merge

(* A report has the pairs of its file, and its last row about a pair the   *)
(* verdict that counts.                                                    *)
ReportTells(f, rows) ==
  /\ \A p \in ToSet(lists[f]) : \E j \in 1 .. Len(rows) : PairOf(rows[j]) = p
  /\ \A p : \A j \in 1 .. Len(rows) : LastAt(rows, p, j, Len(rows)) =>
       p \in DOMAIN truth /\ rows[j][3] = truth[p]

LEMMA ReportedTells ==
  ASSUME FilesApart, NEW f \in DOMAIN lists, Reported(f)
  PROVE  ReportTells(f, reports[f])
<1> DEFINE pairs == lists[f]
           rows == reports[f]
           m == Len(pairs)
<1>1. pairs \in Seq(Names \X Names)
  BY DEF FilesApart
<1>2. PICK v \in [DOMAIN pairs -> BOOLEAN] :
        /\ rows = ReportRows(pairs, v)
        /\ \A p \in ToSet(pairs) : p \in DOMAIN truth /\ truth[p] = v[Max(Positions(f, p))]
  BY DEF Reported
<1>3. \A p : Positions(f, p) = {k \in DOMAIN pairs : pairs[k] = p}
  BY DEF Positions
<1> HIDE DEF pairs, rows
<1>4. /\ m \in Nat /\ DOMAIN pairs = 1 .. m
      /\ \A k \in 1 .. m : pairs[k] \in Names \X Names /\ pairs[k] = <<pairs[k][1], pairs[k][2]>>
  BY <1>1
<1> HIDE DEF m
<1>5. /\ rows = [k \in 1 .. m |-> <<pairs[k][1], pairs[k][2], v[k]>>]
      /\ Len(rows) = m
  BY <1>2, <1>4 DEF ReportRows
<1>6. \A k \in 1 .. m : PairOf(rows[k]) = pairs[k] /\ rows[k][3] = v[k]
  BY <1>4, <1>5 DEF PairOf
<1>7. \A p \in ToSet(pairs) : \E j \in 1 .. m : PairOf(rows[j]) = p
  BY <1>4, <1>6 DEF ToSet
<1>8. ASSUME NEW p, NEW j \in 1 .. m, LastAt(rows, p, j, m)
      PROVE  p \in DOMAIN truth /\ rows[j][3] = truth[p]
  <2> DEFINE s == {k \in 1 .. m : pairs[k] = p}
  <2>1. s \in SUBSET (1 .. m) /\ j \in s /\ \A i \in s : i <= j
    BY <1>6, <1>8 DEF LastAt
  <2>2. Positions(f, p) = s
    BY <1>3, <1>4
  <2>3. p \in ToSet(pairs)
    BY <1>4, <2>1 DEF ToSet
  <2> HIDE DEF s
  <2>4. Max(s) \in s /\ Max(s) >= j
    BY <1>4, <2>1, MaxIn
  <2>5. Max(s) = j
    <3>1. Max(s) <= j /\ Max(s) \in 1 .. m
      BY <2>1, <2>4
    <3> QED BY <1>4, <2>4, <3>1
  <2> QED BY <1>2, <1>6, <2>2, <2>3, <2>5
<1> QED BY <1>5, <1>7, <1>8 DEF ReportTells, pairs, rows

(* Whatever order the reports are read in, what is known is the truth.     *)
LEMMA MergedIsTruth ==
  ASSUME ReportInv, NEW order \in Orders
  PROVE  LET db == ResultsDb([k \in DOMAIN lists |-> reports[order[k]]]) IN
         DOMAIN db = DOMAIN truth /\ \A p \in DOMAIN truth : db[p] = truth[p]
<1> DEFINE R == [k \in DOMAIN lists |-> reports[order[k]]]
           db == ResultsDb(R)
<1>1. FilesApart
  BY FilesAreApart DEF ReportInv
<1>2. PICK n \in Nat : DOMAIN lists = 1 .. n
  BY <1>1 DEF FilesApart
<1>3. /\ order \in [1 .. n -> 1 .. n]
      /\ \A f \in 1 .. n : \E a \in 1 .. n : order[a] = f
  <2> DEFINE N == 1 .. n
  <2>1. order \in Injection(N, N)
    BY <1>2 DEF Orders, Injection
  <2>2. IsFiniteSet(N)
    BY FS_Interval
  <2> HIDE DEF N
  <2>3. order \in Surjection(N, N)
    BY <2>1, <2>2, FS_Injection
  <2> QED BY <2>1, <2>3 DEF Injection, Surjection, N
<1>4. ASSUME NEW f \in 1 .. n
      PROVE  /\ reports[f] \in Seq(Rows)
             /\ Missing(f) => Len(reports[f]) = 0
             /\ Missing(f) \/ Reported(f)
  <2>1. CASE Missing(f)
    BY <2>1 DEF Missing
  <2>2. CASE Reported(f)
    <3> DEFINE pairs == lists[f]
               m == Len(pairs)
    <3>1. pairs \in Seq(Names \X Names)
      BY <1>1, <1>2 DEF FilesApart
    <3>2. PICK v \in [DOMAIN pairs -> BOOLEAN] : reports[f] = ReportRows(pairs, v)
      BY <2>2 DEF Reported
    <3> HIDE DEF pairs
    <3>3. m \in Nat /\ DOMAIN pairs = 1 .. m /\ \A k \in 1 .. m : pairs[k] \in Names \X Names
      BY <3>1
    <3> HIDE DEF m
    <3>4. ASSUME NEW k \in 1 .. m PROVE <<pairs[k][1], pairs[k][2], v[k]>> \in Rows
      BY <3>2, <3>3 DEF Rows
    <3>5. reports[f] = [k \in 1 .. m |-> <<pairs[k][1], pairs[k][2], v[k]>>]
      BY <3>2, <3>3 DEF ReportRows
    <3>6. reports[f] \in Seq(Rows)
      BY <3>3, <3>4, <3>5
    <3>7. Missing(f) => Len(reports[f]) = 0
      BY DEF Missing
    <3> QED BY <2>2, <3>6, <3>7
  <2> QED BY <1>2, <2>1, <2>2 DEF ReportInv
<1>5. /\ R \in Seq(Seq(Rows)) /\ Len(R) = n
      /\ \A a \in 1 .. n : order[a] \in 1 .. n /\ R[a] = reports[order[a]]
  <2>1. \A a \in 1 .. n : order[a] \in 1 .. n /\ R[a] = reports[order[a]] /\ R[a] \in Seq(Rows)
    BY <1>2, <1>3, <1>4
  <2>2. DOMAIN R = 1 .. n /\ R = [a \in 1 .. n |-> R[a]]
    BY <1>2
  <2> HIDE DEF R
  <2> QED BY <2>1, <2>2
<1> HIDE DEF R
<1>6. ResultsUpTo(db, R, n)
  BY <1>5, ResultsDbFacts
<1> HIDE DEF db
<1>7. /\ \A a \in 1 .. n : \A j \in 1 .. Len(R[a]) : PairOf(R[a][j]) \in DOMAIN db
      /\ \A p \in DOMAIN db : \E a \in 1 .. n : \E j \in 1 .. Len(R[a]) :
           LastAt(R[a], p, j, Len(R[a])) /\ db[p] = R[a][j][3]
  BY <1>6 DEF ResultsUpTo
<1>8. ASSUME NEW p \in DOMAIN db PROVE p \in DOMAIN truth /\ db[p] = truth[p]
  <2>1. PICK a \in 1 .. n : \E j \in 1 .. Len(R[a]) :
          LastAt(R[a], p, j, Len(R[a])) /\ db[p] = R[a][j][3]
    BY <1>7
  <2> DEFINE f == order[a]
             rows == reports[f]
  <2>2. f \in 1 .. n /\ R[a] = rows /\ rows \in Seq(Rows)
    BY <1>4, <1>5
  <2> HIDE DEF f
  <2>3. PICK j \in 1 .. Len(rows) : LastAt(rows, p, j, Len(rows)) /\ db[p] = rows[j][3]
    BY <2>1, <2>2
  <2>4. Reported(f)
    <3>1. Len(rows) # 0
      BY <2>2, <2>3
    <3> QED BY <1>4, <2>2, <3>1
  <2>5. ReportTells(f, rows)
    BY <1>1, <1>2, <2>2, <2>4, ReportedTells
  <2> QED BY <2>3, <2>5 DEF ReportTells
<1>9. ASSUME NEW p \in DOMAIN truth PROVE p \in DOMAIN db
  <2>1. PICK f \in 1 .. n : p \in ToSet(lists[f])
    BY <1>2 DEF ReportInv
  <2>2. Reported(f)
    BY <1>4, <2>1 DEF Missing
  <2>3. ReportTells(f, reports[f])
    BY <1>1, <1>2, <2>2, ReportedTells
  <2>4. PICK j \in 1 .. Len(reports[f]) : PairOf(reports[f][j]) = p
    BY <2>1, <2>3 DEF ReportTells
  <2>5. PICK a \in 1 .. n : order[a] = f
    BY <1>3
  <2>6. R[a] = reports[f]
    BY <1>5, <2>5
  <2> QED BY <1>7, <2>4, <2>6
<1> QED BY <1>8, <1>9 DEF db, R

(* The rows of the merged table are those before the first that is not     *)
(* known in full.                                                          *)
MergedUpTo(t, db, last) ==
  /\ last \in 0 .. Len(extnList)
  /\ Len(t) = last /\ DOMAIN t = 1 .. last
  /\ \A r \in 1 .. last : t[r] = <<extnList[r], MergedRow(extnList, db, extnList[r])>> /\ RowKnown(extnList, db, extnList[r])
  /\ last = Len(extnList) <=> \A r \in 1 .. Len(extnList) : RowKnown(extnList, db, extnList[r])

LEMMA MergedTableFacts ==
  ASSUME ListTyped, NEW db
  PROVE  \E last : MergedUpTo(MergedTable(extnList, db), db, last)
<1> DEFINE n == Len(extnList)
           bad == {r \in DOMAIN extnList : ~RowKnown(extnList, db, extnList[r])}
           last == IF bad = {} THEN n ELSE (CHOOSE r \in bad : \A q \in bad : r <= q) - 1
           row(r) == <<extnList[r], MergedRow(extnList, db, extnList[r])>>
           t == MergedTable(extnList, db)
<1>1. n \in Nat /\ DOMAIN extnList = 1 .. n
  BY DEF ListTyped
<1>2. t = [r \in 1 .. last |-> row(r)]
  BY DEF MergedTable
<1>3. bad \in SUBSET (1 .. n) /\ \A r \in 1 .. n : r \in bad <=> ~RowKnown(extnList, db, extnList[r])
  BY <1>1
<1> HIDE DEF bad, n
<1>4. last \in 0 .. n /\ (\A r \in 1 .. last : r \in 1 .. n /\ r \notin bad) /\ (last = n <=> bad = {})
  <2>1. CASE bad = {}
    BY <1>1, <2>1
  <2>2. CASE bad # {}
    <3>1. bad \in SUBSET Nat
      BY <1>1, <1>3
    <3>2. \E r \in bad : \A q \in bad : r <= q
      BY <2>2, <3>1, Least
    <3> DEFINE least == CHOOSE r \in bad : \A q \in bad : r <= q
    <3>3. least \in bad /\ \A q \in bad : least <= q
      BY <3>2
    <3>4. last = least - 1
      BY <2>2
    <3> HIDE DEF least
    <3>5. least \in 1 .. n
      BY <1>3, <3>3
    <3> HIDE DEF last
    <3>6. last \in 0 .. n /\ last # n
      BY <1>1, <3>4, <3>5
    <3>7. ASSUME NEW r \in 1 .. last PROVE r \in 1 .. n /\ r \notin bad
      BY <1>1, <3>3, <3>4, <3>5
    <3> QED BY <2>2, <3>6, <3>7
  <2> QED BY <2>1, <2>2
<1> HIDE DEF last, t, row
<1>5. last \in Nat
  BY <1>1, <1>4
<1>6. DOMAIN t = 1 .. last /\ Len(t) = last
  BY <1>2, <1>5
<1>7. \A r \in 1 .. last : t[r] = row(r) /\ RowKnown(extnList, db, extnList[r])
  BY <1>2, <1>3, <1>4
<1>8. last = n <=> \A r \in 1 .. n : RowKnown(extnList, db, extnList[r])
  BY <1>3, <1>4
<1>9. MergedUpTo(t, db, last)
  BY <1>4, <1>6, <1>7, <1>8 DEF MergedUpTo, row, n
<1> QED BY <1>9 DEF t

(* Every row is known when every pair of the list is.                      *)
LEMMA AllRowsKnown ==
  ASSUME ListTyped, NEW db
  PROVE  (\A r \in 1 .. Len(extnList) : RowKnown(extnList, db, extnList[r])) <=>
           ToSet(OrderedPairs(extnList)) \subseteq DOMAIN db
<1> DEFINE n == Len(extnList)
<1>1. DOMAIN extnList = 1 .. n
  BY DEF ListTyped
<1>2. ToSet(OrderedPairs(extnList)) = {p \in ToSet(extnList) \X ToSet(extnList) : p[1] # p[2]}
  BY PairsOfList
<1>3. ASSUME \A r \in 1 .. n : RowKnown(extnList, db, extnList[r]),
             NEW p \in ToSet(extnList) \X ToSet(extnList), p[1] # p[2]
      PROVE  p \in DOMAIN db
  <2>1. PICK c, r \in 1 .. n : extnList[c] = p[1] /\ extnList[r] = p[2]
    BY <1>1 DEF ToSet
  <2>2. p = <<extnList[c], extnList[r]>>
    BY <2>1
  <2> QED BY <1>1, <1>3, <2>1, <2>2 DEF RowKnown
<1>4. ASSUME \A p \in ToSet(extnList) \X ToSet(extnList) : p[1] # p[2] => p \in DOMAIN db,
             NEW r \in 1 .. n, NEW c \in 1 .. n, extnList[c] # extnList[r]
      PROVE  <<extnList[c], extnList[r]>> \in DOMAIN db
  <2>1. <<extnList[c], extnList[r]>> \in ToSet(extnList) \X ToSet(extnList)
    BY <1>1 DEF ToSet
  <2> QED BY <1>4, <2>1
<1> QED BY <1>1, <1>2, <1>3, <1>4 DEF RowKnown

(* A merge puts the last reported verdict of each pair in its cell,        *)
(* whatever order the reports are read in, makes none up, and has every row*)
(* exactly when every pair was reported: for every list, every split of it *)
(* and every history of workers (util/parallel_csv.py).                    *)
THEOREM MergeKeepsVerdictsAlways == ParallelSpec => MergeKeepsVerdicts
<1>1. ASSUME ReportInv, Merge PROVE MergeOfVerdicts
  <2> DEFINE n == Len(extnList)
  <2>1. ListTyped /\ DOMAIN extnList = 1 .. n
    BY <1>1 DEF ReportInv, FilesInv, ListInv, ListTyped
  <2>2. PICK order \in Orders : table' = Merged(order)
    BY <1>1 DEF Merge
  <2> DEFINE db == ResultsDb([k \in DOMAIN lists |-> reports[order[k]]])
  <2>3. table' = MergedTable(extnList, db)
    BY <2>2 DEF Merged
  <2>4. DOMAIN db = DOMAIN truth /\ \A p \in DOMAIN truth : db[p] = truth[p]
    BY <1>1, MergedIsTruth
  <2> HIDE DEF db
  <2>5. PICK last : MergedUpTo(table', db, last)
    BY <2>1, <2>3, MergedTableFacts
  <2>6. /\ Len(table') = last /\ DOMAIN table' = 1 .. last
        /\ \A r \in 1 .. last : /\ table'[r] = <<extnList[r], MergedRow(extnList, db, extnList[r])>>
                                /\ RowKnown(extnList, db, extnList[r])
        /\ last = n <=> \A r \in 1 .. n : RowKnown(extnList, db, extnList[r])
    BY <2>5 DEF MergedUpTo
  <2>7. Len(table') = Len(extnList) <=> ToSet(OrderedPairs(extnList)) \subseteq DOMAIN truth
    BY <2>1, <2>4, <2>6, AllRowsKnown
  <2>8. ASSUME NEW r \in DOMAIN table', NEW c \in DOMAIN extnList, extnList[c] # table'[r][1]
        PROVE  /\ <<extnList[c], table'[r][1]>> \in DOMAIN truth
               /\ table'[r][2][c] = Answer(truth[<<extnList[c], table'[r][1]>>])
    <3> DEFINE second == extnList[r]
               p == <<extnList[c], second>>
    <3>1. /\ table'[r][1] = second /\ table'[r][2] = MergedRow(extnList, db, second)
          /\ RowKnown(extnList, db, second)
      BY <2>6
    <3>2. extnList[c] # second
      BY <2>8, <3>1
    <3> HIDE DEF second
    <3>3. p \in DOMAIN db
      BY <3>1, <3>2 DEF RowKnown
    <3>4. MergedRow(extnList, db, second)[c] = Answer(db[p])
      BY <3>2 DEF MergedRow
    <3> QED BY <2>4, <3>1, <3>3, <3>4
  <2> QED BY <2>7, <2>8 DEF MergeOfVerdicts, AllReported
<1>2. ReportInv /\ [ParallelNext]_parallelVars => [Merge => MergeOfVerdicts]_parallelVars
  BY <1>1
<1> QED BY ReportStart, ReportStep, <1>2, PTL DEF ParallelSpec, MergeKeepsVerdicts
=============================================================================

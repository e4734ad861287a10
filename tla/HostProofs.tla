----------------------------- MODULE HostProofs -----------------------------
(***************************************************************************)
(* What the proofs about the modes rest on.                                *)
(*                                                                         *)
(* The orders computed from the extension database, for every database     *)
(* whose dependencies have no cycle: get_dependencies returns a list,      *)
(* get_extns_to_install has what is needed, once and in order, and so has  *)
(* what the benchmark creates.                                             *)
(*                                                                         *)
(* What each helper of PgHost does to the host, whatever its shell command *)
(* did, for all sets of options, lists and names that type the host.       *)
(***************************************************************************)
EXTENDS PgHost, Folding, FiniteSetTheorems

-----------------------------------------------------------------------------
(* An order stays one when a name is appended after what it depends on, or *)
(* another order.                                                          *)
LEMMA OrderAppend ==
  ASSUME NEW s \in Seq(Names), NEW x \in Names, NEW C,
         DependenciesFirst(s, C), ToSet(DepsOf(x)) \cap C \subseteq ToSet(s)
  PROVE  DependenciesFirst(Append(s, x), C)
<1> SUFFICES ASSUME NEW i \in DOMAIN Append(s, x), NEW d \in ToSet(DepsOf(Append(s, x)[i])) \cap C
             PROVE  \E j \in 1 .. i - 1 : Append(s, x)[j] = d
  BY DEF DependenciesFirst
<1>0. i \in 1 .. Len(s) \/ i = Len(s) + 1
  BY AppendFacts
<1>1. CASE i \in 1 .. Len(s)
  <2>1. PICK j \in 1 .. i - 1 : s[j] = d
    BY <1>1, AppendFacts DEF DependenciesFirst
  <2>2. j \in 1 .. Len(s)
    BY <1>1, AppendFacts
  <2> QED BY <2>1, <2>2, AppendFacts
<1>2. CASE i = Len(s) + 1
  <2>1. PICK j \in 1 .. Len(s) : s[j] = d
    BY <1>2, AppendFacts DEF ToSet
  <2> QED BY <1>2, <2>1, AppendFacts
<1> QED BY <1>0, <1>1, <1>2

LEMMA OrderConcat ==
  ASSUME NEW s \in Seq(Names), NEW t \in Seq(Names), NEW C,
         DependenciesFirst(s, C), DependenciesFirst(t, C)
  PROVE  DependenciesFirst(s \o t, C)
<1> DEFINE st == s \o t
<1>0. /\ Len(s) \in Nat /\ DOMAIN s = 1 .. Len(s) /\ Len(t) \in Nat /\ DOMAIN t = 1 .. Len(t)
      /\ DOMAIN st = 1 .. Len(s) + Len(t)
      /\ \A i \in 1 .. Len(s) : st[i] = s[i]
      /\ \A i \in 1 .. Len(t) : st[Len(s) + i] = t[i]
  BY ConcatFacts
<1> SUFFICES ASSUME NEW i \in DOMAIN st, NEW d \in ToSet(DepsOf(st[i])) \cap C
             PROVE  \E j \in 1 .. i - 1 : st[j] = d
  BY DEF DependenciesFirst
<1> HIDE DEF st
<1>1. CASE i \in 1 .. Len(s)
  <2>1. PICK j \in 1 .. i - 1 : s[j] = d
    BY <1>0, <1>1 DEF DependenciesFirst
  <2>2. j \in 1 .. Len(s)
    BY <1>0, <1>1
  <2> QED BY <1>0, <2>1, <2>2
<1>2. CASE i \notin 1 .. Len(s)
  <2>1. i - Len(s) \in 1 .. Len(t) /\ i = Len(s) + (i - Len(s))
    BY <1>0, <1>2
  <2>2. st[i] = t[i - Len(s)]
    BY <1>0, <2>1
  <2>3. PICK j \in 1 .. (i - Len(s)) - 1 : t[j] = d
    BY <1>0, <2>1, <2>2 DEF DependenciesFirst
  <2>4. j \in 1 .. Len(t) /\ Len(s) + j \in 1 .. i - 1
    BY <1>0, <2>1, <2>3
  <2> QED BY <1>0, <2>3, <2>4
<1> QED BY <1>1, <1>2

LEMMA OrderEmpty == \A C : DependenciesFirst(<< >>, C)
BY DEF DependenciesFirst

-----------------------------------------------------------------------------
(* The folds of ExtnDB, as steps: appending what is new,                    *)
LEMMA FoldAppendNew ==
  ASSUME NEW S, NEW base \in Seq(S), NEW seq \in Seq(S)
  PROVE  \E h \in [0 .. Len(seq) -> Seq(S)] :
           /\ h[0] = base
           /\ \A k \in 1 .. Len(seq) : h[k] = AppendNew(h[k - 1], seq[k])
           /\ AppendAllNew(base, seq) = h[Len(seq)]
<1> DEFINE V == Seq(S)
           n == Len(seq)
           step == [k \in 1 .. n |-> [v \in V |-> AppendNew(v, seq[k])]]
           Solves(f) == f = [s \in SUBSET DOMAIN seq |->
                               IF s = {} THEN base
                               ELSE AppendNew(f[s \ {Max(s)}], seq[Max(s)])]
           iter == CHOOSE g : Solves(g)
<1>1. n \in Nat /\ DOMAIN seq = 1 .. n /\ base \in V /\ \A k \in 1 .. n : seq[k] \in S
  OBVIOUS
<1>2. step \in [1 .. n -> [V -> V]]
  <2>1. ASSUME NEW v \in V, NEW k \in 1 .. n PROVE AppendNew(v, seq[k]) \in V
    BY <1>1 DEF AppendNew
  <2> QED BY <2>1
<1>3. PICK f \in Iterates(V, n, base, step) :
        \A s \in SUBSET (1 .. n) : s # {} => Max(s) \in 1 .. n /\ f[s \ {Max(s)}] \in V
  <2> HIDE DEF V, n, step
  <2> QED BY <1>1, <1>2, IteratesThere
<1>4. Solves(f)
  BY <1>1, <1>3 DEF Iterates
<1>5. Solves(iter)
  <2> HIDE DEF Solves
  <2> QED BY <1>4
<1>6. AppendAllNew(base, seq) = iter[1 .. n]
  BY <1>1 DEF FoldLeft, MapThenFoldSet, AppendAllNew
<1> HIDE DEF iter
<1>7. iter[{}] = base
  BY <1>5
<1>8. \A s \in SUBSET (1 .. n) : s # {} /\ iter[s \ {Max(s)}] \in V =>
        iter[s] = step[Max(s)][iter[s \ {Max(s)}]]
  BY <1>1, <1>3, <1>5
<1>9. PICK h \in Steps(V, n, base, step) : iter[1 .. n] = h[n]
  <2> HIDE DEF V, n, step
  <2>1. Iterating(V, n, base, step, iter)
    BY <1>7, <1>8 DEF Iterating
  <2> QED BY <1>1, <1>2, <2>1, StepsOfIterate
<1> QED BY <1>1, <1>6, <1>9 DEF Steps

(* appending what is in a set,                                             *)
SelectedSteps(seq, S, T) ==
  {h \in [0 .. Len(seq) -> Seq(S)] :
     /\ h[0] = << >>
     /\ \A k \in 1 .. Len(seq) :
          h[k] = IF seq[k] \in T THEN Append(h[k - 1], seq[k]) ELSE h[k - 1]}

LEMMA FoldSelected ==
  ASSUME NEW S, NEW T, NEW seq \in Seq(S)
  PROVE  \E h \in SelectedSteps(seq, S, T) : Selected(seq, T) = h[Len(seq)]
<1> DEFINE V == Seq(S)
           n == Len(seq)
           step == [k \in 1 .. n |-> [v \in V |-> (IF seq[k] \in T THEN Append(v, seq[k]) ELSE v)]]
           Solves(f) == f = [s \in SUBSET DOMAIN seq |->
                               IF s = {} THEN << >>
                               ELSE (IF seq[Max(s)] \in T THEN Append(f[s \ {Max(s)}], seq[Max(s)]) ELSE f[s \ {Max(s)}])]
           iter == CHOOSE g : Solves(g)
<1>1. n \in Nat /\ DOMAIN seq = 1 .. n /\ << >> \in V /\ \A k \in 1 .. n : seq[k] \in S
  OBVIOUS
<1>2. step \in [1 .. n -> [V -> V]]
  <2>1. ASSUME NEW v \in V, NEW k \in 1 .. n PROVE (IF seq[k] \in T THEN Append(v, seq[k]) ELSE v) \in V
    BY <1>1
  <2> QED BY <2>1
<1>3. PICK f \in Iterates(V, n, << >>, step) :
        \A s \in SUBSET (1 .. n) : s # {} => Max(s) \in 1 .. n /\ f[s \ {Max(s)}] \in V
  <2> HIDE DEF V, n, step
  <2> QED BY <1>1, <1>2, IteratesThere
<1>4. Solves(f)
  BY <1>1, <1>3 DEF Iterates
<1>5. Solves(iter)
  <2> HIDE DEF Solves
  <2> QED BY <1>4
<1>6. Selected(seq, T) = iter[1 .. n]
  BY <1>1 DEF FoldLeft, MapThenFoldSet, Selected
<1> HIDE DEF iter
<1>7. iter[{}] = << >>
  BY <1>5
<1>8. \A s \in SUBSET (1 .. n) : s # {} /\ iter[s \ {Max(s)}] \in V =>
        iter[s] = step[Max(s)][iter[s \ {Max(s)}]]
  BY <1>1, <1>3, <1>5
<1>9. PICK h \in Steps(V, n, << >>, step) : iter[1 .. n] = h[n]
  <2> HIDE DEF V, n, step
  <2>1. Iterating(V, n, << >>, step, iter)
    BY <1>7, <1>8 DEF Iterating
  <2> QED BY <1>1, <1>2, <2>1, StepsOfIterate
<1> QED BY <1>1, <1>6, <1>9 DEF Steps, SelectedSteps

(* appending the dependencies that g has for a name, and the name,         *)
GivesLists(g, seq, S) == \A d \in ToSet(seq) : g[d] \in Seq(S)

DependencySteps(g, seq, S) ==
  {h \in [0 .. Len(seq) -> Seq(S)] :
     /\ h[0] = << >>
     /\ \A k \in 1 .. Len(seq) : h[k] = h[k - 1] \o g[seq[k]] \o <<seq[k]>>}

LEMMA FoldDependencies ==
  ASSUME NEW S, NEW g, NEW seq \in Seq(S), GivesLists(g, seq, S)
  PROVE  \E h \in DependencySteps(g, seq, S) : DependenciesBy(g, seq) = h[Len(seq)]
<1> DEFINE V == Seq(S)
           n == Len(seq)
           step == [k \in 1 .. n |-> [v \in V |-> (v \o g[seq[k]] \o <<seq[k]>>)]]
           Solves(f) == f = [s \in SUBSET DOMAIN seq |->
                               IF s = {} THEN << >>
                               ELSE (f[s \ {Max(s)}] \o g[seq[Max(s)]] \o <<seq[Max(s)]>>)]
           iter == CHOOSE f : Solves(f)
<1>1. n \in Nat /\ DOMAIN seq = 1 .. n /\ << >> \in V /\ \A k \in 1 .. n : seq[k] \in S
  OBVIOUS
<1>2. step \in [1 .. n -> [V -> V]]
  <2>1. ASSUME NEW v \in V, NEW k \in 1 .. n PROVE (v \o g[seq[k]] \o <<seq[k]>>) \in V
    BY <1>1 DEF GivesLists, ToSet
  <2> QED BY <2>1
<1>3. PICK f \in Iterates(V, n, << >>, step) :
        \A s \in SUBSET (1 .. n) : s # {} => Max(s) \in 1 .. n /\ f[s \ {Max(s)}] \in V
  <2> HIDE DEF V, n, step
  <2> QED BY <1>1, <1>2, IteratesThere
<1>4. Solves(f)
  BY <1>1, <1>3 DEF Iterates
<1>5. Solves(iter)
  <2> HIDE DEF Solves
  <2> QED BY <1>4
<1>6. DependenciesBy(g, seq) = iter[1 .. n]
  BY <1>1 DEF FoldLeft, MapThenFoldSet, DependenciesBy
<1> HIDE DEF iter
<1>7. iter[{}] = << >>
  BY <1>5
<1>8. \A s \in SUBSET (1 .. n) : s # {} /\ iter[s \ {Max(s)}] \in V =>
        iter[s] = step[Max(s)][iter[s \ {Max(s)}]]
  BY <1>1, <1>3, <1>5
<1>9. PICK h \in Steps(V, n, << >>, step) : iter[1 .. n] = h[n]
  <2> HIDE DEF V, n, step
  <2>1. Iterating(V, n, << >>, step, iter)
    BY <1>7, <1>8 DEF Iterating
  <2> QED BY <1>1, <1>2, <2>1, StepsOfIterate
<1> QED BY <1>1, <1>6, <1>9 DEF Steps, DependencySteps

LEMMA AppendAllNewTyped ==
  ASSUME NEW S, NEW base \in Seq(S), NEW seq \in Seq(S)
  PROVE  AppendAllNew(base, seq) \in Seq(S)
<1>1. PICK h \in [0 .. Len(seq) -> Seq(S)] : AppendAllNew(base, seq) = h[Len(seq)]
  BY FoldAppendNew
<1>2. Len(seq) \in 0 .. Len(seq)
  OBVIOUS
<1> QED BY <1>1, <1>2

(* and appending what is new of a name with its dependencies.              *)
AllGiveLists(seq, S) == \A d \in ToSet(seq) : WithDeps(d) \in Seq(S)

InstallSteps(seq, S) ==
  {h \in [0 .. Len(seq) -> Seq(S)] :
     /\ h[0] = << >>
     /\ \A k \in 1 .. Len(seq) : h[k] = AppendAllNew(h[k - 1], WithDeps(seq[k]))}

LEMMA FoldInstalled ==
  ASSUME NEW S, NEW seq \in Seq(S), AllGiveLists(seq, S)
  PROVE  \E h \in InstallSteps(seq, S) : GetExtnsToInstall(seq) = h[Len(seq)]
<1> DEFINE V == Seq(S)
           n == Len(seq)
           step == [k \in 1 .. n |-> [v \in V |-> AppendAllNew(v, WithDeps(seq[k]))]]
           Solves(f) == f = [s \in SUBSET DOMAIN seq |->
                               IF s = {} THEN << >>
                               ELSE AppendAllNew(f[s \ {Max(s)}], WithDeps(seq[Max(s)]))]
           iter == CHOOSE g : Solves(g)
<1>1. n \in Nat /\ DOMAIN seq = 1 .. n /\ << >> \in V /\ \A k \in 1 .. n : seq[k] \in S
  OBVIOUS
<1>2. step \in [1 .. n -> [V -> V]]
  <2>1. ASSUME NEW v \in V, NEW k \in 1 .. n PROVE AppendAllNew(v, WithDeps(seq[k])) \in V
    BY <1>1, AppendAllNewTyped DEF AllGiveLists, ToSet
  <2> QED BY <2>1
<1>3. PICK f \in Iterates(V, n, << >>, step) :
        \A s \in SUBSET (1 .. n) : s # {} => Max(s) \in 1 .. n /\ f[s \ {Max(s)}] \in V
  <2> HIDE DEF V, n, step
  <2> QED BY <1>1, <1>2, IteratesThere
<1>4. Solves(f)
  BY <1>1, <1>3 DEF Iterates
<1>5. Solves(iter)
  <2> HIDE DEF Solves
  <2> QED BY <1>4
<1>6. GetExtnsToInstall(seq) = iter[1 .. n]
  BY <1>1 DEF FoldLeft, MapThenFoldSet, GetExtnsToInstall
<1> HIDE DEF iter
<1>7. iter[{}] = << >>
  BY <1>5
<1>8. \A s \in SUBSET (1 .. n) : s # {} /\ iter[s \ {Max(s)}] \in V =>
        iter[s] = step[Max(s)][iter[s \ {Max(s)}]]
  BY <1>1, <1>3, <1>5
<1>9. PICK h \in Steps(V, n, << >>, step) : iter[1 .. n] = h[n]
  <2> HIDE DEF V, n, step
  <2>1. Iterating(V, n, << >>, step, iter)
    BY <1>7, <1>8 DEF Iterating
  <2> QED BY <1>1, <1>2, <2>1, StepsOfIterate
<1> QED BY <1>1, <1>6, <1>9 DEF Steps, InstallSteps

-----------------------------------------------------------------------------
(* What appending the new names of an order to an order gives.             *)
LEMMA AppendNewFacts ==
  ASSUME NEW s \in Seq(Names), NEW x \in Names
  PROVE  /\ AppendNew(s, x) \in Seq(Names)
         /\ ToSet(AppendNew(s, x)) = ToSet(s) \cup {x}
         /\ IsInjective(s) => IsInjective(AppendNew(s, x))
         /\ \A C : DependenciesFirst(s, C) /\ ToSet(DepsOf(x)) \cap C \subseteq ToSet(s) =>
                     DependenciesFirst(AppendNew(s, x), C)
<1>1. CASE Contains(s, x)
  <2>1. AppendNew(s, x) = s
    BY <1>1 DEF AppendNew
  <2>2. x \in ToSet(s)
    BY <1>1 DEF Contains, ToSet
  <2> QED BY <2>1, <2>2
<1>2. CASE ~Contains(s, x)
  <2>1. AppendNew(s, x) = Append(s, x)
    BY <1>2 DEF AppendNew
  <2>2. ASSUME IsInjective(s) PROVE IsInjective(Append(s, x))
    BY <1>2, <2>2, AppendFacts DEF IsInjective, Contains
  <2> QED BY <2>1, <2>2, AppendFacts, OrderAppend
<1> QED BY <1>1, <1>2

LEMMA AppendNewAll ==
  ASSUME NEW base \in Seq(Names), NEW seq \in Seq(Names),
         IsInjective(base), DependenciesFirst(base, Names), DependenciesFirst(seq, Names)
  PROVE  /\ AppendAllNew(base, seq) \in Seq(Names)
         /\ ToSet(AppendAllNew(base, seq)) = ToSet(base) \cup ToSet(seq)
         /\ IsInjective(AppendAllNew(base, seq))
         /\ DependenciesFirst(AppendAllNew(base, seq), Names)
<1> DEFINE n == Len(seq)
           upTo(k) == {seq[j] : j \in 1 .. k}
<1>0. n \in Nat /\ n \in 0 .. n /\ DOMAIN seq = 1 .. n /\ \A k \in 1 .. n : seq[k] \in Names
  OBVIOUS
<1>1. PICK h \in [0 .. n -> Seq(Names)] :
        /\ h[0] = base
        /\ \A k \in 1 .. n : h[k] = AppendNew(h[k - 1], seq[k])
        /\ AppendAllNew(base, seq) = h[n]
  BY FoldAppendNew
<1> DEFINE T == {k \in 0 .. n : /\ ToSet(h[k]) = ToSet(base) \cup upTo(k)
                                /\ IsInjective(h[k])
                                /\ DependenciesFirst(h[k], Names)}
<1>2. 0 \in T
  BY <1>0, <1>1, ToSetOfPrefix
<1>3. ASSUME NEW k \in 1 .. n, k - 1 \in T PROVE k \in T
  <2>1. h[k - 1] \in Seq(Names) /\ seq[k] \in Names /\ h[k] = AppendNew(h[k - 1], seq[k])
    BY <1>0, <1>1
  <2>2. ToSet(DepsOf(seq[k])) \cap Names \subseteq upTo(k - 1)
    BY <1>0 DEF DependenciesFirst
  <2>3. upTo(k) = upTo(k - 1) \cup {seq[k]}
    BY <1>0, ToSetOfPrefix
  <2>4. /\ ToSet(h[k - 1]) = ToSet(base) \cup upTo(k - 1)
        /\ IsInjective(h[k - 1]) /\ DependenciesFirst(h[k - 1], Names)
    BY <1>3
  <2> HIDE DEF upTo
  <2>5. ToSet(DepsOf(seq[k])) \cap Names \subseteq ToSet(h[k - 1])
    BY <2>2, <2>4
  <2> DEFINE s == h[k - 1]
             x == seq[k]
  <2> HIDE DEF s, x
  <2>6. s \in Seq(Names) /\ x \in Names /\ h[k] = AppendNew(s, x)
    BY <2>1 DEF s, x
  <2>7. ToSet(h[k]) = ToSet(s) \cup {x}
    BY <2>6, AppendNewFacts
  <2>8. IsInjective(h[k]) /\ DependenciesFirst(h[k], Names)
    <3>1. /\ IsInjective(s) /\ DependenciesFirst(s, Names)
          /\ ToSet(DepsOf(x)) \cap Names \subseteq ToSet(s)
      BY <2>4, <2>5 DEF s, x
    <3> QED BY <2>6, <3>1, AppendNewFacts
  <2>9. ToSet(h[k]) = ToSet(base) \cup upTo(k)
    BY <2>3, <2>4, <2>7 DEF s, x
  <2> QED BY <2>8, <2>9
<1>4. 0 .. n \subseteq T
  <2> HIDE DEF T, n
  <2> QED BY <1>0, <1>2, <1>3, UpToInduction
<1>5. n \in T
  BY <1>0, <1>4
<1>6. ToSet(seq) = upTo(n)
  BY ToSetOfPrefix
<1> QED BY <1>0, <1>1, <1>5, <1>6

-----------------------------------------------------------------------------
(* get_dependencies returns a list for every name, and the list is what    *)
(* its recursion says.  It depends on what is found for the dependencies   *)
(* only,                                                                   *)
LEMMA DependenciesByFacts ==
  ASSUME NEW S, NEW seq \in Seq(S), NEW g, NEW f,
         \A d \in ToSet(seq) : g[d] \in Seq(S) /\ f[d] = g[d]
  PROVE  DependenciesBy(g, seq) \in Seq(S) /\ DependenciesBy(f, seq) = DependenciesBy(g, seq)
<1> DEFINE n == Len(seq)
<1>0. n \in Nat /\ n \in 0 .. n /\ \A k \in 1 .. n : seq[k] \in ToSet(seq)
  BY DEF ToSet
<1>1. GivesLists(g, seq, S) /\ GivesLists(f, seq, S)
  BY DEF GivesLists
<1>2. PICK h \in DependencySteps(g, seq, S) : DependenciesBy(g, seq) = h[n]
  BY <1>1, FoldDependencies
<1>3. PICK e \in DependencySteps(f, seq, S) : DependenciesBy(f, seq) = e[n]
  BY <1>1, FoldDependencies
<1> USE DEF DependencySteps
<1> DEFINE T == {k \in 0 .. n : e[k] = h[k]}
<1>4. 0 \in T
  BY <1>0, <1>2, <1>3
<1>5. ASSUME NEW k \in 1 .. n, k - 1 \in T PROVE k \in T
  <2>1. f[seq[k]] = g[seq[k]] /\ e[k - 1] = h[k - 1] /\ k \in 0 .. n
    BY <1>0, <1>5
  <2> QED BY <1>2, <1>3, <2>1
<1>6. 0 .. n \subseteq T
  <2> HIDE DEF T, n
  <2> QED BY <1>0, <1>4, <1>5, UpToInduction
<1> QED BY <1>0, <1>2, <1>3, <1>6

(* and what holds of a name when it holds of its dependencies, holds of    *)
(* every name.                                                             *)
LEMMA DependencyInduction ==
  ASSUME ProperDatabase, NEW T,
         \A n \in Names : ToSet(DepsOf(n)) \subseteq T => n \in T
  PROVE  Names \subseteq T
<1> DEFINE Rest == Names \ T
<1> SUFFICES ASSUME Rest # {} PROVE FALSE
  OBVIOUS
<1>1. PICK n \in Rest : ToSet(DepsOf(n)) \cap Rest = {}
  BY DEF ProperDatabase, AcyclicDeps
<1>2. ToSet(DepsOf(n)) \subseteq Names
  BY DEF ProperDatabase, ToSet
<1> QED BY <1>1, <1>2

Recursion(S, g) ==
  /\ \A n \in S : ToSet(DepsOf(n)) \subseteq S
  /\ g \in [S -> Seq(Names)]
  /\ \A n \in S : g[n] = DependenciesBy(g, DepsOf(n))

(* The largest set of names for which the recursion has a solution.        *)
LEMMA LargestThere ==
  ASSUME NEW C, C \subseteq SUBSET Names, C # {}
  PROVE  \E S \in C : \A T \in C : Cardinality(T) <= Cardinality(S)
<1> DEFINE m == Cardinality(Names)
           D == {m - Cardinality(S) : S \in C}
<1>1. m \in Nat /\ \A S \in C : Cardinality(S) \in Nat /\ Cardinality(S) <= m
  BY ExtnsAssumption, FS_Subset, FS_CardinalityType
<1>2. D \in SUBSET Nat /\ D # {}
  BY <1>1
<1>3. PICK x \in D : \A y \in D : x <= y
  <2> HIDE DEF D
  <2> QED BY <1>2, Least
<1>4. PICK S \in C : x = m - Cardinality(S)
  OBVIOUS
<1>5. ASSUME NEW T \in C PROVE Cardinality(T) <= Cardinality(S)
  <2>1. m - Cardinality(S) <= m - Cardinality(T)
    BY <1>3, <1>4
  <2> QED BY <1>1, <2>1
<1> QED BY <1>5

LEMMA RecursionThere ==
  ASSUME ProperDatabase
  PROVE  \E g : Recursion(Names, g)
<1> DEFINE C == {S \in SUBSET Names : \E g : Recursion(S, g)}
<1>1. {} \in C
  <2>1. Recursion({}, [n \in {} |-> << >>])
    BY DEF Recursion
  <2> QED BY <2>1
<1>2. PICK S \in C : \A T \in C : Cardinality(T) <= Cardinality(S)
  <2> HIDE DEF C
  <2>1. C \subseteq SUBSET Names
    BY DEF C
  <2> QED BY <1>1, <2>1, LargestThere
<1>3. PICK g : Recursion(S, g)
  BY <1>2
<1>4. S = Names
  <2> SUFFICES ASSUME S # Names PROVE FALSE
    OBVIOUS
  <2>1. PICK n \in Names \ S : ToSet(DepsOf(n)) \cap (Names \ S) = {}
    BY <1>2 DEF ProperDatabase, AcyclicDeps
  <2>2. DepsOf(n) \in Seq(Names) /\ ToSet(DepsOf(n)) \subseteq S
    BY <2>1 DEF ProperDatabase, ToSet
  <2> DEFINE T == S \cup {n}
             f == [m \in T |-> IF m = n THEN DependenciesBy(g, DepsOf(n)) ELSE g[m]]
  <2>3. g \in [S -> Seq(Names)] /\ \A m \in S : ToSet(DepsOf(m)) \subseteq S
    BY <1>3 DEF Recursion
  <2>4. \A m \in S : f[m] = g[m]
    BY <2>1
  <2>5. ASSUME NEW m \in T
        PROVE  /\ ToSet(DepsOf(m)) \subseteq S
               /\ DependenciesBy(f, DepsOf(m)) = DependenciesBy(g, DepsOf(m))
               /\ DependenciesBy(g, DepsOf(m)) \in Seq(Names)
    <3>1. DepsOf(m) \in Seq(Names) /\ ToSet(DepsOf(m)) \subseteq S
      BY <1>2, <2>2, <2>3 DEF ProperDatabase
    <3>2. \A d \in ToSet(DepsOf(m)) : g[d] \in Seq(Names) /\ f[d] = g[d]
      BY <2>3, <2>4, <3>1
    <3> HIDE DEF f
    <3> QED BY <3>1, <3>2, DependenciesByFacts
  <2>6. f[n] = DependenciesBy(g, DepsOf(n))
    OBVIOUS
  <2>7. f \in [T -> Seq(Names)]
    BY <2>3, <2>5
  <2> HIDE DEF f
  <2>8. \A m \in T : f[m] = DependenciesBy(f, DepsOf(m))
    BY <1>3, <2>4, <2>5, <2>6 DEF Recursion
  <2>9. Recursion(T, f)
    BY <2>5, <2>7, <2>8 DEF Recursion
  <2>10. T \in C
    BY <1>2, <2>1, <2>9
  <2>11. IsFiniteSet(S) /\ Cardinality(S) \in Nat
    BY <1>2, ExtnsAssumption, FS_Subset, FS_CardinalityType
  <2>12. Cardinality(T) = Cardinality(S) + 1
    BY <2>1, <2>11, FS_AddElement
  <2> QED BY <1>2, <2>10, <2>11, <2>12
<1> QED BY <1>3, <1>4

LEMMA GetDependenciesDefined ==
  ASSUME ProperDatabase
  PROVE  GetDependencies = [n \in Names |-> DependenciesBy(GetDependencies, DepsOf(n))]
<1> DEFINE P(g) == g = [n \in Names |-> DependenciesBy(g, DepsOf(n))]
<1>1. PICK g : Recursion(Names, g)
  BY RecursionThere
<1>2. P(g)
  BY <1>1 DEF Recursion
<1>3. GetDependencies = CHOOSE f : P(f)
  BY DEF GetDependencies
<1>4. P(CHOOSE f : P(f))
  <2> HIDE DEF P
  <2> QED BY <1>2
<1> HIDE DEF P
<1>5. P(GetDependencies)
  BY <1>3, <1>4
<1> QED BY <1>5 DEF P

LEMMA GetDependenciesTyped ==
  ASSUME ProperDatabase
  PROVE  \A n \in Names : GetDependencies[n] \in Seq(Names)
<1> DEFINE T == {n \in Names : GetDependencies[n] \in Seq(Names)}
<1>1. ASSUME NEW n \in Names, ToSet(DepsOf(n)) \subseteq T PROVE n \in T
  <2>1. DepsOf(n) \in Seq(Names)
    BY DEF ProperDatabase
  <2>2. DependenciesBy(GetDependencies, DepsOf(n)) \in Seq(Names)
    BY <1>1, <2>1, DependenciesByFacts
  <2> QED BY <2>2, GetDependenciesDefined
<1>2. Names \subseteq T
  <2> HIDE DEF T
  <2> QED BY <1>1, DependencyInduction
<1> QED BY <1>2

-----------------------------------------------------------------------------
(* The list is in order, and what it has is the dependencies of the name,  *)
(* direct or not, and nothing else.                                        *)
Closed(S) == S \in SUBSET Names /\ \A n \in S : ToSet(DepsOf(n)) \subseteq S

GoodOrder(n, list) ==
  /\ DependenciesFirst(list, Names)
  /\ ToSet(DepsOf(n)) \subseteq ToSet(list)
  /\ \A S : Closed(S) /\ n \in S => ToSet(list) \subseteq S

LEMMA OneStepOrdered ==
  ASSUME NEW s \in Seq(Names), NEW t \in Seq(Names), NEW d \in Names,
         DependenciesFirst(s, Names), GoodOrder(d, t)
  PROVE  LET u == s \o t \o <<d>> IN
         /\ DependenciesFirst(u, Names)
         /\ ToSet(u) = ToSet(s) \cup ToSet(t) \cup {d}
<1> DEFINE st == s \o t
<1>1. st \in Seq(Names) /\ ToSet(st) = ToSet(s) \cup ToSet(t)
  BY ConcatFacts
<1>2. DependenciesFirst(st, Names)
  BY OrderConcat DEF GoodOrder
<1> HIDE DEF st
<1>3. st \o <<d>> = Append(st, d)
  BY <1>1
<1>4. ToSet(DepsOf(d)) \cap Names \subseteq ToSet(st)
  BY <1>1 DEF GoodOrder
<1>5. DependenciesFirst(Append(st, d), Names)
  BY <1>1, <1>2, <1>4, OrderAppend
<1>6. ToSet(Append(st, d)) = ToSet(s) \cup ToSet(t) \cup {d}
  BY <1>1, AppendFacts
<1> QED BY <1>3, <1>5, <1>6 DEF st

LEMMA GetDependenciesOrdered ==
  ASSUME ProperDatabase
  PROVE  \A n \in Names : GoodOrder(n, GetDependencies[n])
<1> DEFINE G == GetDependencies
           Good == {n \in Names : GoodOrder(n, G[n])}
<1>1. ASSUME NEW n \in Names, ToSet(DepsOf(n)) \subseteq Good PROVE n \in Good
  <2> DEFINE seq == DepsOf(n)
             m == Len(seq)
             upTo(k) == {seq[j] : j \in 1 .. k}
  <2>1. seq \in Seq(Names) /\ m \in Nat /\ m \in 0 .. m /\ \A k \in 1 .. m : seq[k] \in ToSet(seq)
    BY DEF ProperDatabase, ToSet
  <2>2. GivesLists(G, seq, Names)
    BY <1>1, GetDependenciesTyped DEF GivesLists
  <2>3. PICK h \in DependencySteps(G, seq, Names) : DependenciesBy(G, seq) = h[m]
    BY <2>1, <2>2, FoldDependencies
  <2> DEFINE T == {k \in 0 .. m : /\ DependenciesFirst(h[k], Names)
                                  /\ upTo(k) \subseteq ToSet(h[k])
                                  /\ \A S : Closed(S) /\ n \in S => ToSet(h[k]) \subseteq S}
  <2>4. 0 \in T
    <3>1. h[0] = << >> /\ ToSet(<< >>) = {} /\ upTo(0) = {}
      BY <2>3 DEF DependencySteps, ToSet
    <3> QED BY <2>1, <3>1, OrderEmpty
  <2>5. ASSUME NEW k \in 1 .. m, k - 1 \in T PROVE k \in T
    <3> DEFINE s == h[k - 1]
               d == seq[k]
               t == G[d]
    <3>0. h \in [0 .. m -> Seq(Names)] /\ k - 1 \in 0 .. m
      BY <2>1, <2>3 DEF DependencySteps
    <3>1. s \in Seq(Names) /\ h[k] = s \o t \o <<d>>
      <4>1. h[k - 1] \in Seq(Names)
        BY <3>0
      <4>2. h[k] = h[k - 1] \o G[seq[k]] \o <<seq[k]>>
        <5> HIDE DEF G, seq
        <5> QED BY <2>3 DEF DependencySteps
      <4> QED BY <4>1, <4>2
    <3>2. d \in ToSet(seq) /\ d \in Names /\ t \in Seq(Names) /\ GoodOrder(d, t)
      BY <1>1, <2>1, <2>2 DEF GivesLists
    <3>3. /\ DependenciesFirst(s, Names)
          /\ upTo(k - 1) \subseteq ToSet(s)
          /\ \A S : Closed(S) /\ n \in S => ToSet(s) \subseteq S
      BY <2>5
    <3>4. upTo(k) = upTo(k - 1) \cup {d}
      BY <2>1, ToSetOfPrefix
    <3> HIDE DEF s, t, d, upTo
    <3>5. DependenciesFirst(h[k], Names) /\ ToSet(h[k]) = ToSet(s) \cup ToSet(t) \cup {d}
      BY <3>1, <3>2, <3>3, OneStepOrdered
    <3>6. ASSUME NEW S, Closed(S), n \in S PROVE ToSet(h[k]) \subseteq S
      <4>1. d \in S
        BY <3>2, <3>6 DEF Closed
      <4>2. ToSet(t) \subseteq S
        BY <3>2, <3>6, <4>1 DEF GoodOrder
      <4> QED BY <3>3, <3>5, <3>6, <4>1, <4>2
    <3>7. upTo(k) \subseteq ToSet(h[k])
      BY <3>3, <3>4, <3>5
    <3> QED BY <3>5, <3>6, <3>7
  <2>6. 0 .. m \subseteq T
    <3> HIDE DEF T, m
    <3> QED BY <2>1, <2>4, <2>5, UpToInduction
  <2>7. m \in T
    BY <2>1, <2>6
  <2>8. ToSet(seq) = upTo(m)
    BY <2>1, ToSetOfPrefix
  <2>9. G[n] = h[m]
    BY <2>3, GetDependenciesDefined
  <2>10. GoodOrder(n, h[m])
    <3> HIDE DEF upTo, m
    <3> QED BY <2>7, <2>8 DEF GoodOrder
  <2> QED BY <2>9, <2>10
<1>2. Names \subseteq Good
  <2> HIDE DEF Good
  <2> QED BY <1>1, DependencyInduction
<1> QED BY <1>2

(* With the name itself: in order, and the least closed set that has it.   *)
LEMMA WithDepsFacts ==
  ASSUME ProperDatabase, NEW n \in Names
  PROVE  /\ WithDeps(n) \in Seq(Names)
         /\ DependenciesFirst(WithDeps(n), Names)
         /\ n \in ToSet(WithDeps(n))
         /\ \A S : Closed(S) /\ n \in S => ToSet(WithDeps(n)) \subseteq S
<1>1. GetDependencies[n] \in Seq(Names) /\ GoodOrder(n, GetDependencies[n])
  BY GetDependenciesTyped, GetDependenciesOrdered
<1>2. WithDeps(n) \in Seq(Names) /\ ToSet(WithDeps(n)) = ToSet(GetDependencies[n]) \cup {n}
  BY <1>1, AppendFacts DEF WithDeps
<1>3. DependenciesFirst(WithDeps(n), Names)
  BY <1>1, OrderAppend DEF WithDeps, GoodOrder
<1> QED BY <1>1, <1>2, <1>3 DEF GoodOrder

(* A list in order has the dependencies of its members.                    *)
LEMMA OrderIsClosed ==
  ASSUME ProperDatabase, NEW list \in Seq(Names), DependenciesFirst(list, Names)
  PROVE  Closed(ToSet(list))
<1>1. ToSet(list) \in SUBSET Names
  BY DEF ToSet
<1>2. ASSUME NEW n \in ToSet(list), NEW d \in ToSet(DepsOf(n)) PROVE d \in ToSet(list)
  <2>1. PICK i \in DOMAIN list : list[i] = n
    BY DEF ToSet
  <2>2. n \in Names /\ d \in Names
    BY <1>1 DEF ProperDatabase, ToSet
  <2>3. PICK j \in 1 .. i - 1 : list[j] = d
    BY <2>1, <2>2 DEF DependenciesFirst
  <2>4. j \in DOMAIN list
    BY <2>3
  <2> QED BY <2>3, <2>4 DEF ToSet
<1> QED BY <1>1, <1>2 DEF Closed

-----------------------------------------------------------------------------
(* One more name and its dependencies, after those of the names before it. *)
LEMMA OneMoreInstalled ==
  ASSUME ProperDatabase, NEW s \in Seq(Names), NEW n \in Names,
         IsInjective(s), DependenciesFirst(s, Names)
  PROVE  LET u == AppendAllNew(s, WithDeps(n)) IN
         /\ u \in Seq(Names)
         /\ IsInjective(u) /\ DependenciesFirst(u, Names)
         /\ ToSet(u) = ToSet(s) \cup ToSet(WithDeps(n))
         /\ n \in ToSet(u)
         /\ \A S : Closed(S) /\ n \in S /\ ToSet(s) \subseteq S => ToSet(u) \subseteq S
<1> DEFINE w == WithDeps(n)
<1>1. /\ w \in Seq(Names) /\ DependenciesFirst(w, Names) /\ n \in ToSet(w)
      /\ \A S : Closed(S) /\ n \in S => ToSet(w) \subseteq S
  BY WithDepsFacts
<1> HIDE DEF w
<1> DEFINE u == AppendAllNew(s, w)
<1>2. /\ u \in Seq(Names) /\ IsInjective(u) /\ DependenciesFirst(u, Names)
      /\ ToSet(u) = ToSet(s) \cup ToSet(w)
  BY <1>1, AppendNewAll
<1> HIDE DEF u
<1> QED BY <1>1, <1>2 DEF u, w

LEMMA InstalledFacts ==
  ASSUME ProperDatabase, NEW list \in Seq(Names)
  PROVE  LET installed == GetExtnsToInstall(list) IN
         /\ installed \in Seq(Names)
         /\ IsInjective(installed)
         /\ DependenciesFirst(installed, Names)
         /\ ToSet(list) \subseteq ToSet(installed)
         /\ \A S : Closed(S) /\ ToSet(list) \subseteq S => ToSet(installed) \subseteq S
<1> DEFINE m == Len(list)
           upTo(k) == {list[j] : j \in 1 .. k}
<1>1. m \in Nat /\ m \in 0 .. m /\ \A k \in 1 .. m : list[k] \in ToSet(list) /\ list[k] \in Names
  BY DEF ToSet
<1>2. AllGiveLists(list, Names)
  BY WithDepsFacts DEF AllGiveLists, ToSet
<1>3. PICK h \in InstallSteps(list, Names) : GetExtnsToInstall(list) = h[m]
  BY <1>2, FoldInstalled
<1>4. h \in [0 .. m -> Seq(Names)] /\ h[0] = << >>
  BY <1>3 DEF InstallSteps
<1> DEFINE T == {k \in 0 .. m :
                   /\ IsInjective(h[k]) /\ DependenciesFirst(h[k], Names)
                   /\ upTo(k) \subseteq ToSet(h[k])
                   /\ \A S : Closed(S) /\ ToSet(list) \subseteq S => ToSet(h[k]) \subseteq S}
<1>5. 0 \in T
  <2>1. IsInjective(<< >>) /\ ToSet(<< >>) = {} /\ upTo(0) = {}
    BY DEF IsInjective, ToSet
  <2> QED BY <1>1, <1>4, <2>1, OrderEmpty
<1>6. ASSUME NEW k \in 1 .. m, k - 1 \in T PROVE k \in T
  <2> DEFINE s == h[k - 1]
             n == list[k]
  <2>1. s \in Seq(Names) /\ n \in Names /\ n \in ToSet(list)
    BY <1>1, <1>4
  <2>2. h[k] = AppendAllNew(s, WithDeps(n))
    BY <1>3 DEF InstallSteps
  <2>3. /\ IsInjective(s) /\ DependenciesFirst(s, Names)
        /\ upTo(k - 1) \subseteq ToSet(s)
        /\ \A S : Closed(S) /\ ToSet(list) \subseteq S => ToSet(s) \subseteq S
    BY <1>6
  <2>4. upTo(k) = upTo(k - 1) \cup {n}
    BY ToSetOfPrefix
  <2> HIDE DEF s, n, upTo
  <2>5. IsInjective(s) /\ DependenciesFirst(s, Names)
    BY <2>3
  <2> DEFINE u == AppendAllNew(s, WithDeps(n))
  <2>6. /\ IsInjective(u) /\ DependenciesFirst(u, Names)
        /\ ToSet(u) = ToSet(s) \cup ToSet(WithDeps(n))
        /\ n \in ToSet(u)
        /\ \A S : Closed(S) /\ n \in S /\ ToSet(s) \subseteq S => ToSet(u) \subseteq S
    BY <2>1, <2>5, OneMoreInstalled
  <2> HIDE DEF u
  <2>7. h[k] = u
    BY <2>2 DEF u
  <2>8. upTo(k) \subseteq ToSet(h[k])
    BY <2>3, <2>4, <2>7, <2>6
  <2>9. \A S : Closed(S) /\ ToSet(list) \subseteq S => ToSet(h[k]) \subseteq S
    BY <2>1, <2>3, <2>7, <2>6
  <2> QED BY <2>7, <2>8, <2>9, <2>6
<1>7. 0 .. m \subseteq T
  <2> HIDE DEF T, m
  <2> QED BY <1>1, <1>5, <1>6, UpToInduction
<1>8. m \in T
  BY <1>1, <1>7
<1>9. ToSet(list) = upTo(m)
  BY ToSetOfPrefix
<1>10. h[m] \in Seq(Names)
  BY <1>1, <1>4
<1> HIDE DEF m, upTo
<1> QED BY <1>3, <1>8, <1>9, <1>10

(* So what is installed for a list of names is what they need, each once,  *)
(* and after what it depends on: for every database without a cycle.       *)
THEOREM InstallOrder ==
  ASSUME ProperDatabase, NEW list \in Seq(Names)
  PROVE  InstallsInOrder(list)
<1> DEFINE installed == GetExtnsToInstall(list)
<1>1. /\ installed \in Seq(Names) /\ IsInjective(installed) /\ DependenciesFirst(installed, Names)
      /\ ToSet(list) \subseteq ToSet(installed)
      /\ \A S : Closed(S) /\ ToSet(list) \subseteq S => ToSet(installed) \subseteq S
  BY InstalledFacts
<1> HIDE DEF installed
<1>2. Closed(ToSet(installed))
  BY <1>1, OrderIsClosed
<1>3. ToSet(installed) = Needed(list)
  <2>1. ASSUME NEW n \in ToSet(installed) PROVE n \in Needed(list)
    BY <1>1, <1>2 DEF Needed, Closed
  <2>2. ASSUME NEW n \in Needed(list) PROVE n \in ToSet(installed)
    BY <1>1, <1>2 DEF Needed, Closed
  <2> QED BY <2>1, <2>2
<1> QED BY <1>1, <1>3 DEF InstallsInOrder, installed

-----------------------------------------------------------------------------
(* Choosing from a list in order: what is chosen, and in an order as far   *)
(* as what it depends on can be chosen.                                    *)
LEMMA SelectedFacts ==
  ASSUME NEW list \in Seq(Names), NEW C
  PROVE  /\ Selected(list, C) \in Seq(Names)
         /\ ToSet(Selected(list, C)) = ToSet(list) \cap C
         /\ ProperDatabase /\ DependenciesFirst(list, Names) =>
              DependenciesFirst(Selected(list, C), C)
<1> DEFINE m == Len(list)
           upTo(k) == {list[j] : j \in 1 .. k}
           Ordered == ProperDatabase /\ DependenciesFirst(list, Names)
<1>1. m \in Nat /\ m \in 0 .. m /\ DOMAIN list = 1 .. m /\ \A k \in 1 .. m : list[k] \in Names
  OBVIOUS
<1>2. PICK h \in SelectedSteps(list, Names, C) : Selected(list, C) = h[m]
  BY FoldSelected
<1> USE DEF SelectedSteps
<1> DEFINE T == {k \in 0 .. m : /\ ToSet(h[k]) = upTo(k) \cap C
                                /\ Ordered => DependenciesFirst(h[k], C)}
<1>3. 0 \in T
  <2>1. ToSet(<< >>) = {} /\ upTo(0) = {}
    BY DEF ToSet
  <2> QED BY <1>1, <1>2, <2>1, OrderEmpty
<1>4. ASSUME NEW k \in 1 .. m, k - 1 \in T PROVE k \in T
  <2> DEFINE s == h[k - 1]
             x == list[k]
  <2>1. s \in Seq(Names) /\ x \in Names
    BY <1>1, <1>2
  <2>2. h[k] = IF x \in C THEN Append(s, x) ELSE s
    BY <1>2
  <2>3. ToSet(s) = upTo(k - 1) \cap C /\ (Ordered => DependenciesFirst(s, C))
    BY <1>4
  <2>4. upTo(k) = upTo(k - 1) \cup {x}
    BY ToSetOfPrefix
  <2>5. Ordered => ToSet(DepsOf(x)) \subseteq upTo(k - 1)
    <3> SUFFICES ASSUME Ordered, NEW d \in ToSet(DepsOf(x)) PROVE d \in upTo(k - 1)
      OBVIOUS
    <3>1. d \in Names
      BY <2>1 DEF ProperDatabase, ToSet
    <3> QED BY <1>1, <3>1 DEF DependenciesFirst
  <2> HIDE DEF s, x, upTo, Ordered
  <2>6. CASE x \in C
    <3>1. h[k] = Append(s, x)
      BY <2>2, <2>6
    <3>2. ToSet(h[k]) = upTo(k) \cap C
      BY <2>1, <2>3, <2>4, <2>6, <3>1, AppendFacts
    <3>3. Ordered => DependenciesFirst(h[k], C)
      <4> SUFFICES ASSUME Ordered PROVE DependenciesFirst(Append(s, x), C)
        BY <3>1
      <4>1. DependenciesFirst(s, C) /\ ToSet(DepsOf(x)) \cap C \subseteq ToSet(s)
        BY <2>3, <2>5
      <4> QED BY <2>1, <4>1, OrderAppend
    <3> QED BY <3>2, <3>3
  <2>7. CASE x \notin C
    BY <2>2, <2>3, <2>4, <2>7
  <2> QED BY <2>6, <2>7
<1>5. 0 .. m \subseteq T
  <2> HIDE DEF T, m
  <2> QED BY <1>1, <1>3, <1>4, UpToInduction
<1>6. m \in T
  BY <1>1, <1>5
<1>7. ToSet(list) = upTo(m)
  BY ToSetOfPrefix
<1>8. h[m] \in Seq(Names)
  BY <1>1, <1>2
<1> HIDE DEF m, upTo
<1> QED BY <1>2, <1>6, <1>7, <1>8

LEMMA PairOfNames ==
  ASSUME NEW x \in Names, NEW y \in Names
  PROVE  <<x, y>> \in Seq(Names) /\ ToSet(<<x, y>>) = {x, y}
<1>1. <<x, y>> \in Seq(Names) /\ DOMAIN <<x, y>> = {1, 2} /\ <<x, y>>[1] = x /\ <<x, y>>[2] = y
  OBVIOUS
<1> QED BY <1>1 DEF ToSet

(* What the benchmark of a pair creates, then, is everything the pair needs*)
(* that can be created, none of it before what it depends on, and this in  *)
(* both directions.                                                        *)
THEOREM BenchOrder ==
  ASSUME ProperDatabase, NEW test \in Names, NEW compat \in Names
  PROVE  BenchesInOrder(test, compat)
<1> DEFINE installed == GetExtnsToInstall(<<test, compat>>)
<1>1. <<test, compat>> \in Seq(Names)
  BY PairOfNames
<1>2. installed \in Seq(Names) /\ DependenciesFirst(installed, Names)
  BY <1>1, InstalledFacts
<1>3. ToSet(installed) = Needed(<<test, compat>>)
  BY <1>1, InstallOrder DEF InstallsInOrder
<1>4. PgbenchLoads(test, compat) = Selected(installed, CreatableExtns)
  BY DEF PgbenchLoads
<1> HIDE DEF installed
<1>5. /\ ToSet(Selected(installed, CreatableExtns)) = ToSet(installed) \cap CreatableExtns
      /\ DependenciesFirst(Selected(installed, CreatableExtns), CreatableExtns)
  BY <1>2, SelectedFacts
<1> QED BY <1>3, <1>4, <1>5 DEF BenchesInOrder

(* A name with its dependencies is what the name needs.                    *)
LEMMA WithDepsNeeded ==
  ASSUME ProperDatabase, NEW n \in Names
  PROVE  ToSet(WithDeps(n)) = Needed(<<n>>)
<1> DEFINE one == <<n>>
<1>1. one \in Seq(Names) /\ Len(one) = 1 /\ one[1] = n /\ ToSet(one) = {n}
  BY DEF ToSet
<1>2. WithDeps(n) \in Seq(Names) /\ DependenciesFirst(WithDeps(n), Names)
  BY WithDepsFacts
<1>3. ToSet(GetExtnsToInstall(one)) = Needed(one)
  BY <1>1, InstallOrder DEF InstallsInOrder
<1> HIDE DEF one
<1>4. AllGiveLists(one, Names)
  BY <1>1, <1>2 DEF AllGiveLists
<1>5. PICK h \in InstallSteps(one, Names) : GetExtnsToInstall(one) = h[1]
  BY <1>1, <1>4, FoldInstalled
<1>6. h[1] = AppendAllNew(<< >>, WithDeps(n))
  BY <1>1, <1>5 DEF InstallSteps
<1>7. ToSet(AppendAllNew(<< >>, WithDeps(n))) = ToSet(WithDeps(n))
  <2> DEFINE e == << >>
  <2>1. e \in Seq(Names) /\ IsInjective(e) /\ ToSet(e) = {} /\ DependenciesFirst(e, Names)
    BY OrderEmpty DEF IsInjective, ToSet
  <2> HIDE DEF e
  <2>2. ToSet(AppendAllNew(e, WithDeps(n))) = ToSet(e) \cup ToSet(WithDeps(n))
    BY <1>2, <2>1, AppendNewAll
  <2> QED BY <2>1, <2>2 DEF e
<1> QED BY <1>3, <1>5, <1>6, <1>7 DEF one

(* The two other lists, of pg_regress and of a custom script.  What is     *)
(* loaded is what the compatible extension needs and can be created, less  *)
(* the extension under test and what its suite loads itself, or less all   *)
(* that the extension under test needs; each name comes after those of its *)
(* dependencies that the same list may have.                               *)
THEOREM LoadOrders ==
  ASSUME ProperDatabase, NEW test \in Names, NEW compat \in Names
  PROVE  LET regress == CreatableExtns \ ({test} \cup ToSet(Entry[test].loads))
             custom == CreatableExtns \ Needed(<<test>>)
         IN  /\ ToSet(LoadExtnStr(test, compat)) = Needed(<<compat>>) \cap regress
             /\ DependenciesFirst(LoadExtnStr(test, compat), regress)
             /\ ToSet(CustomLoads(test, compat)) = Needed(<<compat>>) \cap custom
             /\ DependenciesFirst(CustomLoads(test, compat), custom)
<1>1. /\ WithDeps(compat) \in Seq(Names) /\ DependenciesFirst(WithDeps(compat), Names)
      /\ ToSet(WithDeps(compat)) = Needed(<<compat>>)
      /\ ToSet(WithDeps(test)) = Needed(<<test>>)
  BY WithDepsFacts, WithDepsNeeded
<1>2. \A C : /\ DependenciesFirst(Selected(WithDeps(compat), C), C)
             /\ ToSet(Selected(WithDeps(compat), C)) = Needed(<<compat>>) \cap C
  BY <1>1, SelectedFacts
<1> QED BY <1>1, <1>2 DEF LoadExtnStr, CustomLoads

(* When the loads of pg_regress work: what the suite asks for comes first, *)
(* and the extension under test is left out of the rest.                   *)
THEOREM RegressOrder ==
  ASSUME ProperDatabase, NEW test \in Names, NEW compat \in Names, test # compat,
         Entry[test].loads \in Seq(Names)
  PROVE  RegressInOrder(test, compat)
<1> DEFINE s == Entry[test].loads
           C == CreatableExtns \ ({test} \cup ToSet(s))
           t == LoadExtnStr(test, compat)
           dependants == {n \in ToSet(t) : test \in ToSet(DepsOf(n))}
           all == s \o t
<1>1. t \in Seq(Names) /\ ToSet(t) \subseteq C /\ DependenciesFirst(t, C)
  <2>1. WithDeps(compat) \in Seq(Names)
    BY WithDepsFacts
  <2>2. t = Selected(WithDeps(compat), C)
    BY DEF LoadExtnStr
  <2>3. DependenciesFirst(t, C)
    BY LoadOrders
  <2> HIDE DEF t, C
  <2> QED BY <2>1, <2>2, <2>3, SelectedFacts
<1>2. /\ Len(s) \in Nat /\ DOMAIN s = 1 .. Len(s) /\ Len(t) \in Nat /\ DOMAIN t = 1 .. Len(t)
      /\ DOMAIN all = 1 .. Len(s) + Len(t)
      /\ \A i \in 1 .. Len(s) : all[i] = s[i]
      /\ \A i \in 1 .. Len(t) : all[Len(s) + i] = t[i]
      /\ ToSet(all) = ToSet(s) \cup ToSet(t)
  <2> HIDE DEF s, t
  <2> QED BY <1>1, ConcatFacts DEF s
<1>3. RegressLoads(test, compat) = all
  BY DEF RegressLoads
<1> HIDE DEF s, t, all
<1>4. ASSUME DependenciesFirst(all, CreatableExtns), test \in CreatableExtns, test \notin ToSet(s)
      PROVE  dependants = {}
  <2> SUFFICES ASSUME NEW i \in 1 .. Len(t), test \in ToSet(DepsOf(t[i]))
               PROVE  FALSE
    BY <1>2 DEF ToSet
  <2>1. Len(s) + i \in 1 .. Len(s) + Len(t) /\ all[Len(s) + i] = t[i]
    BY <1>2
  <2>2. PICK j \in 1 .. (Len(s) + i) - 1 : all[j] = test
    BY <1>2, <1>4, <2>1 DEF DependenciesFirst
  <2>3. j \in 1 .. Len(s) + Len(t)
    BY <1>2
  <2>4. test \in ToSet(all)
    BY <1>2, <2>2, <2>3 DEF ToSet
  <2> QED BY <1>1, <1>2, <1>4, <2>4
<1>5. ASSUME DependenciesFirst(s, CreatableExtns),
             test \notin CreatableExtns \/ test \in ToSet(s) \/ dependants = {}
      PROVE  DependenciesFirst(all, CreatableExtns)
  <2> SUFFICES ASSUME NEW i \in DOMAIN all, NEW d \in ToSet(DepsOf(all[i])) \cap CreatableExtns
               PROVE  \E j \in 1 .. i - 1 : all[j] = d
    BY DEF DependenciesFirst
  <2>1. CASE i \in 1 .. Len(s)
    <3>1. PICK j \in 1 .. i - 1 : s[j] = d
      BY <1>2, <1>5, <2>1 DEF DependenciesFirst
    <3>2. j \in 1 .. Len(s)
      BY <1>2, <2>1
    <3> QED BY <1>2, <3>1, <3>2
  <2>2. CASE i \notin 1 .. Len(s)
    <3> DEFINE k == i - Len(s)
    <3>1. k \in 1 .. Len(t) /\ i = Len(s) + k
      BY <1>2, <2>2
    <3>2. all[i] = t[k]
      BY <1>2, <3>1
    <3> HIDE DEF k
    <3>3. CASE d \in ToSet(s)
      <4>1. PICK j \in 1 .. Len(s) : s[j] = d
        BY <1>2, <3>3 DEF ToSet
      <4>2. j \in 1 .. i - 1
        BY <1>2, <3>1
      <4> QED BY <1>2, <4>1, <4>2
    <3>4. CASE d \notin ToSet(s)
      <4>1. d # test
        <5>1. t[k] \in ToSet(t)
          BY <1>2, <3>1 DEF ToSet
        <5> QED BY <1>5, <3>2, <3>4, <5>1
      <4>2. d \in C
        BY <3>4, <4>1
      <4>3. PICK j \in 1 .. k - 1 : t[j] = d
        BY <1>1, <1>2, <3>1, <3>2, <4>2 DEF DependenciesFirst
      <4>4. j \in 1 .. Len(t) /\ Len(s) + j \in 1 .. i - 1
        BY <1>2, <3>1, <4>3
      <4> QED BY <1>2, <4>3, <4>4
    <3> QED BY <3>3, <3>4
  <2> QED BY <2>1, <2>2
<1> HIDE DEF dependants
<1>6. DependenciesFirst(s, CreatableExtns) =>
        (DependenciesFirst(all, CreatableExtns)
           <=> (test \notin CreatableExtns \/ test \in ToSet(s) \/ dependants = {}))
  BY <1>4, <1>5
<1> QED BY <1>3, <1>6 DEF RegressInOrder, s, t, dependants

(* Nothing is loaded for a pair, in either direction, but what is installed*)
(* for it.                                                                 *)
LEMMA LoadsAreInstalled ==
  ASSUME ProperDatabase, NEW list \in Seq(Names),
         NEW x \in ToSet(list), NEW y \in ToSet(list)
  PROVE  /\ ToSet(CustomLoads(x, y)) \subseteq ToSet(GetExtnsToInstall(list))
         /\ ToSet(PgbenchLoads(x, y)) \subseteq ToSet(GetExtnsToInstall(list))
<1> DEFINE S == ToSet(GetExtnsToInstall(list))
<1>1. x \in Names /\ y \in Names
  BY DEF ToSet
<1>2. Closed(S) /\ ToSet(list) \subseteq S
  BY InstalledFacts, OrderIsClosed
<1> HIDE DEF S
<1>3. ToSet(CustomLoads(x, y)) \subseteq S
  <2>1. WithDeps(y) \in Seq(Names) /\ ToSet(WithDeps(y)) \subseteq S
    BY <1>1, <1>2, WithDepsFacts
  <2> QED BY <2>1, SelectedFacts DEF CustomLoads
<1>4. ToSet(PgbenchLoads(x, y)) \subseteq S
  <2>1. <<x, y>> \in Seq(Names) /\ ToSet(<<x, y>>) = {x, y}
    BY <1>1, PairOfNames
  <2>2. GetExtnsToInstall(<<x, y>>) \in Seq(Names) /\ ToSet(GetExtnsToInstall(<<x, y>>)) \subseteq S
    BY <1>2, <2>1, InstalledFacts
  <2> QED BY <2>2, SelectedFacts DEF PgbenchLoads
<1> QED BY <1>3, <1>4 DEF S

(* The preload list names extensions that are installed.                   *)
LEMMA PreloadsAreInstalled ==
  ASSUME NEW list \in Seq(Names)
  PROVE  PreloadLibs(list) \in Seq(Names) /\ ToSet(PreloadLibs(list)) \subseteq ToSet(list)
BY SelectedFacts DEF PreloadLibs

-----------------------------------------------------------------------------
(* Nothing installed, no cluster and no server are typed by any sets.      *)
LEMMA NothingTyped ==
  ASSUME NEW Opts, NEW Lists, NEW Listed, NEW Loads
  PROVE  /\ NoDist \in Dists(Opts, Listed)
         /\ NoData \in Clusters(Lists, Loads)
         /\ NewData \in Clusters(Lists, Loads)
         /\ NoServer \in Servers(Lists)
         /\ NoTree \in Trees(Opts)
<1>0. NoTree \in Trees(Opts)
  BY DEF Trees, NoTree
<1>1. NoDist \in Dists(Opts, Listed) /\ NoServer \in Servers(Lists)
  BY DEF Dists, Servers, NoDist, NoServer
<1>2. NoData \in Clusters(Lists, Loads)
  BY DEF Clusters, NoData
<1>3. NewData \in Clusters(Lists, Loads)
  BY <1>2 DEF Clusters, NewData
<1> QED BY <1>0, <1>1, <1>2, <1>3

(* The parts of the host that is typed, before and after a step.           *)
LEMMA HostTypeParts ==
  ASSUME NEW Opts, NEW Lists, NEW Listed, NEW Loads
  PROVE  /\ HostType(Opts, Lists, Listed, Loads) <=>
              /\ dist \in Dists(Opts, Listed) /\ tree \in Trees(Opts)
              /\ workdir \in SUBSET Listed
              /\ data \in Clusters(Lists, Loads) /\ server \in Servers(Lists)
         /\ HostType(Opts, Lists, Listed, Loads)' <=>
              /\ dist' \in Dists(Opts, Listed) /\ tree' \in Trees(Opts)
              /\ workdir' \in SUBSET Listed
              /\ data' \in Clusters(Lists, Loads) /\ server' \in Servers(Lists)
BY DEF HostType

(* The source tree is there afterwards or as it was, and keeps what it is  *)
(* configured for.                                                         *)
LEMMA UnpackTreeEffect ==
  ASSUME NEW Opts, tree \in Trees(Opts), UnpackTree
  PROVE  /\ tree' \in Trees(Opts) /\ UNCHANGED <<dist, workdir, data, server>>
         /\ tree'.opts = tree.opts
<1>1. /\ [tree EXCEPT !.there = TRUE] \in Trees(Opts)
      /\ [tree EXCEPT !.there = TRUE].opts = tree.opts
  BY DEF Trees
<1> QED BY <1>1 DEF UnpackTree

(* install_postgres, over the old installation or where there was none:    *)
(* the tree is configured as it was or with the options, and what is       *)
(* installed is as before or of the tree's configuration.                  *)
LEMMA InstallPostgresEffect ==
  ASSUME NEW Opts, NEW Listed, NEW base \in Dists(Opts, Listed), tree \in Trees(Opts),
         NEW o \in SUBSET Opts, InstallPostgres(base, o)
  PROVE  /\ dist' \in Dists(Opts, Listed) /\ tree' \in Trees(Opts)
         /\ UNCHANGED <<workdir, data, server>>
         /\ tree'.opts = tree.opts \/ tree'.opts = o
         /\ dist'.libs = base.libs
         /\ dist' = base \/ (dist'.built /\ dist'.opts = tree'.opts \cup base.opts)
<1> DEFINE new == [tree EXCEPT !.configured = TRUE, !.opts = o]
<1>1. new \in Trees(Opts) /\ new.opts = o
  BY DEF Trees
<1>2. tree' \in {tree, new}
  BY DEF InstallPostgres
<1> HIDE DEF new
<1>3. tree' \in Trees(Opts) /\ (tree'.opts = tree.opts \/ tree'.opts = o)
  BY <1>1, <1>2
<1>4. CASE dist' = base
  BY <1>3, <1>4 DEF InstallPostgres
<1>5. CASE dist' = [built |-> TRUE, opts |-> tree'.opts \cup base.opts, libs |-> base.libs]
  <2>1. tree'.opts \subseteq Opts /\ base.opts \subseteq Opts /\ base.libs \subseteq Listed
    BY <1>3 DEF Trees, Dists
  <2>2. tree'.opts \cup base.opts \in SUBSET Opts
    BY <2>1
  <2>3. dist' \in Dists(Opts, Listed)
    BY <1>5, <2>1, <2>2 DEF Dists
  <2> QED BY <1>3, <1>5, <2>3 DEF InstallPostgres
<1> QED BY <1>4, <1>5 DEF InstallPostgres

(* download_install_extn adds one folder and one library at most.          *)
LEMMA DownloadInstallTyped ==
  ASSUME NEW Opts, NEW Listed, dist \in Dists(Opts, Listed), workdir \in SUBSET Listed,
         NEW e \in Listed, DownloadInstall(e)
  PROVE  /\ dist' \in Dists(Opts, Listed) /\ workdir' \in SUBSET Listed
         /\ UNCHANGED <<tree, data, server>>
         /\ dist'.built = dist.built /\ dist'.opts = dist.opts
         /\ dist'.libs \subseteq dist.libs \cup {e}
<1>1. /\ [dist EXCEPT !.libs = @ \cup {e}] \in Dists(Opts, Listed)
      /\ [dist EXCEPT !.libs = @ \cup {e}].built = dist.built
      /\ [dist EXCEPT !.libs = @ \cup {e}].opts = dist.opts
      /\ [dist EXCEPT !.libs = @ \cup {e}].libs = dist.libs \cup {e}
  BY DEF Dists
<1> QED BY <1>1 DEF DownloadInstall, host

(* initdb makes a cluster without settings, or leaves what is there.       *)
LEMMA InitDbEffect ==
  ASSUME NEW Lists, NEW Loads, data \in Clusters(Lists, Loads), InitDb
  PROVE  /\ data' \in Clusters(Lists, Loads) /\ UNCHANGED <<dist, tree, workdir, server>>
         /\ data' = data \/ data' = NewData
BY NothingTyped DEF InitDb

(* modify_postgresql_conf appends the settings of its list.                *)
LEMMA ModifyConfEffect ==
  ASSUME NEW Lists, NEW Loads, data \in Clusters(Lists, Loads),
         NEW list \in Lists, ModifyConf(list)
  PROVE  /\ data' \in Clusters(Lists, Loads) /\ UNCHANGED <<dist, tree, workdir, server>>
         /\ data.present /\ data'.present /\ data'.confs = Append(data.confs, list)
         /\ data'.template1 = data.template1 /\ data'.hasBench = data.hasBench
         /\ data'.bench = data.bench
<1>1. data.confs \in Seq(Lists)
  BY DEF Clusters
<1>2. Append(data.confs, list) \in Seq(Lists)
  BY <1>1
<1>3. /\ [data EXCEPT !.confs = Append(data.confs, list)] \in Clusters(Lists, Loads)
      /\ [data EXCEPT !.confs = Append(data.confs, list)].confs = Append(data.confs, list)
  BY <1>2 DEF Clusters
<1> QED BY <1>3 DEF ModifyConf, Clusters

(* A server comes up with the settings of the cluster, or nothing does.    *)
LEMMA StartPostgresEffect ==
  ASSUME NEW Lists, NEW Loads, data \in Clusters(Lists, Loads),
         server \in Servers(Lists), StartPostgres
  PROVE  /\ server' \in Servers(Lists) /\ UNCHANGED <<dist, tree, workdir, data>>
         /\ \/ server' = server
            \/ Serving' /\ server'.confs = data.confs /\ CanStart
<1>1. [up |-> TRUE, orphan |-> FALSE, confs |-> data.confs] \in Servers(Lists)
  BY DEF Clusters, Servers
<1>2. CASE server' = server
  BY <1>2 DEF StartPostgres
<1>3. CASE CanStart /\ server' = [up |-> TRUE, orphan |-> FALSE, confs |-> data.confs]
  <2>1. Serving' /\ server'.confs = data.confs
    BY <1>3 DEF Serving
  <2> QED BY <1>1, <1>3, <2>1 DEF StartPostgres
<1> QED BY <1>2, <1>3 DEF StartPostgres

(* A server that stops or dies leaves none, and no other comes up.         *)
LEMMA ServerEndsEffect ==
  ASSUME NEW Lists, server \in Servers(Lists), StopPostgres \/ ServerDies
  PROVE  /\ server' \in Servers(Lists) /\ UNCHANGED <<dist, tree, workdir, data>>
         /\ Serving' => UNCHANGED server
<1>1. NoServer \in Servers(Lists)
  BY NothingTyped
<1>2. UNCHANGED <<dist, tree, workdir, data>> /\ server' \in {server, NoServer}
  BY DEF StopPostgres, ServerDies
<1>3. ~NoServer.up
  BY DEF NoServer
<1> QED BY <1>1, <1>2, <1>3 DEF Serving

(* cleanup and cleanup.sh leave no cluster; a server that is still running *)
(* has lost its own and answers no more.                                   *)
LEMMA CleanupEffect ==
  ASSUME NEW Opts, NEW Lists, NEW Listed, dist \in Dists(Opts, Listed),
         tree \in Trees(Opts), workdir \in SUBSET Listed, server \in Servers(Lists),
         Cleanup(TRUE) \/ OperatorCleanup
  PROVE  /\ dist' \in Dists(Opts, Listed) /\ workdir' \in SUBSET Listed
         /\ data' = NoData /\ server' \in Servers(Lists)
         /\ tree' \in Trees(Opts)
         /\ UNCHANGED <<dist, tree>> \/ (dist' = NoDist /\ tree' = NoTree)
         /\ ~Serving'
<1>1. /\ [server EXCEPT !.orphan = server.up] \in Servers(Lists)
      /\ [server EXCEPT !.orphan = server.up].up = server.up
      /\ [server EXCEPT !.orphan = server.up].orphan = server.up
  BY DEF Servers
<1> QED BY <1>1, NothingTyped DEF Cleanup, OperatorCleanup, Serving

(* CREATE EXTENSION adds names of its list only, however many of them fail.*)
LEMMA CreateAllBounded ==
  ASSUME NEW S, NEW list
  PROVE  CreateAll(S, list) \subseteq S \cup ToSet(list)
BY DEF CreateAll

(* custom_script_test's CREATE EXTENSION: template1 grows by its list.     *)
LEMMA CreateInTemplateEffect ==
  ASSUME NEW Lists, NEW Loads, data \in Clusters(Lists, Loads),
         NEW list, ToSet(list) \subseteq Loads, CreateInTemplate(list)
  PROVE  /\ data' \in Clusters(Lists, Loads) /\ UNCHANGED <<dist, tree, workdir, server>>
         /\ data'.present = data.present /\ data'.confs = data.confs
         /\ data'.template1 \subseteq data.template1 \cup ToSet(list)
         /\ data'.hasBench = data.hasBench /\ data'.bench = data.bench
<1> DEFINE T == CreateAll(data.template1, list)
<1>1. T \subseteq data.template1 \cup ToSet(list)
  BY CreateAllBounded
<1>2. data.template1 \in SUBSET Loads
  BY DEF Clusters
<1>3. T \in SUBSET Loads
  BY <1>1, <1>2
<1> HIDE DEF T
<1>4. /\ [data EXCEPT !.template1 = T] \in Clusters(Lists, Loads)
      /\ [data EXCEPT !.template1 = T].present = data.present
      /\ [data EXCEPT !.template1 = T].confs = data.confs
      /\ [data EXCEPT !.template1 = T].template1 = T
      /\ [data EXCEPT !.template1 = T].hasBench = data.hasBench
      /\ [data EXCEPT !.template1 = T].bench = data.bench
  BY <1>3 DEF Clusters
<1>5. data' = data \/ data' = [data EXCEPT !.template1 = T]
  BY DEF CreateInTemplate, T
<1> QED BY <1>1, <1>4, <1>5 DEF CreateInTemplate

(* pgbench_test's createdb and CREATE EXTENSION: the benchmark database    *)
(* begins as it was, or as a copy of template1, and grows by the list.     *)
LEMMA LoadBenchEffect ==
  ASSUME NEW Lists, NEW Loads, data \in Clusters(Lists, Loads),
         NEW list, ToSet(list) \subseteq Loads, LoadBench(list)
  PROVE  /\ data' \in Clusters(Lists, Loads) /\ UNCHANGED <<dist, tree, workdir, server>>
         /\ data'.present = data.present /\ data'.confs = data.confs
         /\ data'.template1 = data.template1
         /\ \/ data' = data
            \/ data'.bench \subseteq data.template1 \cup data.bench \cup ToSet(list)
<1> DEFINE start == IF data.hasBench THEN data.bench ELSE data.template1
           T == CreateAll(start, list)
<1>1. T \subseteq start \cup ToSet(list)
  BY CreateAllBounded
<1>2. data.template1 \in SUBSET Loads /\ data.bench \in SUBSET Loads
  BY DEF Clusters
<1>3. T \in SUBSET Loads /\ T \subseteq data.template1 \cup data.bench \cup ToSet(list)
  BY <1>1, <1>2
<1>5. data' = data \/ data' = [data EXCEPT !.hasBench = TRUE, !.bench = T]
  BY DEF LoadBench
<1> HIDE DEF T
<1>4. /\ [data EXCEPT !.hasBench = TRUE, !.bench = T] \in Clusters(Lists, Loads)
      /\ [data EXCEPT !.hasBench = TRUE, !.bench = T].present = data.present
      /\ [data EXCEPT !.hasBench = TRUE, !.bench = T].confs = data.confs
      /\ [data EXCEPT !.hasBench = TRUE, !.bench = T].template1 = data.template1
      /\ [data EXCEPT !.hasBench = TRUE, !.bench = T].bench = T
  BY <1>3 DEF Clusters
<1> QED BY <1>3, <1>4, <1>5 DEF LoadBench

(* dropdb empties the benchmark database or leaves it.                     *)
LEMMA DropBenchEffect ==
  ASSUME NEW Lists, NEW Loads, data \in Clusters(Lists, Loads), DropBench
  PROVE  /\ data' \in Clusters(Lists, Loads) /\ UNCHANGED <<dist, tree, workdir, server>>
         /\ data'.present = data.present /\ data'.confs = data.confs
         /\ data'.template1 = data.template1
         /\ data'.bench \subseteq data.bench
<1>1. /\ [data EXCEPT !.hasBench = FALSE, !.bench = {}] \in Clusters(Lists, Loads)
      /\ [data EXCEPT !.hasBench = FALSE, !.bench = {}].present = data.present
      /\ [data EXCEPT !.hasBench = FALSE, !.bench = {}].confs = data.confs
      /\ [data EXCEPT !.hasBench = FALSE, !.bench = {}].template1 = data.template1
      /\ [data EXCEPT !.hasBench = FALSE, !.bench = {}].bench = {}
  BY DEF Clusters
<1> QED BY <1>1 DEF DropBench
=============================================================================

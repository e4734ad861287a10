------------------------------ MODULE Folding ------------------------------
(***************************************************************************)
(* Induction for proofs about FoldLeft.  The induction theorems of the     *)
(* library speak of any predicate; these speak of sets, so that a prover   *)
(* without higher-order unification can use them: a property is proved for *)
(* the set of those numbers that have it.                                  *)
(*                                                                         *)
(* A fold is dealt with once for each operator it is used with: the        *)
(* function FoldLeft chooses exists (IteratesThere), and its value is the  *)
(* last of a series of steps (StepsOfIterate), about which a property is   *)
(* then proved by UpToInduction.  The last part has what appending and     *)
(* concatenating sequences does to their members.                          *)
(***************************************************************************)
EXTENDS Naturals, Sequences, SequencesExt, WellFoundedInduction, TLAPS

(* A set of natural numbers that is not empty has a least element.         *)
LEMMA Least ==
  ASSUME NEW T \in SUBSET Nat, T # {}
  PROVE  \E x \in T : \A y \in T : x <= y
<1> DEFINE R == OpToRel(<, Nat)
<1>1. IsWellFoundedOn(R, Nat)
  BY NatLessThanWellFounded
<1>2. \A x, y \in Nat : <<y, x>> \in R <=> y < x
  BY DEF OpToRel
<1>3. PICK x \in T : \A y \in T : ~(<<y, x>> \in R)
  <2> HIDE DEF R
  <2> QED BY <1>1, WFMin, Zenon
<1> HIDE DEF R
<1>4. ASSUME NEW y \in T PROVE x <= y
  <2>1. ~(y < x)
    BY <1>2, <1>3
  <2> QED BY <2>1
<1> QED BY <1>4

(* Induction up to n, as a statement about sets.                           *)
LEMMA UpToInduction ==
  ASSUME NEW n \in Nat, NEW T, 0 \in T, \A k \in 1 .. n : k - 1 \in T => k \in T
  PROVE  0 .. n \subseteq T
<1> DEFINE Rest == (0 .. n) \ T
<1> SUFFICES ASSUME Rest # {} PROVE FALSE
  OBVIOUS
<1>0. Rest \in SUBSET Nat
  OBVIOUS
<1>1. PICK x \in Rest : \A y \in Rest : x <= y
  <2> HIDE DEF Rest
  <2> QED BY <1>0, Least
<1>2. x # 0 /\ x - 1 \in 0 .. n /\ x \in 1 .. n /\ x - 1 \notin Rest
  BY <1>1
<1> QED BY <1>2

(* What Max returns for a set of positions.                                *)
LEMMA MaxIn ==
  ASSUME NEW n \in Nat, NEW s \in SUBSET (1 .. n), s # {}
  PROVE  Max(s) \in s /\ \A x \in s : Max(s) >= x
<1> DEFINE T == {n - x : x \in s}
<1>1. T \in SUBSET Nat /\ T # {}
  OBVIOUS
<1>2. PICK t \in T : \A y \in T : t <= y
  BY <1>1, Least
<1>3. PICK m \in s : t = n - m
  OBVIOUS
<1>4. \A x \in s : m >= x
  <2> SUFFICES ASSUME NEW x \in s PROVE m >= x
    OBVIOUS
  <2>1. n - m <= n - x
    BY <1>2, <1>3
  <2> QED BY <2>1
<1> QED BY <1>4 DEF Max

LEMMA MaxUpTo ==
  ASSUME NEW n \in Nat, NEW s \in SUBSET (1 .. n), n \in s
  PROVE  Max(s) = n
<1>1. Max(s) \in s /\ Max(s) >= n
  BY MaxIn
<1>2. Max(s) \in 1 .. n
  BY <1>1
<1> HIDE DEF Max
<1> QED BY <1>1, <1>2

-----------------------------------------------------------------------------
(* FoldLeft takes the last position off a set of positions, again and      *)
(* again.  The functions that do so, for a step given by position.         *)
Iterates(V, n, base, step) ==
  {f \in [SUBSET (1 .. n) -> V] :
     /\ f[{}] = base
     /\ \A s \in SUBSET (1 .. n) : s # {} => f[s] = step[Max(s)][f[s \ {Max(s)}]]}

(* There is one, so that the one FoldLeft chooses does so, too.            *)
LEMMA IteratesThere ==
  ASSUME NEW V, NEW n \in Nat, NEW base \in V, NEW step \in [1 .. n -> [V -> V]]
  PROVE  \E f \in Iterates(V, n, base, step) :
           \A s \in SUBSET (1 .. n) : s # {} => Max(s) \in 1 .. n /\ f[s \ {Max(s)}] \in V
<1> DEFINE T == {k \in 0 .. n : Iterates(V, k, base, step) # {}}
<1>1. 0 \in T
  <2> DEFINE f == [s \in SUBSET (1 .. 0) |-> base]
  <2>1. SUBSET (1 .. 0) = {{}}
    OBVIOUS
  <2>2. f \in Iterates(V, 0, base, step)
    BY <2>1 DEF Iterates
  <2> QED BY <2>2
<1>2. ASSUME NEW k \in 1 .. n, k - 1 \in T PROVE k \in T
  <2>1. PICK f : f \in Iterates(V, k - 1, base, step)
    BY <1>2
  <2> DEFINE g == [s \in SUBSET (1 .. k) |-> IF k \in s THEN step[k][f[s \ {k}]] ELSE f[s]]
  <2>2. \A s \in SUBSET (1 .. k) : k \notin s => s \in SUBSET (1 .. k - 1)
    OBVIOUS
  <2>3. \A s \in SUBSET (1 .. k) : s \ {k} \in SUBSET (1 .. k - 1)
    OBVIOUS
  <2>4. f \in [SUBSET (1 .. k - 1) -> V]
    BY <2>1 DEF Iterates
  <2>5. g \in [SUBSET (1 .. k) -> V]
    BY <2>2, <2>3, <2>4
  <2>6. ASSUME NEW s \in SUBSET (1 .. k), s # {}
        PROVE  g[s] = step[Max(s)][g[s \ {Max(s)}]]
    <3>1. CASE k \in s
      <4>1. Max(s) = k
        BY <3>1, MaxUpTo
      <4>2. g[s \ {k}] = f[s \ {k}]
        OBVIOUS
      <4> QED BY <3>1, <4>1, <4>2
    <3>2. CASE k \notin s
      <4>1. s \ {Max(s)} \in SUBSET (1 .. k) /\ k \notin s \ {Max(s)}
        BY <3>2
      <4>2. g[s] = f[s] /\ g[s \ {Max(s)}] = f[s \ {Max(s)}]
        BY <3>2, <4>1
      <4>3. f[s] = step[Max(s)][f[s \ {Max(s)}]]
        BY <2>1, <2>2, <2>6, <3>2 DEF Iterates
      <4> QED BY <4>2, <4>3
    <3> QED BY <3>1, <3>2
  <2>7. g[{}] = base
    BY <2>1 DEF Iterates
  <2> HIDE DEF g
  <2>8. g \in Iterates(V, k, base, step)
    BY <2>5, <2>6, <2>7 DEF Iterates
  <2> QED BY <2>8
<1>3. 0 .. n \subseteq T
  <2> HIDE DEF T
  <2> QED BY <1>1, <1>2, UpToInduction
<1>4. PICK f : f \in Iterates(V, n, base, step)
  BY <1>3
<1>5. ASSUME NEW s \in SUBSET (1 .. n), s # {}
      PROVE  Max(s) \in 1 .. n /\ f[s \ {Max(s)}] \in V
  <2>1. Max(s) \in 1 .. n
    BY <1>5, MaxIn
  <2>2. s \ {Max(s)} \in SUBSET (1 .. n)
    OBVIOUS
  <2> QED BY <1>4, <2>1, <2>2 DEF Iterates
<1> QED BY <1>4, <1>5

(* What is known of the function that FoldLeft chooses,                    *)
Iterating(V, n, base, step, iter) ==
  /\ iter[{}] = base
  /\ \A s \in SUBSET (1 .. n) : s # {} /\ iter[s \ {Max(s)}] \in V =>
       iter[s] = step[Max(s)][iter[s \ {Max(s)}]]

(* and what it amounts to: one step after the other, from the first.       *)
Steps(V, n, base, step) ==
  {h \in [0 .. n -> V] :
     h[0] = base /\ \A k \in 1 .. n : h[k] = step[k][h[k - 1]] /\ h[k - 1] \in V}

LEMMA StepsOfIterate ==
  ASSUME NEW V, NEW n \in Nat, NEW base \in V, NEW step \in [1 .. n -> [V -> V]],
         NEW iter, Iterating(V, n, base, step, iter)
  PROVE  \E h \in Steps(V, n, base, step) : iter[1 .. n] = h[n]
<1> USE DEF Iterating
<1>1. ASSUME NEW k \in 1 .. n, iter[1 .. k - 1] \in V
      PROVE  iter[1 .. k] = step[k][iter[1 .. k - 1]]
  <2>1. (1 .. k) \subseteq (1 .. n) /\ k \in 1 .. k
    OBVIOUS
  <2>2. (1 .. k) \ {k} = 1 .. k - 1
    OBVIOUS
  <2>3. Max(1 .. k) = k
    BY MaxUpTo
  <2> QED BY <1>1, <2>1, <2>2, <2>3
<1> DEFINE T == {k \in 0 .. n : iter[1 .. k] \in V}
<1>2. 1 .. 0 = {}
  OBVIOUS
<1>3. 0 \in T
  BY <1>2
<1>4. ASSUME NEW k \in 1 .. n, k - 1 \in T PROVE k \in T
  BY <1>1, <1>4
<1>5. 0 .. n \subseteq T
  <2> HIDE DEF T
  <2> QED BY <1>3, <1>4, UpToInduction
<1> DEFINE h == [k \in 0 .. n |-> iter[1 .. k]]
<1>6. h \in [0 .. n -> V]
  BY <1>5
<1>7. h[0] = base
  BY <1>2
<1>8. ASSUME NEW k \in 1 .. n PROVE h[k] = step[k][h[k - 1]] /\ h[k - 1] \in V
  <2>1. k \in 0 .. n /\ k - 1 \in 0 .. n
    OBVIOUS
  <2> QED BY <1>1, <1>5, <2>1
<1>9. iter[1 .. n] = h[n]
  OBVIOUS
<1> HIDE DEF h
<1> QED BY <1>6, <1>7, <1>8, <1>9 DEF Steps

-----------------------------------------------------------------------------
(* Sequences, one append or concatenation at a time.                       *)
LEMMA AppendFacts ==
  ASSUME NEW S, NEW s \in Seq(S), NEW x \in S
  PROVE  /\ Append(s, x) \in Seq(S)
         /\ Len(s) \in Nat /\ DOMAIN s = 1 .. Len(s)
         /\ DOMAIN Append(s, x) = 1 .. Len(s) + 1
         /\ \A i \in 1 .. Len(s) : Append(s, x)[i] = s[i]
         /\ Append(s, x)[Len(s) + 1] = x
         /\ ToSet(Append(s, x)) = ToSet(s) \cup {x}
<1>1. /\ Append(s, x) \in Seq(S)
      /\ Len(s) \in Nat /\ DOMAIN s = 1 .. Len(s)
      /\ DOMAIN Append(s, x) = 1 .. Len(s) + 1
      /\ \A i \in 1 .. Len(s) : Append(s, x)[i] = s[i]
      /\ Append(s, x)[Len(s) + 1] = x
  OBVIOUS
<1>2. ASSUME NEW y PROVE y \in ToSet(Append(s, x)) <=> y \in ToSet(s) \cup {x}
  BY <1>1 DEF ToSet
<1> QED BY <1>1, <1>2

LEMMA ConcatFacts ==
  ASSUME NEW S, NEW s \in Seq(S), NEW t \in Seq(S)
  PROVE  /\ s \o t \in Seq(S)
         /\ Len(s) \in Nat /\ DOMAIN s = 1 .. Len(s)
         /\ Len(t) \in Nat /\ DOMAIN t = 1 .. Len(t)
         /\ DOMAIN (s \o t) = 1 .. Len(s) + Len(t)
         /\ \A i \in 1 .. Len(s) : (s \o t)[i] = s[i]
         /\ \A i \in 1 .. Len(t) : (s \o t)[Len(s) + i] = t[i]
         /\ ToSet(s \o t) = ToSet(s) \cup ToSet(t)
<1>1. /\ s \o t \in Seq(S)
      /\ Len(s) \in Nat /\ DOMAIN s = 1 .. Len(s)
      /\ Len(t) \in Nat /\ DOMAIN t = 1 .. Len(t)
      /\ DOMAIN (s \o t) = 1 .. Len(s) + Len(t)
      /\ \A i \in 1 .. Len(s) : (s \o t)[i] = s[i]
      /\ \A i \in 1 .. Len(t) : (s \o t)[Len(s) + i] = t[i]
  OBVIOUS
<1>2. \A i \in 1 .. Len(s) + Len(t) : i \in 1 .. Len(s) \/ \E j \in 1 .. Len(t) : i = Len(s) + j
  <2> SUFFICES ASSUME NEW i \in 1 .. Len(s) + Len(t), i \notin 1 .. Len(s)
               PROVE  \E j \in 1 .. Len(t) : i = Len(s) + j
    OBVIOUS
  <2>1. i - Len(s) \in 1 .. Len(t) /\ i = Len(s) + (i - Len(s))
    BY <1>1
  <2> QED BY <2>1
<1>3. \A i \in 1 .. Len(s) : i \in 1 .. Len(s) + Len(t)
  BY <1>1
<1>4. \A i \in 1 .. Len(t) : Len(s) + i \in 1 .. Len(s) + Len(t)
  BY <1>1
<1>5. ASSUME NEW y PROVE y \in ToSet(s \o t) <=> y \in ToSet(s) \cup ToSet(t)
  <2>1. ASSUME y \in ToSet(s \o t) PROVE y \in ToSet(s) \cup ToSet(t)
    <3>1. PICK i \in 1 .. Len(s) + Len(t) : (s \o t)[i] = y
      BY <1>1, <2>1 DEF ToSet
    <3> QED BY <1>1, <1>2, <3>1 DEF ToSet
  <2>2. ASSUME y \in ToSet(s) PROVE y \in ToSet(s \o t)
    BY <1>1, <1>3, <2>2 DEF ToSet
  <2>3. ASSUME y \in ToSet(t) PROVE y \in ToSet(s \o t)
    BY <1>1, <1>4, <2>3 DEF ToSet
  <2> QED BY <2>1, <2>2, <2>3
<1> QED BY <1>1, <1>5

LEMMA OneMember ==
  ASSUME NEW S, NEW x \in S
  PROVE  <<x>> \in Seq(S) /\ ToSet(<<x>>) = {x} /\ Len(<<x>>) = 1 /\ <<x>>[1] = x
BY DEF ToSet

LEMMA ToSetOfPrefix ==
  ASSUME NEW S, NEW s \in Seq(S)
  PROVE  /\ ToSet(s) = {s[j] : j \in 1 .. Len(s)}
         /\ {s[j] : j \in 1 .. 0} = {}
         /\ \A k \in 1 .. Len(s) : {s[j] : j \in 1 .. k} = {s[j] : j \in 1 .. k - 1} \cup {s[k]}
<1>1. ToSet(s) = {s[j] : j \in 1 .. Len(s)}
  BY DEF ToSet
<1>2. {s[j] : j \in 1 .. 0} = {}
  OBVIOUS
<1>3. ASSUME NEW k \in 1 .. Len(s)
      PROVE  {s[j] : j \in 1 .. k} = {s[j] : j \in 1 .. k - 1} \cup {s[k]}
  <2>1. 1 .. k = (1 .. k - 1) \cup {k}
    OBVIOUS
  <2> QED BY <2>1
<1> QED BY <1>1, <1>2, <1>3
=============================================================================

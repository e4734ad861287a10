--------------------------- MODULE TuplesortProofs ---------------------------
(***************************************************************************)
(* Proofs about the memory of a sort, for every caller and all sizes: what *)
(* is put stays within workMem until it is sorted, and the slots set aside *)
(* for a merge suffice in all of its passes.                               *)
(***************************************************************************)
EXTENDS Tuplesort, Folding

(* Sequences of anything: the memory of a sort does not depend on what is  *)
(* in it.                                                                  *)
IsSeq(s) == s \in Seq(ToSet(s))

IsMem(m) == /\ m = [tuples |-> m.tuples, size |-> m.size, grow |-> m.grow,
                    live |-> m.live, tape |-> m.tape, avail |-> m.avail]
            /\ IsSeq(m.tuples)
IsTapes(t) == /\ t = [in |-> t.in, out |-> t.out, inRuns |-> t.inRuns, outRuns |-> t.outRuns,
                      dest |-> t.dest, max |-> t.max, run |-> t.run]
              /\ IsSeq(t.in) /\ IsSeq(t.out)
              /\ t.inRuns \in Int /\ t.outRuns \in Int /\ t.max \in Nat /\ t.run \in Nat
SlabTyped == /\ slab = [used |-> slab.used, free |-> slab.free, last |-> slab.last]
             /\ slab.used \in BOOLEAN /\ slab.last \in BOOLEAN /\ slab.free \in Int
Held == IF slab.last THEN 1 ELSE 0

(* While tuples are put, what is used and what is left of the memory make  *)
(* workMem up, and nothing is left owing between two calls.                *)
Lent == IF batch = 1 THEN 0 ELSE InitialSize * SlotMem
InBooks(m) ==
  /\ IsMem(m) /\ m.size \in Nat /\ m.live \in Nat /\ m.tape \in Nat /\ m.avail \in Int
  /\ m.size * SlotMem + m.live * TupleMem + m.tape + m.avail
       \in call.workMem .. call.workMem + Lent
Loading == status \in {"initial", "buildruns"} /\ pc = "idle"
LoadingInv ==
  Loading =>
    /\ InBooks(mem) /\ mem.live = Len(mem.tuples) /\ mem.avail >= 0
    /\ status = "initial" => mem.tape = 0

(* Each run goes to a tape of its own while there may be more tapes, and   *)
(* no run is empty.                                                        *)
OneRunEach(t) == /\ t.outRuns = Len(t.out) /\ t.outRuns > 0
                 /\ \A i \in DOMAIN t.out : t.out[i] # <<>> /\ Head(t.out[i]) # <<>>
Building(t) == /\ IsTapes(t) /\ t.inRuns = 0 /\ t.in = <<>>
               /\ Len(t.out) < t.max => OneRunEach(t)
BuildInv ==
  status = "buildruns" /\ pc = "idle" => Building(tapes) /\ tapes.run > 0

(* The slots are enough for each tape that is read, of this pass and the   *)
(* next: there are more of them than there may be tapes, or this pass is   *)
(* the last, since it merges the first run of each tape.                   *)
Slots == slab.free + Len(mem.tuples) + Held
MergeInv ==
  slab.used =>
    /\ IsMem(mem) /\ IsTapes(tapes)
    /\ pc = "pass" =>
         /\ mem.tuples = <<>> /\ ~slab.last
         /\ Slots > Len(tapes.in) /\ Slots > Len(tapes.out)
         /\ Slots > tapes.max \/ (tapes.inRuns = 0 /\ OneRunEach(tapes))
    /\ pc = "merge" =>
         /\ ~slab.last /\ Len(mem.tuples) <= Len(tapes.in)
         /\ Slots > Len(tapes.in) /\ Slots > Len(tapes.out)
         /\ \/ Slots > tapes.max
            \/ Len(tapes.out) = 1 /\ tapes.outRuns = 1 /\ tapes.inRuns = Len(mem.tuples)
    /\ pc = "idle" =>
         \/ status = "finalmerge" /\ Len(mem.tuples) <= Len(tapes.in) /\ Slots > Len(tapes.in)
         \/ status = "sortedontape" /\ mem.tuples = <<>> /\ Slots > 0

(* The control: only an idle sort changes hands, and only merges use slots.*)
PhaseInv ==
  /\ call \in Calls /\ batch \in Nat \ {0}
  /\ pc \in {"idle", "pass", "merge"} /\ (pc # "idle" => status = "buildruns" /\ slab.used)
  /\ SlabTyped /\ (~slab.used => slab = NoSlab)
  /\ status \in {"finalmerge", "sortedontape"} /\ call.role # "worker" => slab.used

MemoryInv == PhaseInv /\ LoadingInv /\ BuildInv /\ MergeInv

-----------------------------------------------------------------------------
(* Sequences of anything, made place by place, appended to and shortened.  *)
LEMMA MadeSeq ==
  ASSUME NEW n \in Nat, NEW f, f = [i \in 1..n |-> f[i]]
  PROVE  IsSeq(f) /\ Len(f) = n
<1>1. f \in [1..n -> ToSet(f)]
  BY DEF ToSet
<1>2. f \in Seq(ToSet(f))
  BY <1>1
<1>3. DOMAIN f = 1..n
  OBVIOUS
<1> HIDE DEF IsSeq
<1> QED BY <1>2, <1>3 DEF IsSeq

LEMMA SeqLen ==
  ASSUME NEW s, IsSeq(s)
  PROVE  Len(s) \in Nat /\ DOMAIN s = 1..Len(s) /\ s = [i \in 1..Len(s) |-> s[i]]
         /\ (s = <<>> <=> Len(s) = 0)
BY DEF IsSeq

LEMMA NoneSeq ==
  ASSUME NEW s, s = <<>>
  PROVE  IsSeq(s) /\ Len(s) = 0
<1>1. ASSUME NEW S PROVE s \in Seq(S)
  OBVIOUS
<1>2. IsSeq(s)
  BY <1>1 DEF IsSeq
<1>3. Len(s) = 0
  OBVIOUS
<1> QED BY <1>2, <1>3

LEMMA OneMoreSeq ==
  ASSUME NEW s, IsSeq(s), NEW x
  PROVE  IsSeq(Append(s, x)) /\ Len(Append(s, x)) = Len(s) + 1
         /\ \A i \in 1..Len(s) : Append(s, x)[i] = s[i]
         /\ Append(s, x)[Len(s) + 1] = x
<1> DEFINE V == ToSet(s) \cup {x}
<1>1. s \in Seq(V) /\ x \in V
  BY DEF IsSeq
<1>2. Append(s, x) \in Seq(V) /\ Len(Append(s, x)) = Len(s) + 1
      /\ (\A i \in 1..Len(s) : Append(s, x)[i] = s[i])
      /\ Append(s, x)[Len(s) + 1] = x
  <2> HIDE DEF V
  <2> QED BY <1>1
<1>3. Append(s, x) = [i \in 1..(Len(s) + 1) |-> Append(s, x)[i]]
  <2>1. \A u \in Seq(V) : u = [i \in 1..Len(u) |-> u[i]]
    <3> HIDE DEF V
    <3> QED OBVIOUS
  <2> QED BY <1>2, <2>1
<1> QED BY <1>2, <1>3, SeqLen, MadeSeq

LEMMA UpdateSeq ==
  ASSUME NEW s, IsSeq(s), NEW i, NEW x
  PROVE  IsSeq([s EXCEPT ![i] = x]) /\ Len([s EXCEPT ![i] = x]) = Len(s)
<1> DEFINE u == [s EXCEPT ![i] = x]
<1>1. u = [j \in 1..Len(s) |-> u[j]]
  BY SeqLen
<1> QED BY <1>1, SeqLen, MadeSeq

-----------------------------------------------------------------------------
(* The heap grows by one tuple, keeps its size or loses one.               *)
LEMMA HeapInsertLen ==
  ASSUME NEW dir, NEW h, IsSeq(h), NEW t
  PROVE  IsSeq(HeapInsert(dir, h, t)) /\ Len(HeapInsert(dir, h, t)) = Len(h) + 1
<1>1. HeapInsert(dir, h, t) = [i \in 1..(Len(h) + 1) |-> HeapInsert(dir, h, t)[i]]
  BY DEF HeapInsert
<1> QED BY <1>1, SeqLen, MadeSeq

LEMMA ReplaceTopLen ==
  ASSUME NEW dir, NEW h, IsSeq(h), NEW t
  PROVE  IsSeq(ReplaceTop(dir, h, t)) /\ Len(ReplaceTop(dir, h, t)) = Len(h)
<1>1. ReplaceTop(dir, h, t) = [i \in 1..Len(h) |-> ReplaceTop(dir, h, t)[i]]
  BY DEF ReplaceTop
<1> QED BY <1>1, SeqLen, MadeSeq

LEMMA DeleteTopLen ==
  ASSUME NEW dir, NEW h, IsSeq(h), Len(h) > 0
  PROVE  IsSeq(DeleteTop(dir, h)) /\ Len(DeleteTop(dir, h)) = Len(h) - 1
<1>1. CASE Len(h) = 1
  <2>1. DeleteTop(dir, h) = <<>>
    BY <1>1 DEF DeleteTop
  <2>2. IsSeq(DeleteTop(dir, h)) /\ Len(DeleteTop(dir, h)) = 0
    BY <2>1, NoneSeq
  <2> QED BY <1>1, <2>2
<1>2. CASE Len(h) # 1
  <2>1. Len(h) \in Nat /\ Len(h) - 1 \in Nat
    BY SeqLen
  <2>2. Front(h) = [i \in 1..(Len(h) - 1) |-> Front(h)[i]]
    BY <2>1 DEF Front, IsSeq
  <2>3. IsSeq(Front(h)) /\ Len(Front(h)) = Len(h) - 1
    BY <2>1, <2>2, MadeSeq
  <2> QED BY <1>2, <2>3, ReplaceTopLen DEF DeleteTop
<1> QED BY <1>1, <1>2

-----------------------------------------------------------------------------
(* Loading the heap: each tape gives one tuple at most, for one free slot, *)
(* and does give one when its next run has any.                            *)
IsLoad(b) == /\ b = [in |-> b.in, heap |-> b.heap, free |-> b.free, met |-> b.met, torn |-> b.torn]
             /\ IsSeq(b.in) /\ IsSeq(b.heap) /\ b.free \in Int

LEMMA LoadTapeEffect ==
  ASSUME NEW acc, IsLoad(acc), NEW i, NEW b, b = LoadTape(acc, i)
  PROVE  /\ IsLoad(b) /\ Len(b.in) = Len(acc.in)
         /\ \A j \in 1..Len(acc.in) : j # i => b.in[j] = acc.in[j]
         /\ b.free + Len(b.heap) = acc.free + Len(acc.heap)
         /\ Len(b.heap) = Len(acc.heap) \/ Len(b.heap) = Len(acc.heap) + 1
         /\ acc.in[i] # <<>> /\ Head(acc.in[i]) # <<>> => Len(b.heap) = Len(acc.heap) + 1
<1> DEFINE new == Tuple(Head(acc.in[i])[1], FALSE, i)
           h == HeapInsert(1, acc.heap, new)
           rest == [acc.in EXCEPT ![i] = Tail(acc.in[i])]
           shorter == [acc.in EXCEPT ![i][1] = Tail(acc.in[i][1])]
<1>0. /\ Len(acc.in) \in Nat /\ DOMAIN acc.in = 1..Len(acc.in)
      /\ Len(acc.heap) \in Nat
  BY SeqLen DEF IsLoad
<1>1. CASE acc.in[i] = <<>>
  <2>1. /\ b.in = acc.in /\ b.heap = acc.heap /\ b.free = acc.free
        /\ b = [in |-> b.in, heap |-> b.heap, free |-> b.free, met |-> b.met, torn |-> b.torn]
    BY <1>1 DEF LoadTape, IsLoad
  <2> QED BY <1>0, <1>1, <2>1 DEF IsLoad
<1>2. CASE acc.in[i] # <<>> /\ Head(acc.in[i]) = <<>>
  <2>1. /\ b.in = rest /\ b.heap = acc.heap /\ b.free = acc.free
        /\ b = [in |-> b.in, heap |-> b.heap, free |-> b.free, met |-> b.met, torn |-> b.torn]
    BY <1>2 DEF LoadTape, IsLoad
  <2>2. IsSeq(rest) /\ Len(rest) = Len(acc.in)
    BY UpdateSeq DEF IsLoad
  <2>3. \A j \in 1..Len(acc.in) : j # i => rest[j] = acc.in[j]
    BY <1>0
  <2> HIDE DEF rest
  <2> QED BY <1>0, <1>2, <2>1, <2>2, <2>3 DEF IsLoad
<1>3. CASE acc.in[i] # <<>> /\ Head(acc.in[i]) # <<>>
  <2>1. /\ b.in = shorter /\ b.heap = h /\ b.free = acc.free - 1
        /\ b = [in |-> b.in, heap |-> b.heap, free |-> b.free, met |-> b.met, torn |-> b.torn]
    BY <1>3 DEF LoadTape, IsLoad
  <2>2. IsSeq(shorter) /\ Len(shorter) = Len(acc.in)
    BY UpdateSeq DEF IsLoad
  <2>3. \A j \in 1..Len(acc.in) : j # i => shorter[j] = acc.in[j]
    BY <1>0
  <2>4. IsSeq(h) /\ Len(h) = Len(acc.heap) + 1
    BY HeapInsertLen DEF IsLoad
  <2>5. acc.free \in Int
    BY DEF IsLoad
  <2> HIDE DEF shorter, h
  <2>6. IsLoad(b)
    BY <2>1, <2>2, <2>4, <2>5 DEF IsLoad
  <2>7. b.free + Len(b.heap) = acc.free + Len(acc.heap)
    <3>1. Len(b.heap) = Len(acc.heap) + 1 /\ b.free = acc.free - 1
      BY <2>1, <2>4
    <3>2. \A x \in Int, y \in Nat : (x - 1) + (y + 1) = x + y
      OBVIOUS
    <3> QED BY <1>0, <2>5, <3>1, <3>2
  <2> QED BY <1>0, <1>3, <2>1, <2>2, <2>3, <2>4, <2>6, <2>7
<1> QED BY <1>1, <1>2, <1>3

(* The function that Folded defines exists, so it is what it says.         *)
LoadSteps(base, s, acc) ==
  acc = [i \in 0..Len(s) |->
           IF i = 0 THEN base
           ELSE CHOOSE after \in {LoadTape(before, s[i]) : before \in {acc[i - 1]}} : TRUE]

LEMMA LoadStepsThere ==
  ASSUME NEW base, NEW s, Len(s) \in Nat
  PROVE  \E acc : LoadSteps(base, s, acc)
<1> DEFINE Next1(f, i) == CHOOSE after \in {LoadTape(before, s[i]) : before \in {f[i - 1]}} : TRUE
           To(k, f) == f = [i \in 0..k |-> IF i = 0 THEN base ELSE Next1(f, i)]
           T == {k \in 0..Len(s) : \E f : To(k, f)}
<1>1. 0 \in T
  <2> DEFINE f == [i \in 0..0 |-> base]
  <2>1. To(0, f)
    OBVIOUS
  <2> HIDE DEF To
  <2> QED BY <2>1
<1>2. ASSUME NEW k \in 1..Len(s), k - 1 \in T PROVE k \in T
  <2>1. PICK f : To(k - 1, f)
    BY <1>2
  <2> DEFINE g == [i \in 0..k |-> IF i = k THEN Next1(f, k) ELSE f[i]]
  <2>2. \A i \in 0..k - 1 : g[i] = f[i]
    OBVIOUS
  <2>3. ASSUME NEW i \in 0..k PROVE g[i] = IF i = 0 THEN base ELSE Next1(g, i)
    <3>1. CASE i = 0
      BY <2>1, <3>1
    <3>2. CASE i # 0
      <4>1. g[i - 1] = f[i - 1]
        BY <2>2, <3>2
      <4>2. Next1(g, i) = Next1(f, i)
        BY <4>1
      <4>3. g[i] = Next1(f, i)
        <5>1. CASE i = k
          BY <5>1
        <5>2. CASE i # k
          BY <2>1, <3>2, <5>2
        <5> QED BY <5>1, <5>2
      <4> QED BY <3>2, <4>2, <4>3
    <3> QED BY <3>1, <3>2
  <2>4. To(k, g)
    <3>1. g = [i \in 0..k |-> g[i]]
      OBVIOUS
    <3> HIDE DEF g
    <3> QED BY <2>3, <3>1
  <2> HIDE DEF To
  <2> QED BY <2>4
<1>3. 0..Len(s) \subseteq T
  <2> HIDE DEF T
  <2> QED BY <1>1, <1>2, UpToInduction
<1>4. \E f : To(Len(s), f)
  BY <1>3
<1> QED BY <1>4 DEF LoadSteps

(* After k tapes.                                                          *)
Loaded(t, free, k, b) ==
  /\ IsLoad(b) /\ Len(b.in) = Len(t.in)
  /\ \A j \in k + 1..Len(t.in) : b.in[j] = t.in[j]
  /\ b.free + Len(b.heap) = free /\ Len(b.heap) <= k
  /\ (\A j \in 1..Len(t.in) : t.in[j] # <<>> /\ Head(t.in[j]) # <<>>) => Len(b.heap) = k

LEMMA BeginMergeEffect ==
  ASSUME NEW t, IsSeq(t.in), t.inRuns \in Int, slab.free \in Int,
         NEW b, b = BeginMerge(t)
  PROVE  /\ b = [in |-> b.in, heap |-> b.heap, free |-> b.free, met |-> b.met, torn |-> b.torn]
         /\ IsSeq(b.in) /\ IsSeq(b.heap) /\ b.free \in Int
         /\ Len(b.in) = Len(t.in)
         /\ b.free + Len(b.heap) = slab.free /\ Len(b.heap) <= Len(t.in)
         /\ t.inRuns = Len(t.in) /\ (\A j \in 1..Len(t.in) : t.in[j] # <<>> /\ Head(t.in[j]) # <<>>)
              => Len(b.heap) = t.inRuns
<1> DEFINE base == [in |-> t.in, heap |-> <<>>, free |-> slab.free, met |-> FALSE, torn |-> FALSE]
           active == MinOf(Len(t.in), t.inRuns)
           s == [i \in 1..active |-> i]
           n == Len(s)
<1>1. /\ Len(t.in) \in Nat /\ active \in Int /\ active <= Len(t.in)
      /\ (t.inRuns = Len(t.in) => active = Len(t.in))
  BY SeqLen DEF MinOf
<1>2. n \in Nat /\ (\A i \in 1..n : s[i] = i) /\ n <= Len(t.in)
      /\ (t.inRuns = Len(t.in) => n = Len(t.in))
  <2>1. CASE active \in Nat
    <3>1. n = active
      BY <2>1
    <3> QED BY <1>1, <2>1, <3>1
  <2>2. CASE active \notin Nat
    <3>1. 1..active = {}
      BY <1>1, <2>2
    <3>2. s = <<>>
      BY <3>1
    <3>3. n = 0
      BY <3>2, NoneSeq
    <3>4. active < 0
      BY <1>1, <2>2
    <3> HIDE DEF n, s, active
    <3> QED BY <1>1, <3>3, <3>4
  <2> QED BY <2>1, <2>2
<1> HIDE DEF active
<1>3. PICK f : LoadSteps(base, s, f)
  <2> HIDE DEF s, base
  <2> QED BY <1>2, LoadStepsThere
<1>4. PICK acc : LoadSteps(base, s, acc) /\ b = acc[n]
  <2> DEFINE acc == CHOOSE g : LoadSteps(base, s, g)
  <2>1. LoadSteps(base, s, acc)
    BY <1>3
  <2>2. b = acc[n]
    BY DEF BeginMerge, Folded, LoadSteps, active
  <2> HIDE DEF acc
  <2> QED BY <2>1, <2>2
<1>5. acc[0] = base /\ \A k \in 1..n : acc[k] = LoadTape(acc[k - 1], k)
  <2> HIDE DEF base
  <2>1. acc[0] = base
    <3> HIDE DEF s
    <3> QED BY <1>2, <1>4 DEF LoadSteps
  <2>2. ASSUME NEW k \in 1..n PROVE acc[k] = LoadTape(acc[k - 1], k)
    <3>1. acc[k] = CHOOSE after \in {LoadTape(before, s[k]) : before \in {acc[k - 1]}} : TRUE
      <4> HIDE DEF s
      <4> QED BY <1>2, <1>4 DEF LoadSteps
    <3>2. {LoadTape(before, s[k]) : before \in {acc[k - 1]}} = {LoadTape(acc[k - 1], s[k])}
      OBVIOUS
    <3>3. s[k] = k
      BY <1>2
    <3> HIDE DEF s
    <3>4. acc[k] = LoadTape(acc[k - 1], s[k])
      BY <3>1, <3>2
    <3> QED BY <3>3, <3>4
  <2> QED BY <2>1, <2>2
<1> DEFINE T == {k \in 0..n : Loaded(t, slab.free, k, acc[k])}
<1> HIDE DEF s, n
<1>6. 0 \in T
  <2>1. IsSeq(base.heap) /\ Len(base.heap) = 0
    BY NoneSeq
  <2>2. IsLoad(base)
    BY <2>1 DEF IsLoad
  <2> QED BY <1>1, <1>2, <1>5, <2>1, <2>2 DEF Loaded
<1>7. ASSUME NEW k \in 1..n, k - 1 \in T PROVE k \in T
  <2> DEFINE a == acc[k - 1]
             c == acc[k]
  <2>1. Loaded(t, slab.free, k - 1, a)
    BY <1>7
  <2>2. c = LoadTape(a, k)
    BY <1>5
  <2>3. k \in 1..Len(t.in) /\ k \in 0..n
    BY <1>1, <1>2
  <2> HIDE DEF a, c
  <2>4. IsLoad(a) /\ a.in[k] = t.in[k]
    BY <1>1, <2>1, <2>3 DEF Loaded
  <2>5. /\ IsLoad(c) /\ Len(c.in) = Len(a.in)
        /\ \A j \in 1..Len(a.in) : j # k => c.in[j] = a.in[j]
        /\ c.free + Len(c.heap) = a.free + Len(a.heap)
        /\ Len(c.heap) = Len(a.heap) \/ Len(c.heap) = Len(a.heap) + 1
        /\ a.in[k] # <<>> /\ Head(a.in[k]) # <<>> => Len(c.heap) = Len(a.heap) + 1
    BY <2>2, <2>4, LoadTapeEffect
  <2>6. Len(a.heap) \in Nat
    BY <2>4, SeqLen DEF IsLoad
  <2>7. \A j \in k + 1..Len(t.in) : c.in[j] = t.in[j]
    BY <1>1, <2>1, <2>3, <2>5 DEF Loaded
  <2>8. Loaded(t, slab.free, k, c)
    BY <1>1, <2>1, <2>3, <2>4, <2>5, <2>6, <2>7 DEF Loaded
  <2> QED BY <2>3, <2>8 DEF c
<1>8. 0..n \subseteq T
  <2> HIDE DEF T
  <2> QED BY <1>2, <1>6, <1>7, UpToInduction
<1>9. Loaded(t, slab.free, n, b)
  BY <1>2, <1>4, <1>8
<1>10. Len(b.heap) \in Nat
  BY <1>9, SeqLen DEF Loaded, IsLoad
<1> QED BY <1>1, <1>2, <1>9, <1>10 DEF Loaded, IsLoad

-----------------------------------------------------------------------------
(* Memory: what growing the array takes is taken from what is left.        *)
LEMMA Arithmetic ==
  /\ \A x, y \in Int : x * y \in Int
  /\ \A x, y \in Nat : x * y \in Nat
  /\ \A x, y, z \in Int : (x - y) * z = x * z - y * z
  /\ \A x, z \in Int : (x + 1) * z = x * z + z
  /\ \A x \in Int : 0 * x = 0
OBVIOUS

LEMMA CallSizes ==
  ASSUME call \in Calls, batch \in Nat \ {0}
  PROVE  /\ call.workMem \in Nat /\ InitialSize * SlotMem \in Nat /\ Lent \in Nat
         /\ call.workMem >= InitialSize * SlotMem
         /\ InitialSize \in Nat /\ SlotMem \in Nat /\ TupleMem \in Nat /\ TapeOverhead \in Nat
         /\ MergeOrder \in Nat /\ MergeOrder > 0 /\ MinOrder \in Nat /\ MinOrder > 0
<1>1. /\ InitialSize \in Nat /\ SlotMem \in Nat /\ TupleMem \in Nat /\ TapeOverhead \in Nat
      /\ TapeOverhead > 0 /\ MergeBuffer \in Nat
      /\ call \in CallType /\ call.workMem >= InitialSize * SlotMem
      /\ MinOrder \in Nat /\ MinOrder > 0 /\ MaxOrder \in Nat /\ MaxOrder >= MinOrder
  BY SortAssumption
<1>2. call.workMem \in Nat
  BY <1>1 DEF CallType
<1>3. InitialSize * SlotMem \in Nat
  BY <1>1, Arithmetic
<1>4. call.workMem \div (2 * TapeOverhead + MergeBuffer) \in Int
  <2>1. 2 * TapeOverhead + MergeBuffer \in Nat /\ 2 * TapeOverhead + MergeBuffer > 0
    BY <1>1
  <2> QED BY <1>2, <2>1
<1>5. MergeOrder \in Nat /\ MergeOrder > 0
  BY <1>1, <1>4 DEF MergeOrder, MinOf, MaxOf
<1> QED BY <1>1, <1>2, <1>3, <1>5 DEF Lent

LEMMA GrowMemtuplesEffect ==
  ASSUME call \in Calls, batch \in Nat \ {0}, NEW m, InBooks(m), NEW g, g = GrowMemtuples(m)
  PROVE  InBooks(g) /\ g.tuples = m.tuples /\ g.live = m.live /\ g.tape = m.tape
         /\ (g.avail >= 0 \/ g.avail = m.avail)
<1> DEFINE used == call.workMem - m.avail
           doubling == used <= m.avail
           size == IF doubling THEN 2 * m.size ELSE (m.size * call.workMem) \div used
           fits == size > m.size /\ m.avail >= (size - m.size) * SlotMem
<1>0. /\ call.workMem \in Nat /\ SlotMem \in Nat /\ TupleMem \in Nat /\ Lent \in Nat
      /\ m.size \in Nat /\ m.live \in Nat /\ m.tape \in Nat /\ m.avail \in Int
  BY CallSizes DEF InBooks
<1>1. CASE m.grow /\ fits
  <2>1. size \in Nat
    <3>1. CASE doubling
      BY <1>0, <3>1
    <3>2. CASE ~doubling
      <4>1. used \in Nat /\ used > 0
        BY <1>0, <3>2
      <4>2. m.size * call.workMem \in Nat
        BY <1>0, Arithmetic
      <4>3. (m.size * call.workMem) \div used \in Int
        <5> HIDE DEF used
        <5> QED BY <4>1, <4>2
      <4>4. size \in Int
        BY <3>2, <4>3
      <4> HIDE DEF size
      <4> QED BY <1>0, <1>1, <4>4
    <3> QED BY <3>1, <3>2
  <2>2. /\ g.tuples = m.tuples /\ g.size = size /\ g.live = m.live /\ g.tape = m.tape
        /\ g.avail = m.avail - (size - m.size) * SlotMem
        /\ g = [tuples |-> g.tuples, size |-> g.size, grow |-> g.grow,
                live |-> g.live, tape |-> g.tape, avail |-> g.avail]
    <3>1. g = [m EXCEPT !.size = size, !.avail = @ - (size - m.size) * SlotMem, !.grow = doubling]
      BY <1>1 DEF GrowMemtuples
    <3> HIDE DEF size, doubling, fits, used
    <3> QED BY <3>1 DEF InBooks, IsMem
  <2> DEFINE more == (size - m.size) * SlotMem
             slots == m.size * SlotMem
             tuples == m.live * TupleMem
  <2>3. slots \in Nat /\ tuples \in Nat /\ more \in Int /\ size * SlotMem = slots + more
    <3> HIDE DEF size, doubling, fits, used
    <3> QED BY <1>0, <2>1, Arithmetic
  <2>4. m.avail >= more
    BY <1>1
  <2>5. slots + tuples + m.tape + m.avail \in call.workMem .. call.workMem + Lent
    BY DEF InBooks
  <2>6. g.size * SlotMem = slots + more /\ g.live * TupleMem = tuples /\ g.avail = m.avail - more
    <3> HIDE DEF size
    <3> QED BY <2>2, <2>3
  <2> HIDE DEF size, doubling, fits, used, more, slots, tuples
  <2>7. g.avail >= 0 /\ g.avail \in Int
    BY <1>0, <2>3, <2>4, <2>6
  <2>8. g.size * SlotMem + g.live * TupleMem + g.tape + g.avail
          \in call.workMem .. call.workMem + Lent
    <3>1. (slots + more) + tuples + m.tape + (m.avail - more) = slots + tuples + m.tape + m.avail
      BY <1>0, <2>3
    <3> QED BY <2>2, <2>5, <2>6, <3>1
  <2> QED BY <1>0, <2>1, <2>2, <2>7, <2>8 DEF InBooks, IsMem
<1>2. CASE ~(m.grow /\ fits)
  <2>1. g = [m EXCEPT !.grow = FALSE]
    BY <1>2 DEF GrowMemtuples
  <2>2. /\ g.tuples = m.tuples /\ g.size = m.size /\ g.live = m.live /\ g.tape = m.tape
        /\ g.avail = m.avail
        /\ g = [tuples |-> g.tuples, size |-> g.size, grow |-> g.grow,
                live |-> g.live, tape |-> g.tape, avail |-> g.avail]
    BY <2>1 DEF InBooks, IsMem
  <2> QED BY <2>2 DEF InBooks, IsMem
<1> QED BY <1>1, <1>2

(* A tuple that is put: freeing the tuples would pay for it.               *)
Payable(m) == InBooks(m) /\ m.live = Len(m.tuples) /\ m.avail + m.live * TupleMem >= 0

LEMMA StoredEffect ==
  ASSUME call \in Calls, batch \in Nat \ {0}, NEW k, NEW abort,
         NEW c, InBooks(c), c.live = Len(c.tuples) + 1, c.avail + c.live * TupleMem >= 0,
         NEW m, m = Stored(k, abort, c)
  PROVE  Payable(m) /\ Len(m.tuples) > 0 /\ m.tape = c.tape
<1> DEFINE x == Tuple(k, JudgedKeys(abort).abbrev, 0)
           ts == Append(c.tuples, x)
<1>1. IsSeq(ts) /\ Len(ts) = Len(c.tuples) + 1 /\ Len(c.tuples) \in Nat
  BY OneMoreSeq, SeqLen DEF InBooks, IsMem
<1>2. /\ m.tuples = ts /\ m.size = c.size /\ m.live = c.live /\ m.tape = c.tape
      /\ m.avail = c.avail
      /\ m = [tuples |-> m.tuples, size |-> m.size, grow |-> m.grow,
              live |-> m.live, tape |-> m.tape, avail |-> m.avail]
  BY DEF Stored, InBooks, IsMem
<1> HIDE DEF ts
<1>3. InBooks(m)
  BY <1>1, <1>2 DEF InBooks, IsMem
<1> QED BY <1>1, <1>2, <1>3 DEF Payable

LEMMA CopiedMemEffect ==
  ASSUME call \in Calls, batch \in Nat \ {0}, InBooks(mem), mem.live = Len(mem.tuples),
         mem.avail >= 0, NEW abort \in BOOLEAN, NEW c, c = CopiedMem(abort)
  PROVE  /\ InBooks(c) /\ c.live = Len(c.tuples) + 1 /\ Len(c.tuples) = Len(mem.tuples)
         /\ c.avail + c.live * TupleMem >= 0 /\ c.tape = mem.tape
<1> DEFINE ts == IF abort THEN Unabbreviated(mem.tuples) ELSE mem.tuples
<1>0. /\ call.workMem \in Nat /\ SlotMem \in Nat /\ TupleMem \in Nat /\ Lent \in Nat
      /\ mem.size \in Nat /\ mem.live \in Nat /\ mem.tape \in Nat /\ mem.avail \in Int
  BY CallSizes DEF InBooks
<1>1. IsSeq(ts) /\ Len(ts) = Len(mem.tuples)
  <2>1. IsSeq(mem.tuples)
    BY DEF InBooks, IsMem
  <2>2. CASE abort
    <3>1. Unabbreviated(mem.tuples) = [i \in 1..Len(mem.tuples) |-> Unabbreviated(mem.tuples)[i]]
      BY <2>1, SeqLen DEF Unabbreviated
    <3> QED BY <2>1, <2>2, <3>1, SeqLen, MadeSeq
  <2>3. CASE ~abort
    BY <2>1, <2>3
  <2> QED BY <2>2, <2>3
<1>2. /\ c.tuples = ts /\ c.size = mem.size /\ c.live = mem.live + 1 /\ c.tape = mem.tape
      /\ c.avail = mem.avail - TupleMem
      /\ c = [tuples |-> c.tuples, size |-> c.size, grow |-> c.grow,
              live |-> c.live, tape |-> c.tape, avail |-> c.avail]
  <2>1. mem = [tuples |-> mem.tuples, size |-> mem.size, grow |-> mem.grow,
               live |-> mem.live, tape |-> mem.tape, avail |-> mem.avail]
    BY DEF InBooks, IsMem
  <2>2. c = [mem EXCEPT !.tuples = ts, !.avail = @ - TupleMem, !.live = @ + 1]
    BY <2>1 DEF CopiedMem, ChargeTuple
  <2> HIDE DEF ts
  <2> QED BY <2>1, <2>2
<1> HIDE DEF ts
<1>3. IsSeq(c.tuples) /\ c.live = Len(c.tuples) + 1 /\ Len(c.tuples) = Len(mem.tuples)
  BY <1>1, <1>2
<1> DEFINE slots == mem.size * SlotMem
           tuples == mem.live * TupleMem
<1>4. slots \in Nat /\ tuples \in Nat
  BY <1>0, Arithmetic
<1>5. c.live * TupleMem = tuples + TupleMem
  <2>1. (mem.live + 1) * TupleMem = mem.live * TupleMem + TupleMem
    BY <1>0, Arithmetic
  <2> QED BY <1>2, <2>1
<1>6. slots + tuples + mem.tape + mem.avail \in call.workMem .. call.workMem + Lent
  BY DEF InBooks
<1>7. c.size * SlotMem = slots
  BY <1>2
<1> HIDE DEF slots, tuples
<1>8. c.avail + c.live * TupleMem >= 0
  <2>1. (mem.avail - TupleMem) + (tuples + TupleMem) >= 0
    BY <1>0, <1>4
  <2> QED BY <1>2, <1>5, <2>1
<1>9. c.size * SlotMem + c.live * TupleMem + c.tape + c.avail
        \in call.workMem .. call.workMem + Lent
  <2>1. slots + (tuples + TupleMem) + mem.tape + (mem.avail - TupleMem)
          = slots + tuples + mem.tape + mem.avail
    BY <1>0, <1>4
  <2> QED BY <1>2, <1>5, <1>6, <1>7, <2>1
<1>10. c.live \in Nat /\ c.avail \in Int
  BY <1>0, <1>2
<1>11. InBooks(c)
  BY <1>0, <1>2, <1>3, <1>9, <1>10 DEF InBooks, IsMem
<1> QED BY <1>2, <1>3, <1>8, <1>11

LEMMA StoredInitialEffect ==
  ASSUME call \in Calls, batch \in Nat \ {0}, InBooks(mem), mem.live = Len(mem.tuples),
         mem.avail >= 0, NEW k, NEW abort \in BOOLEAN, NEW m, m = StoredInitial(k, abort)
  PROVE  Payable(m) /\ Len(m.tuples) > 0 /\ m.tape = mem.tape
<1> DEFINE c == CopiedMem(abort)
           g == GrowMemtuples(c)
<1>1. /\ InBooks(c) /\ c.live = Len(c.tuples) + 1 /\ Len(c.tuples) = Len(mem.tuples)
      /\ c.avail + c.live * TupleMem >= 0 /\ c.tape = mem.tape
  <2> HIDE DEF c
  <2> QED BY CopiedMemEffect DEF c
<1>2. /\ InBooks(g) /\ g.tuples = c.tuples /\ g.live = c.live /\ g.tape = c.tape
      /\ (g.avail >= 0 \/ g.avail = c.avail)
  <2> HIDE DEF c, g
  <2> QED BY <1>1, GrowMemtuplesEffect DEF g
<1>3. g.avail + g.live * TupleMem >= 0
  <2>1. g.live \in Nat /\ TupleMem \in Nat /\ g.avail \in Int
    BY <1>2, CallSizes DEF InBooks
  <2>2. g.live * TupleMem \in Nat
    BY <2>1, Arithmetic
  <2>3. CASE g.avail >= 0
    <3>1. \A x \in Int, y \in Nat : x >= 0 => x + y >= 0
      OBVIOUS
    <3> QED BY <2>1, <2>2, <2>3, <3>1
  <2>4. CASE g.avail = c.avail
    BY <1>1, <1>2, <2>4
  <2> QED BY <1>2, <2>3, <2>4
<1>4. m = Stored(k, abort, g) \/ m = Stored(k, abort, c)
  BY DEF StoredInitial
<1> HIDE DEF c, g
<1> QED BY <1>1, <1>2, <1>3, <1>4, StoredEffect
-----------------------------------------------------------------------------
(* Writing a run frees its tuples, which pays what is owing; a run that is *)
(* written has a key, and a tape of its own while there may be more tapes. *)
LEMMA ReserveTapesEffect ==
  ASSUME call \in Calls, batch \in Nat \ {0}, NEW m, Payable(m), m.tape = 0,
         NEW order \in Nat, NEW r, r = ReserveTapes(m, order)
  PROVE  Payable(r) /\ r.tuples = m.tuples /\ r.size = m.size /\ r.avail <= m.avail
<1>0. /\ call.workMem \in Nat /\ SlotMem \in Nat /\ TupleMem \in Nat /\ Lent \in Nat
      /\ TapeOverhead \in Nat
      /\ m.size \in Nat /\ m.live \in Nat /\ m.avail \in Int
  BY CallSizes DEF Payable, InBooks
<1> DEFINE tapeMem == order * TapeOverhead
           slots == m.size * SlotMem
           tuples == m.live * TupleMem
<1>1. tapeMem \in Nat /\ slots \in Nat /\ tuples \in Nat
  BY <1>0, Arithmetic
<1>2. slots + tuples + 0 + m.avail \in call.workMem .. call.workMem + Lent
  BY DEF Payable, InBooks
<1>3. CASE tapeMem + slots < call.workMem
  <2>1. r = [m EXCEPT !.avail = @ - tapeMem, !.tape = tapeMem]
    BY <1>3 DEF ReserveTapes
  <2> HIDE DEF tapeMem
  <2>2. /\ r.tuples = m.tuples /\ r.size = m.size /\ r.live = m.live /\ r.tape = tapeMem
        /\ r.avail = m.avail - tapeMem
        /\ r = [tuples |-> r.tuples, size |-> r.size, grow |-> r.grow,
                live |-> r.live, tape |-> r.tape, avail |-> r.avail]
    BY <2>1 DEF Payable, InBooks, IsMem
  <2>3. r.size * SlotMem = slots /\ r.live * TupleMem = tuples
    BY <2>2
  <2> HIDE DEF slots, tuples
  <2>4. r.avail + r.live * TupleMem >= 0
    <3>1. (m.avail - tapeMem) + tuples >= 0
      BY <1>0, <1>1, <1>2, <1>3
    <3> QED BY <2>2, <2>3, <3>1
  <2>5. r.size * SlotMem + r.live * TupleMem + r.tape + r.avail
          \in call.workMem .. call.workMem + Lent
    <3>1. slots + tuples + tapeMem + (m.avail - tapeMem) = slots + tuples + 0 + m.avail
      BY <1>0, <1>1
    <3> QED BY <1>2, <2>2, <2>3, <3>1
  <2>6. r.avail \in Int /\ r.avail <= m.avail
    BY <1>0, <1>1, <2>2
  <2>7. InBooks(r)
    BY <1>0, <1>1, <2>2, <2>5, <2>6 DEF Payable, InBooks, IsMem
  <2> QED BY <2>2, <2>4, <2>6, <2>7 DEF Payable
<1>4. CASE ~(tapeMem + slots < call.workMem)
  <2>1. r = m
    BY <1>4 DEF ReserveTapes
  <2> QED BY <1>0, <2>1
<1> QED BY <1>3, <1>4

LEMMA DumpedMemEffect ==
  ASSUME call \in Calls, batch \in Nat \ {0}, NEW m, Payable(m), NEW d, d = DumpedMem(m)
  PROVE  InBooks(d) /\ d.live = Len(d.tuples) /\ d.avail >= 0
<1>0. /\ call.workMem \in Nat /\ SlotMem \in Nat /\ TupleMem \in Nat /\ Lent \in Nat
      /\ m.size \in Nat /\ m.live \in Nat /\ m.tape \in Nat /\ m.avail \in Int
  BY CallSizes DEF Payable, InBooks
<1> DEFINE slots == m.size * SlotMem
           tuples == m.live * TupleMem
<1>1. slots \in Nat /\ tuples \in Nat
  BY <1>0, Arithmetic
<1>2. slots + tuples + m.tape + m.avail \in call.workMem .. call.workMem + Lent
      /\ m.avail + tuples >= 0
  BY DEF Payable, InBooks
<1>3. d = [m EXCEPT !.tuples = <<>>, !.avail = @ + tuples, !.live = 0]
  BY DEF DumpedMem, Payable
<1> HIDE DEF tuples
<1>4. /\ d.tuples = <<>> /\ d.size = m.size /\ d.live = 0 /\ d.tape = m.tape
      /\ d.avail = m.avail + tuples
      /\ d = [tuples |-> d.tuples, size |-> d.size, grow |-> d.grow,
              live |-> d.live, tape |-> d.tape, avail |-> d.avail]
  BY <1>3 DEF Payable, InBooks, IsMem
<1>5. IsSeq(d.tuples) /\ Len(d.tuples) = 0
  BY <1>4, NoneSeq
<1>6. d.size * SlotMem = slots /\ d.live * TupleMem = 0
  BY <1>0, <1>4, Arithmetic
<1> HIDE DEF slots
<1>7. d.avail \in Int /\ d.avail >= 0
  BY <1>0, <1>1, <1>2, <1>4
<1>8. d.size * SlotMem + d.live * TupleMem + d.tape + d.avail
        \in call.workMem .. call.workMem + Lent
  <2>1. slots + 0 + m.tape + (m.avail + tuples) = slots + tuples + m.tape + m.avail
    BY <1>0, <1>1
  <2> QED BY <1>2, <1>4, <1>6, <2>1
<1>9. InBooks(d)
  BY <1>0, <1>4, <1>5, <1>7, <1>8 DEF InBooks, IsMem
<1> QED BY <1>4, <1>5, <1>7, <1>9

LEMMA SortedKeysLen ==
  ASSUME NEW ts, IsSeq(ts), Len(ts) > 0
  PROVE  SortedKeys(KeysOf(ts)) # <<>>
<1> DEFINE ks == KeysOf(ts)
           n == Len(ts)
<1>1. n \in Nat /\ DOMAIN ts = 1..n
  BY SeqLen
<1>2. ks = [i \in 1..n |-> ts[i].key]
  BY <1>1 DEF KeysOf
<1>3. IsSeq(ks) /\ Len(ks) = n
  <2>1. ks = [i \in 1..n |-> ks[i]]
    BY <1>2
  <2> HIDE DEF ks, n
  <2> QED BY <1>1, <2>1, MadeSeq
<1>4. SortedKeys(ks) = [i \in 1..Len(ks) |-> SortedKeys(ks)[i]]
  <2> HIDE DEF ks
  <2> DEFINE nth(i) ==
               CHOOSE k \in ToSet(ks) : i \in Cardinality({j \in DOMAIN ks : ks[j] < k}) + 1
                                            .. Cardinality({j \in DOMAIN ks : ks[j] <= k})
  <2>1. SortedKeys(ks) = [i \in 1..Len(ks) |-> nth(i)]
    BY DEF SortedKeys
  <2> HIDE DEF nth
  <2> QED BY <2>1
<1> HIDE DEF ks
<1>5. Len(SortedKeys(ks)) = n
  BY <1>1, <1>3, <1>4, MadeSeq
<1>6. SortedKeys(ks) # <<>>
  BY <1>5, NoneSeq
<1> QED BY <1>6 DEF ks

LEMMA SelectNewTapeEffect ==
  ASSUME NEW t, IsTapes(t), NEW u, u = SelectNewTape(t)
  PROVE  /\ IsTapes(u) /\ u.in = t.in /\ u.inRuns = t.inRuns /\ u.max = t.max
         /\ u.run = t.run /\ u.outRuns = t.outRuns + 1
         /\ IF Len(t.out) < t.max
              THEN u.out = Append(t.out, <<>>) /\ u.dest = Len(t.out) + 1
                   /\ Len(u.out) = Len(t.out) + 1
              ELSE u.out = t.out
<1> DEFINE more == Append(t.out, <<>>)
<1>0. IsSeq(more) /\ Len(more) = Len(t.out) + 1
  BY OneMoreSeq DEF IsTapes
<1>1. CASE Len(t.out) < t.max
  <2>1. u = [t EXCEPT !.out = more, !.dest = Len(t.out) + 1, !.outRuns = @ + 1]
    BY <1>1 DEF SelectNewTape, IsTapes
  <2> HIDE DEF more
  <2>2. /\ u.in = t.in /\ u.out = more /\ u.inRuns = t.inRuns /\ u.max = t.max
        /\ u.run = t.run /\ u.outRuns = t.outRuns + 1 /\ u.dest = Len(t.out) + 1
        /\ u = [in |-> u.in, out |-> u.out, inRuns |-> u.inRuns, outRuns |-> u.outRuns,
                dest |-> u.dest, max |-> u.max, run |-> u.run]
    BY <2>1 DEF IsTapes
  <2>3. IsTapes(u)
    BY <1>0, <2>2 DEF IsTapes
  <2> QED BY <1>0, <1>1, <2>2, <2>3 DEF more
<1>2. CASE ~(Len(t.out) < t.max)
  <2> DEFINE turn == (t.outRuns % Len(t.out)) + 1
  <2>1. u = [t EXCEPT !.dest = turn, !.outRuns = @ + 1]
    BY <1>2 DEF SelectNewTape
  <2> HIDE DEF turn
  <2>2. /\ u.in = t.in /\ u.out = t.out /\ u.inRuns = t.inRuns /\ u.max = t.max
        /\ u.run = t.run /\ u.outRuns = t.outRuns + 1
        /\ u = [in |-> u.in, out |-> u.out, inRuns |-> u.inRuns, outRuns |-> u.outRuns,
                dest |-> u.dest, max |-> u.max, run |-> u.run]
    BY <2>1 DEF IsTapes
  <2>3. IsTapes(u)
    BY <2>2 DEF IsTapes
  <2> QED BY <1>2, <2>2, <2>3
<1> QED BY <1>1, <1>2

LEMMA InitTapesEffect ==
  ASSUME NEW order \in Nat, order > 0, NEW t, t = InitTapes(order)
  PROVE  /\ IsTapes(t) /\ t.in = <<>> /\ t.inRuns = 0 /\ t.max = order /\ t.run = 0
         /\ t.outRuns = 1 /\ Len(t.out) = 1 /\ t.dest = 1 /\ t.out[1] = <<>>
<1> DEFINE none == [NoTapes EXCEPT !.max = order]
<1>1. /\ none.in = <<>> /\ none.out = <<>> /\ none.inRuns = 0 /\ none.outRuns = 0
      /\ none.max = order /\ none.run = 0
      /\ none = [in |-> none.in, out |-> none.out, inRuns |-> none.inRuns,
                 outRuns |-> none.outRuns, dest |-> none.dest, max |-> none.max,
                 run |-> none.run]
  BY DEF NoTapes
<1>2. t = SelectNewTape(none)
  BY DEF InitTapes
<1> HIDE DEF none
<1>3. IsSeq(none.in) /\ IsSeq(none.out) /\ Len(none.out) = 0
  BY <1>1, NoneSeq
<1>4. IsTapes(none)
  BY <1>1, <1>3 DEF IsTapes
<1>5. /\ IsTapes(t) /\ t.in = none.in /\ t.inRuns = none.inRuns /\ t.max = order
      /\ t.run = 0 /\ t.outRuns = 1 /\ t.out = Append(none.out, <<>>)
      /\ Len(t.out) = 1 /\ t.dest = 1
  <2>1. Len(none.out) < none.max
    BY <1>1, <1>3
  <2>2. /\ IsTapes(t) /\ t.in = none.in /\ t.inRuns = none.inRuns /\ t.max = none.max
        /\ t.run = none.run /\ t.outRuns = none.outRuns + 1
        /\ t.out = Append(none.out, <<>>) /\ t.dest = Len(none.out) + 1
        /\ Len(t.out) = Len(none.out) + 1
    BY <1>2, <1>4, <2>1, SelectNewTapeEffect
  <2> QED BY <1>1, <1>3, <2>2
<1>6. t.out[1] = <<>>
  BY <1>3, <1>5, OneMoreSeq
<1> QED BY <1>1, <1>5, <1>6

(* The run ks is written to the tape dest, one that was added for it while *)
(* there may be more.                                                      *)
LEMMA RunWritten ==
  ASSUME NEW t, IsTapes(t), t.inRuns = 0, t.in = <<>>, NEW ks, ks # <<>>,
         Len(t.out) < t.max =>
           /\ t.outRuns = Len(t.out) /\ t.dest = Len(t.out) /\ t.outRuns > 0
           /\ t.out[t.dest] = <<>>
           /\ \A i \in 1..Len(t.out) - 1 : t.out[i] # <<>> /\ Head(t.out[i]) # <<>>,
         NEW u, u = [t EXCEPT !.run = @ + 1, !.out[t.dest] = Append(@, ks)]
  PROVE  Building(u) /\ u.run > 0
<1> DEFINE out == [t.out EXCEPT ![t.dest] = Append(@, ks)]
<1>1. IsSeq(out) /\ Len(out) = Len(t.out)
  <2>1. IsSeq(t.out)
    BY DEF IsTapes
  <2>2. out = [t.out EXCEPT ![t.dest] = Append(t.out[t.dest], ks)]
    BY <2>1, SeqLen
  <2> HIDE DEF out
  <2> QED BY <2>1, <2>2, UpdateSeq
<1>2. Len(t.out) < t.max => OneRunEach([t EXCEPT !.out = out])
  <2> SUFFICES ASSUME Len(t.out) < t.max
               PROVE  /\ t.outRuns = Len(out) /\ t.outRuns > 0
                      /\ \A i \in DOMAIN out : out[i] # <<>> /\ Head(out[i]) # <<>>
    BY DEF OneRunEach, IsTapes
  <2> DEFINE one == Append(t.out[t.dest], ks)
  <2>1. one # <<>> /\ Head(one) # <<>>
    <3>1. \A e, k : e = <<>> => Append(e, k) # <<>> /\ Head(Append(e, k)) = k
      OBVIOUS
    <3> QED BY <3>1
  <2>2. DOMAIN t.out = 1..Len(t.out) /\ DOMAIN out = 1..Len(t.out) /\ Len(t.out) \in Nat
    BY <1>1, SeqLen DEF IsTapes
  <2>3. ASSUME NEW i \in 1..Len(t.out) PROVE out[i] = IF i = t.dest THEN one ELSE t.out[i]
    BY <2>2
  <2> HIDE DEF out, one
  <2> QED BY <1>1, <2>1, <2>2, <2>3
<1>3. u = [t EXCEPT !.run = @ + 1, !.out = out]
  BY DEF IsTapes
<1> HIDE DEF out
<1>4. /\ u.in = t.in /\ u.out = out /\ u.inRuns = t.inRuns /\ u.max = t.max
      /\ u.outRuns = t.outRuns /\ u.run = t.run + 1
      /\ u = [in |-> u.in, out |-> u.out, inRuns |-> u.inRuns, outRuns |-> u.outRuns,
              dest |-> u.dest, max |-> u.max, run |-> u.run]
  BY <1>3 DEF IsTapes
<1>5. IsTapes(u) /\ u.run > 0
  <2>1. /\ IsSeq(t.in) /\ t.inRuns \in Int /\ t.outRuns \in Int /\ t.max \in Nat
        /\ t.run \in Nat
    BY DEF IsTapes
  <2>2. IsSeq(u.in) /\ IsSeq(u.out)
    BY ONLY <1>1, <1>4, <2>1
  <2>3. u.inRuns \in Int /\ u.outRuns \in Int /\ u.max \in Nat /\ u.run \in Nat /\ u.run > 0
    BY ONLY <1>4, <2>1
  <2> QED BY ONLY <1>4, <2>2, <2>3 DEF IsTapes
<1>6. OneRunEach([t EXCEPT !.out = out]) => OneRunEach(u)
  BY <1>4 DEF OneRunEach, IsTapes
<1> QED BY <1>1, <1>2, <1>4, <1>5, <1>6 DEF Building

LEMMA DumpedTapesEffect ==
  ASSUME NEW m, IsSeq(m.tuples), Len(m.tuples) > 0, NEW t, Building(t), t.run > 0,
         NEW u, u = DumpedTapes(m, t)
  PROVE  Building(u) /\ u.run > 0
<1> DEFINE t1 == SelectNewTape(t)
           ks == SortedKeys(KeysOf(m.tuples))
<1>1. ks # <<>>
  BY SortedKeysLen
<1>2. u = [t1 EXCEPT !.run = @ + 1, !.out[t1.dest] = Append(@, ks)]
  BY DEF DumpedTapes
<1> HIDE DEF ks
<1>3. /\ IsTapes(t1) /\ t1.in = <<>> /\ t1.inRuns = 0 /\ t1.max = t.max
      /\ t1.outRuns = t.outRuns + 1
      /\ IF Len(t.out) < t.max
           THEN t1.out = Append(t.out, <<>>) /\ t1.dest = Len(t.out) + 1
                /\ Len(t1.out) = Len(t.out) + 1
           ELSE t1.out = t.out
  <2> HIDE DEF t1
  <2> QED BY SelectNewTapeEffect DEF t1, Building
<1> HIDE DEF t1
<1>4. Len(t1.out) < t1.max =>
        /\ t1.outRuns = Len(t1.out) /\ t1.dest = Len(t1.out) /\ t1.outRuns > 0
        /\ t1.out[t1.dest] = <<>>
        /\ \A i \in 1..Len(t1.out) - 1 : t1.out[i] # <<>> /\ Head(t1.out[i]) # <<>>
  <2> SUFFICES ASSUME Len(t1.out) < t1.max
               PROVE  /\ t1.outRuns = Len(t1.out) /\ t1.dest = Len(t1.out) /\ t1.outRuns > 0
                      /\ t1.out[t1.dest] = <<>>
                      /\ \A i \in 1..Len(t1.out) - 1 :
                           t1.out[i] # <<>> /\ Head(t1.out[i]) # <<>>
    OBVIOUS
  <2>1. IsSeq(t.out) /\ Len(t.out) \in Nat /\ DOMAIN t.out = 1..Len(t.out) /\ t.max \in Nat
    BY SeqLen DEF Building, IsTapes
  <2>2. Len(t.out) < t.max
    BY <1>3, <2>1
  <2>3. OneRunEach(t) /\ t1.out = Append(t.out, <<>>) /\ t1.dest = Len(t.out) + 1
        /\ Len(t1.out) = Len(t.out) + 1
    BY <1>3, <2>2 DEF Building
  <2>4. t1.out[t1.dest] = <<>> /\ \A i \in 1..Len(t.out) : t1.out[i] = t.out[i]
    BY <2>1, <2>3, OneMoreSeq
  <2>5. 1..Len(t1.out) - 1 = 1..Len(t.out)
    BY <2>1, <2>3
  <2>6. \A i \in 1..Len(t1.out) - 1 : t1.out[i] # <<>> /\ Head(t1.out[i]) # <<>>
    BY <2>1, <2>3, <2>4, <2>5 DEF OneRunEach
  <2>7. t1.outRuns = Len(t1.out) /\ t1.dest = Len(t1.out) /\ t1.outRuns > 0
    BY <1>3, <2>1, <2>3 DEF OneRunEach
  <2> QED BY <2>4, <2>6, <2>7
<1> QED BY <1>1, <1>2, <1>3, <1>4, RunWritten

LEMMA FirstRunEffect ==
  ASSUME NEW m, IsSeq(m.tuples), Len(m.tuples) > 0, NEW order \in Nat, order > 0,
         NEW u, u = DumpedTapes(m, InitTapes(order))
  PROVE  Building(u) /\ u.run > 0
<1> DEFINE t == InitTapes(order)
           ks == SortedKeys(KeysOf(m.tuples))
<1>1. ks # <<>>
  BY SortedKeysLen
<1>2. /\ IsTapes(t) /\ t.in = <<>> /\ t.inRuns = 0 /\ t.max = order /\ t.run = 0
      /\ t.outRuns = 1 /\ Len(t.out) = 1 /\ t.dest = 1 /\ t.out[1] = <<>>
  <2> HIDE DEF t
  <2> QED BY InitTapesEffect DEF t
<1>3. u = [t EXCEPT !.run = @ + 1, !.out[t.dest] = Append(@, ks)]
  <2>1. ~(t.run > 0)
    BY <1>2
  <2> HIDE DEF t
  <2> QED BY <2>1 DEF DumpedTapes, t
<1> HIDE DEF t, ks
<1>4. \A i \in 1..Len(t.out) - 1 : t.out[i] # <<>> /\ Head(t.out[i]) # <<>>
  BY <1>2
<1>5. t.outRuns = Len(t.out) /\ t.dest = Len(t.out) /\ t.outRuns > 0 /\ t.out[t.dest] = <<>>
  BY <1>2
<1> QED BY ONLY <1>1, <1>2, <1>3, <1>4, <1>5, RunWritten

(* The first run is written for lack of memory, a later one as well or at  *)
(* the end.                                                                *)
LEMMA SpillEffect ==
  ASSUME call \in Calls, batch \in Nat \ {0}, NEW m, Payable(m), m.tape = 0,
         Len(m.tuples) > 0, ~StillFits(m), NEW order \in Nat, order > 0,
         NEW d, d = Dumped(ReserveTapes(m, order), InitTapes(order), FALSE)
  PROVE  /\ InBooks(d.mem) /\ d.mem.live = Len(d.mem.tuples) /\ d.mem.avail >= 0
         /\ Building(d.tapes) /\ d.tapes.run > 0
<1> DEFINE r == ReserveTapes(m, order)
           t == InitTapes(order)
<1>1. Payable(r) /\ r.tuples = m.tuples /\ r.size = m.size /\ r.avail <= m.avail
  <2> HIDE DEF r
  <2> QED BY ReserveTapesEffect DEF r
<1>2. t.run = 0
  <2> HIDE DEF t
  <2> QED BY InitTapesEffect DEF t
<1>3. MustDump(r, t, FALSE)
  <2> HIDE DEF r, t
  <2>1. Len(m.tuples) >= m.size \/ m.avail < 0
    <3>1. Len(m.tuples) \in Nat /\ m.size \in Nat /\ m.avail \in Int
      BY SeqLen DEF Payable, InBooks, IsMem
    <3> QED BY <3>1 DEF StillFits, LackMem
  <2>2. m.avail \in Int /\ r.avail \in Int
    BY <1>1 DEF Payable, InBooks
  <2>3. Len(r.tuples) >= r.size \/ r.avail < 0
    BY <1>1, <2>1, <2>2
  <2> QED BY <1>2, <2>3 DEF MustDump, LackMem
<1>4. d.mem = DumpedMem(r) /\ d.tapes = DumpedTapes(r, InitTapes(order))
  BY <1>3 DEF Dumped
<1>5. IsSeq(r.tuples) /\ Len(r.tuples) > 0
  BY <1>1 DEF Payable, InBooks, IsMem
<1> HIDE DEF r, t
<1>6. InBooks(d.mem) /\ d.mem.live = Len(d.mem.tuples) /\ d.mem.avail >= 0
  BY <1>1, <1>4, DumpedMemEffect
<1>7. Building(d.tapes) /\ d.tapes.run > 0
  BY <1>4, <1>5, FirstRunEffect
<1> QED BY <1>6, <1>7

LEMMA DumpedEffect ==
  ASSUME call \in Calls, batch \in Nat \ {0}, NEW m, Payable(m), NEW t, Building(t),
         t.run > 0, NEW all \in BOOLEAN, NEW d, d = Dumped(m, t, all)
  PROVE  /\ Building(d.tapes) /\ d.tapes.run > 0
         /\ Len(m.tuples) > 0 =>
              InBooks(d.mem) /\ d.mem.live = Len(d.mem.tuples) /\ d.mem.avail >= 0
<1>0. IsSeq(m.tuples) /\ Len(m.tuples) \in Nat /\ m.avail \in Int
      /\ (m.tuples = <<>> <=> Len(m.tuples) = 0)
  BY SeqLen DEF Payable, InBooks, IsMem
<1>1. CASE MustDump(m, t, all)
  <2>1. d.mem = DumpedMem(m) /\ d.tapes = DumpedTapes(m, t)
    BY <1>1 DEF Dumped
  <2>2. Len(m.tuples) > 0
    <3>1. t.run \in Nat
      BY DEF Building, IsTapes
    <3> QED BY <1>0, <1>1, <3>1 DEF MustDump
  <2>3. InBooks(d.mem) /\ d.mem.live = Len(d.mem.tuples) /\ d.mem.avail >= 0
    BY <2>1, DumpedMemEffect
  <2>4. Building(d.tapes) /\ d.tapes.run > 0
    BY <1>0, <2>1, <2>2, DumpedTapesEffect
  <2> QED BY <2>3, <2>4
<1>2. CASE ~MustDump(m, t, all)
  <2>1. d.mem = m /\ d.tapes = t
    BY <1>2 DEF Dumped
  <2>2. Len(m.tuples) > 0 => m.avail >= 0
    BY <1>0, <1>2 DEF MustDump, LackMem
  <2> QED BY <2>1, <2>2 DEF Payable
<1> QED BY <1>1, <1>2

-----------------------------------------------------------------------------
(* Putting tuples keeps the books.                                         *)
LEMMA NoSlabWhilePut ==
  ASSUME MemoryInv, pc = "idle", status \notin {"finalmerge", "sortedontape"}
  PROVE  ~slab.used
BY DEF MemoryInv, MergeInv

LEMMA PutInMemoryStep ==
  ASSUME MemoryInv, NEW k \in Keys, NEW abort \in BOOLEAN, PutInMemory(k, abort)
  PROVE  MemoryInv'
<1> DEFINE m == StoredInitial(k, abort)
<1>1. status = "initial" /\ pc = "idle" /\ UNCHANGED <<call, batch, slab, pc, status>>
      /\ mem' = m /\ StillFits(m)
  BY DEF PutInMemory, MayPut
<1>2. /\ call \in Calls /\ batch \in Nat \ {0} /\ InBooks(mem) /\ mem.live = Len(mem.tuples)
      /\ mem.avail >= 0 /\ mem.tape = 0
  BY <1>1 DEF MemoryInv, PhaseInv, LoadingInv, Loading
<1> HIDE DEF m
<1>3. Payable(m) /\ m.tape = 0
  BY <1>2, StoredInitialEffect DEF m
<1>4. m.avail >= 0
  BY <1>1, <1>3 DEF Payable, InBooks, StillFits, LackMem
<1>5. LoadingInv'
  BY <1>1, <1>3, <1>4 DEF LoadingInv, Loading, Payable, InBooks, IsMem, Lent
<1>6. ~slab.used
  BY <1>1, NoSlabWhilePut
<1> QED BY <1>1, <1>5, <1>6 DEF MemoryInv, PhaseInv, SlabTyped, BuildInv, MergeInv

LEMMA PutSpillsStep ==
  ASSUME MemoryInv, NEW k \in Keys, NEW abort \in BOOLEAN, PutSpills(k, abort)
  PROVE  MemoryInv'
<1> DEFINE m == StoredInitial(k, abort)
           d == Dumped(ReserveTapes(m, MergeOrder), InitTapes(MergeOrder), FALSE)
<1>1. status = "initial" /\ pc = "idle" /\ UNCHANGED <<call, batch, slab, pc>>
      /\ status' = "buildruns" /\ mem' = d.mem /\ tapes' = d.tapes /\ ~StillFits(m)
  BY DEF PutSpills, MayPut, LeaveDumped
<1>2. /\ call \in Calls /\ batch \in Nat \ {0} /\ InBooks(mem) /\ mem.live = Len(mem.tuples)
      /\ mem.avail >= 0 /\ mem.tape = 0
  BY <1>1 DEF MemoryInv, PhaseInv, LoadingInv, Loading
<1> HIDE DEF m
<1>3. Payable(m) /\ m.tape = 0 /\ Len(m.tuples) > 0
  BY <1>2, StoredInitialEffect DEF m
<1>4. MergeOrder \in Nat /\ MergeOrder > 0
  BY <1>2, CallSizes
<1> HIDE DEF d
<1>5. /\ InBooks(d.mem) /\ d.mem.live = Len(d.mem.tuples) /\ d.mem.avail >= 0
      /\ Building(d.tapes) /\ d.tapes.run > 0
  BY <1>1, <1>2, <1>3, <1>4, SpillEffect DEF d
<1>6. LoadingInv'
  BY <1>1, <1>5 DEF LoadingInv, Loading, InBooks, IsMem, Lent
<1>7. BuildInv'
  BY <1>1, <1>5 DEF BuildInv, Building, IsTapes, OneRunEach
<1>8. ~slab.used
  BY <1>1, NoSlabWhilePut
<1> QED BY <1>1, <1>6, <1>7, <1>8 DEF MemoryInv, PhaseInv, SlabTyped, MergeInv

LEMMA PutInRunStep ==
  ASSUME MemoryInv, NEW k \in Keys, PutInRun(k)
  PROVE  MemoryInv'
<1> DEFINE c == CopiedMem(FALSE)
           m == Stored(k, FALSE, c)
           d == Dumped(m, tapes, FALSE)
<1>1. status = "buildruns" /\ pc = "idle" /\ UNCHANGED <<call, batch, slab, pc, status>>
      /\ mem' = d.mem /\ tapes' = d.tapes
  BY DEF PutInRun, MayPut, LeaveDumped
<1>2. /\ call \in Calls /\ batch \in Nat \ {0} /\ InBooks(mem) /\ mem.live = Len(mem.tuples)
      /\ mem.avail >= 0 /\ Building(tapes) /\ tapes.run > 0
  BY <1>1 DEF MemoryInv, PhaseInv, LoadingInv, Loading, BuildInv
<1> HIDE DEF c, m, d
<1>3. /\ InBooks(c) /\ c.live = Len(c.tuples) + 1 /\ c.avail + c.live * TupleMem >= 0
  BY <1>2, CopiedMemEffect DEF c
<1>4. Payable(m) /\ Len(m.tuples) > 0
  BY <1>2, <1>3, StoredEffect DEF m
<1>5. /\ InBooks(d.mem) /\ d.mem.live = Len(d.mem.tuples) /\ d.mem.avail >= 0
      /\ Building(d.tapes) /\ d.tapes.run > 0
  BY <1>2, <1>4, DumpedEffect DEF d
<1>6. LoadingInv'
  BY <1>1, <1>5 DEF LoadingInv, Loading, InBooks, IsMem, Lent
<1>7. BuildInv'
  BY <1>1, <1>5 DEF BuildInv, Building, IsTapes, OneRunEach
<1>8. ~slab.used
  BY <1>1, NoSlabWhilePut
<1> QED BY <1>1, <1>6, <1>7, <1>8 DEF MemoryInv, PhaseInv, SlabTyped, MergeInv

(* A sort that no longer grows by what is put, and uses no slots.          *)
LEMMA KeptInMemoryStep ==
  ASSUME MemoryInv, UNCHANGED <<call, batch, slab, pc>>, pc = "idle", ~slab.used,
         status' \in {"bounded", "sortedinmem"} \/ (status' = "sortedontape" /\ call.role = "worker")
  PROVE  MemoryInv'
BY DEF MemoryInv, PhaseInv, SlabTyped, LoadingInv, Loading, BuildInv, MergeInv

(* Calls that only move the cursor.                                        *)
LEMMA SameMemoryStep ==
  ASSUME MemoryInv, UNCHANGED <<call, batch, status, mem, tapes, slab, pc>>
  PROVE  MemoryInv'
BY DEF MemoryInv, PhaseInv, SlabTyped, LoadingInv, Loading, BuildInv, Building, MergeInv,
       InBooks, IsMem, IsTapes, OneRunEach, Slots, Held, Lent

LEMMA ResetStep ==
  ASSUME MemoryInv, Reset
  PROVE  MemoryInv'
<1> DEFINE kept == mem.size = InitialSize
           m == FreshMem(kept)
           slots == InitialSize * SlotMem
<1>1. /\ mem' = m /\ status' = "initial" /\ batch' = batch + 1 /\ slab' = NoSlab
      /\ pc = "idle" /\ UNCHANGED <<call, pc>>
  BY DEF Reset
<1>2. /\ call \in Calls /\ batch \in Nat \ {0}
  BY DEF MemoryInv, PhaseInv
<1>3. /\ call.workMem \in Nat /\ slots \in Nat /\ call.workMem >= slots
      /\ InitialSize \in Nat /\ TupleMem \in Nat
  BY <1>2, CallSizes
<1>4. Lent' = slots
  BY <1>1, <1>2 DEF Lent
<1> HIDE DEF kept
<1>5. /\ m.tuples = <<>> /\ m.size = InitialSize /\ m.live = 0 /\ m.tape = 0
      /\ m.avail = call.workMem - (IF kept THEN 0 ELSE slots)
      /\ m = [tuples |-> m.tuples, size |-> m.size, grow |-> m.grow,
              live |-> m.live, tape |-> m.tape, avail |-> m.avail]
  BY DEF FreshMem
<1>6. IsSeq(m.tuples) /\ Len(m.tuples) = 0
  BY <1>5, NoneSeq
<1>7. m.size * SlotMem = slots /\ m.live * TupleMem = 0
  BY <1>3, <1>5, Arithmetic
<1> HIDE DEF m, slots
<1>8. m.avail \in Int /\ m.avail >= 0
      /\ slots + 0 + 0 + m.avail \in call.workMem .. call.workMem + slots
  BY <1>3, <1>5
<1>9. InBooks(mem)'
  <2>1. IsMem(mem)'
    BY <1>1, <1>5, <1>6 DEF IsMem
  <2>2. (mem.size * SlotMem + mem.live * TupleMem + mem.tape + mem.avail)'
          \in call.workMem .. call.workMem + slots
    BY <1>1, <1>5, <1>7, <1>8
  <2>3. (mem.size \in Nat /\ mem.live \in Nat /\ mem.tape \in Nat /\ mem.avail \in Int)'
    BY <1>1, <1>3, <1>5, <1>8
  <2> QED BY <1>1, <1>4, <2>1, <2>2, <2>3 DEF InBooks
<1>10. LoadingInv'
  <2>1. mem'.live = Len(mem'.tuples) /\ mem'.avail >= 0 /\ mem'.tape = 0
    BY <1>1, <1>5, <1>6, <1>8
  <2> QED BY <1>9, <2>1 DEF LoadingInv, Loading
<1> QED BY <1>1, <1>2, <1>10 DEF MemoryInv, PhaseInv, SlabTyped, BuildInv, MergeInv, NoSlab

-----------------------------------------------------------------------------
(* Merging: a slot more than there are tapes, then no slot is lost.        *)
LEMMA SetUpMergeStep ==
  ASSUME MemoryInv, IsMem(mem), NEW t, Building(t), SetUpMerge(t),
         status' = "buildruns", UNCHANGED <<call, batch>>
  PROVE  MemoryInv'
<1> DEFINE m == [mem EXCEPT !.tuples = <<>>, !.size = Len(t.out), !.avail = 0, !.live = 0]
<1>1. /\ mem' = m /\ slab' = [used |-> TRUE, free |-> Len(t.out) + 1, last |-> FALSE]
      /\ tapes' = t /\ pc' = "pass"
  BY DEF SetUpMerge
<1>2. /\ m.tuples = <<>> /\ m.size = Len(t.out) /\ m.grow = mem.grow /\ m.live = 0
      /\ m.tape = mem.tape /\ m.avail = 0
      /\ m = [tuples |-> m.tuples, size |-> m.size, grow |-> m.grow,
              live |-> m.live, tape |-> m.tape, avail |-> m.avail]
  <2> DEFINE n == Len(t.out)
  <2>1. m = [mem EXCEPT !.tuples = <<>>, !.size = n, !.avail = 0, !.live = 0]
    OBVIOUS
  <2> HIDE DEF m, n
  <2>2. m.size = n
    BY <2>1 DEF IsMem
  <2>3. m = [tuples |-> m.tuples, size |-> m.size, grow |-> m.grow,
             live |-> m.live, tape |-> m.tape, avail |-> m.avail]
    BY <2>1 DEF IsMem
  <2> QED BY <2>1, <2>2, <2>3 DEF IsMem, n
<1>3. IsSeq(m.tuples) /\ Len(m.tuples) = 0
  BY <1>2, NoneSeq
<1> HIDE DEF m
<1>4. Len(t.out) \in Nat /\ t.max \in Nat /\ Len(t.in) = 0
  BY SeqLen, NoneSeq DEF Building, IsTapes
<1>5. IsMem(mem)' /\ mem'.tuples = <<>> /\ Len(mem'.tuples) = 0
  BY <1>1, <1>2, <1>3 DEF IsMem
<1>6. IsTapes(tapes)' /\ tapes'.inRuns = 0 /\ (Len(t.out) < t.max => OneRunEach(tapes)')
  BY <1>1 DEF Building, IsTapes, OneRunEach
<1>7. Slots' = Len(t.out) + 1 /\ slab'.used /\ ~slab'.last
  BY <1>1, <1>4, <1>5 DEF Slots, Held
<1>8. MergeInv'
  <2>1. Slots' > Len(tapes'.in) /\ Slots' > Len(tapes'.out)
    BY <1>1, <1>4, <1>7
  <2>2. Slots' > tapes'.max \/ Len(t.out) < t.max
    BY <1>1, <1>4, <1>7
  <2> QED BY <1>1, <1>5, <1>6, <1>7, <2>1, <2>2 DEF MergeInv
<1>9. PhaseInv'
  <2>1. SlabTyped'
    BY <1>1, <1>4 DEF SlabTyped
  <2> QED BY <1>1, <2>1 DEF MemoryInv, PhaseInv
<1> QED BY <1>1, <1>8, <1>9 DEF MemoryInv, LoadingInv, Loading, BuildInv

LEMMA TakeOverTapesStep ==
  ASSUME MemoryInv, TakeOverTapes
  PROVE  MemoryInv'
<1> DEFINE runs == call.runs
           one == [i \in DOMAIN runs |-> <<runs[i]>>]
           t == [NoTapes EXCEPT !.out = one, !.outRuns = Len(runs), !.run = Len(runs)]
<1>1. /\ status = "initial" /\ pc = "idle" /\ SetUpMerge(t) /\ status' = "buildruns"
      /\ UNCHANGED <<call, batch>>
  BY DEF TakeOverTapes, MayPerform
<1>2. IsMem(mem)
  BY <1>1 DEF MemoryInv, LoadingInv, Loading, InBooks
<1>3. runs \in Seq(Seq(Keys))
  <2>1. call \in CallType
    BY SortAssumption DEF MemoryInv, PhaseInv
  <2> QED BY <2>1 DEF CallType
<1> HIDE DEF runs
<1>4. IsSeq(one)
  <2>1. Len(runs) \in Nat /\ DOMAIN runs = 1..Len(runs)
    BY <1>3
  <2>2. one = [i \in 1..Len(runs) |-> one[i]]
    BY <2>1
  <2> HIDE DEF one
  <2> QED BY <2>1, <2>2, MadeSeq
<1> HIDE DEF one
<1>5. Len(runs) \in Nat
  BY <1>3
<1>6. /\ t.in = <<>> /\ t.out = one /\ t.inRuns = 0 /\ t.outRuns = Len(runs)
      /\ t.max = 0 /\ t.run = Len(runs)
      /\ t = [in |-> t.in, out |-> t.out, inRuns |-> t.inRuns, outRuns |-> t.outRuns,
              dest |-> t.dest, max |-> t.max, run |-> t.run]
  <2> DEFINE n == Len(runs)
  <2>1. t = [NoTapes EXCEPT !.out = one, !.outRuns = n, !.run = n]
    OBVIOUS
  <2> HIDE DEF t, n
  <2>2. /\ t.in = <<>> /\ t.out = one /\ t.inRuns = 0 /\ t.outRuns = n
        /\ t.dest = 0 /\ t.max = 0 /\ t.run = n
        /\ t = [in |-> t.in, out |-> t.out, inRuns |-> t.inRuns, outRuns |-> t.outRuns,
                dest |-> t.dest, max |-> t.max, run |-> t.run]
    BY <2>1 DEF NoTapes
  <2> QED BY <2>2 DEF n
<1> HIDE DEF t
<1>7. Building(t)
  <2>1. IsSeq(t.in) /\ IsSeq(t.out) /\ Len(t.out) \in Nat
    BY <1>4, <1>6, NoneSeq, SeqLen
  <2>2. IsTapes(t)
    BY <1>5, <1>6, <2>1 DEF IsTapes
  <2> QED BY <1>6, <2>1, <2>2 DEF Building
<1> QED BY <1>1, <1>2, <1>7, SetUpMergeStep

LEMMA FinishRunsStep ==
  ASSUME MemoryInv, FinishRuns
  PROVE  MemoryInv'
<1> DEFINE d == Dumped(mem, tapes, TRUE)
<1>1. /\ status = "buildruns" /\ pc = "idle" /\ SetUpMerge(d.tapes) /\ status' = status
      /\ UNCHANGED <<call, batch>>
  BY DEF FinishRuns, MayPerform
<1>2. /\ call \in Calls /\ batch \in Nat \ {0} /\ InBooks(mem) /\ mem.live = Len(mem.tuples)
      /\ mem.avail >= 0 /\ Building(tapes) /\ tapes.run > 0
  BY <1>1 DEF MemoryInv, PhaseInv, LoadingInv, Loading, BuildInv
<1> HIDE DEF d
<1>3. Payable(mem)
  <2>1. mem.live \in Nat /\ TupleMem \in Nat /\ mem.avail \in Int
    BY <1>2, CallSizes DEF InBooks
  <2>2. mem.live * TupleMem \in Nat
    BY <2>1, Arithmetic
  <2>3. mem.avail + mem.live * TupleMem >= 0
    <3>1. \A x \in Int, y \in Nat : x >= 0 => x + y >= 0
      OBVIOUS
    <3> QED BY <1>2, <2>1, <2>2, <3>1
  <2> QED BY <1>2, <2>3 DEF Payable
<1>4. Building(d.tapes)
  BY <1>2, <1>3, DumpedEffect DEF d
<1>5. IsMem(mem)
  BY <1>2 DEF InBooks
<1> QED BY <1>1, <1>4, <1>5, SetUpMergeStep

LEMMA EnterMergeEffect ==
  ASSUME IsMem(mem), mem.tuples = <<>>, SlabTyped, ~slab.last, NEW t, IsTapes(t), EnterMerge(t)
  PROVE  /\ IsMem(mem)' /\ IsTapes(tapes)' /\ SlabTyped'
         /\ slab'.used = slab.used /\ ~slab'.last
         /\ tapes'.out = t.out /\ tapes'.inRuns = t.inRuns /\ tapes'.outRuns = t.outRuns
         /\ tapes'.max = t.max
         /\ Len(tapes'.in) = Len(t.in) /\ Len(mem'.tuples) <= Len(t.in)
         /\ Slots' = Slots
         /\ t.inRuns = Len(t.in) /\ (\A j \in 1..Len(t.in) : t.in[j] # <<>> /\ Head(t.in[j]) # <<>>)
              => Len(mem'.tuples) = t.inRuns
<1> DEFINE b == BeginMerge(t)
<1>1. /\ mem' = [mem EXCEPT !.tuples = b.heap] /\ slab' = [slab EXCEPT !.free = b.free]
      /\ tapes' = [t EXCEPT !.in = b.in]
  BY DEF EnterMerge
<1>2. /\ IsSeq(t.in) /\ t.inRuns \in Int /\ slab.free \in Int
  BY DEF IsTapes, SlabTyped
<1> HIDE DEF b
<1>3. /\ IsSeq(b.in) /\ IsSeq(b.heap) /\ b.free \in Int
      /\ Len(b.in) = Len(t.in)
      /\ b.free + Len(b.heap) = slab.free /\ Len(b.heap) <= Len(t.in)
      /\ t.inRuns = Len(t.in) /\ (\A j \in 1..Len(t.in) : t.in[j] # <<>> /\ Head(t.in[j]) # <<>>)
           => Len(b.heap) = t.inRuns
  BY <1>2, BeginMergeEffect DEF b
<1>4. mem'.tuples = b.heap /\ IsMem(mem)'
  BY <1>1, <1>3 DEF IsMem
<1>5. /\ slab'.used = slab.used /\ slab'.last = slab.last /\ slab'.free = b.free
      /\ SlabTyped'
  BY <1>1, <1>3 DEF SlabTyped
<1>6. /\ tapes'.in = b.in /\ tapes'.out = t.out /\ tapes'.inRuns = t.inRuns
      /\ tapes'.outRuns = t.outRuns /\ tapes'.max = t.max /\ IsTapes(tapes)'
  BY <1>1, <1>3 DEF IsTapes
<1>7. Slots' = Slots
  <2>1. Len(mem.tuples) = 0 /\ Len(b.heap) \in Nat
    BY <1>3, NoneSeq, SeqLen
  <2>2. Slots = slab.free + 0 + 0
    BY <2>1 DEF Slots, Held
  <2>3. Slots' = b.free + Len(b.heap) + 0
    BY <1>4, <1>5 DEF Slots, Held
  <2> QED BY <1>2, <1>3, <2>1, <2>2, <2>3
<1> QED BY <1>3, <1>4, <1>5, <1>6, <1>7

LEMMA PassTapesEffect ==
  ASSUME IsTapes(tapes), NEW t, t = PassTapes
  PROVE  /\ IsTapes(t) /\ t.max = tapes.max
         /\ IF tapes.inRuns = 0
              THEN /\ t.in = tapes.out /\ t.inRuns = tapes.outRuns
                   /\ t.out = <<>> /\ Len(t.out) = 0 /\ t.outRuns = 0
              ELSE t = tapes
<1>1. CASE tapes.inRuns = 0
  <2>1. t = [tapes EXCEPT !.in = tapes.out, !.inRuns = tapes.outRuns, !.out = <<>>, !.outRuns = 0]
    BY <1>1 DEF PassTapes, NextPass
  <2>2. /\ t.in = tapes.out /\ t.inRuns = tapes.outRuns /\ t.out = <<>> /\ t.outRuns = 0
        /\ t.dest = tapes.dest /\ t.max = tapes.max /\ t.run = tapes.run
        /\ t = [in |-> t.in, out |-> t.out, inRuns |-> t.inRuns, outRuns |-> t.outRuns,
                dest |-> t.dest, max |-> t.max, run |-> t.run]
    BY <2>1 DEF IsTapes
  <2>3. IsSeq(t.out) /\ Len(t.out) = 0
    BY <2>2, NoneSeq
  <2>4. IsSeq(t.in) /\ t.inRuns \in Int /\ t.outRuns \in Int /\ t.max \in Nat /\ t.run \in Nat
    BY <2>2 DEF IsTapes
  <2>5. IsTapes(t)
    BY ONLY <2>2, <2>3, <2>4 DEF IsTapes
  <2> QED BY <1>1, <2>2, <2>3, <2>5
<1>2. CASE tapes.inRuns # 0
  BY <1>2 DEF PassTapes
<1> QED BY <1>1, <1>2

LEMMA StartFinalMergeStep ==
  ASSUME MemoryInv, StartFinalMerge
  PROVE  MemoryInv'
<1> DEFINE t == PassTapes
<1>1. /\ pc = "pass" /\ tapes.inRuns = 0 /\ EnterMerge(t) /\ status' = "finalmerge"
      /\ pc' = "idle" /\ UNCHANGED <<call, batch>>
  BY DEF StartFinalMerge, LastPass
<1>2. /\ slab.used /\ SlabTyped /\ IsMem(mem) /\ IsTapes(tapes)
      /\ mem.tuples = <<>> /\ ~slab.last /\ Slots > Len(tapes.out)
  BY <1>1 DEF MemoryInv, PhaseInv, MergeInv
<1> HIDE DEF t
<1>3. IsTapes(t) /\ t.in = tapes.out
  BY <1>1, <1>2, PassTapesEffect DEF t
<1>4. /\ IsMem(mem)' /\ IsTapes(tapes)' /\ SlabTyped' /\ slab'.used = slab.used
      /\ Len(tapes'.in) = Len(t.in) /\ Len(mem'.tuples) <= Len(t.in) /\ Slots' = Slots
  BY <1>1, <1>2, <1>3, EnterMergeEffect
<1>5. Slots' > Len(tapes'.in) /\ Len(mem'.tuples) <= Len(tapes'.in)
  BY <1>2, <1>3, <1>4
<1>6. MergeInv'
  BY <1>1, <1>4, <1>5 DEF MergeInv
<1> QED BY <1>1, <1>2, <1>4, <1>6 DEF MemoryInv, PhaseInv, LoadingInv, Loading, BuildInv

LEMMA StartRunStep ==
  ASSUME MemoryInv, StartRun
  PROVE  MemoryInv'
<1> DEFINE p == PassTapes
           t == SelectNewTape(p)
           u == [t EXCEPT !.out[t.dest] = Append(@, <<>>)]
           started == [t.out EXCEPT ![t.dest] = Append(t.out[t.dest], <<>>)]
<1>1. /\ pc = "pass" /\ EnterMerge(u) /\ pc' = "merge" /\ UNCHANGED <<call, batch, status>>
  BY DEF StartRun
<1>2. /\ slab.used /\ SlabTyped /\ IsMem(mem) /\ IsTapes(tapes) /\ status = "buildruns"
      /\ mem.tuples = <<>> /\ ~slab.last
      /\ Slots > Len(tapes.in) /\ Slots > Len(tapes.out)
      /\ Slots > tapes.max \/ (tapes.inRuns = 0 /\ OneRunEach(tapes))
  BY <1>1 DEF MemoryInv, PhaseInv, MergeInv
<1> HIDE DEF p
<1>3. /\ IsTapes(p) /\ p.max = tapes.max
      /\ IF tapes.inRuns = 0
           THEN /\ p.in = tapes.out /\ p.inRuns = tapes.outRuns
                /\ p.out = <<>> /\ Len(p.out) = 0 /\ p.outRuns = 0
           ELSE p = tapes
  BY <1>2, PassTapesEffect DEF p
<1> HIDE DEF t
<1>4. /\ IsTapes(t) /\ t.in = p.in /\ t.inRuns = p.inRuns /\ t.max = p.max
      /\ t.outRuns = p.outRuns + 1
      /\ IF Len(p.out) < p.max THEN Len(t.out) = Len(p.out) + 1 ELSE t.out = p.out
  BY <1>3, SelectNewTapeEffect DEF t
<1>5. IsSeq(started) /\ Len(started) = Len(t.out)
  BY <1>4, UpdateSeq DEF IsTapes
<1>6. u = [t EXCEPT !.out = started]
  <2>1. IsSeq(t.out)
    BY <1>4 DEF IsTapes
  <2>2. started = [t.out EXCEPT ![t.dest] = Append(@, <<>>)]
    BY <2>1, SeqLen
  <2> QED BY <1>4, <2>2 DEF IsTapes
<1> HIDE DEF u, started
<1>7. /\ u.in = t.in /\ u.inRuns = t.inRuns /\ u.max = t.max /\ u.outRuns = t.outRuns
      /\ Len(u.out) = Len(t.out) /\ IsTapes(u)
  <2>1. /\ u.in = t.in /\ u.out = started /\ u.inRuns = t.inRuns /\ u.max = t.max
        /\ u.outRuns = t.outRuns /\ u.run = t.run
        /\ u = [in |-> u.in, out |-> u.out, inRuns |-> u.inRuns, outRuns |-> u.outRuns,
                dest |-> u.dest, max |-> u.max, run |-> u.run]
    BY <1>4, <1>6 DEF IsTapes
  <2>2. /\ IsSeq(t.in) /\ t.inRuns \in Int /\ t.outRuns \in Int /\ t.max \in Nat
        /\ t.run \in Nat
    BY <1>4 DEF IsTapes
  <2>3. IsTapes(u)
    BY ONLY <1>5, <2>1, <2>2 DEF IsTapes
  <2> QED BY <1>5, <2>1, <2>3
<1>8. /\ IsMem(mem)' /\ IsTapes(tapes)' /\ SlabTyped'
      /\ slab'.used = slab.used /\ ~slab'.last
      /\ tapes'.out = u.out /\ tapes'.inRuns = u.inRuns /\ tapes'.outRuns = u.outRuns
      /\ tapes'.max = u.max
      /\ Len(tapes'.in) = Len(u.in) /\ Len(mem'.tuples) <= Len(u.in)
      /\ Slots' = Slots
      /\ u.inRuns = Len(u.in) /\ (\A j \in 1..Len(u.in) : u.in[j] # <<>> /\ Head(u.in[j]) # <<>>)
           => Len(mem'.tuples) = u.inRuns
  BY <1>1, <1>2, <1>7, EnterMergeEffect
<1>9. Len(tapes.in) \in Nat /\ Len(tapes.out) \in Nat /\ tapes.max \in Nat
      /\ DOMAIN tapes.out = 1..Len(tapes.out) /\ Slots \in Int
  <2>1. Len(mem.tuples) = 0
    BY <1>2, NoneSeq
  <2> QED BY <1>2, <2>1, SeqLen DEF IsTapes, SlabTyped, Slots, Held
<1>10. Len(u.out) = IF Len(p.out) < p.max THEN Len(p.out) + 1 ELSE Len(p.out)
  BY <1>4, <1>7
<1>11. Slots' > Len(tapes'.in) /\ Len(mem'.tuples) <= Len(tapes'.in)
  <2>1. u.in = tapes.in \/ u.in = tapes.out
    BY <1>3, <1>4, <1>7
  <2> QED BY <1>2, <1>8, <2>1
<1>12. Slots' > Len(tapes'.out)
  <2>1. CASE Slots > tapes.max
    <3>1. Len(p.out) \in Nat /\ Len(p.out) < Slots
      BY <1>2, <1>3, <1>9
    <3> QED BY <1>3, <1>8, <1>9, <1>10, <2>1, <3>1
  <2>2. CASE tapes.inRuns = 0 /\ OneRunEach(tapes)
    <3>1. Len(tapes.out) > 0
      BY <2>2 DEF OneRunEach
    <3>2. Len(u.out) <= 1
      BY <1>3, <1>9, <1>10, <2>2
    <3> QED BY <1>2, <1>7, <1>8, <1>9, <3>1, <3>2, SeqLen DEF IsTapes
  <2> QED BY <1>2, <2>1, <2>2
<1>13. \/ Slots' > tapes'.max
       \/ Len(tapes'.out) = 1 /\ tapes'.outRuns = 1 /\ tapes'.inRuns = Len(mem'.tuples)
  <2>1. CASE Slots > tapes.max
    BY <1>3, <1>4, <1>7, <1>8, <2>1
  <2>2. CASE ~(Slots > tapes.max)
    <3>1. tapes.inRuns = 0 /\ OneRunEach(tapes)
      BY <1>2, <2>2
    <3>2. p.in = tapes.out /\ p.inRuns = tapes.outRuns /\ Len(p.out) = 0 /\ p.outRuns = 0
      BY <1>3, <3>1
    <3>3. tapes.max > 0
      BY <1>2, <1>9, <2>2
    <3>4. Len(u.out) = 1 /\ u.outRuns = 1
      BY <1>3, <1>4, <1>7, <1>10, <3>2, <3>3
    <3>5. u.in = tapes.out /\ u.inRuns = Len(u.in)
      BY <1>4, <1>7, <3>1, <3>2 DEF OneRunEach
    <3>6. \A j \in 1..Len(u.in) : u.in[j] # <<>> /\ Head(u.in[j]) # <<>>
      BY <1>9, <3>1, <3>5 DEF OneRunEach
    <3>7. Len(mem'.tuples) = u.inRuns
      BY <1>8, <3>5, <3>6
    <3> QED BY <1>8, <3>4, <3>7
  <2> QED BY <2>1, <2>2
<1>14. MergeInv'
  BY <1>1, <1>8, <1>11, <1>12, <1>13 DEF MergeInv
<1> QED BY <1>1, <1>2, <1>8, <1>14 DEF MemoryInv, PhaseInv, LoadingInv, Loading, BuildInv

(* Pulling a tuple: its slot goes to the next tuple of its run, if any.    *)
LEMMA PullNextEffect ==
  ASSUME IsMem(mem), mem.tuples # <<>>, NEW free \in Int, NEW next, next = PullNext(free)
  PROVE  /\ IsSeq(next.heap) /\ next.free \in Int /\ next.ended \in {0, 1}
         /\ Len(next.heap) = Len(mem.tuples) - next.ended
         /\ next.free = free - 1 + next.ended
<1> DEFINE src == mem.tuples[1].src
           run == Head(tapes.in[src])
           new == Tuple(run[1], FALSE, src)
<1>1. IsSeq(mem.tuples) /\ Len(mem.tuples) \in Nat /\ Len(mem.tuples) > 0
  BY SeqLen DEF IsMem
<1>2. CASE run = <<>>
  <2>1. next.heap = DeleteTop(1, mem.tuples) /\ next.free = free /\ next.ended = 1
    BY <1>2 DEF PullNext
  <2> QED BY <1>1, <2>1, DeleteTopLen
<1>3. CASE run # <<>>
  <2>1. next.heap = ReplaceTop(1, mem.tuples, new) /\ next.free = free - 1 /\ next.ended = 0
    BY <1>3 DEF PullNext
  <2> HIDE DEF new
  <2> QED BY <1>1, <2>1, ReplaceTopLen
<1> QED BY <1>2, <1>3

LEMMA MergeTupleStep ==
  ASSUME MemoryInv, MergeTuple
  PROVE  MemoryInv'
<1> DEFINE top == mem.tuples[1]
           next == PullNext(slab.free + 1)
           last == Len(tapes.out[tapes.dest])
           in == [tapes.in EXCEPT ![top.src] = next.in]
           one == [tapes.out[tapes.dest] EXCEPT ![last] = Append(@, top.key)]
           out == [tapes.out EXCEPT ![tapes.dest] = one]
<1>1. /\ pc = "merge" /\ mem.tuples # <<>> /\ UNCHANGED <<call, batch, status, pc>>
      /\ mem' = [mem EXCEPT !.tuples = next.heap]
      /\ slab' = [slab EXCEPT !.free = next.free]
      /\ tapes' = [tapes EXCEPT !.out[tapes.dest][last] = Append(@, top.key),
                                !.in[top.src] = next.in, !.inRuns = @ - next.ended]
  BY DEF MergeTuple
<1>2. /\ slab.used /\ SlabTyped /\ IsMem(mem) /\ IsTapes(tapes) /\ status = "buildruns"
      /\ ~slab.last /\ Len(mem.tuples) <= Len(tapes.in)
      /\ Slots > Len(tapes.in) /\ Slots > Len(tapes.out)
      /\ \/ Slots > tapes.max
         \/ Len(tapes.out) = 1 /\ tapes.outRuns = 1 /\ tapes.inRuns = Len(mem.tuples)
  BY <1>1 DEF MemoryInv, PhaseInv, MergeInv
<1>3. tapes' = [tapes EXCEPT !.out = out, !.in = in, !.inRuns = @ - next.ended]
  <2>1. out = [tapes.out EXCEPT ![tapes.dest][last] = Append(@, top.key)]
    BY <1>2, SeqLen DEF IsTapes
  <2> QED BY <1>1, <1>2 DEF IsTapes
<1> HIDE DEF next
<1>4. /\ IsSeq(next.heap) /\ next.free \in Int /\ next.ended \in {0, 1}
      /\ Len(next.heap) = Len(mem.tuples) - next.ended
      /\ next.free = slab.free + 1 - 1 + next.ended
  BY <1>1, <1>2, PullNextEffect DEF next, SlabTyped
<1>5. IsSeq(in) /\ Len(in) = Len(tapes.in) /\ IsSeq(out) /\ Len(out) = Len(tapes.out)
  <2>1. IsSeq(tapes.in) /\ IsSeq(tapes.out)
    BY <1>2 DEF IsTapes
  <2> HIDE DEF one, top
  <2> QED BY <2>1, UpdateSeq
<1> HIDE DEF in, out, one, top, last
<1>6. /\ tapes'.in = in /\ tapes'.out = out /\ tapes'.inRuns = tapes.inRuns - next.ended
      /\ tapes'.outRuns = tapes.outRuns /\ tapes'.max = tapes.max /\ IsTapes(tapes)'
  <2> DEFINE left == tapes.inRuns - next.ended
  <2>1. tapes' = [tapes EXCEPT !.out = out, !.in = in, !.inRuns = left]
    BY <1>3
  <2>2. left \in Int
    BY <1>2, <1>4 DEF IsTapes
  <2> HIDE DEF left
  <2>3. LET t == tapes'
        IN  /\ t.in = in /\ t.out = out /\ t.inRuns = left
            /\ t.outRuns = tapes.outRuns /\ t.dest = tapes.dest /\ t.max = tapes.max
            /\ t.run = tapes.run
            /\ t = [in |-> t.in, out |-> t.out, inRuns |-> t.inRuns, outRuns |-> t.outRuns,
                    dest |-> t.dest, max |-> t.max, run |-> t.run]
    BY <1>2, <2>1 DEF IsTapes
  <2>4. tapes.outRuns \in Int /\ tapes.max \in Nat /\ tapes.run \in Nat
    BY <1>2 DEF IsTapes
  <2>5. IsTapes(tapes)'
    BY ONLY <1>5, <2>2, <2>3, <2>4 DEF IsTapes
  <2> QED BY <2>3, <2>5 DEF left
<1>7. mem'.tuples = next.heap /\ IsMem(mem)'
  BY <1>1, <1>2, <1>4 DEF IsMem
<1>8. slab'.used /\ ~slab'.last /\ slab'.free = next.free /\ SlabTyped'
  BY <1>1, <1>2, <1>4 DEF SlabTyped
<1>9. Slots' = Slots
  <2>1. Len(mem.tuples) \in Nat /\ slab.free \in Int
    BY <1>2, SeqLen DEF IsMem, SlabTyped
  <2>2. Slots = slab.free + Len(mem.tuples) + 0
    BY <1>2 DEF Slots, Held
  <2>3. Slots' = next.free + Len(next.heap) + 0
    BY <1>7, <1>8 DEF Slots, Held
  <2> QED BY <1>4, <2>1, <2>2, <2>3
<1>10. Len(mem.tuples) \in Nat /\ Len(tapes.in) \in Nat /\ tapes.inRuns \in Int
  BY <1>2, SeqLen DEF IsMem, IsTapes
<1>11. Len(mem'.tuples) <= Len(tapes'.in)
  BY <1>2, <1>4, <1>5, <1>6, <1>7, <1>10
<1>12. Slots' > Len(tapes'.in) /\ Slots' > Len(tapes'.out)
  BY <1>2, <1>5, <1>6, <1>9
<1>13. \/ Slots' > tapes'.max
       \/ Len(tapes'.out) = 1 /\ tapes'.outRuns = 1 /\ tapes'.inRuns = Len(mem'.tuples)
  <2>1. CASE Slots > tapes.max
    BY <1>6, <1>9, <2>1
  <2>2. CASE Len(tapes.out) = 1 /\ tapes.outRuns = 1 /\ tapes.inRuns = Len(mem.tuples)
    BY <1>4, <1>5, <1>6, <1>7, <2>2
  <2> QED BY <1>2, <2>1, <2>2
<1>14. MergeInv'
  BY <1>1, <1>6, <1>7, <1>8, <1>11, <1>12, <1>13 DEF MergeInv
<1> QED BY <1>1, <1>2, <1>8, <1>14 DEF MemoryInv, PhaseInv, LoadingInv, Loading, BuildInv

LEMMA EndRunStep ==
  ASSUME MemoryInv, EndRun
  PROVE  MemoryInv'
<1>1. /\ pc = "merge" /\ mem.tuples = <<>> /\ UNCHANGED <<call, batch, mem, tapes, slab>>
      /\ IF MergeDone THEN pc' = "idle" /\ status' = "sortedontape"
                      ELSE pc' = "pass" /\ status' = status
  BY DEF EndRun
<1>2. /\ slab.used /\ SlabTyped /\ IsMem(mem) /\ IsTapes(tapes) /\ status = "buildruns"
      /\ ~slab.last /\ Slots > Len(tapes.in) /\ Slots > Len(tapes.out)
      /\ \/ Slots > tapes.max
         \/ Len(tapes.out) = 1 /\ tapes.outRuns = 1 /\ tapes.inRuns = Len(mem.tuples)
  BY <1>1 DEF MemoryInv, PhaseInv, MergeInv
<1>3. Slots' = Slots /\ IsMem(mem)' /\ IsTapes(tapes)' /\ SlabTyped'
  BY <1>1, <1>2 DEF Slots, Held, IsMem, IsTapes, SlabTyped
<1>4. Len(mem.tuples) = 0 /\ Len(tapes.in) \in Nat
  BY <1>1, <1>2, NoneSeq, SeqLen DEF IsTapes
<1>5. CASE MergeDone
  <2>1. Slots' > 0
    <3>1. Slots \in Int
      BY <1>2, <1>4 DEF SlabTyped, Slots, Held
    <3> QED BY <1>2, <1>3, <1>4, <3>1
  <2>2. MergeInv'
    BY <1>1, <1>3, <1>5, <2>1 DEF MergeInv
  <2> QED BY <1>1, <1>2, <1>3, <1>5, <2>2 DEF MemoryInv, PhaseInv, LoadingInv, Loading, BuildInv
<1>6. CASE ~MergeDone
  <2>1. Slots > tapes.max
    BY <1>2, <1>4, <1>6 DEF MergeDone
  <2>2. MergeInv'
    BY <1>1, <1>2, <1>3, <1>6, <2>1 DEF MergeInv
  <2> QED BY <1>1, <1>2, <1>3, <1>6, <2>2 DEF MemoryInv, PhaseInv, LoadingInv, Loading, BuildInv
<1> QED BY <1>5, <1>6

(* Fetching: the slot of the tuple last returned goes to the next one.     *)
LEMMA OnTapeAtStep ==
  ASSUME MemoryInv, NEW p, NEW eof, NEW answer, NEW failure,
         MayFetch("sortedontape"), OnTapeAt(p, eof, answer, failure)
  PROVE  MemoryInv'
<1> DEFINE found == answer.found /\ failure = "none"
<1>1. /\ status = "sortedontape" /\ pc = "idle" /\ call.role # "worker"
      /\ UNCHANGED <<call, batch, status, pc, mem, tapes>>
      /\ slab' = IF found THEN [slab EXCEPT !.free = ReleaseLast - 1, !.last = TRUE]
                          ELSE [slab EXCEPT !.free = ReleaseLast, !.last = FALSE]
  BY DEF MayFetch, OnTapeAt
<1>2. /\ slab.used /\ SlabTyped /\ IsMem(mem) /\ IsTapes(tapes)
      /\ mem.tuples = <<>> /\ Slots > 0
  BY <1>1 DEF MemoryInv, PhaseInv, MergeInv
<1>3. ReleaseLast \in Int /\ Slots = ReleaseLast
  <2>1. Len(mem.tuples) = 0
    BY <1>2, NoneSeq
  <2> QED BY <1>2, <2>1 DEF ReleaseLast, Slots, Held, SlabTyped
<1> HIDE DEF found
<1>4. Len(mem'.tuples) = 0
  BY <1>1, <1>2, NoneSeq
<1>5. SlabTyped' /\ slab'.used /\ Slots' = Slots
  <2>1. CASE found
    <3> DEFINE left == ReleaseLast - 1
    <3>1. slab' = [slab EXCEPT !.free = left, !.last = TRUE] /\ left \in Int
      BY <1>1, <1>3, <2>1
    <3> HIDE DEF left
    <3>2. SlabTyped' /\ slab'.used /\ slab'.last /\ slab'.free = left
      BY <1>2, <3>1 DEF SlabTyped
    <3>3. Slots' = left + 0 + 1
      BY <1>4, <3>2 DEF Slots, Held
    <3> QED BY <1>3, <3>2, <3>3 DEF left
  <2>2. CASE ~found
    <3>1. slab' = [slab EXCEPT !.free = ReleaseLast, !.last = FALSE]
      BY <1>1, <2>2
    <3>2. SlabTyped' /\ slab'.used /\ ~slab'.last /\ slab'.free = ReleaseLast
      BY <1>2, <1>3, <3>1 DEF SlabTyped
    <3>3. Slots' = ReleaseLast + 0 + 0
      BY <1>4, <3>2 DEF Slots, Held
    <3> QED BY <1>3, <3>2, <3>3
  <2> QED BY <2>1, <2>2
<1>6. MergeInv'
  BY <1>1, <1>2, <1>5 DEF MergeInv, IsMem, IsTapes
<1> QED BY <1>1, <1>5, <1>6 DEF MemoryInv, PhaseInv, LoadingInv, Loading, BuildInv

LEMMA FetchMergingStep ==
  ASSUME MemoryInv, FetchMerging
  PROVE  MemoryInv'
<1> DEFINE top == mem.tuples[1]
           next == PullNext(ReleaseLast)
           in == [tapes.in EXCEPT ![top.src] = next.in]
<1>1. /\ status = "finalmerge" /\ pc = "idle" /\ call.role # "worker"
      /\ UNCHANGED <<call, batch, status, pc>>
  BY DEF FetchMerging, MayFetch
<1>2. /\ slab.used /\ SlabTyped /\ IsMem(mem) /\ IsTapes(tapes)
      /\ Len(mem.tuples) <= Len(tapes.in) /\ Slots > Len(tapes.in)
  BY <1>1 DEF MemoryInv, PhaseInv, MergeInv
<1>3. ReleaseLast \in Int /\ Slots = ReleaseLast + Len(mem.tuples)
      /\ Len(mem.tuples) \in Nat /\ Len(tapes.in) \in Nat
  <2>1. Len(mem.tuples) \in Nat /\ Len(tapes.in) \in Nat
    BY <1>2, SeqLen DEF IsMem, IsTapes
  <2> QED BY <1>2, <2>1 DEF ReleaseLast, Slots, Held, SlabTyped
<1>4. CASE mem.tuples = <<>>
  <2>1. slab' = [slab EXCEPT !.free = ReleaseLast, !.last = FALSE] /\ UNCHANGED <<mem, tapes>>
    BY <1>4 DEF FetchMerging
  <2>2. SlabTyped' /\ slab'.used /\ ~slab'.last /\ slab'.free = ReleaseLast
    BY <1>2, <1>3, <2>1 DEF SlabTyped
  <2>3. Slots' = Slots
    BY <1>3, <2>1, <2>2 DEF Slots, Held
  <2>4. MergeInv'
    BY <1>1, <1>2, <2>1, <2>3 DEF MergeInv, IsMem, IsTapes
  <2> QED BY <1>1, <2>2, <2>4 DEF MemoryInv, PhaseInv, LoadingInv, Loading, BuildInv
<1>5. CASE mem.tuples # <<>>
  <2>1. /\ mem' = [mem EXCEPT !.tuples = next.heap]
        /\ slab' = [slab EXCEPT !.free = next.free, !.last = TRUE]
        /\ tapes' = [tapes EXCEPT !.in[top.src] = next.in, !.inRuns = @ - next.ended]
    BY <1>5 DEF FetchMerging
  <2>2. tapes' = [tapes EXCEPT !.in = in, !.inRuns = @ - next.ended]
    BY <1>2, <2>1 DEF IsTapes
  <2> HIDE DEF next
  <2>3. /\ IsSeq(next.heap) /\ next.free \in Int /\ next.ended \in {0, 1}
        /\ Len(next.heap) = Len(mem.tuples) - next.ended
        /\ next.free = ReleaseLast - 1 + next.ended
    BY <1>2, <1>3, <1>5, PullNextEffect DEF next
  <2>4. IsSeq(in) /\ Len(in) = Len(tapes.in)
    <3>1. IsSeq(tapes.in)
      BY <1>2 DEF IsTapes
    <3> HIDE DEF top
    <3> QED BY <3>1, UpdateSeq
  <2> HIDE DEF in, top
  <2>5. tapes'.in = in /\ IsTapes(tapes)'
    <3> DEFINE left == tapes.inRuns - next.ended
    <3>1. tapes' = [tapes EXCEPT !.in = in, !.inRuns = left]
      BY <2>2
    <3>2. left \in Int
      BY <1>2, <2>3 DEF IsTapes
    <3> HIDE DEF left
    <3>3. LET t == tapes'
          IN  /\ t.in = in /\ t.out = tapes.out /\ t.inRuns = left
              /\ t.outRuns = tapes.outRuns /\ t.dest = tapes.dest /\ t.max = tapes.max
              /\ t.run = tapes.run
              /\ t = [in |-> t.in, out |-> t.out, inRuns |-> t.inRuns, outRuns |-> t.outRuns,
                      dest |-> t.dest, max |-> t.max, run |-> t.run]
      BY <1>2, <3>1 DEF IsTapes
    <3>4. IsSeq(tapes.out) /\ tapes.outRuns \in Int /\ tapes.max \in Nat /\ tapes.run \in Nat
      BY <1>2 DEF IsTapes
    <3>5. IsTapes(tapes)'
      BY ONLY <2>4, <3>2, <3>3, <3>4 DEF IsTapes
    <3> QED BY <3>3, <3>5
  <2>6. mem'.tuples = next.heap /\ IsMem(mem)'
    BY <1>2, <2>1, <2>3 DEF IsMem
  <2>7. slab'.used /\ slab'.last /\ slab'.free = next.free /\ SlabTyped'
    BY <1>2, <2>1, <2>3 DEF SlabTyped
  <2>8. Slots' = Slots
    <3>1. Slots' = next.free + Len(next.heap) + 1
      BY <2>6, <2>7 DEF Slots, Held
    <3>2. \A r \in Int, n \in Nat, e \in {0, 1} : (r - 1 + e) + (n - e) + 1 = r + n
      OBVIOUS
    <3>3. (ReleaseLast - 1 + next.ended) + (Len(mem.tuples) - next.ended) + 1
            = ReleaseLast + Len(mem.tuples)
      BY <1>3, <2>3, <3>2
    <3>4. Slots' = (ReleaseLast - 1 + next.ended) + (Len(mem.tuples) - next.ended) + 1
      BY <2>3, <3>1
    <3> QED BY <1>3, <3>3, <3>4
  <2>9. Slots' > Len(tapes'.in) /\ Len(mem'.tuples) <= Len(tapes'.in)
    BY <1>2, <1>3, <2>3, <2>4, <2>5, <2>6, <2>8
  <2>10. MergeInv'
    BY <1>1, <2>5, <2>6, <2>9 DEF MergeInv
  <2> QED BY <1>1, <2>7, <2>10 DEF MemoryInv, PhaseInv, LoadingInv, Loading, BuildInv
<1> QED BY <1>4, <1>5

-----------------------------------------------------------------------------
LEMMA InitMemory ==
  ASSUME Init
  PROVE  MemoryInv
<1> DEFINE slots == InitialSize * SlotMem
<1>1. /\ call \in Calls /\ batch = 1 /\ status = "initial" /\ pc = "idle"
      /\ mem = FreshMem(FALSE) /\ slab = NoSlab
  BY DEF Init
<1>2. /\ call.workMem \in Nat /\ slots \in Nat /\ call.workMem >= slots
      /\ InitialSize \in Nat /\ TupleMem \in Nat
  BY <1>1, CallSizes
<1>3. /\ mem.tuples = <<>> /\ mem.size = InitialSize /\ mem.live = 0 /\ mem.tape = 0
      /\ mem.avail = call.workMem - slots
      /\ mem = [tuples |-> mem.tuples, size |-> mem.size, grow |-> mem.grow,
                live |-> mem.live, tape |-> mem.tape, avail |-> mem.avail]
  BY <1>1 DEF FreshMem
<1>4. IsSeq(mem.tuples) /\ Len(mem.tuples) = 0
  BY <1>3, NoneSeq
<1>5. mem.size * SlotMem = slots /\ mem.live * TupleMem = 0
  BY <1>2, <1>3, Arithmetic
<1> HIDE DEF slots
<1>6. mem.avail \in Int /\ mem.avail >= 0
      /\ slots + 0 + 0 + mem.avail \in call.workMem .. call.workMem + 0
  BY <1>2, <1>3
<1>7. InBooks(mem)
  <2>1. IsMem(mem)
    BY <1>3, <1>4 DEF IsMem
  <2>2. Lent = 0
    BY <1>1 DEF Lent
  <2> QED BY <1>2, <1>3, <1>5, <1>6, <2>1, <2>2 DEF InBooks
<1>8. LoadingInv
  BY <1>3, <1>4, <1>6, <1>7 DEF LoadingInv, Loading
<1> QED BY <1>1, <1>8 DEF MemoryInv, PhaseInv, SlabTyped, BuildInv, MergeInv, NoSlab

LEMMA PutStep ==
  ASSUME MemoryInv, Put
  PROVE  MemoryInv'
<1> PICK k \in Keys, abort \in BOOLEAN :
      \/ PutInMemory(k, abort) \/ PutMakesBoundedHeap(k, abort) \/ PutSpills(k, abort)
      \/ PutInBoundedHeap(k) \/ PutInRun(k)
  BY DEF Put
<1>1. CASE PutMakesBoundedHeap(k, abort)
  <2>1. UNCHANGED <<call, batch, slab, pc>> /\ pc = "idle" /\ status = "initial"
        /\ status' = "bounded"
    BY <1>1 DEF PutMakesBoundedHeap, MayPut
  <2> QED BY <2>1, NoSlabWhilePut, KeptInMemoryStep
<1>2. CASE PutInBoundedHeap(k)
  <2>1. UNCHANGED <<call, batch, slab, pc, status>> /\ pc = "idle" /\ status = "bounded"
    BY <1>2 DEF PutInBoundedHeap, MayPut
  <2> QED BY <2>1, NoSlabWhilePut, KeptInMemoryStep
<1> QED BY <1>1, <1>2, PutInMemoryStep, PutSpillsStep, PutInRunStep

LEMMA PerformStep ==
  ASSUME MemoryInv, Perform
  PROVE  MemoryInv'
<1>1. CASE SortInMemory
  <2>1. UNCHANGED <<call, batch, slab, pc>> /\ pc = "idle" /\ status = "initial"
        /\ status' = "sortedinmem"
    BY <1>1 DEF SortInMemory, MayPerform
  <2> QED BY <2>1, NoSlabWhilePut, KeptInMemoryStep
<1>2. CASE SortBoundedHeap
  <2>1. UNCHANGED <<call, batch, slab, pc>> /\ pc = "idle" /\ status = "bounded"
        /\ status' = "sortedinmem"
    BY <1>2 DEF SortBoundedHeap, MayPerform
  <2> QED BY <2>1, NoSlabWhilePut, KeptInMemoryStep
<1>3. CASE WorkerDumps
  <2>1. UNCHANGED <<call, batch, slab, pc>> /\ pc = "idle" /\ status = "initial"
        /\ status' = "sortedontape" /\ call.role = "worker"
    BY <1>3 DEF WorkerDumps, MayPerform
  <2> QED BY <2>1, NoSlabWhilePut, KeptInMemoryStep
<1> QED BY <1>1, <1>2, <1>3, TakeOverTapesStep, FinishRunsStep DEF Perform

LEMMA FetchStep ==
  ASSUME MemoryInv, Fetch
  PROVE  MemoryInv'
<1>1. CASE \/ FetchFromMemory \/ FetchBackFromMemory \/ \E n \in Skips : SkipInMemory(n)
           \/ Rescan \/ MarkPos \/ RestorePos
  <2>1. UNCHANGED <<call, batch, status, mem, tapes, slab, pc>>
    BY <1>1 DEF FetchFromMemory, FetchBackFromMemory, SkipInMemory, Rescan, MarkPos,
                RestorePos, RandomAccess, Stay, MayFetch
  <2> QED BY <2>1, SameMemoryStep
<1>2. CASE FetchFromTape
  <2>1. MayFetch("sortedontape")
    BY <1>2 DEF FetchFromTape
  <2>2. \E p, eof, answer, failure : OnTapeAt(p, eof, answer, failure)
    BY <1>2 DEF FetchFromTape
  <2> QED BY <2>1, <2>2, OnTapeAtStep
<1>3. CASE FetchBackFromTape
  <2>1. MayFetch("sortedontape")
    BY <1>3 DEF FetchBackFromTape
  <2>2. \E p, eof, answer, failure : OnTapeAt(p, eof, answer, failure)
    BY <1>3 DEF FetchBackFromTape, ReadBefore
  <2> QED BY <2>1, <2>2, OnTapeAtStep
<1> QED BY <1>1, <1>2, <1>3, FetchMergingStep DEF Fetch

LEMMA NextMemory ==
  ASSUME MemoryInv, [Next]_vars
  PROVE  MemoryInv'
<1>1. CASE SetBound
  BY <1>1, SameMemoryStep DEF SetBound
<1>2. CASE MergeRuns
  BY <1>2, StartFinalMergeStep, StartRunStep, MergeTupleStep, EndRunStep DEF MergeRuns
<1>3. CASE UNCHANGED vars
  BY <1>3, SameMemoryStep DEF vars
<1> QED BY <1>1, <1>2, <1>3, PutStep, PerformStep, FetchStep, ResetStep DEF Next

LEMMA MemoryInvKept ==
  ASSUME MemoryInv
  PROVE  MemoryKept
<1>1. SlabSuffices
  <2> SUFFICES ASSUME slab.used PROVE slab.free >= 0
    BY DEF SlabSuffices
  <2>1. IsMem(mem) /\ IsTapes(tapes) /\ SlabTyped /\ pc \in {"idle", "pass", "merge"}
    BY DEF MemoryInv, PhaseInv, MergeInv
  <2>2. Len(mem.tuples) \in Nat /\ Len(tapes.in) \in Nat /\ Held \in {0, 1} /\ slab.free \in Int
        /\ (mem.tuples = <<>> => Len(mem.tuples) = 0) /\ (~slab.last => Held = 0)
    BY <2>1, SeqLen DEF IsMem, IsTapes, SlabTyped, Held
  <2>3. Slots > Len(mem.tuples)
    BY <2>1, <2>2 DEF MemoryInv, MergeInv, Slots
  <2> QED BY <2>2, <2>3 DEF Slots
<1>2. WorkMemKept
  <2> SUFFICES ASSUME status \in {"initial", "buildruns"}, pc = "idle"
               PROVE  mem.size * SlotMem + mem.live * TupleMem + mem.tape
                        <= call.workMem + Lent
    BY DEF WorkMemKept, Lent
  <2>1. /\ call \in Calls /\ batch \in Nat \ {0} /\ InBooks(mem) /\ mem.avail >= 0
    BY DEF MemoryInv, PhaseInv, LoadingInv, Loading
  <2>2. /\ call.workMem \in Nat /\ SlotMem \in Nat /\ TupleMem \in Nat /\ Lent \in Nat
        /\ mem.size \in Nat /\ mem.live \in Nat /\ mem.tape \in Nat /\ mem.avail \in Int
    BY <2>1, CallSizes DEF InBooks
  <2> DEFINE slots == mem.size * SlotMem
             tuples == mem.live * TupleMem
  <2>3. slots \in Nat /\ tuples \in Nat
    BY <2>2, Arithmetic
  <2>4. slots + tuples + mem.tape + mem.avail <= call.workMem + Lent
    <3>1. slots + tuples + mem.tape + mem.avail \in call.workMem .. call.workMem + Lent
      BY <2>1 DEF InBooks
    <3> HIDE DEF slots, tuples
    <3> QED BY <2>2, <2>3, <3>1
  <2> HIDE DEF slots, tuples
  <2>5. slots + tuples + mem.tape <= call.workMem + Lent
    BY <2>1, <2>2, <2>3, <2>4
  <2> QED BY <2>5 DEF slots, tuples
<1> QED BY <1>1, <1>2 DEF MemoryKept

(* A sort keeps within the memory it has: what is put stays within workMem *)
(* until it is sorted (puttuple_common, dumptuples), and readtup_alloc     *)
(* never runs out of slots, whatever tuples come and however many runs and *)
(* passes it takes to merge them (mergeruns).                              *)
THEOREM MemoryKeptAlways == Spec => []MemoryKept
<1>1. Init => MemoryInv
  BY InitMemory
<1>2. MemoryInv /\ [Next]_vars => MemoryInv'
  BY NextMemory
<1>3. MemoryInv => MemoryKept
  BY MemoryInvKept
<1> QED BY <1>1, <1>2, <1>3, PTL DEF Spec
=============================================================================

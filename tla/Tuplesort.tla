------------------------------ MODULE Tuplesort ------------------------------
(***************************************************************************)
(* The tuple sort that rum carries (rum_fn.cpp): a caller puts tuples, asks *)
(* for the sort and fetches the tuples in order.  The tuples are sorted in *)
(* memory, kept in a heap of the smallest ones when the caller needs no    *)
(* more, or written as sorted runs to tapes when memory runs out and       *)
(* merged, the last pass while the caller fetches.  A tuple is its key; a  *)
(* comparison decides by it.  Memory is counted in slots and tuples.       *)
(***************************************************************************)
EXTENDS Integers, Sequences, FiniteSets, SequencesExt

CONSTANTS
  Keys,             \* the keys of tuples, natural numbers above 0
  Calls,            \* what callers ask for: the arguments, and a bound on puts
  SlotMem, TupleMem,            \* memory of an array slot and of a tuple
  InitialSize,                  \* INITIAL_MEMTUPSIZE
  TapeOverhead, MergeBuffer,    \* TAPE_BUFFER_OVERHEAD, MERGE_BUFFER_SIZE
  MinOrder, MaxOrder,           \* MINORDER, MAXORDER
  AbbrevFirst,                  \* tuples before abbreviation is judged
  Skips                         \* arguments of tuplesort_skiptuples

\* role: serial, worker or leader; workMem: allowedMem; random: the caller wants
\* random access; bound: 0 or what tuplesort_set_bound gets; unique: equal keys
\* are an error; abbrev: the key type has abbreviated keys; runs: the tapes of
\* a leader's workers; puts, batches: how many tuples and sorts at most.
CallType == [role : {"serial", "worker", "leader"}, workMem : Nat, random : BOOLEAN,
             bound : Nat, unique : BOOLEAN, abbrev : BOOLEAN, runs : Seq(Seq(Keys)),
             puts : Nat, batches : Nat]

ASSUME SortAssumption ==
  /\ Keys \subseteq Nat \ {0} /\ Skips \subseteq Nat
  /\ \A c \in Calls : /\ c \in CallType
                      /\ c.workMem >= InitialSize * SlotMem
                      /\ c.role # "serial" => ~c.random /\ c.bound = 0
                      /\ c.role = "leader" <=> c.runs # <<>>
  /\ InitialSize \in Nat \ {0, 1} /\ MinOrder \in Nat \ {0, 1}
  /\ MaxOrder \in Nat /\ MaxOrder >= MinOrder
  /\ SlotMem \in Nat /\ TupleMem \in Nat
  /\ TapeOverhead \in Nat \ {0} /\ MergeBuffer \in Nat

VARIABLES
  call,     \* the arguments of this sort
  batch,    \* how many sorts this state has served
  status,   \* TupSortStatus
  input,    \* every key put in this batch, in order (what the sort must return)
  mem,      \* memtuples, memtupsize, growmemtuples, availMem; live: tuples in memory
  keys,     \* bounded, boundUsed, reverse (ssup_reverse), abbrev, abbrevNext
  tapes,    \* inputTapes, outputTapes (runs not yet read) and their counters
  slab,     \* free slots; last: lastReturnedTuple holds one
  cursor,   \* current (an index, on tape a position in words), eof_reached, marks
  pc,       \* where tuplesort_performsort is in mergeruns
  result,   \* what the last call answered
  error     \* the error that ended the sort

vars == <<call, batch, status, input, mem, keys, tapes, slab, cursor, pc, result, error>>

NoCall == [found |-> FALSE, key |-> -1]
Nothing == [found |-> FALSE, key |-> 0]
Moved == [found |-> TRUE, key |-> 0]
Answer(k) == [found |-> TRUE, key |-> k]

\* A loop over a sequence: FoldLeft with each intermediate value computed once,
\* as the value of a bound variable.
Folded(Op(_, _), base, s) ==
  LET acc[i \in 0..Len(s)] ==
        IF i = 0 THEN base
        ELSE CHOOSE after \in {Op(before, s[i]) : before \in {acc[i - 1]}} : TRUE
  IN  acc[Len(s)]

MinOf(a, b) == IF a <= b THEN a ELSE b
MaxOf(a, b) == IF a >= b THEN a ELSE b

Inserted(s, k) ==
  SelectSeq(s, LAMBDA x : x <= k) \o <<k>> \o SelectSeq(s, LAMBDA x : x > k)
\* At each place the key that so many others come before.
SortedKeys(s) ==
  [i \in 1..Len(s) |->
     CHOOSE k \in ToSet(s) : i \in Cardinality({j \in DOMAIN s : s[j] < k}) + 1
                                  .. Cardinality({j \in DOMAIN s : s[j] <= k})]
KeysOf(ts) == [i \in DOMAIN ts |-> ts[i].key]
Tuple(k, abbreviated, src) == [key |-> k, abbr |-> abbreviated, src |-> src]

(***************************************************************************)
(* The heap: memtuples[1] is the smallest in the direction dir.            *)
(***************************************************************************)
Compare(dir, a, b) == dir * (a.key - b.key)
SmallerChild(dir, h, i) ==
  IF 2 * i + 1 <= Len(h) /\ Compare(dir, h[2 * i], h[2 * i + 1]) > 0
    THEN 2 * i + 1 ELSE 2 * i

\* The places above place i on its way to the root, nearest first when read down.
Above(i) == {i \div (2 ^ d) : d \in 1..i} \ {0}

\* Sift up from the new last place: the tuple stops below the first ancestor
\* that is not larger, and the ancestors it passed move down.
InsertHole(dir, h, t) ==
  LET hole[j \in 1..(Len(h) + 1)] ==
        IF j = 1 \/ Compare(dir, t, h[j \div 2]) >= 0 THEN j ELSE hole[j \div 2]
  IN  hole[Len(h) + 1]

HeapInsert(dir, h, t) ==
  LET n == Len(h) + 1
      at == InsertHole(dir, h, t)
      passed == ({n} \cup Above(n)) \ ({at} \cup Above(at))
  IN  [i \in 1..n |-> IF i = at THEN t ELSE IF i \in passed THEN h[i \div 2] ELSE h[i]]

\* Where a tuple that replaces the top comes to rest.
HoleFor(dir, h, t) ==
  LET hole[i \in 1..Len(h)] ==
        LET j == SmallerChild(dir, h, i)
        IN  IF 2 * i > Len(h) \/ Compare(dir, t, h[j]) <= 0 THEN i ELSE hole[j]
  IN  hole[1]

ReplaceTop(dir, h, t) ==
  LET at == HoleFor(dir, h, t)
  IN  [i \in 1..Len(h) |-> IF i = at THEN t
                           ELSE IF i \in Above(at) THEN h[SmallerChild(dir, h, i)] ELSE h[i]]

DeleteTop(dir, h) == IF Len(h) = 1 THEN <<>> ELSE ReplaceTop(dir, Front(h), Last(h))

\* Did the comparisons of these two meet equal keys?
InsertMeetsEqual(h, t) ==
  LET at == InsertHole(1, h, t) IN at > 1 /\ h[at \div 2].key = t.key
ReplaceMeetsEqual(h, t) ==
  LET at == HoleFor(1, h, t)
  IN  \E i \in {at} \cup Above(at) :
        \/ 2 * i <= Len(h) /\ h[SmallerChild(1, h, i)].key = t.key
        \/ 2 * i + 1 <= Len(h) /\ h[2 * i].key = h[2 * i + 1].key
DeleteMeetsEqual(h) == Len(h) > 1 /\ ReplaceMeetsEqual(Front(h), Last(h))

\* qsort compares every two tuples that end up next to each other.
SortMeetsEqual(s) == \E i, j \in DOMAIN s : i < j /\ s[i] = s[j]
Verdict(met) == IF call.unique /\ met THEN "unique" ELSE "none"

(***************************************************************************)
(* Memory.                                                                 *)
(***************************************************************************)
LackMem(m) == m.avail < 0
ChargeTuple(m) == [m EXCEPT !.avail = @ - TupleMem, !.live = @ + 1]
FreeTuples(m, n) == [m EXCEPT !.avail = @ + n * TupleMem, !.live = @ - n]

\* Double while less than half of the memory is used, then one last increase in
\* proportion; give up for good when that does not fit.
GrowMemtuples(m) ==
  LET used == call.workMem - m.avail
      doubling == used <= m.avail
      size == IF doubling THEN 2 * m.size ELSE (m.size * call.workMem) \div used
      fits == size > m.size /\ m.avail >= (size - m.size) * SlotMem
  IN  IF m.grow /\ fits
        THEN [m EXCEPT !.size = size, !.avail = @ - (size - m.size) * SlotMem,
                       !.grow = doubling]
        ELSE [m EXCEPT !.grow = FALSE]

\* The array of the last batch is kept when it still has its initial size, and
\* then its memory is not charged again.
FreshMem(kept) ==
  [tuples |-> <<>>, size |-> InitialSize, grow |-> TRUE, live |-> 0, tape |-> 0,
   avail |-> call.workMem - (IF kept THEN 0 ELSE InitialSize * SlotMem)]

(***************************************************************************)
(* Tapes.  A tape is its runs that are still to be read; a run that is the *)
(* empty sequence has only its end marker left.                            *)
(***************************************************************************)
NoTapes == [in |-> <<>>, out |-> <<>>, inRuns |-> 0, outRuns |-> 0,
            dest |-> 0, max |-> 0, run |-> 0]
MergeOrder == MinOf(MaxOf(call.workMem \div (2 * TapeOverhead + MergeBuffer), MinOrder),
                    MaxOrder)

\* The next tape for a run: a new one while there may be more, then in turn.
SelectNewTape(t) ==
  IF Len(t.out) < t.max
    THEN [t EXCEPT !.out = Append(@, <<>>), !.dest = Len(t.out) + 1, !.outRuns = @ + 1]
    ELSE [t EXCEPT !.dest = (t.outRuns % Len(t.out)) + 1, !.outRuns = @ + 1]

InitTapes(order) == SelectNewTape([NoTapes EXCEPT !.max = order])

\* Space for the tapes' buffers is set aside only when it leaves room for tuples.
ReserveTapes(m, order) ==
  IF order * TapeOverhead + m.size * SlotMem < call.workMem
    THEN [m EXCEPT !.avail = @ - order * TapeOverhead, !.tape = order * TapeOverhead]
    ELSE m

\* dumptuples: is there something to write, and the state after writing it.
MustDump(m, t, all) == /\ Len(m.tuples) >= m.size \/ LackMem(m) \/ all
                       /\ m.tuples # <<>> \/ t.run = 0
DumpedMem(m) == [m EXCEPT !.tuples = <<>>, !.avail = @ + Len(m.tuples) * TupleMem,
                          !.live = 0]
DumpedTapes(m, t) ==
  LET t1 == IF t.run > 0 THEN SelectNewTape(t) ELSE t
  IN  [t1 EXCEPT !.run = @ + 1,
                 !.out[t1.dest] = Append(@, SortedKeys(KeysOf(m.tuples)))]

\* Memory m and tapes t after dumptuples; met: equal keys met in the run's sort.
Dumped(m, t, all) ==
  IF MustDump(m, t, all)
    THEN [mem |-> DumpedMem(m), tapes |-> DumpedTapes(m, t),
          met |-> SortMeetsEqual(KeysOf(m.tuples))]
    ELSE [mem |-> m, tapes |-> t, met |-> FALSE]
LeaveDumped(d) == mem' = d.mem /\ tapes' = d.tapes /\ error' = Verdict(d.met)

(***************************************************************************)
(* Starting a sort.                                                        *)
(***************************************************************************)
FreshKeys == [bounded |-> FALSE, boundUsed |-> FALSE, reverse |-> FALSE,
              abbrev |-> call.abbrev, abbrevNext |-> AbbrevFirst]
NoSlab == [used |-> FALSE, free |-> 0, last |-> FALSE]
AtStart == [current |-> 0, eof |-> FALSE, mark |-> 0, markEof |-> FALSE]

Init == /\ call \in Calls
        /\ batch = 1 /\ status = "initial" /\ pc = "idle"
        /\ input = SortedKeys(FlattenSeq(call.runs))
        /\ mem = FreshMem(FALSE) /\ keys = FreshKeys
        /\ tapes = NoTapes /\ slab = NoSlab /\ cursor = AtStart
        /\ result = NoCall /\ error = "none"

\* A bound rules abbreviation out.
SetBound ==
  /\ error = "none" /\ status = "initial" /\ input = <<>>
  /\ call.bound > 0 /\ ~keys.bounded
  /\ keys' = [keys EXCEPT !.bounded = TRUE, !.abbrev = FALSE]
  /\ UNCHANGED <<call, batch, status, input, mem, tapes, slab, cursor, pc, result, error>>

(***************************************************************************)
(* Putting a tuple.  The copy is charged first; once enough tuples came,   *)
(* the key type may declare abbreviation useless, and then every tuple in  *)
(* memory gets its full key back.                                          *)
(***************************************************************************)
Judged == keys.abbrev /\ status = "initial" /\ Len(mem.tuples) >= keys.abbrevNext
JudgedKeys(abort) == IF Judged THEN [keys EXCEPT !.abbrev = ~abort, !.abbrevNext = 2 * @]
                               ELSE keys
Unabbreviated(ts) == [i \in DOMAIN ts |-> [ts[i] EXCEPT !.abbr = FALSE]]
CopiedMem(abort) ==
  ChargeTuple(IF abort THEN [mem EXCEPT !.tuples = Unabbreviated(@)] ELSE mem)

MayPut(k, abort) ==
  /\ error = "none" /\ pc = "idle" /\ call.role # "leader"
  /\ Len(input) < call.puts
  /\ abort => Judged
  /\ input' = Inserted(input, k)
  /\ UNCHANGED <<call, batch, slab, cursor, pc, result>>

\* The tuple is appended while the sort is in memory or builds runs.
Stored(k, abort, m) ==
  [m EXCEPT !.tuples = Append(@, Tuple(k, JudgedKeys(abort).abbrev, 0))]
StoredInitial(k, abort) ==
  Stored(k, abort, IF Len(mem.tuples) >= mem.size - 1 THEN GrowMemtuples(CopiedMem(abort))
                                                     ELSE CopiedMem(abort))

BoundReached(m) == /\ keys.bounded
                   /\ \/ Len(m.tuples) > 2 * call.bound
                      \/ Len(m.tuples) > call.bound /\ LackMem(m)
StillFits(m) == Len(m.tuples) < m.size /\ ~LackMem(m)

PutInMemory(k, abort) ==
  /\ status = "initial" /\ MayPut(k, abort)
  /\ LET m == StoredInitial(k, abort)
     IN  ~BoundReached(m) /\ StillFits(m) /\ mem' = m
  /\ keys' = JudgedKeys(abort)
  /\ UNCHANGED <<status, tapes, error>>

\* Mutant: the sort direction is not reversed when an offer is compared.
HeapOfSmallest(ts) ==
  LET Offer(acc, t) ==
        IF Len(acc.heap) < call.bound THEN [acc EXCEPT !.heap = HeapInsert(-1, @, t)]
        ELSE IF Compare(1, t, acc.heap[1]) <= 0 THEN [acc EXCEPT !.freed = @ + 1]
        ELSE [acc EXCEPT !.heap = ReplaceTop(-1, @, t)]
  IN  Folded(Offer, [heap |-> <<>>, freed |-> 0], ts)

\* The smallest bound tuples go to a heap with the largest on top; a discarded
\* tuple is freed, one that is replaced in the heap is not.
HeapOf(ts) ==
  LET Offer(acc, t) ==
        IF Len(acc.heap) < call.bound THEN [acc EXCEPT !.heap = HeapInsert(-1, @, t)]
        ELSE IF Compare(-1, t, acc.heap[1]) <= 0 THEN [acc EXCEPT !.freed = @ + 1]
        ELSE [acc EXCEPT !.heap = ReplaceTop(-1, @, t)]
  IN  Folded(Offer, [heap |-> <<>>, freed |-> 0], ts)

PutMakesBoundedHeap(k, abort) ==
  /\ status = "initial" /\ MayPut(k, abort)
  /\ LET m == StoredInitial(k, abort)
         h == HeapOf(m.tuples)
     IN  /\ BoundReached(m)
         /\ mem' = [FreeTuples(m, h.freed) EXCEPT !.tuples = h.heap]
  /\ keys' = [JudgedKeys(abort) EXCEPT !.reverse = ~@]
  /\ status' = "bounded"
  /\ UNCHANGED <<tapes, error>>

PutSpills(k, abort) ==
  /\ status = "initial" /\ MayPut(k, abort)
  /\ LET m == StoredInitial(k, abort)
     IN  /\ ~BoundReached(m) /\ ~StillFits(m)
         /\ LeaveDumped(Dumped(ReserveTapes(m, MergeOrder), InitTapes(MergeOrder), FALSE))
  /\ keys' = JudgedKeys(abort)
  /\ status' = "buildruns"

Dir == IF keys.reverse THEN -1 ELSE 1

PutInBoundedHeap(k) ==
  /\ status = "bounded" /\ MayPut(k, FALSE)
  /\ LET t == Tuple(k, keys.abbrev, 0)
         m == FreeTuples(ChargeTuple(mem), 1)
     IN  mem' = IF Compare(Dir, t, mem.tuples[1]) <= 0 THEN m
                ELSE [m EXCEPT !.tuples = ReplaceTop(Dir, @, t)]
  /\ UNCHANGED <<status, keys, tapes, error>>

PutInRun(k) ==
  /\ status = "buildruns" /\ MayPut(k, FALSE)
  /\ LeaveDumped(Dumped(Stored(k, FALSE, CopiedMem(FALSE)), tapes, FALSE))
  /\ UNCHANGED <<status, keys>>

(***************************************************************************)
(* tuplesort_performsort.                                                  *)
(***************************************************************************)
MayPerform == /\ error = "none" /\ pc = "idle"
              /\ UNCHANGED <<call, batch, input, result>>

SortInMemory ==
  /\ status = "initial" /\ call.role = "serial" /\ MayPerform
  /\ mem' = [mem EXCEPT !.tuples = SortSeq(@, LAMBDA a, b : a.key < b.key)]
  /\ error' = Verdict(SortMeetsEqual(KeysOf(mem.tuples)))
  /\ status' = "sortedinmem" /\ cursor' = AtStart
  /\ UNCHANGED <<keys, tapes, slab, pc>>

\* Each deleted top goes to the slot that the shrinking heap leaves free.
Unheaped(dir, h) ==
  LET Take(acc, i) == [heap |-> DeleteTop(dir, acc.heap),
                       done |-> <<acc.heap[1]>> \o acc.done]
  IN  Folded(Take, [heap |-> h, done |-> <<>>], h).done

SortBoundedHeap ==
  /\ status = "bounded" /\ MayPerform
  /\ mem' = [mem EXCEPT !.tuples = Unheaped(Dir, @)]
  /\ keys' = [keys EXCEPT !.reverse = ~@, !.boundUsed = TRUE]
  /\ status' = "sortedinmem" /\ cursor' = AtStart
  /\ UNCHANGED <<tapes, slab, pc, error>>

\* A worker that never ran out of memory still writes one run, even an empty one.
WorkerDumps ==
  /\ status = "initial" /\ call.role = "worker" /\ MayPerform
  /\ LET d == Dumped(ReserveTapes(mem, MinOrder), InitTapes(MinOrder), TRUE)
     IN  /\ LeaveDumped([d EXCEPT !.mem.size = 0])
  /\ status' = "sortedontape" /\ cursor' = AtStart
  /\ UNCHANGED <<keys, slab, pc>>

\* Mutant: no slot for the tuple that was returned last.
SetUpMergeTight(t) ==
  /\ keys' = [keys EXCEPT !.abbrev = FALSE]
  /\ mem' = [mem EXCEPT !.tuples = <<>>, !.size = Len(t.out), !.avail = 0, !.live = 0]
  /\ slab' = [used |-> TRUE, free |-> Len(t.out), last |-> FALSE]
  /\ tapes' = t
  /\ pc' = "pass" /\ cursor' = AtStart

\* mergeruns gives up abbreviation, the array and the tuples' memory, and takes
\* a slab slot for each tape and one for the tuple last returned.
SetUpMerge(t) ==
  /\ keys' = [keys EXCEPT !.abbrev = FALSE]
  /\ mem' = [mem EXCEPT !.tuples = <<>>, !.size = Len(t.out), !.avail = 0, !.live = 0]
  /\ slab' = [used |-> TRUE, free |-> Len(t.out) + 1, last |-> FALSE]
  /\ tapes' = t
  /\ pc' = "pass" /\ cursor' = AtStart

TakeOverTapes ==
  /\ status = "initial" /\ call.role = "leader" /\ MayPerform
  /\ SetUpMerge([NoTapes EXCEPT !.out = [i \in DOMAIN call.runs |-> <<call.runs[i]>>],
                                !.outRuns = Len(call.runs), !.run = Len(call.runs)])
  /\ status' = "buildruns" /\ error' = "none"

FinishRuns ==
  /\ status = "buildruns" /\ MayPerform
  /\ LET d == Dumped(mem, tapes, TRUE)
     IN  SetUpMerge(d.tapes) /\ error' = Verdict(d.met)
  /\ UNCHANGED status

(***************************************************************************)
(* mergeruns: balanced k-way merge.                                        *)
(***************************************************************************)
NextPass(t) == [t EXCEPT !.in = t.out, !.inRuns = t.outRuns, !.out = <<>>, !.outRuns = 0]
PassTapes == IF tapes.inRuns = 0 THEN NextPass(tapes) ELSE tapes

\* The next tuple of tape i enters the heap, if its next run has one.
LoadTape(acc, i) ==
  IF acc.in[i] = <<>> THEN [acc EXCEPT !.torn = TRUE]
  ELSE IF Head(acc.in[i]) = <<>> THEN [acc EXCEPT !.in[i] = Tail(@)]
  ELSE LET new == Tuple(Head(acc.in[i])[1], FALSE, i)
       IN  [acc EXCEPT !.in[i][1] = Tail(@), !.heap = HeapInsert(1, @, new),
                       !.free = @ - 1, !.met = @ \/ InsertMeetsEqual(acc.heap, new)]

\* One tuple of each tape that has a run left enters the heap.
BeginMerge(t) ==
  Folded(LoadTape,
         [in |-> t.in, heap |-> <<>>, free |-> slab.free, met |-> FALSE, torn |-> FALSE],
         [i \in 1..MinOf(Len(t.in), t.inRuns) |-> i])

EnterMerge(t) ==
  LET b == BeginMerge(t)
  IN  /\ mem' = [mem EXCEPT !.tuples = b.heap]
      /\ slab' = [slab EXCEPT !.free = b.free]
      /\ tapes' = [t EXCEPT !.in = b.in]
      /\ error' = IF b.torn THEN "unexpected end of tape" ELSE Verdict(b.met)

\* One run on each tape, and no need for a tape that holds the result: the
\* caller's fetches merge.
LastPass == /\ tapes.inRuns = 0 /\ ~call.random /\ call.role # "worker"
            /\ PassTapes.inRuns <= Len(PassTapes.in)

StartFinalMerge ==
  /\ error = "none" /\ pc = "pass" /\ LastPass
  /\ EnterMerge(PassTapes)
  /\ status' = "finalmerge" /\ pc' = "idle"
  /\ UNCHANGED <<call, batch, input, keys, cursor, result>>

StartRun ==
  /\ error = "none" /\ pc = "pass" /\ ~LastPass
  /\ LET t == SelectNewTape(PassTapes)
     IN  EnterMerge([t EXCEPT !.out[t.dest] = Append(@, <<>>)])
  /\ pc' = "merge"
  /\ UNCHANGED <<call, batch, status, input, keys, cursor, result>>

\* The top leaves the heap and the next tuple of its run takes its place.
PullNext(free) ==
  LET src == mem.tuples[1].src
      run == Head(tapes.in[src])
      new == Tuple(run[1], FALSE, src)
  IN  IF run = <<>>
        THEN [heap |-> DeleteTop(1, mem.tuples), in |-> Tail(tapes.in[src]), ended |-> 1,
              free |-> free, met |-> DeleteMeetsEqual(mem.tuples)]
        ELSE [heap |-> ReplaceTop(1, mem.tuples, new),
              in |-> [tapes.in[src] EXCEPT ![1] = Tail(@)], ended |-> 0,
              free |-> free - 1, met |-> ReplaceMeetsEqual(mem.tuples, new)]

MergeTuple ==
  /\ error = "none" /\ pc = "merge" /\ mem.tuples # <<>>
  /\ LET top == mem.tuples[1]
         next == PullNext(slab.free + 1)
         last == Len(tapes.out[tapes.dest])
     IN  /\ mem' = [mem EXCEPT !.tuples = next.heap]
         /\ slab' = [slab EXCEPT !.free = next.free]
         /\ tapes' = [tapes EXCEPT !.out[tapes.dest][last] = Append(@, top.key),
                                   !.in[top.src] = next.in, !.inRuns = @ - next.ended]
         /\ error' = Verdict(next.met)
  /\ UNCHANGED <<call, batch, status, input, keys, cursor, pc, result>>

\* Nothing is left to merge when the input is read and one run was written.
MergeDone == tapes.inRuns = 0 /\ tapes.outRuns <= 1

EndRun ==
  /\ error = "none" /\ pc = "merge" /\ mem.tuples = <<>>
  /\ IF MergeDone
       THEN pc' = "idle" /\ status' = "sortedontape"
       ELSE pc' = "pass" /\ UNCHANGED status
  /\ UNCHANGED <<call, batch, input, mem, keys, tapes, slab, cursor, result, error>>

(***************************************************************************)
(* Fetching, in memory.                                                    *)
(***************************************************************************)
MayFetch(from) == /\ error = "none" /\ pc = "idle" /\ status = from
                  /\ call.role # "worker"
                  /\ UNCHANGED <<call, batch, status, input, keys, pc>>
PastBound == IF keys.bounded /\ Len(mem.tuples) >= call.bound
               THEN "retrieved too many tuples in a bounded sort" ELSE "none"

FetchFromMemory ==
  /\ MayFetch("sortedinmem")
  /\ IF cursor.current < Len(mem.tuples)
       THEN /\ cursor' = [cursor EXCEPT !.current = @ + 1]
            /\ result' = Answer(mem.tuples[cursor.current + 1].key)
            /\ error' = "none"
       ELSE /\ cursor' = [cursor EXCEPT !.eof = TRUE]
            /\ result' = Nothing /\ error' = PastBound
  /\ UNCHANGED <<mem, tapes, slab>>

\* From the end the last tuple again, else the one before the last one returned.
FetchBackFromMemory ==
  /\ MayFetch("sortedinmem") /\ call.random
  /\ LET at == IF cursor.current = 0 \/ cursor.eof THEN cursor.current
                                                    ELSE cursor.current - 1
     IN  /\ cursor' = [cursor EXCEPT !.current = at, !.eof = @ /\ at = 0]
         /\ result' = IF at = 0 THEN Nothing ELSE Answer(mem.tuples[at].key)
  /\ UNCHANGED <<mem, tapes, slab, error>>

SkipInMemory(n) ==
  /\ MayFetch("sortedinmem")
  /\ IF cursor.current + n <= Len(mem.tuples)
       THEN /\ cursor' = [cursor EXCEPT !.current = @ + n]
            /\ result' = Moved /\ error' = "none"
       ELSE /\ cursor' = [cursor EXCEPT !.current = Len(mem.tuples), !.eof = TRUE]
            /\ result' = Nothing /\ error' = PastBound
  /\ UNCHANGED <<mem, tapes, slab>>

(***************************************************************************)
(* Fetching from the one run on the result tape.  With random access each  *)
(* tuple takes three words, its length before and after it, and the run    *)
(* ends with a zero length; the cursor is a position in words.             *)
(***************************************************************************)
ResultRun == tapes.out[1][1]
Words == 3
EndMark == Words * Len(ResultRun)
ReleaseLast == IF slab.last THEN slab.free + 1 ELSE slab.free

OnTapeAt(pos, eof, answer, failure) ==
  /\ cursor' = [cursor EXCEPT !.current = pos, !.eof = eof]
  /\ result' = answer
  /\ error' = failure
  /\ slab' = IF answer.found /\ failure = "none"
               THEN [slab EXCEPT !.free = ReleaseLast - 1, !.last = TRUE]
               ELSE [slab EXCEPT !.free = ReleaseLast, !.last = FALSE]
  /\ UNCHANGED <<mem, tapes>>

\* A length is read where a tuple starts; anything else there is no length.
FetchFromTape ==
  /\ MayFetch("sortedontape")
  /\ LET pos == cursor.current
     IN  CASE cursor.eof -> OnTapeAt(pos, TRUE, Nothing, "none")
           [] ~cursor.eof /\ pos = EndMark -> OnTapeAt(pos + 1, TRUE, Nothing, "none")
           [] ~cursor.eof /\ pos < EndMark /\ pos % Words = 0 ->
                OnTapeAt(pos + Words, FALSE, Answer(ResultRun[pos \div Words + 1]), "none")
           [] OTHER -> OnTapeAt(pos, FALSE, Nothing, "unexpected end of tape")

\* LogicalTapeBackspace: how far a tape moves back.
Backspaced(pos, size) == MinOf(pos, size)

\* Read backward the tuple whose length word after it starts at pos.
ReadBefore(pos) ==
  IF pos % Words = Words - 1
    THEN OnTapeAt(pos + 1, FALSE, Answer(ResultRun[(pos + 1) \div Words]), "none")
    ELSE OnTapeAt(pos, FALSE, Nothing, "bogus tuple length in backward scan")

\* Mutant: backs up over the tuple last returned only.
FetchBackOneShort ==
  /\ MayFetch("sortedontape") /\ call.random
  /\ LET pos == cursor.current
         over == Words
     IN  IF cursor.eof
           THEN IF Backspaced(pos, 2) = 0 THEN OnTapeAt(pos, TRUE, Nothing, "none")
                                          ELSE ReadBefore(pos - 2)
           ELSE IF Backspaced(pos, over) < over THEN OnTapeAt(0, FALSE, Nothing, "none")
                                                ELSE ReadBefore(pos - over)

FetchBackFromTape ==
  /\ MayFetch("sortedontape") /\ call.random
  /\ LET pos == cursor.current
         \* over the tuple last returned, its two lengths and one length more
         over == Words + 1
     IN  IF cursor.eof
           THEN CASE Backspaced(pos, 2) = 0 -> OnTapeAt(pos, TRUE, Nothing, "none")
                  [] Backspaced(pos, 2) = 1 ->
                       OnTapeAt(0, TRUE, Nothing, "unexpected tape position")
                  [] OTHER -> ReadBefore(pos - 2)
           ELSE CASE Backspaced(pos, 1) = 0 -> OnTapeAt(pos, FALSE, Nothing, "none")
                  [] Backspaced(pos, 1) = 1 /\ Backspaced(pos, over) = over - 1 ->
                       OnTapeAt(0, FALSE, Nothing, "none")
                  [] Backspaced(pos, over) < over - 1 ->
                       OnTapeAt(0, FALSE, Nothing, "bogus tuple length in backward scan")
                  [] OTHER -> ReadBefore(pos - over)

(***************************************************************************)
(* Fetching while the last pass merges.                                    *)
(***************************************************************************)
FetchMerging ==
  /\ MayFetch("finalmerge")
  /\ IF mem.tuples = <<>>
       THEN /\ slab' = [slab EXCEPT !.free = ReleaseLast, !.last = FALSE]
            /\ result' = Nothing
            /\ UNCHANGED <<mem, tapes, error>>
       ELSE LET top == mem.tuples[1]
                next == PullNext(ReleaseLast)
            IN  /\ mem' = [mem EXCEPT !.tuples = next.heap]
                /\ tapes' = [tapes EXCEPT !.in[top.src] = next.in, !.inRuns = @ - next.ended]
                /\ slab' = [slab EXCEPT !.free = next.free, !.last = TRUE]
                /\ error' = Verdict(next.met)
                /\ result' = IF call.unique /\ next.met THEN NoCall ELSE Answer(top.key)
  /\ UNCHANGED cursor

(***************************************************************************)
(* Moving the cursor.  On tape tuplesort_skiptuples is a loop of fetches.  *)
(***************************************************************************)
RandomAccess == MayFetch(status) /\ status \in {"sortedinmem", "sortedontape"} /\ call.random
Stay == result' = NoCall /\ UNCHANGED <<mem, tapes, slab, error>>

Rescan == RandomAccess /\ Stay /\ cursor' = AtStart
MarkPos == /\ RandomAccess /\ Stay
           /\ cursor' = [cursor EXCEPT !.mark = cursor.current, !.markEof = cursor.eof]
RestorePos == /\ RandomAccess /\ Stay
              /\ cursor' = [cursor EXCEPT !.current = cursor.mark, !.eof = cursor.markEof]

\* What is reset for the next batch; abbreviation is not tried again.
Reset ==
  /\ error = "none" /\ pc = "idle" /\ call.role = "serial"
  /\ status \in {"sortedinmem", "sortedontape", "finalmerge"} /\ batch < call.batches
  /\ batch' = batch + 1
  /\ status' = "initial" /\ input' = <<>>
  /\ mem' = FreshMem(mem.size = InitialSize)
  /\ keys' = [keys EXCEPT !.bounded = FALSE, !.boundUsed = FALSE]
  /\ tapes' = NoTapes /\ slab' = NoSlab
  /\ result' = NoCall
  /\ UNCHANGED <<call, cursor, pc, error>>

Put == \E k \in Keys, abort \in BOOLEAN :
          \/ PutInMemory(k, abort)
          \/ PutMakesBoundedHeap(k, abort)
          \/ PutSpills(k, abort)
          \/ ~abort /\ PutInBoundedHeap(k)
          \/ ~abort /\ PutInRun(k)
Perform == SortInMemory \/ SortBoundedHeap \/ WorkerDumps \/ TakeOverTapes \/ FinishRuns
MergeRuns == StartFinalMerge \/ StartRun \/ MergeTuple \/ EndRun
Fetch == \/ FetchFromMemory \/ FetchBackFromMemory
         \/ FetchFromTape \/ FetchBackFromTape \/ FetchMerging
         \/ \E n \in Skips : SkipInMemory(n)
         \/ Rescan \/ MarkPos \/ RestorePos

Next == SetBound \/ Put \/ Perform \/ MergeRuns \/ Fetch \/ Reset

Spec == Init /\ [][Next]_vars

-----------------------------------------------------------------------------
\* The slab arena has a slot for every tuple that is read: "we should never run
\* out" (readtup_alloc).
SlabSuffices == slab.used => slab.free >= 0

\* While tuples are put a sort without a bounded heap keeps within workMem, and a
\* later batch exceeds it by the array of initial size at most (grow_memtuples,
\* puttuple_common, dumptuples).
WorkMemKept ==
  status \in {"initial", "buildruns"} /\ pc = "idle" =>
    mem.size * SlotMem + mem.live * TupleMem + mem.tape
      <= call.workMem + (IF batch = 1 THEN 0 ELSE InitialSize * SlotMem)

\* A sort keeps within the memory it has, while tuples are put as while its runs are
\* merged.
MemoryKept == SlabSuffices /\ WorkMemKept
=============================================================================

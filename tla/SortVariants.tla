---------------------------- MODULE SortVariants ----------------------------
(***************************************************************************)
(* What the tuple sort of rum (rum_fn.cpp) sorts and by which comparisons. *)
(* There are six kinds of sort: table rows, rows in the order of an index  *)
(* (cluster), entries of btree, GiST and hash indexes, and bare values.  A *)
(* tuple in memory keeps its leading key beside it: the value, a reference *)
(* to it, or an abbreviation that may be given up later; tapes hold no     *)
(* abbreviations.  Which comparison runs depends on the kind, the type,    *)
(* the number of keys, the state of the abbreviation and on whether        *)
(* quicksort or a heap asks.  How tuples move between memory and tapes is  *)
(* the subject of Tuplesort, and is kept short here.                       *)
(***************************************************************************)
EXTENDS Integers, Sequences, FiniteSets, SequencesExt

CONSTANTS
  Sorts,        \* the sorts that callers begin, each with the rows it may be given:
                \* [vals : a sequence over 0..3 and Null, tid]
  Null,
  Bits,         \* the width of a Datum; an int32 takes half of it
  AbbrevFirst   \* tuples before abbreviation is first judged

Expression == 0   \* the attribute number of an index column that is an expression
Raises == 2       \* what a comparison "returns" that reports a duplicate
TuplesPerBlock == 4   \* tuples are more compact on tape than in memory

VARIABLES
  sort,     \* the arguments of tuplesort_begin_xxx
  keys,     \* sortKeys: [col, reverse, nullsFirst, cmp]
  how,      \* abbrev (a converter is set), next, onlyKey, haveDatum1
  status,   \* TupSortStatus, and "merging" inside mergeruns
  bounded,  \* bounded and boundUsed
  mem,      \* memtuples: [tuple, datum1, isnull1, src]
  tapes,    \* a sequence of runs of written tuples; result: the frozen tape
  max,      \* maxSpace, isMaxSpaceDisk, maxSpaceStatus
  given,    \* what was put in this batch
  out,      \* what was fetched in this batch: [answer, abbrev]
  past,     \* the earlier batches: [disk, space]
  error

vars == <<sort, keys, how, status, bounded, mem, tapes, max, given, out, past, error>>

(***************************************************************************)
(* Values, and the words that stand for them.  A word of a type by value   *)
(* is its two's complement; a word of a type by reference is a place and   *)
(* the value found there.                                                  *)
(***************************************************************************)
ByRef == sort.type = "text"
Sign(n) == CASE n < 0 -> -1 [] n = 0 -> 0 [] OTHER -> 1
Signed(d, bits) == IF d >= 2 ^ (bits - 1) THEN d - 2 ^ bits ELSE d
Deref(d) == d % 10
DatumOf(v, place) == CASE v = Null -> 0
                       [] sort.type = "text" -> 10 * place + v
                       [] sort.type = "hash" -> v
                       [] OTHER -> (v - 2) % 2 ^ Bits
ValueOf(d) == IF ByRef THEN Deref(d) ELSE Signed(d, Bits) + 2
Abbreviation(v) == v \div 2

\* The value of a key of a row: an attribute, or the index expression (here the
\* negated last attribute), computed from the whole row.
KeyValue(r, col) ==
  IF col # Expression THEN r.vals[col] ELSE IF Last(r.vals) = Null THEN Null ELSE 3 - Last(r.vals)

(***************************************************************************)
(* Comparators.                                                            *)
(***************************************************************************)
CompareDatums(cmp, x, y) ==
  CASE cmp = "unsigned" -> Sign(x - y)
    [] cmp = "signed" -> Sign(Signed(x, Bits) - Signed(y, Bits))
    [] cmp = "int32" -> LET low(d) == Signed(d % 2 ^ (Bits \div 2), Bits \div 2)
                        IN  Sign(low(x) - low(y))
    [] OTHER -> Sign(Deref(x) - Deref(y))

ApplySortComparator(cmp, key, x, xnull, y, ynull) ==
  CASE xnull /\ ynull -> 0
    [] xnull -> IF key.nullsFirst THEN -1 ELSE 1
    [] ynull -> IF key.nullsFirst THEN 1 ELSE -1
    [] OTHER -> CompareDatums(cmp, x, y) * (IF key.reverse THEN -1 ELSE 1)

CompareKey(key, a, b) ==
  LET x == KeyValue(a.tuple, key.col)
      y == KeyValue(b.tuple, key.col)
  IN  ApplySortComparator("full", key, x, x = Null, y, y = Null)

FirstUnequal(s) == LET r == SelectSeq(s, LAMBDA n : n # 0)
                   IN  IF r = <<>> THEN 0 ELSE Head(r)
CompareKeysFrom(i, a, b) ==
  FirstUnequal([j \in 1..(Len(keys) - i + 1) |-> CompareKey(keys[i + j - 1], a, b)])

CompareLeading(a, b) ==
  ApplySortComparator(keys[1].cmp, keys[1], a.datum1, a.isnull1, b.datum1, b.isnull1)

\* The full comparison that settles equal abbreviations.
CompareAbbreviated(a, b) == IF how.abbrev THEN CompareKey(keys[1], a, b) ELSE 0

ComparetupHeap(a, b) ==
  FirstUnequal(<<CompareLeading(a, b), CompareAbbreviated(a, b), CompareKeysFrom(2, a, b)>>)

ComparetupCluster(a, b) ==
  IF ~how.haveDatum1 THEN CompareKeysFrom(1, a, b)
  ELSE LET leading == FirstUnequal(<<CompareLeading(a, b), CompareAbbreviated(a, b)>>)
       IN  IF leading # 0 \/ Len(keys) = 1 THEN leading ELSE CompareKeysFrom(2, a, b)

\* Mutant: a null leading key is not remembered.
EqualHasNullLater(a) == \E i \in 2..Len(keys) : KeyValue(a.tuple, keys[i].col) = Null

EqualHasNull(a) ==
  a.isnull1 \/ \E i \in 2..Len(keys) : KeyValue(a.tuple, keys[i].col) = Null

\* Equal keys of a unique index are an error unless one is null and nulls are
\* distinct; otherwise the place in the table decides.
ComparetupIndexBtree(a, b) ==
  LET byKeys == FirstUnequal(<<CompareLeading(a, b), CompareAbbreviated(a, b),
                               CompareKeysFrom(2, a, b)>>)
  IN  CASE byKeys # 0 -> byKeys
        [] sort.unique /\ (sort.nullsNotDistinct \/ ~EqualHasNull(a)) -> Raises
        [] OTHER -> Sign(a.tuple.tid - b.tuple.tid)

Bucket(hash) == IF hash % (sort.high + 1) > sort.max THEN hash % (sort.low + 1)
                                                     ELSE hash % (sort.high + 1)
ComparetupIndexHash(a, b) ==
  FirstUnequal(<<Sign(Bucket(a.datum1) - Bucket(b.datum1)),
                 Sign(a.tuple.tid - b.tuple.tid)>>)

\* The full value of a datum sort is where tuple points.
Pointed(t) == IF t.isnull1 THEN 0 ELSE t.tuple.vals[1]
ComparetupDatum(a, b) ==
  LET leading == CompareLeading(a, b)
  IN  IF leading # 0 \/ ~how.abbrev THEN leading
      ELSE ApplySortComparator("full", keys[1], Pointed(a), a.isnull1, Pointed(b), b.isnull1)

Comparetup(a, b) == CASE sort.variant = "heap" -> ComparetupHeap(a, b)
                      [] sort.variant = "cluster" -> ComparetupCluster(a, b)
                      [] sort.variant \in {"btree", "gist"} -> ComparetupIndexBtree(a, b)
                      [] sort.variant = "hash" -> ComparetupIndexHash(a, b)
                      [] OTHER -> ComparetupDatum(a, b)

\* Quicksort specialised for a fast comparator of the leading key.
QsortTupleFast(a, b) ==
  LET leading == CompareLeading(a, b)
  IN  IF leading # 0 \/ how.onlyKey THEN leading ELSE Comparetup(a, b)

\* The comparison of tuplesort_sort_memtuples.
QsortCompare(a, b) ==
  CASE how.haveDatum1 /\ keys # <<>> /\ keys[1].cmp \in {"unsigned", "signed", "int32"} ->
         QsortTupleFast(a, b)
    [] how.onlyKey -> CompareLeading(a, b)
    [] OTHER -> Comparetup(a, b)

(***************************************************************************)
(* tuplesort_begin_xxx.                                                    *)
(***************************************************************************)
TypeComparator == CASE sort.type = "int4" -> "int32"
                    [] sort.type = "int8" -> "signed"
                    [] OTHER -> "full"

\* The keys as the caller or the index defines them; the first one compares
\* abbreviations when the type has them and they may be used here.
SortKeys(abbrev) ==
  [i \in DOMAIN sort.keys |->
     [col |-> sort.keys[i].col, reverse |-> sort.keys[i].desc,
      nullsFirst |-> sort.keys[i].nullsFirst,
      cmp |-> CASE i = 1 /\ abbrev -> "unsigned" [] i = 1 -> TypeComparator [] OTHER -> "full"]]
Prepared(abbrev) ==
  [keys |-> SortKeys(abbrev),
   how |-> [abbrev |-> abbrev, next |-> AbbrevFirst, onlyKey |-> FALSE, haveDatum1 |-> TRUE]]

BeginHeap ==
  [Prepared(sort.abbreviates) EXCEPT !.how.onlyKey = Len(sort.keys) = 1 /\ ~sort.abbreviates]

\* Without a simple leading column the word beside a tuple is never set.
BeginCluster ==
  LET simple == sort.keys[1].col # Expression
  IN  [Prepared(simple /\ sort.abbreviates) EXCEPT !.how.haveDatum1 = simple]
BeginIndexBtree == Prepared(sort.abbreviates)
BeginIndexHash ==
  [keys |-> <<>>,
   how |-> [abbrev |-> FALSE, next |-> 0, onlyKey |-> FALSE, haveDatum1 |-> TRUE]]

\* A GiST sort has neither directions nor a first judgement of abbreviation.
BeginIndexGist ==
  LET p == Prepared(sort.abbreviates)
  IN  [p EXCEPT !.how.next = 0,
                !.keys = [i \in DOMAIN @ |-> [@[i] EXCEPT !.reverse = FALSE, !.nullsFirst = FALSE]]]
BeginDatum ==
  LET abbrev == ByRef /\ sort.abbreviates
  IN  [Prepared(abbrev) EXCEPT !.how.onlyKey = ~abbrev]

Begun == CASE sort.variant = "heap" -> BeginHeap
           [] sort.variant = "cluster" -> BeginCluster
           [] sort.variant = "btree" -> BeginIndexBtree
           [] sort.variant = "gist" -> BeginIndexGist
           [] sort.variant = "hash" -> BeginIndexHash
           [] OTHER -> BeginDatum

NoMax == [space |-> 0, disk |-> FALSE, status |-> "initial"]
NoTapes == [set |-> FALSE, runs |-> <<>>, blocks |-> 0, result |-> <<>>]

Init == /\ sort \in Sorts
        /\ keys = Begun.keys /\ how = Begun.how
        /\ status = "initial" /\ bounded = [on |-> FALSE, used |-> FALSE]
        /\ mem = <<>> /\ tapes = NoTapes /\ max = NoMax
        /\ given = <<>> /\ out = <<>> /\ past = <<>> /\ error = "none"

\* Abbreviation is given up: full comparator, no converter.
WithFullComparator ==
  /\ keys' = IF how.abbrev THEN [keys EXCEPT ![1].cmp = "full"] ELSE keys
  /\ how' = [how EXCEPT !.abbrev = FALSE]

SetBound ==
  /\ error = "none" /\ status = "initial" /\ given = <<>> /\ sort.bound > 0 /\ ~bounded.on
  /\ bounded' = [bounded EXCEPT !.on = TRUE]
  /\ WithFullComparator
  /\ UNCHANGED <<sort, status, mem, tapes, max, given, out, past, error>>

(***************************************************************************)
(* Copying a tuple in.  A value by reference is copied and is the tuple of *)
(* a datum sort; a null or a value by value has none.                      *)
(***************************************************************************)
NoTuple == [vals |-> <<>>, tid |-> 0]
LeadingOf(r) == IF keys = <<>> THEN r.vals[1] ELSE KeyValue(r, keys[1].col)
InTuple(v, r) == IF sort.variant = "datum" /\ (v = Null \/ ~ByRef) THEN NoTuple ELSE r

\* What is in memory where no leading key was stored: anything.
Unset(r) == [tuple |-> r, datum1 |-> sort.junk[r.tid], isnull1 |-> sort.junk[r.tid] = 0,
             src |-> 0]
Stored(r, abbrev, src) ==
  LET v == LeadingOf(r)
  IN  IF ~how.haveDatum1 THEN [Unset(r) EXCEPT !.src = src]
      ELSE [tuple |-> InTuple(v, r), isnull1 |-> v = Null, src |-> src,
            datum1 |-> IF abbrev /\ v # Null THEN Abbreviation(v) ELSE DatumOf(v, r.tid)]

\* consider_abort_common asks the type only now and then, and never for a null.
Judged(r) == /\ how.abbrev /\ LeadingOf(r) # Null
             /\ status = "initial" /\ Len(mem) >= how.next
RestoredDatum1(t) ==
  IF t.tuple = NoTuple THEN [t EXCEPT !.datum1 = 0]
  ELSE Stored(t.tuple, FALSE, t.src)

\* Memory after the copy (copytup_heap, copytup_cluster, tuplesort_putdatum): when
\* abbreviation is given up, every tuple gets its full leading key back.
Copytup(r, abort) ==
  IF abort THEN Append([i \in DOMAIN mem |-> RestoredDatum1(mem[i])], Stored(r, FALSE, 0))
  ELSE Append(mem, Stored(r, how.abbrev, 0))
CopiedKeys(r, abort) ==
  /\ keys' = IF abort THEN [keys EXCEPT ![1].cmp = "full"] ELSE keys
  /\ how' = IF Judged(r) THEN [how EXCEPT !.next = 2 * @, !.abbrev = ~abort] ELSE how

(***************************************************************************)
(* To tape and back.                                                       *)
(***************************************************************************)
WriteTup(t) ==
  CASE sort.variant = "datum" /\ t.isnull1 -> [kind |-> "null"]
    [] sort.variant = "datum" /\ ~ByRef -> [kind |-> "datum", datum |-> t.datum1]
    [] OTHER -> [kind |-> "tuple", tuple |-> t.tuple]
ReadTup(w, src) ==
  CASE w.kind = "null" -> [tuple |-> NoTuple, datum1 |-> 0, isnull1 |-> TRUE, src |-> src]
    [] w.kind = "datum" -> [tuple |-> NoTuple, datum1 |-> w.datum, isnull1 |-> FALSE,
                            src |-> src]
    [] OTHER -> Stored(w.tuple, FALSE, src)

Sorted(ts) == SortSeq(ts, LAMBDA a, b : QsortCompare(a, b) < 0)
MeetsDuplicate(ts) == \E i, j \in DOMAIN ts : i < j /\ QsortCompare(ts[i], ts[j]) = Raises
WrittenRun(ts) == LET s == Sorted(ts) IN [i \in DOMAIN s |-> WriteTup(s[i])]

\* dumptuples: sort what is in memory and write it as a run.
Dumped(n, run) == [tapes EXCEPT !.set = TRUE, !.runs = Append(@, run),
                                !.blocks = @ + (n + TuplesPerBlock - 1) \div TuplesPerBlock]

(***************************************************************************)
(* Putting.                                                                *)
(***************************************************************************)
MayPut(r) == /\ error = "none" /\ status \in {"initial", "bounded", "buildruns"}
             /\ Len(given) < sort.puts /\ ~Contains(given, r)
             /\ sort.variant = "hash" => r.vals[1] # Null
             /\ given' = Append(given, r)
             /\ UNCHANGED <<sort, max, out, past>>

LackMem(ts) == Len(ts) > sort.fits
BoundReached(ts) == /\ bounded.on
                    /\ Len(ts) > 2 * sort.bound \/ (Len(ts) > sort.bound /\ LackMem(ts))

\* An end of a sequence of tuples in the order of Comparetup, in the direction
\* the keys have at the moment; the top of a heap.
TopOf(ts, direction) ==
  CHOOSE i \in DOMAIN ts : \A j \in DOMAIN ts : direction * Comparetup(ts[i], ts[j]) <= 0

\* Mutant: nulls stay where they are.
ReversedButNulls(ks) == [i \in DOMAIN ks |-> [ks[i] EXCEPT !.reverse = ~@]]

\* Every key changes its direction, nulls included.
Reversed(ks) == [i \in DOMAIN ks |-> [ks[i] EXCEPT !.reverse = ~@, !.nullsFirst = ~@]]

\* make_bounded_heap keeps the smallest, here by leaving the largest out one by one.
SmallestOf(ts) ==
  LET kept[n \in sort.bound..Len(ts)] ==
        IF n = Len(ts) THEN ts
        ELSE LET more == kept[n + 1]
             IN  RemoveAt(more, TopOf(more, -1))
  IN  kept[sort.bound]

PutInMemory(r, abort) ==
  /\ status = "initial" /\ MayPut(r) /\ (abort => Judged(r))
  /\ LET ts == Copytup(r, abort)
     IN  ~BoundReached(ts) /\ ~LackMem(ts) /\ mem' = ts
  /\ CopiedKeys(r, abort)
  /\ UNCHANGED <<status, bounded, tapes, error>>

PutMakesBoundedHeap(r) ==
  /\ status = "initial" /\ MayPut(r)
  /\ LET ts == Copytup(r, FALSE)
     IN  BoundReached(ts) /\ mem' = SmallestOf(ts)
  /\ status' = "bounded" /\ keys' = Reversed(keys)
  /\ UNCHANGED <<how, bounded, tapes, error>>

\* A tuple that the reversed comparison does not put behind the top is dropped.
PutInBoundedHeap(r) ==
  /\ status = "bounded" /\ MayPut(r)
  /\ LET t == Stored(r, FALSE, 0)
         top == TopOf(mem, 1)
     IN  mem' = IF Comparetup(t, mem[top]) <= 0 THEN mem ELSE ReplaceAt(mem, top, t)
  /\ UNCHANGED <<keys, how, status, bounded, tapes, error>>

\* Memory is full: the tuples, the new one among them, become a run, sorted with the
\* comparator as it is after the copy.
PutSpills(r, abort) ==
  /\ status \in {"initial", "buildruns"} /\ MayPut(r) /\ (abort => Judged(r))
  /\ CopiedKeys(r, abort)
  /\ \E ts \in {Copytup(r, abort)} :
       /\ LackMem(ts) /\ ~BoundReached(ts)
       /\ tapes' = Dumped(Len(ts), WrittenRun(ts)')
       /\ error' = IF MeetsDuplicate(ts)' THEN "unique" ELSE error
  /\ mem' = <<>> /\ status' = "buildruns"
  /\ UNCHANGED bounded

PutInRun(r) ==
  /\ status = "buildruns" /\ MayPut(r)
  /\ LET ts == Copytup(r, FALSE) IN ~LackMem(ts) /\ mem' = ts
  /\ UNCHANGED <<keys, how, status, bounded, tapes, error>>

Put == \E r \in sort.rows :
         \/ PutMakesBoundedHeap(r) \/ PutInBoundedHeap(r) \/ PutInRun(r)
         \/ \E abort \in BOOLEAN : PutInMemory(r, abort) \/ PutSpills(r, abort)

(***************************************************************************)
(* tuplesort_performsort.                                                  *)
(***************************************************************************)
MayPerform == error = "none" /\ UNCHANGED <<sort, max, given, out, past>>

SortInMemory ==
  /\ status = "initial" /\ MayPerform
  /\ mem' = Sorted(mem)
  /\ error' = IF MeetsDuplicate(mem) THEN "unique" ELSE error
  /\ status' = "sortedinmem"
  /\ UNCHANGED <<keys, how, bounded, tapes>>

\* The heap is taken apart from the largest down, and the direction restored.
SortBoundedHeap ==
  /\ status = "bounded" /\ MayPerform
  /\ mem' = SortSeq(mem, LAMBDA a, b : Comparetup(a, b) > 0)
  /\ keys' = Reversed(keys) /\ bounded' = [bounded EXCEPT !.used = TRUE]
  /\ status' = "sortedinmem"
  /\ UNCHANGED <<how, tapes, error>>

\* beginmerge: the first tuple of every run; mergereadnext: the next one of a run.
HeadsOf(runs) == [i \in DOMAIN runs |-> ReadTup(Head(runs[i]), i)]
MergeRuns ==
  /\ status = "buildruns" /\ MayPerform
  /\ LET t == IF mem = <<>> THEN tapes ELSE Dumped(Len(mem), WrittenRun(mem))
     IN  /\ tapes' = [t EXCEPT !.runs = [i \in DOMAIN @ |-> Tail(@[i])]]
         /\ mem' = HeadsOf(t.runs)
  /\ error' = IF MeetsDuplicate(mem) THEN "unique" ELSE error
  /\ status' = IF sort.random THEN "merging" ELSE "finalmerge"
  /\ WithFullComparator
  /\ UNCHANGED bounded

\* The heap of the merge gives its smallest tuple up for the next one of its run.
HeadsMeetDuplicate == \E i, j \in DOMAIN mem : i # j /\ Comparetup(mem[i], mem[j]) = Raises
TakeHead(i) ==
  LET run == tapes.runs[mem[i].src]
  IN  mem' = IF run = <<>> THEN RemoveAt(mem, i)
             ELSE ReplaceAt(mem, i, ReadTup(Head(run), mem[i].src))
RestOfRun(i) == IF tapes.runs[mem[i].src] = <<>> THEN <<>> ELSE Tail(tapes.runs[mem[i].src])
Smallest(i) == \A j \in DOMAIN mem : Comparetup(mem[i], mem[j]) <= 0

MergeOneTuple ==
  /\ status = "merging" /\ mem # <<>> /\ MayPerform
  /\ IF HeadsMeetDuplicate
       THEN error' = "unique" /\ UNCHANGED <<mem, tapes>>
       ELSE \E i \in DOMAIN mem :
              /\ Smallest(i) /\ TakeHead(i)
              /\ tapes' = [tapes EXCEPT !.runs[mem[i].src] = RestOfRun(i),
                                        !.result = Append(@, WriteTup(mem[i]))]
              /\ UNCHANGED error
  /\ UNCHANGED <<keys, how, status, bounded>>

FreezeResult ==
  /\ status = "merging" /\ mem = <<>> /\ MayPerform
  /\ status' = "sortedontape"
  /\ UNCHANGED <<keys, how, bounded, mem, tapes, error>>

PerformSort == SortInMemory \/ SortBoundedHeap \/ MergeRuns \/ MergeOneTuple \/ FreezeResult

(***************************************************************************)
(* Fetching: what the caller gets for a tuple, and the abbreviation that    *)
(* goes with it.                                                           *)
(***************************************************************************)
Value(v) == [vals |-> <<v>>, tid |-> 0]
Answer(t) ==
  IF sort.variant # "datum" THEN t.tuple
  ELSE IF t.isnull1 THEN Value(Null)
  ELSE IF ~ByRef THEN Value(ValueOf(t.datum1)) ELSE Value(t.tuple.vals[1])

Fetched(t) == [answer |-> Answer(t), abbreviated |-> how.abbrev,
               abbrev |-> IF how.abbrev THEN t.datum1 ELSE 0]
MayGet == /\ error = "none"
          /\ UNCHANGED <<sort, keys, how, status, bounded, max, given, past>>

GetFromMemory ==
  /\ status = "sortedinmem" /\ Len(out) < Len(mem) /\ MayGet
  /\ out' = Append(out, Fetched(mem[Len(out) + 1]))
  /\ UNCHANGED <<mem, tapes, error>>

GetFromTape ==
  /\ status = "sortedontape" /\ Len(out) < Len(tapes.result) /\ MayGet
  /\ out' = Append(out, Fetched(ReadTup(tapes.result[Len(out) + 1], 0)))
  /\ UNCHANGED <<mem, tapes, error>>

GetMerging ==
  /\ status = "finalmerge" /\ mem # <<>> /\ MayGet
  /\ IF HeadsMeetDuplicate
       THEN error' = "unique" /\ UNCHANGED <<mem, tapes, out>>
       ELSE \E i \in DOMAIN mem :
              /\ Smallest(i) /\ TakeHead(i)
              /\ tapes' = [tapes EXCEPT !.runs[mem[i].src] = RestOfRun(i)]
              /\ out' = Append(out, Fetched(mem[i]))
              /\ UNCHANGED error

Get == GetFromMemory \/ GetFromTape \/ GetMerging

(***************************************************************************)
(* Statistics, and the next batch.                                         *)
(***************************************************************************)
SortedStatus == {"sortedinmem", "sortedontape", "finalmerge"}
Measure == [disk |-> tapes.set, space |-> IF tapes.set THEN tapes.blocks ELSE Len(mem)]

\* Space on disk counts for more than any space in memory.
UpdateMax ==
  IF \/ Measure.disk /\ ~max.disk
     \/ Measure.disk = max.disk /\ Measure.space > max.space
    THEN [space |-> Measure.space, disk |-> Measure.disk, status |-> status] ELSE max

SortMethod(m) == CASE m.status = "sortedinmem" -> IF bounded.used THEN "top-N heapsort"
                                                  ELSE "quicksort"
                   [] m.status = "sortedontape" -> "external sort"
                   [] m.status = "finalmerge" -> "external merge"
                   [] OTHER -> "still in progress"
GetStats == [space |-> UpdateMax.space, disk |-> UpdateMax.disk, method |-> SortMethod(UpdateMax)]

\* Only the sorts of rows are reset; what tuplesort_begin_heap set up stays, a
\* direction, a comparator and an abbreviation given up among it.
Reset ==
  /\ error = "none" /\ status \in SortedStatus
  /\ sort.variant = "heap" /\ Len(past) + 1 < sort.batches
  /\ max' = UpdateMax /\ past' = Append(past, Measure)
  /\ status' = "initial" /\ bounded' = [on |-> FALSE, used |-> FALSE]
  /\ mem' = <<>> /\ tapes' = NoTapes /\ given' = <<>> /\ out' = <<>>
  /\ UNCHANGED <<sort, keys, how, error>>

Next == SetBound \/ Put \/ PerformSort \/ Get \/ Reset
Spec == Init /\ [][Next]_vars

-----------------------------------------------------------------------------
\* The order that a caller asked for: a number for each key, the place in the
\* table after the keys of an index entry.
Rank(key, v) == CASE v = Null -> IF key.nullsFirst THEN -9 ELSE 9
                  [] OTHER -> IF key.desc THEN -v ELSE v
Asked == IF sort.variant # "gist" THEN sort.keys
         ELSE [i \in DOMAIN sort.keys |-> [sort.keys[i] EXCEPT !.desc = FALSE, !.nullsFirst = FALSE]]
KeyRanks(r) == [i \in DOMAIN Asked |-> Rank(Asked[i], KeyValue(r, Asked[i].col))]
Ranks(r) == CASE sort.variant \in {"btree", "gist"} -> Append(KeyRanks(r), r.tid)
              [] sort.variant = "hash" -> <<Bucket(r.vals[1]), r.tid>>
              [] OTHER -> KeyRanks(r)
AskedOrder(a, b) == LET x == Ranks(a)
                        y == Ranks(b)
                    IN  FirstUnequal([i \in DOMAIN x |-> Sign(x[i] - y[i])])
Conflict(a, b) == /\ sort.unique /\ KeyRanks(a) = KeyRanks(b)
                  /\ \/ sort.nullsNotDistinct
                     \/ \A i \in DOMAIN sort.keys : KeyValue(a, sort.keys[i].col) # Null

\* Whichever comparison quicksort or a heap uses between two tuples in memory,
\* with or without abbreviations, specialised or not, it answers as the order of
\* all keys does, and finds a duplicate exactly where there is one.
ComparisonsAgree ==
  \A i, j \in DOMAIN mem : i # j =>
    LET a == Answer(mem[i])
        b == Answer(mem[j])
        expected == IF Conflict(a, b) THEN Raises
                    ELSE AskedOrder(a, b) * (IF status = "bounded" THEN -1 ELSE 1)
    IN  /\ Comparetup(mem[i], mem[j]) = expected
        /\ status # "bounded" => QsortCompare(mem[i], mem[j]) = expected

Handed(r) == IF sort.variant = "datum" THEN Value(r.vals[1]) ELSE r
Answers == [i \in DOMAIN out |-> out[i].answer]
Exhausted == status \in SortedStatus
             /\ Len(out) = IF bounded.used THEN sort.bound ELSE Len(given)
InAskedOrder(s) == SortSeq([i \in DOMAIN s |-> Ranks(s[i])],
                           LAMBDA x, y : FirstUnequal([i \in DOMAIN x |-> Sign(x[i] - y[i])]) < 0)

\* "Caller can safely make a determination of non-equal tuple based on simple
\* binary inequality" of the abbreviations (tuplesort_getdatum,
\* tuplesort_gettupleslot): equal leading keys come with equal ones, a null with
\* zero, and either every tuple of a batch comes with one or none does.
AbbreviationsTell ==
  sort.variant \in {"heap", "datum"} =>
    \A i, j \in DOMAIN out :
      LET key(n) == KeyValue(out[n].answer, sort.keys[1].col)
      IN  /\ out[i].abbreviated = out[j].abbreviated
          /\ key(i) = key(j) => out[i].abbrev = out[j].abbrev
          /\ key(i) = Null => out[i].abbrev = 0

\* What is fetched is what was put, in the order of all keys, up to the bound; a
\* unique index is refused exactly when two of its rows are duplicates; and the
\* abbreviations that come along can be relied on (copytup_xxx, writetup_xxx,
\* readtup_xxx, tuplesort_getxxx).
SortedByAllKeys ==
  /\ \A i \in 1..(Len(out) - 1) : AskedOrder(out[i].answer, out[i + 1].answer) <= 0
  /\ ToSet(Answers) \subseteq {Handed(given[i]) : i \in DOMAIN given}
  /\ Exhausted /\ error = "none" =>
       [i \in DOMAIN out |-> Ranks(out[i].answer)] = SubSeq(InAskedOrder(given), 1, Len(out))
  /\ Exhausted \/ error # "none" =>
       (error # "none" <=> \E i, j \in DOMAIN given : i < j /\ Conflict(given[i], given[j]))
  /\ AbbreviationsTell

\* The statistics call a sort external exactly when some batch went to disk, and
\* state a space that no batch of that kind exceeded (tuplesort_updatemax).
StatsTell ==
  status \in SortedStatus =>
    LET measures == ToSet(Append(past, Measure))
    IN  /\ GetStats.disk <=> \E m \in measures : m.disk
        /\ GetStats.disk <=> GetStats.method \in {"external sort", "external merge"}
        /\ \A m \in measures : m.disk = GetStats.disk => m.space <= GetStats.space
=============================================================================

------------------------------ MODULE MCSorts -------------------------------
(***************************************************************************)
(* Small instances of the sort and of the parallel build that uses it, and *)
(* properties of the sort.  A behaviour is of one of the two.              *)
(*                                                                         *)
(* The calls of Tuplesort: memory is small, workMem 4 spills at every      *)
(* tuple, so that six tuples make six runs and three passes on two tapes;  *)
(* 12 spills at every two or three; 40 never spills.                       *)
(***************************************************************************)
EXTENDS Tuplesort, ParallelBuild

Serial == [role |-> "serial", workMem |-> 40, random |-> FALSE, bound |-> 0,
           unique |-> FALSE, abbrev |-> FALSE, runs |-> <<>>, puts |-> 6, batches |-> 1]
Worker == [Serial EXCEPT !.role = "worker"]
LeaderOf(runs) == [Serial EXCEPT !.role = "leader", !.runs = runs, !.puts = 0]

SomeCalls ==
  { [Serial EXCEPT !.workMem = 4, !.puts = 6],
    [Serial EXCEPT !.workMem = 12, !.puts = 7, !.abbrev = TRUE],
    [Serial EXCEPT !.workMem = 4, !.puts = 3, !.random = TRUE],
    [Serial EXCEPT !.puts = 3, !.random = TRUE, !.bound = 2],
    [Serial EXCEPT !.puts = 6, !.bound = 2, !.abbrev = TRUE, !.batches = 2],
    [Serial EXCEPT !.workMem = 12, !.puts = 4, !.bound = 1, !.abbrev = TRUE, !.batches = 3],
    [Serial EXCEPT !.workMem = 4, !.puts = 4, !.unique = TRUE],
    [Serial EXCEPT !.puts = 4, !.unique = TRUE, !.abbrev = TRUE],
    [Worker EXCEPT !.workMem = 4, !.puts = 4],
    [Worker EXCEPT !.puts = 3, !.unique = TRUE],
    LeaderOf(<< <<1, 2>>, <<>>, <<1>> >>),
    LeaderOf(<< <<2>>, <<1, 3>>, <<1, 2>>, <<3>> >>),
    [LeaderOf(<< <<1, 3>>, <<2, 3>>, <<2>> >>) EXCEPT !.unique = TRUE],
    [LeaderOf(<< <<>>, <<1, 3>>, <<2>> >>) EXCEPT !.unique = TRUE] }

-----------------------------------------------------------------------------
SortedStatus == {"sortedinmem", "sortedontape", "finalmerge"}
OnTapes(side) == FlattenSeq(FlattenSeq(side))
Untaken == IF status = "initial" THEN FlattenSeq(call.runs) ELSE <<>>
Pending == KeysOf(mem.tuples) \o OnTapes(tapes.in) \o OnTapes(tapes.out) \o Untaken

\* No tuple is lost or doubled between memory, the tapes that are read and the
\* tapes that are written (dumptuples, mergeonerun, mergereadnext); a sort that
\* used its bound keeps exactly the smallest tuples (make_bounded_heap), and what
\* a final merge has still to return is the largest tuples.
TuplesKept ==
  error = "none" =>
    LET kept == SortedKeys(Pending)
        n == Len(kept)
    IN  CASE status = "bounded" \/ keys.boundUsed ->
               kept = SubSeq(input, 1, call.bound)
          [] status = "finalmerge" -> kept = SubSeq(input, Len(input) - n + 1, Len(input))
          [] OTHER -> kept = input

-----------------------------------------------------------------------------
Remaining == Len(mem.tuples) + Len(OnTapes(tapes.in))
Position(p) == CASE status = "sortedinmem" -> p
                 [] status = "sortedontape" -> MinOf(p \div Words, Len(input))
                 [] OTHER -> 0
MarkOf(p, e) == [pos |-> Position(p), eof |-> e]
Sorted == status \in SortedStatus

Cursor == INSTANCE SortedCursor WITH
  Bounds <- {c.bound : c \in Calls} \ {0},
  phase <- IF error # "none" THEN "failed" ELSE IF Sorted THEN "sorted" ELSE "loading",
  items <- input,
  bound <- IF keys.bounded THEN call.bound ELSE 0,
  unique <- call.unique,
  random <- call.random,
  current <- IF status = "finalmerge" THEN Len(input) - Remaining
             ELSE IF Sorted THEN Position(cursor.current) ELSE 0,
  eof <- Sorted /\ call.random /\ cursor.eof,
  mark <- IF Sorted /\ call.random THEN MarkOf(cursor.mark, cursor.markEof) ELSE MarkOf(0, FALSE),
  result <- result

\* In memory, on tape or merging, the sort is one cursor over the tuples put, in
\* order: the positions "in-memory case does" are those on tape too, equal keys of
\* a unique sort never both reach the caller ("they *must* get compared at some
\* stage of the sort"), and no other error is met.
CursorSpec == Cursor!Spec

-----------------------------------------------------------------------------
\* The parallel build: two tuples with one key, which clash in a unique index when
\* both are alive.
Values == [t \in Tuples |-> 1]
Table(dead, unique, failures) == [dead |-> dead, unique |-> unique, failures |-> failures]
SomeTables == {Table({}, TRUE, 0), Table({2}, TRUE, 0), Table({2}, FALSE, 2)}

\* There is no build, or only a build and a sort that is never used.
NoBuild == /\ table = Table({}, TRUE, 0) /\ launched = {} /\ main = "none"
           /\ where = [p \in Participants |-> "start"]
           /\ Unstarted
OneCall == call = [Serial EXCEPT !.workMem = 4]

SortsInit == \/ Init /\ NoBuild
             \/ Init /\ OneCall /\ BuildInit
SortsNext == \/ main = "none" /\ Next /\ UNCHANGED buildVars
             \/ main # "none" /\ BuildNext /\ UNCHANGED vars
SortsSpec == SortsInit /\ [][SortsNext]_<<vars, buildVars>> /\ BuildFairness
=============================================================================

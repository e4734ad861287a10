---------------------------- MODULE ParallelBuild ----------------------------
(***************************************************************************)
(* The parallel part of the B-tree build (pg_bulkload_fn.cpp) and of the   *)
(* sort under it (rum_fn.cpp).  The leader launches workers, scans the     *)
(* table along with them, and waits until every participant has sorted its *)
(* share to a tape; then it takes the tapes over, merges and loads them.   *)
(* The participants meet in shared memory: the scan, the counters under    *)
(* spin locks, the tapes, and a condition variable.  Sort 1 is that of the *)
(* spool, sort 2 that of the dead tuples of a unique index.                *)
(***************************************************************************)
EXTENDS Integers, FiniteSets

CONSTANTS
  Workers,      \* the worker processes that the leader asks for
  Leader,       \* the leader's process
  Tuples,       \* the tuples of the table
  Value,        \* the key value of each tuple
  Tables        \* what is built: which tuples are dead, whether the index is
                \* unique, and how many workers fail at most

ASSUME BuildAssumption ==
  /\ IsFiniteSet(Workers) /\ Leader \notin Workers
  /\ IsFiniteSet(Tuples)
  /\ Tables \subseteq [dead : SUBSET Tuples, unique : BOOLEAN, failures : Nat]

Participants == Workers \cup {Leader}

VARIABLES
  table,        \* what is built
  launched,     \* the workers that were launched
  where,        \* where a participant is
  failed,       \* participants that ended with an error
  unscanned,    \* tuples that no participant has taken from the scan
  spooled,      \* the tuples that a participant has spooled
  ident,        \* ident[s][p]: a participant's identifier in sort s
  current,      \* currentWorker of sort s
  finished,     \* workersFinished of sort s
  tape,         \* tape[s][i]: the tuples on the tape of identifier i
  ndone,        \* nparticipantsdone
  havedead, indtuples,
  waiter,       \* the leader at the condition variable: listed, signalled
  main,         \* where the leader's main line is
  loaded,       \* loaded[s]: the tuples loaded from sort s
  cause         \* why the build failed

scan == <<unscanned, spooled>>
sorts == <<ident, current, finished, tape>>
stats == <<ndone, havedead, indtuples>>
leading == <<waiter, main, loaded, cause>>
buildVars == <<table, launched, where, failed, scan, sorts, stats, leading>>

Sorts == {1, 2}
Stages == {"start", "begin1", "begin2", "scan", "sort2", "record", "signal", "ended"}
nParticipants == Cardinality(launched) + 1
Unique == table.unique
Dead == table.dead
Places == 0..Cardinality(Workers)

BeginOf(s) == IF s = 1 THEN "begin1" ELSE "begin2"
SortOf(s) == IF s = 1 THEN "scan" ELSE "sort2"

\* Dead tuples of a unique index go to sort 2.
Share(s, ts) == IF Unique THEN (IF s = 1 THEN ts \ Dead ELSE ts \cap Dead)
                          ELSE (IF s = 1 THEN ts ELSE {})
Clash(ts) == \E t, u \in ts : t # u /\ Value[t] = Value[u]

\* What the participants share, before anything is done with it.
Unstarted == /\ failed = {}
             /\ unscanned = Tuples /\ spooled = [p \in Participants |-> {}]
             /\ ident = [s \in Sorts |-> [p \in Participants |-> 0]]
             /\ current = [s \in Sorts |-> 0] /\ finished = [s \in Sorts |-> 0]
             /\ tape = [s \in Sorts |-> [i \in Places |-> {}]]
             /\ ndone = 0 /\ havedead = FALSE /\ indtuples = 0
             /\ waiter = [listed |-> FALSE, signalled |-> FALSE]
             /\ loaded = [s \in Sorts |-> {}] /\ cause = "none"

(***************************************************************************)
(* _bt_begin_parallel: with no shared memory, or when no worker could be   *)
(* launched, the leader builds alone.                                      *)
(***************************************************************************)
BuildInit == /\ table \in Tables
             /\ launched \in SUBSET Workers
             /\ main = IF launched = {} THEN "serial" ELSE "participate"
             /\ where = [p \in Participants |-> IF p = Leader THEN "begin1" ELSE "start"]
             /\ Unstarted

(***************************************************************************)
(* A participant: a worker, or the leader as one.                          *)
(***************************************************************************)
Active(p) == /\ p \in launched \cup {Leader} /\ p \notin failed
             /\ launched # {} /\ main # "failed"
             /\ UNCHANGED <<table, launched>>
Goto(p, stage) == where' = [where EXCEPT ![p] = stage]

\* A worker starts, attaches to the shared memory and begins.
Attach(p) == /\ Active(p) /\ where[p] = "start"
             /\ Goto(p, "begin1")
             /\ UNCHANGED <<failed, scan, sorts, stats, leading>>

\* Mutant: the second sort counts with the counter of the first.
BeginSortShared(s, p) ==
  /\ Active(p) /\ where[p] = BeginOf(s)
  /\ ident' = [ident EXCEPT ![s][p] = current[1]]
  /\ current' = [current EXCEPT ![1] = @ + 1]
  /\ Goto(p, IF s = 1 /\ Unique THEN "begin2" ELSE "scan")
  /\ UNCHANGED <<failed, scan, finished, tape, stats, leading>>

\* tuplesort_begin_index_btree of a worker takes the next identifier.
BeginSort(s, p) ==
  /\ Active(p) /\ where[p] = BeginOf(s)
  /\ ident' = [ident EXCEPT ![s][p] = current[s]]
  /\ current' = [current EXCEPT ![s] = @ + 1]
  /\ Goto(p, IF s = 1 /\ Unique THEN "begin2" ELSE "scan")
  /\ UNCHANGED <<failed, scan, finished, tape, stats, leading>>

ScanTuple(p, t) ==
  /\ Active(p) /\ where[p] = "scan" /\ t \in unscanned
  /\ unscanned' = unscanned \ {t}
  /\ spooled' = [spooled EXCEPT ![p] = @ \cup {t}]
  /\ UNCHANGED <<where, failed, sorts, stats, leading>>

\* When the scan has no more, the spools are sorted.  The sort of a unique index
\* reports equal keys; otherwise the one run goes to the
\* participant's tape, which is then the leader's to read.
PerformSort(s, p) ==
  /\ Active(p) /\ where[p] = SortOf(s) /\ unscanned = {}
  /\ IF Unique /\ s = 1 /\ Clash(Share(1, spooled[p]))
       THEN /\ failed' = failed \cup {p}
            /\ UNCHANGED <<where, tape, finished>>
       ELSE /\ tape' = [tape EXCEPT ![s][ident[s][p]] = Share(s, spooled[p])]
            /\ finished' = [finished EXCEPT ![s] = @ + 1]
            /\ Goto(p, IF s = 1 /\ Unique THEN "sort2" ELSE "record")
            /\ UNCHANGED failed
  /\ UNCHANGED <<scan, ident, current, stats, leading>>

\* Mutant: that there were dead tuples is not recorded.
RecordNoDead(p) ==
  /\ Active(p) /\ where[p] = "record"
  /\ ndone' = ndone + 1
  /\ indtuples' = indtuples + Cardinality(spooled[p])
  /\ Goto(p, "signal")
  /\ UNCHANGED <<failed, scan, sorts, havedead, leading>>

\* The shared counts and flags, in one step under the mutex.
Record(p) ==
  /\ Active(p) /\ where[p] = "record"
  /\ ndone' = ndone + 1
  /\ havedead' = (havedead \/ Share(2, spooled[p]) # {})
  /\ indtuples' = indtuples + Cardinality(spooled[p])
  /\ Goto(p, "signal")
  /\ UNCHANGED <<failed, scan, sorts, leading>>

\* ConditionVariableSignal takes the leader off the list and sets its latch.
Signal(p) ==
  /\ Active(p) /\ where[p] = "signal"
  /\ waiter' = IF waiter.listed THEN [listed |-> FALSE, signalled |-> TRUE] ELSE waiter
  /\ Goto(p, "ended")
  /\ UNCHANGED <<failed, scan, sorts, stats, main, loaded, cause>>

\* A worker does not start, or meets an error, or is terminated.
Fail(p) == /\ p \in launched \ failed /\ where[p] # "ended" /\ main # "failed"
           /\ Cardinality(failed \cap Workers) < table.failures
           /\ failed' = failed \cup {p}
           /\ UNCHANGED <<table, launched, where, scan, sorts, stats, leading>>

(***************************************************************************)
(* The leader's main line.                                                 *)
(***************************************************************************)
Leading(at) == main = at /\ UNCHANGED <<table, launched, where, failed, scan, sorts, stats>>
GiveUp(why) == main' = "failed" /\ cause' = why

\* Alone, the leader scans and sorts the table in its own two spools.
BuildAlone ==
  /\ Leading("serial")
  /\ IF Unique /\ Clash(Share(1, Tuples))
       THEN GiveUp("equal keys") /\ UNCHANGED loaded
       ELSE /\ loaded' = [s \in Sorts |-> Share(s, Tuples)]
            /\ main' = "done" /\ UNCHANGED cause
  /\ UNCHANGED waiter

EndParticipation ==
  /\ Leading("participate")
  /\ \/ where[Leader] = "ended" /\ main' = "attach" /\ UNCHANGED cause
     \/ Leader \in failed /\ GiveUp("equal keys")
  /\ UNCHANGED <<waiter, loaded>>

\* WaitForParallelWorkersToAttach: a worker that failed to start is an error.
WaitForAttach ==
  /\ Leading("attach")
  /\ \/ /\ \E p \in launched \cap failed : where[p] = "start"
        /\ GiveUp("worker failed")
     \/ /\ \A p \in launched : where[p] # "start"
        /\ main' = "wait" /\ UNCHANGED cause
  /\ UNCHANGED <<waiter, loaded>>

\* Mutant: one participant too few is waited for.
AllDoneEarly == ndone = Cardinality(launched)

AllDone == ndone = nParticipants

\* Mutant: the leader sleeps without being on the list.
CheckDoneUnlisted ==
  /\ Leading("wait")
  /\ IF AllDone THEN main' = "takeover1" ELSE main' = "sleep"
  /\ UNCHANGED <<waiter, loaded, cause>>

\* _bt_parallel_heapscan: the first ConditionVariableSleep only enters the list,
\* and the condition is looked at once more.
CheckDone ==
  /\ Leading("wait")
  /\ CASE AllDone -> /\ main' = "takeover1"
                     /\ waiter' = [listed |-> FALSE, signalled |-> FALSE]
       [] ~AllDone /\ ~waiter.listed ->
                     /\ waiter' = [listed |-> TRUE, signalled |-> FALSE]
                     /\ UNCHANGED main
       [] OTHER -> main' = "sleep" /\ UNCHANGED waiter
  /\ UNCHANGED <<loaded, cause>>

Wake == /\ Leading("sleep") /\ waiter.signalled
        /\ waiter' = [listed |-> TRUE, signalled |-> FALSE]
        /\ main' = "wait"
        /\ UNCHANGED <<loaded, cause>>

\* leader_takeover_tapes, then the merge of the tapes.
TakeOver(s) ==
  /\ Leading(IF s = 1 THEN "takeover1" ELSE "takeover2")
  /\ LET taken == UNION {tape[s][i] : i \in 0..(nParticipants - 1)}
     IN  CASE finished[s] # nParticipants ->
                GiveUp("cannot take over tapes") /\ UNCHANGED loaded
           [] finished[s] = nParticipants /\ Unique /\ s = 1 /\ Clash(taken) ->
                GiveUp("equal keys") /\ UNCHANGED loaded
           [] OTHER -> /\ loaded' = [loaded EXCEPT ![s] = taken]
                       \* an empty second spool was destroyed
                       /\ main' = IF s = 1 /\ Unique /\ havedead THEN "takeover2"
                                                                 ELSE "loaded"
                       /\ UNCHANGED cause
  /\ UNCHANGED waiter

\* _bt_end_parallel: the workers exit, and an error of one is the leader's.
EndParallel ==
  /\ Leading("loaded")
  /\ \/ launched \cap failed # {} /\ GiveUp("worker failed")
     \/ /\ \A p \in launched : where[p] = "ended"
        /\ main' = "done" /\ UNCHANGED cause
  /\ UNCHANGED <<waiter, loaded>>

\* The error of a worker that had attached interrupts the leader wherever it is.
NoticeFailure ==
  /\ main \in {"participate", "attach", "wait", "sleep", "takeover1", "takeover2"}
  /\ Leading(main)
  /\ \E p \in launched \cap failed : where[p] # "start"
  /\ GiveUp("worker failed")
  /\ UNCHANGED <<waiter, loaded>>

Step(p) == \/ Attach(p) \/ Record(p) \/ Signal(p)
           \/ \E s \in Sorts : BeginSort(s, p) \/ PerformSort(s, p)
           \/ \E t \in Tuples : ScanTuple(p, t)
Lead == \/ BuildAlone \/ EndParticipation \/ WaitForAttach \/ CheckDone \/ Wake
        \/ \E s \in Sorts : TakeOver(s)
        \/ EndParallel \/ NoticeFailure

BuildNext == \/ \E p \in Participants : Step(p) \/ Fail(p)
        \/ Lead

\* Each process that can go on does so.
BuildFairness == /\ \A p \in Participants : WF_buildVars(Step(p))
                 /\ WF_buildVars(Lead)

BuildSpec == BuildInit /\ [][BuildNext]_buildVars /\ BuildFairness

-----------------------------------------------------------------------------
Begun(s) == IF s = 1 THEN Stages \ {"start", "begin1"}
            ELSE IF Unique THEN Stages \ {"start", "begin1", "begin2"} ELSE {}
Frozen(s) == IF s = 1 THEN {"sort2", "record", "signal", "ended"}
             ELSE IF Unique THEN {"record", "signal", "ended"} ELSE {}
Recorded == {"signal", "ended"}
At(stages) == {p \in launched \cup {Leader} : where[p] \in stages}

\* Identifiers "need only be distinct and gapless" (worker_get_identifier,
\* rum_fn.cpp:4503): those given out so far are 0 to currentWorker - 1, one each, and
\* fit the tapes that were set up for the workers asked for.
IdentifiersGapless ==
  \A s \in Sorts :
    /\ \A p, q \in At(Begun(s)) : ident[s][p] = ident[s][q] => p = q
    /\ {ident[s][p] : p \in At(Begun(s))} = 0..(current[s] - 1)
    /\ current[s] <= Cardinality(Workers) + 1

\* The leader, which waits for nparticipantsdone alone, never finds a tape that is not
\* finished, in either sort ("cannot take over tapes before all workers finish",
\* leader_takeover_tapes; _bt_parallel_scan_and_sort, _bt_parallel_heapscan).
TapesFinishedWhenTaken == cause # "cannot take over tapes"

\* A build that succeeds has loaded every tuple, the dead ones of a unique index
\* from sort 2, has counted them all, and no two live tuples of a unique index have
\* equal keys, whoever scanned them (btbuild, _bt_parallel_scan_and_sort,
\* _bt_spools_heapscan).
EveryTupleLoaded ==
  main = "done" =>
    /\ \A s \in Sorts : loaded[s] = Share(s, Tuples)
    /\ Unique => ~Clash(Tuples \ Dead)
    /\ launched # {} => indtuples = Cardinality(Tuples)

\* A build that is begun ends although workers fail to start or fail later: the leader "will not
\* hang forever" (pg_bulkload_fn.cpp:1570, _bt_begin_parallel, _bt_parallel_heapscan).
BuildEnds == main \in {"serial", "participate"} ~> main \in {"done", "failed"}

=============================================================================

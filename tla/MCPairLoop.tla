----------------------------- MODULE MCPairLoop -----------------------------
(***************************************************************************)
(* Small instances of PairLoop over the sample database.                   *)
(***************************************************************************)
EXTENDS PairLoop, SampleDB

ASSUME DatabaseTyped == \A n \in Described : Database[n] \in EntryType(AllOpts)

InjectiveName(p) == p

ThreeExtns == <<crypto, jwt, citus>>
ThreeExtnsPairs == OrderedPairs(ThreeExtns)

(* The suite of drift may lose a file, which only its own pair finds out,  *)
(* and validation lets check pass although its dependency has no entry.    *)
(* The first pair is there twice.                                          *)
FailingList == <<<<tle, jwt>>, <<jwt, drift>>, <<tle, jwt>>, <<tle, check>>>>
FailingExtns == <<tle, jwt, drift, check>>

(* Bound: of the reports that a run finds from the run before, only the    *)
(* one that calls every pair compatible; nothing reads the rows of a report*)
(* that is there.                                                          *)
OldReportAllTrue ==
  runs > 1 /\ Running /\ csv.state = "written" => ToSet(csv.rows) = {TRUE}
=============================================================================

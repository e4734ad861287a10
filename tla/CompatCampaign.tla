--------------------------- MODULE CompatCampaign ---------------------------
(***************************************************************************)
(* What a compatibility run promises, with PostgreSQL, the pairs and the   *)
(* host abstracted away: N pairs are judged one after the other, a verdict *)
(* is never revised, and a report is written only when every pair has one. *)
(* A campaign may end early at any point; its verdicts are then lost, and  *)
(* the report is the earlier one, or empty if it had just been opened.     *)
(***************************************************************************)
EXTENDS Naturals, Sequences

CONSTANT N    \* the number of pairs

VARIABLES
  phase,      \* "idle" or "testing"
  judged,     \* the verdicts so far
  report      \* the report file

vars == <<phase, judged, report>>

Missing == [state |-> "missing", rows |-> << >>]
Torn == [state |-> "torn", rows |-> << >>]
Written(rows) == [state |-> "written", rows |-> rows]

Init == phase = "idle" /\ judged = << >> /\ report = Missing

(* A program starts; one with an unusable list is over at once.            *)
Begin ==
  /\ phase = "idle"
  /\ phase' \in {"idle", "testing"} /\ judged' = << >>
  /\ UNCHANGED report

Judge ==
  /\ phase = "testing" /\ Len(judged) < N
  /\ \E v \in BOOLEAN : judged' = Append(judged, v)
  /\ UNCHANGED <<phase, report>>

OpenReport ==
  /\ phase = "testing" /\ Len(judged) = N
  /\ report' = Torn
  /\ UNCHANGED <<phase, judged>>

(* The report is complete and the campaign over in the same step.          *)
Publish ==
  /\ phase = "testing" /\ Len(judged) = N /\ report = Torn
  /\ report' = Written(judged) /\ phase' = "idle"
  /\ UNCHANGED judged

Abandon ==
  /\ phase = "testing" /\ phase' = "idle"
  /\ UNCHANGED <<judged, report>>

Next == Begin \/ Judge \/ OpenReport \/ Publish \/ Abandon

Spec == Init /\ [][Next]_vars

-----------------------------------------------------------------------------
(* A written report has a verdict for every pair.                          *)
ReportComplete == report.state = "written" => Len(report.rows) = N
=============================================================================

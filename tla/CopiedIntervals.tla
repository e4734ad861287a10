--------------------------- MODULE CopiedIntervals ---------------------------
(***************************************************************************)
(* How source_code_analysis.py counts the copied lines of one source file: *)
(* run_cpd_analysis collects intervals from CPD's report in three mappings *)
(* (copied from PostgreSQL, within the extension, in total), then merges   *)
(* and counts each of them.  Python lists hold references: the mappings    *)
(* share their [start, end] cells, and merging writes into the cells.      *)
(* heap is those cells, a reference is a position in it.                   *)
(***************************************************************************)
EXTENDS Naturals, Sequences, FiniteSets, SequencesExt

CONSTANTS
  FileLen,     \* lines of the file
  MaxErrs      \* bound: how many duplications CPD reports

ASSUME CopiedIntervalsAssumption == FileLen \in Nat \ {0} /\ MaxErrs \in Nat

VARIABLES
  heap,        \* the [start, end] cells, lines counted from 0, inclusive
  pg, ex, tot, \* postgres_err_mapping, extn_err_mapping, total_err_mapping
  cpc,         \* the next statement
  errs,        \* how many duplications were read
  written,     \* the intervals in <extn>_err_mapping.txt
  loc,         \* the line counts, by mapping, as far as computed
  pgLines,     \* history: the lines CPD reported as copied from PostgreSQL
  exLines      \* history: and those copied within the extension

cpdVars == <<heap, pg, ex, tot, cpc, errs, written, loc, pgLines, exLines>>

Lines(itvl) == itvl[1] .. itvl[2]

-----------------------------------------------------------------------------
(* parse_interval: CPD counts lines from 1.                                *)
ParseInterval(start, num_lines) ==
  LET last == start - 1 + num_lines - 1
  IN  <<start - 1, IF last < FileLen - 1 THEN last ELSE FileLen - 1>>

(* get_merged_interval: the caller's list is sorted in place, and the cell *)
(* that ends a group grows in place; the result refers to the same cells.  *)
Sorted(h, refs) == SortSeq(refs, LAMBDA a, b : h[a][1] < h[b][1])

MergeStep(acc, r) ==
  IF acc.merged = << >> \/ acc.heap[Last(acc.merged)][2] + 1 < acc.heap[r][1]
  THEN [acc EXCEPT !.merged = Append(@, r)]
  ELSE LET m == Last(acc.merged)
       IN  IF acc.heap[r][2] > acc.heap[m][2]
           THEN [acc EXCEPT !.heap[m][2] = acc.heap[r][2]] ELSE acc

GetMergedInterval(h, refs) ==
  FoldLeft(MergeStep, [heap |-> h, merged |-> << >>], Sorted(h, refs))

(* convert_mapping_to_stats: the sum of the lengths of merged intervals.   *)
CountLines(h, merged) ==
  FoldLeft(LAMBDA n, r : n + h[r][2] - h[r][1] + 1, 0, merged)

-----------------------------------------------------------------------------
NotYet == [tot |-> 0, pg |-> 0, ex |-> 0]

CpdInit ==
  /\ heap = << >> /\ pg = << >> /\ ex = << >> /\ tot = << >>
  /\ cpc = "read" /\ errs = 0 /\ written = << >> /\ loc = NotYet
  /\ pgLines = {} /\ exLines = {}

(* One duplication of CPD's report: process_err makes new cells, and       *)
(* update_error_mapping adds references to them to two of the mappings.    *)
ReadErr(starts, num_lines, fromPostgres) ==
  LET cells == [k \in DOMAIN starts |-> ParseInterval(starts[k], num_lines)]
      refs == [k \in DOMAIN starts |-> Len(heap) + k]
      lines == UNION {Lines(cells[k]) : k \in DOMAIN cells}
  IN  /\ cpc = "read" /\ errs < MaxErrs
      /\ heap' = heap \o cells
      /\ IF fromPostgres
         THEN /\ pg' = pg \o refs /\ pgLines' = pgLines \cup lines
              /\ UNCHANGED <<ex, exLines>>
         ELSE /\ ex' = ex \o refs /\ exLines' = exLines \cup lines
              /\ UNCHANGED <<pg, pgLines>>
      /\ tot' = tot \o refs
      /\ errs' = errs + 1
      /\ UNCHANGED <<cpc, written, loc>>

(* A duplication has one or two places in this file.  process_err sorts    *)
(* them as text, where line 10 comes before line 2: any order is possible. *)
StartLists == {<<s>> : s \in 1 .. FileLen}
              \cup {<<s, t>> : s, t \in 1 .. FileLen}

ReadAny ==
  \E starts \in StartLists, n \in 1 .. FileLen, fromPostgres \in BOOLEAN :
    /\ IsInjective(starts)
    /\ ReadErr(starts, n, fromPostgres)

(* output_error_mapping(convert_mapping_to_itvl_map(postgres_err_mapping)).*)
OutputMapping ==
  /\ cpc = "read" /\ errs > 0
  /\ LET m == GetMergedInterval(heap, pg) IN
       /\ heap' = m.heap /\ pg' = Sorted(heap, pg)
       /\ written' = [k \in DOMAIN m.merged |-> m.heap[m.merged[k]]]
  /\ cpc' = "total"
  /\ UNCHANGED <<ex, tot, errs, loc, pgLines, exLines>>

CountTotal ==
  /\ cpc = "total"
  /\ LET m == GetMergedInterval(heap, tot) IN
       /\ heap' = m.heap /\ tot' = Sorted(heap, tot)
       /\ loc' = [loc EXCEPT !.tot = CountLines(m.heap, m.merged)]
  /\ cpc' = "postgres"
  /\ UNCHANGED <<pg, ex, errs, written, pgLines, exLines>>

CountPostgres ==
  /\ cpc = "postgres"
  /\ LET m == GetMergedInterval(heap, pg) IN
       /\ heap' = m.heap /\ pg' = Sorted(heap, pg)
       /\ loc' = [loc EXCEPT !.pg = CountLines(m.heap, m.merged)]
  /\ cpc' = "extn"
  /\ UNCHANGED <<ex, tot, errs, written, pgLines, exLines>>

CountExtn ==
  /\ cpc = "extn"
  /\ LET m == GetMergedInterval(heap, ex) IN
       /\ heap' = m.heap /\ ex' = Sorted(heap, ex)
       /\ loc' = [loc EXCEPT !.ex = CountLines(m.heap, m.merged)]
  /\ cpc' = "done"
  /\ UNCHANGED <<pg, tot, errs, written, pgLines, exLines>>

CpdNext == ReadAny \/ OutputMapping \/ CountTotal \/ CountPostgres \/ CountExtn

CpdSpec == CpdInit /\ [][CpdNext]_cpdVars

-----------------------------------------------------------------------------
(* What is right in spite of the shared cells: the mapping written to      *)
(* <extn>_err_mapping.txt is the PostgreSQL copies and nothing else, in    *)
(* order, with no two intervals that touch; and every copied line is       *)
(* counted once in the total, although a part of its cells was merged      *)
(* before.                                                                 *)
TotalIsExact ==
  /\ cpc # "read" =>
       /\ UNION {Lines(written[k]) : k \in DOMAIN written} = pgLines
       /\ \A k \in 1 .. Len(written) - 1 : written[k][2] + 1 < written[k + 1][1]
  /\ cpc \in {"postgres", "extn", "done"} => loc.tot = Cardinality(pgLines \cup exLines)

(* What the comment source_code_analysis.py:248 says is returned: the lines*)
(* copied from PostgreSQL, besides the total and the extension's own.      *)
PostgresCountExact == cpc \in {"extn", "done"} => loc.pg = Cardinality(pgLines)
=============================================================================

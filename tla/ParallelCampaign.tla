-------------------------- MODULE ParallelCampaign --------------------------
(***************************************************************************)
(* A campaign over a list, in one of two ways.  One process in pairwise    *)
(* mode judges all pairs and writes the table.  Or list_to_pairs splits    *)
(* the pairs, a worker runs pairwise-parallel mode on each list file, the  *)
(* reports that came back are put in one directory, and parallel_csv       *)
(* merges them.  A worker publishes a report of all its pairs or none      *)
(* (CompatCampaign); it may be run again, and its report replaced.         *)
(*                                                                         *)
(* First, how verdicts become a table: the index walk of pairwise_mode,    *)
(* the split of a list into list files (util/list_to_pairs.py), and the    *)
(* merge of the workers' reports (util/parallel_csv.py).  A table is a     *)
(* sequence of rows <<name, cells>>.                                       *)
(***************************************************************************)
EXTENDS ExtnDB

Answer(v) == IF v THEN "yes" ELSE "no"

(* pairwise_mode: one index i runs through the verdicts, row by row.       *)
PairwiseRow(list, verdicts, extn, i) ==
  FoldLeft(LAMBDA acc, other :
             IF other = extn THEN [acc EXCEPT !.cells = Append(@, "n/a")]
             ELSE [cells |-> Append(acc.cells, Answer(verdicts[acc.i])), i |-> acc.i + 1],
           [cells |-> << >>, i |-> i], list)

(* Mutant: the index starts again in every row.                            *)
TableRestartingIndex(list, verdicts) ==
  [r \in DOMAIN list |-> <<list[r], PairwiseRow(list, verdicts, list[r], 1).cells>>]

PairwiseTable(list, verdicts) ==
  FoldLeft(LAMBDA acc, extn :
             LET row == PairwiseRow(list, verdicts, extn, acc.i)
             IN  [table |-> Append(acc.table, <<extn, row.cells>>), i |-> row.i],
           [table |-> << >>, i |-> 1], list).table

-----------------------------------------------------------------------------
(* Mutant: the options of the two extensions alone.                        *)
OptionsKeyDirect(pair) == GetConfigureOptions(pair)

(* list_to_pairs: what decides which file a pair is in.                    *)
OptionsKey(pair) == GetConfigureOptions(WithDeps(pair[1]) \o WithDeps(pair[2]))

(* The pairs of a list, one file for each set of configure options, in the *)
(* order in which the sets first appear.                                   *)
ListFiles(list) ==
  LET pairs == OrderedPairs(list)
      keys == AppendAllNew(<< >>, [k \in DOMAIN pairs |-> OptionsKey(pairs[k])])
  IN  [k \in DOMAIN keys |-> Selected(pairs, {p \in ToSet(pairs) : OptionsKey(p) = keys[k]})]

(* Mutant: the columns of the two extensions in the other order.           *)
ReportRowsSwapped(pairs, verdicts) ==
  [k \in DOMAIN pairs |-> <<pairs[k][2], pairs[k][1], verdicts[k]>>]

(* pairwise_parallel.csv: one row <<first, second, verdict>> for each pair.*)
ReportRows(pairs, verdicts) ==
  [k \in DOMAIN pairs |-> <<pairs[k][1], pairs[k][2], verdicts[k]>>]

(* parallel_csv: results_db, where a later row of the same pair wins.      *)
AddRow(db, row) ==
  LET pair == <<row[1], row[2]>>
  IN  [p \in DOMAIN db \cup {pair} |-> IF p = pair THEN row[3] ELSE db[p]]

AddReport(db, rows) == FoldLeft(AddRow, db, rows)

ResultsDb(reports) == FoldLeft(AddReport, [p \in {} |-> FALSE], reports)

(* The row of second_extn, and the rows up to the first missing pair, where*)
(* the program fails its assertion.                                        *)
MergedRow(list, db, second_extn) ==
  [c \in DOMAIN list |->
     IF list[c] = second_extn THEN "n/a" ELSE Answer(db[<<list[c], second_extn>>])]

RowKnown(list, db, second_extn) ==
  \A c \in DOMAIN list : list[c] = second_extn \/ <<list[c], second_extn>> \in DOMAIN db

MergedTable(list, db) ==
  LET bad == {r \in DOMAIN list : ~RowKnown(list, db, list[r])}
      last == IF bad = {} THEN Len(list) ELSE (CHOOSE r \in bad : \A q \in bad : r <= q) - 1
  IN  [r \in 1 .. last |-> <<list[r], MergedRow(list, db, list[r])>>]
-----------------------------------------------------------------------------
CONSTANTS
  CampaignLists, \* the list files of extensions, names possibly repeated
  MaxEnded       \* bound: how many worker runs end in all

ASSUME ParallelCampaignAssumption ==
  CampaignLists \subseteq Seq(Names) /\ MaxEnded \in Nat \ {0} /\ ProperDatabase

VARIABLES
  extnList, \* the list of this campaign
  lists,    \* the list files of its pairs, one for each worker
  reports,  \* the reports in the directory, by list file; << >> if missing
  ended,    \* how many workers have ended
  table,    \* pairwise.csv
  judged,   \* history: the verdicts of pairwise mode's only process
  truth     \* history: the last verdict the workers gave each pair

parallelVars == <<extnList, lists, reports, ended, table, judged, truth>>

ParallelInit ==
  /\ extnList \in CampaignLists /\ lists = ListFiles(extnList)
  /\ reports = [f \in DOMAIN lists |-> << >>]
  /\ ended = 0
  /\ table = << >> /\ judged = << >> /\ truth = << >>

(* pairwise_mode, instead of any worker.                                   *)
PairwiseReports ==
  /\ ended = 0 /\ ended' = MaxEnded
  /\ judged' \in [DOMAIN OrderedPairs(extnList) -> BOOLEAN]
  /\ table' = PairwiseTable(extnList, judged')
  /\ UNCHANGED <<extnList, lists, reports, truth>>

(* A worker ends with a report; of a pair listed twice the later verdict   *)
(* counts.                                                                 *)
WorkerReports(f) ==
  /\ ended < MaxEnded /\ ended' = ended + 1
  /\ \E verdicts \in [DOMAIN lists[f] -> BOOLEAN] :
       /\ reports' = [reports EXCEPT ![f] = ReportRows(lists[f], verdicts)]
       /\ truth' = [p \in DOMAIN truth \cup ToSet(lists[f]) |->
                      IF p \in ToSet(lists[f])
                      THEN verdicts[Max({k \in DOMAIN lists[f] : lists[f][k] = p})]
                      ELSE truth[p]]
  /\ UNCHANGED <<extnList, lists, table, judged>>

(* parallel_csv, reading the files in the order os.listdir happens to use. *)
Orders == {o \in [DOMAIN lists -> DOMAIN lists] : IsInjective(o)}

Merged(order) ==
  MergedTable(extnList, ResultsDb([k \in DOMAIN lists |-> reports[order[k]]]))

Merge ==
  /\ \E order \in Orders : table' = Merged(order)
  /\ UNCHANGED <<extnList, lists, reports, ended, judged, truth>>

ParallelNext == PairwiseReports \/ Merge \/ \E f \in DOMAIN lists : WorkerReports(f)

ParallelSpec == ParallelInit /\ [][ParallelNext]_parallelVars

-----------------------------------------------------------------------------
(* Which of the pairs the cell in row r and column c is about.             *)
Cells == (DOMAIN extnList) \X (DOMAIN extnList)
Position(r, c) ==
  Cardinality({rc \in Cells : /\ rc[1] < r \/ (rc[1] = r /\ rc[2] <= c)
                              /\ extnList[rc[1]] # extnList[rc[2]]})

(* The table pairwise_mode writes has in each cell the verdict of the pair *)
(* its row and column name (compatibility_analysis.py:652-666), although   *)
(* the walk shares nothing with the loop that made the pairs but one index.*)
TableOfVerdicts ==
  /\ Len(table') = Len(extnList)
  /\ \A rc \in Cells :
       LET row == table'[rc[1]]
           k == Position(rc[1], rc[2])
           p == <<extnList[rc[1]], extnList[rc[2]]>>
       IN
       /\ row[1] = p[1]
       /\ IF p[1] = p[2] THEN row[2][rc[2]] = "n/a"
          ELSE OrderedPairs(extnList)[k] = p /\ row[2][rc[2]] = Answer(judged'[k])

TableMatchesPairs == [][PairwiseReports => TableOfVerdicts]_parallelVars

Times(x, s) == Cardinality({k \in DOMAIN s : s[k] = x})

(* A worker that is given a list file builds PostgreSQL with the same      *)
(* options for every pair of it (what util/list_to_pairs.py:62-63 is for), *)
(* and the files of different workers need different ones; every pair of   *)
(* the list is in one of the files, as often as it is in the list, and no  *)
(* other pair is in any.                                                   *)
FilesPartitionThePairs ==
  LET pairs == OrderedPairs(extnList)
      built == [p \in ToSet(pairs) |-> GetConfigureOptions(GetExtnsToInstall(p))]
  IN
  /\ \A f \in DOMAIN lists : ToSet(lists[f]) \subseteq ToSet(pairs)
  /\ \A f, g \in DOMAIN lists : \A p \in ToSet(lists[f]), q \in ToSet(lists[g]) :
       built[p] = built[q] <=> f = g
  /\ \A p \in ToSet(pairs) : \E f \in DOMAIN lists :
       /\ Times(p, lists[f]) = Times(p, pairs)
       /\ \A g \in DOMAIN lists : p \in ToSet(lists[g]) => f = g

(* Every pair of the list has been reported on.                            *)
AllReported == ToSet(OrderedPairs(extnList)) \subseteq DOMAIN truth

(* A merge puts the last reported verdict of each pair in the row of its   *)
(* second and the column of its first extension (the header parallel_csv   *)
(* writes says as much, "first =>>"; pairwise mode does it the other way   *)
(* round, see LooksLikePairwise), whatever order the files are read in,    *)
(* never makes one up for a pair nobody reported, and has every row exactly*)
(* when every worker has reported.                                         *)
MergeOfVerdicts ==
  /\ \A r \in DOMAIN table' : \A c \in DOMAIN extnList : extnList[c] # table'[r][1] =>
       /\ <<extnList[c], table'[r][1]>> \in DOMAIN truth
       /\ table'[r][2][c] = Answer(truth[<<extnList[c], table'[r][1]>>])
  /\ Len(table') = Len(extnList) <=> AllReported

MergeKeepsVerdicts == [][Merge => MergeOfVerdicts]_parallelVars

(* util/parallel_csv.py:2-5: the merged table "looks like the one generated*)
(* by pairwise mode", as it would be of the same verdicts.                 *)
PairwiseTruth ==
  [k \in DOMAIN OrderedPairs(extnList) |-> truth[OrderedPairs(extnList)[k]]]

LooksLikePairwise ==
  [][Merge /\ AllReported => table' = PairwiseTable(extnList, PairwiseTruth)]_parallelVars
=============================================================================

--------------------------- MODULE SourceAnalysis ---------------------------
(***************************************************************************)
(* source_code_analysis.py as a whole: every extension of the database is  *)
(* downloaded, its copied lines are counted (CopiedIntervals), its code    *)
(* for particular PostgreSQL versions is analysed (VersionAnalysis), and a *)
(* row goes to each of three CSV files.                                    *)
(***************************************************************************)
EXTENDS CopiedIntervals, VersionAnalysis

CONSTANTS
  ExtnsList,  \* extns_list: the names of the database in order
  Sources(_)  \* what an extension's source tree may be: a set of file lists

\* No extension is called like the directory tmp.
ASSUME SourceAnalysisAssumption ==
  ExtnsList \in Seq(STRING) /\ IsInjective(ExtnsList) /\ "tmp" \notin ToSet(ExtnsList)

VARIABLES
  place,   \* position in extns_list
  fetched, \* the source tree of the extension is there
  dpc,     \* the next statement of run_sca_analysis or of the main program
  records, \* the rows written so far, by file
  disk     \* the rows that have reached each file

allVars == <<cpdVars, versionVars, place, fetched, dpc, records, disk>>

CsvFiles == {"source_code_analysis", "versioning", "version_checklist"}
ThisExtn == ExtnsList[place]

(* The variables of the two functions when they are called.               *)
CpdReset ==
  /\ heap' = << >> /\ pg' = << >> /\ ex' = << >> /\ tot' = << >>
  /\ cpc' = "read" /\ errs' = 0 /\ written' = << >> /\ loc' = NotYet
  /\ pgLines' = {} /\ exLines' = {}

VersionReset(found) ==
  /\ files' = found /\ vfile' = 1 /\ vloc' = 0 /\ vlist' = {} /\ vfrom' = {}
  /\ vpc' = "scan" /\ UNCHANGED tmp

(* initial_setup makes tmp in a directory named after the time; the files  *)
(* are opened with "w" and get their headings.                             *)
SourceInit ==
  /\ CpdInit
  /\ files = << >> /\ vfile = 1 /\ tmp = NoTmp /\ vloc = 0 /\ vlist = {} /\ vfrom = {}
  /\ vpc = "scan"
  /\ place = 1 /\ fetched = FALSE /\ dpc = "download"
  /\ records = [c \in CsvFiles |-> << >>] /\ disk = records

-----------------------------------------------------------------------------
(* download_extn: what fails leaves nothing to analyse.  An extension that *)
(* is "downloaded" by hand is passed over, without a row.                  *)
Download ==
  /\ dpc = "download" /\ place <= Len(ExtnsList) /\ Sources(ThisExtn) # {}
  /\ fetched' \in BOOLEAN /\ dpc' = "cpd"
  /\ UNCHANGED <<cpdVars, versionVars, place, records, disk>>

PassOver ==
  /\ dpc = "download" /\ place <= Len(ExtnsList) /\ Sources(ThisExtn) = {}
  /\ place' = place + 1
  /\ UNCHANGED <<cpdVars, versionVars, fetched, dpc, records, disk>>

(* run_cpd_analysis, step by step.                                         *)
CopyAnalysis ==
  /\ dpc = "cpd"
  /\ \/ fetched /\ ReadAny
     \/ OutputMapping \/ CountTotal \/ CountPostgres \/ CountExtn
  /\ UNCHANGED <<versionVars, place, fetched, dpc, records, disk>>

(* It returns at once when no duplication is the extension's.  The version *)
(* analysis then walks the source tree.                                    *)
CopyAnalysisReturns ==
  /\ dpc = "cpd"
  /\ \/ cpc = "read" /\ errs = 0
     \/ cpc = "done"
  /\ CpdReset
  /\ \E found \in IF fetched THEN Sources(ThisExtn) ELSE {<< >>} : VersionReset(found)
  /\ dpc' = "version"
  /\ UNCHANGED <<place, fetched, records, disk>>

(* run_version_analysis, step by step.                                     *)
Analysis ==
  /\ dpc = "version"
  /\ ScanFile(ThisExtn) \/ NothingVersioned \/ ToCompare \/ NoOutput \/ CountCopied(ThisExtn)
  /\ UNCHANGED <<cpdVars, place, fetched, dpc, records, disk>>

RowIn(c) ==
  CASE c = "source_code_analysis" -> <<ThisExtn>>
    [] c = "versioning" -> <<ThisExtn, vloc, vfrom>>
    [] c = "version_checklist" -> <<ThisExtn, vlist>>

(* The three rows of an extension.                                         *)
WriteRows ==
  /\ dpc = "version" /\ vpc = "returned"
  /\ records' = [c \in CsvFiles |-> Append(records[c], RowIn(c))]
  /\ place' = place + 1 /\ dpc' = "download"
  /\ UNCHANGED <<cpdVars, versionVars, fetched, disk>>

(* The end: two files are closed, the third when the interpreter ends, and *)
(* cleanup removes tmp.                                                    *)
EndOfList ==
  /\ dpc = "download" /\ place > Len(ExtnsList)
  /\ disk' = records /\ tmp' = NoTmp /\ dpc' = "done"
  /\ UNCHANGED <<cpdVars, files, vfile, vloc, vlist, vfrom, vpc, place, fetched, records>>

(* A source file that is not UTF-8 raises in get_total_loc or in the scan, *)
(* an #endif too many in the scan; the interpreter flushes the files.      *)
Raised ==
  /\ \/ dpc = "cpd" /\ cpc = "read" /\ errs = 0 /\ fetched
     \/ dpc = "version" /\ vpc = "scan" /\ vfile <= Len(files)
     \/ dpc = "version" /\ vpc = "raised"
  /\ disk' = records /\ dpc' = "exited"
  /\ UNCHANGED <<cpdVars, versionVars, place, fetched, records>>

(* A kill loses what the file buffers hold, and every local variable.      *)
ProcessKilled ==
  /\ dpc \notin {"done", "exited"}
  /\ \E n \in [CsvFiles -> 0 .. Len(ExtnsList)] :
       /\ \A c \in CsvFiles : n[c] <= Len(records[c])
       /\ disk' = [c \in CsvFiles |-> SubSeq(records[c], 1, n[c])]
  /\ CpdReset /\ dpc' = "exited"
  /\ UNCHANGED <<versionVars, place, fetched, records>>

NextSource == \/ Download \/ PassOver \/ CopyAnalysis \/ CopyAnalysisReturns
              \/ Analysis \/ WriteRows \/ EndOfList \/ Raised \/ ProcessKilled

SourceSpec == SourceInit /\ [][NextSource]_allVars

-----------------------------------------------------------------------------
(* The lines a conditional on the version encloses, with its own two lines,*)
(* found by counting instead of by a stack: an #endif closes an #if when   *)
(* what lies between them is balanced.                                     *)
Opens(l) == l.kind \in {"version", "if"}
CountOf(lines, i, j, P(_)) == Cardinality({k \in i .. j : P(lines[k])})
Closes(lines, i, j) ==
  LET opened(k) == CountOf(lines, i, k, Opens)
      ended(k) == CountOf(lines, i, k, LAMBDA l : l.kind = "endif")
  IN  /\ lines[j].kind = "endif" /\ opened(j) = ended(j)
      /\ \A k \in i .. j - 1 : opened(k) > ended(k)
VersionLines(lines) ==
  LET ats == 1 .. Len(lines)
  IN  UNION {p[1] .. p[2] : p \in {q \in ats \X ats :
               q[1] < q[2] /\ lines[q[1]].kind = "version" /\ Closes(lines, q[1], q[2])}}
Stretches(ls) == Cardinality({n \in ls : n + 1 \notin ls})

(* versioning_loc is the number of lines inside conditionals on the version*)
(* less one for every separate stretch of them, although the scan sees     *)
(* nested, unfinished and other conditionals, and merges its intervals.    *)
VersioningLocExact ==
  dpc = "version" /\ vpc # "raised" /\ vfile > Len(files) =>
    vloc = FoldLeft(LAMBDA n, f : n + Cardinality(VersionLines(f.lines))
                                    - Stretches(VersionLines(f.lines)), 0, files)

(* The counts of lines are exact: of copied lines in total, and of lines   *)
(* that depend on the version.                                             *)
CountsExact == TotalIsExact /\ VersioningLocExact

(* The extensions of a list that are not downloaded by hand, and those that*)
(* a file has a row for.                                                   *)
Analysed(list) ==
  FoldLeft(LAMBDA acc, e : IF Sources(e) # {} THEN Append(acc, e) ELSE acc, << >>, list)
NamesOf(lines) == [i \in DOMAIN lines |-> lines[i][1]]

(* The three files tell of the same extensions, in the order of the list,  *)
(* and only one that has versioned lines has a version in the checklist;   *)
(* a program that ends, or raises, leaves all its rows in them, a killed   *)
(* one an initial part.  No row counts lines of another extension, although*)
(* tmp still holds the copies of every extension whose analysis returned   *)
(* before it was emptied.                                                  *)
FilesAgree ==
  /\ \A i \in DOMAIN records["versioning"] :
       records["versioning"][i][3] \subseteq {records["versioning"][i][1]}
  /\ \A c, d \in CsvFiles : Len(records[c]) = Len(records[d])
  /\ \A i \in DOMAIN records["versioning"] :
       /\ \A c \in CsvFiles : records[c][i][1] = records["versioning"][i][1]
       /\ records["version_checklist"][i][2] # {} => records["versioning"][i][2] > 0
  /\ \A c \in CsvFiles : IsPrefix(disk[c], records[c])
  /\ dpc = "done" =>
       /\ disk = records
       /\ NamesOf(records["versioning"]) = Analysed(ExtnsList)

-----------------------------------------------------------------------------
(* The parts of the inductive invariant that FilesAgree rests on.  The list*)
(* is walked to its end, by extensions that can be downloaded,             *)
WalkInv ==
  /\ place \in 1 .. Len(ExtnsList) + 1
  /\ dpc \in {"cpd", "version"} => place <= Len(ExtnsList) /\ Sources(ThisExtn) # {}
  /\ dpc = "done" => place = Len(ExtnsList) + 1

(* no analysis finds copied lines of the version (see Counted), nor reports*)
(* a version where no line depends on one,                                 *)
VersionInv ==
  dpc = "version" =>
    /\ vfrom = {}
    /\ vpc \in {"scan", "cpd", "raised", "returned"}
    /\ vpc = "cpd" => vloc > 0
    /\ vpc = "returned" /\ vlist # {} => vloc > 0

(* every file has a row for each extension analysed so far,                *)
RowsInv ==
  /\ DOMAIN records = CsvFiles
  /\ \A c \in CsvFiles :
       /\ records[c] \in Seq(ToSet(records[c]))
       /\ NamesOf(records[c]) = Analysed(SubSeq(ExtnsList, 1, place - 1))
  /\ \A i \in DOMAIN records["versioning"] :
       /\ records["versioning"][i][3] = {}
       /\ records["version_checklist"][i][2] # {} => records["versioning"][i][2] > 0

(* and the disk has none before the end, and no others afterwards.         *)
DiskInv ==
  /\ dpc \notin {"done", "exited"} => disk = [c \in CsvFiles |-> << >>]
  /\ \A c \in CsvFiles : IsPrefix(disk[c], records[c])
  /\ dpc = "done" => disk = records

SourceInv == WalkInv /\ VersionInv /\ RowsInv /\ DiskInv

=============================================================================

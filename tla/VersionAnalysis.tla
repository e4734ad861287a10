--------------------------- MODULE VersionAnalysis ---------------------------
(***************************************************************************)
(* run_version_analysis of source_code_analysis.py, for one extension:     *)
(* every C file is scanned for conditionals on PG_VERSION_NUM, the lines   *)
(* they enclose are copied to a directory tmp, and CPD compares the copies *)
(* there with each other.  A line of a file is what the scan sees of it:   *)
(* Line.kind, and the PostgreSQL versions a conditional names.             *)
(***************************************************************************)
EXTENDS Naturals, Sequences, FiniteSets, SequencesExt, TLC

VARIABLES
  files,    \* the C files os.walk finds: records [base, lines]
  vfile,    \* position of the next file
  tmp,      \* the directory tmp: base name |-> <<owner, its copied lines>>
  vloc,     \* versioning_loc
  vlist,    \* pg_version_list
  vfrom,    \* whose lines the copied lines between versions are
  vpc       \* where the analysis is: "scan", "cpd", "raised" or "returned"

versionVars == <<files, vfile, tmp, vloc, vlist, vfrom, vpc>>

(* What the scan tells apart: #if lines that name PG_VERSION_NUM, other    *)
(* #if lines, #endif lines, and the rest, to which #else and #elif belong. *)
VersionIf(vs) == [kind |-> "version", versions |-> vs]
OtherIf == [kind |-> "if", versions |-> {}]
EndIf == [kind |-> "endif", versions |-> {}]
Code == [kind |-> "code", versions |-> {}]

NoTmp == [b \in {} |-> << >>]

-----------------------------------------------------------------------------
(* The scan of one file.  pstack has the line of every open #if and        *)
(* whether it is one on the version; #endif closes the innermost.          *)
Scanned == [line |-> 1, pstack |-> << >>, itvls |-> << >>, versions |-> {}, ok |-> TRUE]

(* Mutant: only the conditionals on the version are pushed.                *)
ScanLineVersionsOnly(s, l) ==
  LET next == [s EXCEPT !.line = @ + 1]
  IN  CASE ~s.ok -> s
        [] l.kind = "version" -> [next EXCEPT !.pstack = Append(@, <<s.line, TRUE>>),
                                              !.versions = @ \cup l.versions]
        [] l.kind = "endif" /\ s.pstack # << >> ->
             [next EXCEPT !.pstack = Front(@),
                          !.itvls = Append(@, <<Last(s.pstack)[1], s.line>>)]
        [] OTHER -> next

ScanLine(s, l) ==
  LET next == [s EXCEPT !.line = @ + 1]
  IN  CASE ~s.ok -> s
        [] l.kind \in {"version", "if"} ->
             [next EXCEPT !.pstack = Append(@, <<s.line, l.kind = "version">>),
                          !.versions = @ \cup l.versions]
        [] l.kind = "endif" /\ s.pstack = << >> -> [s EXCEPT !.ok = FALSE]
        [] l.kind = "endif" /\ s.pstack # << >> ->
             [next EXCEPT !.pstack = Front(@),
                          !.itvls = IF Last(s.pstack)[2]
                                    THEN Append(@, <<Last(s.pstack)[1], s.line>>) ELSE @]
        [] OTHER -> next

Scan(lines) == FoldLeft(ScanLine, Scanned, lines)

(* get_merged_interval, of intervals that nothing else refers to.          *)
MergeCode(merged, itvl) ==
  IF merged = << >> \/ Last(merged)[2] + 1 < itvl[1]
  THEN Append(merged, itvl)
  ELSE Append(Front(merged),
              <<Last(merged)[1], IF itvl[2] > Last(merged)[2] THEN itvl[2] ELSE Last(merged)[2]>>)

MergedCode(itvls) ==
  FoldLeft(MergeCode, << >>, SortSeq(itvls, LAMBDA a, b : a[1] < b[1]))

(* The lines of the merged intervals, and how versioning_loc counts them:  *)
(* an interval from line m to line n adds n - m, one less than it copies.  *)
CopiedCode(merged) ==
  FoldLeft(LAMBDA ls, m : ls \o [k \in 1 .. m[2] - m[1] + 1 |-> m[1] + k - 1], << >>, merged)

LocOf(merged) == FoldLeft(LAMBDA n, m : n + m[2] - m[1], 0, merged)

-----------------------------------------------------------------------------
(* One turn of the loop over the files, of the extension owner.  The copy  *)
(* is named after the base name alone: a file of the same name in another  *)
(* directory, or of an earlier extension, is overwritten.  A file with an  *)
(* #endif too many raises.                                                 *)
ScanFile(owner) ==
  /\ vpc = "scan" /\ vfile <= Len(files)
  /\ LET f == files[vfile]
         s == Scan(f.lines)
         merged == MergedCode(s.itvls)
     IN  IF s.ok
         THEN /\ vlist' = vlist \cup s.versions
              /\ vloc' = vloc + LocOf(merged)
              /\ tmp' = IF s.itvls = << >> THEN tmp
                        ELSE (f.base :> <<owner, CopiedCode(merged)>>) @@ tmp
              /\ vfile' = vfile + 1
              /\ UNCHANGED vpc
         ELSE /\ vpc' = "raised"
              /\ UNCHANGED <<vfile, tmp, vloc, vlist>>
  /\ UNCHANGED <<files, vfrom>>

(* versioning_loc == 0: nothing to compare, and no version is reported.    *)
NothingVersioned ==
  /\ vpc = "scan" /\ vfile > Len(files) /\ vloc = 0
  /\ vlist' = {} /\ vpc' = "returned"
  /\ UNCHANGED <<files, vfile, tmp, vloc, vfrom>>

ToCompare ==
  /\ vpc = "scan" /\ vfile > Len(files) /\ vloc > 0
  /\ vpc' = "cpd"
  /\ UNCHANGED <<files, vfile, tmp, vloc, vlist, vfrom>>

(* What CPD may report of tmp: copies with code in common, if any.  A path *)
(* is the folder a file lies in and its name.                              *)
Duplicates == SUBSET ({"tmp"} \X (DOMAIN tmp))

(* Mutant: process_err without the question whether efolder is in the path.*)
CountedAny(owner, dups) == dups

(* process_err keeps only paths in the extension's folder.                 *)
Counted(owner, dups) == {p \in dups : p[1] = owner}

(* No output of CPD: the analysis returns and leaves the copies in tmp.    *)
NoOutput ==
  /\ vpc = "cpd"
  /\ vpc' = "returned"
  /\ UNCHANGED <<files, vfile, tmp, vloc, vlist, vfrom>>

(* The duplications are counted, by the owners of their lines, and tmp is  *)
(* emptied for other extensions.                                           *)
CountCopied(owner) ==
  /\ vpc = "cpd"
  /\ \E dups \in Duplicates \ {{}} :
       vfrom' = {tmp[p[2]][1] : p \in Counted(owner, dups)}
  /\ tmp' = NoTmp /\ vpc' = "returned"
  /\ UNCHANGED <<files, vfile, vloc, vlist>>
=============================================================================

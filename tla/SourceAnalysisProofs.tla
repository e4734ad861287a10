------------------------ MODULE SourceAnalysisProofs ------------------------
(***************************************************************************)
(* Proofs about SourceAnalysis, for every list of extensions and every     *)
(* source tree: the three files agree, wherever the analysis raises or the *)
(* program is killed.                                                      *)
(***************************************************************************)
EXTENDS SourceAnalysis, Folding

-----------------------------------------------------------------------------
(* The fold of Analysed, as steps.                                         *)
AnalysedSteps(seq, S) ==
  {h \in [0 .. Len(seq) -> Seq(S)] :
     /\ h[0] = << >>
     /\ \A k \in 1 .. Len(seq) :
          h[k] = IF Sources(seq[k]) # {} THEN Append(h[k - 1], seq[k]) ELSE h[k - 1]}

LEMMA FoldAnalysed ==
  ASSUME NEW S, NEW seq \in Seq(S)
  PROVE  \E h \in AnalysedSteps(seq, S) : Analysed(seq) = h[Len(seq)]
<1> DEFINE V == Seq(S)
           n == Len(seq)
           step == [k \in 1 .. n |->
                      [v \in V |-> (IF Sources(seq[k]) # {} THEN Append(v, seq[k]) ELSE v)]]
           Solves(f) == f = [s \in SUBSET DOMAIN seq |->
                               IF s = {} THEN << >>
                               ELSE (IF Sources(seq[Max(s)]) # {}
                                     THEN Append(f[s \ {Max(s)}], seq[Max(s)])
                                     ELSE f[s \ {Max(s)}])]
           iter == CHOOSE g : Solves(g)
<1>1. n \in Nat /\ DOMAIN seq = 1 .. n /\ << >> \in V /\ \A k \in 1 .. n : seq[k] \in S
  OBVIOUS
<1>2. step \in [1 .. n -> [V -> V]]
  <2>1. ASSUME NEW v \in V, NEW k \in 1 .. n
        PROVE  (IF Sources(seq[k]) # {} THEN Append(v, seq[k]) ELSE v) \in V
    BY <1>1
  <2> QED BY <2>1
<1>3. PICK f \in Iterates(V, n, << >>, step) :
        \A s \in SUBSET (1 .. n) : s # {} => Max(s) \in 1 .. n /\ f[s \ {Max(s)}] \in V
  <2> HIDE DEF V, n, step
  <2> QED BY <1>1, <1>2, IteratesThere
<1>4. Solves(f)
  BY <1>1, <1>3 DEF Iterates
<1>5. Solves(iter)
  <2> HIDE DEF Solves
  <2> QED BY <1>4
<1>6. Analysed(seq) = iter[1 .. n]
  BY <1>1 DEF FoldLeft, MapThenFoldSet, Analysed
<1> HIDE DEF iter
<1>7. iter[{}] = << >>
  BY <1>5
<1>8. \A s \in SUBSET (1 .. n) : s # {} /\ iter[s \ {Max(s)}] \in V =>
        iter[s] = step[Max(s)][iter[s \ {Max(s)}]]
  BY <1>1, <1>3, <1>5
<1>9. PICK h \in Steps(V, n, << >>, step) : iter[1 .. n] = h[n]
  <2> HIDE DEF V, n, step
  <2>1. Iterating(V, n, << >>, step, iter)
    BY <1>7, <1>8 DEF Iterating
  <2> QED BY <1>1, <1>2, <2>1, StepsOfIterate
<1> QED BY <1>1, <1>6, <1>9 DEF Steps, AnalysedSteps

(* One extension more: it is appended when it is analysed.                 *)
LEMMA AnalysedAppend ==
  ASSUME NEW S, NEW s \in Seq(S), NEW x \in S
  PROVE  /\ Analysed(s) \in Seq(S)
         /\ Analysed(Append(s, x)) = IF Sources(x) # {} THEN Append(Analysed(s), x) ELSE Analysed(s)
<1> DEFINE n == Len(s)
           u == Append(s, x)
<1>0. /\ n \in Nat /\ u \in Seq(S) /\ Len(u) = n + 1 /\ u[n + 1] = x
      /\ \A k \in 1 .. n : u[k] = s[k]
  OBVIOUS
<1>1. PICK h \in AnalysedSteps(s, S) : Analysed(s) = h[n]
  BY FoldAnalysed
<1> HIDE DEF u
<1>2. PICK e \in AnalysedSteps(u, S) : Analysed(u) = e[n + 1]
  BY <1>0, FoldAnalysed
<1> DEFINE T == {k \in 0 .. n : e[k] = h[k]}
<1>3. 0 \in T
  BY <1>0, <1>1, <1>2 DEF AnalysedSteps
<1>4. ASSUME NEW k \in 1 .. n, k - 1 \in T PROVE k \in T
  <2>1. k \in 0 .. n /\ k \in 1 .. n + 1 /\ u[k] = s[k] /\ e[k - 1] = h[k - 1]
    BY <1>0, <1>4
  <2> QED BY <1>0, <1>1, <1>2, <2>1 DEF AnalysedSteps
<1>5. 0 .. n \subseteq T
  <2> HIDE DEF T, n
  <2> QED BY <1>0, <1>3, <1>4, UpToInduction
<1>6. e[n] = h[n] /\ h[n] \in Seq(S)
  BY <1>0, <1>1, <1>5 DEF AnalysedSteps
<1>7. n + 1 \in 1 .. n + 1 /\ (n + 1) - 1 = n
  BY <1>0
<1>8. e[n + 1] = IF Sources(x) # {} THEN Append(e[n], x) ELSE e[n]
  BY <1>0, <1>2, <1>7 DEF AnalysedSteps
<1> QED BY <1>1, <1>2, <1>6, <1>8 DEF u

LEMMA AnalysedNone == Analysed(<< >>) = << >>
<1> DEFINE none == << >>
<1>1. none \in Seq(STRING) /\ Len(none) = 0
  OBVIOUS
<1> HIDE DEF none
<1>2. PICK h \in AnalysedSteps(none, STRING) : Analysed(none) = h[Len(none)]
  BY <1>1, FoldAnalysed
<1> QED BY <1>1, <1>2 DEF AnalysedSteps, none

(* What is analysed of the list up to a position.                          *)
LEMMA AnalysedUpTo ==
  /\ Analysed(SubSeq(ExtnsList, 1, 0)) = << >>
  /\ SubSeq(ExtnsList, 1, Len(ExtnsList)) = ExtnsList
  /\ \A k \in 1 .. Len(ExtnsList) :
       Analysed(SubSeq(ExtnsList, 1, k)) =
         IF Sources(ExtnsList[k]) # {} THEN Append(Analysed(SubSeq(ExtnsList, 1, k - 1)), ExtnsList[k])
         ELSE Analysed(SubSeq(ExtnsList, 1, k - 1))
<1>1. ExtnsList \in Seq(STRING)
  BY SourceAnalysisAssumption
<1>2. SubSeq(ExtnsList, 1, 0) = << >> /\ SubSeq(ExtnsList, 1, Len(ExtnsList)) = ExtnsList
  BY <1>1
<1>3. ASSUME NEW k \in 1 .. Len(ExtnsList)
      PROVE  Analysed(SubSeq(ExtnsList, 1, k)) =
               IF Sources(ExtnsList[k]) # {} THEN Append(Analysed(SubSeq(ExtnsList, 1, k - 1)), ExtnsList[k])
               ELSE Analysed(SubSeq(ExtnsList, 1, k - 1))
  <2> DEFINE s == SubSeq(ExtnsList, 1, k - 1)
  <2>1. s \in Seq(STRING) /\ ExtnsList[k] \in STRING
    BY <1>1
  <2>2. SubSeq(ExtnsList, 1, k) = Append(s, ExtnsList[k])
    BY <1>1
  <2> HIDE DEF s
  <2>3. Analysed(Append(s, ExtnsList[k])) =
          IF Sources(ExtnsList[k]) # {} THEN Append(Analysed(s), ExtnsList[k]) ELSE Analysed(s)
    BY <2>1, AnalysedAppend
  <2> QED BY <2>2, <2>3 DEF s
<1> QED BY <1>2, <1>3, AnalysedNone

-----------------------------------------------------------------------------
LEMMA SameUpTo ==
  ASSUME NEW m \in Nat, NEW n \in Nat, 1 .. m = 1 .. n
  PROVE  m = n
<1>1. m = 0 \/ m \in 1 .. n
  OBVIOUS
<1>2. n = 0 \/ n \in 1 .. m
  OBVIOUS
<1> QED BY <1>1, <1>2

(* A row more in a file.                                                   *)
LEMMA RowAppend ==
  ASSUME NEW r, r \in Seq(ToSet(r)), NEW row
  PROVE  /\ Append(r, row) \in Seq(ToSet(Append(r, row)))
         /\ NamesOf(Append(r, row)) = Append(NamesOf(r), row[1])
         /\ Len(r) \in Nat /\ DOMAIN r = 1 .. Len(r)
         /\ DOMAIN Append(r, row) = 1 .. Len(r) + 1
         /\ \A i \in 1 .. Len(r) : Append(r, row)[i] = r[i]
         /\ Append(r, row)[Len(r) + 1] = row
<1> DEFINE S == ToSet(r) \cup {row}
           u == Append(r, row)
<1>1. r \in Seq(S) /\ row \in S
  OBVIOUS
<1>2. /\ u \in Seq(S)
      /\ Len(r) \in Nat /\ DOMAIN r = 1 .. Len(r)
      /\ DOMAIN u = 1 .. Len(r) + 1
      /\ \A i \in 1 .. Len(r) : u[i] = r[i]
      /\ u[Len(r) + 1] = row
      /\ ToSet(u) = S
  <2> HIDE DEF S
  <2>1. ToSet(u) = ToSet(r) \cup {row}
    BY <1>1, AppendFacts
  <2> QED BY <1>1, <2>1, AppendFacts DEF S
<1>3. NamesOf(u) = Append(NamesOf(r), row[1])
  <2> DEFINE N == {r[i][1] : i \in 1 .. Len(r)} \cup {row[1]}
             names == NamesOf(r)
  <2>1. names \in Seq(N) /\ Len(names) = Len(r) /\ \A i \in 1 .. Len(r) : names[i] = r[i][1]
    BY <1>2 DEF NamesOf
  <2>2. Append(names, row[1]) =
          [i \in 1 .. Len(names) + 1 |-> IF i = Len(names) + 1 THEN row[1] ELSE names[i]]
    <3> HIDE DEF N, names
    <3>1. row[1] \in N
      BY DEF N
    <3> QED BY <2>1, <3>1
  <2>3. \A i \in 1 .. Len(r) + 1 : i = Len(r) + 1 \/ i \in 1 .. Len(r)
    BY <1>2
  <2>4. NamesOf(u) = [i \in 1 .. Len(r) + 1 |-> u[i][1]]
    BY <1>2 DEF NamesOf
  <2>5. \A i \in 1 .. Len(r) + 1 :
          u[i][1] = IF i = Len(r) + 1 THEN row[1] ELSE names[i]
    BY <1>2, <2>1, <2>3
  <2> HIDE DEF u, names
  <2> QED BY <2>1, <2>2, <2>4, <2>5 DEF names
<1> QED BY <1>2, <1>3

(* Files are initial parts of what was written to them.                    *)
LEMMA PrefixFacts ==
  ASSUME NEW r, r \in Seq(ToSet(r))
  PROVE  /\ IsPrefix(r, r) /\ IsPrefix(<< >>, r)
         /\ \A n \in 0 .. Len(r) : IsPrefix(SubSeq(r, 1, n), r)
<1> DEFINE S == ToSet(r)
<1>0. r \in Seq(S)
  OBVIOUS
<1> HIDE DEF S
<1>1. ASSUME NEW n \in 0 .. Len(r) PROVE IsPrefix(SubSeq(r, 1, n), r)
  <2> DEFINE s == SubSeq(r, 1, n)
  <2>1. s \in Seq(S) /\ Len(s) = n
    BY <1>0
  <2>2. SubSeq(s, 1, n) = s
    <3> HIDE DEF s
    <3> QED BY <2>1
  <2> QED BY <1>0, <2>1, <2>2 DEF IsPrefix
<1>2. SubSeq(r, 1, Len(r)) = r /\ Len(r) \in 0 .. Len(r) /\ SubSeq(r, 1, 0) = << >> /\ 0 \in 0 .. Len(r)
  BY <1>0
<1> QED BY <1>1, <1>2
-----------------------------------------------------------------------------
(* Every step keeps the parts of the invariant: the walk of the list,      *)
LEMMA WalkStep ==
  ASSUME WalkInv, [NextSource]_allVars
  PROVE  WalkInv'
<1>0. Len(ExtnsList) \in Nat
  BY SourceAnalysisAssumption
<1> USE <1>0 DEF WalkInv, ThisExtn
<1>1. CASE Download
  BY <1>1 DEF Download
<1>2. CASE PassOver
  BY <1>2 DEF PassOver
<1>3. CASE CopyAnalysis
  BY <1>3 DEF CopyAnalysis
<1>4. CASE CopyAnalysisReturns
  BY <1>4 DEF CopyAnalysisReturns
<1>5. CASE Analysis
  BY <1>5 DEF Analysis
<1>6. CASE WriteRows
  BY <1>6 DEF WriteRows
<1>7. CASE EndOfList
  BY <1>7 DEF EndOfList
<1>8. CASE Raised
  BY <1>8 DEF Raised
<1>9. CASE ProcessKilled
  BY <1>9 DEF ProcessKilled
<1>10. CASE UNCHANGED allVars
  BY <1>10 DEF allVars
<1> QED BY <1>1, <1>2, <1>3, <1>4, <1>5, <1>6, <1>7, <1>8, <1>9, <1>10 DEF NextSource

(* the analysis of versions, in which no copied line is counted, as no     *)
(* extension is called tmp,                                                *)
LEMMA NothingCounted ==
  ASSUME WalkInv, dpc = "version", NEW dups \in Duplicates
  PROVE  Counted(ThisExtn, dups) = {}
<1>1. place \in 1 .. Len(ExtnsList) /\ ExtnsList \in Seq(STRING) /\ "tmp" \notin ToSet(ExtnsList)
  BY SourceAnalysisAssumption DEF WalkInv
<1>2. ThisExtn # "tmp"
  BY <1>1 DEF ThisExtn, ToSet
<1>3. \A p \in dups : p[1] = "tmp"
  BY DEF Duplicates
<1> QED BY <1>2, <1>3 DEF Counted

LEMMA VersionStep ==
  ASSUME WalkInv, VersionInv, [NextSource]_allVars
  PROVE  VersionInv'
<1> USE DEF VersionInv
<1>1. CASE Download
  BY <1>1 DEF Download
<1>2. CASE PassOver
  BY <1>2 DEF PassOver
<1>3. CASE CopyAnalysis
  BY <1>3 DEF CopyAnalysis
<1>4. CASE CopyAnalysisReturns
  BY <1>4 DEF CopyAnalysisReturns, VersionReset
<1>5. CASE Analysis
  <2>0. dpc = "version" /\ dpc' = dpc
    BY <1>5 DEF Analysis
  <2>1. CASE ScanFile(ThisExtn)
    BY <2>0, <2>1 DEF ScanFile
  <2>2. CASE NothingVersioned
    BY <2>0, <2>2 DEF NothingVersioned
  <2>3. CASE ToCompare
    BY <2>0, <2>3 DEF ToCompare
  <2>4. CASE NoOutput
    BY <2>0, <2>4 DEF NoOutput
  <2>5. CASE CountCopied(ThisExtn)
    <3>1. PICK dups \in Duplicates : vfrom' = {tmp[p[2]][1] : p \in Counted(ThisExtn, dups)}
      BY <2>5 DEF CountCopied
    <3>2. vfrom' = {}
      BY <2>0, <3>1, NothingCounted
    <3> QED BY <2>0, <2>5, <3>2 DEF CountCopied
  <2> QED BY <1>5, <2>1, <2>2, <2>3, <2>4, <2>5 DEF Analysis
<1>6. CASE WriteRows
  BY <1>6 DEF WriteRows
<1>7. CASE EndOfList
  BY <1>7 DEF EndOfList
<1>8. CASE Raised
  BY <1>8 DEF Raised
<1>9. CASE ProcessKilled
  BY <1>9 DEF ProcessKilled
<1>10. CASE UNCHANGED allVars
  BY <1>10 DEF allVars, versionVars
<1> QED BY <1>1, <1>2, <1>3, <1>4, <1>5, <1>6, <1>7, <1>8, <1>9, <1>10 DEF NextSource

(* the rows, which WriteRows alone adds to, one for each file,             *)
LEMMA RowsKept ==
  ASSUME RowsInv, UNCHANGED <<records, place>>
  PROVE  RowsInv'
BY DEF RowsInv, NamesOf

LEMMA RowsStep ==
  ASSUME WalkInv, VersionInv, RowsInv, [NextSource]_allVars
  PROVE  RowsInv'
<1>0. Len(ExtnsList) \in Nat
  BY SourceAnalysisAssumption
<1>1. CASE PassOver
  <2>1. place \in 1 .. Len(ExtnsList) /\ Sources(ExtnsList[place]) = {} /\ place' - 1 = place /\ records' = records
    BY <1>0, <1>1 DEF PassOver, WalkInv, ThisExtn
  <2>2. Analysed(SubSeq(ExtnsList, 1, place)) = Analysed(SubSeq(ExtnsList, 1, place - 1))
    BY <2>1, AnalysedUpTo
  <2> QED BY <2>1, <2>2 DEF RowsInv, NamesOf
<1>2. CASE WriteRows
  <2>1. /\ place \in 1 .. Len(ExtnsList) /\ Sources(ExtnsList[place]) # {} /\ place' - 1 = place
        /\ records' = [c \in CsvFiles |-> Append(records[c], RowIn(c))]
    BY <1>0, <1>2 DEF WriteRows, WalkInv, ThisExtn
  <2>2. Analysed(SubSeq(ExtnsList, 1, place)) = Append(Analysed(SubSeq(ExtnsList, 1, place - 1)), ExtnsList[place])
    BY <2>1, AnalysedUpTo
  <2>3. /\ RowIn("versioning") = <<ThisExtn, vloc, vfrom>>
        /\ RowIn("version_checklist") = <<ThisExtn, vlist>>
        /\ \A c \in CsvFiles : RowIn(c)[1] = ThisExtn
    BY DEF RowIn, CsvFiles
  <2>4. vfrom = {} /\ (vlist # {} => vloc > 0)
    BY <1>2 DEF WriteRows, VersionInv
  <2>5. ASSUME NEW c \in CsvFiles
        PROVE  /\ records'[c] \in Seq(ToSet(records'[c]))
               /\ NamesOf(records'[c]) = Analysed(SubSeq(ExtnsList, 1, place' - 1))
    <3>1. records[c] \in Seq(ToSet(records[c])) /\ NamesOf(records[c]) = Analysed(SubSeq(ExtnsList, 1, place - 1))
      BY DEF RowsInv
    <3>2. records'[c] = Append(records[c], RowIn(c))
      BY <2>1
    <3> DEFINE r == records[c]
               row == RowIn(c)
    <3>3. r \in Seq(ToSet(r))
      BY <3>1
    <3> HIDE DEF r, row
    <3>4. /\ Append(r, row) \in Seq(ToSet(Append(r, row)))
          /\ NamesOf(Append(r, row)) = Append(NamesOf(r), row[1])
      BY <3>3, RowAppend
    <3> QED BY <2>1, <2>2, <2>3, <3>1, <3>2, <3>4 DEF r, row, ThisExtn
  <2>6. ASSUME NEW i \in DOMAIN records'["versioning"]
        PROVE  /\ records'["versioning"][i][3] = {}
               /\ records'["version_checklist"][i][2] # {} => records'["versioning"][i][2] > 0
    <3> DEFINE v == records["versioning"]
               l == records["version_checklist"]
               vrow == RowIn("versioning")
               lrow == RowIn("version_checklist")
    <3>1. /\ v \in Seq(ToSet(v)) /\ l \in Seq(ToSet(l)) /\ NamesOf(v) = NamesOf(l)
          /\ records'["versioning"] = Append(v, vrow)
          /\ records'["version_checklist"] = Append(l, lrow)
      BY <2>1 DEF RowsInv, CsvFiles
    <3>2. \A k \in DOMAIN v : v[k][3] = {} /\ (l[k][2] # {} => v[k][2] > 0)
      BY DEF RowsInv
    <3>3. vrow[3] = {} /\ (lrow[2] # {} => vrow[2] > 0)
      BY <2>3, <2>4
    <3>4. DOMAIN v = DOMAIN l
      BY <3>1 DEF NamesOf
    <3> HIDE DEF v, l, vrow, lrow
    <3>5. /\ Len(v) \in Nat /\ DOMAIN v = 1 .. Len(v)
          /\ DOMAIN Append(v, vrow) = 1 .. Len(v) + 1
          /\ \A k \in 1 .. Len(v) : Append(v, vrow)[k] = v[k]
          /\ Append(v, vrow)[Len(v) + 1] = vrow
      BY <3>1, RowAppend
    <3>6. /\ Len(l) \in Nat /\ DOMAIN l = 1 .. Len(l)
          /\ \A k \in 1 .. Len(l) : Append(l, lrow)[k] = l[k]
          /\ Append(l, lrow)[Len(l) + 1] = lrow
      BY <3>1, RowAppend
    <3>7. Len(v) = Len(l)
      BY <3>4, <3>5, <3>6, SameUpTo
    <3>8. i = Len(v) + 1 \/ i \in 1 .. Len(v)
      BY <2>6, <3>1, <3>5
    <3>9. CASE i = Len(v) + 1
      BY <3>1, <3>3, <3>5, <3>6, <3>7, <3>9
    <3>10. CASE i \in 1 .. Len(v)
      BY <3>1, <3>2, <3>5, <3>6, <3>7, <3>10
    <3> QED BY <3>8, <3>9, <3>10
  <2>7. DOMAIN records' = CsvFiles
    BY <2>1
  <2> QED BY <2>5, <2>6, <2>7 DEF RowsInv
<1>3. CASE UNCHANGED <<records, place>>
  BY <1>3, RowsKept
<1>4. CASE Download \/ CopyAnalysis \/ CopyAnalysisReturns \/ Analysis
  BY <1>3, <1>4 DEF Download, CopyAnalysis, CopyAnalysisReturns, Analysis
<1>5. CASE EndOfList \/ Raised \/ ProcessKilled
  BY <1>3, <1>5 DEF EndOfList, Raised, ProcessKilled
<1>6. CASE UNCHANGED allVars
  BY <1>3, <1>6 DEF allVars
<1> QED BY <1>1, <1>2, <1>4, <1>5, <1>6 DEF NextSource

(* and the disk, where the rows are at the end, or as many as had reached  *)
(* it.                                                                     *)
LEMMA DiskKept ==
  ASSUME DiskInv, UNCHANGED <<records, disk>>, dpc' = "done" <=> dpc = "done",
         dpc' = "exited" <=> dpc = "exited"
  PROVE  DiskInv'
BY DEF DiskInv

LEMMA DiskWritten ==
  ASSUME RowsInv, records' = records, disk' = records, dpc' \in {"done", "exited"}
  PROVE  DiskInv'
<1>1. \A c \in CsvFiles : records[c] \in Seq(ToSet(records[c]))
  BY DEF RowsInv
<1>2. ASSUME NEW c \in CsvFiles PROVE IsPrefix(records[c], records[c])
  <2> DEFINE r == records[c]
  <2>1. r \in Seq(ToSet(r))
    BY <1>1
  <2> HIDE DEF r
  <2> QED BY <2>1, PrefixFacts DEF r
<1> QED BY <1>2 DEF DiskInv

LEMMA DiskStep ==
  ASSUME RowsInv, DiskInv, RowsInv', [NextSource]_allVars
  PROVE  DiskInv'
<1>1. CASE WriteRows
  <2>1. disk' = [c \in CsvFiles |-> << >>] /\ dpc' = "download"
    BY <1>1 DEF WriteRows, DiskInv
  <2>2. ASSUME NEW c \in CsvFiles PROVE IsPrefix(<< >>, records'[c])
    <3> DEFINE r == records'[c]
    <3>1. r \in Seq(ToSet(r))
      BY DEF RowsInv
    <3> HIDE DEF r
    <3> QED BY <3>1, PrefixFacts DEF r
  <2> QED BY <2>1, <2>2 DEF DiskInv
<1>2. CASE EndOfList
  BY <1>2, DiskWritten DEF EndOfList
<1>3. CASE Raised
  BY <1>3, DiskWritten DEF Raised
<1>4. CASE ProcessKilled
  <2>1. PICK n \in [CsvFiles -> 0 .. Len(ExtnsList)] :
          /\ \A c \in CsvFiles : n[c] <= Len(records[c])
          /\ disk' = [c \in CsvFiles |-> SubSeq(records[c], 1, n[c])]
    BY <1>4 DEF ProcessKilled
  <2>2. ASSUME NEW c \in CsvFiles PROVE IsPrefix(disk'[c], records[c])
    <3> DEFINE r == records[c]
    <3>1. r \in Seq(ToSet(r)) /\ Len(ExtnsList) \in Nat
      BY SourceAnalysisAssumption DEF RowsInv
    <3>2. n[c] \in 0 .. Len(r) /\ disk'[c] = SubSeq(r, 1, n[c])
      BY <2>1, <3>1
    <3> HIDE DEF r
    <3> QED BY <3>1, <3>2, PrefixFacts DEF r
  <2> QED BY <1>4, <2>2 DEF ProcessKilled, DiskInv
<1>5. CASE Download \/ PassOver
  BY <1>5, DiskKept DEF Download, PassOver
<1>6. CASE CopyAnalysis \/ CopyAnalysisReturns \/ Analysis
  BY <1>6, DiskKept DEF CopyAnalysis, CopyAnalysisReturns, Analysis
<1>7. CASE UNCHANGED allVars
  BY <1>7, DiskKept DEF allVars
<1> QED BY <1>1, <1>2, <1>3, <1>4, <1>5, <1>6, <1>7 DEF NextSource

-----------------------------------------------------------------------------
LEMMA SourceInvInit == SourceInit => SourceInv
<1> SUFFICES ASSUME SourceInit PROVE SourceInv
  OBVIOUS
<1> USE DEF SourceInit
<1>1. ExtnsList \in Seq(STRING) /\ Len(ExtnsList) \in Nat
  BY SourceAnalysisAssumption
<1>2. WalkInv /\ VersionInv
  BY <1>1 DEF WalkInv, VersionInv
<1>3. \A c \in CsvFiles : records[c] = << >> /\ disk[c] = << >>
  OBVIOUS
<1>4. RowsInv
  <2>1. Analysed(SubSeq(ExtnsList, 1, place - 1)) = << >>
    BY AnalysedUpTo
  <2>2. NamesOf(<< >>) = << >>
    BY DEF NamesOf
  <2> QED BY <1>3, <2>1, <2>2 DEF RowsInv, CsvFiles
<1>5. DiskInv
  <2>1. IsPrefix(<< >>, << >>)
    BY DEF IsPrefix
  <2> QED BY <1>3, <2>1 DEF DiskInv
<1> QED BY <1>2, <1>4, <1>5 DEF SourceInv

LEMMA SourceInvStep == SourceInv /\ [NextSource]_allVars => SourceInv'
BY WalkStep, VersionStep, RowsStep, DiskStep DEF SourceInv

(* The files agree when the invariant holds.                               *)
LEMMA SourceInvImplies == SourceInv => FilesAgree
<1> SUFFICES ASSUME SourceInv PROVE FilesAgree
  OBVIOUS
<1> USE DEF SourceInv
<1>1. ASSUME NEW c \in CsvFiles
      PROVE  /\ Len(records[c]) \in Nat /\ DOMAIN records[c] = 1 .. Len(records[c])
             /\ NamesOf(records[c]) = NamesOf(records["versioning"])
  BY DEF RowsInv, CsvFiles
<1>2. ASSUME NEW c \in CsvFiles
      PROVE  /\ DOMAIN records[c] = DOMAIN records["versioning"]
             /\ \A i \in DOMAIN records[c] : records[c][i][1] = records["versioning"][i][1]
  BY <1>1 DEF NamesOf
<1>3. \A c, d \in CsvFiles : Len(records[c]) = Len(records[d])
  BY <1>1, <1>2
<1>4. \A i \in DOMAIN records["versioning"] :
        records["versioning"][i][3] \subseteq {records["versioning"][i][1]}
  BY DEF RowsInv
<1>5. ASSUME NEW i \in DOMAIN records["versioning"]
      PROVE  /\ \A c \in CsvFiles : records[c][i][1] = records["versioning"][i][1]
             /\ records["version_checklist"][i][2] # {} => records["versioning"][i][2] > 0
  BY <1>2 DEF RowsInv
<1>6. ASSUME dpc = "done" PROVE disk = records /\ NamesOf(records["versioning"]) = Analysed(ExtnsList)
  <2>1. place - 1 = Len(ExtnsList)
    BY <1>6, SourceAnalysisAssumption DEF WalkInv
  <2> QED BY <1>6, <2>1, AnalysedUpTo DEF RowsInv, DiskInv, CsvFiles
<1> QED BY <1>3, <1>4, <1>5, <1>6 DEF FilesAgree, DiskInv

(* The rows of the three files are those of the extensions analysed so far,*)
(* in the order of the list, versions come with versioned lines, and what  *)
(* reaches the disk at the end, when a file raises and when the program is *)
(* killed is an initial part of them, all of them at the end.              *)
THEOREM FilesAgreeAlways == SourceSpec => []FilesAgree
<1>1. SourceInit => SourceInv
  BY SourceInvInit
<1>2. SourceInv /\ [NextSource]_allVars => SourceInv'
  BY SourceInvStep
<1>3. SourceInv => FilesAgree
  BY SourceInvImplies
<1> QED BY <1>1, <1>2, <1>3, PTL DEF SourceSpec
=============================================================================

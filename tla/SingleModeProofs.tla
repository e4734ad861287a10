-------------------------- MODULE SingleModeProofs --------------------------
(***************************************************************************)
(* Proofs about SingleMode, for every database whose dependency lists are  *)
(* sequences of names, every set of list files and every number of runs.   *)
(***************************************************************************)
EXTENDS SingleMode, HostProofs

-----------------------------------------------------------------------------
(* What the constants give for an entry that can be installed.             *)
LEMMA InstallFacts ==
  ASSUME NEW n \in Installable, n \in Names
  PROVE  /\ ToInstall(n) \in Seq(Names) /\ Len(ToInstall(n)) \in Nat \ {0}
         /\ DOMAIN ToInstall(n) = 1 .. Len(ToInstall(n))
         /\ ToInstall(n)[Len(ToInstall(n))] = n
         /\ ToInstall(n) \in InstallLists
         /\ OptionsFor(n) \in SUBSET Options
         /\ \A k \in DOMAIN ToInstall(n) : ToInstall(n)[k] \in Listed
<1>1. Entry[n].deps \in Seq(Names)
  BY SingleModeAssumption DEF Installable
<1>2. /\ ToInstall(n) \in Seq(Names) /\ Len(ToInstall(n)) \in Nat \ {0}
      /\ DOMAIN ToInstall(n) = 1 .. Len(ToInstall(n))
      /\ ToInstall(n)[Len(ToInstall(n))] = n
  BY <1>1 DEF ToInstall
<1>3. ToInstall(n) \in InstallLists
  BY DEF InstallLists
<1>4. OptionsFor(n) \in SUBSET Options
  BY DEF Options
<1>5. \A k \in DOMAIN ToInstall(n) : ToInstall(n)[k] \in Listed
  BY <1>3 DEF Listed, ToSet
<1> QED BY <1>2, <1>3, <1>4, <1>5

(* The row of an extension that was tested.                                *)
LEMMA RowFacts ==
  ASSUME NEW n \in Names, NEW r \in Answers \X Answers
  PROVE  LET row == <<n, "yes", "yes", r[1], r[2]>>
         IN  row \in Rows /\ row[1] = n /\ row[3] = "yes"
BY DEF Rows, Answers

(* The row of an extension that cannot be run does not say that it was.    *)
LEMMA SkippedRowFacts ==
  ASSUME NEW n \in Names
  PROVE  /\ LET row == <<n, "no", "not supported", "not supported", "not supported">>
            IN  row \in Rows /\ row[1] = n /\ row[3] # "yes"
         /\ LET row == <<n, "yes", "no", TestsExist(n), "not supported">>
            IN  row \in Rows /\ row[1] = n /\ row[3] # "yes"
BY DEF Rows, Answers, TestsExist

(* A table that grows by one row.                                          *)
LEMMA AppendRow ==
  ASSUME NEW s \in Seq(Rows), NEW row \in Rows
  PROVE  /\ Append(s, row) \in Seq(Rows) /\ Len(Append(s, row)) = Len(s) + 1
         /\ DOMAIN Append(s, row) = 1 .. Len(s) + 1 /\ DOMAIN s = 1 .. Len(s)
         /\ Append(s, row)[Len(s) + 1] = row
         /\ \A i \in DOMAIN s : Append(s, row)[i] = s[i]
OBVIOUS

(* What was a prefix of a table is one of the longer table, and what is    *)
(* cut off a table is one of the whole.                                    *)
LEMMA PrefixFacts ==
  ASSUME NEW s \in Seq(Rows)
  PROVE  /\ IsPrefix(s, s)
         /\ IsPrefix(<< >>, s)
         /\ \A row \in Rows, f \in Seq(Rows) : IsPrefix(f, s) => IsPrefix(f, Append(s, row))
         /\ \A n \in 0 .. Len(s) : SubSeq(s, 1, n) \in Seq(Rows) /\ IsPrefix(SubSeq(s, 1, n), s)
<1>1. IsPrefix(s, s) /\ IsPrefix(<< >>, s)
  BY DEF IsPrefix
<1>2. ASSUME NEW row \in Rows, NEW f \in Seq(Rows), IsPrefix(f, s)
      PROVE  IsPrefix(f, Append(s, row))
  <2>1. Len(f) <= Len(s) /\ SubSeq(f, 1, Len(f)) = SubSeq(s, 1, Len(f)) /\ Len(f) \in Nat
    BY <1>2 DEF IsPrefix
  <2>2. SubSeq(Append(s, row), 1, Len(f)) = SubSeq(s, 1, Len(f))
    BY <2>1
  <2> QED BY <2>1, <2>2 DEF IsPrefix
<1>3. ASSUME NEW n \in 0 .. Len(s)
      PROVE  SubSeq(s, 1, n) \in Seq(Rows) /\ IsPrefix(SubSeq(s, 1, n), s)
  <2>1. SubSeq(s, 1, n) \in Seq(Rows) /\ Len(SubSeq(s, 1, n)) = n
    OBVIOUS
  <2>2. SubSeq(SubSeq(s, 1, n), 1, n) = SubSeq(s, 1, n)
    BY <2>1
  <2> QED BY <2>1, <2>2 DEF IsPrefix
<1> QED BY <1>1, <1>2, <1>3
-----------------------------------------------------------------------------
(* Type correctness, by its parts: the host, the program, and that what is *)
(* worked on is an extension of the list.                                  *)
HostTyped == HostType(Options, InstallLists, Listed, {})
ProgTyped ==
  /\ pc \in PCs /\ runs \in 0 .. MaxRuns
  /\ list \in Lists /\ exitFlag \in BOOLEAN /\ pos \in 1 .. Len(list) + 1
  /\ at \in Nat \ {0} /\ opts \in SUBSET Options /\ extn \in Names
  /\ result \in Answers \X Answers
  /\ rows \in Seq(Rows) /\ file \in Seq(Rows) /\ fresh \in BOOLEAN
TypeInv == HostTyped /\ ProgTyped /\ ExtnAtHand

(* The parts of the typed host, before and after a step.                   *)
LEMMA HostParts ==
  /\ HostTyped <=> /\ dist \in Dists(Options, Listed) /\ tree \in Trees(Options)
                   /\ workdir \in SUBSET Listed
                   /\ data \in Clusters(InstallLists, {}) /\ server \in Servers(InstallLists)
  /\ HostTyped' <=> /\ dist' \in Dists(Options, Listed) /\ tree' \in Trees(Options)
                    /\ workdir' \in SUBSET Listed
                    /\ data' \in Clusters(InstallLists, {}) /\ server' \in Servers(InstallLists)
BY DEF HostTyped, HostType

(* A list file is a sequence of names.                                     *)
LEMMA ListFiles ==
  ASSUME NEW l \in Lists
  PROVE  /\ l \in Seq(Names) /\ Len(l) \in Nat /\ DOMAIN l = 1 .. Len(l)
         /\ 1 \in 1 .. Len(l) + 1
<1>1. l \in Seq(Names)
  BY SingleModeAssumption
<1> QED BY <1>1

(* The list that is walked, and the extension that is worked on.           *)
LEMMA ListFacts ==
  ASSUME ProgTyped
  PROVE  /\ list \in Seq(Names) /\ DOMAIN list = 1 .. Len(list) /\ Len(list) \in Nat
         /\ pos <= Len(list) => pos \in DOMAIN list /\ Current \in Names /\ pos + 1 \in 1 .. Len(list) + 1
<1>1. list \in Seq(Names) /\ Len(list) \in Nat /\ DOMAIN list = 1 .. Len(list)
  BY ListFiles DEF ProgTyped
<1> QED BY <1>1 DEF ProgTyped, Current

LEMMA WorkFacts ==
  ASSUME TypeInv, Working
  PROVE  /\ pos \in DOMAIN list /\ pos <= Len(list) /\ Current \in Names /\ Current \in Installable
         /\ pos + 1 \in 1 .. Len(list) + 1
BY ListFacts DEF TypeInv, ExtnAtHand

(* An extension whose work begins is one that can be installed.            *)
LEMMA BeginsInstallable ==
  ASSUME TypeInv, PrepareExtn
  PROVE  pos \in DOMAIN list /\ Current \in Installable /\ Current \in Names
<1>1. pos <= Len(list) /\ Current \in Extns /\ Entry[Current].hasDeps
  BY DEF PrepareExtn, Unknown
<1>2. ToSet(Entry[Current].deps) \subseteq Extns
  BY DEF PrepareExtn, DepMissing
<1> QED BY <1>1, <1>2, ListFacts DEF TypeInv, Installable

LEMMA TypeInit == Init => TypeInv
<1> SUFFICES ASSUME Init PROVE TypeInv
  OBVIOUS
<1>1. HostTyped
  BY NothingTyped DEF Init, HostInit, HostTyped, HostType
<1>2. list \in Lists /\ 1 \in 1 .. Len(list) + 1
  BY ListFiles DEF Init
<1>3. <<"no", "not supported">> \in Answers \X Answers
  BY DEF Answers
<1>4. << >> \in Seq(Rows) /\ 0 \in 0 .. MaxRuns /\ 1 \in Nat \ {0}
  BY SingleModeAssumption
<1>6. ProgTyped
  BY <1>2, <1>3, <1>4 DEF Init, ProgTyped, PCs
<1>5. ExtnAtHand
  BY DEF Init, ExtnAtHand, Working
<1> QED BY <1>1, <1>5, <1>6 DEF TypeInv

(* What the steps of the program do to the host.                           *)
LEMMA HostStep ==
  ASSUME TypeInv, [Next]_vars
  PROVE  HostTyped'
<1> USE DEF TypeInv
<1>1. CASE \/ Skip \/ InstallRaises \/ NoDependenciesKey \/ Raises \/ SingleTest
           \/ SingleTestExits \/ Begin \/ Killed \/ UNCHANGED vars
  <2>1. UNCHANGED host
    BY <1>1 DEF Skip, InstallRaises, NoDependenciesKey, Raises, SingleTest, SingleTestExits, Begin, Killed, vars
  <2> QED BY <2>1, HostParts DEF host
<1>2. CASE Setup \/ InstallFirst
  <2>1. UnpackTree \/ InstallPostgres(dist, {})
    BY <1>2 DEF Setup, InstallFirst
  <2>2. {} \in SUBSET Options
    OBVIOUS
  <2> QED BY <2>1, <2>2, HostParts, UnpackTreeEffect, InstallPostgresEffect
<1>3. CASE PrepareExtn
  <2>1. OptionsFor(Current) \in SUBSET Options
    BY <1>3, BeginsInstallable, InstallFacts
  <2>2. InstallPostgres(NoDist, OptionsFor(Current)) \/ UNCHANGED host
    BY <1>3 DEF PrepareExtn
  <2> QED BY <2>1, <2>2, HostParts, NothingTyped, InstallPostgresEffect DEF host
<1>4. CASE FetchNext
  <2>1. Working
    BY <1>4 DEF FetchNext, Fetching, Working
  <2>2. at \in DOMAIN ToInstall(Current)
    BY <1>4, <2>1, WorkFacts, InstallFacts DEF FetchNext, Fetching, ProgTyped
  <2>3. ToInstall(Current)[at] \in Listed
    BY <2>1, <2>2, WorkFacts, InstallFacts
  <2>4. DownloadInstall(ToInstall(Current)[at])
    BY <1>4 DEF FetchNext
  <2> QED BY <2>3, <2>4, HostParts, DownloadInstallTyped
<1>5. CASE RunInitDb
  BY <1>5, HostParts, InitDbEffect DEF RunInitDb
<1>6. CASE RunModifyConf
  <2>1. ToInstall(Current) \in InstallLists
    BY <1>6, WorkFacts, InstallFacts DEF RunModifyConf, Working
  <2> QED BY <1>6, <2>1, HostParts, ModifyConfEffect DEF RunModifyConf
<1>7. CASE RunStart
  BY <1>7, HostParts, StartPostgresEffect DEF RunStart
<1>8. CASE RunStop \/ HostServerDies
  BY <1>8, HostParts, ServerEndsEffect DEF RunStop, HostServerDies
<1>9. CASE WriteRow \/ UserCleansUp
  BY <1>9, HostParts, CleanupEffect, NothingTyped DEF WriteRow, UserCleansUp
<1>10. CASE Finish
  BY <1>10, HostParts, NothingTyped DEF Finish, FinalCleanup
<1> QED BY <1>1, <1>2, <1>3, <1>4, <1>5, <1>6, <1>7, <1>8, <1>9, <1>10 DEF Next, Program

(* What each step writes into the program's own variables is typed.        *)
LEMMA ProgStep ==
  ASSUME TypeInv, [Next]_vars
  PROVE  ProgTyped'
<1>0. ProgTyped /\ ExtnAtHand
  BY DEF TypeInv
<1> USE SingleModeAssumption
<1>a. \A row \in Rows : Append(rows, row) \in Seq(Rows)
  BY <1>0, AppendRow DEF ProgTyped
<1>1. CASE \/ Setup \/ InstallFirst \/ InstallRaises \/ RunInitDb \/ RunModifyConf \/ RunStart
           \/ RunStop
  <2>1. << >> \in Seq(Rows)
    OBVIOUS
  <2>2. /\ pc' \in PCs /\ file' \in Seq(Rows)
        /\ UNCHANGED <<args, pos, at, opts, extn, result, rows, runs, fresh>>
    BY <1>0, <1>1, <2>1
       DEF Setup, InstallFirst, InstallRaises, RunInitDb, RunModifyConf, RunStart, RunStop,
           Goto, PCs, ProgTyped
  <2> QED BY <1>0, <2>2 DEF ProgTyped, args
<1>2. CASE \/ NoDependenciesKey \/ Raises \/ SingleTestExits \/ Finish
  <2>1. /\ pc' \in PCs /\ file' = rows
        /\ UNCHANGED <<args, pos, at, opts, extn, result, rows, runs, fresh>>
    BY <1>2 DEF NoDependenciesKey, Raises, SingleTestExits, Finish, Goto, PCs
  <2> QED BY <1>0, <2>1 DEF ProgTyped, args
<1>3. CASE Skip
  <2>1. pos <= Len(list) /\ UNCHANGED <<args, pc, at, opts, result, runs, file, fresh>>
    BY <1>3 DEF Skip
  <2>2. Current \in Names /\ pos + 1 \in 1 .. Len(list) + 1
    BY <1>0, <2>1, ListFacts
  <2>3. rows' \in Seq(Rows)
    BY <1>3, <1>a, <2>2, SkippedRowFacts DEF Skip
  <2>4. extn' = Current /\ pos' = pos + 1
    BY <1>3 DEF Skip
  <2> QED BY <1>0, <2>1, <2>2, <2>3, <2>4 DEF ProgTyped, args
<1>4. CASE PrepareExtn
  <2>1. OptionsFor(Current) \in SUBSET Options /\ Current \in Names
    BY <1>4, BeginsInstallable, InstallFacts
  <2>2. /\ pc' \in PCs /\ at' = 1 /\ extn' = Current
        /\ opts' = OptionsFor(Current) \/ opts' = opts
        /\ UNCHANGED <<args, pos, result, rows, runs, file, fresh>>
    BY <1>4 DEF PrepareExtn, Goto, PCs
  <2> QED BY <1>0, <2>1, <2>2 DEF ProgTyped, args
<1>5. CASE FetchNext
  <2>1. Working
    BY <1>5 DEF FetchNext, Fetching, Working
  <2>2. at \in 1 .. Len(ToInstall(Current)) /\ ToInstall(Current) \in Seq(Names)
    BY <1>0, <1>5, <2>1, WorkFacts, InstallFacts DEF FetchNext, Fetching, ProgTyped
  <2>3. ToInstall(Current)[at] \in Names
    BY <2>2
  <2>4. /\ extn' = ToInstall(Current)[at] /\ at' = at + 1
        /\ UNCHANGED <<args, pc, pos, opts, result, rows, runs, file, fresh>>
    BY <1>5 DEF FetchNext
  <2> QED BY <1>0, <2>3, <2>4 DEF ProgTyped, args
<1>6. CASE SingleTest
  <2>1. result' \in Answers \X Answers
    <3>1. <<"yes", "yes">> \in Answers \X Answers /\ <<"yes", "no">> \in Answers \X Answers
          /\ <<"no", "not supported">> \in Answers \X Answers
      BY DEF Answers
    <3>2. ASSUME NEW passes \in BOOLEAN, result' = TestResult(passes)
          PROVE  result' \in Answers \X Answers
      BY <3>1, <3>2 DEF TestResult
    <3>3. CASE Entry[Current].test = "pg_regress"
      <4>1. PICK rc : result' = TestResult(RegressPasses(rc))
        BY <1>6, <3>3 DEF SingleTest
      <4>2. RegressPasses(rc) \in BOOLEAN
        BY DEF RegressPasses
      <4> QED BY <3>2, <4>1, <4>2
    <3>4. CASE Entry[Current].test = "custom_test_script"
      <4>1. PICK same \in BOOLEAN : result' = TestResult(same)
        BY <1>6, <3>4 DEF SingleTest
      <4> QED BY <3>2, <4>1
    <3>5. CASE Entry[Current].test \notin {"pg_regress", "custom_test_script"}
      BY <1>6, <3>1, <3>5 DEF SingleTest
    <3> QED BY <3>3, <3>4, <3>5
  <2>2. pc' \in PCs /\ UNCHANGED <<args, pos, at, opts, extn, rows, runs, file, fresh>>
    BY <1>6 DEF SingleTest, Goto, PCs
  <2> QED BY <1>0, <2>1, <2>2 DEF ProgTyped, args
<1>7. CASE WriteRow
  <2>1. pos + 1 \in 1 .. Len(list) + 1
    BY <1>7, WorkFacts DEF WriteRow, Working
  <2>2. rows' \in Seq(Rows)
    BY <1>0, <1>7, <1>a, RowFacts DEF WriteRow, ProgTyped
  <2>3. /\ pc' \in PCs /\ pos' = pos + 1
        /\ UNCHANGED <<args, at, opts, extn, result, runs, file, fresh>>
    BY <1>7 DEF WriteRow, Goto, PCs
  <2> QED BY <1>0, <2>1, <2>2, <2>3 DEF ProgTyped, args
<1>8. CASE Begin
  <2>1. /\ list' \in Lists /\ exitFlag' \in BOOLEAN /\ pos' = 1 /\ at' = 1 /\ opts' = {}
        /\ rows' = << >> /\ pc' \in PCs /\ fresh' \in BOOLEAN
        /\ UNCHANGED <<extn, result, file>>
    BY <1>8 DEF Begin, Goto, PCs
  <2>2. runs' \in 0 .. MaxRuns
    BY <1>0, <1>8 DEF Begin, ProgTyped
  <2>3. pos' \in 1 .. Len(list') + 1 /\ rows' \in Seq(Rows)
    BY <2>1, ListFiles
  <2> QED BY <1>0, <2>1, <2>2, <2>3 DEF ProgTyped
<1>9. CASE Killed
  <2>1. file' \in Seq(Rows)
    BY <1>0, <1>9, PrefixFacts DEF Killed, ProgTyped
  <2>2. pc' \in PCs /\ UNCHANGED <<args, pos, at, opts, extn, result, rows, runs, fresh>>
    BY <1>9 DEF Killed, Goto, PCs
  <2> QED BY <1>0, <2>1, <2>2 DEF ProgTyped, args
<1>10. CASE HostServerDies \/ UserCleansUp \/ UNCHANGED vars
  <2>1. UNCHANGED <<prog, runs, file, fresh>>
    BY <1>10 DEF HostServerDies, UserCleansUp, vars
  <2> QED BY <1>0, <2>1 DEF ProgTyped, prog, args
<1> QED BY <1>1, <1>2, <1>3, <1>4, <1>5, <1>6, <1>7, <1>8, <1>9, <1>10 DEF Next, Program

(* Work begins with an extension of the list and ends before the next.     *)
LEMMA AtHandStep ==
  ASSUME TypeInv, [Next]_vars
  PROVE  ExtnAtHand'
<1>0. ExtnAtHand
  BY DEF TypeInv
<1>1. CASE PrepareExtn
  <2>1. UNCHANGED <<list, pos>>
    BY <1>1 DEF PrepareExtn, args
  <2> QED BY <1>1, <2>1, BeginsInstallable DEF ExtnAtHand, Current
<1>2. CASE FetchNext \/ RunInitDb \/ RunModifyConf \/ RunStart \/ SingleTest \/ RunStop
           \/ HostServerDies \/ UserCleansUp \/ UNCHANGED vars
  <2>1. UNCHANGED <<list, pos>> /\ (Working' => Working)
    BY <1>2 DEF FetchNext, Fetching, RunInitDb, RunModifyConf, RunStart, SingleTest, RunStop, HostServerDies,
                UserCleansUp, vars, prog, args, Working, Goto
  <2> QED BY <1>0, <2>1 DEF ExtnAtHand, Current
<1>3. CASE \/ Setup \/ InstallFirst \/ InstallRaises \/ Skip \/ NoDependenciesKey \/ Raises
           \/ SingleTestExits \/ WriteRow \/ Finish \/ Begin \/ Killed
  <2>1. ~Working'
    BY <1>3 DEF Setup, InstallFirst, InstallRaises, Skip, NoDependenciesKey, Raises, SingleTestExits, WriteRow, Finish, Begin, Killed,
                Goto, Working
  <2> QED BY <2>1 DEF ExtnAtHand
<1> QED BY <1>1, <1>2, <1>3 DEF Next, Program

LEMMA TypeStep == TypeInv /\ [Next]_vars => TypeInv'
BY HostStep, ProgStep, AtHandStep DEF TypeInv

(* Every reachable state is well typed, and an extension is only worked on *)
(* while its entry and all its dependencies are known                      *)
(* (compatibility_analysis.py, single_mode).                               *)
THEOREM SingleModeTyped == Spec => [](TypeOK /\ ExtnAtHand)
<1>1. Init => TypeInv
  BY TypeInit
<1>2. TypeInv /\ [Next]_vars => TypeInv'
  BY TypeStep
<1>3. TypeInv => TypeOK /\ ExtnAtHand
  BY DEF TypeInv, HostTyped, ProgTyped, TypeOK
<1> QED BY <1>1, <1>2, <1>3, PTL DEF Spec

-----------------------------------------------------------------------------
(* The table.  Where a step leaves the program's place in the list, the    *)
(* rows so far and the file alone, inside the loop or with it to a stop.   *)
LEMMA TableKept ==
  ASSUME TableInv, ProgTyped, UNCHANGED <<list, pos, rows, file>>,
         \/ Working /\ Working' /\ LoopVariable'
         \/ pc = "next" /\ pc' = "fetch" /\ LoopVariable'
         \/ pc' = pc /\ UNCHANGED <<at, extn>>
  PROVE  TableInv'
BY DEF TableInv, LoopVariable, Working, TableTellsOfTheList, RowsNameTheirExtension,
       FileHoldsTheRows, Running, Opening, Current

(* A program that stops keeps its rows; its file holds all of them, or a   *)
(* first part of them.                                                     *)
LEMMA TableStops ==
  ASSUME TableInv, ProgTyped, UNCHANGED <<list, pos, rows>>, pc' = "exited",
         IsPrefix(file', rows)
  PROVE  TableInv'
BY DEF TableInv, LoopVariable, Working, TableTellsOfTheList, RowsNameTheirExtension,
       FileHoldsTheRows, Running, Opening

(* A row that is about the current line of the list is added after those   *)
(* about the lines before.                                                 *)
LEMMA TableGrows ==
  ASSUME TableInv, TypeInv, Running, ~Opening, pos <= Len(list),
         NEW row \in Rows, row[1] = Current, rows' = Append(rows, row), pos' = pos + 1,
         UNCHANGED <<list, file>>, pc' = "next"
  PROVE  TableInv'
<1>0. ProgTyped /\ rows \in Seq(Rows) /\ file \in Seq(Rows) /\ Len(rows) = pos - 1 /\ pos \in Nat
  BY ListFacts DEF TypeInv, ProgTyped, TableInv, TableTellsOfTheList, RowsNameTheirExtension
<1>1. LoopVariable' /\ ~Opening'
  BY DEF LoopVariable, Working, Opening
<1>2. /\ Len(rows') = Len(rows) + 1 /\ DOMAIN rows' = 1 .. pos /\ DOMAIN rows = 1 .. pos - 1
      /\ rows'[pos] = row /\ \A i \in DOMAIN rows : rows'[i] = rows[i]
  BY <1>0, AppendRow
<1>3. \A i \in DOMAIN rows' : rows'[i][1] = list'[i]
  <2> SUFFICES ASSUME NEW i \in DOMAIN rows' PROVE rows'[i][1] = list[i]
    OBVIOUS
  <2>1. CASE i = pos
    BY <1>2, <2>1 DEF Current
  <2>2. CASE i # pos
    <3>1. i \in DOMAIN rows
      BY <1>0, <1>2, <2>2
    <3> QED BY <1>2, <3>1 DEF TableInv, TableTellsOfTheList, RowsNameTheirExtension
  <2> QED BY <2>1, <2>2
<1>4. RowsNameTheirExtension'
  BY <1>0, <1>2, <1>3 DEF RowsNameTheirExtension
<1>5. IsPrefix(file, rows)
  BY DEF TableInv, TableTellsOfTheList, FileHoldsTheRows
<1>6. IsPrefix(file', rows')
  BY <1>0, <1>5, PrefixFacts
<1>7. FileHoldsTheRows'
  BY <1>6 DEF FileHoldsTheRows
<1> QED BY <1>1, <1>4, <1>7 DEF TableInv, TableTellsOfTheList

LEMMA TableInit == Init => TableInv
<1> SUFFICES ASSUME Init PROVE TableInv
  OBVIOUS
<1>1. pc = "idle" /\ rows = << >> /\ pos = 1
  BY DEF Init
<1>2. LoopVariable
  BY <1>1 DEF LoopVariable, Working
<1>3. RowsNameTheirExtension /\ FileHoldsTheRows
  BY <1>1 DEF RowsNameTheirExtension, FileHoldsTheRows, Running
<1> QED BY <1>1, <1>2, <1>3 DEF TableInv, TableTellsOfTheList, Opening

LEMMA TableStep == TypeInv /\ TableInv /\ [Next]_vars => TableInv'
<1> SUFFICES ASSUME TypeInv, TableInv, [Next]_vars PROVE TableInv'
  OBVIOUS
<1>0. ProgTyped /\ rows \in Seq(Rows)
  BY DEF TypeInv, ProgTyped
<1>1. CASE Setup \/ InstallFirst \/ InstallRaises
  <2>1. /\ pc \in {"setup", "install"} /\ pos = 1 /\ UNCHANGED <<list, pos, rows>>
        /\ \/ pc' = "install" /\ file' = file
           \/ pc' = "next" /\ file' = << >>
           \/ pc' = "exited" /\ file' = file
    BY <1>1 DEF Setup, InstallFirst, InstallRaises, Goto, args, TableInv, Opening
  <2>2. Len(rows) = 0 /\ rows = << >>
    BY <1>0, <2>1 DEF TableInv, TableTellsOfTheList, RowsNameTheirExtension, Running
  <2>3. RowsNameTheirExtension'
    BY <2>1, <2>2 DEF RowsNameTheirExtension, Running
  <2>4. FileHoldsTheRows'
    BY <1>0, <2>1, <2>2, PrefixFacts DEF FileHoldsTheRows, Running, Opening
  <2> QED BY <2>1, <2>3, <2>4 DEF TableInv, TableTellsOfTheList, LoopVariable, Working, Opening
<1>2. CASE Skip
  <2>1. /\ pc = "next" /\ pos <= Len(list) /\ pos' = pos + 1
        /\ UNCHANGED <<list, pc, file>>
    BY <1>2 DEF Skip, args
  <2>2. Current \in Names
    BY <1>0, <2>1, ListFacts
  <2>3. PICK row \in Rows : row[1] = Current /\ rows' = Append(rows, row)
    BY <1>2, <2>2, SkippedRowFacts DEF Skip
  <2>4. Running /\ ~Opening /\ pc' = "next"
    BY <2>1 DEF Running, Opening
  <2> QED BY <2>1, <2>3, <2>4, TableGrows
<1>3. CASE NoDependenciesKey \/ Raises \/ SingleTestExits
  <2>1. pc' = "exited" /\ file' = rows /\ UNCHANGED <<list, pos, rows>>
    BY <1>3 DEF NoDependenciesKey, Raises, SingleTestExits, Goto, args
  <2> QED BY <1>0, <2>1, PrefixFacts, TableStops
<1>4. CASE PrepareExtn
  <2>1. /\ pc = "next" /\ pc' = "fetch" /\ at' = 1 /\ extn' = Current
        /\ UNCHANGED <<list, pos, rows, file>>
    BY <1>4 DEF PrepareExtn, Goto, args
  <2>2. Current' = Current /\ ToInstall(Current)' = ToInstall(Current)
    BY <2>1 DEF Current, ToInstall
  <2>3. Len(ToInstall(Current)) \in Nat \ {0}
    BY <1>4, BeginsInstallable, InstallFacts
  <2>4. LoopVariable'
    BY <2>1, <2>2, <2>3 DEF LoopVariable
  <2> QED BY <1>0, <2>1, <2>4, TableKept
<1>5. CASE FetchNext
  <2>1. /\ pc = "fetch" /\ at <= Len(ToInstall(Current)) /\ at' = at + 1
        /\ extn' = ToInstall(Current)[at] /\ UNCHANGED <<pc, list, pos, rows, file>>
    BY <1>5 DEF FetchNext, Fetching, args
  <2>2. Current' = Current /\ ToInstall(Current)' = ToInstall(Current)
    BY <2>1 DEF Current, ToInstall
  <2>3. /\ Len(ToInstall(Current)) \in Nat
        /\ ToInstall(Current)[Len(ToInstall(Current))] = Current
    BY <2>1, WorkFacts, InstallFacts DEF Working
  <2>4. at \in Nat
    BY <1>0 DEF ProgTyped
  <2>5. LoopVariable'
    BY <2>1, <2>2, <2>3, <2>4 DEF LoopVariable
  <2> QED BY <1>0, <2>1, <2>5, TableKept DEF Working
<1>6. CASE RunInitDb \/ RunModifyConf \/ RunStart \/ SingleTest \/ RunStop
  <2>1. /\ Working /\ Working' /\ pc' # "fetch" /\ UNCHANGED <<list, pos, extn, rows, file>>
        /\ pc = "fetch" => at > Len(ToInstall(Current))
    BY <1>6 DEF RunInitDb, RunModifyConf, RunStart, SingleTest, RunStop, Goto, args, Working
  <2>2. LoopVariable'
    BY <2>1 DEF TableInv, LoopVariable, Current
  <2> QED BY <1>0, <2>1, <2>2, TableKept
<1>7. CASE WriteRow
  <2>1. /\ pc = "cleanup" /\ pc' = "next" /\ pos' = pos + 1 /\ UNCHANGED <<list, file>>
        /\ rows' = Append(rows, <<extn, "yes", "yes", result[1], result[2]>>)
    BY <1>7 DEF WriteRow, Goto, args
  <2>2. extn = Current /\ extn \in Names /\ pos <= Len(list)
    BY <1>0, <2>1, WorkFacts DEF TableInv, LoopVariable, Working, ProgTyped
  <2>3. PICK row \in Rows : row[1] = Current /\ rows' = Append(rows, row)
    BY <1>0, <2>1, <2>2, RowFacts DEF ProgTyped
  <2>4. Running /\ ~Opening
    BY <2>1 DEF Running, Opening
  <2> QED BY <2>1, <2>2, <2>3, <2>4, TableGrows
<1>8. CASE Finish
  <2>1. /\ pc = "next" /\ pos > Len(list) /\ pc' = "done" /\ file' = rows
        /\ UNCHANGED <<list, pos, rows>>
    BY <1>8 DEF Finish, Goto, args
  <2>2. Len(list) \in Nat /\ pos \in 1 .. Len(list) + 1 /\ Len(rows) = pos - 1
    BY <1>0, <2>1, ListFacts
       DEF ProgTyped, TableInv, TableTellsOfTheList, RowsNameTheirExtension, Running
  <2>3. RowsNameTheirExtension'
    BY <2>1, <2>2 DEF TableInv, TableTellsOfTheList, RowsNameTheirExtension, Running
  <2>4. FileHoldsTheRows'
    BY <1>0, <2>1, PrefixFacts DEF FileHoldsTheRows, Running
  <2> QED BY <2>1, <2>3, <2>4 DEF TableInv, TableTellsOfTheList, LoopVariable, Working, Opening
<1>9. CASE Begin
  <2>1. pc' = "setup" /\ pos' = 1 /\ rows' = << >>
    BY <1>9 DEF Begin, Goto
  <2> QED BY <2>1 DEF TableInv, TableTellsOfTheList, RowsNameTheirExtension, FileHoldsTheRows,
                      LoopVariable, Working, Running, Opening
<1>10. CASE Killed
  <2>1. pc' = "exited" /\ Running /\ UNCHANGED <<list, pos, rows>>
    BY <1>10 DEF Killed, Goto, args
  <2>2. CASE Opening
    <3>1. pos = 1 /\ Len(rows) = 0
      BY <1>0, <2>1, <2>2 DEF TableInv, TableTellsOfTheList, RowsNameTheirExtension
    <3>2. rows = << >>
      BY <1>0, <3>1
    <3> QED BY <2>1, <3>2 DEF TableInv, TableTellsOfTheList, RowsNameTheirExtension,
                              FileHoldsTheRows, LoopVariable, Working, Running, Opening
  <2>3. CASE ~Opening
    <3>1. IsPrefix(file', rows)
      BY <1>0, <1>10, <2>3, PrefixFacts DEF Killed
    <3> QED BY <1>0, <2>1, <3>1, TableStops
  <2> QED BY <2>2, <2>3
<1>11. CASE HostServerDies \/ UserCleansUp \/ UNCHANGED vars
  <2>1. UNCHANGED <<pc, list, pos, at, extn, rows, file>>
    BY <1>11 DEF HostServerDies, UserCleansUp, vars, prog, args
  <2> QED BY <1>0, <2>1, TableKept
<1> QED BY <1>1, <1>2, <1>3, <1>4, <1>5, <1>6, <1>7, <1>8, <1>9, <1>10, <1>11 DEF Next, Program

(* The n-th row of single.csv is about the n-th line of the list although  *)
(* the loop over what to install overwrites the variable that names the    *)
(* row, the file holds a first part of this run's rows however the run     *)
(* ends, and all of them when it comes to its end (compatibility_analysis. *)
(* py, single_mode).                                                       *)
THEOREM TableTellsAlways == Spec => []TableTellsOfTheList
<1>1. Init => TypeInv /\ TableInv
  BY TypeInit, TableInit
<1>2. TypeInv /\ TableInv /\ [Next]_vars => (TypeInv /\ TableInv)'
  BY TypeStep, TableStep
<1>3. TableInv => TableTellsOfTheList
  BY DEF TableInv
<1> QED BY <1>1, <1>2, <1>3, PTL DEF Spec

-----------------------------------------------------------------------------
(* The cluster and the server, while an extension is tested.  A step that  *)
(* leaves the server and the settings of the cluster alone, and either     *)
(* goes on with the test or leaves the extension.                          *)
LEMMA ClusterKept ==
  ASSUME ClusterInv, UNCHANGED <<server, list, pos, rows, fresh>>,
         data'.present = data.present, data'.confs = data.confs,
         \/ pc' \in {"exited", "done", "cleanup"}
         \/ pc = "test" /\ pc' = "stop"
         \/ pc = "setup" /\ pc' = "install"
         \/ pc = "install" /\ pc' = "next"
         \/ pc = "next" /\ pc' = "fetch"
         \/ pc' = pc
  PROVE  ClusterInv'
BY DEF ClusterInv, ServesCurrentExtn, OwnCluster, Serving, Current

(* After cleanup there is neither a cluster nor a server that answers.     *)
LEMMA ClusterGone ==
  ASSUME data' = NoData, ~Serving', pc' \notin {"conf", "start"}
  PROVE  ClusterInv'
BY DEF ClusterInv, ServesCurrentExtn, NoData

LEMMA ClusterInit == Init => ClusterInv
<1> SUFFICES ASSUME Init PROVE ClusterInv
  OBVIOUS
<1>1. data = NoData /\ server = NoServer /\ pc = "idle"
  BY DEF Init, HostInit
<1> QED BY <1>1 DEF ClusterInv, ServesCurrentExtn, NoData, NoServer, Serving

LEMMA ClusterStep == TypeInv /\ TableInv /\ ClusterInv /\ [Next]_vars => ClusterInv'
<1> SUFFICES ASSUME TypeInv, TableInv, ClusterInv, [Next]_vars PROVE ClusterInv'
  OBVIOUS
<1>0. ProgTyped /\ HostTyped /\ rows \in Seq(Rows)
  BY DEF TypeInv, ProgTyped
<1>1. CASE \/ Setup \/ InstallFirst \/ InstallRaises \/ NoDependenciesKey \/ PrepareExtn
           \/ FetchNext \/ Raises \/ SingleTest \/ SingleTestExits \/ Finish \/ Killed \/ UNCHANGED vars
  <2>1. UNCHANGED <<data, server, list, pos, rows, fresh>>
    BY <1>1 DEF Setup, InstallFirst, InstallRaises, NoDependenciesKey, PrepareExtn, FetchNext,
         Raises, SingleTest, SingleTestExits,
         Finish, Killed, vars, prog, args, host, UnpackTree, InstallPostgres, DownloadInstall, FinalCleanup
  <2>2. \/ pc' \in {"exited", "done"}
        \/ pc = "test" /\ pc' = "stop"
        \/ pc = "setup" /\ pc' = "install"
        \/ pc = "install" /\ pc' = "next"
        \/ pc = "next" /\ pc' = "fetch"
        \/ pc' = pc
    <3>1. CASE Setup \/ InstallFirst \/ PrepareExtn
      BY <3>1 DEF Setup, InstallFirst, PrepareExtn, Goto
    <3>2. CASE InstallRaises \/ NoDependenciesKey \/ Raises \/ SingleTestExits \/ Finish \/ Killed
      BY <3>2 DEF InstallRaises, NoDependenciesKey, Raises, SingleTestExits, Finish, Killed, Goto
    <3>3. CASE SingleTest
      BY <3>3 DEF SingleTest, Goto
    <3>4. CASE FetchNext \/ UNCHANGED vars
      BY <3>4 DEF FetchNext, vars, prog
    <3> QED BY <1>1, <3>1, <3>2, <3>3, <3>4
  <2> QED BY <2>1, <2>2, ClusterKept
<1>2. CASE Skip
  <2>1. /\ pc = "next" /\ pc' = "next" /\ pos <= Len(list)
        /\ UNCHANGED <<dist, workdir, data, server, fresh>>
    BY <1>2 DEF Skip, host
  <2>2. Current \in Names
    BY <1>0, <2>1, ListFacts
  <2>3. PICK row \in Rows : row[3] # "yes" /\ rows' = Append(rows, row)
    BY <1>2, <2>2, SkippedRowFacts DEF Skip
  <2>4. \A i \in DOMAIN rows' : rows'[i][3] = "yes" => i \in DOMAIN rows /\ rows[i][3] = "yes"
    BY <1>0, <2>3, AppendRow
  <2>5. OwnCluster' => OwnCluster
    BY <2>1, <2>4 DEF OwnCluster
  <2> QED BY <2>1, <2>5 DEF ClusterInv, ServesCurrentExtn, Serving
<1>3. CASE RunInitDb
  <2>1. /\ pc = "fetch" /\ pc' = "conf" /\ UNCHANGED <<server, list, pos, rows, fresh>>
        /\ data' = data \/ data' = NewData
    BY <1>0, <1>3, HostParts, InitDbEffect DEF RunInitDb, Goto, args
  <2>2. NewData.present /\ NewData.confs = << >>
    BY DEF NewData, NoData
  <2> QED BY <2>1, <2>2 DEF ClusterInv, ServesCurrentExtn, OwnCluster, Serving
<1>4. CASE RunModifyConf
  <2>1. pc = "conf" /\ pc' = "start" /\ UNCHANGED <<list, pos, rows, fresh>>
    BY <1>4 DEF RunModifyConf, Goto, args
  <2>2. ToInstall(Current) \in InstallLists
    BY <2>1, WorkFacts, InstallFacts DEF Working
  <2>3. /\ UNCHANGED server /\ data'.present
        /\ data'.confs = Append(data.confs, ToInstall(Current))
    BY <1>0, <1>4, <2>2, HostParts, ModifyConfEffect DEF RunModifyConf
  <2>4. Append(<< >>, ToInstall(Current)) = <<ToInstall(Current)>>
    OBVIOUS
  <2>5. ToInstall(Current)' = ToInstall(Current)
    BY <2>1 DEF ToInstall, Current
  <2> QED BY <2>1, <2>3, <2>4, <2>5 DEF ClusterInv, ServesCurrentExtn, OwnCluster, Serving
<1>5. CASE RunStart
  <2>1. pc = "start" /\ pc' = "test" /\ UNCHANGED <<list, pos, rows, fresh>>
    BY <1>5 DEF RunStart, Goto, args
  <2>2. UNCHANGED data /\ (server' = server \/ (Serving' /\ server'.confs = data.confs))
    BY <1>0, <1>5, HostParts, StartPostgresEffect DEF RunStart
  <2>3. ToInstall(Current)' = ToInstall(Current)
    BY <2>1 DEF ToInstall, Current
  <2> QED BY <2>1, <2>2, <2>3 DEF ClusterInv, ServesCurrentExtn, OwnCluster, Serving
<1>6. CASE RunStop \/ HostServerDies
  <2>1. UNCHANGED <<list, pos, rows, fresh>> /\ (pc' = "cleanup" \/ pc' = pc)
    BY <1>6 DEF RunStop, HostServerDies, Goto, args, prog
  <2>2. UNCHANGED data /\ (Serving' => UNCHANGED server)
    BY <1>0, <1>6, HostParts, ServerEndsEffect DEF RunStop, HostServerDies
  <2>3. Serving' => Serving
    BY <2>2 DEF Serving
  <2>4. ToInstall(Current)' = ToInstall(Current)
    BY <2>1 DEF ToInstall, Current
  <2> QED BY <2>1, <2>2, <2>3, <2>4 DEF ClusterInv, ServesCurrentExtn, OwnCluster
<1>7. CASE WriteRow \/ UserCleansUp
  <2>1. data' = NoData /\ ~Serving'
    BY <1>0, <1>7, HostParts, CleanupEffect DEF WriteRow, UserCleansUp
  <2>2. pc' \notin {"conf", "start"}
    BY <1>7 DEF WriteRow, UserCleansUp, Running, Goto, prog
  <2> QED BY <2>1, <2>2, ClusterGone
<1>8. CASE Begin
  <2>1. /\ UNCHANGED <<data, server>> /\ pc' = "setup" /\ rows' = << >>
        /\ fresh' => ~server.up /\ ~data.present
    BY <1>8 DEF Begin, Goto, host
  <2>2. OwnCluster' => ~server.up /\ ~data.present
    BY <2>1 DEF OwnCluster
  <2> QED BY <2>1, <2>2 DEF ClusterInv, ServesCurrentExtn, Serving
<1> QED BY <1>1, <1>2, <1>3, <1>4, <1>5, <1>6, <1>7, <1>8 DEF Next, Program

(* No extension is ever tested against the cluster, the server or the      *)
(* settings of another one, whatever was skipped, failed or was killed     *)
(* before (compatibility_analysis.py, single_mode's initdb to cleanup).    *)
THEOREM ServesCurrentExtnAlways == Spec => []ServesCurrentExtn
<1>1. Init => TypeInv /\ TableInv /\ ClusterInv
  BY TypeInit, TableInit, ClusterInit
<1>2. TypeInv /\ TableInv /\ ClusterInv /\ [Next]_vars => (TypeInv /\ TableInv /\ ClusterInv)'
  BY TypeStep, TableStep, ClusterStep
<1>3. ClusterInv => ServesCurrentExtn
  BY DEF ClusterInv
<1> QED BY <1>1, <1>2, <1>3, PTL DEF Spec
=============================================================================

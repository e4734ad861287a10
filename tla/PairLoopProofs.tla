--------------------------- MODULE PairLoopProofs ---------------------------
(***************************************************************************)
(* Proofs about PairLoop, for every database, list of pairs, mode, naming  *)
(* of directories and number of runs.  Of the install orders and load lists*)
(* only the last part needs to know what they hold (HostProofs); the rest  *)
(* is true whatever lists the operators return.                            *)
(***************************************************************************)
EXTENDS PairLoop, HostProofs

TypeInv == TypeOK /\ PairAtHand

-----------------------------------------------------------------------------
(* What the constants give for a pair of the list.                         *)
LEMMA PairFacts ==
  ASSUME NEW i \in DOMAIN Pairs
  PROVE  /\ ToInstall(i) \in InstallLists
         /\ OptionsFor(i) \in SUBSET Options
         /\ DirName(Pairs[i]) \in DirNames
         /\ \A k \in DOMAIN ToInstall(i) : ToInstall(i)[k] \in Listed
         /\ i \in Nat \ {0} /\ i <= Len(Pairs) /\ i + 1 \in 1 .. Len(Pairs) + 1
<1>1. ToInstall(i) \in InstallLists
  BY DEF InstallLists
<1>2. OptionsFor(i) \in SUBSET Options
  BY DEF Options
<1>3. DirName(Pairs[i]) \in DirNames
  BY DEF DirNames
<1>4. \A k \in DOMAIN ToInstall(i) : ToInstall(i)[k] \in Listed
  BY <1>1 DEF Listed, ToSet
<1>5. i \in Nat \ {0} /\ i <= Len(Pairs) /\ i + 1 \in 1 .. Len(Pairs) + 1
  BY PairLoopAssumption
<1> QED BY <1>1, <1>2, <1>3, <1>4, <1>5

(* The initial state.                                                      *)
LEMMA TypeInit == Init => TypeInv
<1> SUFFICES ASSUME Init PROVE TypeInv
  OBVIOUS
<1>1. HostType(Options, InstallLists, Listed, Loaded)
  BY NothingTyped DEF Init, HostInit, HostType
<1>2. /\ pc \in PCs /\ runs \in 0 .. MaxRuns /\ idx \in 1 .. Len(Pairs) + 1
      /\ at \in Nat \ {0} /\ opts \in SUBSET Options /\ val \in BOOLEAN
      /\ verdicts \in Seq(BOOLEAN) /\ outdirs \in SUBSET DirNames
      /\ csv \in Reports /\ fresh \in BOOLEAN
  BY PairLoopAssumption DEF Init, PCs, Reports, NoReport
<1> QED BY <1>1, <1>2 DEF TypeInv, TypeOK, PairAtHand, InPair, InTests, Init

-----------------------------------------------------------------------------
(* What each host helper leaves well typed, whatever its command did.      *)
HostTyped == HostType(Options, InstallLists, Listed, Loaded)
AllDists == Dists(Options, Listed)
AllTrees == Trees(Options)
AllClusters == Clusters(InstallLists, Loaded)
AllServers == Servers(InstallLists)

LEMMA HostParts ==
  /\ HostTyped <=> /\ dist \in AllDists /\ tree \in AllTrees /\ workdir \in SUBSET Listed
                   /\ data \in AllClusters /\ server \in AllServers
  /\ HostTyped' <=> /\ dist' \in AllDists /\ tree' \in AllTrees /\ workdir' \in SUBSET Listed
                    /\ data' \in AllClusters /\ server' \in AllServers
BY DEF HostTyped, HostType, AllDists, AllTrees, AllClusters, AllServers

LEMMA Nothing ==
  /\ NoDist \in AllDists /\ NoTree \in AllTrees
  /\ NoData \in AllClusters /\ NoServer \in AllServers
BY NothingTyped DEF AllDists, AllTrees, AllClusters, AllServers

LEMMA UnpackTyped ==
  ASSUME HostTyped, UnpackTree
  PROVE  HostTyped'
BY HostParts, UnpackTreeEffect DEF AllTrees

LEMMA InstallTyped ==
  ASSUME HostTyped, NEW o \in SUBSET Options,
         InstallPostgres(dist, o) \/ InstallPostgres(NoDist, o)
  PROVE  HostTyped'
BY HostParts, Nothing, InstallPostgresEffect DEF AllDists, AllTrees

LEMMA DownloadTyped ==
  ASSUME HostTyped, NEW e \in Listed, DownloadInstall(e)
  PROVE  HostTyped'
BY HostParts, DownloadInstallTyped DEF AllDists

LEMMA InitDbTyped ==
  ASSUME HostTyped, InitDb
  PROVE  HostTyped'
BY HostParts, InitDbEffect DEF AllClusters

LEMMA ModifyConfTyped ==
  ASSUME HostTyped, NEW list \in InstallLists, ModifyConf(list)
  PROVE  HostTyped'
BY HostParts, ModifyConfEffect DEF AllClusters

LEMMA ServerTyped ==
  ASSUME HostTyped, StartPostgres \/ StopPostgres \/ ServerDies
  PROVE  HostTyped'
<1>1. CASE StartPostgres
  BY <1>1, HostParts, StartPostgresEffect DEF AllClusters, AllServers
<1>2. CASE StopPostgres \/ ServerDies
  BY <1>2, HostParts, ServerEndsEffect DEF AllServers
<1> QED BY <1>1, <1>2

LEMMA CleanupTyped ==
  ASSUME HostTyped, Cleanup(TRUE) \/ FinalCleanup \/ OperatorCleanup
  PROVE  HostTyped'
<1>1. CASE Cleanup(TRUE) \/ OperatorCleanup
  BY <1>1, HostParts, Nothing, CleanupEffect DEF AllDists, AllTrees, AllServers
<1>2. CASE FinalCleanup
  BY <1>2, HostParts, Nothing DEF FinalCleanup
<1> QED BY <1>1, <1>2

LEMMA LoadTyped ==
  ASSUME HostTyped, NEW list, ToSet(list) \subseteq Loaded,
         CreateInTemplate(list) \/ LoadBench(list)
  PROVE  HostTyped'
<1>1. CASE CreateInTemplate(list)
  BY <1>1, HostParts, CreateInTemplateEffect DEF AllClusters
<1>2. CASE LoadBench(list)
  BY <1>2, HostParts, LoadBenchEffect DEF AllClusters
<1> QED BY <1>1, <1>2

LEMMA DropBenchTyped ==
  ASSUME HostTyped, DropBench
  PROVE  HostTyped'
BY HostParts, DropBenchEffect DEF AllClusters

LEMMA SameHostTyped ==
  ASSUME HostTyped, UNCHANGED host
  PROVE  HostTyped'
BY HostParts DEF host

-----------------------------------------------------------------------------
(* The program's own variables, and the whole invariant by its parts.      *)
ProgTyped ==
  /\ pc \in PCs /\ runs \in 0 .. MaxRuns /\ idx \in 1 .. Len(Pairs) + 1
  /\ at \in Nat \ {0} /\ opts \in SUBSET Options /\ val \in BOOLEAN
  /\ verdicts \in Seq(BOOLEAN) /\ outdirs \in SUBSET DirNames
  /\ csv \in Reports /\ fresh \in BOOLEAN

LEMMA TypeParts ==
  /\ TypeInv <=> HostTyped /\ ProgTyped /\ PairAtHand
  /\ TypeInv' <=> HostTyped' /\ ProgTyped' /\ PairAtHand'
BY DEF TypeInv, TypeOK, HostTyped, ProgTyped

(* A step that only moves the program counter, inside or out of the pair.  *)
LEMMA GotoTyped ==
  ASSUME ProgTyped, pc' \in PCs,
         UNCHANGED <<idx, at, opts, val, verdicts, outdirs, runs, csv, fresh>>
  PROVE  ProgTyped'
BY DEF ProgTyped

LEMMA PrepareType ==
  ASSUME TypeInv, Prepare
  PROVE  TypeInv'
<1> USE PairLoopAssumption
<1>0. HostTyped /\ ProgTyped /\ PairAtHand
  BY TypeParts
<1>1. CASE InitialSetup
  <2>1. HostTyped' BY <1>0, <1>1, UnpackTyped DEF InitialSetup
  <2>2. ProgTyped' BY <1>0, <1>1, GotoTyped DEF InitialSetup, Goto, PCs
  <2>3. PairAtHand' BY <1>1 DEF InitialSetup, Goto, PairAtHand, InPair, InTests
  <2> QED BY <2>1, <2>2, <2>3, TypeParts
<1>2. CASE InstallFirst
  <2>1. HostTyped' BY <1>0, <1>2, InstallTyped DEF InstallFirst
  <2>2. ProgTyped' BY <1>0, <1>2, GotoTyped DEF InstallFirst, Goto, PCs
  <2>3. PairAtHand' BY <1>2 DEF InstallFirst, Goto, PairAtHand, InPair, InTests
  <2> QED BY <2>1, <2>2, <2>3, TypeParts
<1>3. CASE PreparePair
  <2>1. idx \in DOMAIN Pairs
    BY <1>0, <1>3 DEF PreparePair, ProgTyped
  <2>2. HostTyped'
    BY <1>0, <1>3, <2>1, PairFacts, InstallTyped, SameHostTyped DEF PreparePair
  <2>3. ProgTyped'
    BY <1>0, <1>3, <2>1, PairFacts DEF PreparePair, Goto, ProgTyped, PCs
  <2>4. PairAtHand'
    BY <1>3, <2>1 DEF PreparePair, PairAtHand
  <2> QED BY <2>2, <2>3, <2>4, TypeParts
<1>4. CASE InstallRaises \/ PrepareRaises \/ FetchRaises \/ ModifyConfRaises
  <2>a. ASSUME PrepareRaises PROVE HostTyped'
    <3>1. UNCHANGED <<tree, workdir, data, server>> /\ (dist' = dist \/ dist' = NoDist)
      BY <2>a DEF PrepareRaises, host
    <3> QED BY <1>0, <3>1, HostParts, Nothing
  <2>1. HostTyped'
    BY <1>0, <1>4, <2>a, SameHostTyped DEF InstallRaises, FetchRaises, ModifyConfRaises
  <2>2. ProgTyped'
    BY <1>0, <1>4, GotoTyped DEF InstallRaises, PrepareRaises, FetchRaises, ModifyConfRaises, Goto, PCs
  <2>3. PairAtHand'
    BY <1>4 DEF InstallRaises, PrepareRaises, FetchRaises, ModifyConfRaises, Goto, PairAtHand, InPair, InTests
  <2> QED BY <2>1, <2>2, <2>3, TypeParts
<1>5. CASE FetchNext
  <2>1. idx \in DOMAIN Pairs
    BY <1>0, <1>5 DEF FetchNext, Fetching, PairAtHand, InPair
  <2>2. HostTyped'
    BY <1>0, <1>5, <2>1, PairFacts, DownloadTyped DEF FetchNext, Fetching
  <2>3. ProgTyped' BY <1>0, <1>5 DEF FetchNext, ProgTyped
  <2>4. PairAtHand' BY <1>5, <2>1 DEF FetchNext, PairAtHand
  <2> QED BY <2>2, <2>3, <2>4, TypeParts
<1>6. CASE RunInitDb
  <2>1. idx \in DOMAIN Pairs
    BY <1>0, <1>6 DEF RunInitDb, PairAtHand, InPair
  <2>2. HostTyped' BY <1>0, <1>6, InitDbTyped DEF RunInitDb
  <2>3. ProgTyped'
    BY <1>0, <1>6, <2>1, PairFacts DEF RunInitDb, Goto, ProgTyped, PCs
  <2>4. PairAtHand' BY <1>6, <2>1 DEF RunInitDb, PairAtHand
  <2> QED BY <2>2, <2>3, <2>4, TypeParts
<1>7. CASE RunModifyConf
  <2>1. idx \in DOMAIN Pairs
    BY <1>0, <1>7 DEF RunModifyConf, PairAtHand, InPair
  <2>2. HostTyped'
    BY <1>0, <1>7, <2>1, PairFacts, ModifyConfTyped DEF RunModifyConf
  <2>3. ProgTyped' BY <1>0, <1>7, GotoTyped DEF RunModifyConf, Goto, PCs
  <2>4. PairAtHand' BY <1>7, <2>1 DEF RunModifyConf, PairAtHand
  <2> QED BY <2>2, <2>3, <2>4, TypeParts
<1>8. CASE RunStart
  <2>1. HostTyped' BY <1>0, <1>8, ServerTyped DEF RunStart
  <2>2. ProgTyped' BY <1>0, <1>8 DEF RunStart, Goto, ProgTyped, PCs
  <2>3. PairAtHand' BY <1>0, <1>8 DEF RunStart, Goto, PairAtHand, InPair, InTests
  <2> QED BY <2>1, <2>2, <2>3, TypeParts
<1> QED BY <1>1, <1>2, <1>3, <1>4, <1>5, <1>6, <1>7, <1>8 DEF Prepare

(* The lists CREATE EXTENSION is issued for, in both directions of a pair. *)
LEMMA LoadFacts ==
  ASSUME NEW i \in DOMAIN Pairs, NEW x, NEW y,
         <<x, y>> \in {<<Pairs[i][1], Pairs[i][2]>>, <<Pairs[i][2], Pairs[i][1]>>}
  PROVE  ToSet(CustomLoads(x, y)) \subseteq Loaded /\ ToSet(PgbenchLoads(x, y)) \subseteq Loaded
<1>1. <<x, y>> \in Directed
  BY DEF Directed
<1>2. ToSet(CustomLoads(x, y)) \cup ToSet(PgbenchLoads(x, y)) \subseteq Loaded
  <2> DEFINE p == <<x, y>>
  <2>1. p[1] = x /\ p[2] = y
    OBVIOUS
  <2> QED BY <1>1, <2>1 DEF Loaded
<1> QED BY <1>2

(* A verdict is added to a list of verdicts.                               *)
LEMMA AppendVerdict ==
  ASSUME NEW s \in Seq(BOOLEAN), NEW v \in BOOLEAN
  PROVE  /\ Append(s, v) \in Seq(BOOLEAN) /\ Len(Append(s, v)) = Len(s) + 1
         /\ DOMAIN Append(s, v) = 1 .. Len(s) + 1 /\ DOMAIN s = 1 .. Len(s)
         /\ \A i \in DOMAIN s : Append(s, v)[i] = s[i]
OBVIOUS

(* What is written after a test keeps the program's variables typed.       *)
LEMMA AfterTestTyped ==
  ASSUME TypeInv, Testing, NEW v \in BOOLEAN, AfterTest(v),
         UNCHANGED <<idx, at, opts, outdirs, runs, csv, fresh>>
  PROVE  ProgTyped' /\ PairAtHand'
<1>1. ProgTyped /\ PairAtHand
  BY TypeParts
<1>2. idx \in DOMAIN Pairs
  BY <1>1 DEF Testing, PairAtHand, InPair, InTests
<1>3. pc' \in PCs /\ val' \in BOOLEAN
  BY DEF AfterTest, Goto, PCs
<1>4. verdicts \in Seq(BOOLEAN) /\ Append(verdicts, FALSE) \in Seq(BOOLEAN)
  BY <1>1, AppendVerdict DEF ProgTyped
<1>5. verdicts' \in Seq(BOOLEAN)
  BY <1>4 DEF AfterTest
<1> QED BY <1>1, <1>2, <1>3, <1>5 DEF ProgTyped, PairAtHand

LEMMA RunTestsType ==
  ASSUME TypeInv, RunTests
  PROVE  TypeInv'
<1> USE PairLoopAssumption
<1>0. HostTyped /\ ProgTyped /\ PairAtHand
  BY TypeParts
<1>a. val \in BOOLEAN
  BY <1>0 DEF ProgTyped
<1>b. pc \in {"test1", "test2", "load1", "load2", "bench1", "bench2"} => idx \in DOMAIN Pairs
  BY <1>0 DEF PairAtHand, InPair, InTests
<1>c. Testing => /\ ToSet(CustomLoads(Tested, Compat)) \subseteq Loaded
                 /\ idx \in DOMAIN Pairs
  BY <1>b, LoadFacts DEF Testing, Tested, Compat, First, Second
<1>1. CASE RegressTest
  <2>1. PICK rc : AfterTest(val /\ RegressPasses(rc))
    BY <1>1 DEF RegressTest
  <2>2. ProgTyped' /\ PairAtHand'
    BY <1>1, <2>1, AfterTestTyped DEF RegressTest
  <2>3. HostTyped' BY <1>0, <1>1, SameHostTyped DEF RegressTest
  <2> QED BY <2>2, <2>3, TypeParts
<1>2. CASE CustomTest
  <2>1. PICK same \in BOOLEAN : AfterTest(val /\ same)
    BY <1>2 DEF CustomTest
  <2>2. ProgTyped' /\ PairAtHand'
    BY <1>2, <2>1, AfterTestTyped DEF CustomTest
  <2>3. HostTyped' BY <1>0, <1>c, <1>2, LoadTyped DEF CustomTest
  <2> QED BY <2>2, <2>3, TypeParts
<1>3. CASE NoTest
  <2>1. ProgTyped' /\ PairAtHand'
    BY <1>a, <1>3, AfterTestTyped DEF NoTest
  <2>2. HostTyped' BY <1>0, <1>3, SameHostTyped DEF NoTest
  <2> QED BY <2>1, <2>2, TypeParts
<1>4. CASE RegressExits \/ CustomExits \/ SuiteMissing
  <2>1. HostTyped'
    BY <1>0, <1>c, <1>4, SameHostTyped, LoadTyped DEF RegressExits, CustomExits, SuiteMissing
  <2>2. ProgTyped'
    BY <1>0, <1>4, GotoTyped DEF RegressExits, CustomExits, SuiteMissing, Goto, PCs
  <2>3. PairAtHand'
    BY <1>4 DEF RegressExits, CustomExits, SuiteMissing, Goto, PairAtHand, InPair, InTests
  <2> QED BY <2>1, <2>2, <2>3, TypeParts
<1>5. CASE BenchLoad
  <2>1. idx \in DOMAIN Pairs
    BY <1>b, <1>5 DEF BenchLoad
  <2>2. ToSet(PgbenchLoads(First, Second)) \subseteq Loaded
    BY <2>1, LoadFacts DEF First, Second
  <2>3. ToSet(PgbenchLoads(Second, First)) \subseteq Loaded
    BY <2>1, LoadFacts DEF First, Second
  <2>4. HostTyped' BY <1>0, <1>5, <2>2, <2>3, LoadTyped DEF BenchLoad
  <2>5. ProgTyped' BY <1>0, <1>5, GotoTyped DEF BenchLoad, Goto, PCs
  <2>6. PairAtHand' BY <1>5, <2>1 DEF BenchLoad, PairAtHand
  <2> QED BY <2>4, <2>5, <2>6, TypeParts
<1>6. CASE BenchRun
  <2>1. BenchOutcomes \subseteq BOOLEAN
    BY DEF BenchOutcomes
  <2>2. pc' \in PCs
    BY <1>6 DEF BenchRun, Goto, PCs
  <2>a. \A v \in BOOLEAN : Append(verdicts, v) \in Seq(BOOLEAN)
    BY <1>0, AppendVerdict DEF ProgTyped
  <2>b. verdicts' \in Seq(BOOLEAN)
    BY <1>0, <1>6, <2>1, <2>a DEF BenchRun, ProgTyped
  <2>3. ProgTyped' BY <1>0, <1>6, <2>2, <2>b DEF BenchRun, ProgTyped
  <2>4. HostTyped' BY <1>0, <1>6, DropBenchTyped DEF BenchRun
  <2>5. PairAtHand' BY <1>b, <1>6 DEF BenchRun, PairAtHand
  <2> QED BY <2>3, <2>4, <2>5, TypeParts
<1> QED BY <1>1, <1>2, <1>3, <1>4, <1>5, <1>6 DEF RunTests

LEMMA FinishType ==
  ASSUME TypeInv, Finish
  PROVE  TypeInv'
<1> USE PairLoopAssumption
<1>0. HostTyped /\ ProgTyped /\ PairAtHand
  BY TypeParts
<1>1. CASE RunStop
  <2>1. HostTyped' BY <1>0, <1>1, ServerTyped DEF RunStop
  <2>2. ProgTyped' BY <1>0, <1>1, GotoTyped DEF RunStop, Goto, PCs
  <2>3. PairAtHand' BY <1>0, <1>1 DEF RunStop, Goto, PairAtHand, InPair, InTests
  <2> QED BY <2>1, <2>2, <2>3, TypeParts
<1>2. CASE RunCleanup
  <2>1. idx \in DOMAIN Pairs
    BY <1>0, <1>2 DEF RunCleanup, PairAtHand, InPair
  <2>2. HostTyped' BY <1>0, <1>2, CleanupTyped DEF RunCleanup
  <2>3. ProgTyped'
    BY <1>0, <1>2, <2>1, PairFacts DEF RunCleanup, Goto, ProgTyped, PCs
  <2>4. PairAtHand' BY <1>2 DEF RunCleanup, Goto, PairAtHand, InPair, InTests
  <2> QED BY <2>2, <2>3, <2>4, TypeParts
<1>3. CASE LoopEnds \/ RunFinalCleanup
  <2>1. HostTyped'
    BY <1>0, <1>3, SameHostTyped, CleanupTyped DEF LoopEnds, RunFinalCleanup
  <2>2. ProgTyped' BY <1>0, <1>3, GotoTyped DEF LoopEnds, RunFinalCleanup, Goto, PCs
  <2>3. PairAtHand'
    BY <1>3 DEF LoopEnds, RunFinalCleanup, Goto, PairAtHand, InPair, InTests
  <2> QED BY <2>1, <2>2, <2>3, TypeParts
<1>4. CASE DeleteWorkingPairs
  <2>1. HostTyped' BY <1>0, <1>4, SameHostTyped DEF DeleteWorkingPairs
  <2>2. ProgTyped' BY <1>0, <1>4 DEF DeleteWorkingPairs, Goto, ProgTyped, PCs
  <2>3. PairAtHand' BY <1>4 DEF DeleteWorkingPairs, Goto, PairAtHand, InPair, InTests
  <2> QED BY <2>1, <2>2, <2>3, TypeParts
<1>5. CASE OpenReport \/ WriteReport
  <2>1. HostTyped' BY <1>0, <1>5, SameHostTyped DEF OpenReport, WriteReport
  <2>a. verdicts \in Seq(BOOLEAN) /\ << >> \in Seq(BOOLEAN)
    BY <1>0 DEF ProgTyped
  <2>b. /\ [state |-> "torn", rows |-> << >>] \in Reports
        /\ [state |-> "written", rows |-> verdicts] \in Reports
    BY <2>a DEF Reports
  <2>2. csv' \in Reports
    BY <1>5, <2>b DEF OpenReport, WriteReport
  <2>3. ProgTyped'
    BY <1>0, <1>5, <2>2 DEF OpenReport, WriteReport, Goto, ProgTyped, PCs
  <2>4. PairAtHand' BY <1>5 DEF OpenReport, WriteReport, Goto, PairAtHand, InPair, InTests
  <2> QED BY <2>1, <2>3, <2>4, TypeParts
<1> QED BY <1>1, <1>2, <1>3, <1>4, <1>5 DEF Finish

LEMMA EnvironmentType ==
  ASSUME TypeInv, Environment
  PROVE  TypeInv'
<1> USE PairLoopAssumption
<1>0. HostTyped /\ ProgTyped /\ PairAtHand
  BY TypeParts
<1>1. CASE Begin
  <2>1. HostTyped' BY <1>0, <1>1, SameHostTyped DEF Begin
  <2>2. runs' \in 0 .. MaxRuns /\ fresh' \in BOOLEAN /\ 1 \in 1 .. Len(Pairs) + 1
    BY <1>0, <1>1 DEF Begin, ProgTyped
  <2>3. ProgTyped' BY <1>0, <1>1, <2>2 DEF Begin, Goto, ProgTyped, PCs
  <2>4. PairAtHand' BY <1>1 DEF Begin, Goto, PairAtHand, InPair, InTests
  <2> QED BY <2>1, <2>3, <2>4, TypeParts
<1>2. CASE Killed
  <2>1. HostTyped' BY <1>0, <1>2, SameHostTyped DEF Killed
  <2>2. ProgTyped' BY <1>0, <1>2, GotoTyped DEF Killed, Goto, PCs
  <2>3. PairAtHand' BY <1>2 DEF Killed, Goto, PairAtHand, InPair, InTests
  <2> QED BY <2>1, <2>2, <2>3, TypeParts
<1>3. CASE HostServerDies \/ UserCleansUp
  <2>1. HostTyped'
    BY <1>0, <1>3, ServerTyped, CleanupTyped DEF HostServerDies, UserCleansUp
  <2>2. UNCHANGED <<prog, runs, csv, fresh>>
    BY <1>3 DEF HostServerDies, UserCleansUp
  <2>3. ProgTyped' /\ PairAtHand'
    BY <1>0, <2>2 DEF prog, ProgTyped, PairAtHand, InPair, InTests
  <2> QED BY <2>1, <2>3, TypeParts
<1> QED BY <1>1, <1>2, <1>3 DEF Environment

LEMMA TypeStep == TypeInv /\ [Next]_vars => TypeInv'
<1> SUFFICES ASSUME TypeInv, [Next]_vars PROVE TypeInv'
  OBVIOUS
<1>1. CASE UNCHANGED vars
  <2>1. HostTyped' BY <1>1, TypeParts, SameHostTyped DEF vars
  <2>2. ProgTyped' /\ PairAtHand'
    BY <1>1, TypeParts DEF vars, prog, ProgTyped, PairAtHand, InPair, InTests
  <2> QED BY <2>1, <2>2, TypeParts
<1> QED BY <1>1, PrepareType, RunTestsType, FinishType, EnvironmentType DEF Next, Program

(* Every reachable state is well typed, and a pair is only worked on while *)
(* there is one (compatibility_analysis.py, the loops 575-593 and 608-629).*)
THEOREM TypeCorrect == Spec => []TypeInv
<1>1. Init => TypeInv
  BY TypeInit
<1>2. TypeInv /\ [Next]_vars => TypeInv'
  BY TypeStep
<1> QED BY <1>1, <1>2, PTL DEF Spec

-----------------------------------------------------------------------------
(* The server and the cluster.  What a well typed host has in its fields.  *)
LEMMA HostFields ==
  ASSUME HostTyped
  PROVE  /\ server.up \in BOOLEAN /\ server.orphan \in BOOLEAN
         /\ data.present \in BOOLEAN /\ dist.built \in BOOLEAN
         /\ ~NoServer.up /\ ~NoData.present /\ NoData.confs = << >>
         /\ NewData.present /\ NewData.confs = << >>
         /\ ~NoDist.built /\ NoDist.opts = {} /\ NoDist.libs = {}
BY HostParts DEF AllDists, AllClusters, AllServers, Dists, Clusters, Servers,
                 NoServer, NoData, NewData, NoDist

(* What each helper does to a cluster and to a server that answers.        *)
LEMMA ClusterEffects ==
  ASSUME HostTyped
  PROVE  /\ InitDb => /\ UNCHANGED server
                      /\ data' = data \/ (data'.present /\ data'.confs = << >>)
         /\ \A list : ModifyConf(list) =>
              /\ UNCHANGED server /\ data'.present
              /\ data'.confs = Append(data.confs, list)
         /\ StartPostgres => /\ UNCHANGED data
                             /\ Serving' => Serving \/ server'.confs = data.confs
         /\ StopPostgres \/ ServerDies =>
              UNCHANGED data /\ (Serving' => Serving /\ UNCHANGED server)
         /\ Cleanup(TRUE) \/ OperatorCleanup =>
              ~data'.present /\ data'.confs = << >> /\ ~Serving'
         /\ \A list : CreateInTemplate(list) \/ LoadBench(list) \/ DropBench =>
              /\ UNCHANGED server
              /\ data'.present = data.present /\ data'.confs = data.confs
<1>1. InitDb => /\ UNCHANGED server
                /\ data' = data \/ (data'.present /\ data'.confs = << >>)
  BY HostFields DEF InitDb
<1>2. \A list : ModifyConf(list) =>
        /\ UNCHANGED server /\ data'.present
        /\ data'.confs = Append(data.confs, list)
  BY HostParts DEF ModifyConf, AllClusters, Clusters
<1>3. StartPostgres => /\ UNCHANGED data
                       /\ Serving' => Serving \/ server'.confs = data.confs
  BY DEF StartPostgres, Serving
<1>4. StopPostgres \/ ServerDies =>
        UNCHANGED data /\ (Serving' => Serving /\ UNCHANGED server)
  BY HostFields DEF StopPostgres, ServerDies, Serving
<1>5. Cleanup(TRUE) \/ OperatorCleanup =>
        ~data'.present /\ data'.confs = << >> /\ ~Serving'
  <2>1. [server EXCEPT !.orphan = server.up].up = server.up
    BY HostParts DEF AllServers, Servers
  <2>2. [server EXCEPT !.orphan = server.up].orphan = server.up
    BY HostParts DEF AllServers, Servers
  <2> QED BY <2>1, <2>2, HostFields DEF Cleanup, OperatorCleanup, Serving
<1>6. \A list : CreateInTemplate(list) \/ LoadBench(list) \/ DropBench =>
        /\ UNCHANGED server
        /\ data'.present = data.present /\ data'.confs = data.confs
  BY HostParts DEF CreateInTemplate, LoadBench, DropBench, AllClusters, Clusters
<1> QED BY <1>1, <1>2, <1>3, <1>4, <1>5, <1>6

LEMMA ClusterInit == Init => ClusterInv
BY DEF Init, HostInit, ClusterInv, ServesCurrentPair, InTests, NoData, NoServer, Serving

(* A step that leaves the server and the configuration of the cluster      *)
(* alone, and either leaves the pair or goes on testing it.                *)
LEMMA ClusterKept ==
  ASSUME ClusterInv, UNCHANGED <<server, idx, fresh>>,
         data'.present = data.present, data'.confs = data.confs,
         \/ pc' \in {"exited", "delete", "final", "open", "write", "done", "cleanup"}
         \/ InTests /\ InTests'
         \/ pc' = pc
  PROVE  ClusterInv'
BY DEF ClusterInv, ServesCurrentPair, OwnCluster, InTests, Serving

LEMMA ClusterStep == TypeInv /\ ClusterInv /\ [Next]_vars => ClusterInv'
<1> SUFFICES ASSUME TypeInv, ClusterInv, [Next]_vars PROVE ClusterInv'
  OBVIOUS
<1>0. HostTyped /\ ProgTyped /\ PairAtHand
  BY TypeParts
<1> USE PairLoopAssumption
<1>1. CASE \/ InstallRaises \/ PrepareRaises \/ FetchRaises \/ ModifyConfRaises
           \/ RegressExits \/ LoopEnds \/ DeleteWorkingPairs
           \/ OpenReport \/ WriteReport \/ Killed
  BY <1>1, ClusterKept
     DEF InstallRaises, PrepareRaises, FetchRaises, ModifyConfRaises, RegressExits, LoopEnds, DeleteWorkingPairs, OpenReport, WriteReport, Killed, Goto, host
<1>2. CASE \/ RegressTest \/ NoTest \/ CustomTest \/ CustomExits \/ SuiteMissing
           \/ BenchLoad \/ BenchRun
  <2>1. /\ UNCHANGED <<server, idx, fresh>>
        /\ data'.present = data.present /\ data'.confs = data.confs
    BY <1>0, <1>2, ClusterEffects
       DEF RegressTest, NoTest, CustomTest, CustomExits, SuiteMissing, BenchLoad, BenchRun, host
  <2>2. pc' = "exited" \/ (InTests /\ InTests')
    BY <1>2 DEF RegressTest, NoTest, CustomTest, CustomExits, SuiteMissing, BenchLoad, BenchRun,
                Testing, AfterTest, Goto, InTests
  <2> QED BY <2>1, <2>2, ClusterKept
<1>3. CASE InitialSetup \/ InstallFirst \/ PreparePair
  <2>1. UNCHANGED <<data, server, idx, fresh>>
    BY <1>3 DEF InitialSetup, InstallFirst, PreparePair, UnpackTree, InstallPostgres, host
  <2>2. pc \in {"setup", "install", "pair"} /\ pc' \in {"install", "pair", "fetch", "exited"}
    BY <1>3 DEF InitialSetup, InstallFirst, PreparePair, Goto
  <2> QED BY <2>1, <2>2 DEF ClusterInv, ServesCurrentPair, OwnCluster, InTests, Serving
<1>4. CASE FetchNext
  <2>1. UNCHANGED <<pc, data, server, idx, fresh>>
    BY <1>4 DEF FetchNext, DownloadInstall, host
  <2> QED BY <2>1, ClusterKept
<1>5. CASE RunInitDb
  <2>1. /\ UNCHANGED <<server, idx, fresh>> /\ pc = "fetch" /\ pc' = "conf"
        /\ data' = data \/ (data'.present /\ data'.confs = << >>)
    BY <1>0, <1>5, ClusterEffects DEF RunInitDb, Goto
  <2> QED BY <2>1 DEF ClusterInv, ServesCurrentPair, OwnCluster, InTests, Serving
<1>6. CASE RunModifyConf
  <2>1. /\ UNCHANGED <<server, idx, fresh>> /\ pc = "conf" /\ pc' = "start"
        /\ data'.present /\ data'.confs = Append(data.confs, ToInstall(idx))
    BY <1>0, <1>6, ClusterEffects DEF RunModifyConf, Goto
  <2>2. Append(<< >>, ToInstall(idx)) = <<ToInstall(idx)>>
    OBVIOUS
  <2>3. ToInstall(idx)' = ToInstall(idx)
    BY <2>1 DEF ToInstall
  <2> QED BY <2>1, <2>2, <2>3 DEF ClusterInv, ServesCurrentPair, OwnCluster, InTests, Serving
<1>7. CASE RunStart
  <2>1. /\ UNCHANGED <<data, idx, fresh>> /\ pc = "start" /\ pc' = "test1"
        /\ Serving' => Serving \/ server'.confs = data.confs
    BY <1>0, <1>7, ClusterEffects DEF RunStart, Goto
  <2>2. ToInstall(idx)' = ToInstall(idx)
    BY <2>1 DEF ToInstall
  <2> QED BY <2>1, <2>2 DEF ClusterInv, ServesCurrentPair, OwnCluster, InTests
<1>8. CASE RunStop \/ HostServerDies
  <2>1. /\ UNCHANGED <<data, idx, fresh>>
        /\ Serving' => Serving /\ UNCHANGED server
    BY <1>0, <1>8, ClusterEffects DEF RunStop, HostServerDies, prog
  <2>2. pc' = "cleanup" \/ pc' = pc
    BY <1>8 DEF RunStop, HostServerDies, Goto, prog
  <2>3. ToInstall(idx)' = ToInstall(idx)
    BY <2>1 DEF ToInstall
  <2> QED BY <2>1, <2>2, <2>3 DEF ClusterInv, ServesCurrentPair, OwnCluster, InTests
<1>9. CASE RunCleanup \/ UserCleansUp
  <2>1. ~data'.present /\ data'.confs = << >> /\ ~Serving'
    BY <1>0, <1>9, ClusterEffects DEF RunCleanup, UserCleansUp
  <2>2. pc' = "pair" \/ pc' \in {"idle", "done", "exited"}
    BY <1>0, <1>9 DEF RunCleanup, UserCleansUp, Running, Goto, prog
  <2> QED BY <2>1, <2>2 DEF ClusterInv, ServesCurrentPair, InTests
<1>10. CASE RunFinalCleanup
  BY <1>10, ClusterKept DEF RunFinalCleanup, FinalCleanup, Goto
<1>11. CASE Begin
  <2>1. UNCHANGED <<data, server>> /\ idx' = 1 /\ (fresh' => ~server.up /\ ~data.present)
    BY <1>11 DEF Begin, host
  <2>2. pc' \in {"setup", "exited"}
    BY <1>11 DEF Begin, Goto
  <2>3. (idx' > 1) = FALSE
    BY <2>1
  <2> QED BY <2>1, <2>2, <2>3 DEF ClusterInv, ServesCurrentPair, OwnCluster, InTests, Serving
<1>12. CASE UNCHANGED vars
  BY <1>12, ClusterKept DEF vars, host, prog
<1> QED
  BY <1>1, <1>2, <1>3, <1>4, <1>5, <1>6, <1>7, <1>8, <1>9, <1>10, <1>11, <1>12
     DEF Next, Program, Environment, Prepare, RunTests, Finish

(* No pair is ever tested against the server, the cluster or the settings  *)
(* of another pair (compatibility_analysis.py:586-593 and 620-629, with    *)
(* cleanup 204-208 in between).                                            *)
THEOREM ServesCurrentPairAlways == Spec => []ServesCurrentPair
<1>1. Init => TypeInv /\ ClusterInv
  BY TypeInit, ClusterInit
<1>2. TypeInv /\ ClusterInv /\ [Next]_vars => (TypeInv /\ ClusterInv)'
  BY TypeStep, ClusterStep
<1>3. ClusterInv => ServesCurrentPair
  BY DEF ClusterInv
<1> QED BY <1>1, <1>2, <1>3, PTL DEF Spec

-----------------------------------------------------------------------------
(* The installation.  What each helper does to it.                         *)
LEMMA DistEffects ==
  ASSUME HostTyped
  PROVE  /\ \A o \in SUBSET Options, base \in {dist, NoDist} : InstallPostgres(base, o) =>
              \/ dist' = base
              \/ /\ dist'.built /\ dist'.opts = tree'.opts \cup base.opts
                 /\ dist'.libs = base.libs
         /\ UnpackTree => dist' = dist /\ tree'.opts = tree.opts
         /\ \A e : DownloadInstall(e) =>
              /\ dist'.built = dist.built /\ dist'.opts = dist.opts /\ tree' = tree
              /\ dist'.libs \subseteq dist.libs \cup {e}
<1>1. ASSUME NEW o \in SUBSET Options, NEW base \in {dist, NoDist}, InstallPostgres(base, o)
      PROVE  \/ dist' = base
             \/ /\ dist'.built /\ dist'.opts = tree'.opts \cup base.opts
                /\ dist'.libs = base.libs
  BY <1>1, HostParts, Nothing, InstallPostgresEffect DEF AllDists, AllTrees
<1>2. ASSUME NEW e, DownloadInstall(e)
      PROVE  /\ dist'.built = dist.built /\ dist'.opts = dist.opts /\ tree' = tree
             /\ dist'.libs \subseteq dist.libs \cup {e}
  BY <1>2, HostParts DEF DownloadInstall, host, AllDists, Dists
<1>3. UnpackTree => dist' = dist /\ tree'.opts = tree.opts
  BY HostParts, UnpackTreeEffect DEF AllTrees
<1> QED BY <1>1, <1>2, <1>3

LEMMA InstallInit == Init => InstallInv
BY DEF Init, HostInit, InstallInv, NoDist, InPair, InTests

(* A step that leaves the installation, what the tree is configured for and*)
(* the options alone.                                                      *)
LEMMA InstallKept ==
  ASSUME InstallInv, UNCHANGED <<dist, opts, fresh>>, tree'.opts = tree.opts,
         \/ ~InPair' /\ pc' \notin {"setup", "install"}
         \/ pc = "setup" /\ pc' = "install"
         \/ pc' = pc /\ UNCHANGED idx
         \/ InPair /\ InPair' /\ UNCHANGED idx
  PROVE  InstallInv'
BY DEF InstallInv, InPair, InTests, OptionsFor, ToInstall

LEMMA InstallStep == TypeInv /\ InstallInv /\ [Next]_vars => InstallInv'
<1> SUFFICES ASSUME TypeInv, InstallInv, [Next]_vars PROVE InstallInv'
  OBVIOUS
<1>0. HostTyped /\ ProgTyped /\ PairAtHand
  BY TypeParts
<1> USE PairLoopAssumption
<1>1. CASE \/ InitialSetup \/ InstallRaises \/ FetchRaises \/ ModifyConfRaises
           \/ RunCleanup \/ LoopEnds \/ DeleteWorkingPairs \/ OpenReport
           \/ WriteReport \/ Killed \/ RegressExits \/ CustomExits \/ SuiteMissing
  <2>1. UNCHANGED <<dist, opts, fresh>> /\ tree'.opts = tree.opts
    <3>1. CASE InitialSetup
      BY <1>0, <3>1, DistEffects DEF InitialSetup
    <3>2. CASE ~InitialSetup
      BY <1>1, <3>2 DEF InstallRaises, FetchRaises, ModifyConfRaises, RunCleanup, Cleanup,
           LoopEnds, DeleteWorkingPairs, OpenReport, WriteReport, Killed, RegressExits,
           CustomExits, SuiteMissing, CreateInTemplate, host
    <3> QED BY <3>1, <3>2
  <2>2. \/ ~InPair' /\ pc' \notin {"setup", "install"}
        \/ pc = "setup" /\ pc' = "install"
    BY <1>1 DEF InitialSetup, InstallRaises, FetchRaises, ModifyConfRaises, RunCleanup, LoopEnds,
         DeleteWorkingPairs, OpenReport, WriteReport, Killed, RegressExits, CustomExits,
         SuiteMissing, Goto, InPair, InTests
  <2> QED BY <2>1, <2>2, InstallKept
<1>2. CASE \/ RunInitDb \/ RunModifyConf \/ RunStart \/ RegressTest \/ NoTest
           \/ CustomTest \/ BenchLoad \/ BenchRun \/ RunStop
  <2>1. UNCHANGED <<dist, tree, opts, fresh, idx>>
    BY <1>2 DEF RunInitDb, RunModifyConf, RunStart, RegressTest, NoTest, CustomTest,
         BenchLoad, BenchRun, RunStop, InitDb, ModifyConf, StartPostgres,
         CreateInTemplate, LoadBench, DropBench, StopPostgres, host
  <2>2. InPair /\ InPair'
    BY <1>2 DEF RunInitDb, RunModifyConf, RunStart, RegressTest, NoTest, CustomTest,
         BenchLoad, BenchRun, RunStop, Testing, AfterTest, Goto, InPair, InTests
  <2> QED BY <2>1, <2>2, InstallKept
<1>3. CASE InstallFirst
  <2>1. /\ pc = "install" /\ pc' = "pair" /\ UNCHANGED <<opts, fresh>>
        /\ dist' = dist \/ (dist'.built /\ dist'.opts = tree'.opts \cup dist.opts)
    BY <1>0, <1>3, DistEffects DEF InstallFirst, Goto
  <2>2. ~InPair' /\ opts = {} /\ (fresh => ~dist.built /\ dist.opts = {})
    BY <2>1 DEF InstallInv, InPair, InTests
  <2> QED BY <1>0, <2>1, <2>2, HostFields DEF InstallInv
<1>4. CASE PreparePair
  <2>1. /\ pc = "pair" /\ pc' = "fetch" /\ UNCHANGED <<idx, fresh>>
        /\ OptionsFor(idx)' = OptionsFor(idx) /\ OptionsFor(idx) \in SUBSET Options
    BY <1>0, <1>4, PairFacts DEF PreparePair, Goto, OptionsFor, ToInstall, ProgTyped
  <2>2. CASE MustReinstall
    <3>1. /\ opts' = OptionsFor(idx)
          /\ dist' = NoDist \/ (/\ dist'.built /\ dist'.opts = tree'.opts \cup NoDist.opts
                                /\ dist'.libs = NoDist.libs)
      BY <1>0, <1>4, <2>1, <2>2, DistEffects DEF PreparePair
    <3> QED BY <1>0, <2>1, <3>1, HostFields DEF InstallInv
  <2>3. CASE ~MustReinstall
    <3>1. UNCHANGED <<dist, tree, opts>> /\ opts = OptionsFor(idx) /\ Mode # "parallel"
      BY <1>4, <2>3 DEF PreparePair, MustReinstall, host
    <3> QED BY <2>1, <3>1 DEF InstallInv
  <2> QED BY <2>2, <2>3
<1>5. CASE FetchNext
  <2>1. /\ UNCHANGED <<pc, idx, opts, fresh>> /\ pc = "fetch"
        /\ dist'.built = dist.built /\ dist'.opts = dist.opts /\ tree' = tree
        /\ dist'.libs \subseteq dist.libs \cup {ToInstall(idx)[at]}
    BY <1>0, <1>5, DistEffects DEF FetchNext, Fetching
  <2>2. ToInstall(idx)[at] \in ToSet(ToInstall(idx))
    BY <1>5 DEF FetchNext, Fetching, ToSet
  <2>3. ToInstall(idx)' = ToInstall(idx) /\ OptionsFor(idx)' = OptionsFor(idx)
    BY <2>1 DEF ToInstall, OptionsFor
  <2> QED BY <2>1, <2>2, <2>3 DEF InstallInv, InPair, InTests
<1>6. CASE RunFinalCleanup \/ UserCleansUp
  <2>1. dist' = NoDist /\ UNCHANGED <<opts, fresh>>
    BY <1>6 DEF RunFinalCleanup, FinalCleanup, UserCleansUp, OperatorCleanup, prog
  <2>2. pc' = "open" \/ pc' \in {"idle", "done", "exited"}
    BY <1>0, <1>6 DEF RunFinalCleanup, UserCleansUp, Running, Goto, prog
  <2> QED BY <1>0, <2>1, <2>2, HostFields DEF InstallInv, InPair, InTests
<1>7. CASE Begin
  <2>1. /\ UNCHANGED dist /\ opts' = {} /\ (fresh' => ~dist.built)
        /\ pc' \in {"setup", "exited"}
    BY <1>7 DEF Begin, Goto, host
  <2> QED BY <2>1 DEF InstallInv, InPair, InTests
<1>9. CASE PrepareRaises
  <2>1. (dist' = dist \/ dist' = NoDist) /\ UNCHANGED <<tree, opts, fresh>> /\ pc' = "exited"
    BY <1>9 DEF PrepareRaises, Goto, host
  <2> QED BY <1>0, <2>1, HostFields DEF InstallInv, InPair, InTests
<1>8. CASE HostServerDies \/ UNCHANGED vars
  BY <1>8, InstallKept DEF HostServerDies, ServerDies, vars, host, prog
<1> QED
  BY <1>1, <1>2, <1>3, <1>4, <1>5, <1>6, <1>7, <1>8, <1>9
     DEF Next, Program, Environment, Prepare, RunTests, Finish

(* A pair is tested on a PostgreSQL configured with all its options, and   *)
(* with no others when the run began on a clean host, as long as the last  *)
(* configure of the source tree is the one for these options; otherwise the*)
(* run that began on a clean host tests it on what the tree was configured *)
(* for before (install_postgres and reinstall_postgres,                    *)
(* compatibility_analysis.py:160-191).                                     *)
THEOREM BuiltForPairAlways == Spec => []BuiltForPair
<1>1. Init => TypeInv /\ InstallInv
  BY TypeInit, InstallInit
<1>2. TypeInv /\ InstallInv /\ [Next]_vars => (TypeInv /\ InstallInv)'
  BY TypeStep, InstallStep
<1>3. InstallInv => BuiltForPair
  BY DEF InstallInv, BuiltForPair, InPair
<1> QED BY <1>1, <1>2, <1>3, PTL DEF Spec

(* In parallel mode nothing that an earlier pair installed is left when a  *)
(* pair is tested (compatibility_analysis.py:613-616).                     *)
THEOREM IsolatedPairAlways == Spec => []IsolatedPair
<1>1. Init => TypeInv /\ InstallInv
  BY TypeInit, InstallInit
<1>2. TypeInv /\ InstallInv /\ [Next]_vars => (TypeInv /\ InstallInv)'
  BY TypeStep, InstallStep
<1>3. InstallInv => IsolatedPair
  BY DEF InstallInv, IsolatedPair, InPair
<1> QED BY <1>1, <1>2, <1>3, PTL DEF Spec

-----------------------------------------------------------------------------
(* The server of a pair found every library it preloads when it came up,   *)
(* and nothing is installed or removed until it is stopped.                *)
LEMMA PreloadInit == Init => PreloadInv
BY DEF Init, PreloadInv, InTests

LEMMA PreloadKept ==
  ASSUME PreloadInv, InTests, UNCHANGED <<dist, idx, fresh>>, Serving' => Serving
  PROVE  PreloadInv'
BY DEF PreloadInv, OwnCluster, Available, ToInstall

(* What the tests leave alone.                                             *)
LEMMA TestsEffect ==
  ASSUME RunTests
  PROVE  /\ UNCHANGED <<dist, tree, workdir, server, idx, fresh>> /\ InTests
         /\ pc' = "exited" \/ InTests'
<1>1. CASE RegressTest \/ RegressExits \/ NoTest
  BY <1>1 DEF RegressTest, RegressExits, NoTest, Testing, AfterTest, Goto, InTests, host
<1>2. CASE CustomTest \/ CustomExits \/ SuiteMissing
  BY <1>2 DEF CustomTest, CustomExits, SuiteMissing, CreateInTemplate, Testing, AfterTest,
       Goto, InTests, host
<1>3. CASE BenchLoad \/ BenchRun
  BY <1>3 DEF BenchLoad, BenchRun, LoadBench, DropBench, Goto, InTests
<1> QED BY <1>1, <1>2, <1>3 DEF RunTests

LEMMA PreloadStep == TypeInv /\ ClusterInv /\ PreloadInv /\ [Next]_vars => PreloadInv'
<1> SUFFICES ASSUME TypeInv, ClusterInv, PreloadInv, [Next]_vars PROVE PreloadInv'
  OBVIOUS
<1>0. HostTyped
  BY TypeParts
<1>1. CASE ~InTests'
  BY <1>1 DEF PreloadInv
<1>2. CASE RunTests
  <2>1. Serving' => Serving
    BY <1>2, TestsEffect DEF Serving
  <2> QED BY <1>2, <2>1, TestsEffect, PreloadKept
<1>3. CASE RunStart
  <2> SUFFICES ASSUME Serving', OwnCluster' PROVE (\A e \in ToSet(PreloadLibs(ToInstall(idx))) : Available(e))'
    BY DEF PreloadInv
  <2>1. UNCHANGED <<dist, idx, fresh>> /\ pc = "start"
    BY <1>3 DEF RunStart, StartPostgres
  <2>2. data.confs = <<ToInstall(idx)>> /\ ~Serving
    BY <2>1 DEF ClusterInv, OwnCluster
  <2>3. CanStart
    <3>1. server' = server \/ CanStart
      BY <1>3 DEF RunStart, StartPostgres
    <3>2. server' # server
      BY <2>2 DEF Serving
    <3> QED BY <3>1, <3>2
  <2>4. Last(data.confs) = ToInstall(idx)
    BY <2>2 DEF Last
  <2>5. \A e \in ToSet(PreloadLibs(ToInstall(idx))) : Available(e)
    BY <2>3, <2>4 DEF CanStart
  <2> QED BY <2>1, <2>5 DEF Available, ToInstall
<1>4. CASE HostServerDies \/ UNCHANGED vars
  <2>1. UNCHANGED <<dist, idx, fresh, pc>>
    BY <1>4 DEF HostServerDies, ServerDies, vars, prog, host
  <2>2. Serving' => Serving
    BY <1>0, <1>4, ClusterEffects DEF HostServerDies, vars, host, Serving
  <2> QED BY <1>1, <2>1, <2>2, PreloadKept DEF InTests
<1>5. CASE UserCleansUp
  <2>1. ~InTests'
    BY <1>5 DEF UserCleansUp, Running, InTests, prog
  <2> QED BY <1>1, <2>1
<1>6. CASE Begin \/ Killed \/ Finish
  <2>1. ~InTests'
    BY <1>6 DEF Begin, Killed, Finish, RunStop, RunCleanup, LoopEnds, DeleteWorkingPairs,
         RunFinalCleanup, OpenReport, WriteReport, Goto, InTests
  <2> QED BY <1>1, <2>1
<1>7. CASE Prepare /\ ~RunStart
  <2>1. ~InTests'
    BY <1>7 DEF Prepare, InitialSetup, InstallFirst, InstallRaises, PreparePair, PrepareRaises, FetchNext,
         FetchRaises, RunInitDb, RunModifyConf, ModifyConfRaises, Fetching, Goto, InTests
  <2> QED BY <1>1, <2>1
<1> QED BY <1>2, <1>3, <1>4, <1>5, <1>6, <1>7 DEF Next, Program, Environment

-----------------------------------------------------------------------------
(* What a pair's databases hold is of the pair: they are created in its own*)
(* cluster, and nothing is loaded that is not installed for it.            *)
LEMMA LoadedInit == Init => LoadedInv
BY DEF Init, HostInit, LoadedInv, InTests, NoData, NoServer, Serving

Filling == pc \in {"conf", "start"} \/ InTests

LEMMA LoadedKept ==
  ASSUME LoadedInv, UNCHANGED <<data, idx, fresh>>, Serving' => Serving, Filling' => Filling
  PROVE  LoadedInv'
BY DEF LoadedInv, Filling, OwnCluster, ToInstall

(* Both directions of the pair at hand load what is installed for it.      *)
LEMMA LoadsOfPair ==
  ASSUME NEW i \in DOMAIN Pairs, NEW x, NEW y,
         <<x, y>> \in {<<Pairs[i][1], Pairs[i][2]>>, <<Pairs[i][2], Pairs[i][1]>>}
  PROVE  /\ ToSet(CustomLoads(x, y)) \subseteq ToSet(ToInstall(i))
         /\ ToSet(PgbenchLoads(x, y)) \subseteq ToSet(ToInstall(i))
<1> DEFINE a == Pairs[i][1]
           b == Pairs[i][2]
<1>1. a \in Names /\ b \in Names
  BY PairLoopAssumption
<1>2. ToInstall(i) = GetExtnsToInstall(<<a, b>>)
  BY DEF ToInstall
<1>3. x \in {a, b} /\ y \in {a, b}
  OBVIOUS
<1> HIDE DEF a, b
<1>4. <<a, b>> \in Seq(Names) /\ ToSet(<<a, b>>) = {a, b}
  BY <1>1, PairOfNames
<1>5. ProperDatabase
  BY PairLoopAssumption
<1> QED BY <1>2, <1>3, <1>4, <1>5, LoadsAreInstalled

LEMMA LoadedStep == TypeInv /\ ClusterInv /\ LoadedInv /\ [Next]_vars => LoadedInv'
<1> SUFFICES ASSUME TypeInv, ClusterInv, LoadedInv, [Next]_vars PROVE LoadedInv'
  OBVIOUS
<1>0. /\ HostTyped /\ PairAtHand /\ data \in AllClusters /\ server \in AllServers
      /\ Serving => data.present
      /\ ~data.present => data.template1 = {} /\ data.bench = {}
  BY TypeParts, HostParts DEF LoadedInv
<1> USE DEF AllClusters, AllServers
<1>1. CASE \/ InitialSetup \/ InstallFirst \/ InstallRaises \/ PreparePair \/ PrepareRaises
           \/ FetchNext \/ FetchRaises \/ ModifyConfRaises \/ RegressTest \/ RegressExits \/ NoTest
           \/ LoopEnds \/ DeleteWorkingPairs \/ RunFinalCleanup \/ OpenReport \/ WriteReport
           \/ Killed \/ UNCHANGED vars
  <2>1. UNCHANGED <<data, server, idx, fresh>>
    BY <1>1 DEF InitialSetup, InstallFirst, InstallRaises, PreparePair, PrepareRaises, FetchNext, FetchRaises,
         ModifyConfRaises, RegressTest, RegressExits, NoTest, LoopEnds, DeleteWorkingPairs,
         RunFinalCleanup, OpenReport, WriteReport, Killed, UnpackTree, InstallPostgres, DownloadInstall,
         FinalCleanup, vars, prog, host
  <2>2. Filling' => Filling
    BY <1>1 DEF InitialSetup, InstallFirst, InstallRaises, PreparePair, PrepareRaises, FetchNext, FetchRaises,
         ModifyConfRaises, RegressTest, RegressExits, NoTest, LoopEnds, DeleteWorkingPairs,
         RunFinalCleanup, OpenReport, WriteReport, Killed, Testing, AfterTest, Fetching, Goto,
         vars, prog, Filling, InTests
  <2> QED BY <2>1, <2>2, LoadedKept DEF Serving
<1>2. CASE RunInitDb
  <2>1. /\ UNCHANGED <<server, idx, fresh>> /\ pc = "fetch"
        /\ data' = data \/ data' = NewData
    BY <1>0, <1>2, InitDbEffect DEF RunInitDb
  <2>2. OwnCluster => ~data.present
    BY <2>1 DEF ClusterInv
  <2>3. NewData.present /\ NewData.template1 = {} /\ NewData.bench = {}
    BY DEF NewData, NoData
  <2> QED BY <1>0, <2>1, <2>2, <2>3 DEF LoadedInv, OwnCluster, Serving
<1>3. CASE RunModifyConf
  <2>1. /\ UNCHANGED <<server, idx, fresh>> /\ pc = "conf" /\ data'.present
        /\ data'.template1 = data.template1 /\ data'.bench = data.bench
    <3>1. ModifyConf(ToInstall(idx)) /\ idx \in DOMAIN Pairs
      BY <1>0, <1>3 DEF RunModifyConf, PairAtHand, InPair
    <3> QED BY <1>0, <1>3, <3>1, PairFacts, ModifyConfEffect DEF RunModifyConf
  <2> QED BY <2>1 DEF LoadedInv, OwnCluster, ToInstall
<1>4. CASE RunStart
  <2>1. UNCHANGED <<data, idx, fresh>> /\ pc = "start"
    BY <1>4 DEF RunStart, StartPostgres
  <2>2. Serving' => data'.present
    BY <1>0, <1>4, <2>1, StartPostgresEffect DEF RunStart, CanStart, Serving
  <2> QED BY <2>1, <2>2 DEF LoadedInv, OwnCluster, ToInstall
<1>5. CASE RunStop \/ HostServerDies
  <2>1. UNCHANGED <<data, idx, fresh>> /\ (Serving' => Serving)
    BY <1>0, <1>5, ClusterEffects DEF RunStop, HostServerDies, prog
  <2>2. Filling' => Filling
    BY <1>5 DEF RunStop, HostServerDies, Goto, prog, Filling, InTests
  <2> QED BY <2>1, <2>2, LoadedKept
<1>6. CASE CustomTest \/ CustomExits \/ SuiteMissing
  <2>1. UNCHANGED <<server, idx, fresh>> /\ Testing /\ InTests
    BY <1>6, TestsEffect DEF RunTests, CustomTest, CustomExits, SuiteMissing
  <2>2. idx \in DOMAIN Pairs
    BY <1>0, <2>1 DEF PairAtHand, InPair
  <2> DEFINE loads == CustomLoads(Tested, Compat)
  <2>3. ToSet(loads) \subseteq ToSet(ToInstall(idx)) /\ ToSet(loads) \subseteq Loaded
    BY <2>1, <2>2, LoadsOfPair, LoadFacts DEF Testing, Tested, Compat, First, Second
  <2> HIDE DEF loads
  <2>4. CreateInTemplate(loads) \/ UNCHANGED host
    BY <1>6 DEF CustomTest, CustomExits, SuiteMissing, loads
  <2>5. CASE UNCHANGED host
    BY <2>1, <2>5, LoadedKept DEF host, Serving, Filling
  <2>6. CASE CreateInTemplate(loads)
    <3>1. /\ data'.present = data.present
          /\ data'.template1 \subseteq data.template1 \cup ToSet(loads)
          /\ data'.bench = data.bench
      BY <1>0, <2>3, <2>6, CreateInTemplateEffect
    <3>2. ~data.present => data' = data
      BY <1>0, <2>6 DEF CreateInTemplate
    <3> QED BY <1>0, <2>1, <2>3, <3>1, <3>2 DEF LoadedInv, OwnCluster, ToInstall, Serving
  <2> QED BY <2>4, <2>5, <2>6
<1>7. CASE BenchLoad
  <2>1. UNCHANGED <<server, idx, fresh>> /\ InTests
    BY <1>7, TestsEffect DEF RunTests
  <2>2. idx \in DOMAIN Pairs
    BY <1>0, <2>1 DEF PairAtHand, InPair
  <2>3. PICK loads : /\ LoadBench(loads)
                     /\ ToSet(loads) \subseteq ToSet(ToInstall(idx)) /\ ToSet(loads) \subseteq Loaded
    BY <1>7, <2>2, LoadsOfPair, LoadFacts DEF BenchLoad, First, Second
  <2>4. /\ data'.present = data.present /\ data'.template1 = data.template1
        /\ \/ data' = data
           \/ data'.bench \subseteq data.template1 \cup data.bench \cup ToSet(loads)
    BY <1>0, <2>3, LoadBenchEffect
  <2>5. ~data.present => data' = data
    BY <1>0, <2>3 DEF LoadBench
  <2> QED BY <1>0, <2>1, <2>3, <2>4, <2>5 DEF LoadedInv, OwnCluster, ToInstall, Serving
<1>8. CASE BenchRun
  <2>1. UNCHANGED <<server, idx, fresh>> /\ InTests
    BY <1>8, TestsEffect DEF RunTests
  <2>2. /\ data'.present = data.present /\ data'.template1 = data.template1
        /\ data'.bench \subseteq data.bench
    BY <1>0, <1>8, DropBenchEffect DEF BenchRun
  <2> QED BY <1>0, <2>1, <2>2 DEF LoadedInv, OwnCluster, ToInstall, Serving
<1>9. CASE RunCleanup \/ UserCleansUp
  <2>1. data' = NoData /\ ~Serving'
    BY <1>0, <1>9, HostParts, CleanupEffect DEF RunCleanup, UserCleansUp, AllDists, AllTrees
  <2>2. ~Filling'
    BY <1>9 DEF RunCleanup, UserCleansUp, Running, Goto, prog, Filling, InTests
  <2> QED BY <2>1, <2>2 DEF LoadedInv, NoData, Filling
<1>10. CASE Begin
  <2>1. UNCHANGED <<data, server>> /\ ~Filling'
    BY <1>10 DEF Begin, Goto, host, Filling, InTests
  <2> QED BY <1>0, <2>1 DEF LoadedInv, Filling, Serving
<1> QED
  BY <1>1, <1>2, <1>3, <1>4, <1>5, <1>6, <1>7, <1>8, <1>9, <1>10
     DEF Next, Program, Environment, Prepare, RunTests, Finish

(* The benchmark database of a pair holds extensions of the pair and of    *)
(* what they need and no others, for every database of extensions without  *)
(* a cycle, whatever is created, copied from template1 or not dropped      *)
(* (compatibility_analysis.py:406-423 and 469-492).                        *)
THEOREM BenchHasOnlyPairExtnsAlways == Spec => []BenchHasOnlyPairExtns
<1>1. Init => TypeInv /\ ClusterInv /\ LoadedInv
  BY TypeInit, ClusterInit, LoadedInit
<1>2. TypeInv /\ ClusterInv /\ LoadedInv /\ [Next]_vars => (TypeInv /\ ClusterInv /\ LoadedInv)'
  BY TypeStep, ClusterStep, LoadedStep
<1>3. LoadedInv => BenchHasOnlyPairExtns
  BY DEF LoadedInv, BenchHasOnlyPairExtns, InTests
<1> QED BY <1>1, <1>2, <1>3, PTL DEF Spec

-----------------------------------------------------------------------------
(***************************************************************************)
(* What the pair loop leaves behind: its verdicts, the output directories  *)
(* and the report, and then the refinement: the driver implements          *)
(* CompatCampaign, for every list of pairs.                                *)
(***************************************************************************)
(* What a step does to the verdicts: a new run forgets them, a judged pair *)
(* adds one, every other step keeps them.                                  *)
Judging(v) ==
  /\ InTests /\ pc # "stop" /\ pc' = "stop"
  /\ verdicts' = Append(verdicts, v)

LEMMA VerdictEffects ==
  ASSUME TypeInv, RunTests
  PROVE  /\ UNCHANGED <<idx, outdirs, runs, csv, fresh>> /\ InTests /\ pc # "stop"
         /\ \/ UNCHANGED verdicts /\ pc' \in {"test2", "load1", "bench1", "load2", "bench2", "exited"}
            \/ \E v \in BOOLEAN : Judging(v)
         /\ pc \notin {"bench1", "bench2"} /\ ~UNCHANGED verdicts =>
              verdicts' = Append(verdicts, FALSE) /\ val' = FALSE
         /\ ExitFlag /\ val => val'
<1> USE DEF InTests, Judging, Goto
<1>0. val \in BOOLEAN
  BY DEF TypeInv, TypeOK
<1>1. CASE RegressTest \/ CustomTest \/ NoTest
  <2>1. /\ UNCHANGED <<idx, outdirs, runs, csv, fresh>>
        /\ pc \in {"test1", "test2"}
    BY <1>1 DEF RegressTest, CustomTest, NoTest, Testing
  <2>2. PICK v \in BOOLEAN : AfterTest(v) /\ (ExitFlag /\ val => v)
    BY <1>0, <1>1 DEF RegressTest, CustomTest, NoTest, RegressPasses
  <2> QED BY <2>1, <2>2 DEF AfterTest
<1>2. CASE RegressExits \/ CustomExits \/ SuiteMissing
  BY <1>0, <1>2 DEF RegressExits, CustomExits, SuiteMissing, Testing
<1>3. CASE BenchLoad
  BY <1>0, <1>3 DEF BenchLoad
<1>4. CASE BenchRun
  <2>1. BenchOutcomes \subseteq BOOLEAN
    BY DEF BenchOutcomes
  <2> QED BY <1>0, <1>4, <2>1 DEF BenchRun
<1> QED BY <1>1, <1>2, <1>3, <1>4 DEF RunTests

(* An append changes a list of verdicts.                                   *)
LEMMA Longer ==
  ASSUME NEW s \in Seq(BOOLEAN), NEW v \in BOOLEAN
  PROVE  Append(s, v) # s /\ Append(s, v) # << >>
<1>1. Len(Append(s, v)) = Len(s) + 1 /\ Len(s) \in Nat
  BY AppendVerdict
<1>2. Len(Append(s, v)) # Len(s)
  BY <1>1
<1>3. Len(Append(s, v)) # 0 /\ Len(<< >>) = 0
  BY <1>1
<1> QED BY <1>2, <1>3, Zenon

(* The verdicts stay in step with the pairs.                               *)
LEMMA VerdictInit == Init => VerdictInv
BY DEF Init, VerdictInv, VerdictsInStep, Running

LEMMA VerdictStep == TypeInv /\ VerdictInv /\ [Next]_vars => VerdictInv'
<1> SUFFICES ASSUME TypeInv, VerdictInv, [Next]_vars PROVE VerdictInv'
  OBVIOUS
<1> USE PairLoopAssumption
<1>0. /\ verdicts \in Seq(BOOLEAN) /\ idx \in 1 .. Len(Pairs) + 1 /\ val \in BOOLEAN
      /\ Len(verdicts) \in Nat /\ pc \in PCs
  BY DEF TypeInv, TypeOK
<1>1. CASE RunTests
  <2>1. UNCHANGED idx /\ (ExitFlag /\ val => val') /\ pc' # "write"
    BY <1>1, VerdictEffects DEF Judging
  <2>2. CASE UNCHANGED verdicts /\ pc' \in {"test2", "load1", "bench1", "load2", "bench2", "exited"}
    BY <1>1, <2>1, <2>2, VerdictEffects DEF VerdictInv, VerdictsInStep, Running, InTests
  <2>3. ASSUME NEW v \in BOOLEAN, Judging(v) PROVE VerdictInv'
    <3>1. Len(verdicts) = idx - 1
      BY <2>3 DEF Judging, VerdictInv, VerdictsInStep, Running, InTests
    <3>2. Len(verdicts') = idx
      BY <1>0, <2>3, <3>1, AppendVerdict DEF Judging
    <3> QED BY <2>1, <2>3, <3>2 DEF Judging, VerdictInv, VerdictsInStep
  <2> QED BY <1>1, <2>2, <2>3, VerdictEffects
<1>2. CASE Prepare
  <2>1. UNCHANGED <<idx, verdicts, csv>> /\ (val' = val \/ val' = TRUE)
    BY <1>2 DEF Prepare, InitialSetup, InstallFirst, InstallRaises, PreparePair, PrepareRaises, FetchNext,
         FetchRaises, RunInitDb, RunModifyConf, ModifyConfRaises, RunStart
  <2>2. pc \in {"setup", "install", "pair", "fetch", "conf", "start"}
    BY <1>2 DEF Prepare, InitialSetup, InstallFirst, InstallRaises, PreparePair, PrepareRaises, FetchNext,
         FetchRaises, RunInitDb, RunModifyConf, ModifyConfRaises, RunStart, Fetching
  <2>3. pc' \in {"install", "pair", "fetch", "conf", "start", "test1", "exited"}
    BY <1>2 DEF Prepare, InitialSetup, InstallFirst, InstallRaises, PreparePair, PrepareRaises, FetchNext,
         FetchRaises, RunInitDb, RunModifyConf, ModifyConfRaises, RunStart, Fetching, Goto
  <2> QED BY <2>1, <2>2, <2>3 DEF VerdictInv, VerdictsInStep, Running
<1>3. CASE RunStop
  BY <1>3 DEF RunStop, Goto, VerdictInv, VerdictsInStep, Running
<1>8. CASE RunCleanup
  <2>1. idx' - 1 = idx /\ Len(verdicts) = idx
    BY <1>0, <1>8 DEF RunCleanup, VerdictInv, VerdictsInStep, Running
  <2> QED BY <1>8, <2>1 DEF RunCleanup, Goto, VerdictInv, VerdictsInStep, Running
<1>4. CASE LoopEnds
  <2>1. idx = Len(Pairs) + 1
    BY <1>0, <1>4 DEF LoopEnds
  <2> QED BY <1>0, <1>4, <2>1 DEF LoopEnds, Goto, VerdictInv, VerdictsInStep, Running
<1>5. CASE DeleteWorkingPairs \/ RunFinalCleanup \/ OpenReport \/ WriteReport
  BY <1>5 DEF DeleteWorkingPairs, RunFinalCleanup, OpenReport, WriteReport, Goto,
       VerdictInv, VerdictsInStep, Running
<1>6. CASE Begin
  BY <1>6 DEF Begin, Goto, VerdictInv, VerdictsInStep, Running
<1>7. CASE Killed \/ HostServerDies \/ UserCleansUp \/ UNCHANGED vars
  BY <1>7 DEF Killed, HostServerDies, UserCleansUp, vars, prog, Goto, VerdictInv,
       VerdictsInStep, Running
<1> QED BY <1>1, <1>2, <1>3, <1>4, <1>5, <1>6, <1>7, <1>8
     DEF Next, Program, Environment, Finish

(* The i-th verdict is the i-th pair's in every run                        *)
(* (compatibility_analysis.py:575-593 and 608-629: one append for each     *)
(* turn of the loop that is not left by an exception).                     *)
THEOREM VerdictsInStepAlways == Spec => []VerdictsInStep
<1>1. Init => TypeInv /\ VerdictInv
  BY TypeInit, VerdictInit
<1>2. TypeInv /\ VerdictInv /\ [Next]_vars => (TypeInv /\ VerdictInv)'
  BY TypeStep, VerdictStep
<1>3. VerdictInv => VerdictsInStep
  BY DEF VerdictInv
<1> QED BY <1>1, <1>2, <1>3, PTL DEF Spec

(* Under -x a pair is never called incompatible because of its suites: one *)
(* that fails ends the program first (compatibility_analysis.py:367-374 and*)
(* 449-460).                                                               *)
THEOREM ExitFlagStops == Spec => ExitFlagStopsAtSuite
<1>1. Init => TypeInv /\ VerdictInv
  BY TypeInit, VerdictInit
<1>2. TypeInv /\ VerdictInv /\ [Next]_vars => (TypeInv /\ VerdictInv)'
  BY TypeStep, VerdictStep
<1> DEFINE Step == ExitFlag /\ verdicts' = Append(verdicts, FALSE) => pc \in {"bench1", "bench2"}
<1>3. TypeInv /\ VerdictInv /\ [Next]_vars => [Step]_vars
  <2> SUFFICES ASSUME TypeInv, VerdictInv, Next PROVE Step
    OBVIOUS
  <2> SUFFICES ASSUME ExitFlag, verdicts' = Append(verdicts, FALSE), pc \notin {"bench1", "bench2"}
               PROVE  FALSE
    OBVIOUS
  <2>1. verdicts \in Seq(BOOLEAN)
    BY DEF TypeInv, TypeOK
  <2>2. verdicts' # verdicts /\ verdicts' # << >>
    BY <2>1, Longer
  <2>3. CASE RunTests
    BY <2>2, <2>3, VerdictEffects DEF VerdictInv
  <2>4. CASE Prepare \/ Finish \/ Environment
    BY <2>2, <2>4 DEF Prepare, InitialSetup, InstallFirst, InstallRaises, PreparePair, PrepareRaises,
         FetchNext, FetchRaises, RunInitDb, RunModifyConf, ModifyConfRaises, RunStart,
         Finish, RunStop, RunCleanup, LoopEnds, DeleteWorkingPairs, RunFinalCleanup,
         OpenReport, WriteReport, Environment, Begin, Killed, HostServerDies,
         UserCleansUp, prog
  <2> QED BY <2>3, <2>4 DEF Next, Program
<1> QED BY <1>1, <1>2, <1>3, PTL DEF Spec, ExitFlagStopsAtSuite

(* Different last verdicts, different lists.                               *)
LEMMA OneVerdict ==
  ASSUME NEW s \in Seq(BOOLEAN), NEW v \in BOOLEAN, NEW w \in BOOLEAN, Append(s, v) = Append(s, w)
  PROVE  v = w
<1>1. Append(s, v)[Len(s) + 1] = v /\ Append(s, w)[Len(s) + 1] = w
  OBVIOUS
<1> QED BY <1>1

(* A verdict of TRUE is given by the last benchmark only, and a benchmark  *)
(* passes only against a server: so it came up with every library that the *)
(* pair preloads, although no status of pg_ctl is looked at                *)
(* (compatibility_analysis.py:254-258 and 483-499).                        *)
THEOREM TrueMeansPreloadedAlways == Spec => TrueMeansPreloaded
<1>1. Init => TypeInv /\ ClusterInv /\ PreloadInv
  BY TypeInit, ClusterInit, PreloadInit
<1>2. TypeInv /\ ClusterInv /\ PreloadInv /\ [Next]_vars => (TypeInv /\ ClusterInv /\ PreloadInv)'
  BY TypeStep, ClusterStep, PreloadStep
<1> DEFINE Step == verdicts' = Append(verdicts, TRUE) /\ OwnCluster =>
                     \A e \in ToSet(PreloadLibs(ToInstall(idx))) : Available(e)
<1>3. TypeInv /\ PreloadInv /\ [Next]_vars => [Step]_vars
  <2> SUFFICES ASSUME TypeInv, PreloadInv, Next, verdicts' = Append(verdicts, TRUE), OwnCluster
               PROVE  \A e \in ToSet(PreloadLibs(ToInstall(idx))) : Available(e)
    OBVIOUS
  <2>1. verdicts \in Seq(BOOLEAN)
    BY DEF TypeInv, TypeOK
  <2>2. verdicts' # verdicts /\ verdicts' # << >>
    BY <2>1, Longer
  <2>3. RunTests
    BY <2>2 DEF Next, Program, Prepare, InitialSetup, InstallFirst, InstallRaises, PreparePair, PrepareRaises,
         FetchNext, FetchRaises, RunInitDb, RunModifyConf, ModifyConfRaises, RunStart,
         Finish, RunStop, RunCleanup, LoopEnds, DeleteWorkingPairs, RunFinalCleanup,
         OpenReport, WriteReport, Environment, Begin, Killed, HostServerDies,
         UserCleansUp, prog
  <2>4. verdicts' # Append(verdicts, FALSE)
    BY <2>1, OneVerdict
  <2>5. pc \in {"bench1", "bench2"}
    BY <2>2, <2>3, <2>4, VerdictEffects
  <2>6. BenchRun
    <3>1. pc \notin {"test1", "test2", "load1", "load2"}
      BY <2>5
    <3> QED BY <2>3, <3>1 DEF RunTests, RegressTest, RegressExits, CustomTest, CustomExits,
                 SuiteMissing, NoTest, BenchLoad, Testing
  <2>7. PICK ok \in BenchOutcomes : verdicts' = verdicts \/ verdicts' = Append(verdicts, ok)
    BY <2>6 DEF BenchRun
  <2>8. ok \in BOOLEAN
    BY DEF BenchOutcomes
  <2>9. ok = TRUE
    BY <2>1, <2>2, <2>7, <2>8, OneVerdict
  <2>10. Serving
    BY <2>9 DEF BenchOutcomes
  <2> QED BY <2>5, <2>10 DEF PreloadInv, InTests
<1> QED BY <1>1, <1>2, <1>3, PTL DEF Spec, TrueMeansPreloaded

-----------------------------------------------------------------------------
(* The output directories.                                                 *)
LEMMA EvidenceInit == Init => EvidenceInv
BY DEF Init, EvidenceInv, EvidenceKept, InTests, Running

(* A step that loses no verdict's directory, and judges nothing.           *)
LEMMA EvidenceMoved ==
  ASSUME EvidenceInv, UNCHANGED <<idx, verdicts>>, outdirs \subseteq outdirs',
         Running,
         pc \in {"final", "open", "write"} => pc' \in {"open", "write", "done", "exited"},
         \/ pc' \notin {"conf", "start", "cleanup"} /\ ~InTests'
         \/ DirName(Pairs[idx]) \in outdirs'
         \/ InTests \/ pc \in {"conf", "start", "cleanup"}
  PROVE  EvidenceInv'
BY DEF EvidenceInv, EvidenceKept, InTests, Running

LEMMA EvidenceStep ==
  TypeInv /\ VerdictInv /\ EvidenceInv /\ [Next]_vars => EvidenceInv'
<1> SUFFICES ASSUME TypeInv, VerdictInv, EvidenceInv, [Next]_vars PROVE EvidenceInv'
  OBVIOUS
<1> USE PairLoopAssumption
<1>0. /\ verdicts \in Seq(BOOLEAN) /\ idx \in 1 .. Len(Pairs) + 1
      /\ pc \in PCs /\ PairAtHand
  BY DEF TypeInv, TypeOK
<1>1. CASE Prepare \/ RunStop \/ LoopEnds \/ RunFinalCleanup \/ OpenReport \/ WriteReport \/ Killed
  <2>1. UNCHANGED <<idx, verdicts>> /\ outdirs \subseteq outdirs' /\ Running
    BY <1>1 DEF Prepare, InitialSetup, InstallFirst, InstallRaises, PreparePair, PrepareRaises, FetchNext,
         FetchRaises, RunInitDb, RunModifyConf, ModifyConfRaises, RunStart, Fetching,
         RunStop, LoopEnds, RunFinalCleanup, OpenReport, WriteReport, Killed, Running
  <2>2. pc \in {"final", "open", "write"} => pc' \in {"open", "write", "done", "exited"}
    BY <1>1 DEF Prepare, InitialSetup, InstallFirst, InstallRaises, PreparePair, PrepareRaises, FetchNext,
         FetchRaises, RunInitDb, RunModifyConf, ModifyConfRaises, RunStart, Fetching,
         RunStop, LoopEnds, RunFinalCleanup, OpenReport, WriteReport, Killed, Goto
  <2>3. \/ pc' \notin {"conf", "start", "cleanup"} /\ ~InTests'
        \/ DirName(Pairs[idx]) \in outdirs'
        \/ InTests \/ pc \in {"conf", "start", "cleanup"}
    BY <1>1 DEF Prepare, InitialSetup, InstallFirst, InstallRaises, PreparePair, PrepareRaises, FetchNext,
         FetchRaises, RunInitDb, RunModifyConf, ModifyConfRaises, RunStart, Fetching,
         RunStop, LoopEnds, RunFinalCleanup, OpenReport, WriteReport, Killed, Goto, InTests
  <2> QED BY <2>1, <2>2, <2>3, EvidenceMoved
<1>2. CASE RunTests
  <2>1. UNCHANGED <<idx, outdirs>> /\ InTests /\ DirName(Pairs[idx]) \in outdirs
    BY <1>2, VerdictEffects DEF EvidenceInv
  <2>2. CASE UNCHANGED verdicts /\ pc' \in {"test2", "load1", "bench1", "load2", "bench2", "exited"}
    <3>1. Running /\ pc \notin {"final", "open", "write"}
      BY <2>1 DEF Running, InTests
    <3> QED BY <2>1, <2>2, <3>1, EvidenceMoved
  <2>3. ASSUME NEW v \in BOOLEAN, Judging(v) PROVE EvidenceInv'
    <3>1. Len(verdicts) = idx - 1 /\ Running /\ pc \notin {"final", "open", "write"}
      BY <2>3 DEF Judging, VerdictInv, VerdictsInStep, Running, InTests
    <3>2. /\ DOMAIN verdicts' = 1 .. Len(verdicts) + 1 /\ DOMAIN verdicts = 1 .. Len(verdicts)
          /\ \A i \in DOMAIN verdicts : verdicts'[i] = verdicts[i]
      BY <1>0, <2>3, AppendVerdict DEF Judging
    <3>3. \A i \in DOMAIN verdicts' : i \in DOMAIN verdicts \/ i = idx
      BY <1>0, <3>1, <3>2
    <3>4. \A i \in DOMAIN verdicts' : DirName(Pairs[i]) \in outdirs'
      BY <2>1, <3>1, <3>3 DEF EvidenceInv
    <3>5. pc' = "stop"
      BY <2>3 DEF Judging
    <3> QED BY <2>1, <3>4, <3>5 DEF EvidenceInv, EvidenceKept, InTests, Running
  <2> QED BY <1>2, <2>2, <2>3, VerdictEffects
<1>3. CASE RunCleanup
  <2>1. /\ pc = "cleanup" /\ pc' = "pair" /\ UNCHANGED <<verdicts, outdirs>>
    BY <1>3 DEF RunCleanup, Goto
  <2> QED BY <2>1 DEF EvidenceInv, EvidenceKept, InTests, Running
<1>4. CASE DeleteWorkingPairs
  <2>1. /\ pc = "delete" /\ pc' = "final" /\ UNCHANGED verdicts
        /\ outdirs' = outdirs \ WorkingDirs
    BY <1>4 DEF DeleteWorkingPairs, Goto
  <2>2. Len(verdicts) = Len(Pairs) /\ DOMAIN verdicts = DOMAIN Pairs
    BY <1>0, <2>1 DEF VerdictInv, VerdictsInStep, Running
  <2>3. \A i \in DOMAIN verdicts : DirName(Pairs[i]) \in outdirs
    BY <2>1 DEF EvidenceInv, Running
  <2>4. ASSUME NEW i \in DOMAIN verdicts, DirName(Pairs[i]) \notin outdirs'
        PROVE  \E j \in DOMAIN verdicts : verdicts[j] /\ DirName(Pairs[j]) = DirName(Pairs[i])
    BY <2>1, <2>2, <2>3, <2>4 DEF WorkingDirs
  <2> QED BY <2>1, <2>2, <2>4 DEF EvidenceInv, EvidenceKept, InTests, Running
<1>5. CASE Begin
  <2>1. verdicts' = << >> /\ pc' \in {"setup", "exited"}
    BY <1>5 DEF Begin, Goto
  <2> QED BY <2>1 DEF EvidenceInv, EvidenceKept, InTests, Running
<1>6. CASE HostServerDies \/ UserCleansUp \/ UNCHANGED vars
  BY <1>6 DEF HostServerDies, UserCleansUp, vars, prog, EvidenceInv, EvidenceKept,
       InTests, Running
<1> QED BY <1>1, <1>2, <1>3, <1>4, <1>5, <1>6 DEF Next, Program, Environment, Finish

(* The parts of the invariant hold together, whatever is killed or fails   *)
(* (compatibility_analysis.py:570-633).                                    *)
THEOREM InductiveInvAlways == Spec => []InductiveInv
<1> DEFINE I == /\ TypeInv /\ ClusterInv /\ InstallInv /\ PreloadInv /\ LoadedInv
                /\ VerdictInv /\ EvidenceInv
<1>1. Init => I
  BY TypeInit, ClusterInit, InstallInit, PreloadInit, LoadedInit, VerdictInit, EvidenceInit
<1>2. I /\ [Next]_vars => I'
  BY TypeStep, ClusterStep, InstallStep, PreloadStep, LoadedStep, VerdictStep, EvidenceStep
<1>3. I => InductiveInv
  BY DEF InductiveInv, TypeInv
<1> QED BY <1>1, <1>2, <1>3, PTL DEF Spec

(* No pair's output is deleted before every pair is judged, nor afterwards *)
(* unless a pair with the same directory works: delete_working_pairs       *)
(* (compatibility_analysis.py:550-555) is right for any naming.            *)
THEOREM EvidenceKeptAlways == Spec => []EvidenceKept
<1>1. InductiveInv => EvidenceKept
  BY DEF InductiveInv, EvidenceInv
<1> QED BY <1>1, InductiveInvAlways, PTL

-----------------------------------------------------------------------------
(* From the end of the loop on there is no cluster and no server of a      *)
(* pair, and final_cleanup removes the rest.                               *)
CleanInv ==
  /\ pc \in {"delete", "final", "open", "write", "done"} /\ OwnCluster =>
       ~data.present /\ ~Serving
  /\ CleanWhenDone

LEMMA CleanStep == TypeInv /\ ClusterInv /\ CleanInv /\ [Next]_vars => CleanInv'
<1> SUFFICES ASSUME TypeInv, ClusterInv, CleanInv, [Next]_vars PROVE CleanInv'
  OBVIOUS
<1> USE DEF CleanInv, CleanWhenDone, OwnCluster, Serving
<1>1. CASE Prepare
  <2>1. pc' \in {"install", "pair", "fetch", "conf", "start", "test1", "exited"}
    BY <1>1 DEF Prepare, InitialSetup, InstallFirst, InstallRaises, PreparePair, PrepareRaises, FetchNext,
         FetchRaises, RunInitDb, RunModifyConf, ModifyConfRaises, RunStart, Fetching, Goto
  <2> QED BY <2>1
<1>2. CASE RunTests
  <2>1. pc' \in {"test2", "load1", "bench1", "load2", "bench2", "stop", "exited"}
    BY <1>2, VerdictEffects DEF Judging
  <2> QED BY <2>1
<1>3. CASE RunStop \/ RunCleanup \/ Begin \/ Killed
  BY <1>3 DEF RunStop, RunCleanup, Begin, Killed, Goto
<1>4. CASE LoopEnds
  BY <1>4 DEF LoopEnds, Goto, host, ClusterInv
<1>5. CASE DeleteWorkingPairs \/ OpenReport \/ WriteReport
  BY <1>5 DEF DeleteWorkingPairs, OpenReport, WriteReport, Goto, host
<1>6. CASE RunFinalCleanup
  BY <1>6 DEF RunFinalCleanup, FinalCleanup, Goto
<1>7. CASE HostServerDies
  BY <1>7 DEF HostServerDies, ServerDies, NoServer, prog
<1>8. CASE UserCleansUp
  BY <1>8 DEF UserCleansUp, OperatorCleanup, NoData, TypeInv, prog
<1>9. CASE UNCHANGED vars
  BY <1>9 DEF vars, prog, host
<1> QED BY <1>1, <1>2, <1>3, <1>4, <1>5, <1>6, <1>7, <1>8, <1>9
     DEF Next, Program, Environment, Finish

(* A run that comes to its report has removed the installation, the        *)
(* folders, the cluster and the server, although pg_ctl stop may have      *)
(* failed for any pair (compatibility_analysis.py:204-212 and 590-597).    *)
THEOREM NothingLeft == Spec => []CleanWhenDone
<1>1. Init => TypeInv /\ ClusterInv /\ CleanInv
  BY TypeInit, ClusterInit DEF Init, CleanInv, CleanWhenDone
<1>2. TypeInv /\ ClusterInv /\ CleanInv /\ [Next]_vars => (TypeInv /\ ClusterInv /\ CleanInv)'
  BY TypeStep, ClusterStep, CleanStep
<1>3. CleanInv => CleanWhenDone
  BY DEF CleanInv
<1> QED BY <1>1, <1>2, <1>3, PTL DEF Spec

-----------------------------------------------------------------------------
(* The driver implements the abstract campaign: for any list of pairs and  *)
(* any failure on the way, a verdict is never revised and a report is      *)
(* either complete or not there (compatibility_analysis.py:648-668 and     *)
(* 677-685).                                                               *)
THEOREM DriverImplementsCampaign == Spec => CampaignSpec
<1> USE DEF Phase
<1>1. Init => Campaign!Init
  BY DEF Init, Running, NoReport, Campaign!Init, Campaign!Missing
<1>2. TypeInv /\ VerdictInv /\ [Next]_vars => [Campaign!Next]_(Campaign!vars)
  <2> SUFFICES ASSUME TypeInv, VerdictInv, [Next]_vars
               PROVE  Campaign!Next \/ UNCHANGED <<Phase, verdicts, csv>>
    BY DEF Campaign!vars
  <2> USE DEF Running
  <2>0. /\ idx \in 1 .. Len(Pairs) + 1 /\ Len(Pairs) \in Nat /\ PairAtHand
    BY PairLoopAssumption DEF TypeInv, TypeOK
  <2>1. CASE Begin
    BY <2>1 DEF Begin, Goto, Campaign!Begin, Campaign!Next
  <2>2. CASE RunTests
    <3>1. CASE UNCHANGED verdicts /\ pc' \in {"test2", "load1", "bench1", "load2", "bench2", "exited"}
      BY <2>2, <3>1, VerdictEffects DEF InTests, Campaign!Abandon, Campaign!Next
    <3>2. ASSUME NEW v \in BOOLEAN, Judging(v) PROVE Campaign!Judge
      <4>1. Len(verdicts) = idx - 1 /\ Running /\ Running'
        BY <3>2 DEF Judging, VerdictInv, VerdictsInStep, InTests
      <4>2. idx <= Len(Pairs)
        BY <2>0, <3>2, PairFacts DEF Judging, PairAtHand, InPair
      <4> QED BY <2>0, <2>2, <3>2, <4>1, <4>2, VerdictEffects DEF Judging, Campaign!Judge
    <3> QED BY <2>2, <3>1, <3>2, VerdictEffects DEF Campaign!Next
  <2>3. CASE OpenReport
    BY <2>3 DEF OpenReport, Goto, VerdictInv, VerdictsInStep, Campaign!OpenReport,
         Campaign!Torn, Campaign!Next
  <2>4. CASE WriteReport
    BY <2>4 DEF WriteReport, Goto, VerdictInv, VerdictsInStep, Campaign!Publish,
         Campaign!Torn, Campaign!Written, Campaign!Next
  <2>5. CASE InstallRaises \/ PrepareRaises \/ FetchRaises \/ ModifyConfRaises \/ Killed
    BY <2>5 DEF InstallRaises, PrepareRaises, FetchRaises, Fetching, ModifyConfRaises, Killed,
         Goto, Campaign!Abandon, Campaign!Next
  <2>6. CASE \/ InitialSetup \/ InstallFirst \/ PreparePair \/ FetchNext \/ RunInitDb \/ RunModifyConf
             \/ RunStart \/ RunStop \/ RunCleanup \/ LoopEnds \/ DeleteWorkingPairs
             \/ RunFinalCleanup
    BY <2>6 DEF InitialSetup, InstallFirst, PreparePair, FetchNext, RunInitDb, RunModifyConf, RunStart,
         RunStop, RunCleanup, LoopEnds, DeleteWorkingPairs, RunFinalCleanup, Goto
  <2>7. CASE HostServerDies \/ UserCleansUp \/ UNCHANGED vars
    BY <2>7 DEF HostServerDies, UserCleansUp, vars, prog
  <2> QED
    BY <2>1, <2>2, <2>3, <2>4, <2>5, <2>6, <2>7
       DEF Next, Program, Environment, Prepare, Finish
<1>3. Spec => []TypeInv /\ []VerdictInv
  <2>1. Init => TypeInv /\ VerdictInv
    BY TypeInit, VerdictInit
  <2>2. TypeInv /\ VerdictInv /\ [Next]_vars => (TypeInv /\ VerdictInv)'
    BY TypeStep, VerdictStep
  <2> QED BY <2>1, <2>2, PTL DEF Spec
<1> QED BY <1>1, <1>2, <1>3, PTL DEF Spec, CampaignSpec, Campaign!Spec

(* A report that is there has a verdict for every pair, whatever stopped   *)
(* this run or an earlier one.                                             *)
THEOREM ReportCompleteAlways == Spec => []Campaign!ReportComplete
<1> USE DEF Campaign!ReportComplete
<1>1. Init => Campaign!ReportComplete
  BY DEF Init, NoReport
<1>2. VerdictInv /\ Campaign!ReportComplete /\ [Next]_vars => Campaign!ReportComplete'
  <2> SUFFICES ASSUME VerdictInv, Campaign!ReportComplete, [Next]_vars
               PROVE  Campaign!ReportComplete'
    OBVIOUS
  <2>1. CASE WriteReport
    BY <2>1 DEF WriteReport, VerdictInv, VerdictsInStep, Running
  <2>2. CASE OpenReport
    BY <2>2 DEF OpenReport
  <2>3. CASE UNCHANGED csv
    BY <2>3
  <2> QED
    BY <2>1, <2>2, <2>3, VerdictEffects
       DEF Next, Program, Environment, Prepare, RunTests, Finish, InitialSetup, InstallFirst, InstallRaises,
           PreparePair, PrepareRaises, FetchNext, FetchRaises, RunInitDb, RunModifyConf,
           ModifyConfRaises, RunStart, RegressTest, RegressExits, CustomTest, CustomExits,
           SuiteMissing, NoTest, BenchLoad, BenchRun, RunStop, RunCleanup, LoopEnds,
           DeleteWorkingPairs, RunFinalCleanup, Begin, Killed, HostServerDies,
           UserCleansUp, vars
<1>3. Init => TypeInv /\ VerdictInv
  BY TypeInit, VerdictInit
<1>4. TypeInv /\ VerdictInv /\ [Next]_vars => (TypeInv /\ VerdictInv)'
  BY TypeStep, VerdictStep
<1> QED BY <1>1, <1>2, <1>3, <1>4, PTL DEF Spec
=============================================================================

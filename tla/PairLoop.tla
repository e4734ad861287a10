------------------------------ MODULE PairLoop ------------------------------
(***************************************************************************)
(* pairwise_mode and pairwise_parallel_mode: one process that walks a list *)
(* of pairs, prepares the host for each, tests both directions, and writes *)
(* a report at the very end.  The process may be killed at any moment and  *)
(* be started again in the same directory; the host survives it.           *)
(*                                                                         *)
(* The two modes differ in how a pair's PostgreSQL is prepared (pairwise   *)
(* reinstalls only when the configure options change), so they share every *)
(* other action.  install_at_once is never set by a caller and is FALSE    *)
(* here.                                                                   *)
(***************************************************************************)
EXTENDS PgHost

CONSTANTS
  Mode,       \* "pairwise" or "parallel"
  FileExtns,  \* the names pairwise_validation_helper looks at, a sequence
  Pairs,      \* file_extn_pairs
  DirName(_), \* the output directory of a pair: first_extn + "_" + second_extn
  ExitFlag,   \* -x
  MaxRuns     \* bound: how many times the program is started

ASSUME PairLoopAssumption ==
  /\ ProperDatabase
  /\ Mode \in {"pairwise", "parallel"}
  /\ FileExtns \in Seq(Names)
  /\ Pairs \in Seq(Names \X Names)
  /\ ExitFlag \in BOOLEAN
  /\ MaxRuns \in Nat \ {0}

VARIABLES
  pc,        \* the next statement
  runs,      \* how many times the program was started
  idx,       \* position in file_extn_pairs
  at,        \* position in extns_to_install
  opts,      \* current_configure_options
  val,       \* compatibility_test's val
  verdicts,  \* extn_compat_list
  outdirs,   \* directories in testing_output_dir
  csv,       \* pairwise.csv or pairwise_parallel.csv
  fresh      \* history: this run began on a clean host

prog == <<pc, idx, at, opts, val, verdicts, outdirs>>
vars == <<host, prog, runs, csv, fresh>>

PCs == {"idle", "setup", "install", "pair", "fetch", "conf", "start",
        "test1", "test2", "load1", "bench1", "load2", "bench2",
        "stop", "cleanup", "delete", "final", "open", "write", "done", "exited"}
Running == pc \notin {"idle", "done", "exited"}
InTests == pc \in {"test1", "test2", "load1", "bench1", "load2", "bench2", "stop"}
InPair == InTests \/ pc \in {"fetch", "conf", "start", "cleanup"}

ToInstall(i) == GetExtnsToInstall(<<Pairs[i][1], Pairs[i][2]>>)
OptionsFor(i) == GetConfigureOptions(ToInstall(i))

(* What the variables range over.                                          *)
InstallLists == {ToInstall(i) : i \in DOMAIN Pairs}
Listed == UNION {ToSet(list) : list \in InstallLists}
Options == UNION {OptionsFor(i) : i \in DOMAIN Pairs}
Directed == {<<Pairs[i][1], Pairs[i][2]>> : i \in DOMAIN Pairs}
            \cup {<<Pairs[i][2], Pairs[i][1]>> : i \in DOMAIN Pairs}
Loaded == UNION {ToSet(CustomLoads(p[1], p[2])) \cup ToSet(PgbenchLoads(p[1], p[2])) :
                   p \in Directed}
DirNames == {DirName(Pairs[i]) : i \in DOMAIN Pairs}

First == Pairs[idx][1]
Second == Pairs[idx][2]

(* The report file: missing, opened and cut to zero length, or written.    *)
NoReport == [state |-> "missing", rows |-> << >>]
Reports == [state : {"missing", "torn", "written"}, rows : Seq(BOOLEAN)]

TypeOK ==
  /\ HostType(Options, InstallLists, Listed, Loaded)
  /\ pc \in PCs
  /\ runs \in 0 .. MaxRuns
  /\ idx \in 1 .. Len(Pairs) + 1
  /\ at \in Nat \ {0}
  /\ opts \in SUBSET Options
  /\ val \in BOOLEAN
  /\ verdicts \in Seq(BOOLEAN)
  /\ outdirs \in SUBSET DirNames
  /\ csv \in Reports
  /\ fresh \in BOOLEAN

-----------------------------------------------------------------------------
Init ==
  /\ HostInit
  /\ pc = "idle" /\ runs = 0 /\ idx = 1 /\ at = 1 /\ opts = {} /\ val = TRUE
  /\ verdicts = << >> /\ outdirs = {} /\ csv = NoReport /\ fresh = TRUE

Goto(label) == pc' = label

(* pairwise_validation_helper.  The dependencies are not looked at.        *)
ValidList ==
  /\ Len(FileExtns) >= 2
  /\ \A n \in ToSet(FileExtns) :
       n \in Extns /\ Entry[n].download # "none" /\ Entry[n].install # "none"

(* The user starts the program, possibly again in the same directory.      *)
Begin ==
  /\ ~Running /\ runs < MaxRuns
  /\ runs' = runs + 1
  /\ fresh' = (~server.up /\ ~data.present /\ ~dist.built)
  /\ idx' = 1 /\ at' = 1 /\ opts' = {} /\ val' = TRUE
  /\ verdicts' = << >> /\ outdirs' = {}
  /\ Goto(IF ValidList THEN "setup" ELSE "exited")
  /\ UNCHANGED <<host, csv>>

(* initial_setup; pairwise mode goes on with install_postgres([]).         *)
InitialSetup ==
  /\ pc = "setup"
  /\ UnpackTree
  /\ Goto(IF Mode = "pairwise" THEN "install" ELSE "pair")
  /\ UNCHANGED <<idx, at, opts, val, verdicts, outdirs, runs, csv, fresh>>

(* install_postgres([]), over whatever an earlier run left.                *)
InstallFirst ==
  /\ pc = "install"
  /\ InstallPostgres(dist, {})
  /\ Goto("pair")
  /\ UNCHANGED <<idx, at, opts, val, verdicts, outdirs, runs, csv, fresh>>

InstallRaises ==
  /\ pc = "install" /\ ~tree.there
  /\ Goto("exited")
  /\ UNCHANGED <<host, idx, at, opts, val, verdicts, outdirs, runs, csv, fresh>>

-----------------------------------------------------------------------------
(* One pair: get_extns_to_install, then reinstall_postgres (pairwise) or   *)
(* the removal and reinstallation of every pair (parallel).                *)
CanResolve(i) == Resolvable(Pairs[i][1]) /\ Resolvable(Pairs[i][2])

(* Mutant: an installation with more options than needed is kept.          *)
MustReinstallForNew == Mode = "parallel" \/ ~(OptionsFor(idx) \subseteq opts)

MustReinstall == Mode = "parallel" \/ OptionsFor(idx) # opts

(* Mutant: every pair is installed over the one before.                    *)
PrepareOverOld ==
  /\ pc = "pair" /\ idx <= Len(Pairs) /\ CanResolve(idx)
  /\ InstallPostgres(dist, OptionsFor(idx)) /\ opts' = OptionsFor(idx)
  /\ at' = 1
  /\ Goto("fetch")
  /\ UNCHANGED <<idx, val, verdicts, outdirs, runs, csv, fresh>>

PreparePair ==
  /\ pc = "pair" /\ idx <= Len(Pairs) /\ CanResolve(idx)
  /\ IF MustReinstall
     THEN InstallPostgres(NoDist, OptionsFor(idx)) /\ opts' = OptionsFor(idx)
     ELSE UNCHANGED <<host, opts>>
  /\ at' = 1
  /\ outdirs' = IF Mode = "pairwise" THEN outdirs \cup {DirName(Pairs[idx])}
                                     ELSE outdirs
  /\ Goto("fetch")
  /\ UNCHANGED <<idx, val, verdicts, runs, csv, fresh>>

(* get_dependencies raises KeyError for a name that is not in extn_db, and *)
(* install_postgres misses the source tree when the installation is gone.  *)
PrepareRaises ==
  /\ pc = "pair" /\ idx <= Len(Pairs)
  /\ \/ ~CanResolve(idx) /\ UNCHANGED host
     \/ /\ CanResolve(idx) /\ MustReinstall /\ ~tree.there
        /\ dist' = NoDist /\ UNCHANGED <<tree, workdir, data, server>>
  /\ Goto("exited")
  /\ UNCHANGED <<idx, at, opts, val, verdicts, outdirs, runs, csv, fresh>>

Fetching == pc = "fetch" /\ at \in DOMAIN ToInstall(idx)

(* Mutant: a failing make is tried again, and so is one that works.        *)
FetchAgain ==
  /\ Fetching
  /\ DownloadInstall(ToInstall(idx)[at])
  /\ UNCHANGED <<prog, runs, csv, fresh>>

FetchNext ==
  /\ Fetching
  /\ DownloadInstall(ToInstall(idx)[at])
  /\ at' = at + 1
  /\ UNCHANGED <<pc, idx, opts, val, verdicts, outdirs, runs, csv, fresh>>

FetchRaises ==
  /\ Fetching
  /\ DownloadRaises(ToInstall(idx)[at])
  /\ Goto("exited")
  /\ UNCHANGED <<host, idx, at, opts, val, verdicts, outdirs, runs, csv, fresh>>

(* init_db.  In parallel mode get_terminal_file comes only now.            *)
RunInitDb ==
  /\ pc = "fetch" /\ at \notin DOMAIN ToInstall(idx)
  /\ InitDb
  /\ outdirs' = outdirs \cup {DirName(Pairs[idx])}
  /\ Goto("conf")
  /\ UNCHANGED <<idx, at, opts, val, verdicts, runs, csv, fresh>>

RunModifyConf ==
  /\ pc = "conf"
  /\ ModifyConf(ToInstall(idx))
  /\ Goto("start")
  /\ UNCHANGED <<idx, at, opts, val, verdicts, outdirs, runs, csv, fresh>>

ModifyConfRaises ==
  /\ pc = "conf" /\ ~data.present
  /\ Goto("exited")
  /\ UNCHANGED <<host, idx, at, opts, val, verdicts, outdirs, runs, csv, fresh>>

(* start_postgres, and compatibility_test's val = True.                    *)
RunStart ==
  /\ pc = "start"
  /\ StartPostgres
  /\ val' = TRUE
  /\ Goto("test1")
  /\ UNCHANGED <<idx, at, opts, verdicts, outdirs, runs, csv, fresh>>

-----------------------------------------------------------------------------
(* compatibility_test: each extension's own suite with the other one       *)
(* loaded; a FALSE val after both skips pgbench.                           *)
Testing == pc \in {"test1", "test2"}
Tested == IF pc = "test1" THEN First ELSE Second
Compat == IF pc = "test1" THEN Second ELSE First

(* Mutant: each suite that fails adds a verdict.                           *)
AfterTestTwice(v) ==
  /\ val' = v
  /\ verdicts' = IF v THEN verdicts ELSE Append(verdicts, FALSE)
  /\ Goto(IF pc = "test1" THEN "test2" ELSE IF v THEN "load1" ELSE "stop")

(* What follows a test that leaves val = v.                                *)
AfterTest(v) ==
  /\ val' = v
  /\ IF pc = "test1" THEN Goto("test2") /\ verdicts' = verdicts
     ELSE IF v THEN Goto("load1") /\ verdicts' = verdicts
     ELSE Goto("stop") /\ verdicts' = Append(verdicts, FALSE)

(* pg_regress_test.  A code of 0 passes, 1 and 2 fail, and every other one *)
(* leaves val as it is.                                                    *)
RegressPasses(rc) == rc \notin {1, 2}

(* Mutant: -x is only looked at when regression.diffs is there.            *)
RegressTestGoesOn ==
  /\ Testing /\ Entry[Tested].test = "pg_regress" /\ SuiteThere(Tested)
  /\ \E rc \in RegressOutcomes(Tested, Compat) :
       /\ ExitFlag => rc # 1
       /\ AfterTest(val /\ RegressPasses(rc))
  /\ UNCHANGED <<host, idx, at, opts, outdirs, runs, csv, fresh>>

RegressTest ==
  /\ Testing /\ Entry[Tested].test = "pg_regress" /\ SuiteThere(Tested)
  /\ \E rc \in RegressOutcomes(Tested, Compat) :
       /\ ExitFlag => RegressPasses(rc)
       /\ AfterTest(val /\ RegressPasses(rc))
  /\ UNCHANGED <<host, idx, at, opts, outdirs, runs, csv, fresh>>

(* A failing suite ends the program under -x; with code 1 it also does     *)
(* when pg_regress left no regression.out or .diffs to move.               *)
RegressExits ==
  /\ Testing /\ Entry[Tested].test = "pg_regress" /\ SuiteThere(Tested)
  /\ \E rc \in RegressOutcomes(Tested, Compat) :
       ~RegressPasses(rc) /\ (rc = 1 \/ ExitFlag)
  /\ Goto("exited")
  /\ UNCHANGED <<host, idx, at, opts, val, verdicts, outdirs, runs, csv, fresh>>

(* custom_script_test compares the script's output with a stored text.     *)
CustomTest ==
  /\ Testing /\ Entry[Tested].test = "custom_test_script" /\ SuiteThere(Tested)
  /\ CreateInTemplate(CustomLoads(Tested, Compat))
  /\ \E same \in BOOLEAN :
       /\ ExitFlag => same
       /\ AfterTest(val /\ same)
  /\ UNCHANGED <<idx, at, opts, outdirs, runs, csv, fresh>>

(* It differs, and -x is set or one of the fail_files cannot be moved.     *)
CustomExits ==
  /\ Testing /\ Entry[Tested].test = "custom_test_script" /\ SuiteThere(Tested)
  /\ CreateInTemplate(CustomLoads(Tested, Compat))
  /\ Goto("exited")
  /\ UNCHANGED <<idx, at, opts, val, verdicts, outdirs, runs, csv, fresh>>

(* The suite's directory or one of its files is missing; custom_script_test*)
(* notices that only when it has created the compatible extension.         *)
SuiteMissing ==
  /\ Testing /\ SuiteLacking(Tested)
  /\ IF Entry[Tested].test = "custom_test_script"
     THEN CreateInTemplate(CustomLoads(Tested, Compat)) ELSE UNCHANGED host
  /\ Goto("exited")
  /\ UNCHANGED <<idx, at, opts, val, verdicts, outdirs, runs, csv, fresh>>

NoTest ==
  /\ Testing /\ Entry[Tested].test = "none"
  /\ AfterTest(val)
  /\ UNCHANGED <<host, idx, at, opts, outdirs, runs, csv, fresh>>

(* pgbench_test(first, second) and pgbench_test(second, first).            *)
BenchLoad ==
  /\ \/ pc = "load1" /\ LoadBench(PgbenchLoads(First, Second)) /\ Goto("bench1")
     \/ pc = "load2" /\ LoadBench(PgbenchLoads(Second, First)) /\ Goto("bench2")
  /\ UNCHANGED <<idx, at, opts, val, verdicts, outdirs, runs, csv, fresh>>

(* "and" evaluates the second benchmark only when the first one passed.    *)
BenchRun ==
  /\ pc \in {"bench1", "bench2"}
  /\ DropBench
  /\ \E ok \in BenchOutcomes :
       IF pc = "bench1" /\ ok
       THEN Goto("load2") /\ verdicts' = verdicts
       ELSE Goto("stop") /\ verdicts' = Append(verdicts, ok)
  /\ UNCHANGED <<idx, at, opts, val, outdirs, runs, csv, fresh>>

-----------------------------------------------------------------------------
RunStop ==
  /\ pc = "stop"
  /\ StopPostgres
  /\ Goto("cleanup")
  /\ UNCHANGED <<idx, at, opts, val, verdicts, outdirs, runs, csv, fresh>>

RunCleanup ==
  /\ pc = "cleanup"
  /\ Cleanup(TRUE)
  /\ idx' = idx + 1
  /\ Goto("pair")
  /\ UNCHANGED <<at, opts, val, verdicts, outdirs, runs, csv, fresh>>

LoopEnds ==
  /\ pc = "pair" /\ idx > Len(Pairs)
  /\ Goto("delete")
  /\ UNCHANGED <<host, idx, at, opts, val, verdicts, outdirs, runs, csv, fresh>>

(* Mutant: the pairs that do not work.                                     *)
BrokenDirs == {DirName(Pairs[i]) : i \in {j \in DOMAIN Pairs : ~verdicts[j]}}

(* delete_working_pairs removes the output directory of each pair whose    *)
(* verdict is True.                                                        *)
WorkingDirs == {DirName(Pairs[i]) : i \in {j \in DOMAIN Pairs : verdicts[j]}}

DeleteWorkingPairs ==
  /\ pc = "delete"
  /\ outdirs' = outdirs \ WorkingDirs
  /\ Goto("final")
  /\ UNCHANGED <<host, idx, at, opts, val, verdicts, runs, csv, fresh>>

RunFinalCleanup ==
  /\ pc = "final"
  /\ FinalCleanup
  /\ Goto("open")
  /\ UNCHANGED <<idx, at, opts, val, verdicts, outdirs, runs, csv, fresh>>

(* open(..., "w") empties the old report; its rows arrive with close.      *)
OpenReport ==
  /\ pc = "open"
  /\ csv' = [state |-> "torn", rows |-> << >>]
  /\ Goto("write")
  /\ UNCHANGED <<host, idx, at, opts, val, verdicts, outdirs, runs, fresh>>

WriteReport ==
  /\ pc = "write"
  /\ csv' = [state |-> "written", rows |-> verdicts]
  /\ Goto("done")
  /\ UNCHANGED <<host, idx, at, opts, val, verdicts, outdirs, runs, fresh>>

-----------------------------------------------------------------------------
(* The environment: the process is killed, the server dies, the user runs  *)
(* cleanup.sh between two runs.                                            *)
Killed ==
  /\ Running
  /\ Goto("exited")
  /\ UNCHANGED <<host, idx, at, opts, val, verdicts, outdirs, runs, csv, fresh>>

HostServerDies == ServerDies /\ UNCHANGED <<prog, runs, csv, fresh>>

UserCleansUp ==
  /\ ~Running /\ runs > 0
  /\ OperatorCleanup
  /\ UNCHANGED <<prog, runs, csv, fresh>>

Prepare == \/ InitialSetup \/ InstallFirst \/ InstallRaises \/ PreparePair \/ PrepareRaises
           \/ FetchNext \/ FetchRaises \/ RunInitDb \/ RunModifyConf
           \/ ModifyConfRaises \/ RunStart
RunTests == \/ RegressTest \/ RegressExits \/ CustomTest \/ CustomExits
            \/ SuiteMissing \/ NoTest \/ BenchLoad \/ BenchRun
Finish == \/ RunStop \/ RunCleanup \/ LoopEnds \/ DeleteWorkingPairs
          \/ RunFinalCleanup \/ OpenReport \/ WriteReport
Program == Prepare \/ RunTests \/ Finish
Environment == Begin \/ Killed \/ HostServerDies \/ UserCleansUp

Next == Program \/ Environment

Spec == Init /\ [][Next]_vars

(* Every shell command the driver waits for returns; nothing else is fair. *)
FairSpec == Spec /\ WF_vars(Program)

-----------------------------------------------------------------------------
(* Safety.  A run that began on a clean host, or one past its first pair,  *)
(* owes nothing to an earlier run's cluster and server.                    *)
OwnCluster == fresh \/ idx > 1

(* While a pair is tested, a server that answers was started with the      *)
(* configuration of exactly this pair, appended once: no server, cluster   *)
(* or postgresql.conf line of another pair or run is ever tested against.  *)
ServesCurrentPair ==
  InTests /\ Serving /\ OwnCluster => server.confs = <<ToInstall(idx)>>

(* While a pair is tested, an installed PostgreSQL has all the options this*)
(* pair asks for and, begun on a clean host, no others, whatever pairs,    *)
(* failed builds and runs came before - provided that the configure for it *)
(* worked.  When it did not, the driver tests the pair all the same, on    *)
(* what the source tree was configured for before.                         *)
BuiltForPair ==
  InTests /\ dist.built =>
    /\ fresh => dist.opts = tree.opts
    /\ tree.opts = opts => /\ OptionsFor(idx) \subseteq dist.opts
                           /\ fresh => dist.opts = OptionsFor(idx)

(* A parallel worker tests a pair in an installation that no earlier pair  *)
(* has put an extension library into.                                      *)
IsolatedPair ==
  Mode = "parallel" /\ InTests => dist.libs \subseteq ToSet(ToInstall(idx))

(* The benchmark database holds extensions of the current pair and of what *)
(* they depend on, in spite of template1 being filled by custom scripts,   *)
(* of a dropdb that fails, and of the pairs and runs before.               *)
BenchHasOnlyPairExtns ==
  pc \in {"bench1", "bench2"} /\ OwnCluster => data.bench \subseteq ToSet(ToInstall(idx))

(* The output of a judged pair stays until every pair is judged, and is    *)
(* then lost only when a pair of the same directory name works.            *)
EvidenceKept ==
  \A i \in DOMAIN verdicts :
    DirName(Pairs[i]) \notin outdirs =>
      /\ Len(verdicts) = Len(Pairs)
      /\ \E j \in DOMAIN verdicts : verdicts[j] /\ DirName(Pairs[j]) = DirName(Pairs[i])

(* The verdicts stay in step with the pairs, across skipped benchmarks,    *)
(* exceptions and restarts: the i-th one is for file_extn_pairs[i].        *)
VerdictsInStep ==
  Running => Len(verdicts) =
    IF pc \in {"stop", "cleanup"} THEN idx
    ELSE IF pc \in {"delete", "final", "open", "write"} THEN Len(Pairs)
    ELSE idx - 1

(* -x: a suite that fails ends the program before its pair is judged, so   *)
(* that a False verdict is always one of the benchmark's, which the flag   *)
(* does not stop although README.md:35 says it does for all tests.         *)
ExitFlagStopsAtSuite ==
  [][ ExitFlag /\ verdicts' = Append(verdicts, FALSE) => pc \in {"bench1", "bench2"} ]_vars

(* A report that was written leaves nothing of the run on the host: no     *)
(* installation, no source tree, no folders, no cluster and no server that *)
(* answers.                                                                *)
CleanWhenDone ==
  pc \in {"open", "write", "done"} =>
    /\ dist = NoDist /\ tree = NoTree /\ workdir = {}
    /\ OwnCluster => ~data.present /\ ~Serving

(* Nobody checks pg_ctl's status, yet a pair is only called compatible     *)
(* when a server came up with every library the pair preloads.             *)
TrueMeansPreloaded ==
  [][ verdicts' = Append(verdicts, TRUE) /\ OwnCluster =>
        \A e \in ToSet(PreloadLibs(ToInstall(idx))) : Available(e) ]_vars

(* A program that is not killed ends, whatever fails on its way.           *)
EveryRunEnds == Running ~> ~Running

-----------------------------------------------------------------------------
(* The driver implements the abstract campaign: Running is its phase, the  *)
(* verdicts and the report file are its own.                               *)
Phase == IF Running THEN "testing" ELSE "idle"
Campaign == INSTANCE CompatCampaign WITH
  N <- Len(Pairs), phase <- Phase, judged <- verdicts, report <- csv
CampaignSpec == Campaign!Spec

-----------------------------------------------------------------------------
(* The safety properties are not inductive.  What they rest on: a pair is  *)
(* only worked on while there is one,                                      *)
PairAtHand == InPair => idx \in DOMAIN Pairs

(* a pair begins without a cluster and without a server that answers, and  *)
(* its own cluster is configured once and served afterwards,               *)
ClusterInv ==
  /\ ~data.present => data.confs = << >>
  /\ OwnCluster /\ pc \in {"setup", "install", "pair", "fetch"} => ~data.present /\ ~Serving
  /\ OwnCluster /\ pc = "conf" => data.confs = << >> /\ ~Serving
  /\ OwnCluster /\ pc = "start" => data.confs = <<ToInstall(idx)>> /\ ~Serving
  /\ ServesCurrentPair

(* what is installed is what the source tree is configured for, unless it  *)
(* was installed over something older, when no options are asked for,      *)
InstallInv ==
  /\ ~dist.built => dist.opts = {}
  /\ dist.built /\ (fresh \/ opts # {}) => dist.opts = tree.opts
  /\ pc \in {"setup", "install"} => opts = {} /\ (fresh => ~dist.built)
  /\ InPair => opts = OptionsFor(idx)
  /\ Mode = "parallel" /\ InPair => dist.libs \subseteq ToSet(ToInstall(idx))

(* a server that answers was started with the libraries that are there now,*)
PreloadInv ==
  InTests /\ Serving /\ OwnCluster =>
    \A e \in ToSet(PreloadLibs(ToInstall(idx))) : Available(e)

(* databases are created in a cluster only, and filled for this pair,      *)
LoadedInv ==
  /\ Serving => data.present
  /\ ~data.present => data.template1 = {} /\ data.bench = {}
  /\ OwnCluster /\ (pc \in {"conf", "start"} \/ InTests) =>
       data.template1 \cup data.bench \subseteq ToSet(ToInstall(idx))

(* every judged pair has its directory until all pairs are judged,         *)
EvidenceInv ==
  /\ InTests \/ pc \in {"conf", "start", "cleanup"} => DirName(Pairs[idx]) \in outdirs
  /\ Running /\ pc \notin {"final", "open", "write"} =>
       \A i \in DOMAIN verdicts : DirName(Pairs[i]) \in outdirs
  /\ EvidenceKept

(* and the verdicts are in step, val is never False under -x, and a report *)
(* is about to be written only where it has been opened.                   *)
VerdictInv ==
  /\ VerdictsInStep
  /\ ExitFlag => val
  /\ pc = "write" => csv = [state |-> "torn", rows |-> << >>]

(* The inductive invariant of the program.                                 *)
InductiveInv ==
  /\ TypeOK /\ PairAtHand /\ ClusterInv /\ InstallInv /\ PreloadInv /\ LoadedInv
  /\ VerdictInv /\ EvidenceInv
=============================================================================

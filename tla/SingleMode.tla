----------------------------- MODULE SingleMode -----------------------------
(***************************************************************************)
(* single_mode: every extension of a list is installed with its direct     *)
(* dependencies and its own suite is run.  Unlike the pair modes it writes *)
(* its rows as it goes, has rows for what it cannot run, and walks the     *)
(* extensions to install with the variable that names the row.             *)
(***************************************************************************)
EXTENDS PgHost

CONSTANTS
  Lists,     \* the list files at hand, as the sequences of their lines
  MaxRuns    \* bound: how many times the program is started

ASSUME SingleModeAssumption ==
  /\ Lists \subseteq Seq(Names)
  /\ MaxRuns \in Nat \ {0}
  /\ \A n \in Extns : Entry[n].hasDeps => Entry[n].deps \in Seq(Names)

VARIABLES
  pc,      \* the next statement
  runs,    \* how many times the program was started
  list,    \* the file named by --list
  exitFlag,\* -x
  pos,     \* position in file_extns_list
  at,      \* position in extns_to_install
  opts,    \* current_configure_options
  extn,    \* the loop variable extn
  result,  \* what single_test returned
  rows,    \* the rows handed to the csv writer
  file,    \* the rows that are in single.csv
  fresh    \* history: this run began on a clean host

args == <<list, exitFlag>>
prog == <<pc, args, pos, at, opts, extn, result, rows>>
vars == <<host, prog, runs, file, fresh>>

PCs == {"idle", "setup", "install", "next", "fetch", "conf", "start", "test", "stop",
        "cleanup", "done", "exited"}
Running == pc \notin {"idle", "done", "exited"}
Opening == pc \in {"setup", "install"}    \* single.csv is not open yet

(* The rows of single.csv: <<extension, in extn db, runs in driver, tests  *)
(* exist, tests pass>>.                                                    *)
Answers == {"yes", "no", "not supported"}
Rows == Names \X Answers \X Answers \X Answers \X Answers

Current == list[pos]
TestsExist(n) == IF Entry[n].test = "none" THEN "no" ELSE "yes"

(* deps + [extn]: only the dependencies the entry itself lists.            *)
ToInstall(n) == Append(Entry[n].deps, n)
OptionsFor(n) == GetConfigureOptions(ToInstall(n))

(* What the variables range over: only an entry with "dependencies" that   *)
(* are all known is installed, and nothing here issues CREATE EXTENSION    *)
(* outside a suite.                                                        *)
Installable == {n \in Extns : Entry[n].hasDeps /\ ToSet(Entry[n].deps) \subseteq Extns}
InstallLists == {ToInstall(n) : n \in Installable}
Listed == UNION {ToSet(l) : l \in InstallLists}
Options == UNION {OptionsFor(n) : n \in Installable}

TypeOK ==
  /\ HostType(Options, InstallLists, Listed, {})
  /\ pc \in PCs
  /\ runs \in 0 .. MaxRuns
  /\ list \in Lists /\ exitFlag \in BOOLEAN
  /\ pos \in 1 .. Len(list) + 1
  /\ at \in Nat \ {0}
  /\ opts \in SUBSET Options
  /\ extn \in Names
  /\ result \in Answers \X Answers
  /\ rows \in Seq(Rows) /\ file \in Seq(Rows)
  /\ fresh \in BOOLEAN

Init ==
  /\ HostInit
  /\ list \in Lists /\ exitFlag = FALSE
  /\ pc = "idle" /\ runs = 0 /\ pos = 1 /\ at = 1 /\ opts = {} /\ extn \in Names
  /\ result = <<"no", "not supported">> /\ rows = << >> /\ file = << >>
  /\ fresh = TRUE

Goto(label) == pc' = label

(* The user starts the program, possibly again in the same directory.      *)
Begin ==
  /\ ~Running /\ runs < MaxRuns
  /\ runs' = runs + 1
  /\ list' \in Lists /\ exitFlag' \in BOOLEAN
  /\ fresh' = (~server.up /\ ~data.present /\ ~dist.built)
  /\ pos' = 1 /\ at' = 1 /\ opts' = {} /\ rows' = << >>
  /\ Goto("setup")
  /\ UNCHANGED <<host, extn, result, file>>

(* initial_setup                                                           *)
Setup ==
  /\ pc = "setup"
  /\ UnpackTree
  /\ Goto("install")
  /\ UNCHANGED <<args, pos, at, opts, extn, result, rows, runs, file, fresh>>

(* Mutant: open("single.csv", "a").                                        *)
InstallAppends ==
  /\ pc = "install"
  /\ InstallPostgres(dist, {})
  /\ Goto("next")
  /\ UNCHANGED <<args, pos, at, opts, extn, result, rows, runs, file, fresh>>

(* install_postgres([]) and open("single.csv", "w").                       *)
InstallFirst ==
  /\ pc = "install"
  /\ InstallPostgres(dist, {})
  /\ file' = << >> /\ Goto("next")
  /\ UNCHANGED <<args, pos, at, opts, extn, result, rows, runs, fresh>>

InstallRaises ==
  /\ pc = "install" /\ ~tree.there
  /\ Goto("exited")
  /\ UNCHANGED <<args, host, pos, at, opts, extn, result, rows, runs, file, fresh>>

-----------------------------------------------------------------------------
(* An extension that cannot be run gets its row at once.                   *)
Unknown == Current \notin Extns
DepMissing == \E d \in ToSet(Entry[Current].deps) : d \notin Extns
CannotRun == Entry[Current].download = "none" \/ Entry[Current].install = "none"

Skip ==
  /\ pc = "next" /\ pos <= Len(list)
  /\ \/ /\ Unknown
        /\ rows' = Append(rows, <<Current, "no", "not supported", "not supported", "not supported">>)
     \/ /\ ~Unknown /\ Entry[Current].hasDeps /\ (DepMissing \/ CannotRun)
        /\ rows' = Append(rows, <<Current, "yes", "no", TestsExist(Current), "not supported">>)
  /\ extn' = Current /\ pos' = pos + 1
  /\ UNCHANGED <<args, host, pc, at, opts, result, runs, file, fresh>>

(* extn_entry['dependencies'] raises for an entry without that key, and    *)
(* the rows written so far reach the file when the interpreter ends.       *)
NoDependenciesKey ==
  /\ pc = "next" /\ pos <= Len(list) /\ ~Unknown /\ ~Entry[Current].hasDeps
  /\ Goto("exited") /\ file' = rows
  /\ UNCHANGED <<args, host, pos, at, opts, extn, result, rows, runs, fresh>>

(* reinstall_postgres, and the output directory.                           *)
PrepareExtn ==
  /\ pc = "next" /\ pos <= Len(list)
  /\ ~Unknown /\ Entry[Current].hasDeps /\ ~DepMissing /\ ~CannotRun
  /\ IF OptionsFor(Current) # opts
     THEN InstallPostgres(NoDist, OptionsFor(Current)) /\ opts' = OptionsFor(Current)
     ELSE UNCHANGED <<host, opts>>
  /\ extn' = Current /\ at' = 1
  /\ Goto("fetch")
  /\ UNCHANGED <<args, pos, result, rows, runs, file, fresh>>

(* for extn in extns_to_install: the loop reuses the name of the row.      *)
Fetching == pc = "fetch" /\ at <= Len(ToInstall(Current))

FetchNext ==
  /\ Fetching
  /\ DownloadInstall(ToInstall(Current)[at])
  /\ extn' = ToInstall(Current)[at] /\ at' = at + 1
  /\ UNCHANGED <<args, pc, pos, opts, result, rows, runs, file, fresh>>

(* Any exception or sys.exit after the first row: what was written stays.  *)
Raises ==
  /\ \/ Fetching /\ DownloadRaises(ToInstall(Current)[at])
     \/ pc = "conf" /\ ~data.present
     \/ pc = "test" /\ SuiteLacking(Current)
  /\ Goto("exited") /\ file' = rows
  /\ UNCHANGED <<args, host, pos, at, opts, extn, result, rows, runs, fresh>>

RunInitDb ==
  /\ pc = "fetch" /\ at > Len(ToInstall(Current))
  /\ InitDb /\ Goto("conf")
  /\ UNCHANGED <<args, pos, at, opts, extn, result, rows, runs, file, fresh>>

RunModifyConf ==
  /\ pc = "conf"
  /\ ModifyConf(ToInstall(Current)) /\ Goto("start")
  /\ UNCHANGED <<args, pos, at, opts, extn, result, rows, runs, file, fresh>>

RunStart ==
  /\ pc = "start"
  /\ StartPostgres /\ Goto("test")
  /\ UNCHANGED <<args, pos, at, opts, extn, result, rows, runs, file, fresh>>

-----------------------------------------------------------------------------
(* single_test(extn, extn_entry, ...): tests_exist and tests_pass.         *)
RegressPasses(rc) == rc \notin {1, 2}

TestResult(passes) == <<"yes", IF passes THEN "yes" ELSE "no">>

SingleTest ==
  /\ pc = "test" /\ SuiteThere(Current)
  /\ CASE Entry[Current].test = "pg_regress" ->
            \E rc \in RegressOutcomes(Current, Current) :
              /\ exitFlag => RegressPasses(rc)
              /\ result' = TestResult(RegressPasses(rc))
       [] Entry[Current].test = "custom_test_script" ->
            \E same \in BOOLEAN :
              /\ exitFlag => same
              /\ result' = TestResult(same)
       [] OTHER -> result' = <<"no", "not supported">>
  /\ Goto("stop")
  /\ UNCHANGED <<args, host, pos, at, opts, extn, rows, runs, file, fresh>>

(* A failing test ends the program under -x, or when the files it should   *)
(* have left are missing.                                                  *)
SingleTestExits ==
  /\ pc = "test" /\ SuiteThere(Current)
  /\ \/ /\ Entry[Current].test = "pg_regress"
        /\ \E rc \in RegressOutcomes(Current, Current) :
             ~RegressPasses(rc) /\ (rc = 1 \/ exitFlag)
     \/ Entry[Current].test = "custom_test_script"
  /\ Goto("exited") /\ file' = rows
  /\ UNCHANGED <<args, host, pos, at, opts, extn, result, rows, runs, fresh>>

RunStop ==
  /\ pc = "stop"
  /\ StopPostgres /\ Goto("cleanup")
  /\ UNCHANGED <<args, pos, at, opts, extn, result, rows, runs, file, fresh>>

(* cleanup, then the row, under the name the inner loop left in extn.      *)
WriteRow ==
  /\ pc = "cleanup"
  /\ Cleanup(TRUE)
  /\ rows' = Append(rows, <<extn, "yes", "yes", result[1], result[2]>>)
  /\ pos' = pos + 1 /\ Goto("next")
  /\ UNCHANGED <<args, at, opts, extn, result, runs, file, fresh>>

Finish ==
  /\ pc = "next" /\ pos > Len(list)
  /\ FinalCleanup
  /\ Goto("done") /\ file' = rows
  /\ UNCHANGED <<args, pos, at, opts, extn, result, rows, runs, fresh>>

-----------------------------------------------------------------------------
(* A killed interpreter loses what its file buffer still holds.            *)
Killed ==
  /\ Running
  /\ file' \in IF Opening THEN {file}
               ELSE {SubSeq(rows, 1, n) : n \in 0 .. Len(rows)}
  /\ Goto("exited")
  /\ UNCHANGED <<args, host, pos, at, opts, extn, result, rows, runs, fresh>>

HostServerDies == ServerDies /\ UNCHANGED <<prog, runs, file, fresh>>

UserCleansUp ==
  /\ ~Running /\ runs > 0
  /\ OperatorCleanup
  /\ UNCHANGED <<prog, runs, file, fresh>>

Program == \/ Setup \/ InstallFirst \/ InstallRaises \/ Skip \/ NoDependenciesKey
           \/ PrepareExtn \/ FetchNext \/ Raises \/ RunInitDb \/ RunModifyConf \/ RunStart \/ SingleTest
           \/ SingleTestExits \/ RunStop \/ WriteRow \/ Finish

Next == Program \/ Begin \/ Killed \/ HostServerDies \/ UserCleansUp

Spec == Init /\ [][Next]_vars

-----------------------------------------------------------------------------
(* The n-th row is about the n-th line of the list, although the loop that *)
(* installs the dependencies overwrites the variable the row is named by.  *)
RowsNameTheirExtension ==
  /\ \A i \in DOMAIN rows : rows[i][1] = list[i]
  /\ Running => Len(rows) = pos - 1
  /\ pc = "done" => Len(rows) = Len(list)

(* Once a run has opened the file, it holds an initial part of the rows of *)
(* this run however the run ends, and all of them when the run comes to    *)
(* its end: only a kill loses rows.                                        *)
FileHoldsTheRows ==
  /\ (Running /\ ~Opening) \/ pc = "done" \/ (pc = "exited" /\ rows # << >>) =>
       IsPrefix(file, rows)
  /\ pc = "done" => file = rows

(* The table tells of the list, row for line, as far as the run came.      *)
TableTellsOfTheList == RowsNameTheirExtension /\ FileHoldsTheRows

(* While an extension is tested, a server that answers was started with    *)
(* the configuration of exactly this extension and its direct dependencies,*)
(* unless the cluster is one an earlier run left.                          *)
OwnCluster == fresh \/ \E i \in DOMAIN rows : rows[i][3] = "yes"
ServesCurrentExtn ==
  pc \in {"test", "stop"} /\ Serving /\ OwnCluster =>
    server.confs = <<ToInstall(Current)>>

-----------------------------------------------------------------------------
(* What these rest on.  An extension is only worked on while there is one, *)
(* with its entry and its dependencies,                                    *)
Working == pc \in {"fetch", "conf", "start", "test", "stop", "cleanup"}
ExtnAtHand == Working => pos \in DOMAIN list /\ Current \in Installable

(* the loop over what to install leaves its variable at the last name,     *)
(* which is the one the row is about,                                      *)
LoopVariable ==
  /\ pc = "fetch" => /\ at <= Len(ToInstall(Current)) + 1
                     /\ at > Len(ToInstall(Current)) => extn = Current
  /\ Working /\ pc # "fetch" => extn = Current

(* and an extension begins without a cluster and without a server that     *)
(* answers; its own cluster is configured once and served afterwards.      *)
ClusterInv ==
  /\ ~data.present => data.confs = << >>
  /\ OwnCluster /\ pc \in {"setup", "install", "next", "fetch"} => ~data.present /\ ~Serving
  /\ OwnCluster /\ pc = "conf" => data.confs = << >> /\ ~Serving
  /\ OwnCluster /\ pc = "start" => data.confs = <<ToInstall(Current)>> /\ ~Serving
  /\ ServesCurrentExtn

(* The inductive invariant of the program.                                 *)
TableInv == LoopVariable /\ (Opening => pos = 1) /\ TableTellsOfTheList
InductiveInv == TypeOK /\ ExtnAtHand /\ TableInv /\ ClusterInv
=============================================================================

------------------------------- MODULE PgHost -------------------------------
(***************************************************************************)
(* The host that compatibility_analysis.py drives with shell commands, and *)
(* what each of its host helpers does there: the installed PostgreSQL      *)
(* (pg-15-dist), the source tree it is built from (postgresql-15.3), the   *)
(* extension work directory (pgextworkdir), the database cluster           *)
(* (pg-15-data) and the server running on the configured port.             *)
(*                                                                         *)
(* The helpers never look at the exit status of make, git, initdb or       *)
(* pg_ctl, so every one of those commands may also have no effect.  What   *)
(* stops the driver is a Python exception: a missing working directory or  *)
(* a missing postgresql.conf.  Each helper below says when that happens.   *)
(* One thing is taken for granted: rm -rf removes what it is given.        *)
(***************************************************************************)
EXTENDS ExtnDB

VARIABLES
  dist,      \* pg-15-dist: built, configured with opts, extension libraries
  tree,      \* postgresql-15.3: there, and what it is configured for
  workdir,   \* the extensions whose folder is in pgextworkdir
  data,      \* pg-15-data
  server     \* the postgres process, which outlives the driver

host == <<dist, tree, workdir, data, server>>

NoDist == [built |-> FALSE, opts |-> {}, libs |-> {}]

(* configured: it has the makefiles and settings of a configure that worked*)
(* with opts, perhaps one of an earlier pair or run.                       *)
NoTree == [there |-> FALSE, configured |-> FALSE, opts |-> {}]

(* confs: what modify_postgresql_conf was given, each time it appended to  *)
(* this cluster's file.  template1, bench: the extensions created there.   *)
NoData == [present |-> FALSE, confs |-> << >>, template1 |-> {},
           hasBench |-> FALSE, bench |-> {}]
NewData == [NoData EXCEPT !.present = TRUE]

(* orphan: the cluster was removed under a server that is still running.   *)
NoServer == [up |-> FALSE, orphan |-> FALSE, confs |-> << >>]

HostInit ==
  dist = NoDist /\ tree = NoTree /\ workdir = {} /\ data = NoData /\ server = NoServer

(* Lists: the lists of extensions to install; Listed: their members;       *)
(* Loaded: what CREATE EXTENSION is issued for.                            *)
Dists(Opts, Listed) == [built : BOOLEAN, opts : SUBSET Opts, libs : SUBSET Listed]
Trees(Opts) == [there : BOOLEAN, configured : BOOLEAN, opts : SUBSET Opts]
Clusters(Lists, Loaded) ==
  [present : BOOLEAN, confs : Seq(Lists), template1 : SUBSET Loaded,
   hasBench : BOOLEAN, bench : SUBSET Loaded]
Servers(Lists) == [up : BOOLEAN, orphan : BOOLEAN, confs : Seq(Lists)]

HostType(Opts, Lists, Listed, Loaded) ==
  /\ dist \in Dists(Opts, Listed)
  /\ tree \in Trees(Opts)
  /\ workdir \in SUBSET Listed
  /\ data \in Clusters(Lists, Loaded)
  /\ server \in Servers(Lists)

-----------------------------------------------------------------------------
(* PostgreSQL's own files hold the contrib modules, as far as configure    *)
(* was asked for what they need; "downloaded" extensions are taken as part *)
(* of the machine in the same way (external).                              *)
InDist(e) == Entry[e].download \in {"contrib", "downloaded"}

Available(e) ==
  IF InDist(e) THEN dist.built /\ Entry[e].opts \subseteq dist.opts
               ELSE e \in dist.libs

Serving == server.up /\ ~server.orphan

(* CREATE EXTENSION needs the extension's files, and the extensions it     *)
(* depends on in the same database (external).  The names of a list come   *)
(* after what they depend on, so what one command after the other creates  *)
(* is the largest set that has no name without what it needs.              *)
Needs(e) == {d \in ToSet(DepsOf(e)) : Creatable(d)}

CreateAll(created, list) ==
  UNION {S \in SUBSET (created \cup ToSet(list)) :
           created \subseteq S /\ \A e \in S \ created : Available(e) /\ Needs(e) \subseteq S}

(* pg_regress gives up at the first name that it cannot create.            *)
LoadsCreatable(list) ==
  \A i \in DOMAIN list :
    Available(list[i]) /\ Needs(list[i]) \subseteq {list[j] : j \in 1 .. i - 1}

-----------------------------------------------------------------------------
(* initial_setup: wget and tar put the source tree there; when they fail,  *)
(* it is as an earlier run left it, missing or not.  Unpacking over it     *)
(* keeps what configure has written.                                       *)
UnpackTree ==
  /\ tree' \in {tree, [tree EXCEPT !.there = TRUE]}
  /\ UNCHANGED <<dist, workdir, data, server>>

(* install_postgres over whatever is in the installation directory (base): *)
(* what was installed there before stays.  A configure that fails leaves   *)
(* the tree's last configuration, and make builds and installs that one; a *)
(* make that fails, or finds no configuration, leaves the directory as it  *)
(* is.  Without the tree the working directory is missing: an exception.   *)
InstallPostgres(base, opts) ==
  /\ tree.there
  /\ tree' \in {tree, [tree EXCEPT !.configured = TRUE, !.opts = opts]}
  /\ \/ dist' = base
     \/ /\ tree'.configured
        /\ dist' = [built |-> TRUE, opts |-> tree'.opts \cup base.opts, libs |-> base.libs]
  /\ UNCHANGED <<workdir, data, server>>

(* download_install_extn and install_extn.  git, wget and tar do nothing   *)
(* when the folder is there already; when it is not and they fail, make's  *)
(* working directory is missing and the driver dies.                       *)
NeedsFolder(e) == ~InDist(e) /\ Entry[e].install # "installed"

DownloadInstall(e) ==
  IF InDist(e) THEN UNCHANGED host
  ELSE /\ Entry[e].download \in {"git", "archive"}
       /\ Entry[e].install \in {"installed", "pgxs", "shell_script"}
       /\ workdir' \in {workdir, workdir \cup {e}}
       /\ NeedsFolder(e) => e \in workdir'
       /\ \/ dist' = dist
          \/ NeedsFolder(e) /\ dist.built /\ dist' = [dist EXCEPT !.libs = @ \cup {e}]
       /\ UNCHANGED <<tree, data, server>>

DownloadRaises(e) ==
  /\ ~InDist(e)
  /\ \/ Entry[e].download \notin {"git", "archive"}
     \/ Entry[e].install \notin {"installed", "pgxs", "shell_script"}
     \/ NeedsFolder(e) /\ e \notin workdir

(* initdb refuses a data directory that is not empty.                      *)
InitDb ==
  /\ \/ data' = data
     \/ dist.built /\ ~data.present /\ data' = NewData
  /\ UNCHANGED <<dist, tree, workdir, server>>

(* modify_postgresql_conf: opening the file raises without a cluster.      *)
ModifyConf(list) ==
  /\ data.present
  /\ data' = [data EXCEPT !.confs = Append(@, list)]
  /\ UNCHANGED <<dist, tree, workdir, server>>

(* The postmaster does not come up when the port is taken or a preloaded   *)
(* library is missing; the last shared_preload_libraries line counts.      *)
CanStart ==
  /\ dist.built /\ data.present /\ ~server.up
  /\ \A e \in ToSet(PreloadLibs(Last(data.confs))) : Available(e)

StartPostgres ==
  /\ \/ server' = server
     \/ CanStart /\ server' = [up |-> TRUE, orphan |-> FALSE, confs |-> data.confs]
  /\ UNCHANGED <<dist, tree, workdir, data>>

(* pg_ctl stop finds the server through the cluster; it may give up.       *)
StopPostgres ==
  /\ server' \in {server} \cup (IF dist.built /\ Serving THEN {NoServer} ELSE {})
  /\ UNCHANGED <<dist, tree, workdir, data>>

(* Mutant: cleanup forgets the cluster.                                    *)
CleanupKeepsData(delete_ext_dir) ==
  /\ workdir' = IF delete_ext_dir THEN {} ELSE workdir
  /\ UNCHANGED <<dist, tree, data, server>>

(* cleanup *)
Cleanup(delete_ext_dir) ==
  /\ data' = NoData
  /\ server' = [server EXCEPT !.orphan = server.up]
  /\ workdir' = IF delete_ext_dir THEN {} ELSE workdir
  /\ UNCHANGED <<dist, tree>>

FinalCleanup ==
  /\ dist' = NoDist /\ tree' = NoTree /\ workdir' = {}
  /\ UNCHANGED <<data, server>>

(* A server crashes, or notices that its cluster is gone (external).       *)
ServerDies ==
  /\ server.up /\ server' = NoServer
  /\ UNCHANGED <<dist, tree, workdir, data>>

(* cleanup.sh: it removes every directory and stops nothing.               *)
OperatorCleanup ==
  /\ dist' = NoDist /\ tree' = NoTree /\ workdir' = {} /\ data' = NoData
  /\ server' = [server EXCEPT !.orphan = server.up]

-----------------------------------------------------------------------------
(* The exit codes of the pg_regress command line (external): 0 all passed, *)
(* 1 some failed, 2 could not run; another one when the shell does not find*)
(* pg_regress, a signal ends it, or a before-script fails.                 *)
OtherCode == 127

RegressOutcomes(test, compat) ==
  IF ~dist.built THEN {OtherCode}
  ELSE IF ~Serving \/ ~LoadsCreatable(RegressLoads(test, compat)) THEN {2, OtherCode}
  ELSE {0, 1, 2, OtherCode}

(* pg_regress_test lists the suite's directory, custom_script_test runs in *)
(* the extension's folder: a missing one raises.  So does a test that the  *)
(* list names and the sources, a clone of whatever is there today, lack.   *)
SuiteThere(e) ==
  CASE Entry[e].test = "pg_regress" ->
           IF Entry[e].download = "contrib" THEN tree.there ELSE e \in workdir
    [] Entry[e].test = "custom_test_script" -> e \in workdir
    [] OTHER -> TRUE

SuiteLacking(e) == ~SuiteThere(e) \/ (Entry[e].test = "pg_regress" /\ ~Entry[e].suiteOk)

(* custom_script_test creates the compatible extension in template1.       *)
CreateInTemplate(list) ==
  /\ data' = IF Serving THEN [data EXCEPT !.template1 = CreateAll(@, list)] ELSE data
  /\ UNCHANGED <<dist, tree, workdir, server>>

(* pgbench_test, createdb and CREATE EXTENSION: createdb copies template1. *)
LoadBench(list) ==
  /\ data' = IF Serving
             THEN [data EXCEPT !.hasBench = TRUE,
                     !.bench = CreateAll(IF data.hasBench THEN data.bench ELSE data.template1, list)]
             ELSE data
  /\ UNCHANGED <<dist, tree, workdir, server>>

(* Mutant: a pgbench that cannot connect passes.                           *)
BenchNeverRefused == BOOLEAN

BenchOutcomes == IF Serving /\ data.hasBench THEN BOOLEAN ELSE {FALSE}

(* pgbench_test, dropdb: a database in use or a dead server keeps it.      *)
DropBench ==
  /\ data' \in {data} \cup
       (IF Serving THEN {[data EXCEPT !.hasBench = FALSE, !.bench = {}]} ELSE {})
  /\ UNCHANGED <<dist, tree, workdir, server>>
=============================================================================

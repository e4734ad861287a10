------------------------------- MODULE ExtnDB -------------------------------
(***************************************************************************)
(* The extension database (extn_info/<name>.json, loaded into extn_db) and *)
(* everything compatibility_analysis.py computes from it without touching  *)
(* the host: the dependency closure, the install order, the configure      *)
(* options, the preload list, and the three orders in which a test loads   *)
(* extensions.                                                             *)
(*                                                                         *)
(* A name is a model value; a JSON flag that the code tests only with "in" *)
(* is one of "absent", "true", "false"; an option is a member of a small   *)
(* set.  The custom_config lines follow the list of extensions to install, *)
(* and stand for nothing else here.                                        *)
(***************************************************************************)
EXTENDS Naturals, Sequences, FiniteSets, SequencesExt

CONSTANTS
  Names,    \* every name a list file or a "dependencies" key may mention
  Extns,    \* the keys of extn_db
  Entry     \* extn_db: one record per extension

JsonFlag == {"absent", "true", "false"}

(* What the driver reads of one extn_info file. "none" stands for a key    *)
(* that is missing; "other" for a value no branch of the code handles.     *)
EntryType(Opts) ==
  [ hasDeps   : BOOLEAN,                   \* is there a "dependencies" key
    deps      : Seq(Names),
    opts      : SUBSET Opts,               \* "configure_options"
    download  : {"contrib", "downloaded", "git", "archive", "other", "none"},
    install   : {"installed", "pgxs", "shell_script", "other", "none"},
    noPreload : JsonFlag,
    noCreate  : JsonFlag,                  \* "no_create_extn"
    test      : {"none", "pg_regress", "custom_test_script"},
    suiteOk   : BOOLEAN,                   \* is test_list sure to name files
    loads     : Seq(Names) ]               \* --load-extension= in "options"

-----------------------------------------------------------------------------
(* Python's "if x not in l: l.append(x)" over a list.                      *)
AppendNew(l, x) == IF Contains(l, x) THEN l ELSE Append(l, x)

AppendAllNew(l, list) == FoldLeft(AppendNew, l, list)

(* ... and of a loop that appends the names that are in S.                 *)
Selected(list, S) ==
  FoldLeft(LAMBDA acc, n : IF n \in S THEN Append(acc, n) ELSE acc, << >>, list)

DepsOf(n) == IF n \in Extns /\ Entry[n].hasDeps THEN Entry[n].deps ELSE << >>

(* get_dependencies: the dependencies of each dependency, then itself,     *)
(* duplicates kept.                                                        *)
DependenciesBy(get, list) ==
  FoldLeft(LAMBDA acc, d : acc \o get[d] \o <<d>>, << >>, list)

GetDependencies[n \in Names] == DependenciesBy(GetDependencies, DepsOf(n))

(* get_dependencies looks every name up in extn_db and raises KeyError at  *)
(* the first one that is missing.                                          *)
Resolvable(n) == \A x \in ToSet(GetDependencies[n]) \cup {n} : x \in Extns

WithDeps(n) == Append(GetDependencies[n], n)

(* get_extns_to_install                                                    *)
GetExtnsToInstall(list) ==
  FoldLeft(LAMBDA acc, n : AppendAllNew(acc, WithDeps(n)), << >>, list)

(* get_configure_options: the driver compares the result only as a set.    *)
GetConfigureOptions(list) == UNION {Entry[n].opts : n \in ToSet(list)}

(* shared_preload_libraries, as modify_postgresql_conf builds it: the key  *)
(* "no_preload" is tested for presence, its value is never read.           *)
PreloadLibs(list) == Selected(list, {n \in Extns : Entry[n].noPreload = "absent"})

-----------------------------------------------------------------------------
(* A name that CREATE EXTENSION is issued for.                             *)
Creatable(n) == Entry[n].noCreate = "absent"
CreatableExtns == {n \in Extns : Creatable(n)}

(* Mutant: the compatible extension before its dependencies.               *)
LoadExtnStrFirst(test, compat) ==
  Selected(<<compat>> \o GetDependencies[compat],
           CreatableExtns \ ({test} \cup ToSet(Entry[test].loads)))

(* load_extn_str: the --load-extension options pg_regress gets for the     *)
(* compatible extension; the extension under test is left to its own suite.*)
LoadExtnStr(test, compat) ==
  Selected(WithDeps(compat),
           CreatableExtns \ ({test} \cup ToSet(Entry[test].loads)))

(* Everything pg_regress loads, in command-line order.                     *)
RegressLoads(test, compat) ==
  Entry[test].loads \o (IF compat = test THEN << >> ELSE LoadExtnStr(test, compat))

(* custom_script_test: what it creates in template1 first.                 *)
CustomLoads(test, compat) ==
  Selected(WithDeps(compat), CreatableExtns \ ToSet(WithDeps(test)))

(* pgbench_test: what it creates in the pgbench_test database.             *)
PgbenchLoads(test, compat) ==
  Selected(GetExtnsToInstall(<<test, compat>>), CreatableExtns)

(* pairwise_mode: every ordered pair of different names of the list.       *)
PairsWith(pairs, first, list) ==
  FoldLeft(LAMBDA acc, second : IF first = second THEN acc ELSE Append(acc, <<first, second>>),
           pairs, list)

OrderedPairs(list) ==
  FoldLeft(LAMBDA acc, first : PairsWith(acc, first, list), << >>, list)

-----------------------------------------------------------------------------
(* The dependency relation has no cycle: get_dependencies would otherwise  *)
(* never return.                                                           *)
AcyclicDeps ==
  \A S \in SUBSET Names \ {{}} : \E n \in S : ToSet(DepsOf(n)) \cap S = {}

ProperDatabase == AcyclicDeps /\ \A n \in Names : DepsOf(n) \in Seq(Names)

ASSUME ExtnsAssumption == IsFiniteSet(Names) /\ Extns \subseteq Names

-----------------------------------------------------------------------------
(* What the orders are for.  The smallest set that has the names of a list *)
(* and every dependency of a member,                                       *)
Needed(list) ==
  LET closed == {S \in SUBSET Names : /\ ToSet(list) \subseteq S
                                      /\ \A n \in S : ToSet(DepsOf(n)) \subseteq S}
  IN  {n \in Names : \A S \in closed : n \in S}

(* and an order in which every name comes after what it depends on, as far *)
(* as that is among Counted.                                               *)
DependenciesFirst(list, Counted) ==
  \A i \in DOMAIN list : \A d \in ToSet(DepsOf(list[i])) \cap Counted :
    \E j \in 1 .. i - 1 : list[j] = d

(* What is downloaded, built and preloaded for a list of names is what they*)
(* need, directly or not, each once and after what it depends on.          *)
InstallsInOrder(list) ==
  LET installed == GetExtnsToInstall(list) IN
  /\ ToSet(installed) = Needed(list)
  /\ IsInjective(installed)
  /\ DependenciesFirst(installed, Names)

(* The benchmark of a pair creates every extension that can be created of  *)
(* what the pair needs, none before one it depends on.                     *)
BenchesInOrder(test, compat) ==
  LET bench == PgbenchLoads(test, compat) IN
  /\ ToSet(bench) = Needed(<<test, compat>>) \cap CreatableExtns
  /\ DependenciesFirst(bench, CreatableExtns)

(* pg_regress gets the closure of the other extension without the extension*)
(* under test, after what the suite itself asks for.  So its loads are in  *)
(* an order that works unless something among them depends on the extension*)
(* under test; then they never are.                                        *)
RegressInOrder(test, compat) ==
  LET loads == Entry[test].loads
      dependants == {n \in ToSet(LoadExtnStr(test, compat)) : test \in ToSet(DepsOf(n))}
  IN
  DependenciesFirst(loads, CreatableExtns) =>
    (DependenciesFirst(RegressLoads(test, compat), CreatableExtns)
       <=> (test \notin CreatableExtns \/ test \in ToSet(loads) \/ dependants = {}))
=============================================================================

# A verification project for pgext-analyzer

pgext-analyzer measures how PostgreSQL 15 extensions live together. Its largest
program, `compatibility_analysis.py`, builds PostgreSQL and pairs of extensions
from source again and again, runs their test suites and a benchmark, and writes
tables of verdicts that are evaluated for a publication. Nothing checks those
tables: a verdict that comes from the wrong server, the wrong build or the wrong
row looks like any other. `source_code_analysis.py` counts what extensions copy from
PostgreSQL and from each other, and the repository keeps some 40,000 lines of C that
they copied as input of the semgrep analysis
(`semgrep_analysis_input/sca_analysis_fns`). This directory holds TLA+ models of the
code, the runs of TLC that check them on small instances, and proofs checked by TLAPS.

Paths are relative to the repository; `C:n` is line n of
`compatibility_analysis.py`, `SA:n` of `source_code_analysis.py`, and `rum:n`,
`bulkload:n`, `ivm:n`, `hint:n`, `citus:n`, `tsvector2:n`, `tle:n`, `orafce:n` of `rum_fn.cpp`, `pg_bulkload_fn.cpp`,
`pg_ivm_fn.cpp`, `pg_hint_plan_fn.cpp`, `citus_fn.cpp`, `tsvector2_fn.cpp`, `pg_tle_fn.cpp`, `orafce_fn.cpp` in `semgrep_analysis_input/sca_analysis_fns`.

## 1. Inventory

### The parts of the system

| Part | State it keeps | Operations | Correct when |
|---|---|---|---|
| Extension database (`extn_info/*.json`, C:24-31, 62-68, 117-125, 172-182) | `extn_db`, read once | dependency closure, install list, configure options, preload list, load lists | each list holds what is needed, once, dependencies first |
| Host helpers (C:70-262) | `pg-15-dist`, PostgreSQL's source tree with its last configuration, `pgextworkdir`, `pg-15-data`, the server on the port | install, reinstall, download, make, initdb, configure, start, stop, cleanup | a pair sees the host it was prepared, no other |
| Test runners (C:264-545) | the databases of the cluster, the output directory | `pg_regress_test`, `custom_script_test`, `pgbench_test`, `compatibility_test`, `single_test` | a verdict tells what the tests found |
| Pair modes (C:547-689) | `extn_compat_list`, the output directories, the report file, `current_configure_options` | validation, the loop, deletion of working pairs, the table | one verdict for each pair, in step; a report is complete |
| Single mode (C:691-745) | the rows of `single.csv` | the loop with its rows for what cannot be run | the n-th row is about the n-th line |
| Campaign tools (`util/list_to_pairs.py`, `util/parallel_csv.py`) | list files, reports of workers, the merged table | split, merge | no pair lost, no verdict moved |
| Copy analysis (`source_code_analysis.py` 94-294) | interval lists by file, shared between three mappings | parse CPD's report, merge intervals, count | each copied line counted once |
| Version analysis (`source_code_analysis.py` 296-369) | a stack of conditional blocks, the tmp directory | find code that depends on the PostgreSQL version, run CPD on it | blocks found and counted exactly |
| Analysis drivers (`source_code_analysis.py`, `extension_info.py`, `function_info.py` main routines) | downloaded sources, CSV files, terminal files | set up, loop, clean up | a row for each extension |
| Extension information (`extension_info.py`) | a map of features, one flag between lines | scans of C and SQL files | the features an extension has |
| Function information (`function_info.py`) | a scanner over SQL files that looks for a function's language lines after its head | one pass for each file | each function counted once, under its language |
| Semgrep analysis (`function_analysis.py`) | one temporary result file | run, retry after a crash, read | results are those of this file |
| Tuple sort (rum:1-4700) | the tuple array or heap, input and output tapes, a memory budget, a slab arena, the state of abbreviation, a cursor | begin, set bound, put, perform sort, fetch forward and back, skip, mark, restore, rescan, reset | every tuple comes back once, in order, within the memory |
| B-tree bulk load (bulkload:1-1366) | two spools, a page for each level, the file | scan, the three ways to load, close the levels, write the metapage | a finished index finds every tuple; an unfinished one is not valid |
| Parallel index build (bulkload:1367-1936, rum:4440-4655) | shared counters and flags, one tape for each participant and sort | attach, scan, sort, record, signal; launch, wait, take over, end | no tape taken early, nothing lost, nobody waits for ever |
| Names of printed queries (ivm:1210-2016, 5590-5960) | names of relations, columns and USING columns of one query | choose names in several passes, print | the printed query reads back as the stored one |
| Texts of printed queries (citus:454-648, 1574-6175, ivm:146-753, 3604-3792, 5115-6231) | the text so far; a context of namespaces, flags and windows; of a plan, the node that has the attention, with its ancestors | one function for each clause and node type; push and pop of the attention | the text, parsed again, is the stored query; a plan's expression is shown as what it means |
| Join search (hint:1-1426) | the joinrels of each level with their paths, dummy marks and partitions | level by level: pairs, legality, paths, child joins, the last-ditch effort | a plan is found, and every path gives the rows of the query |
| Lists (bulkload:3495-4285, `pg_pathman_fn.cpp`) | a header with its first cells behind it, later an array of its own | make, insert, append, delete, concatenate, copy, set operations | each call does to the sequence what it says, and to no other list |
| Text search data (`tsvector2_fn.cpp`) | words with positions; a tree and a stack between calls; a query and the positions of its operands | sum up a document, walk the statistics, estimate and inspect a query | each lexeme once, with its first positions and highest weights; the walk complete and in order |
| Extension catalog (`pg_tle_fn.cpp`) | the row of an extension with two parallel arrays | update by scripts, mark and unmark configuration tables, remove, list versions | the row says what was asked for; a version is reached by existing scripts |
| Regular expression cache (orafce:759-1031) | an array of compiled expressions, the last used one in front | look up, compile, discard; read options and replacement texts | the array has what was used last, and no more is allocated |
| Scanner buffers (orafce:3-757) | buffers, a stack of them, the globals of the current one with a character that was overwritten | create, switch, push, pop, flush, restart, fill, grow, read a character | no character lost or repeated, whatever buffer is scanned |
| The other C functions of the semgrep input | - | catalogue lookups, list and command helpers | - |
| Small utilities (`util/*.py`, the others) | none beyond a pass over a file | counting, printing | - |
| Extension scripts (`extn_scripts/`, `extn_test_scripts/`), lists, results | outside files | run by the driver | - |

### How the parts interact

There is one Python process per host. It talks to the rest only through the
shell: `subprocess.run` blocks until a command returns, and the exit status of
nearly all of them (configure, make, initdb, pg_ctl, psql, createdb, dropdb) is
ignored. The state that matters is therefore on the host, is shared with the
server process, and outlives the driver. `sys.exit` and exceptions leave the loop
in the middle of a pair and skip `stop_postgres`, `cleanup` and `final_cleanup`;
the user then starts the program again in the same directory, with or without
`cleanup.sh`. Workers of a parallel campaign share nothing until their reports
are put in one directory and merged.

The C functions never run in this repository: they are a corpus. They are modelled for
what they are, pieces of PostgreSQL with shared memory, failing processes and delicate
arithmetic; what they call outside of the corpus is external. The sort is used by the
B-tree build (whose model takes its result as sorted) and by the parallel build, which
has one sort in each participant and one that takes their tapes over.

### Behaviours that are hard

* A run on the host of a run that died: server still up, cluster and libraries
  still there, the port taken, or a cluster removed under its server.
* Commands that fail silently, after which the driver goes on.
* A cached description (`current_configure_options`) of an installation that may
  not be there, or have more than it says; a source tree that a failed configure leaves
  with the configuration of an earlier pair or run.
* Verdicts, pairs, rows and directories related only by position.
* Reports held in memory until the end, buffered files, kills at any point.
* Orders computed by merging dependency closures, different in every test.
* Aliased interval cells in the copy analysis; code of one extension left in `tmp`
  when the analysis of the next one starts.
* A sort that changes its method in the middle (heap, tapes, abbreviation given up),
  and answers from memory, from tape and from a merge like one cursor.
* Pages that fill up in the middle of equal keys.
* Workers that are not launched, fail, or die before they attach, under a leader that
  waits for them.
* Queries printed after the tables they mention were altered.
* Parentheses, casts, aliases and qualifications that are left out of a printed query
  wherever they are not needed.
* Expressions of a plan that stand for expressions of other nodes, printed by moving one
  shared namespace there and back.
* Join orders that outer joins and semijoins forbid, and heuristics that put joins off:
  too strict a rule leaves no plan, too lax a one changes the answer.
* A relation that turns out empty after others were built on it.
* One key compared in five ways, which all have to mean the same order.
* Lists passed twice to one call, or moved by it.
* Positions, arrays and counts that end at a limit.

`PROJECT.json` lists each of these under `hazards`, at its line.

## 2. The plan

1. `ExtnDB`, `PgHost`: what every mode stands on. *(done)*
2. `PairLoop`, with `CompatCampaign` as its abstraction; runs, then proofs. *(done)*
3. `SingleMode` on the same host. *(done)*
4. `ParallelCampaign`: from verdicts to tables. *(done)*
5. `CopiedIntervals`: the aliased interval cells. *(done)*
6. `VersionAnalysis` and `SourceAnalysis`, on `CopiedIntervals`: the whole source
   analysis. *(done)*
7. `Tuplesort` with `SortedCursor` as its abstraction. *(done)*
8. `BtreeLoad`; `ParallelBuild` with proofs. *(done)*
9. `DeparseNames`. *(done)*
10. `JoinPaths`, `JoinSearch`. *(done)*
11. `DeparseQuery`, read back by `QueryReader`; `PlanReferences`. *(done)*
12. `SortVariants`: the kinds of sort and their comparisons. *(done)*
13. `PgList`; `TextVector`, `TextStat`, `TextQuery`; `ExtensionCatalog`; `RegexCache`,
    `ScanBuffer`. *(done)*
14. The effective `custom_config` of a pair (last line of a parameter wins).
15. Proofs: `PairLoop` with its refinement, `SingleMode`, `ParallelBuild`, the orders of
    `ExtnDB`, the tables, list files and merge of `ParallelCampaign`, the files of
    `SourceAnalysis`; the memory of `Tuplesort`. *(done)*
16. More proofs: the refinement of `SortedCursor` by `Tuplesort`; the
    total of `CopiedIntervals`; `NamesUnambiguous` of `DeparseNames`.

Modules to be proved about use recursive functions and folds, no RECURSIVE
operator; a fold over a sequence is `FoldLeft` with a named operator or a LAMBDA, about
which `Folding` has the inductions.

## 3. The modules

| Module | Models | Extends |
|---|---|---|
| `ExtnDB` | `extn_db` and what is computed from it | - |
| `PgHost` | the host and the helpers that change it | `ExtnDB` |
| `PairLoop` | `pairwise_mode`, `pairwise_parallel_mode` | `PgHost` |
| `SingleMode` | `single_mode` | `PgHost` |
| `CompatCampaign` | what a campaign promises, abstractly | - |
| `ParallelCampaign` | the pairwise table, list files, several workers, the merge | `ExtnDB` |
| `CopiedIntervals` | `run_cpd_analysis` for one file | - |
| `VersionAnalysis` | `run_version_analysis`, its `tmp` directory | - |
| `SourceAnalysis` | the main program and `run_sca_analysis` | `CopiedIntervals`, `VersionAnalysis` |
| `SortedCursor` | what a tuplesort promises, abstractly | - |
| `Tuplesort` | `tuplesort.c` as rum has it | - |
| `BtreeLoad` | `nbtsort.c` as pg_bulkload has it: one process's load | - |
| `ParallelBuild` | the same file's parallel build, with the sort's shared part | - |
| `DeparseNames` | the names `ruleutils.c` chooses, as pg_ivm has it | - |
| `DeparseQuery` | the texts `ruleutils.c` prints, as citus and pg_ivm have it | - |
| `QueryReader` | what PostgreSQL's grammar makes of such a text: the reference the texts are compared with | `DeparseQuery` |
| `PlanReferences` | how an expression of a plan is printed, as citus and pg_ivm have it | - |
| `JoinPaths` | what the join search is given, the paths of a join relation, with partitionwise joins | - |
| `JoinSearch` | the join order search as pg_hint_plan has it | `JoinPaths` |
| `SortVariants` | what a tuplesort compares: the kinds of sort, abbreviations, statistics | - |
| `PgList` | `list.c` as pg_bulkload has it | - |
| `TextVector` | a document's lexemes and positions, as tsvector2 has it | - |
| `TextStat` | the walk of `ts_stat` | - |
| `TextQuery` | what is asked of a text query before and while it is matched | - |
| `ExtensionCatalog` | `pg_extension` as pg_tle keeps it | - |
| `RegexCache` | compiled regular expressions, as orafce keeps them | - |
| `ScanBuffer` | the buffers of a scanner, as orafce has them | - |
| `SampleDB` | an extension of each kind, for TLC | - |
| `SampleQueries` | queries and tables for `JoinSearch`, for TLC | `JoinPaths` |
| `SampleTexts` | queries to print, for TLC | `QueryReader` |
| `MCQueries` | what is done with a query: `DeparseNames`, `SampleTexts`, `JoinSearch` or, with the sample plans, `PlanReferences` | `DeparseNames` |
| `MCServerData` | `BtreeLoad`, `SortVariants`, `PgList`, `TextVector`, `TextStat`, `TextQuery`, `ExtensionCatalog`, `RegexCache`, `ScanBuffer`, one at a time | `BtreeLoad` |
| `MCLists` | what follows a list of extensions: `SingleMode`, `ParallelCampaign`, `SourceAnalysis` or the orders of `MCInstallOrder`, one at a time | `SingleMode`, `ParallelCampaign`, `SourceAnalysis`, `SampleDB` |
| `MCSorts` | `Tuplesort` or `ParallelBuild` | `Tuplesort`, `ParallelBuild` |
| `MCInstallOrder` | the orders of `ExtnDB` over every small database | - |
| `MCPairLoop` | pairwise mode on three extensions, and a worker of parallel mode on a list that fails | `PairLoop`, `SampleDB` |
| `Folding` | induction for proofs about `FoldLeft` | `TLAPS` |
| `HostProofs` | theorems about the orders; what each helper does to the host | `PgHost`, `Folding` |
| `PairLoopProofs` | theorems about `PairLoop` | `PairLoop`, `HostProofs` |
| `SingleModeProofs` | theorems about `SingleMode` | `SingleMode`, `HostProofs` |
| `CampaignProofs` | theorems about `ParallelCampaign` | `ParallelCampaign`, `HostProofs` |
| `SourceAnalysisProofs` | theorems about `SourceAnalysis` | `SourceAnalysis`, `Folding` |
| `ParallelBuildProofs` | theorems about `ParallelBuild` | `ParallelBuild`, `TLAPS` |
| `TuplesortProofs` | theorems about `Tuplesort` | `Tuplesort`, `Folding` |

### ExtnDB

`Entry` is `extn_db`: a record per extension with the keys the driver reads. A
JSON flag that the code only tests with `in` has the values "absent", "true" and
"false", because `"no_preload": false` counts as set. `GetDependencies` is
`get_dependencies` (a recursive function over the acyclic relation, duplicates
kept); `GetExtnsToInstall`, `GetConfigureOptions` and `PreloadLibs` are the
functions of C:117-125, 172-182 and 223-235. `RegressLoads`, `CustomLoads` and
`PgbenchLoads` are the three lists of `CREATE EXTENSION`, which the code computes
in three different ways.

### PgHost

| Variable | Stands for |
|---|---|
| `dist` | `pg-15-dist`: was it built, with which options, which extension libraries were installed into it |
| `tree` | `postgresql-15...`: is it there, has a configure worked in it, with which options the last one did |
| `workdir` | the folders in `pgextworkdir` |
| `data` | `pg-15-data`: is it there, what was appended to its `postgresql.conf`, the extensions in `template1` and in `pgbench_test` |
| `server` | the postmaster on the port: is it up, with which configuration, is its cluster gone |

Each helper is an operator with the name of the function. A command whose status
is not read may always have no effect. A helper raises only where Python does: a
missing `cwd`, a missing `postgresql.conf`, an unknown `download_method`. A configure that
fails leaves `tree` as it was, and the makes after it build and install what it was configured for
before (C:166-169), by an earlier pair or, as unpacking over a tree removes nothing, by an earlier run. `rm -rf` is taken
to succeed wherever it is used (C:190, 204-212, 614, `cleanup.sh`): it is run on files of the user's own. The
build directories of extensions have no state but that they are there. External are: when a server can come up, when `CREATE EXTENSION`
works, the exit codes of `pg_regress`, that a server may die.

Data left out: ports, user names, file contents, messages, terminal files and
the `custom_config` lines (they follow the install list and change no control
flow). The before and after scripts and `post_install` commands are commands
without an effect on the modelled state; a before-script that fails is one of the
other exit codes of the `pg_regress` command line, with which it is joined by
`&&`.

### PairLoop

One action for each step of the loop between two commands, in the code's order:

| `pc` | Code | Actions |
|---|---|---|
| idle | the user starts the program | `Begin` (with `pairwise_validation_helper`) |
| setup, install | `initial_setup`, `install_postgres([])` | `InitialSetup`, `InstallFirst` |
| pair | `get_extns_to_install`, reinstall or removal | `PreparePair`, `PrepareRaises`, `LoopEnds` |
| fetch | `download_install_extn` for each of the list, `init_db` | `FetchNext`, `FetchRaises`, `RunInitDb` |
| conf, start | `modify_postgresql_conf`, `start_postgres` | `RunModifyConf`, `ModifyConfRaises`, `RunStart` |
| test1, test2 | `pg_regress_test`, `custom_script_test` | `RegressTest`, `RegressExits`, `CustomTest`, `CustomExits`, `SuiteMissing`, `NoTest` |
| load1..bench2 | `pgbench_test`, both directions | `BenchLoad`, `BenchRun` |
| stop, cleanup | `stop_postgres`, `cleanup` | `RunStop`, `RunCleanup` |
| delete, final | `delete_working_pairs`, `final_cleanup` | `DeleteWorkingPairs`, `RunFinalCleanup` |
| open, write | the report | `OpenReport`, `WriteReport` |

`Environment` adds a kill at any point, the death of the server, `cleanup.sh`
between runs, and the next run. `Begin` empties the program's state; the host and
the report stay. The pure part of the pair (what to install, options) is computed
from `idx`, as the code recomputes it in each turn. `fresh` is the only history
variable: whether this run began on a clean host. Properties about the cluster
are stated for the runs that began clean and for every pair after the first of
any run (`OwnCluster`), since the first pair of a run that is started over the
remains of a killed one really is tested against them.

A test is one step because no other process looks at its intermediate states;
the benchmark is two because the server may die between loading and running.

### SingleMode

The same host, with the code's own order and its differences: dependencies are
those the entry lists, not the closure; the loop over the extensions to install
assigns `extn`, the variable the row is named by; rows are written as they come
into a buffer. The buffer reaches the file when the interpreter ends, in part or
not at all when it is killed.

### ParallelCampaign

A campaign is either one process in pairwise mode or a number of workers. Modelled
are the walk of one index over the verdicts (C:652-668) against the nested loop that
made the pairs (C:639-646); the split by configure options; the merge with its
assertion, after which the table has the rows written so far. A worker publishes
all its pairs or none, which is what `CompatCampaign` promises and `PairLoop` is
proved to keep. Files are merged in any order, as `os.listdir` gives none.

The loops are folds, each over an operator of its own (`PairsWith`, `PairwiseRow`, `AddRow`,
`AddReport`), as they nest in the code; in the merge a later row of a
pair replaces an earlier one, as in `results_db`. `TableOfVerdicts` and `MergeOfVerdicts` are what the
properties compare the tables with. The merged table has a row for each *second* extension, pairwise mode's for each first
one: `MergeKeepsVerdicts` is about the cells where the code puts them, and `LooksLikePairwise` is what the
script says of itself, which fails (section 4).

### CopiedIntervals

A Python list of `[start, end]` lists holds references. `heap` is those cells,
the three mappings are sequences of references into it, and a merge writes into
the heap. `process_err` sorts start lines as text, so the order of two places is
free.

### VersionAnalysis, SourceAnalysis

A source file is a sequence of lines that open a conditional on the version, open
another conditional, close one, or are code. `ScanLine` is the stack of SA:313-324 as
the code has it: `# endif` with a space is not seen although `# if` is,
`#elif PG_VERSION_NUM` opens nothing, an interval left open at the end is dropped.
`tmp` maps each copied name to the owner and number of its file, which is what makes it visible
that the comparison of one extension could read another's code. `SourceAnalysis`
runs the two analyses as sub-machines (`CpdReset`, `VersionReset` are the calls), with
`process_err` raising, CSV rows in a buffer until the files are closed or the
interpreter ends, and kills.

What the model shows besides: the number written as `versioning_loc` is the number of
versioned lines less one for each separate stretch of them, since the ends are
inclusive; and `vc_loc` is always 0, because `process_err` keeps only paths in the
extension's folder while the copies that are compared lie in `tmp`. The comment at
SA:366 says that `tmp` is cleaned "at the end", which the early returns (SA:343 and
356) and exceptions skip; the first part of `FilesAgree` shows that this does no harm to the rows.

### Tuplesort, SortedCursor

| Variable | Stands for |
|---|---|
| `call` | what the caller asked for: role, memory, random access, bound, uniqueness, abbreviation |
| `mem` | `memtuples`, its size, the memory left, what is charged for tuples and tapes |
| `tapes` | the input and output tapes as sequences of runs, the destination tape |
| `keys` | whether abbreviation is in use, bound and bound used |
| `slab` | the arena of the merge |
| `cursor` | `current`, `eof_reached`, the mark |
| `status`, `pc` | `TSS_...` and the position in `mergeruns` |

`PutInMemory`, `PutMakesBoundedHeap`, `PutSpills`, `PutInBoundedHeap` and `PutInRun` are
the branches of `puttuple_common`; the heap operations are modelled exactly, as the
bounded heap and the merge depend on the positions. Tapes are read at run level while
merging and by word when the result is fetched, because backward fetches find their
way by the length words. A tuple is its key and whether it is abbreviated. Sizes are
parameters (`SlotMem`, `TupleMem`, `TapeOverhead`). Statistics, by-value
datums and the comparators of the six kinds of sort are in `SortVariants`. Left out is
skipping on tape, which is a loop of fetches. rum:104 says of `availMem` that it is the "remaining memory
available"; yet when `make_bounded_heap` (rum:3337-3381) replaces the top of the heap,
the tuple that drops out is not freed, as it is at rum:1900, so that its memory stays
charged until the sort ends. The model does the same (`HeapOf`), and `MemoryKept` is
about the states in which there is no bounded heap.

### SortVariants

A tuple in memory is its row and `datum1`, which is the leading key, a reference to it, or
its abbreviation; a written tuple has no abbreviation and gets the key back when it is read.
`Comparetup...` are the comparators of the kinds of sort, `QsortTupleFast` the three
specialised ones, and `how` says which is used (`tuplesort_begin_xxx` sets it,
`consider_abort_common`, `tuplesort_set_bound` and the merge change it). Moving between memory and tapes,
which `Tuplesort` has in full, is cut down to dumping the memory and merging two runs. A
Datum is a word of `Bits` bits, an int32 of half of them in two's complement. The hash buckets
and the comparators of types are external. The state of a finished sort is compared with the
reference order `AskedOrder`, computed from the rows and the caller's arguments only.

### BtreeLoad

The heap is a sequence of keys with a flag for dead tuples; `Spool` sorts (external,
checked in `Tuplesort`). `LoadMerging`, `LoadDeduplicating` and `LoadPlain` are one
turn of the three loops of `_bt_load`. `BuildAdd` is `_bt_buildadd`, recursive to the
levels above; a page has items with sizes, a low key, links and a high key. Page and
key sizes are parameters small enough that trees get four levels. WAL, the final
`smgrimmedsync` (bulkload:1340-1350) and the progress reports are left out. The comment
about line 800 says that a page is left with "at least two items plus a high key"; with
a low fill factor one data item and the high key are enough for the code, and the model
has such pages: searches find every tuple in them too.

### ParallelBuild

`Attach` to `Signal` are the participants' steps between two uses of shared memory, with
the spinlocks making each one atomic; `BeginSort`, `PerformSort` and `TakeOver` are the
shared parts of `tuplesort.c`. A worker may not be launched, may fail with an error,
or die before it attaches. `WaitForAttach` is left by the leader when it has learnt of each
launched worker; `CheckDone` and `Wake` are the two halves of the wait on the
condition variable, between which a worker may signal.

### PgList

Memory is explicit: `mem.lists` are headers, `mem.cells` arrays by address, where `Initial(l)` is
the array behind the header and `Own(l)` one that `enlarge_list` allocated. Cells past the end
and freed or left arrays hold `Undefined`, so a copy from a wrong place shows. The four copies of most functions
(pointers by `equal` or by address, integers, OIDs) are one operator with `kind`. The caller may do
anything that the types allow, with one list in both arguments too; it keeps what a
changing call returns in the variable it passed, as the callers must.

### TextVector, TextStat, TextQuery

`TextVector` sums up the words of a document (`uniqueWORD`) and the written form of a vector
(`uniquePos`); `qsort` leaves equal positions in any order, so the result of the latter is
a set, which has one element below the limits. `apos` holds the positions without the
count that the code keeps in its first cell; `alen` is the size with it. `TextStat` starts with any search tree
(the insertion is not in the corpus) and walks it over the calls of `ts_process_call`. `TextQuery`
has every query in prefix notation up to a depth: what it requires, its operands, its
selectivity as exact fractions, and the positions of its operands in a document read in either
direction. Operands are ordered letter by letter, as `compareQueryOperand` has it; the most common lexemes
of the statistics are ordered by length first (`Before`, tsvector2:232-258), and the binary search among them is the
library's. A query whose operand occurs in the document more often than there is room for positions
(`MAXQROPOS`) keeps the first. That a prefix is not estimated to match less than the word itself (tsvector2:144-147) holds
with `Enough` lexemes in the statistics or with none. With fewer, it fails: the prefix gets four times the default
(tsvector2:117-118), an exact lexeme its own frequency (170), which may be more. One of the six samples of statistics is such a
one; `PrefixNotRarer` leaves it out (`FewLexemes`). The ranking formula and the parser are external.

### ExtensionCatalog

`row` is the tuple of `pg_extension` with `config` and `condition` as parallel sequences.
`ApplyExtensionUpdates` takes one version of the chain at a time; `script` is the script
that runs, in which `CreateTable` and `ConfigDump` may happen any number of times. CREATE, ALTER
and DROP EXTENSION and the search for a path are external, as pg_tle's versions of them are not in the corpus; the
search is Dijkstra's algorithm around `get_nearest_unprocessed_vertex`, which is. `before` restores
everything when a command fails.

A version is entered in the row before what it requires is looked for, as in the code, so that a
prerequisite that is missing fails with the row changed; the transaction is rolled back by `End`. The
versions are in the order of the directory (`list`): of two versions at the same distance the first one is taken, and
what `get_available_versions_for_extension` returns is in that order too.

### RegexCache

`re_array` is the array with the place of each compiled expression, `res` and `patterns` what is allocated,
so that freeing too little or too much shows. A miss has every outcome: the expression does not compile or the
compilation is cancelled, there is no memory for the pattern, or it is entered. `recent`, the keys in the order of
their last use, is what the cache is compared with; a caller has an expression until its next call (`re`),
which is enough since each function executes what it was given before it asks for another.
`parse_re_flags` and `check_replace_text_has_escape` are folds over the letters. `REG_ADVANCED` has the bit of
`REG_EXTENDED` (the header is external), so the option `e`, whose comment at orafce:909 says "plain EREs", sets that bit
and clears it again: it leaves the same flags as `b`, whose comment says "BREs". `OptionsRead` is about the other options, and
`PlainExpressions` states the comment, which fails (section 4).

### ScanBuffer

`scanner` has the globals and the buffers, with every character of a buffer in its array. `Lex`, `Match` and `Token`
stand for the part of `yylex` that every flex scanner has; the rules are not in the corpus, and a token is a run of
equal characters. Between tokens anything may be done that a scanner's user may do: `input()` only in a token's action, nothing
more of a string after its end, one buffer for a file, a buffer once in the stack, none deleted below
the top, no restart of a buffer without room (which would be grown for ever, orafce:683-689). `yymore` is not used,
and `yywrap` says that there is no more input. `due` is what a buffer still has to return, taken from its
source when it is made; `NothingLost` compares it with what is in the arrays and the file. orafce:550 says "Pop the
buffer stack, destroying each element", but only the current one is destroyed: it is set to null before it is popped, and
popping does nothing then. `yylex_destroy` is modelled so; the others stay allocated.

### DeparseNames

The stored query holds numbers: `rt` of tables and joins with the columns as they were
when it was parsed. `RenameTable`, `RenameColumn`, `AddColumn` and `DropColumn` change
the tables behind its back. Printing is three actions, `NameRelations`, `NameUsing` and
`NameColumns`; in the properties `ReadBack` parses the printed FROM clause again with
the external parser (`Parse`, SQL's rules for aliases, USING and merged columns). Names
are a base and a number, without the truncation to NAMEDATALEN; numbers are bounded by
9, which no run reaches.

### DeparseQuery, QueryReader

`DeparseQuery` goes on where `DeparseNames` ends: it has the names and prints the query.
A query is a tree of records, a text a sequence of tokens without white space, and each function that
appends to the buffer an operator that returns what it appends. Namespaces, `varprefix`, the windows and
the flags of the context are the record `c`; `special_exprkind` is its field `group`. The functions
the corpus lacks (`get_rule_expr` itself, `get_variable`, `isSimpleNode`, `get_from_clause_item`,
`get_query_def`) are external and cut down to the node types whose own functions are there.

`QueryReader` is no model of code. It is the part of PostgreSQL's grammar these texts are written in,
with its precedences, and of the parser's analysis: an unqualified name is looked up in the
FROM items, ORDER BY looks at output names first, a bare number is a column, a name after
WITH hides the table. `Means` is the same structure computed from the stored query, with
implicit casts gone and `-1` the same whether it was a constant or a minus; `TextReadsBack`
compares the two. What the comparison shows depends on the queries that are printed
(`SampleTexts`), so each of them combines what may interfere: operators of equal and different
precedence on both sides, negative constants under a minus and a cast, quoted names, set
operations in each other with and without ALL, constants and `cube(...)` in GROUP BY and ORDER BY,
windows that copy others, a WITH query named like a table, correlated sublinks, and rows
of columns assigned at once. `CREATE VIEW`'s column names may agree with the query's or not, which decides
whether a VALUES list is printed bare.

Not among the queries: ORDER BY of an unqualified column that an output alias hides, in a
query of one table; FETCH FIRST with an expression; correlated references in the branches of set operations;
constants with a type modifier. The first two would not read back. What is printed of `SELECT b AS a FROM t ORDER BY t.a` ends
with `ORDER BY a`, which is the output column; and with prettyPrint `FETCH FIRST a + b ROWS WITH TIES` has no parentheses where the
grammar asks for them (ivm:344-347). So `TextReadsBack` is a property of the queries printed, not of all. Left out of the model are RETURN,
functions with SQL syntax, named arguments and the wrapping of lines.

### PlanReferences

In a plan a Var may name a column of an input (`OUTER`, `INNER`) or of what a scan gives
(`INDEX`), and a parameter stands for an expression of a node above. Each is printed as the
expression it comes from, which may be such a Var or parameter itself. The functions do this by
changing `dpns`, the namespace on top of the stack, in place: `SetDeparsePlan` turns the attention to a
node, `PushChildPlan` and `PushAncestorPlan` move it, the pops put it back. The operators return
a text together with `dpns` as they leave it, so that what one expression leaves behind is
what the next one begins with.

| Variable | Stands for |
|---|---|
| `plan`, `at` | the plan that is explained and the node that is shown |
| `dpns` | the topmost `deparse_namespace`: the attended node, its ancestors, the inputs and their target lists |
| `shown` | the texts of the node's expressions so far |

EXPLAIN is the caller (`ContextPlan`, `ShowExpr`, `ExplainNode`), external like `get_rule_expr`,
`get_variable` and `get_name_for_var_field`, of which the plans need a few node types.
`ReferencesRead` compares each text with `Meaning`, which follows the plan itself: what the executor
finds in a column, and what is assigned to a parameter, wherever that is. Between two expressions `dpns` has to
be what it was.

The sample plans have chains of aggregates split for parallel workers; nested loops in nested loops, whose
parameters are passed on; tables whose partitions are printed under the parent's name; index-only
and foreign scans; a recursive and a plain common table expression; records whose fields are
found through scans; subplans in subplans with arguments that are parameters; an upsert; and the
parameters of function bodies with names that columns have too. Only SELECT lists and quals are shown,
a group of the kinds of node (joins, scans, results, appends) stands for all that are treated alike.

### JoinPaths, JoinSearch

| Variable | Stands for |
|---|---|
| `query`, `tables` | the join tree and the rows of its tables |
| `root` | `join_info_list` and the `RestrictInfo` nodes, by the external `JoinInfoList` and `RestrictInfos` (`make_outerjoininfo`, `distribute_qual_to_rels`) |
| `rels` | `join_rel_list` and the base relations: the paths, the dummy mark, and what partitionwise joins know of partitions |
| `todo`, `levels`, `pairs` | the join problems still to do, `root->join_rel_level`, and the pairs that `join_search_one_level` has still to try |

A path is the set of rows it computes, so that two paths of one relation can be
compared with each other and with what the query means (`Answer`, which joins the tree as
it is written). Which path is the cheapest is left out; joins are built on every one, which covers any
choice. A step of `JoinSearch` is a call of `make_join_rel`: `JoinIsLegal` (hint:297-493),
the joinrel, `PopulateJoinrelWithPaths` with the marks it puts on its inputs, and
`TryPartitionwiseJoin`. `StartLevel` collects the pairs a level tries, in its order;
`ForceJoins` is the last-ditch effort; `FinishLevel` appends the children of partitioned
joinrels. Semijoin rows are compared without the columns of their right-hand side,
which a query cannot see, and with the number of times they occur.

The analyzed file calls into planner code that is not in the corpus. It is modelled as far as
the search depends on it: special joins and join clauses, unique-ification, the merge of
partition bounds, the base relations. Left out are LATERAL references (hint:495-598),
placeholders, equivalence classes, partitions that are themselves partitioned, the choice
of the cheapest path and gathering. `restriction_is_constant_false` and the dummy marks are kept.

Partitions are planned, pruned (no relation at all), or empty; an empty one may have been
found so before its expressions were set up or after. With the latter,
`get_matching_part_pairs` may look for a child join that was never built: `a LEFT JOIN (b LEFT
JOIN c)`, where the join of a and b has equal bounds and keeps a segment that the join of b and c
has merged away. The comment at hint:1124-1131 says "the child rel would have been built by the time
we get here". The model gives partitionwise joining up there, as a build without
assertions does, and the rows stay right. Whether the case can occur depends on
`partition_bounds_merge`, which is external, so the project makes no claim about the assertions.

### Mutants

Next to some definitions stands a second one whose comment begins with
"Mutant:". It is the definition with a mistake that could be made in the code; no
specification uses it. `PROJECT.json` pairs each checked property with a mutant
that violates it, which shows that the property depends on the code being as it
is.

## 4. The runs

The sample database has an extension for each path of the driver: contrib with a
configure option and a suite (`crypto`), a dependency and no suite (`jwt`), a
preloaded one whose suite has its own load list (`tle`), a script build with a
custom test and another option (`citus`), a dependency without an entry
(`check`), a suite with a missing file (`drift`) and an entry that lacks keys
(`raw`). They abridge the files of those names in `extn_info/`.

| Run | Question | Bounds |
|---|---|---|
| `PairwiseRestart` | Is a pair ever tested against another pair's or run's server, on a build without its options, or benchmarked with leftovers, when options change from pair to pair, a configure fails and a custom test fills `template1`; were the libraries of a compatible pair preloaded; is the output of broken pairs kept; does the driver implement `CompatCampaign`? | six pairs of crypto, jwt, citus, 2 runs; of the reports that a run finds, only the one that calls all pairs compatible |
| `ParallelFailing` | Is a worker's installation free of earlier libraries; under `-x`, can a failed suite be followed by a verdict; does every run end when a suite lacks files or a dependency has no entry? | 4 lines, one of them twice, 2 runs, fairness |
| `Lists` | Single mode: rows and their names, the file after a kill, the server's configuration. Orders: are the install order and the load orders right? Tables: are list files and tables right; does a merge keep every verdict, and is it complete exactly when all reported? Source analysis: are copied and versioned lines counted right, is a row made of its own extension's code, do the files agree however the program ends? | single mode: a list of five names (unknown, dependency missing, three that run) and one that ends with an entry that lacks keys; 2 runs, with and without `-x`. Orders: every acyclic relation on 4 names with up to two dependencies each, every pair. Tables: every list of 2 names out of four and of 3 out of three, repeated names included; every verdict; 4 worker runs: a report can be replaced. Source analysis: three extensions: two files of one name, one passed over, every file of up to 3 lines of the four kinds and of 4 lines that are not code; every report of up to 2 duplications with up to 2 places in 4 lines |
| `Sorts` | Does every sort answer as `SortedCursor` does; are tuples kept, the slab sufficient, memory respected? In a parallel build, are tapes numbered without gaps and finished when taken; is everything loaded; does the build end? | 14 calls with up to 7 tuples of 3 keys: memory for one tuple (six runs, three passes on two tapes), for a few, for all; bounds, uniqueness, abbreviation, up to 3 batches, workers, leaders with up to 4 tapes. Builds: a leader, 2 workers, 2 tuples with one key, unique or not, dead or not, up to 2 failures, fairness |
| `ServerData` | Does a finished index find every tuple on sound pages, and is an unfinished one not valid; do all comparisons of a sort agree; does each list call what it says; are vectors, the walk of the statistics, what is said of a query, the row of an extension, the cache of expressions and the buffers of a scanner right? | index: every table of up to 7, 6 and 6 tuples of three keys, every one of up to 5 with dead tuples, fill factors 2, 9 and 14 of 15 words; a key too large for a leaf. Sorts: 50 of six kinds over six rows, nulls and equal keys among them, with room for 1, 2 or 4 tuples, words of 4 bits, abbreviations judged after 2 tuples. Lists: two variables, up to 3 cells of three values, two of them equal, blocks of 2. Documents: 3 elements of up to 2 words, positions below 6, up to 5 of them, of which 4 fit. Every tree of 5 lexemes. Every query with up to two levels of operators, 6 samples of statistics, one with too few lexemes; 4 queries looked for in up to 3 entries. Four versions, 3 graphs of scripts, 2 tables. Three cached expressions, 12 keys; option strings of up to 3 letters, texts of up to 5. Two buffers of 2 characters, two files of up to 4, two strings |
| `QueryTrees` | Does a printed FROM clause read back after its tables were altered; does the whole text of a query; are the expressions of a plan shown as what they mean; is a plan found for every query, and does each path give its rows? | printing: two joined tables (or one twice) and a third, USING of up to 2 columns, plain and full joins, aliases, 2 alterations; 22 whole queries, each with prettyPrint on and off and three lists of view columns; 4 plans of 2 to 11 nodes, 3 function bodies. Planning: every query of 3 relations with the five join types and up to 2 quals of three kinds, with 6 choices of rows; those of 4 with inner, left and semijoins; one of 5 with two semijoins; a sub-problem of 3; 24 layouts of up to 3 partitions |

The violation run `CopiedLinesDoc` has every report of 2 duplications with up to 2
places in a file of 5 lines; `SublinkOperandDoc` prints one more query, `MergeSourceDoc` explains one more
plan. `PlainExpressionsDoc` and `HigherWeightDoc` are parts of `ServerData`, `TransposedDoc` of `Lists`, each with one more
property. The runs that check several systems at a time (`Lists`, `Sorts`, `ServerData`, `QueryTrees`) start in one of
them and stay there; the variables of the others do not move.

The suites and files of `drift` may be missing because it is cloned from whatever
its repository holds that day.

Two runs of the program are enough for a property of the host: `Begin` resets the
program, so a third run starts from a host the second one may start from as well.
The rows of a report that is there are read by nobody, so `PairwiseRestart` lets the second run find one
of all that a first run can write (`OldReportAllTrue`), besides none and a torn one.
As a pair is also listed reversed, two names give both directions; the three of
`PairwiseRestart` give options that change and come back, and pairs in a row with equal
options (the installation is kept). Four names make every shape of dependency in
which a merge of two closures could go wrong: chains, diamonds, a shared
dependency, one of the pair depending on the other. Two duplications with two
places give touching, nested and equal intervals within and across mappings.

The pair-mode and single-mode systems check deadlock: since the user may clean up
after a run at any time, they never stop. The other models are computations that
end, and say `CHECK_DEADLOCK FALSE`.

The list bounds let a list leave its block (at the second or third cell) and let one call be given a list
twice. Six rows have two with equal keys, two whose keys share an abbreviation, and nulls in
either key. Documents of three elements and five written positions reach both limits on positions, and
the graphs have two ways to one version, a cycle, and a version that only updates lead to.

Four values of memory and pages are enough for the sort and the load to take each
branch: TLC's coverage shows every action and disjunct fired. Two workers are needed
for a tape number to be taken in between and for one worker to fail while the other
goes on; the proofs hold for any number.

Three relations are enough for each pair of special joins to be nested on either side, and
for a join to be tried before or after the one it depends on; four for bushy joins and for
two violations of a right-hand side at once; the five relations are the query of the
comment at hint:181-192, which has no join of four. The sub-problem is the example of
hint:147-165: TLC's coverage shows the forced joins. Rows repeat values, so that a
semijoin whose right-hand side were not made unique would show. The error "failed to build
any N-way joins" is the one branch no run reaches, and `JoinFound` says so. A query
may be turned down when a FULL join has no equality, as the code does (hint:901-911).

**Fairness.** `FairSpec` of `PairLoop` adds weak fairness of `Program` and of nothing else. The
driver is one thread of statements and blocking commands; assuming that each
command returns (or fails), its next statement is always taken. The user, kills
and the death of servers have no fairness. `ParallelBuild` has weak fairness of the
leader's and of each worker's own steps, as the operating system schedules them; none of
failing, dying, or being launched.

### What disagrees with the repository's own words

`CopiedLinesDoc` ends with a counterexample to SA:248 (quoted under `findings`):
counting the total grows interval cells of the PostgreSQL mapping, whose count then
includes lines that were not copied from PostgreSQL.

`SublinkOperandDoc` ends with the text of `WHERE (a = b) IN (SELECT c FROM u)` under prettyPrint,
`WHERE (a = b IN (SELECT c FROM u))`, which is read as `a = (b IN (...))`: citus:3539 prints the left
operand with `get_rule_expr`, where citus:2329-2332 asks for `get_rule_expr_paren`.

`MergeSourceDoc` ends with a column shown as another one. citus:509-510 makes the ModifyTable node its own inner
plan, which suits ON CONFLICT, whose inner target list is the node's own, and not MERGE, whose inner
target list is the source plan's (citus:494-495): the source plan's own OUTER and INNER Vars are then looked
up in the ModifyTable's lists, against what citus:563-565 says of `push_child_plan`. The plan is that
of a MERGE of `s` into `t`, whose action has a subquery with the parameter `s.b`; `t.a` is shown in its place.

`PlainExpressionsDoc`: the option `e`, "plain EREs" (orafce:909), leaves the flags of a basic expression, as
`REG_EXTENDED` is set and then cleared as a part of `REG_ADVANCED` (orafce:910-911).

`HigherWeightDoc`: of entries with one position "the higher weight is retained" (tsvector2:625-626), but the loop stops
at the last position it keeps before it has seen its other entries (tsvector2:650-652). `PositionsKept` says what
holds of all the others.

`TransposedDoc`: the merged table is the transposed of the one pairwise mode writes, which it "looks like"
(`util/parallel_csv.py:2-5`; see lines 43-46 and C:657-664): the verdicts of (crypto, tle) and (tle, crypto) change places. The
first cell, "first =>>", is the same in both tables and right in the merged one only.

Others were met while modelling, and are part of the models as the code has them:

* A pair may be called compatible although one of its extensions was neither built nor
  created (README.md:32 says it "will load and install both"): no status is read
  (C:83, C:481). What a True verdict does guarantee is `TrueMeansPreloaded`.
* `single.csv` says "tests pass: yes" when `pg_regress` does not exist (C:532
  says the result is whether tests pass): only the codes 1 and 2 count as failures
  (C:359).
* A pair whose configure failed is tested all the same, on the configuration that the source tree had before
  (C:166-169); `BuiltForPair` is what holds of the others.
* A prefix may be estimated to match fewer rows than the word itself, which tsvector2:144-147 says it never
  is, when the statistics have few lexemes (see `TextQuery`).
* With `-x` every False verdict is a benchmark's, which the flag does not stop
  (`ExitFlagStopsAtSuite`), although README.md:35 says that the program exits as soon as
  tests fail.
* The list that `pg_regress` is given works unless something in it depends on the
  extension under test, which is left out of it (`RegressInOrder`, proved as `RegressOrder`); then it never does,
  and the pair is called incompatible whatever the two do.

## 5. The proofs

Eight modules hold theorems. All of them are about every value of the constants; what is
assumed of those are the ASSUMEs of the modules, which TLC evaluates in the runs:

* `ExtnsAssumption`: the names are finitely many, entries are for names.
* `ProperDatabase` (of `PairLoop` and `ParallelCampaign`): dependency lists are sequences
  of names, and the relation has no cycle. `get_dependencies` would never return with a cycle;
  the files under `extn_info/` have none. A dependency without an entry is allowed.
* `PairLoopAssumption`, `SingleModeAssumption`, `ParallelCampaignAssumption`,
  `BuildAssumption`: types of the constants.
* `SortAssumption`: sizes are natural numbers, a sort has memory for the first array
  (`tuplesort_begin_common` allocates it whatever `workMem` is; work_mem is at least 64kB), a merge order is
  at least two.
* `SourceAnalysisAssumption`: no extension twice in the list, none with the name of the
  directory `tmp`.

### Orders (`Folding`, `HostProofs`)

| Theorem | Statement |
|---|---|
| `InstallOrder` | `InstallsInOrder`: `get_extns_to_install` returns what the list needs, directly or not, each name once and after what it depends on |
| `BenchOrder` | `BenchesInOrder`: the benchmark creates exactly what of it can be created, each after what it depends on, in both directions |
| `LoadOrders` | the lists of `pg_regress` and of a custom script have exactly what the compatible extension needs and can be created, less the extension under test and what its suite loads, or less all that it needs; each name after those of its dependencies that the list may have |
| `RegressOrder` | `RegressInOrder`: with what the suite itself asks for in front, the list of `pg_regress` is in order unless something in it depends on the extension under test; then it never is |

These are inductions over lists and over the dependency relation. `FoldLeft` chooses a
function on the numbers up to the length; `IteratesThere` shows that there is one, by taking the
longest prefix for which there is, and `StepsOfIterate` that the value is the last of a series
of steps. About a series of steps `UpToInduction` proves a property as that of a *set*
of numbers, which the backends can instantiate where a predicate is out of their reach. Each
fold of the model has one lemma (`Fold...`) that states its steps. `GetDependencies` is a
recursive function over a relation without cycles: `DependencyInduction` is the induction over it,
`RecursionThere` that the function exists (take the largest set of names closed under
dependencies on which it does), and `GetDependenciesOrdered` what it returns. `OrderIsClosed` then gives
the closure: a list in dependency order has whatever its members depend on.

### The pair modes (`HostProofs`, `PairLoopProofs`)

| Theorem | Property |
|---|---|
| `TypeCorrect` | types; a pair is worked on only while the list has one |
| `ServesCurrentPairAlways` | `ServesCurrentPair` |
| `BuiltForPairAlways` | `BuiltForPair` |
| `IsolatedPairAlways` | `IsolatedPair` |
| `BenchHasOnlyPairExtnsAlways` | `BenchHasOnlyPairExtns` |
| `VerdictsInStepAlways` | `VerdictsInStep`: the i-th verdict is the i-th pair's |
| `ExitFlagStops` | `ExitFlagStopsAtSuite` |
| `TrueMeansPreloadedAlways` | `TrueMeansPreloaded` |
| `EvidenceKeptAlways` | `EvidenceKept` |
| `InductiveInvAlways` | `InductiveInv`, the parts of the invariant together |
| `DriverImplementsCampaign` | `CampaignSpec`: `PairLoop` refines `CompatCampaign` |
| `ReportCompleteAlways` | a written report has a verdict for each pair |
| `NothingLeft` | `CleanWhenDone`: a report leaves nothing of the run on the host |

None of the safety properties is inductive: they speak of the
tests, and what makes them true happens before. The invariant is a conjunction
whose parts lean on `TypeOK`, `PairAtHand` and at most `ClusterInv`, so each is
proved by itself, one step for each action, from what the helpers do (`HostProofs`):

* `ClusterInv` says what holds at each step on the way to the tests: no cluster
  and no answering server while a pair is prepared, an empty configuration after
  `initdb`, this pair's configuration once it was written. That a failing `initdb`
  or `pg_ctl` does not break it is the point: a server answers only if it was
  started on a cluster that is there. It starts from a clean host
  (`fresh`) or from `cleanup` (`idx > 1`), hence `OwnCluster`.
* `InstallInv` relates `current_configure_options`, the source tree and what is installed: on a
  clean host, or once the run has asked for options of its own, the installation is what the source tree is
  configured for; and while a pair is worked on, the options asked for are the pair's. `BuiltForPair` follows where
  the two are the same; where they are not, a configure has failed.
* `PreloadInv`: a server that answers during the tests was started with the libraries that are
  there now. `StartPostgres` needs them, and nothing is installed or removed between
  the start and the last benchmark. A verdict turns True only in a benchmark that a server
  answered, hence `TrueMeansPreloaded`.
* `LoadedInv`: without a cluster nothing is created, and what is in `template1` and in the
  benchmark's database was installed for this pair. The last needs to know that
  the load lists are parts of the install list (`LoadsAreInstalled`), which comes from the theorems
  about the orders. Everywhere else the proofs hold whatever lists the operators return.
* `VerdictInv` counts verdicts at each `pc`; with `-x`, `val` is never False, as
  the program exits where it would become so.
* `EvidenceInv` keeps the directory of each judged pair until
  `delete_working_pairs`, where `WorkingDirs` is computed from verdicts that are
  one for each pair by `VerdictInv`.

TLC checks `InductiveInv` on the instance of `PairwiseRestart` too (replace its INVARIANTS), as it did before the
invariant was proved.

The refinement maps `Running` to the phase, `verdicts` and `csv` to themselves.
Steps of the host are stutters; a pair is judged by the second suite that
fails or by a benchmark; `WriteReport` is `Publish`, which needs from the
invariant that the verdicts are complete and the report was opened by this run.
`ReportCompleteAlways` is proved of the driver through the same invariant.

### Single mode (`SingleModeProofs`)

| Theorem | Property |
|---|---|
| `SingleModeTyped` | types; an extension is worked on only while the list has one |
| `TableTellsAlways` | `TableTellsOfTheList` |
| `ServesCurrentExtnAlways` | `ServesCurrentExtn` |

`TableInv` adds to the property about the table what makes it stay true: the loop variable
`extn`, which the inner loop overwrites, has the listed name again when the row is written, because the
install list ends with it (`LoopVariable`). `ClusterInv` is that of the pair modes with one
more state: an extension begins without a cluster whether the one before was tested,
passed over, or not in the database. TLC checked the invariant on the lists of `Lists` first.

### Campaigns (`CampaignProofs`)

| Theorem | Property |
|---|---|
| `TableMatchesPairsAlways` | `TableMatchesPairs` |
| `FilesPartitionAlways` | `FilesPartitionThePairs` |
| `MergeKeepsVerdictsAlways` | `MergeKeepsVerdicts` |

The first is about the one index that pairwise mode moves through its verdicts while it
fills the table: the number of pairs that the nested loop makes up to a cell
(`PairsUpTo`) is the position the walk has there, so the verdict it takes is that of the cell's pair, also
where the list repeats a name. The second has the invariant `FilesInv`, that files are those
made of the campaign's list: two pairs with equal option *sets* go into one file although the
code compares dictionaries keyed by lists (`OptionsSame`), each occurrence of a pair goes into exactly one
(`ListFilesSplit`, by counting occurrences in prefixes). The third is about the merge
of reports in any order. `ReportInv` relates reports to
`truth`, the last verdict given to each pair: a file's report is missing or has, for its pairs, what
`truth` says, and a pair that has a verdict is in a file. No pair is in two files
(`FilesAreApart`), so a report that is replaced changes the truth of its own pairs only; and an injective
order of the files reaches all of them, so the rows merged are complete exactly when every file was
reported. TLC checked `ReportInv` on the campaigns of `Lists` first.

### Source analysis (`SourceAnalysisProofs`)

`FilesAgreeAlways` proves `FilesAgree`: the three files have rows for the same extensions in
the order of the list, on disk and while the program runs, as far as they have them. The invariant `SourceInv`
has `WalkInv` (where in the list the program is), `VersionInv` (what the version analysis may return at
each of its steps), `RowsInv` (each file's rows are those of the extensions analysed so
far) and `DiskInv` (the disk has prefixes, the whole at the end). It holds of any interval
computation, so the proof expands none of the copy analysis. TLC checked it first.

### Parallel builds (`ParallelBuildProofs`)

`ParallelBuildProofs` holds for every finite set of workers and tuples, every table and
number of failures (`BuildAssumption`).

| Theorem | Property |
|---|---|
| `BuildInvariant` | `IInv`, the inductive invariant |
| `GaplessIdentifiers` | `IdentifiersGapless` |
| `FinishedTapes` | `TapesFinishedWhenTaken` |
| `EverythingLoaded` | `EveryTupleLoaded` |

Its parts: `Counters` ties each shared counter to the number of participants that have
passed the point where they increment it (`At`, counted with the theorems about
cardinalities); `Identifiers` says that the numbers given out are exactly those below the counter, one
each; `Dealt` that a tuple is dealt to one participant; `Taped` that a finished
tape has exactly what its participant was dealt; `Counted` that the sums are those of
the participants that recorded; `MainLine` what the leader may rely on at each of its
steps. The key lemma, `TapesComplete`, says that once every participant has recorded, the tapes together hold
every tuple: from `nparticipantsdone` equal to the number of participants it follows that each
one is past its sort. The leader's steps and the participants' steps are then separate
lemmas, one for each action.

### The memory of a sort (`TuplesortProofs`)

`MemoryKeptAlways` proves `MemoryKept` for every workMem, number of tuples, merge order and kind of
call: whenever a call to put a tuple has returned, the memory in use is within `workMem`, or exceeds it by the array of initial
size in a batch after a reset; and no merge runs out of the
slots it set aside before it began ("we should never run out", `readtup_alloc`). The invariant
`MemoryInv` has four parts, each with one lemma per action.

* `LoadingInv` balances the books: slots, tuples, tape buffers and what is left
  add up to `workMem`, where a later batch may have the array of initial size besides, since a reset
  makes that array without looking at what is left (`Lent`). A `puttuple` may go below zero in
  between; `dumptuples` then pays it back, and so every call ends with something left.
* `BuildInv`: as long as there are fewer tapes than `maxTapes`, each run has a tape of its
  own and none is empty.
* `MergeInv` is about the slots. They are allocated once, one for each tape and one
  more, for the tapes there are when merging begins. A later pass may write to more tapes than
  the pass before: what saves it is that then either as many slots as `maxTapes` would need were
  made, or the first pass is the only one (`OneRunEach`, from `BuildInv`). Free slots, tuples in the heap
  and the one last returned (`Held`) are together always the slots that were made.
* `PhaseInv`: which phase has which of these.

TLC checked the four parts on the calls of `Sorts` before they were proved. In `SortedKeys` a key is
found by its rank, as the prover has no definition of TLC's `SortSeq`.

### Only model-checked

* Liveness (`EveryRunEnds`, `BuildEnds`): beyond this prover.
* `OrdersSound`, as the run states it of every small database by an INSTANCE with a parameter; its
  parts are the operators of `InstallOrder`, `BenchOrder`, `LoadOrders` and `RegressOrder`.
* `CountsExact` of `SourceAnalysis`, and `CopiedIntervals`: the intervals go through
  `SortSeq`, which the prover knows nothing about.
* `TuplesKept` of `Tuplesort` and its refinement of `SortedCursor`: that heap, runs and merges keep
  each tuple and give them in order is an induction over sequences for each operation of the heap.
* The structures of `ServerData`, the queries of `QueryTrees`. Most of these recurse over trees, with RECURSIVE operators or with functions
  over sets of texts: an induction would have to be set up for each as in
  `HostProofs`, and the reference definitions they are compared with are of the same size as the code.

## 6. Not modelled

* `install_at_once` (C:599-607): no caller sets it.
* Two processes in one directory, and the one minute resolution of the
  output directory's name: nothing locks either; a model of one process per host
  cannot show it.
* The effects of scripts of extensions, and `custom_config` (planned).
* Token counts, HTML and text output of the analyses, the utilities that only
  print.
* `extension_info.py` and `function_info.py`: substring tests over files that set columns
  of a row; there is no reference to compare their heuristics with.
  `function_analysis.py`: a loop without a bound around semgrep.
* Most of the C functions of the semgrep input. Of their 41,700 lines well over half
  are second to seventh copies of functions from other PostgreSQL versions
  (`rum_fn.cpp` has seven of `tuplesort.c`, `pg_bulkload_fn.cpp` four of
  `nbtsort.c`, `citus_fn.cpp`, `pg_ivm_fn.cpp` and `pg_shard_fn.cpp` nine of parts of
  `ruleutils.c`). The models follow the newest copy; a model of an older one would
  be the same model. External to the models are the functions that the corpus calls but does
  not have: the catalogue access, `find_update_path`, `compareWORD` and the
  like, each modelled as its caller depends on it. What remains is the printing of
  expressions and catalogue code that calls on much that is not there,
  without a state of its own.
* `extn_info`, lists and recorded results are data.

## 7. Running

    tlc -workers 2 -config PairwiseRestart.cfg MCPairLoop.tla
    for m in Folding HostProofs PairLoopProofs SingleModeProofs CampaignProofs \
             SourceAnalysisProofs ParallelBuildProofs TuplesortProofs
    do tlapm $m.tla; done

`PROJECT.json` names the module and configuration of each run, the mutants, and
the lines of the source each definition models.

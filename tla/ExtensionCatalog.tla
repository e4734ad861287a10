-------------------------- MODULE ExtensionCatalog --------------------------
(***************************************************************************)
(* The row of an extension in pg_extension, as pg_tle keeps it: its        *)
(* version, the tables whose contents pg_dump is to save, with a condition *)
(* each, and what the extension requires.  CREATE and ALTER EXTENSION run  *)
(* the scripts that lead to a version, one after the other; a command that *)
(* fails leaves everything as it was before.                               *)
(***************************************************************************)
EXTENDS Integers, Sequences, SequencesExt, FiniteSetsExt

CONSTANTS Versions,       \* naturals, in the order of their names
          Graphs,         \* the scripts there may be: versions to install, and from one version to another
          Tables, Conditions,
          Requires        \* of each version, the extensions that it requires

VARIABLES graph,          \* [installable |-> a set of versions, updates |-> a set of pairs, list |-> the
                          \* versions, each once, in the order in which the files were found]
          row,            \* << >> or the row: version, extconfig and extcondition, required
          members,        \* the tables that belong to the extension
          others,         \* the other extensions that are installed
          command,        \* "none", "create", "update", or "failed": to be undone
          cascade,        \* the command has CASCADE
          old, todo,      \* the version before, and those still to come
          script,         \* << >> or the script that runs: from and to
          before,         \* row, members and others as they were before the command
          ran,            \* the scripts that the command has run
          wanted          \* what was asked for: of each table, its condition
vars == <<graph, row, members, others, command, cascade, old, todo, script, before, ran, wanted>>

None == 0                 \* the version before the first script
Infinite == Cardinality(Versions) + 1

-----------------------------------------------------------------------------
(* The way from one version to another.  e: of each version, its distance, *)
(* whether that is known, and the version before it.                       *)
get_nearest_unprocessed_vertex(e, evi_list) ==
  LET left == {i \in DOMAIN evi_list : ~e[evi_list[i]].known}
      nearest == {i \in left : \A j \in left : e[evi_list[i]].distance <= e[evi_list[j]].distance}
  IN  IF left = {} THEN None ELSE evi_list[Min(nearest)]

RECURSIVE Distances(_, _, _, _)
Distances(e, target, indirect, g) ==
  LET v == get_nearest_unprocessed_vertex(e, g.list)
      known == [e EXCEPT ![v].known = TRUE]
      next(w) == /\ <<v, w>> \in g.updates /\ (indirect => w \notin g.installable)
                 /\ \/ e[v].distance + 1 < e[w].distance
                    \/ e[v].distance + 1 = e[w].distance /\ e[w].previous # None /\ v < e[w].previous
  IN  IF v = None THEN e
      ELSE IF e[v].distance = Infinite THEN e
      ELSE IF v = target THEN known
      ELSE Distances([w \in Versions |-> IF next(w) THEN [known[w] EXCEPT !.distance = e[v].distance + 1, !.previous = v]
                                         ELSE known[w]], target, indirect, g)

(* << >>: there is no way.                                                 *)
find_update_path(start, target, indirect, g) ==
  LET e == Distances([v \in Versions |-> [distance |-> IF v = start THEN 0 ELSE Infinite, known |-> FALSE, previous |-> None]],
                     target, indirect, g)
      way[v \in Versions, n \in 0 .. Infinite] == IF v = start \/ n = 0 THEN << >> ELSE Append(way[e[v].previous, n - 1], v)
  IN  IF e[target].known THEN way[target, Infinite] ELSE << >>

identify_update_path(start, target, g) == find_update_path(start, target, FALSE, g)

(* The version that is installed first to get to another one: of those that *)
(* are as near, the one with the last name.                                *)
find_install_path(target, g) ==
  LET S == {v \in g.installable : target \notin g.installable /\ find_update_path(v, target, TRUE, g) # << >>}
      len(v) == Len(find_update_path(v, target, TRUE, g))
  IN  IF S = {} THEN None ELSE Max({v \in S : \A w \in S : len(v) <= len(w)})

(* The versions that are listed, with the one that is installed for each.  *)
get_available_versions_for_extension(g) ==
  LET from(evi) == SelectSeq(g.list, LAMBDA evi2 : evi2 \notin g.installable /\ find_install_path(evi2, g) = evi)
      rows(evi) == <<<<evi, evi>>>> \o [i \in DOMAIN from(evi) |-> <<from(evi)[i], evi>>]
  IN  FoldLeft(LAMBDA store, evi : IF evi \in g.installable THEN store \o rows(evi) ELSE store, << >>, g.list)

-----------------------------------------------------------------------------
(* extconfig and extcondition are arrays of the same tables; << >> is      *)
(* null.  An index past the end extends an array by one.                   *)
IndexOf(r, t) == SelectInSeq(r.config, LAMBDA x : x = t)
Set(a, i, x) == IF i > Len(a) THEN Append(a, x) ELSE [a EXCEPT ![i] = x]
Mismatch(r) == Len(r.config) # Len(r.condition)

pg_extension_config_dump(r, t, cond) ==
  LET i == IF IndexOf(r, t) = 0 THEN Len(r.config) + 1 ELSE IndexOf(r, t) IN
  [r EXCEPT !.config = Set(@, i, t), !.condition = Set(@, i, cond)]

(* Mutant: the last condition goes, not that of the table.                 *)
extension_config_removeLast(r, t) ==
  LET i == IndexOf(r, t) IN
  IF i = 0 THEN r ELSE [r EXCEPT !.config = RemoveAt(@, i), !.condition = Front(@)]

extension_config_remove(r, t) ==
  LET i == IndexOf(r, t) IN
  IF i = 0 THEN r ELSE [r EXCEPT !.config = RemoveAt(@, i), !.condition = RemoveAt(@, i)]

-----------------------------------------------------------------------------
(* Commands.                                                               *)
State == [row |-> row, members |-> members, others |-> others, wanted |-> wanted]
Fail ==
  /\ command' = "failed" /\ todo' = << >> /\ script' = << >>
  /\ UNCHANGED <<graph, members, others, wanted, old, before, ran, cascade>>

Begin(kind, casc, from, path) ==
  /\ command' = kind /\ cascade' = casc /\ old' = from /\ todo' = path /\ before' = State /\ ran' = << >>
  /\ UNCHANGED <<graph, row, members, others, script, wanted>>

Create(casc) ==
  /\ command = "none" /\ row = << >>
  /\ \E v \in Versions :
       IF v \in graph.installable THEN Begin("create", casc, None, <<v>>)
       ELSE LET start == find_install_path(v, graph) IN
            start # None /\ Begin("create", casc, None, <<start>> \o find_update_path(start, v, TRUE, graph))

Update(casc) ==
  /\ command = "none" /\ row # << >>
  /\ \E v \in Versions \ {row[1].version} :
       LET path == identify_update_path(row[1].version, v, graph) IN
       path # << >> /\ Begin("update", casc, row[1].version, path)

(* What a version requires is installed if it can be, and the script starts. *)
Required(v, changed) ==
  LET missing == Requires[v] \ others IN
  IF missing # {} /\ ~cascade THEN row' = changed /\ Fail
  ELSE /\ row' = <<[changed[1] EXCEPT !.required = Requires[v]]>>
       /\ others' = others \cup missing
       /\ script' = <<old, v>>
       /\ UNCHANGED <<graph, members, command, cascade, old, todo, before, ran, wanted>>

(* CREATE EXTENSION makes the row with its first version.                  *)
CreateExtensionInternal ==
  /\ command = "create" /\ row = << >>
  /\ Required(Head(todo), <<[version |-> Head(todo), config |-> << >>, condition |-> << >>, required |-> {}]>>)

(* A turn of the loop: the version is changed in the row, what it requires *)
(* is looked up and recorded instead of what the one before required, and  *)
(* the script runs.                                                        *)
ApplyExtensionUpdates ==
  /\ command \in {"create", "update"} /\ row # << >> /\ script = << >> /\ todo # << >>
  /\ Required(Head(todo), <<[row[1] EXCEPT !.version = Head(todo)]>>)

Running == script # << >>
InScript == Running /\ UNCHANGED <<graph, others, command, cascade, old, todo, script, before, ran>>

CreateTable == InScript /\ \E t \in Tables \ members : members' = members \cup {t} /\ UNCHANGED <<row, wanted>>
ConfigDump ==
  /\ Running
  /\ \E t \in Tables, cond \in Conditions :
       IF t \notin members \/ Mismatch(row[1]) THEN Fail /\ UNCHANGED row
       ELSE /\ InScript
            /\ row' = <<pg_extension_config_dump(row[1], t, cond)>>
            /\ wanted' = [wanted EXCEPT ![t] = <<cond>>]
            /\ UNCHANGED members

EndScript ==
  /\ Running
  /\ ran' = Append(ran, script) /\ old' = script[2] /\ todo' = Tail(todo) /\ script' = << >>
  /\ UNCHANGED <<graph, row, members, others, command, cascade, before, wanted>>
ScriptFails == Running /\ Fail /\ UNCHANGED row

(* ALTER EXTENSION DROP TABLE, in a script or by itself.  With arrays that *)
(* do not match, it is an error if the table is in them.                   *)
DropMember ==
  /\ row # << >> /\ (Running \/ command = "none")
  /\ \E t \in members :
       IF IndexOf(row[1], t) # 0 /\ Mismatch(row[1]) THEN Running /\ Fail /\ UNCHANGED row
       ELSE /\ row' = <<extension_config_remove(row[1], t)>>
            /\ members' = members \ {t} /\ wanted' = [wanted EXCEPT ![t] = << >>]
            /\ UNCHANGED <<graph, others, command, cascade, old, todo, script, before, ran>>

(* DROP EXTENSION; not from the script of the extension.                   *)
tleRemoveExtensionById ==
  /\ row # << >>
  /\ \/ Running /\ Fail /\ UNCHANGED row
     \/ /\ command = "none"
        /\ row' = << >> /\ members' = {} /\ wanted' = [t \in Tables |-> << >>]
        /\ UNCHANGED <<graph, others, command, cascade, old, todo, script, before, ran>>

(* What it requires cannot be dropped while it is there.                   *)
DropOther ==
  /\ command = "none"
  /\ \E x \in others :
       /\ row # << >> => x \notin row[1].required
       /\ others' = others \ {x}
  /\ UNCHANGED <<graph, row, members, command, cascade, old, todo, script, before, ran, wanted>>

End ==
  /\ \/ command \in {"create", "update"} /\ script = << >> /\ todo = << >> /\ UNCHANGED <<row, members, others, wanted>>
     \/ command = "failed" /\ row' = before.row /\ members' = before.members /\ others' = before.others /\ wanted' = before.wanted
  /\ command' = "none" /\ before' = << >> /\ ran' = << >> /\ old' = None /\ cascade' = FALSE
  /\ UNCHANGED <<graph, todo, script>>

Init ==
  /\ graph \in Graphs /\ row = << >> /\ members = {} /\ others = {} /\ command = "none" /\ cascade = FALSE
  /\ old = None /\ todo = << >> /\ script = << >> /\ before = << >> /\ ran = << >>
  /\ wanted = [t \in Tables |-> << >>]
Next ==
  \/ \E casc \in BOOLEAN : Create(casc) \/ Update(casc)
  \/ CreateExtensionInternal \/ ApplyExtensionUpdates \/ CreateTable \/ ConfigDump \/ EndScript \/ ScriptFails
  \/ DropMember \/ tleRemoveExtensionById \/ DropOther \/ End
Spec == Init /\ [][Next]_vars

-----------------------------------------------------------------------------
(* The two arrays say of each table what was last asked for it, once, and  *)
(* only tables of the extension are in them.                               *)
ConfigAsWanted ==
  /\ row # << >> =>
       /\ ~Mismatch(row[1])
       /\ IsInjective(row[1].config)
       /\ ToSet(row[1].config) \subseteq members
       /\ \A t \in Tables :
            wanted[t] = LET i == IndexOf(row[1], t) IN IF i = 0 THEN << >> ELSE <<row[1].condition[i]>>

(* Scripts run one from where the other ended; a command that is done has  *)
(* led from the version before it to the one it was for, in as few scripts *)
(* as there can be.  What the version requires is there, and recorded.     *)
Reached[n \in 0 .. Cardinality(Versions), v \in Versions] ==
  IF n = 0 THEN {v} ELSE Reached[n - 1, v] \cup {e[2] : e \in {f \in graph.updates : f[1] \in Reached[n - 1, v]}}
UpdatesFollowScripts ==
  /\ \A i \in 1 .. Len(ran) - 1 : ran[i][2] = ran[i + 1][1]
  /\ \A i \in DOMAIN ran : IF ran[i][1] = None THEN ran[i][2] \in graph.installable ELSE ran[i] \in graph.updates
  /\ command = "update" /\ todo = << >> /\ script = << >> =>
       LET from == before.row[1].version IN
       ran[1][1] = from /\ row[1].version \in Reached[Len(ran), from] \ Reached[Len(ran) - 1, from]
  /\ row # << >> /\ command = "none" => row[1].required = Requires[row[1].version] /\ row[1].required \subseteq others

(* A version is listed if it can be installed, at once or by updates, and  *)
(* then once.                                                              *)
VersionsListed ==
  command = "none" =>
    LET rows == get_available_versions_for_extension(graph) IN
    /\ \A i, j \in DOMAIN rows : i # j => rows[i][1] # rows[j][1]
    /\ {rows[i][1] : i \in DOMAIN rows} = UNION {Reached[Cardinality(Versions), v] : v \in graph.installable}
=============================================================================

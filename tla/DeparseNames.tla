---------------------------- MODULE DeparseNames ----------------------------
(***************************************************************************)
(* How a stored query is given names when it is printed (the ruleutils     *)
(* functions in pg_ivm_fn.cpp): set_rtable_names, set_using_names,         *)
(* set_relation_column_names and set_join_column_names.  The query was     *)
(* parsed once; since then the tables may have got, lost or renamed        *)
(* columns, and been renamed.  What is printed has to be read back as the  *)
(* same query.  The parser, and ALTER TABLE, are modelled as the            *)
(* environment.  Truncation at NAMEDATALEN is left out.                    *)
(***************************************************************************)
EXTENDS Naturals, Sequences, FiniteSets, SequencesExt, TLC

CONSTANTS
  Tables,       \* tables, each with its first name
  Columns,      \* table |-> the names of its columns at first
  Queries,      \* the queries: sequences of FROM-clause nodes, children first
  OuterNames,   \* the names of the query around this one: a set of sets
  NewNames,     \* the names that ALTER TABLE may give a column
  NewRelNames,  \* and a table
  MaxAlters     \* bound: how often a table is altered

(* A name is a sequence: what the user wrote, and the digits appended.     *)
Suffixed(name, n) == Append(name, n)
NoName == << >>
Numbered == 1 .. 9     \* bound: how many digits are tried

VARIABLES
  relname,    \* table |-> its current name
  attrs,      \* table |-> its columns: names, NoName for a dropped column
  rtable,     \* the parsed range table
  from,       \* the top-level items, as positions in rtable
  parents,    \* the names in the parent namespaces
  names,      \* rtable_names
  colinfo,    \* rtable_columns
  using,      \* dpns->unique_using and dpns->using_names
  alters,     \* how often a table was altered
  phase

deparse == <<names, colinfo, using>>
stored == <<rtable, from, parents>>
vars == <<relname, attrs, stored, deparse, alters, phase>>

-----------------------------------------------------------------------------
(* The parser.  A column of an RTE as a query sees it is its name and its  *)
(* number; columns without a name are dropped ones.                        *)
Named(ns) == SelectSeq([k \in DOMAIN ns |-> [name |-> ns[k], attno |-> k]],
                       LAMBDA c : c.name # NoName)

Overridden(ns, written) ==
  [k \in DOMAIN ns |-> IF k <= Len(written) /\ ns[k] # NoName THEN written[k] ELSE ns[k]]

Positions(cols, name) == {k \in DOMAIN cols : cols[k].name = name}
AttnoOf(cols, name) ==
  IF Positions(cols, name) = {} THEN 0 ELSE cols[CHOOSE k \in Positions(cols, name) : TRUE].attno
Unmerged(cols, us) == SelectSeq(cols, LAMBDA c : c.name \notin ToSet(us))
Attnos(cols) == [k \in DOMAIN cols |-> cols[k].attno]
NamesOf(cols) == [k \in DOMAIN cols |-> cols[k].name]
Zeros(cols) == [k \in DOMAIN cols |-> 0]

(* JOIN USING asks for names that each side has exactly once.              *)
UsingResolves(l, r, us) ==
  \A u \in ToSet(us) : Cardinality(Positions(l, u)) = 1 /\ Cardinality(Positions(r, u)) = 1

ParseTable(node) ==
  [kind |-> "table", table |-> node.table, alias |-> node.alias, cols |-> node.cols,
   eref |-> Overridden(Columns[node.table], node.cols)]

(* The columns of a join: the merged ones, the others of the left side, the*)
(* others of the right side.  full: a merged column is COALESCE of the two.*)
ParseJoin(rt, node) ==
  LET l == Named(rt[node.left].eref)
      r == Named(rt[node.right].eref)
      ul == Unmerged(l, node.using)
      ur == Unmerged(r, node.using)
  IN  [kind |-> "join", left |-> node.left, right |-> node.right, using |-> node.using,
       full |-> node.full, alias |-> node.alias, cols |-> node.cols,
       eref |-> Overridden(node.using \o NamesOf(ul) \o NamesOf(ur), node.cols),
       leftattnos |-> [i \in DOMAIN node.using |-> AttnoOf(l, node.using[i])]
                        \o Attnos(ul) \o Zeros(ur),
       rightattnos |-> [i \in DOMAIN node.using |-> AttnoOf(r, node.using[i])]
                        \o Zeros(ul) \o Attnos(ur)]

ParseNode(rt, node) ==
  Append(rt, IF node.kind = "table" THEN ParseTable(node) ELSE ParseJoin(rt, node))
Parse(nodes) == FoldLeft(ParseNode, << >>, nodes)

Children(nodes) == UNION {{nodes[k].left, nodes[k].right} : k \in {k \in DOMAIN nodes : nodes[k].kind = "join"}}
TopLevel(nodes) == SelectSeq([k \in DOMAIN nodes |-> k], LAMBDA k : k \notin Children(nodes))

(* The names of the RTEs that can be referred to from outside an item.     *)
RefName(rte) == IF rte.kind = "table" /\ rte.alias = NoName THEN <<rte.table>> ELSE rte.alias
VisibleRefs(rt) ==
  LET V[k \in DOMAIN rt] == IF RefName(rt[k]) # NoName THEN {RefName(rt[k])}
                            ELSE V[rt[k].left] \cup V[rt[k].right]
  IN  V

(* The parser's errors: no such column, and a name of an RTE twice.        *)
Accepted(nodes, rt) ==
  LET V == VisibleRefs(rt) IN
  /\ \A k \in DOMAIN rt : rt[k].kind = "join" =>
       /\ UsingResolves(Named(rt[rt[k].left].eref), Named(rt[rt[k].right].eref), rt[k].using)
       /\ V[rt[k].left] \cap V[rt[k].right] = {}
  /\ \A j, k \in ToSet(TopLevel(nodes)) : j # k => V[j] \cap V[k] = {}

-----------------------------------------------------------------------------
IsJoin(r) == rtable[r].kind = "join"
Unnamed(r) == rtable[r].alias = NoName
Blank == [colnames |-> << >>, usingNames |-> << >>, parentUsing |-> {},
          new |-> << >>, isNew |-> << >>, printaliases |-> FALSE]

Init ==
  /\ relname = [t \in Tables |-> <<t>>] /\ attrs = Columns
  /\ \E nodes \in Queries :
       LET rt == Parse(nodes) IN Accepted(nodes, rt) /\ rtable = rt /\ from = TopLevel(nodes)
  /\ parents \in OuterNames
  /\ names = << >> /\ colinfo = << >> /\ using = [unique |-> FALSE, names |-> {}]
  /\ alters = 0 /\ phase = "stored"

-----------------------------------------------------------------------------
(* ALTER TABLE, after the query was stored.                                *)
Altering == phase = "stored" /\ alters < MaxAlters /\ alters' = alters + 1
Fresh(t, n) == n \notin ToSet(attrs[t])

RenameTable ==
  /\ Altering
  /\ \E t \in Tables, n \in NewRelNames : relname' = [relname EXCEPT ![t] = n]
  /\ UNCHANGED <<attrs, stored, deparse, phase>>

RenameColumn ==
  /\ Altering
  /\ \E t \in Tables, n \in NewNames : \E k \in DOMAIN attrs[t] :
       /\ attrs[t][k] # NoName /\ Fresh(t, n)
       /\ attrs' = [attrs EXCEPT ![t][k] = n]
  /\ UNCHANGED <<relname, stored, deparse, phase>>

AddColumn ==
  /\ Altering
  /\ \E t \in Tables, n \in NewNames :
       /\ Fresh(t, n)
       /\ attrs' = [attrs EXCEPT ![t] = Append(@, n)]
  /\ UNCHANGED <<relname, stored, deparse, phase>>

(* Which columns of tables a column of an RTE comes from.                  *)
Origins ==
  LET O[r \in DOMAIN rtable] ==
        IF ~IsJoin(r) THEN [k \in DOMAIN rtable[r].eref |-> {<<r, k>>}]
        ELSE [i \in DOMAIN rtable[r].eref |->
                (IF rtable[r].leftattnos[i] = 0 THEN {} ELSE O[rtable[r].left][rtable[r].leftattnos[i]])
                \cup (IF rtable[r].rightattnos[i] = 0 THEN {} ELSE O[rtable[r].right][rtable[r].rightattnos[i]])]
  IN  O

(* A column that a USING clause names cannot be dropped.                   *)
Merged(t) == {o[2] : o \in {o \in UNION {UNION {Origins[r][i] : i \in DOMAIN rtable[r].using} :
                                          r \in {r \in DOMAIN rtable : IsJoin(r)}} :
                             rtable[o[1]].table = t}}

DropColumn ==
  /\ Altering
  /\ \E t \in Tables : \E k \in DOMAIN attrs[t] \ Merged(t) :
       /\ attrs[t][k] # NoName
       /\ attrs' = [attrs EXCEPT ![t][k] = NoName]
  /\ UNCHANGED <<relname, stored, deparse, phase>>

-----------------------------------------------------------------------------
(* set_rtable_names: known is the hash table of names and counters.        *)
NextNumber(name, known) ==
  CHOOSE n \in Numbered : /\ n > known[name] /\ Suffixed(name, n) \notin DOMAIN known
                          /\ \A m \in known[name] + 1 .. n - 1 : Suffixed(name, m) \in DOMAIN known

CurrentRefName(rte) ==
  IF rte.kind = "table" /\ rte.alias = NoName THEN relname[rte.table] ELSE rte.alias

NameRte(acc, rte) ==
  LET ref == CurrentRefName(rte) IN
  CASE ref = NoName -> [acc EXCEPT !.names = Append(@, NoName)]
    [] ref # NoName /\ ref \notin DOMAIN acc.known ->
         [known |-> (ref :> 0) @@ acc.known, names |-> Append(acc.names, ref)]
    [] OTHER ->
         LET n == NextNumber(ref, acc.known) IN
         [known |-> (Suffixed(ref, n) :> 0) @@ [acc.known EXCEPT ![ref] = n],
          names |-> Append(acc.names, Suffixed(ref, n))]

SetRtableNames ==
  FoldLeft(NameRte, [known |-> [n \in parents |-> 0], names |-> << >>], rtable).names

-----------------------------------------------------------------------------
(* Mutant: the names of USING columns further up are not looked at.        *)
UsedHere(dp, r) == ToSet(dp.cols[r].colnames) \cup ToSet(dp.cols[r].new) \cup dp.taken

(* colname_is_unique and make_colname_unique: dp is rtable_columns and the *)
(* names that USING has taken in the whole query.                          *)
Used(dp, r) ==
  ToSet(dp.cols[r].colnames) \cup ToSet(dp.cols[r].new) \cup dp.taken \cup dp.cols[r].parentUsing

MakeUnique(name, used) ==
  IF name \notin used THEN name
  ELSE Suffixed(name, CHOOSE n \in Numbered : /\ Suffixed(name, n) \notin used
                                              /\ \A m \in 1 .. n - 1 : Suffixed(name, m) \in used)

ExpandTo(cs, n) == [k \in 1 .. (IF n > Len(cs) THEN n ELSE Len(cs)) |->
                      IF k <= Len(cs) THEN cs[k] ELSE NoName]
Put(cs, k, name) == [ExpandTo(cs, k) EXCEPT ![k] = name]

(* A name that is required of a join column is required of what it is.     *)
PushDown(cols, r, i, name) ==
  LET rte == rtable[r]
      Push(cs, child, attno) ==
        IF attno = 0 THEN cs ELSE [cs EXCEPT ![child].colnames = Put(@, attno, name)]
  IN  Push(Push(cols, rte.left, rte.leftattnos[i]), rte.right, rte.rightattnos[i])

(* Mutant: only the joins at the top are looked at.                        *)
HasDangerousJoinUsingAtTop ==
  \E r \in ToSet(from) : IsJoin(r) /\ Unnamed(r) /\ rtable[r].using # << >> /\ rtable[r].full

(* An unnamed JOIN USING with a merged column that is not simply a column  *)
(* of one side.                                                            *)
HasDangerousJoinUsing ==
  \E r \in DOMAIN rtable : IsJoin(r) /\ Unnamed(r) /\ rtable[r].using # << >> /\ rtable[r].full

(* One column of a USING clause: the name passed down, or a new one.       *)
NameUsingColumn(dp, r, i) ==
  LET rte == rtable[r]
      given == ExpandTo(dp.cols[r].colnames, Len(rte.using))[i]
      wanted == IF ~Unnamed(r) /\ i <= Len(rte.cols) THEN rte.cols[i] ELSE rte.using[i]
      name == IF given # NoName THEN given ELSE MakeUnique(wanted, Used(dp, r))
      mine == [dp.cols EXCEPT ![r].colnames = Put(@, i, name), ![r].usingNames = Append(@, name)]
  IN  [cols |-> PushDown(mine, r, i, name),
       taken |-> IF given = NoName /\ using.unique THEN dp.taken \cup {name} ELSE dp.taken]

(* set_using_names at one join.                                            *)
NameUsingColumns(dp, r) ==
  LET rte == rtable[r]
      Required(cols, i) == IF dp.cols[r].colnames[i] = NoName THEN cols
                           ELSE PushDown(cols, r, i, dp.cols[r].colnames[i])
      passed == IF Unnamed(r)
                THEN FoldLeft(Required, dp.cols, [i \in DOMAIN dp.cols[r].colnames |-> i])
                ELSE dp.cols
      done == FoldLeft(LAMBDA d, i : NameUsingColumn(d, r, i), [dp EXCEPT !.cols = passed],
                       [i \in DOMAIN rte.using |-> i])
      below == done.cols[r].parentUsing \cup ToSet(done.cols[r].usingNames)
  IN  [done EXCEPT !.cols[rte.left].parentUsing = below, !.cols[rte.right].parentUsing = below]

(* The joins as the recursive descent meets them.                          *)
Descent ==
  LET D[r \in DOMAIN rtable] ==
        IF IsJoin(r) THEN <<r>> \o D[rtable[r].left] \o D[rtable[r].right] ELSE << >>
  IN  FoldLeft(LAMBDA acc, r : acc \o D[r], << >>, from)

SetUsingNames ==
  FoldLeft(NameUsingColumns, [cols |-> colinfo, taken |-> using.names], Descent)

-----------------------------------------------------------------------------
(* set_relation_column_names: a name for every column the table has now.   *)
NameTableColumn(dp, r, i) ==
  LET rte == rtable[r]
      wanted == IF i <= Len(rte.cols) THEN rte.cols[i] ELSE attrs[rte.table][i]
  IN  IF attrs[rte.table][i] = NoName \/ dp.cols[r].colnames[i] # NoName THEN dp
      ELSE [dp EXCEPT !.cols[r].colnames[i] = MakeUnique(wanted, Used(dp, r))]

SetRelationColumnNames(dp, r) ==
  LET rte == rtable[r]
      real == attrs[rte.table]
      all == [dp EXCEPT !.cols[r].colnames = ExpandTo(@, Len(real))]
      done == FoldLeft(LAMBDA d, i : NameTableColumn(d, r, i), all, [i \in DOMAIN real |-> i])
      cs == done.cols[r].colnames
      kept == SelectSeq([i \in DOMAIN real |-> i], LAMBDA i : real[i] # NoName)
  IN  [done EXCEPT !.cols[r].new = [j \in DOMAIN kept |-> cs[kept[j]]],
                   !.cols[r].isNew = [j \in DOMAIN kept |-> kept[j] > Len(rte.eref)],
                   !.cols[r].printaliases = \E i \in ToSet(kept) : cs[i] # real[i]]

-----------------------------------------------------------------------------
(* set_join_column_names: first the columns the join had when it was       *)
(* parsed, but for the merged ones, which have their names.                *)
ChildName(dp, r, i) ==
  LET rte == rtable[r] IN
  IF rte.leftattnos[i] > 0 THEN dp.cols[rte.left].colnames[rte.leftattnos[i]]
  ELSE dp.cols[rte.right].colnames[rte.rightattnos[i]]

NameJoinColumn(acc, r, i) ==
  LET rte == rtable[r]
      real == ChildName(acc.dp, r, i)
      given == acc.dp.cols[r].colnames[i]
      wanted == IF i <= Len(rte.cols) THEN rte.cols[i] ELSE real
      name == CASE real = NoName \/ Unnamed(r) -> real
                [] given # NoName /\ ~Unnamed(r) /\ real # NoName -> given
                [] OTHER -> MakeUnique(wanted, Used(acc.dp, r))
  IN  [dp |-> [acc.dp EXCEPT !.cols[r].colnames[i] = name],
       changed |-> acc.changed \/ name # real]

NameOldColumns(dp, r) ==
  LET all == [dp EXCEPT !.cols[r].colnames = ExpandTo(@, Len(rtable[r].eref))]
      merged == Len(dp.cols[r].usingNames)
  IN  FoldLeft(LAMBDA acc, k : NameJoinColumn(acc, r, merged + k),
               [dp |-> all, changed |-> FALSE],
               [k \in 1 .. Len(rtable[r].eref) - merged |-> k])

(* Then the columns it would have now, with those its inputs have got.  ic *)
(* is the input's old column, i the join's next one.                       *)
NextOld(cs, k) == CHOOSE n \in k .. Len(cs) : cs[n] # NoName /\ \A m \in k .. n - 1 : cs[m] = NoName
Adding(acc, r, name, isNew) ==
  [acc EXCEPT !.dp.cols[r].new = Append(@, name), !.dp.cols[r].isNew = Append(@, isNew)]

AddOldColumn(acc, r, child, merged) ==
  LET ic == NextOld(acc.dp.cols[child].colnames, acc.ic)
      i == NextOld(acc.dp.cols[r].colnames, acc.i)
      next == [acc EXCEPT !.ic = ic + 1]
  IN  IF ic \in merged THEN next
      ELSE Adding([next EXCEPT !.i = i + 1], r, acc.dp.cols[r].colnames[i], FALSE)

(* Unlike an old one, a new column needs a name of its own.                *)
AddNewColumn(acc, r, name) ==
  LET own == IF Unnamed(r) THEN name ELSE MakeUnique(name, Used(acc.dp, r))
  IN  Adding([acc EXCEPT !.changed = @ \/ own # name], r, own, TRUE)

AddChildColumns(acc, r, child, attnos) ==
  LET ci == acc.dp.cols[child]
      merged == {attnos[i] : i \in 1 .. Len(rtable[r].using)}
  IN  FoldLeft(LAMBDA a, jc : IF ci.isNew[jc] THEN AddNewColumn(a, r, ci.new[jc])
                              ELSE AddOldColumn(a, r, child, merged),
               [acc EXCEPT !.ic = 1], [jc \in DOMAIN ci.new |-> jc])

SetJoinColumnNames(dp, r) ==
  LET rte == rtable[r]
      nm == Len(rte.using)
      old == NameOldColumns(dp, r)
      start == [dp |-> [old.dp EXCEPT !.cols[r].new = SubSeq(old.dp.cols[r].colnames, 1, nm),
                                      !.cols[r].isNew = [i \in 1 .. nm |-> FALSE]],
                changed |-> old.changed, ic |-> 1, i |-> nm + 1]
      left == AddChildColumns(start, r, rte.left, rte.leftattnos)
      done == AddChildColumns(left, r, rte.right, rte.rightattnos)
  IN  [done.dp EXCEPT !.cols[r].printaliases = ~Unnamed(r) /\ done.changed]

SetColumnNames ==
  FoldLeft(LAMBDA dp, r : IF IsJoin(r) THEN SetJoinColumnNames(dp, r) ELSE SetRelationColumnNames(dp, r),
           [cols |-> colinfo, taken |-> using.names], [r \in DOMAIN rtable |-> r]).cols

-----------------------------------------------------------------------------
(* set_deparse_for_query, in its three parts.                              *)
NameRelations ==
  /\ phase = "stored"
  /\ names' = SetRtableNames
  /\ colinfo' = [r \in DOMAIN rtable |-> Blank]
  /\ using' = [unique |-> HasDangerousJoinUsing, names |-> {}]
  /\ phase' = "named"
  /\ UNCHANGED <<relname, attrs, stored, alters>>

NameUsing ==
  /\ phase = "named"
  /\ LET dp == SetUsingNames IN
       colinfo' = dp.cols /\ using' = [using EXCEPT !.names = dp.taken]
  /\ phase' = "using"
  /\ UNCHANGED <<relname, attrs, stored, names, alters>>

NameColumns ==
  /\ phase = "using"
  /\ colinfo' = SetColumnNames
  /\ phase' = "deparsed"
  /\ UNCHANGED <<relname, attrs, stored, names, using, alters>>

Next == \/ RenameTable \/ RenameColumn \/ AddColumn \/ DropColumn
        \/ NameRelations \/ NameUsing \/ NameColumns

Spec == Init /\ [][Next]_vars

-----------------------------------------------------------------------------
(* Reading the printed query back.  A column is its name and where it comes*)
(* from.  Aliases are printed only where printaliases says so.             *)
Deparsed == phase = "deparsed"
Printed(r, cols) ==
  [k \in DOMAIN cols |-> [cols[k] EXCEPT !.name = IF colinfo[r].printaliases THEN colinfo[r].new[k] ELSE @]]
Others(cols, us) == SelectSeq(cols, LAMBDA c : c.name \notin us)
The(cols, name) == cols[CHOOSE k \in Positions(cols, name) : TRUE]

ReadBack ==
  LET R[r \in DOMAIN rtable] ==
        LET now == attrs[rtable[r].table]
            live == SelectSeq([k \in DOMAIN now |-> k], LAMBDA k : now[k] # NoName)
            us == colinfo[r].usingNames
            l == R[rtable[r].left]
            rr == R[rtable[r].right]
            joined == [i \in DOMAIN us |-> [name |-> us[i],
                         from |-> The(l, us[i]).from \cup The(rr, us[i]).from]]
        IN  Printed(r, IF IsJoin(r)
                       THEN joined \o Others(l, ToSet(us)) \o Others(rr, ToSet(us))
                       ELSE [j \in DOMAIN live |-> [name |-> now[live[j]], from |-> {<<r, live[j]>>}]])
  IN  R

(* Every relation can be told from the others of the query and of those    *)
(* around it, and so can the columns of a table or of a named join, also   *)
(* after renames that made them equal.                                     *)
NamesDiffer ==
  Deparsed =>
    /\ \A j, k \in DOMAIN names : j # k /\ names[j] # NoName => names[j] # names[k]
    /\ ToSet(names) \cap parents = {}
    /\ \A r \in DOMAIN rtable : (~IsJoin(r) \/ ~Unnamed(r)) => IsInjective(colinfo[r].new)

(* A USING clause that is read back finds each of its names once on either *)
(* side, and there the columns that were merged.                           *)
UsingFound(r) ==
  \A i \in DOMAIN rtable[r].using :
    LET u == colinfo[r].usingNames[i]
        l == ReadBack[rtable[r].left]
        rr == ReadBack[rtable[r].right]
    IN  /\ Cardinality(Positions(l, u)) = 1 /\ Cardinality(Positions(rr, u)) = 1
        /\ The(l, u).from \cup The(rr, u).from = Origins[r][i]

(* Reading back gives every join the columns it had, in their order, under *)
(* the names that references to them use, and the tables' new columns where*)
(* the parser would put them.                                              *)
ColumnsInPlace(r) ==
  LET read == ReadBack[r]
      old == SelectSeq([i \in DOMAIN rtable[r].eref |-> i], LAMBDA i : colinfo[r].colnames[i] # NoName)
      kept == SelectSeq([k \in DOMAIN read |-> k], LAMBDA k : ~colinfo[r].isNew[k])
  IN  /\ NamesOf(read) = colinfo[r].new
      /\ [k \in DOMAIN kept |-> read[kept[k]]]
           = [k \in DOMAIN old |-> [name |-> colinfo[r].colnames[old[k]], from |-> Origins[r][old[k]]]]

(* What the printed FROM clause reads back as is the stored join tree,     *)
(* whatever ALTER TABLE did to the tables in between.                      *)
FromReadsBack ==
  Deparsed => \A r \in DOMAIN rtable : /\ IsJoin(r) => UsingFound(r)
                                       /\ ColumnsInPlace(r)

(* A merged column of an unnamed join that is not simply a column of one   *)
(* side can only be referred to by its bare name: among all columns that   *)
(* the query's items show, no other has it.                                *)
Shown(r) ==
  LET S[q \in DOMAIN rtable] ==
        IF ~IsJoin(q) \/ ~Unnamed(q) THEN {} ELSE {q} \cup S[rtable[q].left] \cup S[rtable[q].right]
  IN  S[r]

MergedUnambiguous ==
  Deparsed => \A r \in UNION {Shown(q) : q \in ToSet(from)} : rtable[r].full =>
    \A i \in DOMAIN rtable[r].using :
      LET u == colinfo[r].usingNames[i]
          found == {<<q, k>> \in ToSet(from) \X (1 .. 12) :
                      k \in DOMAIN ReadBack[q] /\ ReadBack[q][k].name = u}
      IN  \E hit \in found : found = {hit} /\ Origins[r][i] \subseteq ReadBack[hit[1]][hit[2]].from

(* No name that is printed can be taken for another.                       *)
NamesUnambiguous == NamesDiffer /\ MergedUnambiguous
=============================================================================

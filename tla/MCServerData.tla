---------------------------- MODULE MCServerData ----------------------------
(***************************************************************************)
(* Data structures that the analyzed functions keep, one at a time: an     *)
(* index is loaded (BtreeLoad), tuples are sorted (SortVariants), lists    *)
(* are edited (PgList), the words of a document are summed up (TextVector),*)
(* the statistics of a column are walked (TextStat), a text query is       *)
(* looked at (TextQuery), the row of an extension is kept                  *)
(* (ExtensionCatalog), regular expressions are kept compiled (RegexCache), *)
(* or the buffers of a scanner are filled (ScanBuffer).  The variables of  *)
(* those that rest are Idle.                                               *)
(***************************************************************************)
EXTENDS BtreeLoad

\* The builds of BtreeLoad.  With 19 tuples at most and pages for a few, trees of up
\* to four levels come up; the key value 4 is too large for a leaf.
Sizes == <<1, 4, 2, 5>>

Alive(s) == [i \in DOMAIN s |-> [k |-> s[i], alive |-> TRUE]]
Rising(s) == \A i \in 2..Len(s) : s[i - 1] <= s[i]
RisingKeys(n) == {s \in [1..n -> 1..3] : Rising(s)}

\* Runs of equal keys: a ones, b twos and c threes.
Counted(a, b, c) == [i \in 1..(a + b + c) |-> IF i <= a THEN 1 ELSE IF i <= a + b THEN 2 ELSE 3]

Plain == {Alive(Counted(a, b, c)) : a \in 0..7, b \in 0..6, c \in 0..6}
Dead(n) == {[i \in 1..n |-> [k |-> s[i], alive |-> f[i]]] :
              s \in RisingKeys(n), f \in [1..n -> BOOLEAN]}
Shuffled == { Alive(<<3, 1, 2, 1, 3>>), Alive(<<2, 3, 1>>), Alive(<<1, 3, 4, 2>>) }

Kind(unique, dedup, full) == [unique |-> unique, dedup |-> dedup, full |-> full]
SomeBuilds ==
  { <<h, Kind(FALSE, d, full)>> : h \in Plain \cup Shuffled, d \in BOOLEAN, full \in {2, 14} }
  \cup { <<h, Kind(TRUE, d, 9)>> : h \in UNION {Dead(n) : n \in 0..5} \cup Shuffled, d \in {TRUE} }

CONSTANT Null

VARIABLES
  sort, keys, how, status, bounded, mem, tapes, max, given, out, past, error,
  memory, held,
  words, pos, element, vector, written, kept,
  left, right, ndoc, stack, stackpos, returned, done,
  query, reverse, operandData, seen,
  graph, row, members, others, command, cascade, old, todo, script, before, ran, wanted,
  re_array, res, patterns, re, recent,
  scanner, rest, pc, due, last

sorting == <<sort, keys, how, status, bounded, mem, tapes, max, given, out, past, error>>
lists == <<memory, held>>
document == <<words, pos, element, vector, written, kept>>
walk == <<left, right, ndoc, stack, stackpos, returned, done>>
search == <<query, reverse, operandData, seen>>
catalog == <<graph, row, members, others, command, cascade, old, todo, script, before, ran, wanted>>
expressions == <<re_array, res, patterns, re, recent>>
scanning == <<scanner, rest, pc, due, last>>

-----------------------------------------------------------------------------
(***************************************************************************)
(* Sorts of every kind over six rows: two rows with the same keys, two     *)
(* whose leading keys share an abbreviation, nulls in either key; for      *)
(* unique indexes every key twice, with and without nulls.  A sort spills  *)
(* at its third or fifth tuple, or never.                                  *)
(***************************************************************************)
SortRow(a, b, tid) == [vals |-> <<a, b>>, tid |-> tid]
SortRows == { SortRow(0, 1, 6), SortRow(1, 0, 5), SortRow(1, 0, 4), SortRow(1, Null, 3),
            SortRow(Null, 2, 2), SortRow(3, 0, 1) }

EqualRows == { SortRow(1, 0, 5), SortRow(1, 0, 4), SortRow(1, Null, 3), SortRow(1, Null, 6),
               SortRow(Null, 2, 2), SortRow(Null, 2, 1) }

By(col, desc, nullsFirst) == [col |-> col, desc |-> desc, nullsFirst |-> nullsFirst]
Junk(n) == [tid \in 1..6 |-> IF (tid \div n) % 2 = 0 THEN 0 ELSE 7]

Base == [variant |-> "heap", type |-> "text", abbreviates |-> TRUE,
         keys |-> <<By(1, FALSE, FALSE), By(2, TRUE, TRUE)>>,
         unique |-> FALSE, nullsNotDistinct |-> FALSE, high |-> 3, low |-> 1, max |-> 2,
         bound |-> 0, fits |-> 4, random |-> FALSE, puts |-> 4, batches |-> 1,
         junk |-> Junk(1), rows |-> SortRows]
Int4 == [Base EXCEPT !.type = "int4", !.abbreviates = FALSE]
Int8 == [Base EXCEPT !.type = "int8", !.abbreviates = FALSE]
OneKey == <<By(1, TRUE, FALSE)>>
Unique == [Base EXCEPT !.variant = "btree", !.unique = TRUE, !.rows = EqualRows]

\* Memory for every tuple, or only for two.
Both(s) == {s, [s EXCEPT !.fits = 2]}

SampleSorts == UNION {Both(s) : s \in
  { Base, Int4, [Int8 EXCEPT !.keys = <<By(1, TRUE, TRUE), By(2, FALSE, FALSE)>>],
    [Base EXCEPT !.keys = OneKey], [Int4 EXCEPT !.keys = OneKey],
    [Int8 EXCEPT !.keys = OneKey, !.random = TRUE],
    [Base EXCEPT !.bound = 2], [Int4 EXCEPT !.bound = 1, !.keys = <<By(1, TRUE, TRUE)>>],
    [Base EXCEPT !.variant = "cluster", !.random = TRUE],
    [Base EXCEPT !.variant = "cluster", !.keys = OneKey],
    [Base EXCEPT !.variant = "cluster", !.keys = <<By(1, TRUE, TRUE), By(0, FALSE, TRUE)>>],
    [Int4 EXCEPT !.variant = "cluster", !.keys = <<By(0, FALSE, TRUE), By(1, TRUE, TRUE)>>],
    [Base EXCEPT !.variant = "cluster", !.keys = <<By(0, TRUE, FALSE)>>, !.junk = Junk(2)],
    Unique, [Unique EXCEPT !.nullsNotDistinct = TRUE, !.keys = OneKey],
    [Unique EXCEPT !.keys = OneKey, !.random = TRUE], [Int8 EXCEPT !.variant = "btree", !.keys = OneKey],
    [Base EXCEPT !.variant = "gist"],
    [Base EXCEPT !.variant = "hash", !.type = "hash", !.abbreviates = FALSE],
    [Base EXCEPT !.variant = "datum", !.keys = OneKey],
    [Base EXCEPT !.variant = "datum", !.keys = OneKey, !.random = TRUE],
    [Int4 EXCEPT !.variant = "datum", !.keys = OneKey],
    [Int8 EXCEPT !.variant = "datum", !.keys = <<By(1, FALSE, TRUE)>>, !.bound = 1] }}
  \cup
  { [Base EXCEPT !.batches = 2, !.puts = 3, !.fits = f, !.bound = b]
      : f \in {1, 2}, b \in {0, 1} }

Sorting == INSTANCE SortVariants WITH
  Sorts <- SampleSorts, Bits <- 4, AbbrevFirst <- 2

\* Nodes a and b have the same content.
Alike(c, d) == c = d \/ {c, d} = {"a", "b"}
CellsOfType(type) == IF type = "OidList" THEN {"p", "q"} ELSE {"a", "b", "c"}
Lists == INSTANCE PgList WITH
  Holders <- {"x", "y"}, Cells <- CellsOfType, Equal <- Alike, Kinds <- {"equal", "oid"},
  Overhead <- 1, MinBlock <- 2, MinArray <- 2, MaxLength <- 3, mem <- memory

Vector == INSTANCE TextVector WITH
  Lexemes <- {1, 2}, Stop <- 0, Weights <- {0, 3}, MAXENTRYPOS <- 6, MAXNUMPOS <- 4,
  MaxElements <- 3, MaxWords <- 2, MaxWritten <- 5

Walk == INSTANCE TextStat WITH Lexemes <- 1..5, Documents <- [x \in 1..5 |-> 1 + (x % 3)]

\* What ANALYZE left of a column: nothing, no lexemes, or the most common ones, with
\* too few numbers, too few lexemes, or enough of both.
Slot(values, numbers) == <<[slot |-> <<[values |-> values, numbers |-> numbers]>>, nullfrac |-> <<1, 4>>]>>
ColumnStatistics ==
  { <<>>, <<[slot |-> <<>>, nullfrac |-> <<1, 4>>]>>,
    Slot(<<<<1>>>>, <<<<1, 2>>, <<1, 2>>>>),
    Slot(<<<<1>>>>, <<<<3, 4>>, <<3, 4>>, <<3, 4>>>>),
    Slot(<<<<1>>, <<1, 2>>>>, <<<<1, 2>>, <<1, 4>>, <<1, 4>>, <<1, 2>>>>),
    Slot(<<<<2>>, <<1, 2>>>>, <<<<1, 8>>, <<1, 2>>, <<1, 8>>, <<1, 2>>>>) }
Operand(w) == [type |-> "VAL", lexeme |-> w, prefix |-> FALSE]
Operator(oper, dist) == [type |-> "OPR", oper |-> oper, left |-> dist]
SampleQueries ==
  { <<Operand(<<1>>)>>, <<Operator("NOT", 1), Operand(<<2>>)>>,
    <<Operator("AND", 2), Operand(<<2>>), Operand(<<1>>)>>,
    <<Operator("PHRASE", 2), Operand(<<1, 2>>), Operand(<<1, 2>>)>> }
Search == INSTANCE TextQuery WITH
  Lexemes <- {<<1>>, <<2>>, <<1, 2>>}, Statistics <- ColumnStatistics, Default <- <<1, 8>>,
  Enough <- 2, Depth <- 2, Positions <- {1, 2}, MAXQROPOS <- 2, MaxEntries <- 3, LookedFor <- SampleQueries

\* Versions with two ways to one of them, with a cycle, and with one that only
\* updates lead to.
ScriptGraphs ==
  { [installable |-> {1}, updates |-> {<<1, 2>>, <<2, 3>>, <<1, 3>>, <<3, 4>>}, list |-> <<4, 2, 1, 3>>],
    [installable |-> {1, 3}, updates |-> {<<1, 2>>, <<3, 2>>, <<2, 4>>, <<2, 1>>}, list |-> <<1, 2, 3, 4>>],
    [installable |-> {2}, updates |-> {<<2, 1>>, <<2, 3>>, <<1, 4>>, <<3, 4>>, <<4, 2>>}, list |-> <<3, 1, 4, 2>>] }
Catalog == INSTANCE ExtensionCatalog WITH
  Versions <- 1..4, Graphs <- ScriptGraphs, Tables <- {"t", "u"}, Conditions <- {"", "x"},
  Requires <- <<{}, {"p"}, {"p", "q"}, {"q"}>>

\* Every option string of up to two letters and those of three that touch each other;
\* every text of up to five characters.
UpTo(n, S) == UNION {[1..k -> S] : k \in 0..n}
OptionStrings ==
  UpTo(2, {"g", "b", "c", "e", "i", "m", "n", "p", "q", "s", "t", "w", "x", "?"})
  \cup UpTo(3, {"e", "b", "q", "m", "p", "s", "w"})
Expressions == INSTANCE RegexCache WITH
  Patterns <- {"p", "q", "r"}, Valid <- {"p", "q"}, Collations <- {"c"}, Options <- OptionStrings,
  Called <- {<<"g">>, <<"i">>, <<"i", "c">>, <<"?">>}, Replacements <- UpTo(5, {"\\", "1", "x"}),
  MAX_CACHED_RES <- 3

\* Two files, of which one has a token longer than a buffer and a NUL, and two strings.
Scanning == INSTANCE ScanBuffer WITH
  Handles <- {"a", "b"}, Files <- [f |-> <<1, 1, 0, 2>>, g |-> <<2>>], Strings <- {<< >>, <<1, 0>>},
  YY_BUF_SIZE <- 2, YY_READ_BUF_SIZE <- 2, NULL <- Null

-----------------------------------------------------------------------------
Idle == << >>
NoLoad ==
  /\ heap = Idle /\ kind = Idle /\ spool = Idle /\ spool2 = Idle /\ pending = Idle
  /\ write = Idle /\ closing = Idle /\ phase = "idle"
NoSort ==
  /\ sort = Idle /\ keys = Idle /\ how = Idle /\ status = Idle /\ bounded = Idle
  /\ mem = Idle /\ tapes = Idle /\ max = Idle /\ given = Idle /\ out = Idle
  /\ past = Idle /\ error = Idle
NoLists ==
  /\ memory = Idle /\ held = Idle
NoDocument ==
  /\ words = Idle /\ pos = Idle /\ element = 0 /\ vector = Idle /\ written = Idle
  /\ kept = Idle
NoWalk ==
  /\ left = Idle /\ right = Idle /\ ndoc = Idle /\ stack = Idle /\ stackpos = Idle
  /\ returned = Idle /\ done = Idle
NoSearch ==
  /\ query = Idle /\ reverse = Idle /\ operandData = Idle /\ seen = Idle
NoCatalog ==
  /\ graph = Idle /\ row = Idle /\ members = Idle /\ others = Idle /\ command = Idle
  /\ cascade = Idle /\ old = Idle /\ todo = Idle /\ script = Idle /\ before = Idle
  /\ ran = Idle /\ wanted = Idle

NoExpressions ==
  /\ re_array = Idle /\ res = Idle /\ patterns = {} /\ re = Idle /\ recent = Null
NoScan ==
  /\ scanner = Idle /\ rest = Idle /\ pc = Idle /\ due = Idle /\ last = Idle

\* Documents only, and regular expressions only.
DocumentsOnly ==
  NoLoad /\ NoSort /\ NoLists /\ Vector!Init /\ NoWalk
  /\ NoSearch /\ NoCatalog /\ NoExpressions /\ NoScan
ExpressionsOnly ==
  NoLoad /\ NoSort /\ NoLists /\ NoDocument /\ NoWalk
  /\ NoSearch /\ NoCatalog /\ Expressions!Init /\ NoScan

DataInit ==
  \/ Init /\ NoSort /\ NoLists /\ NoDocument /\ NoWalk
     /\ NoSearch /\ NoCatalog /\ NoExpressions /\ NoScan
  \/ NoLoad /\ Sorting!Init /\ NoLists /\ NoDocument /\ NoWalk
     /\ NoSearch /\ NoCatalog /\ NoExpressions /\ NoScan
  \/ NoLoad /\ NoSort /\ Lists!Init /\ NoDocument /\ NoWalk
     /\ NoSearch /\ NoCatalog /\ NoExpressions /\ NoScan
  \/ DocumentsOnly
  \/ NoLoad /\ NoSort /\ NoLists /\ NoDocument /\ Walk!Init
     /\ NoSearch /\ NoCatalog /\ NoExpressions /\ NoScan
  \/ NoLoad /\ NoSort /\ NoLists /\ NoDocument /\ NoWalk
     /\ Search!Init /\ NoCatalog /\ NoExpressions /\ NoScan
  \/ NoLoad /\ NoSort /\ NoLists /\ NoDocument /\ NoWalk
     /\ NoSearch /\ Catalog!Init /\ NoExpressions /\ NoScan
  \/ ExpressionsOnly
  \/ NoLoad /\ NoSort /\ NoLists /\ NoDocument /\ NoWalk
     /\ NoSearch /\ NoCatalog /\ NoExpressions /\ Scanning!Init
DataNext ==
  \/ phase # "idle" /\ Next
     /\ UNCHANGED <<sorting, lists, document, walk, search, catalog, expressions, scanning>>
  \/ sort # Idle /\ Sorting!Next
     /\ UNCHANGED <<vars, lists, document, walk, search, catalog, expressions, scanning>>
  \/ held # Idle /\ Lists!Next
     /\ UNCHANGED <<vars, sorting, document, walk, search, catalog, expressions, scanning>>
  \/ element # 0 /\ Vector!Next
     /\ UNCHANGED <<vars, sorting, lists, walk, search, catalog, expressions, scanning>>
  \/ left # Idle /\ Walk!Next
     /\ UNCHANGED <<vars, sorting, lists, document, search, catalog, expressions, scanning>>
  \/ query # Idle /\ Search!Next
     /\ UNCHANGED <<vars, sorting, lists, document, walk, catalog, expressions, scanning>>
  \/ graph # Idle /\ Catalog!Next
     /\ UNCHANGED <<vars, sorting, lists, document, walk, search, expressions, scanning>>
  \/ recent # Null /\ Expressions!Next
     /\ UNCHANGED <<vars, sorting, lists, document, walk, search, catalog, scanning>>
  \/ scanner # Idle /\ Scanning!Next
     /\ UNCHANGED <<vars, sorting, lists, document, walk, search, catalog, expressions>>

allVars == <<vars, sorting, lists, document, walk, search, catalog, expressions, scanning>>
DataSpec == DataInit /\ [][DataNext]_allVars
DocumentsSpec == DocumentsOnly /\ [][DataNext]_allVars
ExpressionsSpec == ExpressionsOnly /\ [][DataNext]_allVars

-----------------------------------------------------------------------------
\* The index that is loaded, as BtreeLoad states it: every tuple in order, found
\* from the root, on sound pages, and valid only when it is complete.
TreeSound == phase # "idle" => TuplesInOrder /\ SearchFinds /\ PagesSound /\ ValidOnlyWhenComplete

\* The sorts, as SortVariants states it: every comparison that is used agrees with
\* the order of all keys, what is fetched comes in it, and the statistics tell of
\* the disk.
ComparisonsAgree == sort # Idle => Sorting!ComparisonsAgree
SortedByAllKeys == sort # Idle => Sorting!SortedByAllKeys /\ Sorting!StatsTell

\* Lists are separate, and each call means for their contents what it should and
\* nothing else, as PgList states it (list_concat, list_union_xxx, list_delete).
ListsKept == held # Idle => Lists!ListsSeparate /\ Lists!CallsMeanSequences

\* A vector has each lexeme once, with its first positions and, up to the limits, the
\* highest weight for each, as TextVector states it (uniqueWORD, uniquePos).
VectorKept == element # 0 => Vector!VectorSumsUp /\ Vector!PositionsKept

\* tsvector2_fn.cpp:625-626: "the higher weight is retained", as TextVector states it.
HigherWeightRetained == element # 0 => Vector!HigherWeightRetained

\* The statistics come in order, each lexeme once and with its number, as TextStat
\* states it (walkStatEntryTree, ts_process_call).
WalkInOrder == left # Idle => Walk!WalkInOrder

\* What is said of a query and of the places of its operands is so, as TextQuery
\* states it (tsquery_requires_match, SortAndUniqItems, tsquerysel,
\* checkcondition_QueryOperand).
QueryUnderstood == query # Idle => Search!QueryUnderstood /\ Search!OperandPositions

\* The configuration tables of an extension are those that were asked for, updates
\* follow the scripts there are, and the versions that can be installed are listed, as
\* ExtensionCatalog states it (pg_extension_config_dump, extension_config_remove,
\* ApplyExtensionUpdates, get_available_versions_for_extension).
CatalogKept ==
  graph # Idle => Catalog!ConfigAsWanted /\ Catalog!UpdatesFollowScripts /\ Catalog!VersionsListed

\* The expressions that were used last are kept, compiled as they were asked for, and
\* options and escapes are read as they are written, as RegexCache states it
\* (RE_compile_and_cache, parse_re_flags, check_replace_text_has_escape).
RegexKept == recent # Null => Expressions!RegexKept

\* orafce_fn.cpp:909: the option "e" stands for plain EREs, as RegexCache states it.
PlainExpressions == recent # Null => Expressions!PlainExpressions

\* A scanner loses and repeats no character, whatever buffers it is switched between,
\* as ScanBuffer states it (yy_get_next_buffer, input, yy_switch_to_buffer).
ScannerKept == scanner # Idle => Scanning!ScannerKept
=============================================================================

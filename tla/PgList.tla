------------------------------- MODULE PgList -------------------------------
(***************************************************************************)
(* Lists as PostgreSQL 13 keeps them: a header with the array of its cells *)
(* behind it, and a separate array once the list has outgrown that one.    *)
(* Some operations change a list where it is, others make a new one.  A    *)
(* caller keeps its lists in variables, and calls one operation at a time. *)
(***************************************************************************)
EXTENDS Naturals, Sequences, SequencesExt, FiniteSetsExt

CONSTANTS Holders,         \* the caller's variables
          Cells(_),        \* what a cell of a type of list may hold
          Equal(_, _),     \* equal(): whether two nodes have the same content
          Kinds,           \* the ways to compare cells that are used, see TypeOfKind
          Overhead,        \* LIST_HEADER_OVERHEAD: the cells that a header takes
          MinBlock,        \* the least number of cells of a block with a header, 8
          MinArray,        \* the least number of cells of a separate array, 16
          MaxLength        \* bound: no list grows longer than this

VARIABLES mem,             \* the headers, and the arrays of cells by address
          held             \* the list that each variable of the caller holds
vars == <<mem, held>>

NIL == 0
Undefined == "undefined"

TypeOfKind(kind) == CASE kind \in {"equal", "ptr"} -> "List" [] kind = "int" -> "IntList" [] kind = "oid" -> "OidList"
CellsOf(kind) == Cells(TypeOfKind(kind))

-----------------------------------------------------------------------------
(* Memory.  An operation returns the memory that it leaves, and a list.    *)
Fresh(A) == Min((1 .. Cardinality(A) + 1) \ A)
nextpower2(n) == CHOOSE p \in {2 ^ k : k \in 0 .. n} : n <= p /\ \A k \in 0 .. n : n <= 2 ^ k => p <= 2 ^ k
Garbage(n) == [i \in 1 .. n |-> Undefined]
Got(m, l) == [m |-> m, l |-> l]

(* The array behind the header of a list, and one that it has got later.   *)
Initial(l) == <<l, 0>>
Own(l) == <<l, 1>>

Put(f, a, v) == [x \in DOMAIN f \cup {a} |-> IF x = a THEN v ELSE f[x]]
Drop(f, a) == [x \in DOMAIN f \ {a} |-> f[x]]

Length(m, l) == IF l = NIL THEN 0 ELSE m.lists[l].length
(* The cells of a list, as a loop over it sees them.                       *)
Content(m, l) == IF l = NIL THEN << >> ELSE SubSeq(m.cells[m.lists[l].elements], 1, m.lists[l].length)
(* What is past the end may not be used.                                   *)
Shortened(m, l, n) ==
  [m EXCEPT !.lists[l].length = n,
            !.cells[m.lists[l].elements] = [i \in DOMAIN @ |-> IF i > n THEN Undefined ELSE @[i]]]
Stored(m, l, i, v) == [m EXCEPT !.cells[m.lists[l].elements][i] = v]

(* memmove() and memcpy(): n cells of array from, from position i on, are  *)
(* stored in array to, from position j on.                                 *)
Moved(m, to, j, from, i, n) ==
  [m EXCEPT !.cells[to] = [k \in DOMAIN @ |-> IF k \in j .. j + n - 1 THEN m.cells[from][i + k - j] ELSE @[k]]]

new_list(m, type, size) ==
  LET max == nextpower2(Max({MinBlock, size + Overhead})) - Overhead
      l == Fresh(DOMAIN m.lists)
  IN  Got([lists |-> Put(m.lists, l, [type |-> type, length |-> size, max |-> max, elements |-> Initial(l)]),
           cells |-> Put(m.cells, Initial(l), Garbage(max))], l)

(* The cells behind the header stay allocated, but may not be used; an     *)
(* array of its own is enlarged.                                           *)
enlarge_list(m, l, size) ==
  LET list == m.lists[l]
      max == nextpower2(Max({MinArray, size}))
      cells == [i \in 1 .. max |-> IF i <= list.length THEN m.cells[list.elements][i] ELSE Undefined]
      m1 == IF list.elements = Initial(l) THEN [m EXCEPT !.cells[Initial(l)] = Garbage(list.max)] ELSE m
  IN  [m1 EXCEPT !.cells = Put(@, Own(l), cells), !.lists[l].elements = Own(l), !.lists[l].max = max]

Room(m, l, size) == IF size > m.lists[l].max THEN enlarge_list(m, l, size) ELSE m

new_head_cell(m, l) ==
  LET n == m.lists[l].length
      m1 == Room(m, l, n + 1)
      a == m1.lists[l].elements
  IN  [Moved(m1, a, 2, a, 1, n) EXCEPT !.lists[l].length = n + 1]

new_tail_cell(m, l) ==
  LET n == m.lists[l].length IN [Room(m, l, n + 1) EXCEPT !.lists[l].length = n + 1]

(* pos is counted from 1.                                                  *)
insert_new_cell(m, l, pos) ==
  LET n == m.lists[l].length
      m1 == Room(m, l, n + 1)
      a == m1.lists[l].elements
  IN  [Moved(m1, a, pos + 1, a, pos, n + 1 - pos) EXCEPT !.lists[l].length = n + 1]

list_free_private(m, l) ==
  IF l = NIL THEN m
  ELSE [lists |-> Drop(m.lists, l), cells |-> Drop(Drop(m.cells, m.lists[l].elements), Initial(l))]

-----------------------------------------------------------------------------
(* Making, extending and copying lists.                                    *)
list_make(m, type, values) ==
  LET r == new_list(m, type, Len(values)) IN
  Got([r.m EXCEPT !.cells[r.m.lists[r.l].elements] = [i \in DOMAIN @ |-> IF i \in DOMAIN values THEN values[i] ELSE @[i]]], r.l)

lcons(m, type, v, l) ==
  IF l = NIL THEN list_make(m, type, <<v>>)
  ELSE Got(Stored(new_head_cell(m, l), l, 1, v), l)

lappend(m, type, l, v) ==
  IF l = NIL THEN list_make(m, type, <<v>>)
  ELSE LET m1 == new_tail_cell(m, l) IN Got(Stored(m1, l, m1.lists[l].length, v), l)

list_insert_nth(m, type, l, pos, v) ==
  IF l = NIL THEN list_make(m, type, <<v>>)
  ELSE Got(Stored(insert_new_cell(m, l, pos), l, pos, v), l)

list_copy(m, l) ==
  IF l = NIL THEN Got(m, NIL)
  ELSE LET n == m.lists[l].length
           r == new_list(m, m.lists[l].type, n)
       IN  Got(Moved(r.m, r.m.lists[r.l].elements, 1, m.lists[l].elements, 1, n), r.l)

list_concat(m, l1, l2) ==
  IF l1 = NIL THEN list_copy(m, l2)
  ELSE IF l2 = NIL THEN Got(m, l1)
  ELSE LET n1 == m.lists[l1].length
           n2 == m.lists[l2].length
           m1 == Room(m, l1, n1 + n2)
       IN  Got([Moved(m1, m1.lists[l1].elements, n1 + 1, m1.lists[l2].elements, 1, n2)
                  EXCEPT !.lists[l1].length = n1 + n2], l1)

(* Mutant: a copy of the first list is not made when the second is empty.  *)
list_concat_copyOfSome(m, l1, l2) ==
  IF l1 = NIL THEN list_copy(m, l2)
  ELSE IF l2 = NIL THEN Got(m, l1)
  ELSE LET r == list_copy(m, l1) IN list_concat(r.m, r.l, l2)

list_concat_copy(m, l1, l2) ==
  IF l1 = NIL THEN list_copy(m, l2)
  ELSE IF l2 = NIL THEN list_copy(m, l1)
  ELSE LET n1 == m.lists[l1].length
           n2 == m.lists[l2].length
           r == new_list(m, m.lists[l1].type, n1 + n2)
           a == r.m.lists[r.l].elements
       IN  Got(Moved(Moved(r.m, a, 1, m.lists[l1].elements, 1, n1), a, n1 + 1, m.lists[l2].elements, 1, n2), r.l)

-----------------------------------------------------------------------------
(* Lists as sets.  Cells are compared with equal(), or as they are.        *)
Same(kind, c, d) == IF kind = "equal" THEN Equal(c, d) ELSE c = d
list_member(m, kind, l, v) == \E i \in DOMAIN Content(m, l) : Same(kind, Content(m, l)[i], v)

(* Cells are appended to a list one after the other: each, or those that   *)
(* the list so far lacks.                                                  *)
AppendAll(kind, start, values) == FoldLeft(LAMBDA r, v : lappend(r.m, TypeOfKind(kind), r.l, v), start, values)

list_append_unique(m, kind, l, v) ==
  IF list_member(m, kind, l, v) THEN Got(m, l) ELSE lappend(m, TypeOfKind(kind), l, v)

AppendUniquely(kind, start, values) ==
  FoldLeft(LAMBDA r, v : list_append_unique(r.m, kind, r.l, v), start, values)

list_concat_unique(m, kind, l1, l2) ==
  AppendUniquely(kind, Got(m, l1), Content(m, l2))

list_union(m, kind, l1, l2) ==
  AppendUniquely(kind, list_copy(m, l1), Content(m, l2))

list_intersection(m, kind, l1, l2) ==
  IF l1 = NIL \/ l2 = NIL THEN Got(m, NIL)
  ELSE AppendAll(kind, Got(m, NIL), SelectSeq(Content(m, l1), LAMBDA v : list_member(m, kind, l2, v)))

list_difference(m, kind, l1, l2) ==
  IF l2 = NIL THEN list_copy(m, l1)
  ELSE AppendAll(kind, Got(m, NIL), SelectSeq(Content(m, l1), LAMBDA v : ~list_member(m, kind, l2, v)))

(* The only cell goes with its list.                                       *)
list_delete_cell(m, l, i) ==
  LET n == m.lists[l].length
      a == m.lists[l].elements
  IN  IF n = 1 THEN Got(list_free_private(m, l), NIL)
      ELSE Got(Shortened(Moved(m, a, i, a, i + 1, n - i), l, n - 1), l)

list_delete(m, l, v) ==
  LET i == SelectInSeq(Content(m, l), LAMBDA c : c = v) IN
  IF i = 0 THEN Got(m, l) ELSE list_delete_cell(m, l, i)

(* elements[i] is the last that is kept, so far.                           *)
list_deduplicate_oid(m, l) ==
  IF Length(m, l) <= 1 THEN m
  ELSE LET keep(r, j) == LET i == r.i
                             a == r.m.lists[l].elements
                         IN  IF r.m.cells[a][i] = r.m.cells[a][j] THEN r
                             ELSE [m |-> Stored(r.m, l, i + 1, r.m.cells[a][j]), i |-> i + 1]
           r == FoldLeft(keep, [m |-> m, i |-> 1], [k \in 1 .. Length(m, l) - 1 |-> k + 1])
       IN  Shortened(r.m, l, r.i)

-----------------------------------------------------------------------------
(* The caller.  What a call returns is kept in a variable: that of the     *)
(* first list, if the call changes that list; one that holds nothing, if   *)
(* the call makes a new one.                                               *)
Init == mem = [lists |-> << >>, cells |-> << >>] /\ held = [x \in Holders |-> NIL]

Is(x, type) == held[x] \in {l \in DOMAIN mem.lists : mem.lists[l].type = type} \cup {NIL}
Kept(x, r) == mem' = r.m /\ held' = [held EXCEPT ![x] = r.l]
Free(x) == held[x] = NIL
Fits(n) == n <= MaxLength
Grows(x) == Fits(Length(mem, held[x]) + 1)
Both(x, y) == Fits(Length(mem, held[x]) + Length(mem, held[y]))

Make(x, kind) ==
  /\ Free(x)
  /\ \E n \in 1 .. MaxLength : \E values \in [1 .. n -> CellsOf(kind)] : Kept(x, list_make(mem, TypeOfKind(kind), values))
Prepend(x, kind) == Is(x, TypeOfKind(kind)) /\ Grows(x) /\ \E v \in CellsOf(kind) : Kept(x, lcons(mem, TypeOfKind(kind), v, held[x]))
Insert(x, kind) ==
  /\ Is(x, TypeOfKind(kind)) /\ Grows(x)
  /\ \E v \in CellsOf(kind), pos \in 1 .. Length(mem, held[x]) + 1 :
       Kept(x, list_insert_nth(mem, TypeOfKind(kind), held[x], pos, v))
AppendUnique(x, kind) ==
  Is(x, TypeOfKind(kind)) /\ Grows(x) /\ \E v \in CellsOf(kind) : Kept(x, list_append_unique(mem, kind, held[x], v))
Delete(x, kind) ==
  kind \in {"int", "oid"} /\ Is(x, TypeOfKind(kind)) /\ \E v \in CellsOf(kind) : Kept(x, list_delete(mem, held[x], v))
Deduplicate(x) ==
  Is(x, "OidList") /\ mem' = list_deduplicate_oid(mem, held[x]) /\ UNCHANGED held
FreeList(x) == ~Free(x) /\ Kept(x, Got(list_free_private(mem, held[x]), NIL))

SameType(x, y, kind) == Is(x, TypeOfKind(kind)) /\ Is(y, TypeOfKind(kind))
Concat(x, y, kind) == SameType(x, y, kind) /\ Both(x, y) /\ Kept(x, list_concat(mem, held[x], held[y]))
ConcatUnique(x, y, kind) == SameType(x, y, kind) /\ Both(x, y) /\ Kept(x, list_concat_unique(mem, kind, held[x], held[y]))
ConcatCopy(z, x, y, kind) ==
  Free(z) /\ SameType(x, y, kind) /\ Both(x, y) /\ Kept(z, list_concat_copy(mem, held[x], held[y]))
Union(z, x, y, kind) == Free(z) /\ SameType(x, y, kind) /\ Both(x, y) /\ Kept(z, list_union(mem, kind, held[x], held[y]))
Intersection(z, x, y, kind) == Free(z) /\ SameType(x, y, kind) /\ Kept(z, list_intersection(mem, kind, held[x], held[y]))
Difference(z, x, y, kind) == Free(z) /\ SameType(x, y, kind) /\ Kept(z, list_difference(mem, kind, held[x], held[y]))

Next ==
  \E x \in Holders, kind \in Kinds :
    \/ Make(x, kind) \/ Prepend(x, kind) \/ Insert(x, kind) \/ AppendUnique(x, kind) \/ Delete(x, kind)
    \/ Deduplicate(x) \/ FreeList(x)
    \/ \E y \in Holders :
         \/ Concat(x, y, kind) \/ ConcatUnique(x, y, kind)
         \/ \E z \in Holders :
              \/ ConcatCopy(z, x, y, kind) \/ Union(z, x, y, kind)
              \/ Intersection(z, x, y, kind) \/ Difference(z, x, y, kind)
Spec == Init /\ [][Next]_vars

-----------------------------------------------------------------------------
(* What check_list_invariants() asserts of a list.                         *)
check_list_invariants(l) ==
  /\ l.length > 0 /\ l.length <= l.max
  /\ l.elements \in DOMAIN mem.cells
  /\ l.type \in {"List", "IntList", "OidList"}

(* Lists are separate: no two of them share a cell, none uses an array     *)
(* that is freed or shorter than it believes, and no cell of a list is     *)
(* left undefined.                                                         *)
ListsSeparate ==
  /\ \A x \in Holders : held[x] # NIL =>
       /\ held[x] \in DOMAIN mem.lists
       /\ check_list_invariants(mem.lists[held[x]])
       /\ Len(mem.cells[mem.lists[held[x]].elements]) = mem.lists[held[x]].max
       /\ Undefined \notin ToSet(Content(mem, held[x]))
  /\ \A x, y \in Holders : x # y /\ held[x] # NIL /\ held[y] # NIL =>
       held[x] # held[y] /\ mem.lists[held[x]].elements # mem.lists[held[y]].elements

(* Each call does to the sequences that the lists stand for what it says,  *)
(* and leaves the lists alone that it should not change, though a list may *)
(* be passed twice, be moved by the call, or be NIL.                       *)
In(kind, v, s) == \E c \in ToSet(s) : Same(kind, c, v)
Firsts(kind, s) ==
  LET first(i) == \A j \in 1 .. i - 1 : ~Same(kind, s[j], s[i])
      at == SelectSeq([i \in DOMAIN s |-> i], first)
  IN  [i \in DOMAIN at |-> s[at[i]]]
Joined(kind, s, t) == s \o Firsts(kind, SelectSeq(t, LAMBDA v : ~In(kind, v, s)))

Does(r, s, changed) ==
  /\ Content(r.m, r.l) = s
  /\ \A z \in Holders : held[z] # changed => Content(r.m, held[z]) = Content(mem, held[z])

CallsMeanSequences ==
  \A x, y \in Holders, kind \in Kinds :
    LET l == held[x]
        s == Content(mem, l)
        t == Content(mem, held[y])
    IN
    /\ Is(x, TypeOfKind(kind)) => \A v \in CellsOf(kind) :
         /\ Does(lcons(mem, TypeOfKind(kind), v, l), <<v>> \o s, l)
         /\ \A i \in 1 .. Len(s) + 1 : Does(list_insert_nth(mem, TypeOfKind(kind), l, i, v), InsertAt(s, i, v), l)
         /\ Does(list_append_unique(mem, kind, l, v), IF In(kind, v, s) THEN s ELSE Append(s, v), l)
         /\ kind # "equal" => Does(list_delete(mem, l, v),
                                   IF v \in ToSet(s) THEN RemoveAt(s, SelectInSeq(s, LAMBDA c : c = v)) ELSE s, l)
    /\ SameType(x, y, kind) =>
         /\ Does(list_concat(mem, l, held[y]), s \o t, l)
         /\ Does(list_concat_copy(mem, l, held[y]), s \o t, NIL)
         /\ Does(list_concat_unique(mem, kind, l, held[y]), Joined(kind, s, t), l)
         /\ Does(list_union(mem, kind, l, held[y]), Joined(kind, s, t), NIL)
         /\ Does(list_intersection(mem, kind, l, held[y]), SelectSeq(s, LAMBDA v : In(kind, v, t)), NIL)
         /\ Does(list_difference(mem, kind, l, held[y]), SelectSeq(s, LAMBDA v : ~In(kind, v, t)), NIL)
    /\ LET one == [i \in DOMAIN s |-> i = 1 \/ s[i] # s[i - 1]]
           at == SelectSeq([i \in DOMAIN s |-> i], LAMBDA i : one[i])
       IN  kind = "oid" /\ Is(x, "OidList") => Does(Got(list_deduplicate_oid(mem, l), l), [i \in DOMAIN at |-> s[at[i]]], l)
=============================================================================

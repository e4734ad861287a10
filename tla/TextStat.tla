------------------------------ MODULE TextStat ------------------------------
(***************************************************************************)
(* The statistics of a tsvector2 column: the lexemes are in a binary tree, *)
(* each with the number of documents and of places at which it is; each    *)
(* call of the function returns the next lexeme.  The walk has a stack, no *)
(* recursion, and forgets the number of documents of what it has returned. *)
(***************************************************************************)
EXTENDS Integers, Sequences, SequencesExt, FiniteSetsExt

CONSTANTS Lexemes,         \* in their order: naturals, without 0
          Documents        \* of each lexeme, the number of documents it is in

VARIABLES left, right,     \* of the nodes of the tree, which are the lexemes
          ndoc,            \* of each node: the documents it is in, 0 once it is returned
          stack,           \* stat->stack, from 0 to maxdepth
          stackpos,        \* -1 before the first call
          returned,        \* what has been returned, with its number of documents
          done             \* a call has returned nothing
vars == <<left, right, ndoc, stack, stackpos, returned, done>>

NULL == 0
Nodes == DOMAIN left

-----------------------------------------------------------------------------
(* The tree that the lexemes make when they are inserted in this order.    *)
RECURSIVE Depth(_, _, _)
Depth(l, r, n) == IF n = NULL THEN 0 ELSE 1 + Max({Depth(l, r, l[n]), Depth(l, r, r[n])})

(* Below n, the place for x is to the left or to the right of the node     *)
(* that is nearest to it among those inserted before it.                   *)
Nearest(order, i) ==
  LET before == {order[j] : j \in 1 .. i - 1}
      below == {x \in before : x < order[i]}
      above == {x \in before : x > order[i]}
      at(x) == CHOOSE j \in 1 .. i - 1 : order[j] = x
  IN  IF below = {} THEN <<Min(above), "left">>
      ELSE IF above = {} \/ at(Max(below)) > at(Min(above)) THEN <<Max(below), "right">>
      ELSE <<Min(above), "left">>
Child(order, x, side) ==
  LET C == {i \in 2 .. Len(order) : Nearest(order, i) = <<x, side>>} IN
  IF C = {} THEN NULL ELSE order[CHOOSE i \in C : TRUE]

Orders == UNION {{f \in [1 .. n -> Lexemes] : \A i, j \in 1 .. n : f[i] = f[j] => i = j} : n \in 1 .. Cardinality(Lexemes)}

-----------------------------------------------------------------------------
(* Mutant: node itself is taken for the most left.                          *)
PushLeftNone(st, at, n) ==
  [stack |-> [i \in DOMAIN st |-> IF i = at THEN n ELSE st[i]], stackpos |-> at]

(* The most left value from node on, pushed onto the stack at pos.         *)
PushLeft(st, at, n) ==
  LET path[x \in Nodes \cup {NULL}] == IF x = NULL THEN << >> ELSE <<x>> \o path[left[x]]
      p == path[n]
  IN  [stack |-> [i \in DOMAIN st |-> IF i \in at .. at + Len(p) - 1 THEN p[i - at + 1] ELSE st[i]],
       stackpos |-> at + Len(p) - 1]

(* The next entry, with what becomes of the stack.                         *)
RECURSIVE walkStatEntryTree(_, _)
walkStatEntryTree(st, at) ==
  LET node == st[at] IN
  CASE ndoc[node] # 0 -> [node |-> node, stack |-> st, stackpos |-> at]
    [] ndoc[node] = 0 /\ right[node] # NULL /\ right[node] # st[at + 1] ->
         LET p == PushLeft(st, at + 1, right[node]) IN
         [node |-> p.stack[p.stackpos], stack |-> p.stack, stackpos |-> p.stackpos]
    [] OTHER -> IF at = 0 THEN [node |-> NULL, stack |-> st, stackpos |-> 0] ELSE walkStatEntryTree(st, at - 1)

ts_process_call(st, at) ==
  LET w == walkStatEntryTree(st, at) IN
  /\ stack' = w.stack /\ stackpos' = w.stackpos
  /\ IF w.node = NULL THEN done' = TRUE /\ UNCHANGED <<ndoc, returned>>
     ELSE /\ returned' = Append(returned, <<w.node, ndoc[w.node]>>)
          /\ ndoc' = [ndoc EXCEPT ![w.node] = 0]
          /\ UNCHANGED done

-----------------------------------------------------------------------------
Init ==
  \E order \in Orders :
    LET S == {order[i] : i \in DOMAIN order} IN
    /\ left = [x \in S |-> Child(order, x, "left")]
    /\ right = [x \in S |-> Child(order, x, "right")]
    /\ ndoc = [x \in S |-> Documents[x]]
    /\ stack = [i \in 0 .. Depth(left, right, order[1]) - 1 |-> IF i = 0 THEN order[1] ELSE NULL]
    /\ stackpos = -1 /\ returned = << >> /\ done = FALSE

(* The first call sets the stack up; each call walks on.                   *)
Call ==
  /\ ~done
  /\ LET first == PushLeft(stack, 0, stack[0]) IN
     IF stackpos = -1 THEN ts_process_call(first.stack, first.stackpos) ELSE ts_process_call(stack, stackpos)
  /\ UNCHANGED <<left, right>>

Next == Call
Spec == Init /\ [][Next]_vars

-----------------------------------------------------------------------------
(* The walk returns the lexemes in their order, each once and with its     *)
(* number of documents, and ends when it has returned all.                 *)
WalkInOrder ==
  /\ \A i \in 1 .. Len(returned) - 1 : returned[i][1] < returned[i + 1][1]
  /\ \A i \in DOMAIN returned : returned[i][2] = Documents[returned[i][1]]
  /\ {returned[i][1] : i \in DOMAIN returned} = {x \in Nodes : ndoc[x] = 0}
  /\ done => \A x \in Nodes : ndoc[x] = 0
=============================================================================

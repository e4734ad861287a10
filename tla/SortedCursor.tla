---------------------------- MODULE SortedCursor ----------------------------
(***************************************************************************)
(* What a tuplesort promises its caller, whatever way it sorted: once the  *)
(* caller has put its tuples and asked for the sort, a cursor over them in *)
(* order, moved forward and back, marked and restored.  The bound is a     *)
(* hint: a caller that asks for more tuples than the bound may get them,   *)
(* or an error.  The positions are those of the in-memory case of          *)
(* tuplesort_gettuple_common, which the tape case says it follows.         *)
(***************************************************************************)
EXTENDS Integers, Sequences

CONSTANTS
  Keys,       \* the keys of tuples, natural numbers
  Bounds,     \* the bounds that a caller sets
  Skips       \* the numbers of tuples that a caller skips

VARIABLES
  phase,      \* "loading", "sorted" or "failed"
  items,      \* the keys put so far, in order
  bound,      \* the caller's bound, 0 when it has set none
  unique,     \* equal keys are an error
  random,     \* the caller asked for random access
  current,    \* how many items are before the cursor
  eof,        \* a forward fetch found the end (kept for random access only)
  mark,       \* the saved position and end flag
  result      \* what the last call answered

absVars == <<phase, items, bound, unique, random, current, eof, mark, result>>
options == <<unique, random>>

NoCall == [found |-> FALSE, key |-> -1]
Nothing == [found |-> FALSE, key |-> 0]
Moved == [found |-> TRUE, key |-> 0]
Answer(k) == [found |-> TRUE, key |-> k]

Start == [pos |-> 0, eof |-> FALSE]

Inserted(s, k) ==
  SelectSeq(s, LAMBDA x : x <= k) \o <<k>> \o SelectSeq(s, LAMBDA x : x > k)

NeighboursOrdered(s) == \A i \in 1..(Len(s) - 1) : s[i] <= s[i + 1]
SomeEqual(s) == \E i \in 1..(Len(s) - 1) : s[i] = s[i + 1]

\* A leader starts with the tuples that its workers have put.
Init == /\ phase = "loading" /\ NeighboursOrdered(items)
        /\ bound = 0 /\ unique \in BOOLEAN /\ random \in BOOLEAN
        /\ current = 0 /\ eof = FALSE /\ mark = Start /\ result = NoCall

SetBound(b) == /\ phase = "loading" /\ items = <<>> /\ bound = 0
               /\ bound' = b
               /\ UNCHANGED <<phase, items, options, current, eof, mark, result>>

Put(k) == /\ phase = "loading"
          /\ items' = Inserted(items, k)
          /\ UNCHANGED <<phase, bound, options, current, eof, mark, result>>

Sort == /\ phase = "loading"
        /\ phase' = "sorted"
        /\ UNCHANGED <<items, bound, options, current, eof, mark, result>>

\* An error ends the sort: for equal keys in a unique sort, or for a caller that
\* goes n tuples on, past the bound.
Fail(n) == /\ phase # "failed"
           /\ items' = items \/ \E k \in Keys : items' = Inserted(items, k)
           /\ \/ unique /\ SomeEqual(items')
              \/ phase = "sorted" /\ bound > 0 /\ current + n > bound
           /\ phase' = "failed"
           /\ UNCHANGED <<bound, options>>

FetchForward ==
  /\ phase = "sorted" /\ ~eof /\ current < Len(items)
  /\ unique /\ current > 0 => items[current] # items[current + 1]
  /\ current' = current + 1
  /\ result' = Answer(items[current + 1])
  /\ UNCHANGED <<phase, items, bound, options, eof, mark>>

FetchEnd ==
  /\ phase = "sorted" /\ current = Len(items)
  /\ eof' = random /\ result' = Nothing
  /\ UNCHANGED <<phase, items, bound, options, current, mark>>

\* Backward from the end answers the last item, otherwise the one before the
\* one that was fetched last; before the first there is nothing.
FetchBackward ==
  /\ phase = "sorted" /\ random
  /\ LET at == IF eof \/ current = 0 THEN current ELSE current - 1
     IN  /\ current' = at
         /\ result' = IF at = 0 THEN Nothing ELSE Answer(items[at])
         /\ eof' = (eof /\ at = 0)
  /\ UNCHANGED <<phase, items, bound, options, mark>>

Skip(n) ==
  /\ phase = "sorted"
  /\ \/ /\ current + n <= Len(items)
        /\ current' = current + n /\ result' = Moved /\ eof' = eof
     \/ /\ current + n > Len(items)
        /\ current' = Len(items) /\ result' = Nothing /\ eof' = random
  /\ UNCHANGED <<phase, items, bound, options, mark>>

MarkPos == /\ phase = "sorted" /\ random
           /\ mark' = [pos |-> current, eof |-> eof] /\ result' = NoCall
           /\ UNCHANGED <<phase, items, bound, options, current, eof>>

RestorePos == /\ phase = "sorted" /\ random
              /\ current' = mark.pos /\ eof' = mark.eof /\ result' = NoCall
              /\ UNCHANGED <<phase, items, bound, options, mark>>

Rescan == /\ phase = "sorted" /\ random
          /\ current' = 0 /\ eof' = FALSE /\ mark' = Start /\ result' = NoCall
          /\ UNCHANGED <<phase, items, bound, options>>

Reset == /\ phase = "sorted"
         /\ phase' = "loading" /\ items' = <<>> /\ bound' = 0
         /\ current' = 0 /\ eof' = FALSE /\ mark' = Start /\ result' = NoCall
         /\ UNCHANGED options

Next == \/ \E b \in Bounds : SetBound(b)
        \/ \E k \in Keys : Put(k)
        \/ \E n \in Skips : Skip(n)
        \/ \E n \in {1} \cup Skips : Fail(n)
        \/ Sort \/ FetchForward \/ FetchEnd \/ FetchBackward
        \/ MarkPos \/ RestorePos \/ Rescan \/ Reset

Spec == Init /\ [][Next]_absVars
=============================================================================

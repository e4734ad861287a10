----------------------------- MODULE TextVector -----------------------------
(***************************************************************************)
(* How tsvector2 builds a vector: the words of the elements of a document  *)
(* are numbered, one element after the other, and then summed up, each     *)
(* lexeme once with its positions.  A vector may also be written down, in  *)
(* any order and with weights.  Positions and their number are limited.    *)
(***************************************************************************)
EXTENDS Integers, Sequences, SequencesExt, FiniteSetsExt

CONSTANTS Lexemes,          \* in their order: naturals
          Stop,             \* a word that is no lexeme: it only takes a position
          Weights,          \* naturals
          MAXENTRYPOS,      \* positions are less than this, 16384
          MAXNUMPOS,        \* and a lexeme has fewer than this of them, 256
          MaxElements, MaxWords,    \* bounds: elements of a document, words of an element
          MaxWritten        \* bound: positions of a lexeme that is written down

VARIABLES words,            \* prs->words: lexeme, position and, for the properties, the element
          pos,              \* prs->pos
          element,          \* the elements that are read
          vector,           \* the entries: lexeme, positions and the size of their array
          written, kept     \* positions that are written down, and what is kept of them
vars == <<words, pos, element, vector, written, kept>>

LIMITPOS(p) == IF p >= MAXENTRYPOS THEN MAXENTRYPOS - 1 ELSE p

-----------------------------------------------------------------------------
(* The parser numbers all words, and hands over those that are lexemes.    *)
parsetext(text) ==
  LET at == SelectSeq([i \in DOMAIN text |-> i], LAMBDA i : text[i] # Stop) IN
  [i \in DOMAIN at |-> [word |-> text[at[i]], pos |-> LIMITPOS(pos + at[i]), element |-> element]]

(* A break between the elements: no phrase matches across it.              *)
add_to_tsvector2(text) ==
  LET new == parsetext(text) IN
  /\ words' = words \o new
  /\ pos' = pos + Len(text) + (IF new # << >> THEN 1 ELSE 0)

(* A lexeme with its first position: apos[0] counts the others.            *)
Entry(w) == [word |-> w.word, apos |-> <<LIMITPOS(w.pos)>>, alen |-> 2]

(* Mutant: no room is made for the number of positions.                    *)
MorePositionUncounted(entry, p) ==
  LET n == Len(entry.apos)
      last == entry.apos[n]
  IN  IF n >= MAXNUMPOS - 1 \/ last = MAXENTRYPOS - 1 \/ last = LIMITPOS(p) THEN entry
      ELSE [entry EXCEPT !.alen = IF n >= @ THEN 2 * @ ELSE @, !.apos = Append(@, LIMITPOS(p))]

(* One more position of the last entry.  The array also holds the count,   *)
(* and doubles when it is full.                                            *)
MorePosition(entry, p) ==
  LET n == Len(entry.apos)
      last == entry.apos[n]
  IN  IF n >= MAXNUMPOS - 1 \/ last = MAXENTRYPOS - 1 \/ last = LIMITPOS(p) THEN entry
      ELSE [entry EXCEPT !.alen = IF n + 1 >= @ THEN 2 * @ ELSE @, !.apos = Append(@, LIMITPOS(p))]

compareWORD(v, w) == v.word < w.word \/ (v.word = w.word /\ v.pos < w.pos)

uniqueWORD(ws) ==
  IF Len(ws) = 1 THEN <<Entry(ws[1])>>
  ELSE LET sum(res, w) ==
             IF res # << >> /\ Last(res).word = w.word
             THEN [res EXCEPT ![Len(res)] = MorePosition(@, w.pos)]
             ELSE Append(res, Entry(w))
       IN  FoldLeft(sum, << >>, SortSeq(ws, compareWORD))

(* What is kept of positions that are written down; sorted is a, in order  *)
(* of their positions.                                                     *)
UniqueIn(sorted) ==
  LET step(r, p) ==
        CASE r.full -> r
          [] ~r.full /\ p.pos # Last(r.res).pos ->
               [res |-> Append(r.res, p), full |-> Len(r.res) >= MAXNUMPOS - 1 \/ p.pos = MAXENTRYPOS - 1]
          [] OTHER -> IF p.weight > Last(r.res).weight THEN [r EXCEPT !.res[Len(r.res)].weight = p.weight] ELSE r
  IN  FoldLeft(step, [res |-> <<sorted[1]>>, full |-> FALSE], Tail(sorted)).res

(* qsort() leaves positions that are equal in any order.                   *)
compareWordEntryPos(p, q) == IF p.pos = q.pos THEN 0 ELSE IF p.pos > q.pos THEN 1 ELSE -1
Ordered(s) == \A i, j \in DOMAIN s : i < j => compareWordEntryPos(s[i], s[j]) <= 0
Sorted(a) == {s \in {[i \in DOMAIN a |-> a[f[i]]] : f \in Permutations(DOMAIN a)} : Ordered(s)}
uniquePos(a) == IF Len(a) <= 1 THEN {a} ELSE {UniqueIn(s) : s \in Sorted(a)}

-----------------------------------------------------------------------------
Init ==
  /\ words = << >> /\ pos = 0 /\ element = 1 /\ vector = << >>
  /\ written = << >> /\ kept = << >>

AddElement ==
  /\ element <= MaxElements /\ vector = << >> /\ written = << >>
  /\ \E n \in 0 .. MaxWords : \E text \in [1 .. n -> Lexemes \cup {Stop}] : add_to_tsvector2(text)
  /\ element' = element + 1
  /\ UNCHANGED <<vector, written, kept>>

MakeVector ==
  /\ vector = << >> /\ words # << >>
  /\ vector' = uniqueWORD(words)
  /\ UNCHANGED <<words, pos, element, written, kept>>

(* As they are sorted first, it is enough to write them in order.          *)
WritePositions ==
  /\ element = 1 /\ written = << >>
  /\ \E n \in 1 .. MaxWritten : \E a \in [1 .. n -> [pos : 1 .. MAXENTRYPOS - 1, weight : Weights]] :
       /\ Ordered(a)
       /\ written' = a
       /\ kept' \in uniquePos(a)
  /\ UNCHANGED <<words, pos, element, vector>>

Next == AddElement \/ MakeVector \/ WritePositions
Spec == Init /\ [][Next]_vars

-----------------------------------------------------------------------------
FirstOf(S, n) == {p \in S : Cardinality({q \in S : q < p}) < n}

(* A vector has each lexeme of the document once, in order, with the first *)
(* of the positions at which it stands; the array of its positions has     *)
(* room for all of them and their count.  No two words of different        *)
(* elements are next to each other.                                        *)
VectorSumsUp ==
  /\ vector # << >> =>
       /\ {vector[i].word : i \in DOMAIN vector} = {words[i].word : i \in DOMAIN words}
       /\ \A i \in 1 .. Len(vector) - 1 : vector[i].word < vector[i + 1].word
       /\ \A i \in DOMAIN vector :
            LET at == {words[j].pos : j \in {k \in DOMAIN words : words[k].word = vector[i].word}} IN
            /\ ToSet(vector[i].apos) = FirstOf(at, MAXNUMPOS - 1)
            /\ \A j \in 1 .. Len(vector[i].apos) - 1 : vector[i].apos[j] < vector[i].apos[j + 1]
            /\ Len(vector[i].apos) < vector[i].alen
  /\ \A i, j \in DOMAIN words :
       words[i].element < words[j].element /\ words[j].pos < MAXENTRYPOS - 1 => words[j].pos > words[i].pos + 1

(* Of positions that are written down, the first MAXNUMPOS are kept, each  *)
(* once, in order, and with its highest weight; except for the last one    *)
(* when the limit of their number or of positions is reached there.  The   *)
(* loop stops at it (650-652) before it has looked at the others of the    *)
(* same position, and keeps the weight of the one that qsort() happened to *)
(* put first: HigherWeightRetained is false there.                         *)
WeightsAt(p) == {written[i].weight : i \in {j \in DOMAIN written : written[j].pos = p}}
StoppedAt(i) == i > 1 /\ (i = MAXNUMPOS \/ kept[i].pos = MAXENTRYPOS - 1)
PositionsKept ==
  kept # << >> =>
    /\ {kept[i].pos : i \in DOMAIN kept} = FirstOf({written[i].pos : i \in DOMAIN written}, MAXNUMPOS)
    /\ \A i \in 1 .. Len(kept) - 1 : kept[i].pos < kept[i + 1].pos
    /\ \A i \in DOMAIN kept :
         IF StoppedAt(i) THEN kept[i].weight \in WeightsAt(kept[i].pos)
                         ELSE kept[i].weight = Max(WeightsAt(kept[i].pos))

(* What the comment at tsvector2_fn.cpp:625-626 says of any position: "If  *)
(* there's two entries with same pos but different weight, the higher      *)
(* weight is retained."                                                    *)
HigherWeightRetained ==
  \A i \in DOMAIN kept : kept[i].weight = Max(WeightsAt(kept[i].pos))
=============================================================================

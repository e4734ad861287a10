----------------------------- MODULE TextQuery ------------------------------
(***************************************************************************)
(* A tsquery is an array of items in preorder: an operator is followed by  *)
(* its right operand, and knows how far away its left operand is.  What is *)
(* asked of a query here: its operands, whether it can match a document    *)
(* that has none of them, what share of the rows it matches, and where in  *)
(* a document its operands stand.                                          *)
(***************************************************************************)
EXTENDS Integers, Sequences, SequencesExt, FiniteSetsExt

CONSTANTS Lexemes,       \* sequences of letters
          Default,       \* DEFAULT_TS_MATCH_SEL, a fraction as all shares are
          Enough,        \* with fewer lexemes than this, 100, prefixes are not estimated
          Statistics,    \* what ANALYZE may have left, see tsquerysel
          Depth,         \* bound: operators above one another in a query
          Positions,     \* the positions of a document
          MAXQROPOS,     \* the places for positions of an operand
          MaxEntries,    \* bound: entries that are looked at
          LookedFor      \* bound: the queries for which documents are looked at

Operators == {"NOT", "AND", "OR", "PHRASE"}
Val(lexeme, prefix) == [type |-> "VAL", lexeme |-> lexeme, prefix |-> prefix]
Opr(oper, left) == [type |-> "OPR", oper |-> oper, left |-> left]

(* The queries, and what is at position i of the array.                    *)
Unary(q) == <<Opr("NOT", 1)>> \o q
Binary(oper, l, r) == <<Opr(oper, Len(r) + 1)>> \o r \o l
Operands == {<<Val(w, p)>> : w \in Lexemes, p \in BOOLEAN}
QueriesTo[d \in 0 .. Depth] ==
  IF d = 0 THEN Operands
  ELSE LET Q == QueriesTo[d - 1] IN
       Q \cup {Unary(q) : q \in Q} \cup {Binary(o, l, r) : o \in {"AND", "OR", "PHRASE"}, l \in Q, r \in Operands}
Queries == QueriesTo[Depth]

VARIABLES query,         \* the query
          reverse, operandData,    \* its representation: the places of each operand
          seen           \* the entries of the document that are looked at so far
vars == <<query, reverse, operandData, seen>>

-----------------------------------------------------------------------------
(* Its operands, sorted by their letters as tsCompareString() does, each   *)
(* once.  Of two with one lexeme, qsort_arg() may put either first.        *)
compareQueryOperand(a, b) ==
  LET v == a.lexeme  w == b.lexeme IN
  \/ \E i \in DOMAIN v \cap DOMAIN w : v[i] < w[i] /\ \A j \in 1 .. i - 1 : v[j] = w[j]
  \/ Len(v) < Len(w) /\ SubSeq(w, 1, Len(v)) = v

SortAndUniqItems(q) ==
  LET res == SortSeq(SelectSeq(q, LAMBDA item : item.type = "VAL"), compareQueryOperand)
      keep(r, a) == IF Last(r).lexeme # a.lexeme THEN Append(r, a) ELSE r
  IN  IF Len(res) < 2 THEN res ELSE FoldLeft(keep, <<res[1]>>, Tail(res))

RECURSIVE tsquery_requires_match(_, _)
tsquery_requires_match(q, i) ==
  LET item == q[i] IN
  CASE item.type = "VAL" -> TRUE
    [] item.type = "OPR" /\ item.oper = "NOT" -> FALSE
    [] item.type = "OPR" /\ item.oper \in {"PHRASE", "AND"} ->
         tsquery_requires_match(q, i + item.left) \/ tsquery_requires_match(q, i + 1)
    [] item.type = "OPR" /\ item.oper = "OR" ->
         tsquery_requires_match(q, i + item.left) /\ tsquery_requires_match(q, i + 1)

-----------------------------------------------------------------------------
(* Shares of the rows, as fractions.                                       *)
Gcd[a \in Nat, b \in Nat] == IF b = 0 THEN a ELSE Gcd[b, a % b]
Share(n, d) == LET g == Gcd[n, d] IN <<n \div g, d \div g>>
Times(a, b) == Share(a[1] * b[1], a[2] * b[2])
Plus(a, b) ==
  LET g == Gcd[a[2], b[2]] IN Share(a[1] * (b[2] \div g) + b[1] * (a[2] \div g), (a[2] \div g) * b[2])
Rest(a) == Share(a[2] - a[1], a[2])
AtMost(a, b) == LET g == Gcd[a[2], b[2]] IN a[1] * (b[2] \div g) <= b[1] * (a[2] \div g)
MinShare(a, b) == IF AtMost(a, b) THEN a ELSE b
MaxShare(a, b) == IF AtMost(a, b) THEN b ELSE a
Zero == <<0, 1>>
One == <<1, 1>>
Either(a, b) == Plus(a, Times(b, Rest(a)))
CLAMP_PROBABILITY(a) == IF AtMost(One, a) THEN One ELSE IF a[1] < 0 THEN Zero ELSE a

StartsWith(lexeme, w) == Len(w) >= Len(lexeme) /\ SubSeq(w, 1, Len(lexeme)) = lexeme

(* The lexemes of a statistic are in order of length first, as ANALYZE     *)
(* sorted them.                                                            *)
Before(v, w) == Len(v) < Len(w) \/ (Len(v) = Len(w) /\ \E i \in DOMAIN v : v[i] < w[i] /\ \A j \in 1 .. i - 1 : v[j] = w[j])

RECURSIVE bsearch(_, _)
bsearch(lexeme, lookup) ==
  LET mid == (Len(lookup) + 1) \div 2 IN
  CASE lookup = << >> -> << >>
    [] lookup # << >> /\ Before(lexeme, lookup[mid].element) -> bsearch(lexeme, SubSeq(lookup, 1, mid - 1))
    [] lookup # << >> /\ Before(lookup[mid].element, lexeme) -> bsearch(lexeme, SubSeq(lookup, mid + 1, Len(lookup)))
    [] lookup # << >> /\ lookup[mid].element = lexeme -> <<lookup[mid]>>

(* stats = << >>: there is no statistic.                                   *)
PrefixShare(lexeme, s) ==
  LET matching == SelectSeq(s.lookup, LAMBDA t : StartsWith(lexeme, t.element))
      sum(list) == CLAMP_PROBABILITY(FoldLeft(LAMBDA r, t : Either(r, t.frequency), Zero, list))
      selec == Plus(sum(matching), Times(Rest(sum(s.lookup)), Share(Len(matching), Len(s.lookup))))
  IN  MaxShare(MinShare(Default, Times(s.minfreq, <<1, 2>>)), selec)

LexemeShare(lexeme, s) ==
  LET found == bsearch(lexeme, s.lookup) IN
  IF found # << >> THEN found[1].frequency ELSE MinShare(Default, Times(s.minfreq, <<1, 2>>))

RECURSIVE tsquery_opr_selec(_, _, _)
tsquery_opr_selec(q, i, stats) ==
  LET item == q[i]
      s1 == tsquery_opr_selec(q, i + 1, stats)
      s2 == tsquery_opr_selec(q, i + item.left, stats)
  IN  CLAMP_PROBABILITY(
        CASE item.type = "VAL" /\ item.prefix ->
               IF stats = << >> THEN Times(Default, <<4, 1>>)
               ELSE IF Len(stats[1].lookup) < Enough THEN Times(Default, <<4, 1>>)
               ELSE PrefixShare(item.lexeme, stats[1])
          [] item.type = "VAL" /\ ~item.prefix -> IF stats = << >> THEN Default ELSE LexemeShare(item.lexeme, stats[1])
          [] item.type = "OPR" /\ item.oper = "NOT" -> Rest(s1)
          [] item.type = "OPR" /\ item.oper \in {"PHRASE", "AND"} -> Times(s1, s2)
          [] item.type = "OPR" /\ item.oper = "OR" -> Either(s1, s2))

(* The numbers have two more entries than there are lexemes, or the slot   *)
(* is not used.                                                            *)
mcelem_tsquery_selec(q, slot) ==
  LET n == Len(slot.numbers) IN
  IF n # Len(slot.values) + 2 THEN tsquery_opr_selec(q, 1, << >>)
  ELSE tsquery_opr_selec(q, 1, <<[lookup |-> [i \in DOMAIN slot.values |->
                                                [element |-> slot.values[i], frequency |-> slot.numbers[i]]],
                                  minfreq |-> slot.numbers[n - 1]]>>)

(* stats: none, a row without a slot, or with one.                         *)
tsquerysel(q, stats) ==
  IF q = << >> THEN Zero
  ELSE IF stats = << >> THEN tsquery_opr_selec(q, 1, << >>)
  ELSE Times(IF stats[1].slot = << >> THEN tsquery_opr_selec(q, 1, << >>) ELSE mcelem_tsquery_selec(q, stats[1].slot[1]),
             Rest(stats[1].nullfrac))

-----------------------------------------------------------------------------
(* The places of the operands.  Entries of the document come in ascending  *)
(* order and fill the places from the left, or in descending order and     *)
(* fill them from the right, so that they are always ascending.            *)
Unset == [i \in 0 .. MAXQROPOS - 1 |-> 0]

(* What was in the places stays there.                                     *)
resetQueryRepresentation(q, rev) ==
  /\ reverse' = rev
  /\ operandData' = [i \in DOMAIN q |-> [exists |-> FALSE, npos |-> 0,
                                        pos |-> IF operandData = << >> THEN Unset ELSE operandData[i].pos]]

(* Mutant: the places are filled from the left either way.                 *)
FilledFromLeft(data, p) ==
  LET n == data.npos IN
  IF n # 0 /\ data.pos[n - 1] = p THEN [data EXCEPT !.exists = TRUE]
  ELSE [exists |-> TRUE, npos |-> n + 1, pos |-> [data.pos EXCEPT ![n] = p]]

Filled(data, p) ==
  LET n == data.npos
      last == IF reverse THEN MAXQROPOS - n ELSE n - 1
      next == IF reverse THEN MAXQROPOS - 1 - n ELSE n
  IN  IF n # 0 /\ data.pos[last] = p THEN [data EXCEPT !.exists = TRUE]
      ELSE [exists |-> TRUE, npos |-> n + 1, pos |-> [data.pos EXCEPT ![next] = p]]

(* entry: a position, and the items of the query that stand there.         *)
fillQueryRepresentationData(entry) ==
  operandData' = [i \in DOMAIN operandData |->
                    IF i \in entry.items /\ query[i].type = "VAL" THEN Filled(operandData[i], entry.pos) ELSE operandData[i]]

checkcondition_QueryOperand(i) ==
  LET data == operandData[i]
      first == IF reverse THEN MAXQROPOS - data.npos ELSE 0
  IN  IF ~data.exists THEN << >> ELSE [k \in 1 .. data.npos |-> data.pos[first + k - 1]]

-----------------------------------------------------------------------------
Init == query \in Queries /\ reverse = FALSE /\ operandData = << >> /\ seen = << >>

Reset ==
  /\ query \in LookedFor
  /\ \E rev \in BOOLEAN : resetQueryRepresentation(query, rev)
  /\ seen' = << >>
  /\ UNCHANGED query

(* Of two entries with one position, either may be the first.              *)
Fill ==
  /\ operandData # << >> /\ Len(seen) < MaxEntries
  /\ \E p \in Positions, items \in SUBSET DOMAIN query :
       /\ seen # << >> => IF reverse THEN p <= Last(seen).pos ELSE p >= Last(seen).pos
       /\ fillQueryRepresentationData([pos |-> p, items |-> items])
       /\ seen' = Append(seen, [pos |-> p, items |-> items])
  /\ UNCHANGED <<query, reverse>>

Next == Reset \/ Fill
Spec == Init /\ [][Next]_vars

-----------------------------------------------------------------------------
(* An operand stands where the entries seen since the last reset say, in   *)
(* ascending order whichever way they are looked at.                       *)
OperandPositions ==
  \A i \in DOMAIN operandData :
    LET at == {seen[k].pos : k \in {j \in DOMAIN seen : i \in seen[j].items /\ query[i].type = "VAL"}}
        s == checkcondition_QueryOperand(i)
    IN  ToSet(s) = at /\ \A k \in 1 .. Len(s) - 1 : s[k] < s[k + 1]

(* A query that requires a match matches no document without any of its    *)
(* operands; doc: the lexemes of a document.                               *)
RECURSIVE Matches(_, _, _)
Matches(q, i, doc) ==
  LET item == q[i] IN
  CASE item.type = "VAL" -> \E w \in doc : IF item.prefix THEN StartsWith(item.lexeme, w) ELSE w = item.lexeme
    [] item.type = "OPR" /\ item.oper = "NOT" -> ~Matches(q, i + 1, doc)
    [] item.type = "OPR" /\ item.oper \in {"PHRASE", "AND"} -> Matches(q, i + 1, doc) /\ Matches(q, i + item.left, doc)
    [] item.type = "OPR" /\ item.oper = "OR" -> Matches(q, i + 1, doc) \/ Matches(q, i + item.left, doc)
RequiredMatch == tsquery_requires_match(query, 1) => ~Matches(query, 1, {})

(* The operands are listed in order, each once, and none is missing.       *)
OperandsOnce ==
  LET s == SortAndUniqItems(query) IN
  /\ \A i \in 1 .. Len(s) - 1 : compareQueryOperand(s[i], s[i + 1])
  /\ {s[i].lexeme : i \in DOMAIN s} = {query[i].lexeme : i \in {j \in DOMAIN query : query[j].type = "VAL"}}

(* Where lexemes are not negated, lexeme:* is not taken to be rarer than   *)
(* lexeme, the property that tsvector2_fn.cpp:144-147 preserves: with      *)
(* enough lexemes in the statistic, and without one.  With fewer, it does  *)
(* not hold: a prefix is taken to match four times the default share of the*)
(* rows (117-118), and an exact lexeme as many rows as it has been found in*)
(* (170), which may be more.                                               *)
FewLexemes(stats) ==
  stats # << >> /\ stats[1].slot # << >> /\ Len(stats[1].slot[1].values) < Enough
PrefixNotRarer ==
  LET plain == {i \in DOMAIN query : query[i].type = "VAL" /\ ~query[i].prefix}
      negated == \E i \in DOMAIN query : query[i].type = "OPR" /\ query[i].oper = "NOT"
  IN  ~negated => \A i \in plain, stats \in Statistics :
        FewLexemes(stats) \/
        AtMost(tsquerysel(query, stats), tsquerysel([query EXCEPT ![i].prefix = TRUE], stats))

(* What is said of a query before a document is looked at: all three hold. *)
QueryUnderstood == operandData = << >> => RequiredMatch /\ OperandsOnce /\ PrefixNotRarer
=============================================================================

----------------------------- MODULE ScanBuffer -----------------------------
(***************************************************************************)
(* The input buffers of a scanner, as orafce has them (cube's and seg's are*)
(* the same): characters are read from files or strings in portions, a     *)
(* token that a portion cuts is moved to the front and completed, and a    *)
(* stack of buffers says which one is scanned.                             *)
(***************************************************************************)
EXTENDS Integers, Sequences, SequencesExt, FiniteSetsExt

CONSTANTS Handles,                        \* the buffers there may be
          Files,                          \* of each file, what is in it
          Strings,                        \* what may be scanned instead
          YY_BUF_SIZE, YY_READ_BUF_SIZE,
          NULL

VARIABLES scanner,  \* the scanner's globals and the buffers
          rest,     \* of each file, what was not read yet
          pc,       \* "idle", "match", or a fatal error: "missed" or "overflow"
          due,      \* of each buffer, what the scanner still has to return
          last      \* the last answer: kind, the characters, and what was due before
vars == <<scanner, rest, pc, due, last>>

YY_END_OF_BUFFER_CHAR == 0
Junk == 9                                 \* memory that was not written yet

-----------------------------------------------------------------------------
(* A buffer: ch, the array with two places more than size; pos, where      *)
(* scanning goes on; n, the characters that were read; own; file; fill: it *)
(* is filled from the file; status.  In s, the scanner: buf, stack and top;*)
(* c, text and n (yy_c_buf_p, yytext_ptr, yy_n_chars), places of the       *)
(* current buffer; hold, the character that belongs at c; yyin.            *)
Array(size) == [p \in 0 .. size + 1 |-> Junk]
Grown(ch, size) == [p \in 0 .. size + 1 |-> IF p \in DOMAIN ch THEN ch[p] ELSE Junk]

Current(s) == IF s.stack = << >> THEN NULL ELSE s.stack[s.top + 1]
SetCurrent(s, h) == [s EXCEPT !.stack[s.top + 1] = h]

yy_load_buffer_state(s) ==
  LET b == s.buf[Current(s)] IN
  [s EXCEPT !.n = b.n, !.text = b.pos, !.c = b.pos, !.yyin = b.file, !.hold = b.ch[b.pos]]

\* Mutant: the character that a token's end hides is not put back.
SavedHidden(s) ==
  IF Current(s) = NULL THEN s
  ELSE [s EXCEPT !.buf[Current(s)].pos = s.c, !.buf[Current(s)].n = s.n]

\* "Flush out information for old buffer."
Saved(s) ==
  IF Current(s) = NULL THEN s
  ELSE [s EXCEPT !.buf[Current(s)].ch[s.c] = s.hold, !.buf[Current(s)].pos = s.c, !.buf[Current(s)].n = s.n]

yy_flush_buffer(s, h) ==
  LET t == [s EXCEPT !.buf[h].n = 0, !.buf[h].ch[0] = YY_END_OF_BUFFER_CHAR,
                     !.buf[h].ch[1] = YY_END_OF_BUFFER_CHAR, !.buf[h].pos = 0, !.buf[h].status = "new"]
  IN  IF h = Current(s) THEN yy_load_buffer_state(t) ELSE t

yy_init_buffer(s, h, f) == [yy_flush_buffer(s, h) EXCEPT !.buf[h].file = f, !.buf[h].fill = TRUE]

yy_create_buffer(s, h, f) ==
  yy_init_buffer([s EXCEPT !.buf[h] = [ch |-> Array(YY_BUF_SIZE), size |-> YY_BUF_SIZE, pos |-> 0, n |-> 0,
                                       own |-> TRUE, file |-> f, fill |-> TRUE, status |-> "new"]], h, f)

yyensure_buffer_stack(s) ==
  IF s.stack = << >> THEN [s EXCEPT !.stack = <<NULL>>, !.top = 0]
  ELSE IF s.top >= Len(s.stack) - 1 THEN [s EXCEPT !.stack = @ \o [i \in 1 .. 8 |-> NULL]]
  ELSE s

yy_switch_to_buffer(s, h) ==
  LET t == yyensure_buffer_stack(s)
  IN  IF Current(t) = h THEN t ELSE yy_load_buffer_state(SetCurrent(Saved(t), h))

yypush_buffer_state(s, h) ==
  LET t == Saved(yyensure_buffer_stack(s))
      u == IF Current(t) = NULL THEN t ELSE [t EXCEPT !.top = @ + 1]
  IN  yy_load_buffer_state(SetCurrent(u, h))

yy_delete_buffer(s, h) ==
  [(IF h = Current(s) THEN SetCurrent(s, NULL) ELSE s) EXCEPT !.buf[h] = NULL]

yypop_buffer_state(s) ==
  IF Current(s) = NULL THEN s
  ELSE LET t == [SetCurrent(yy_delete_buffer(s, Current(s)), NULL) EXCEPT !.top = IF @ > 0 THEN @ - 1 ELSE @]
       IN  IF Current(t) = NULL THEN t ELSE yy_load_buffer_state(t)

\* h: the buffer that is made if there is none.
yyrestart(s, f, h) ==
  LET t == IF Current(s) # NULL THEN s
           ELSE LET e == yyensure_buffer_stack(s) IN SetCurrent(yy_create_buffer(e, h, s.yyin), h)
  IN  yy_load_buffer_state(yy_init_buffer(t, Current(t), f))

\* A string with the two characters behind it that end a buffer.
yy_scan_buffer(s, h, base, own) ==
  yy_switch_to_buffer(
    [s EXCEPT !.buf[h] = [ch |-> base, size |-> Cardinality(DOMAIN base) - 2, pos |-> 0,
                          n |-> Cardinality(DOMAIN base) - 2, own |-> own, file |-> NULL, fill |-> FALSE,
                          status |-> "new"]], h)

Bytes(string) == [p \in 0 .. Len(string) + 1 |->
                    IF p < Len(string) THEN string[p + 1] ELSE YY_END_OF_BUFFER_CHAR]
yy_scan_bytes(s, h, string) == yy_scan_buffer(s, h, Bytes(string), TRUE)

\* The next element is never reached: the current one is set to null before it is
\* popped, and popping does nothing then.
yylex_destroy(s) ==
  LET t == IF Current(s) = NULL THEN s
           ELSE yypop_buffer_state(SetCurrent(yy_delete_buffer(s, Current(s)), NULL))
  IN  [t EXCEPT !.stack = << >>, !.top = 0, !.yyin = NULL, !.c = 0]

-----------------------------------------------------------------------------
(* yy_get_next_buffer: what may come of it, [s, rest, act].  A portion has *)
(* what there is room for or less, and nothing at the end of the file only *)
(* (YY_INPUT).                                                             *)
Outcome(s, r, act) == [s |-> s, rest |-> r, act |-> act]

\* "Not enough room in the buffer - grow it."
Roomy(b, moved) ==
  LET size[n \in Nat] == IF n - moved - 1 > 0 THEN n ELSE size[2 * n]
  IN  [b EXCEPT !.size = size[b.size], !.ch = Grown(@, size[b.size])]

Moved(b, from, count) ==
  [b EXCEPT !.ch = [p \in DOMAIN b.ch |-> IF p < count THEN b.ch[from + p] ELSE b.ch[p]]]

\* count characters were moved to the front and b has the portion behind them.
Filled(s, r, b, portion, count) ==
  LET n == Len(portion)
      size == IF n + count > b.size THEN n + count + (n \div 2) - 2 ELSE b.size
      act == IF n > 0 THEN "continue" ELSE IF count = 0 THEN "eof" ELSE "last"
      full == [p \in 0 .. size + 1 |->
                 CASE p \in count .. count + n - 1 -> portion[p - count + 1]
                   [] p \in {count + n, count + n + 1} -> YY_END_OF_BUFFER_CHAR
                   [] OTHER -> Grown(b.ch, size)[p]]
      t == [s EXCEPT !.buf[Current(s)] = [b EXCEPT !.n = n, !.size = size, !.ch = full,
                                                   !.status = IF act = "last" THEN "eof pending" ELSE @],
                     !.n = n + count, !.text = 0]
  IN  Outcome(IF act = "eof" THEN yyrestart(t, t.yyin, NULL) ELSE t, r, act)

yy_get_next_buffer(s, r) ==
  LET b == s.buf[Current(s)]
      count == s.c - s.text - 1
      moved == Moved(b, s.text, count)
      roomy == Roomy(moved, count)
      room == Min({roomy.size - count - 1, YY_READ_BUF_SIZE})
      left == r[s.yyin]
      portions == IF left = << >> THEN {0} ELSE 1 .. Min({room, Len(left)})
  IN  IF s.c > s.n + 1 THEN {Outcome(s, r, "missed")}
      ELSE IF ~b.fill THEN {Outcome(s, r, IF count = 0 THEN "eof" ELSE "last")}
      ELSE IF b.status = "eof pending" THEN {Filled(s, r, moved, << >>, count)}
      ELSE IF roomy.size > b.size /\ ~b.own THEN {Outcome(s, r, "overflow")}
      ELSE {Filled(s, [r EXCEPT ![s.yyin] = SubSeq(left, k + 1, Len(left))], roomy, SubSeq(left, 1, k), count) :
              k \in portions}

-----------------------------------------------------------------------------
(* What is asked of the scanner.  Tokens are runs of equal characters, for *)
(* the rules are not among the functions here; yywrap() says that there is *)
(* no further input.                                                       *)
Idle == pc = "idle"
Live(h) == scanner.buf[h] # NULL
InStack(h) == h \in ToSet(scanner.stack)
Unread(f) == \A h \in Handles : Live(h) => scanner.buf[h].file # f

Nothing == [kind |-> "none", text |-> << >>, of |-> << >>]
Answer(kind, text) ==
  /\ last' = [kind |-> kind, text |-> text, of |-> due[Current(scanner)]]
  /\ due' = [due EXCEPT ![Current(scanner)] = SubSeq(@, Len(text) + 1, Len(@))]

\* A string has been asked for more than it has when c is behind its end; it is then
\* left alone, and so is a buffer that is to be filled from no file.
Ready ==
  /\ Idle /\ Current(scanner) # NULL
  /\ LET b == scanner.buf[Current(scanner)] IN (b.fill => b.file # NULL) /\ scanner.c <= scanner.n

Lex ==
  /\ Ready
  /\ scanner' = [scanner EXCEPT !.buf[Current(scanner)].ch[scanner.c] = scanner.hold, !.text = scanner.c]
  /\ pc' = "match" /\ last' = Nothing
  /\ UNCHANGED <<rest, due>>

\* YY_DO_BEFORE_ACTION: the token ends before place e.
Token(s, e) ==
  LET ch == s.buf[Current(s)].ch IN
  /\ scanner' = [s EXCEPT !.c = e, !.hold = ch[e], !.buf[Current(s)].ch[e] = YY_END_OF_BUFFER_CHAR]
  /\ pc' = "idle"
  /\ Answer("token", [i \in 1 .. e - s.text |-> ch[s.text + i - 1]])

Match ==
  /\ pc = "match"
  /\ LET h == Current(scanner)
         b == scanner.buf[h]
         eob(p) == b.ch[p] = YY_END_OF_BUFFER_CHAR /\ p >= scanner.n
         ends == {p \in DOMAIN b.ch : p >= scanner.text /\ (eob(p) \/ b.ch[p] # b.ch[scanner.text])}
         e == Min(ends)
         t == [scanner EXCEPT !.c = e + 1, !.hold = b.ch[e + 1],
                              !.n = IF b.status = "new" THEN b.n ELSE @,
                              !.buf[h].file = IF b.status = "new" THEN scanner.yyin ELSE @,
                              !.buf[h].status = IF @ = "new" THEN "normal" ELSE @]
     IN  IF ~eob(e) THEN Token(scanner, e) /\ UNCHANGED rest
         ELSE \E o \in yy_get_next_buffer(t, rest) :
           /\ rest' = o.rest
           /\ CASE o.act = "continue" -> scanner' = [o.s EXCEPT !.c = o.s.text + e - scanner.text] /\ UNCHANGED <<pc, due, last>>
                [] o.act = "last" -> Token(o.s, o.s.n)
                [] o.act = "eof" -> scanner' = [o.s EXCEPT !.c = o.s.text] /\ pc' = "idle" /\ Answer("eof", << >>)
                [] OTHER -> pc' = o.act /\ UNCHANGED <<scanner, due, last>>

\* In the action of a token.
Returned(s) == [s EXCEPT !.c = @ + 1, !.hold = s.buf[Current(s)].ch[s.c + 1],
                         !.buf[Current(s)].ch[s.c] = YY_END_OF_BUFFER_CHAR]
input ==
  /\ Ready /\ last.kind \in {"token", "char"}
  /\ LET s == [scanner EXCEPT !.buf[Current(scanner)].ch[scanner.c] = scanner.hold]
         char(u) == scanner' = Returned(u) /\ pc' = "idle" /\ Answer("char", <<u.buf[Current(u)].ch[u.c]>>)
     IN  IF s.hold # YY_END_OF_BUFFER_CHAR \/ s.c < s.n THEN char(s) /\ UNCHANGED rest
         ELSE \E o \in yy_get_next_buffer([s EXCEPT !.c = @ + 1], rest) :
           /\ rest' = o.rest
           /\ CASE o.act = "continue" -> char([o.s EXCEPT !.c = o.s.text + s.c - s.text])
                [] o.act = "last" -> scanner' = yyrestart(o.s, o.s.yyin, NULL) /\ UNCHANGED pc /\ Answer("end", << >>)
                [] o.act = "eof" -> scanner' = o.s /\ UNCHANGED pc /\ Answer("end", << >>)
                [] OTHER -> pc' = o.act /\ UNCHANGED <<scanner, due, last>>

-----------------------------------------------------------------------------
(* Between tokens, buffers are made, switched and deleted.  A file has one *)
(* buffer; a buffer is in the stack once, and what is under the top of the *)
(* stack is not deleted.                                                   *)
Call(s, d) == Idle /\ scanner' = s /\ due' = d /\ last' = Nothing /\ UNCHANGED <<rest, pc>>

Create(h, f) ==
  /\ ~Live(h) /\ Unread(f)
  /\ Call(yy_create_buffer(scanner, h, f), [due EXCEPT ![h] = rest[f]])
Switch(h) == Live(h) /\ (h = Current(scanner) \/ ~InStack(h)) /\ Call(yy_switch_to_buffer(scanner, h), due)
Push(h) == Live(h) /\ ~InStack(h) /\ Call(yypush_buffer_state(scanner, h), due)
Pop ==
  /\ Current(scanner) # NULL
  /\ Call(yypop_buffer_state(scanner), [due EXCEPT ![Current(scanner)] = << >>])
Delete(h) ==
  /\ Live(h) /\ (h = Current(scanner) \/ ~InStack(h))
  /\ Call(yy_delete_buffer(scanner, h), [due EXCEPT ![h] = << >>])
Flush(h) ==
  /\ Live(h)
  /\ LET b == scanner.buf[h] IN
     Call(yy_flush_buffer(scanner, h), [due EXCEPT ![h] = IF b.file = NULL THEN << >> ELSE rest[b.file]])
\* An empty string would be grown forever: twice no size is none.
Restart(f) ==
  \E h \in Handles :
    /\ IF Current(scanner) = NULL THEN ~Live(h) ELSE h = Current(scanner) /\ scanner.buf[h].size > 0
    /\ Unread(f) \/ (Live(h) /\ scanner.buf[h].file = f)
    /\ Call(yyrestart(scanner, f, h), [due EXCEPT ![h] = rest[f]])
ScanBytes(h, string) ==
  ~Live(h) /\ Call(yy_scan_bytes(scanner, h, string), [due EXCEPT ![h] = string])
ScanBuffer(h, string) ==
  ~Live(h) /\ Call(yy_scan_buffer(scanner, h, Bytes(string), FALSE), [due EXCEPT ![h] = string])
Destroy ==
  Call(yylex_destroy(scanner),
       IF Current(scanner) = NULL THEN due ELSE [due EXCEPT ![Current(scanner)] = << >>])

Init ==
  /\ scanner = [buf |-> [h \in Handles |-> NULL], stack |-> << >>, top |-> 0,
                n |-> 0, c |-> 0, text |-> 0, hold |-> Junk, yyin |-> NULL]
  /\ rest = Files /\ pc = "idle" /\ due = [h \in Handles |-> << >>] /\ last = Nothing
Next ==
  \/ Lex \/ Match \/ input \/ Pop \/ Destroy
  \/ \E h \in Handles, f \in DOMAIN Files : Create(h, f)
  \/ \E h \in Handles : Switch(h) \/ Push(h) \/ Delete(h) \/ Flush(h)
  \/ \E f \in DOMAIN Files : Restart(f)
  \/ \E h \in Handles, string \in Strings : ScanBytes(h, string) \/ ScanBuffer(h, string)
Spec == Init /\ [][Next]_vars

-----------------------------------------------------------------------------
(* What is still to be scanned of a buffer: what is in it from its place   *)
(* on, with the character that a token's end hides, and the rest of the    *)
(* file.                                                                   *)
Characters(h) ==
  LET b == scanner.buf[h]
      current == h = Current(scanner)
      from == IF current THEN scanner.c ELSE b.pos
      to == IF current THEN scanner.n ELSE b.n
      at(p) == IF current /\ p = scanner.c THEN scanner.hold ELSE b.ch[p]
  IN  [chars |-> [i \in 1 .. Max({0, to - from}) |-> at(from + i - 1)],
       ends |-> to + 1 \in DOMAIN b.ch /\ at(to) = YY_END_OF_BUFFER_CHAR /\ at(to + 1) = YY_END_OF_BUFFER_CHAR]
Pending(h) ==
  LET f == scanner.buf[h].file IN Characters(h).chars \o (IF f = NULL THEN << >> ELSE rest[f])

NothingLost ==
  Idle => \A h \in Handles : Live(h) => Pending(h) = due[h] /\ Characters(h).ends

StackSound ==
  LET used == {i \in DOMAIN scanner.stack : scanner.stack[i] # NULL} IN
  /\ \A i \in used : Live(scanner.stack[i]) /\ i <= scanner.top + 1
  /\ \A i, j \in used : i # j => scanner.stack[i] # scanner.stack[j]
  /\ scanner.top = 0 \/ scanner.top < Len(scanner.stack)

RunOf(q) == CHOOSE k \in 1 .. Len(q) : (\A i \in 1 .. k : q[i] = q[1]) /\ (k = Len(q) \/ q[k + 1] # q[1])
AnswersRight ==
  /\ last.kind = "token" => last.of # << >> /\ last.text = SubSeq(last.of, 1, RunOf(last.of))
  /\ last.kind = "char" => last.of # << >> /\ last.text = <<last.of[1]>>
  /\ last.kind \in {"eof", "end"} => last.of = << >>

FatalRight == pc # "missed" /\ (pc = "overflow" => ~scanner.buf[Current(scanner)].own)

ScannerKept == NothingLost /\ StackSound /\ AnswersRight /\ FatalRight
=============================================================================

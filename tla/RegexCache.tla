----------------------------- MODULE RegexCache -----------------------------
(***************************************************************************)
(* The regular expressions that orafce keeps compiled, the one that was    *)
(* used last in front; and how the options of a call and the text that     *)
(* replaces a match are read.                                              *)
(***************************************************************************)
EXTENDS Integers, Sequences, SequencesExt, FiniteSetsExt

CONSTANTS Patterns, Valid,   \* the patterns, and those that compile
          Collations,
          Options,           \* the option strings, sequences of letters
          Called,            \* bound: those that the calls have
          Replacements,      \* the texts that replace a match, sequences of characters
          MAX_CACHED_RES

VARIABLES re_array,          \* the entries: the key, and where it is kept
          res, patterns,     \* what is allocated: of each place, the key that was compiled; the patterns
          re,                \* << >> or the key of the RE that the caller was given, re_array[0]
          recent             \* the keys of the calls that succeeded, each once, the last one first
vars == <<re_array, res, patterns, re, recent>>

-----------------------------------------------------------------------------
(* The flags that one option letter leaves.  A set stands for the bits;    *)
(* REG_ADVANCED has the bit of REG_EXTENDED, and REG_NEWLINE is two bits.  *)
REG_ADVANCED == {"REG_EXTENDED", "REG_ADVF"}
REG_NEWLINE == {"REG_NLSTOP", "REG_NLANCH"}
Letters == {"g", "b", "c", "e", "i", "m", "n", "p", "q", "s", "t", "w", "x"}

Option(flags, letter) ==
  LET c == flags.cflags
      changed(with, without) == [flags EXCEPT !.cflags = (c \cup with) \ without]
  IN  CASE letter = "g" -> [flags EXCEPT !.glob = TRUE]
        [] letter = "b" -> changed({}, REG_ADVANCED \cup {"REG_EXTENDED", "REG_QUOTE"})
        [] letter = "c" -> changed({}, {"REG_ICASE"})
        [] letter = "e" -> changed({"REG_EXTENDED"}, REG_ADVANCED \cup {"REG_QUOTE"})
        [] letter = "i" -> changed({"REG_ICASE"}, {})
        [] letter \in {"m", "n"} -> changed(REG_NEWLINE, {})
        [] letter = "p" -> changed({"REG_NLSTOP"}, {"REG_NLANCH"})
        [] letter = "q" -> changed({"REG_QUOTE"}, REG_ADVANCED \cup {"REG_EXTENDED"})
        [] letter = "s" -> changed({}, REG_NEWLINE)
        [] letter = "t" -> changed({}, {"REG_EXPANDED"})
        [] letter = "w" -> changed({"REG_NLANCH"}, {"REG_NLSTOP"})
        [] letter = "x" -> changed({"REG_EXPANDED"}, {})

\* << >>: an invalid option.
parse_re_flags(opts) ==
  IF ToSet(opts) \subseteq Letters
  THEN <<FoldLeft(Option, [cflags |-> REG_ADVANCED, glob |-> FALSE], opts)>>
  ELSE << >>

\* 2: a submatch is named; 1: there is another escape; a backslash at the end is none.
check_replace_text_has_escape(text) ==
  LET next(a, char) ==
        IF a.result = 2 THEN a
        ELSE IF ~a.escaped THEN [a EXCEPT !.escaped = (char = "\\")]
        ELSE [result |-> IF char \in {"1", "9"} THEN 2 ELSE 1, escaped |-> FALSE]
  IN  FoldLeft(next, [result |-> 0, escaped |-> FALSE], text).result

-----------------------------------------------------------------------------
\* One place more than the array has: a new RE is compiled before the last one goes.
Places == 1 .. MAX_CACHED_RES + 1
NewPlace == Min(Places \ DOMAIN res)
pg_regfree(r, at) == [p \in DOMAIN r \ {at} |-> r[p]]

\* Mutant: what was compiled for the last entry is not freed.
DiscardLastUnfreed(array, r, pats) ==
  IF Len(array) < MAX_CACHED_RES THEN [array |-> array, res |-> r, patterns |-> pats]
  ELSE [array |-> Front(array), res |-> r, patterns |-> pats \ {Last(array).at}]

\* What is left when the last entry was discarded, if needed: the array and what is
\* allocated.
DiscardLast(array, r, pats) ==
  IF Len(array) < MAX_CACHED_RES THEN [array |-> array, res |-> r, patterns |-> pats]
  ELSE [array |-> Front(array), res |-> pg_regfree(r, Last(array).at), patterns |-> pats \ {Last(array).at}]

Given(key) ==
  /\ re' = <<key>>
  /\ recent' = <<key>> \o SelectSeq(recent, LAMBDA k : k # key)

\* Found: it moves to the front.
Hit(key, i) ==
  /\ re_array' = <<re_array[i]>> \o RemoveAt(re_array, i)
  /\ Given(key)
  /\ UNCHANGED <<res, patterns>>

\* It does not compile, the compilation is cancelled, or there is no memory for the
\* pattern: an error.
Miss(key) ==
  LET at == NewPlace
      compiled == [p \in DOMAIN res \cup {at} |-> IF p = at THEN key ELSE res[p]]
  IN  \/ re' = << >> /\ UNCHANGED <<re_array, res, patterns, recent>>
      \/ /\ key.pat \in Valid
         /\ res' = pg_regfree(compiled, at)
         /\ re' = << >> /\ UNCHANGED <<re_array, patterns, recent>>
      \/ /\ key.pat \in Valid
         /\ LET left == DiscardLast(re_array, compiled, patterns \cup {at}) IN
            /\ re_array' = <<[key |-> key, at |-> at]>> \o left.array
            /\ res' = left.res /\ patterns' = left.patterns
         /\ Given(key)

RE_compile_and_cache(key) ==
  LET i == SelectInSeq(re_array, LAMBDA entry : entry.key = key)
  IN  IF i # 0 THEN Hit(key, i) ELSE Miss(key)

\* A function with options, a pattern and the collation of its arguments.
Call(opts, pattern, collation) ==
  LET flags == parse_re_flags(opts) IN
  IF flags = << >> THEN re' = << >> /\ UNCHANGED <<re_array, res, patterns, recent>>
  ELSE RE_compile_and_cache([pat |-> pattern, flags |-> flags[1].cflags, collation |-> collation])

\* The search goes on, once for each match, until there is none or it fails.
RE_wchar_execute ==
  /\ re # << >>
  /\ \E result \in {"REG_OKAY", "REG_NOMATCH", "REG_CANCEL"} :
       re' = IF result = "REG_OKAY" THEN re ELSE << >>
  /\ UNCHANGED <<re_array, res, patterns, recent>>

Init == re_array = << >> /\ res = << >> /\ patterns = {} /\ re = << >> /\ recent = << >>
Next ==
  \/ \E opts \in Called, pattern \in Patterns, collation \in Collations : Call(opts, pattern, collation)
  \/ RE_wchar_execute
Spec == Init /\ [][Next]_vars

-----------------------------------------------------------------------------
(* The entries are the last keys that were asked for with success, in that *)
(* order, each with what was compiled for it; nothing else is allocated,   *)
(* whichever calls failed; and the caller has the RE that it asked for.    *)
CacheKept ==
  /\ [i \in DOMAIN re_array |-> re_array[i].key] = SubSeq(recent, 1, Min({MAX_CACHED_RES, Len(recent)}))
  /\ IsInjective([i \in DOMAIN re_array |-> re_array[i].at])
  /\ \A i \in DOMAIN re_array : re_array[i].at \in DOMAIN res /\ res[re_array[i].at] = re_array[i].key
  /\ DOMAIN res = {re_array[i].at : i \in DOMAIN re_array} /\ patterns = DOMAIN res
  /\ re # << >> => re_array # << >> /\ re_array[1].key = re[1]

(* The flags are those of the options that are given, and of options that  *)
(* exclude each other, the last one decides.  What "e" makes of the flavor *)
(* is left to PlainExpressions.                                            *)
LastOf(opts, letters) ==
  LET at == {i \in DOMAIN opts : opts[i] \in letters} IN IF at = {} THEN "none" ELSE opts[Max(at)]
OptionsRead ==
  \A opts \in Options :
    LET flags == parse_re_flags(opts)
        flavor == LastOf(opts, {"b", "e", "q"})
        lines == LastOf(opts, {"m", "n", "p", "s", "w"})
        said(cflags) == IF flavor = "e" THEN cflags \ REG_ADVANCED ELSE cflags
    IN  flags # << >> =>
          [flags[1] EXCEPT !.cflags = said(@)] =
            [glob |-> "g" \in ToSet(opts),
             cflags |->
               (IF flavor = "none" THEN REG_ADVANCED ELSE IF flavor = "q" THEN {"REG_QUOTE"} ELSE {})
               \cup (IF LastOf(opts, {"c", "i"}) = "i" THEN {"REG_ICASE"} ELSE {})
               \cup (IF LastOf(opts, {"t", "x"}) = "x" THEN {"REG_EXPANDED"} ELSE {})
               \cup (IF lines \in {"m", "n", "p"} THEN {"REG_NLSTOP"} ELSE {})
               \cup (IF lines \in {"m", "n", "w"} THEN {"REG_NLANCH"} ELSE {})]

(* orafce_fn.cpp:909: the option "e" stands for "plain EREs", extended     *)
(* regular expressions that are not the advanced ones, whatever options    *)
(* stand before it.                                                        *)
PlainExpressions ==
  \A opts \in Options :
    LET flags == parse_re_flags(opts) IN
    flags # << >> /\ LastOf(opts, {"b", "e", "q"}) = "e" =>
      flags[1].cflags \cap (REG_ADVANCED \cup {"REG_QUOTE"}) = {"REG_EXTENDED"}

(* A backslash escapes what follows it unless it is escaped itself, that   *)
(* is, unless an odd number of backslashes is before it.                   *)
EscapesTold ==
  \A text \in Replacements :
    LET run(i) == CHOOSE n \in 0 .. i : /\ \A k \in i - n + 1 .. i : text[k] = "\\"
                                        /\ n = i \/ text[i - n] # "\\"
        escaped == {i \in 2 .. Len(text) : run(i - 1) % 2 = 1}
    IN  check_replace_text_has_escape(text) =
          IF \E i \in escaped : text[i] \in {"1", "9"} THEN 2 ELSE IF escaped # {} THEN 1 ELSE 0

RegexKept == CacheKept /\ (recent = << >> => OptionsRead /\ EscapesTold)
=============================================================================

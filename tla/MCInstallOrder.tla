--------------------------- MODULE MCInstallOrder ---------------------------
(***************************************************************************)
(* The orders computed from the extension database, over every acyclic     *)
(* dependency relation on a few names (at most two dependencies each, in   *)
(* either order) and every choice of the names CREATE EXTENSION is issued  *)
(* for, compared with a definition by closed sets.                         *)
(***************************************************************************)
EXTENDS Naturals, Sequences, FiniteSets, SequencesExt

CONSTANTS Names, NotCreated

VARIABLES entry, pair
vars == <<entry, pair>>

DB == INSTANCE ExtnDB WITH Extns <- Names, Entry <- entry

Record(deps, noCreate) ==
  [hasDeps |-> deps # << >>, deps |-> deps, opts |-> {}, download |-> "git",
   install |-> "pgxs", noPreload |-> "absent", noCreate |-> noCreate,
   test |-> "pg_regress", suiteOk |-> TRUE, loads |-> << >>]

DepLists == {<< >>} \cup {<<a>> : a \in Names}
            \cup {<<p[1], p[2]>> : p \in {q \in Names \X Names : q[1] # q[2]}}

Init ==
  /\ entry \in {[n \in Names |-> Record(deps[n], IF n \in NotCreated THEN "true" ELSE "absent")] :
                  deps \in [Names -> DepLists]}
  /\ DB!ProperDatabase
  /\ pair = << >>

Ask ==
  /\ pair = << >>
  /\ \E t, c \in Names : t # c /\ pair' = <<t, c>>
  /\ UNCHANGED entry

Spec == Init /\ [][Ask]_vars

-----------------------------------------------------------------------------
(* What is downloaded, built and preloaded for a pair is what the pair     *)
(* needs, directly or not, each once and after what it depends on.         *)
InstallOrderSound == pair # << >> => DB!InstallsInOrder(pair)

(* The benchmark creates every extension of the pair that can be created,  *)
(* none before one it depends on, in both directions.  The loads of        *)
(* pg_regress are in an order that works except for the pairs where another*)
(* load depends on the extension under test, and such a pair (README.md:32:*)
(* the program "will load and install both") fails whatever the two do.    *)
LoadsInOrder ==
  pair # << >> =>
    /\ DB!BenchesInOrder(pair[1], pair[2])
    /\ DB!RegressInOrder(pair[1], pair[2])
=============================================================================

------------------------------ MODULE SampleDB ------------------------------
(***************************************************************************)
(* A small extension database for model checking: one extension of each    *)
(* kind the driver treats differently, named after the extn_info file it   *)
(* abridges.                                                               *)
(*   crypto  pgcrypto: contrib, a configure option, suite, no_preload      *)
(*   jwt     pgjwt: archive, depends on pgcrypto, no suite, no_preload     *)
(*   tle     pg_tle: archive, preloaded, suite with --load-extension       *)
(*   citus   citus: built by a script, its own configure option, and its   *)
(*           own test script                                               *)
(*   check   plpgsql_check: depends on plpgsql, which no file describes    *)
(*   drift   a cloned repository that may lose a file its test_list names      *)
(*   raw     an entry without download method and dependencies             *)
(***************************************************************************)
EXTENDS Sequences, TLC

CONSTANTS crypto, jwt, tle, citus, check, drift, raw, plpgsql, ssl, icu

AllNames == {crypto, jwt, tle, citus, check, drift, raw, plpgsql}
Described == AllNames \ {plpgsql}
AllOpts == {ssl, icu}

Plain == [hasDeps |-> TRUE, deps |-> << >>, opts |-> {}, download |-> "archive",
          install |-> "pgxs", noPreload |-> "absent", noCreate |-> "absent",
          test |-> "none", suiteOk |-> TRUE, loads |-> << >>]

Database ==
  crypto :> [Plain EXCEPT !.download = "contrib", !.opts = {ssl},
               !.noPreload = "true", !.test = "pg_regress"]
  @@ jwt :> [Plain EXCEPT !.deps = <<crypto>>, !.noPreload = "true"]
  @@ tle :> [Plain EXCEPT !.test = "pg_regress", !.loads = <<tle>>]
  @@ citus :> [Plain EXCEPT !.opts = {icu}, !.install = "shell_script",
                 !.test = "custom_test_script"]
  @@ check :> [Plain EXCEPT !.deps = <<plpgsql>>, !.test = "pg_regress"]
  @@ drift :> [Plain EXCEPT !.download = "git", !.test = "pg_regress", !.suiteOk = FALSE]
  @@ raw :> [Plain EXCEPT !.hasDeps = FALSE, !.download = "none"]
=============================================================================

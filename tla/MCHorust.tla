------------------------------ MODULE MCHorust ------------------------------
(***************************************************************************)
(* Instances of Horust for TLC.  Each Config is one set of .toml files,    *)
(* together with what their programs may do.                               *)
(***************************************************************************)
EXTENDS HorustClaims

CONSTANTS p1, p2, p3

OnePid    == {p1}
TwoPids   == {p1, p2}
ThreePids == {p1, p2, p3}
PidSymmetry == Permutations(Pids)

OneService  == {"a"}
OneOrder    == <<"a">>
TwoServices == {"a", "b"}
TwoOrder    == <<"a", "b">>

(* The defaults of formats/service.rs for a program that may end at any    *)
(* time, either way.  max-failed is scaled down from 3.                    *)
DefaultService ==
  [start_after |-> {}, shutdown_after |-> {}, die_if_failed |-> {},
   strategy |-> "never", attempts |-> 0, failure |-> "ignore",
   max_failed |-> 1, checks |-> {}, prepare_fails |-> FALSE,
   spawn_fails |-> FALSE, exits |-> BOOLEAN, on_term |-> BOOLEAN]

(* b starts after a, which shuts down after b.                             *)
ChainConfig ==
  [a |-> [DefaultService EXCEPT !.shutdown_after = {"b"}],
   b |-> [DefaultService EXCEPT !.start_after = {"a"}, !.exits = {TRUE}]]

(* A service that is always restarted, may be impossible to fork, and      *)
(* brings Horust down when it fails.                                       *)
RestartConfig ==
  [a |-> [DefaultService EXCEPT !.strategy = "always", !.spawn_fails = TRUE,
                                !.failure = "shutdown"]]

(* A service that the first failed check of a running instance kills, and  *)
(* that is restarted even so; it ends only when it is killed.              *)
CheckedConfig ==
  [a |-> [DefaultService EXCEPT !.strategy = "on-failure", !.max_failed = 0,
                                !.checks = {"command"}, !.exits = {},
                                !.on_term = {}]]

(* Each of a and b goes down with the other.  a ignores its signal and     *)
(* waits for b when Horust shuts down; b, which starts after it, may be     *)
(* impossible to prepare or to fork.                                       *)
FailuresConfig ==
  [a |-> [DefaultService EXCEPT !.failure = "kill-dependents",
                                !.die_if_failed = {"b"},
                                !.shutdown_after = {"b"},
                                !.exits = {FALSE}, !.on_term = {}],
   b |-> [DefaultService EXCEPT !.start_after = {"a"}, !.spawn_fails = TRUE,
                                !.prepare_fails = TRUE, !.exits = {FALSE}]]

(* Restarted even after a failed check and a SIGKILL, which it needs.      *)
ForcedRestartConfig ==
  [a |-> [DefaultService EXCEPT !.strategy = "on-failure", !.max_failed = 0,
                                !.checks = {"file_path"}, !.exits = {FALSE},
                                !.on_term = {}]]

(* The defaults.                                                           *)
PlainConfig == [a |-> DefaultService]

=============================================================================

----------------------------- MODULE MCCommands -----------------------------
(***************************************************************************)
(* Instances of Horust with its commands handler for TLC.                  *)
(***************************************************************************)
EXTENDS MCHorust, HorustCommands

CONSTANTS c1, c2

OneClient  == {c1}
TwoClients == {c1, c2}
SomeRequests == {"a", "change"}
NothingLeft  == {{}}
(* A socket file of the same pid, or of another one.                       *)
OneLeft      == {{"own"}, {"other"}}

(* A service that brings Horust down when it fails, or cannot be prepared  *)
(* or forked, and that would be restarted otherwise.                       *)
FailingConfig ==
  [a |-> [DefaultService EXCEPT !.failure = "shutdown", !.exits = {FALSE},
                                !.strategy = "always",
                                !.spawn_fails = TRUE, !.prepare_fails = TRUE]]

=============================================================================

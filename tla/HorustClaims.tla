---------------------------- MODULE HorustClaims ----------------------------
(***************************************************************************)
(* What a comment, an assertion or the documentation says of Horust and    *)
(* the code does not keep.  Each property quotes its source; TLC finds a   *)
(* behaviour that violates it.                                             *)
(***************************************************************************)
EXTENDS HorustRefinement

(* supervisor/mod.rs:104, on the field that holds the shutdown: "The       *)
(* system is shutting down, no more services will be spawned."  A Run      *)
(* command queued behind the shutdown is still obeyed.                     *)
NoSpawnDuringShutdown ==
  [][\A s \in Services : lifecycle # "Running" => ~Spawned(s)]_vars

(* docs/README.md:260 and 265: a Started or Running service whose process  *)
(* has ended moves on to Success or Failed.  A process that is reaped      *)
(* before its PidChanged is handled leaves no event behind, and its        *)
(* service is Running for ever.                                            *)
DeadServiceIsNoticed ==
  \A s \in Services :
    (sh[s].status \in {"Started", "Running"} /\ Alive(s) = {})
      ~> sh[s].status \notin {"Started", "Running"}

(* checks.rs:117, .expect("Failed to execute command"): whatever command a *)
(* worker has started, it learns how it ended.  The reaper of Horust, who  *)
(* waits for any child, may have taken the exit away.                      *)
StartedCheckIsExecuted ==
  [][\A s \in Services : command[s] # None => worker'[s] # "panicked"]_vars

=============================================================================

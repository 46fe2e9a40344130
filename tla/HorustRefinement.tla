-------------------------- MODULE HorustRefinement --------------------------
(***************************************************************************)
(* Horust implements Lifecycle: the statuses of the handlers, the spawner  *)
(* threads and the process table are mapped to its three variables.        *)
(***************************************************************************)
EXTENDS HorustProperties

StateOf(p) ==
  CASE proc[p].sig = "none" -> "up"
    [] proc[p].sig = "term" -> "asked"
    [] proc[p].sig = "kill" -> "doomed"

InstanceOf(s) ==
  CASE Alive(s) = {} /\ StillToFork(s) = 0 -> "none"
    [] Alive(s) = {} /\ StillToFork(s) = 1 -> "due"
    [] Cardinality(Alive(s)) = 1 /\ StillToFork(s) = 0 ->
         StateOf(CHOOSE p \in Alive(s) : TRUE)
    [] OTHER -> "several"

Abstract == INSTANCE Lifecycle WITH
  ShutdownAfter <- [s \in Services |-> Config[s].shutdown_after],
  instance <- [s \in Services |-> InstanceOf(s)],
  over <- {s \in Services : HasFinished(sh[s])},
  level <- lifecycle

(* Every step of Horust is a step of the abstract supervisor or leaves it  *)
(* as it is, however commands, exits, kills and forks interleave.          *)
ImplementsLifecycle == Abstract!LifecycleSpec

=============================================================================

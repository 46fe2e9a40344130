-------------------------- MODULE HorustProperties --------------------------
(***************************************************************************)
(* What Horust promises: safety, action and liveness properties of the     *)
(* composed system.  Which run checks which is in README.md.               *)
(***************************************************************************)
EXTENDS Horust

-----------------------------------------------------------------------------
(* Safety                                                                  *)

(* The pid.unwrap() of handle_event never meets a service without a pid:   *)
(* every ServiceExited event belongs to a registered process.              *)
NoPanic == phase # "panicked"

(* A service has at most one instance: one live process or one thread      *)
(* about to fork it, however many Run commands and exits are in flight.    *)
AtMostOneInstance ==
  \A s \in Services :
    Cardinality(Alive(s)) + StillToFork(s) <= 1

(* repo.pid_map and the pid fields of the handlers describe the same       *)
(* bijection, although the two are updated by different events.            *)
PidMapAgrees ==
  \A p \in Pids, s \in Services : pid_map[p] = s <=> sh[s].pid = p

(* When a service is reported Finished or FinishedFailed nothing of it is  *)
(* left: no thread is going to fork it and its process is dead or has been *)
(* sent SIGKILL.  Supervisor::run returns on the strength of this.         *)
FinishedMeansGone ==
  \A s \in Services : HasFinished(sh[s]) =>
    /\ ~Spawning(s)
    /\ \A p \in Alive(s) : proc[p].sig = "kill"

(* A service is only forked once everything it starts after got beyond     *)
(* Started, although the dependency was looked at when the Run command was *)
(* produced and not when it is carried out.                                *)
StartAfterIsRespected ==
  \A s \in Services : Spawning(s) \/ Alive(s) # {} =>
    \A d \in Config[s].start_after :
      sh[d].status \notin {"Initial", "Starting", "Started"}

-----------------------------------------------------------------------------
(* Action properties                                                       *)

Spawned(s) == StillToFork(s)' > StillToFork(s)

Signals(p, sig) ==
  proc[p].state = "alive" /\ proc[p].sig # sig /\ proc'[p].sig = sig

(* Finished and FinishedFailed are final: no late event of a spawner, of   *)
(* the reaper or of another service takes a service out of them.           *)
FinishedIsFinal ==
  [][\A s \in Services : HasFinished(sh[s]) => sh'[s].status = sh[s].status]_vars

(* A shutdown never gets weaker: neither a duplicate or late               *)
(* ShuttingDownInitiated nor a failing service leads from Forcefully back  *)
(* to Gracefully, nor from either back to Running.                         *)
ShutdownOnlyEscalates ==
  [][/\ lifecycle = "Forcefully" => lifecycle' = "Forcefully"
     /\ lifecycle = "Gracefully" => lifecycle' # "Running"]_vars

(* No spawner thread is started once the shutdown is forceful, although    *)
(* Run commands of before the shutdown may still be queued when it begins. *)
NothingSpawnedWhenForced ==
  [][\A s \in Services : lifecycle = "Forcefully" => ~Spawned(s)]_vars

(* During a graceful shutdown a service is sent its termination signal     *)
(* only after every service of its shutdown-after list is really gone.     *)
ShutdownAfterIsRespected ==
  [][\A p \in Pids : Signals(p, "term") /\ lifecycle = "Gracefully" =>
       \A d \in Config[proc[p].owner].shutdown_after :
         ~Spawning(d) /\ \A q \in Alive(d) : proc[q].sig = "kill"]_vars

-----------------------------------------------------------------------------
(* Liveness                                                                *)

(* Once a shutdown has begun, everything comes to an end: the supervisor   *)
(* returns, and so do the monitor, its workers, the spawners and the bus.  *)
ShutdownTerminates == lifecycle # "Running" ~> Terminated

(* So it does when checks run commands whose end the reaper may take away, *)
(* workers and the monitor panic over that, and services are restarted     *)
(* while their killed instances linger; but for a supervisor that panics.  *)
ShutdownTerminatesUnlessPanic ==
  lifecycle # "Running" ~> Terminated \/ phase = "panicked"

(* A service that fails under the shutdown strategy brings Horust down.    *)
FailureShutsDown ==
  \A s \in Services :
    (sh[s].status = "Failed" /\ Config[s].failure = "shutdown") ~> Terminated

(* A service that fails under kill-dependents, or that others die with,    *)
(* takes these services to an end.                                         *)
FailureSpreads ==
  \A s \in Services, d \in Services :
    /\ sh[s].status = "Failed"
    /\ \/ Config[s].failure = "kill-dependents" /\ s \in Config[d].start_after
       \/ s \in Config[d].die_if_failed
    ~> HasFinished(sh[d])

=============================================================================

------------------------------ MODULE Formats ------------------------------
(***************************************************************************)
(* The vocabulary of horust/src/horust/formats: the part of a service's    *)
(* configuration that steers the supervisor, the statuses of a service,    *)
(* and the events that travel on the bus.                                  *)
(***************************************************************************)
EXTENDS Integers, Sequences, FiniteSets

CONSTANTS Services,   \* names of the services Horust was started with
          Pids,       \* process ids the kernel can hand out
          Config,     \* Config[s]: what the .toml file of s says
          ServiceOrder, \* the iteration order of the HashMap Repo.services
          None        \* Option::None, for a pid or a service

Strategies == {"always", "on-failure", "never"}
FailureStrategies == {"shutdown", "kill-dependents", "ignore"}
Checks == {"http_endpoint", "file_path", "command"}

(* start_after, shutdown_after and die_if_failed hold names of services;   *)
(* checks are the healthiness checks that are defined.  The last four      *)
(* fields describe the world: whether preparing the checks can fail,       *)
(* whether forking the program can fail, how the program may end on its    *)
(* own and upon SIGTERM (TRUE: with a successful exit code).               *)
ServiceType ==
  [start_after    : SUBSET Services,
   shutdown_after : SUBSET Services,
   die_if_failed  : SUBSET Services,
   strategy       : Strategies,
   attempts       : Nat,
   failure        : FailureStrategies,
   max_failed     : Nat,
   checks         : SUBSET Checks,
   prepare_fails  : BOOLEAN,
   spawn_fails    : BOOLEAN,
   exits          : SUBSET BOOLEAN,
   on_term        : SUBSET BOOLEAN]

ASSUME ServicesAssumption == IsFiniteSet(Services)
ASSUME PidsAssumption == IsFiniteSet(Pids)
ASSUME ConfigAssumption == Config \in [Services -> ServiceType]
ASSUME NoneAssumption == None \notin Services \cup Pids
ASSUME OrderAssumption ==
  /\ ServiceOrder \in Seq(Services)
  /\ \A s \in Services : \E i \in DOMAIN ServiceOrder : ServiceOrder[i] = s

Statuses == {"Initial", "Starting", "Started", "Running", "InKilling",
             "Success", "Failed", "Finished", "FinishedFailed"}
TerminalStatuses == {"Finished", "FinishedFailed"}

ShuttingDown == {"Gracefully", "Forcefully"}
LifecycleStatuses == {"Running"} \cup ShuttingDown

-----------------------------------------------------------------------------
(* Events.  The exit code of a process is abstracted to whether it is one  *)
(* of the service's successful exit codes.                                 *)

PidChanged(s, p)       == [kind |-> "PidChanged", svc |-> s, pid |-> p]
StatusUpdate(s, st)    == [kind |-> "StatusUpdate", svc |-> s, status |-> st]
StatusChanged(s, st)   == [kind |-> "StatusChanged", svc |-> s, status |-> st]
ServiceExited(s, ok)   == [kind |-> "ServiceExited", svc |-> s, ok |-> ok]
ForceKill(s)           == [kind |-> "ForceKill", svc |-> s]
Kill(s)                == [kind |-> "Kill", svc |-> s]
SpawnFailed(s)         == [kind |-> "SpawnFailed", svc |-> s]
Run(s)                 == [kind |-> "Run", svc |-> s]
HealthCheck(s, h)      == [kind |-> "HealthCheck", svc |-> s, healthy |-> h]
ShuttingDownInitiated(sd) ==
  [kind |-> "ShuttingDownInitiated", mode |-> sd]

Event ==
  [kind : {"PidChanged"}, svc : Services, pid : Pids]
    \cup [kind : {"StatusUpdate", "StatusChanged"},
          svc : Services, status : Statuses]
    \cup [kind : {"ServiceExited"}, svc : Services, ok : BOOLEAN]
    \cup [kind : {"ForceKill", "Kill", "SpawnFailed", "Run"}, svc : Services]
    \cup [kind : {"HealthCheck"}, svc : Services, healthy : BOOLEAN]
    \cup [kind : {"ShuttingDownInitiated"}, mode : ShuttingDown]

=============================================================================

---------------------------- MODULE Healthcheck ----------------------------
(***************************************************************************)
(* horust/src/horust/healthcheck: the monitor thread, which starts and     *)
(* stops one worker thread per started service with checks (mod.rs), and   *)
(* the workers with their checks (checks.rs).  Whether a check succeeds is *)
(* up to the environment.  A command check runs a child process and waits  *)
(* for it; the reaper of the supervisor waits for every child, and may     *)
(* take its status away.                                                   *)
(***************************************************************************)
EXTENDS Bus, Processes, SequencesExt

VARIABLES worker,  \* worker[s]: "none", "running", "stopping" once told so,
                   \* or "panicked" until the monitor joins it
          command  \* command[s]: the child whose end the worker waits for

healthVars == <<worker, command>>

HealthcheckTypeOK ==
  /\ worker \in [Services -> {"none", "running", "stopping", "panicked"}]
  /\ command \in [Services -> Pids \cup {None}]

HealthcheckInit ==
  /\ worker = [s \in Services |-> "none"]
  /\ command = [s \in Services |-> None]

HasWorker(s) == worker[s] \in {"running", "stopping"}

HasAnyCheckDefined(s) == Config[s].checks # {}

-----------------------------------------------------------------------------
(* The monitor                                                             *)

Monitoring(kind) ==
  /\ inbox["healthcheck"] # <<>>
  /\ Head(inbox["healthcheck"]).kind = kind

Consume == inbox' = [inbox EXCEPT !["healthcheck"] = Tail(@)]

(* A service without checks is reported healthy once and for all.          *)
ReportWithoutChecks ==
  /\ Monitoring("StatusChanged")
  /\ LET s == Head(inbox["healthcheck"]).svc
     IN /\ ~HasAnyCheckDefined(s)
        /\ pipe' = Append(pipe, HealthCheck(s, TRUE))
  /\ Consume
  /\ UNCHANGED <<joined, healthVars>>

StartWorker ==
  /\ Monitoring("StatusChanged")
  /\ LET s == Head(inbox["healthcheck"]).svc
     IN /\ HasAnyCheckDefined(s)
        /\ worker[s] = "none"
        /\ worker' = [worker EXCEPT ![s] = "running"]
  /\ Consume
  /\ UNCHANGED <<pipe, joined, command>>

(* stop_worker: notify the worker, then wait for it (the event stays at    *)
(* the head of the queue until the worker has ended).  That a worker has   *)
(* panicked is only logged.                                                *)
StopWorker ==
  /\ Monitoring("StatusChanged") \/ Monitoring("ServiceExited")
  /\ LET s == Head(inbox["healthcheck"]).svc
     IN \/ worker[s] = "running" /\ worker' = [worker EXCEPT ![s] = "stopping"]
        \/ worker[s] = "panicked" /\ worker' = [worker EXCEPT ![s] = "none"]
  /\ UNCHANGED <<busVars, command>>

WorkerIsStopped ==
  /\ Monitoring("ServiceExited")
  /\ worker[Head(inbox["healthcheck"]).svc] = "none"
  /\ Consume
  /\ UNCHANGED <<pipe, joined, healthVars>>

Told ==
  [s \in Services |-> IF worker[s] = "running" THEN "stopping" ELSE worker[s]]

StopAllWorkers ==
  /\ Monitoring("ShuttingDownInitiated")
  /\ \E s \in Services : worker[s] = "running"
  /\ worker' = Told
  /\ UNCHANGED <<busVars, command>>

MonitorEnds ==
  /\ Monitoring("ShuttingDownInitiated")
  /\ \A s \in Services : worker[s] = "none"
  /\ Leave("healthcheck")
  /\ UNCHANGED <<pipe, healthVars>>

(* The unwrap() of the message to a panicked worker, or of its join: the   *)
(* monitor panics in turn.  The notifiers of the other workers are dropped *)
(* with it, which ends them.                                               *)
MonitorPanics ==
  /\ Monitoring("ShuttingDownInitiated")
  /\ \E s \in Services : worker[s] = "panicked"
  /\ worker' = Told
  /\ Leave("healthcheck")
  /\ UNCHANGED <<pipe, command>>

MonitorStep ==
  \/ ReportWithoutChecks \/ StartWorker \/ StopWorker \/ WorkerIsStopped
  \/ StopAllWorkers \/ MonitorEnds \/ MonitorPanics

-----------------------------------------------------------------------------
(* The workers                                                             *)

(* Bound: a worker reports once a second, the supervisor reads every 300   *)
(* ms; one report at a time is under way to it.                            *)
ReportUnderWay(s) ==
  \E ev \in ToSet(pipe) \cup ToSet(inbox["supervisor"]) :
    ev.kind = "HealthCheck" /\ ev.svc = s

(* check_health without the command check, which comes last: all checks    *)
(* have passed, or one has failed and the rest is skipped.                 *)
FastOutcomes(s) ==
  CASE "command" \notin Config[s].checks -> BOOLEAN
    [] Config[s].checks = {"command"}    -> {}
    [] OTHER                             -> {FALSE}

Reports(s, healthy) == pipe' = Append(pipe, HealthCheck(s, healthy))

WorkerReports(s) ==
  /\ worker[s] = "running"
  /\ command[s] = None
  /\ ~ReportUnderWay(s)
  /\ \E healthy \in FastOutcomes(s) : Reports(s, healthy)
  /\ UNCHANGED <<inbox, joined, healthVars, proc>>

(* A worker told to stop in the middle of a check still reports it.        *)
WorkerEnds(s) ==
  /\ worker[s] = "stopping"
  /\ command[s] = None
  /\ worker' = [worker EXCEPT ![s] = "none"]
  /\ UNCHANGED pipe \/ \E healthy \in FastOutcomes(s) : Reports(s, healthy)
  /\ UNCHANGED <<inbox, joined, command, proc>>

CommandStarts(s) ==
  /\ HasWorker(s)
  /\ "command" \in Config[s].checks
  /\ command[s] = None
  /\ ~ReportUnderWay(s)
  /\ \E p \in FreePids :
       /\ Fork(s, p, "check")
       /\ command' = [command EXCEPT ![s] = p]
  /\ UNCHANGED <<busVars, worker>>

(* Command::output collects the child it has started.                      *)
CommandEnds(s) ==
  LET p == command[s] IN
  /\ p # None
  /\ proc[p].state = "zombie"
  /\ Reports(s, proc[p].ok)
  /\ proc' = [proc EXCEPT ![p] = Gone]
  /\ command' = [command EXCEPT ![s] = None]
  /\ worker' = [worker EXCEPT ![s] = IF @ = "stopping" THEN "none" ELSE @]
  /\ UNCHANGED <<inbox, joined>>

WorkerPanics(s) ==
  /\ worker' = [worker EXCEPT ![s] = "panicked"]
  /\ command' = [command EXCEPT ![s] = None]
  /\ UNCHANGED <<busVars, proc>>

(* expect("Failed to execute command"): there is no process to be had.     *)
CommandCannotStart(s) ==
  /\ HasWorker(s)
  /\ "command" \in Config[s].checks
  /\ command[s] = None
  /\ FreePids = {}
  /\ WorkerPanics(s)

(* The same expect(): somebody else has waited for the child.              *)
CommandIsStolen(s) ==
  /\ command[s] # None
  /\ proc[command[s]].state \in {"free", "reaped"}
  /\ WorkerPanics(s)

WorkerWaits(s) == CommandEnds(s) \/ CommandIsStolen(s)

WorkerStep(s) ==
  \/ WorkerReports(s) \/ WorkerEnds(s)
  \/ CommandStarts(s) \/ CommandCannotStart(s) \/ WorkerWaits(s)

=============================================================================

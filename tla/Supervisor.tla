----------------------------- MODULE Supervisor -----------------------------
(***************************************************************************)
(* horust/src/horust/supervisor: the supervisor thread (mod.rs), the pid   *)
(* map (repo.rs), the reaper (reaper.rs), the SIGTERM flag                 *)
(* (signal_handling.rs) and the spawner threads (process_spawner.rs).      *)
(*                                                                         *)
(* One iteration of Supervisor::run is Ingest, one Handle action per       *)
(* ingested event, Produce, and one Send per event it emits.  The thread   *)
(* then sleeps: phase stays "producing" with nothing left to send.         *)
(***************************************************************************)
EXTENDS ServiceHandler, Bus, Processes

CONSTANTS MaxReaps,    \* MAX_PROCESS_REAPS_ITERS
          IsInit,      \* Horust runs as pid 1
          MaxLag,      \* bound: undelivered events when an iteration starts
          MaxBacklog,  \* bound: events then waiting for the monitor
          MaxSigterms  \* bound: SIGTERMs Horust receives

ASSUME BoundsAssumption ==
  /\ MaxReaps \in Nat /\ MaxLag \in Nat /\ MaxBacklog \in Nat
  /\ MaxSigterms \in Nat
  /\ IsInit \in BOOLEAN

VARIABLES sh,         \* repo.services
          pid_map,    \* repo.pid_map
          lifecycle,  \* Supervisor.status
          phase,      \* where Supervisor::run is
          batch,      \* ingested events not yet handled
          out,        \* lists of events this iteration has still to send
          sigterm,    \* SIGTERM_RECEIVED
          sigterms,   \* how many SIGTERMs have been received
          spawners    \* per service: threads that have still to fork, those
                      \* with a shutdown in their queue counted apart, and
                      \* the pids forked and not yet reported

threadVars == <<lifecycle, phase, batch, out>>
repoVars == <<sh, pid_map>>
signalVars == <<sigterm, sigterms>>
supervisorVars == <<repoVars, threadVars, signalVars, spawners, proc>>

Phases == {"producing", "handling", "returned", "panicked"}

Spawners == [fresh : Nat, told : Nat, forked : SUBSET Pids]
NoSpawner == [fresh |-> 0, told |-> 0, forked |-> {}]

SupervisorTypeOK ==
  /\ sh \in [Services -> ServiceHandlerType]
  /\ pid_map \in [Pids -> Services \cup {None}]
  /\ lifecycle \in LifecycleStatuses
  /\ phase \in Phases
  /\ batch \in Seq(Event)
  /\ out \in Seq(Seq(Event))
  /\ sigterm \in BOOLEAN
  /\ sigterms \in Nat
  /\ spawners \in [Services -> Spawners]

SupervisorInit ==
  /\ sh = [s \in Services |-> NewServiceHandler]
  /\ pid_map = [p \in Pids |-> None]
  /\ lifecycle = "Running"
  /\ phase = "producing"
  /\ batch = <<>>
  /\ out = <<>>
  /\ sigterm = FALSE
  /\ sigterms = 0
  /\ spawners = [s \in Services |-> NoSpawner]
  /\ ProcessesInit

AllHaveFinished == \A s \in Services : HasFinished(sh[s])

(* Repo::add_pid and Repo::remove_pid                                      *)
AddPid(p, s) == [pid_map EXCEPT ![p] = s]

(* Variation: nothing is removed.                                          *)
KeepPid(p) == pid_map

RemovePid(p) == [pid_map EXCEPT ![p] = None]

(* out without the lists that have been sent.                              *)
Drained(lists) ==
  IF \A i \in DOMAIN lists : lists[i] = <<>> THEN <<>> ELSE lists

-----------------------------------------------------------------------------
(* Supervisor::run                                                         *)

(* The SIGTERM flag is looked at after the events have been taken and      *)
(* before any of them is handled.                                          *)
SigtermRequest ==
  CASE sigterm /\ lifecycle = "Running" ->
         <<ShuttingDownInitiated("Gracefully")>>
    [] sigterm /\ lifecycle = "Gracefully" ->
         <<ShuttingDownInitiated("Forcefully")>>
    [] OTHER -> <<>>

Asleep == phase = "producing" /\ out = <<>>

Ingest ==
  /\ Asleep
  /\ ~AllHaveFinished
  /\ Len(pipe) <= MaxLag
  /\ Len(inbox["healthcheck"]) <= MaxBacklog
  /\ batch' = inbox["supervisor"]
  /\ inbox' = [inbox EXCEPT !["supervisor"] = <<>>]
  /\ pipe' = pipe \o SigtermRequest
  /\ phase' = "handling"
  /\ UNCHANGED <<joined, repoVars, lifecycle, out, signalVars, spawners, proc>>

(* The next events of every service, then what the reaper collected: up to *)
(* MaxReaps zombies, in any order; those whose pid nobody registered leave *)
(* no event behind.                                                        *)
Produce ==
  /\ phase = "handling"
  /\ batch = <<>>
  /\ \E reaped \in SUBSET Zombies :
       /\ Cardinality(reaped) = AtMost(Cardinality(Zombies), MaxReaps)
       /\ \E order \in SetToSeqs({p \in reaped : pid_map[p] # None}) :
            out' = Drained(
              out \o [i \in DOMAIN ServiceOrder |->
                        NextEvents(sh, ServiceOrder[i], lifecycle)]
                  \o <<[i \in DOMAIN order |->
                          ServiceExited(pid_map[order[i]],
                                        proc[order[i]].ok)]>>)
       /\ proc' = [p \in Pids |-> IF p \in reaped THEN Gone ELSE proc[p]]
  /\ phase' = "producing"
  /\ UNCHANGED <<busVars, repoVars, lifecycle, batch, signalVars, spawners>>

Send ==
  /\ phase = "producing"
  /\ \E i \in DOMAIN out :
       /\ out[i] # <<>>
       /\ \A j \in 1..(i - 1) : out[j] = <<>>
       /\ pipe' = Append(pipe, Head(out[i]))
       /\ out' = Drained([out EXCEPT ![i] = Tail(out[i])])
  /\ UNCHANGED <<inbox, joined, repoVars, lifecycle, phase, batch, signalVars,
                 spawners, proc>>

(* Every service has finished: the last shutdown tells the other threads   *)
(* to stop.  As pid 1 Horust first sends SIGTERM and then SIGKILL to all   *)
(* processes.                                                              *)
Return ==
  /\ Asleep
  /\ AllHaveFinished
  /\ phase' = "returned"
  /\ proc' = [p \in Pids |->
                IF IsInit THEN Signalled(p, "kill")[p] ELSE proc[p]]
  /\ pipe' = Append(pipe, ShuttingDownInitiated("Gracefully"))
  /\ Leave("supervisor")
  /\ UNCHANGED <<repoVars, lifecycle, batch, out, signalVars, spawners>>

-----------------------------------------------------------------------------
(* Supervisor::handle_event, one action per arm                            *)

Handling(kind) ==
  /\ phase = "handling"
  /\ batch # <<>>
  /\ Head(batch).kind = kind

(* The event has been handled and produced evs.                            *)
Done(evs) ==
  /\ batch' = Tail(batch)
  /\ out' = IF evs = <<>> THEN out ELSE Append(out, evs)
  /\ UNCHANGED <<busVars, phase, sigterms>>

ExitedHandler(s, ok) ==
  LET failed_checks == HasSomeFailedHealthchecks(sh[s])
      too_early == failed_checks /\ IsEarlyState(sh[s])
      has_failed == \/ ~ok
                    \/ sh[s].status = "Running" /\ failed_checks
      h == [sh[s] EXCEPT
              !.shutting_down_start = "none",
              !.pid = None,
              !.restart_attempts =
                 IF too_early THEN AtMost(@ + 1, Config[s].attempts + 1)
                              ELSE @]
  IN ChangeStatus(h, IF has_failed THEN "Failed" ELSE "Success")

HandleServiceExited ==
  /\ Handling("ServiceExited")
  /\ LET s == Head(batch).svc
         h == ExitedHandler(s, Head(batch).ok)
     IN /\ sh[s].pid # None
        /\ pid_map' = RemovePid(sh[s].pid)
        /\ sh' = [sh EXCEPT ![s] = h]
        /\ Done(<<StatusChanged(s, h.status)>>)
  /\ UNCHANGED <<lifecycle, sigterm, spawners, proc>>

(* pid.unwrap() of a service that has no pid.                              *)
PanicOnServiceExited ==
  /\ Handling("ServiceExited")
  /\ sh[Head(batch).svc].pid = None
  /\ phase' = "panicked"
  /\ batch' = <<>>
  /\ out' = <<>>
  /\ Leave("supervisor")
  /\ UNCHANGED <<pipe, repoVars, lifecycle, signalVars, spawners, proc>>

(* Variation: Starting is not excluded.                                    *)
NotYetStarted(s) == sh[s].status \in {"Initial", "Starting"}

(* A Run command is obeyed only by a service in Initial.                   *)
MayRun(s) == sh[s].status = "Initial"

HandleRun ==
  /\ Handling("Run")
  /\ LET s == Head(batch).svc
     IN /\ MayRun(s)
        /\ sh' = [sh EXCEPT ![s].status = "Starting"]
        /\ spawners' = [spawners EXCEPT ![s].fresh = @ + 1]
        /\ Done(<<StatusChanged(s, "Starting")>>)
  /\ UNCHANGED <<pid_map, lifecycle, sigterm, proc>>

(* The healthiness checks of the service could not be prepared.            *)
HandleRunPrepareFails ==
  /\ Handling("Run")
  /\ LET s == Head(batch).svc
     IN /\ MayRun(s)
        /\ Config[s].prepare_fails
        /\ sh' = [sh EXCEPT ![s].status = "FinishedFailed"]
        /\ lifecycle' = "Gracefully"
        /\ Done(<<StatusUpdate(s, "FinishedFailed"),
                  ShuttingDownInitiated("Gracefully")>>)
  /\ UNCHANGED <<pid_map, sigterm, spawners, proc>>

HandleSpawnFailed ==
  /\ Handling("SpawnFailed")
  /\ LET s == Head(batch).svc
     IN /\ sh' = [sh EXCEPT ![s].status = "Failed"]
        /\ Done(<<StatusUpdate(s, "Failed")>>)
  /\ UNCHANGED <<pid_map, lifecycle, sigterm, spawners, proc>>

HandleKill ==
  /\ Handling("Kill")
  /\ LET s == Head(batch).svc
     IN /\ sh[s].status = "InKilling"
        /\ sh' = [sh EXCEPT ![s].shutting_down_start = "armed"]
        /\ proc' = Signalled(sh[s].pid, "term")
        /\ Done(<<>>)
  /\ UNCHANGED <<pid_map, lifecycle, sigterm, spawners>>

(* Variation: the pid is cleared first.                                    *)
ForceKillForgetsPid ==
  /\ Handling("ForceKill")
  /\ LET s == Head(batch).svc
     IN /\ sh[s].status = "InKilling"
        /\ sh' = [sh EXCEPT ![s].status = "Failed", ![s].pid = None]
        /\ proc' = Signalled(sh'[s].pid, "kill")
        /\ Done(<<StatusChanged(s, "Failed")>>)
  /\ UNCHANGED <<pid_map, lifecycle, sigterm, spawners>>

HandleForceKill ==
  /\ Handling("ForceKill")
  /\ LET s == Head(batch).svc
     IN /\ sh[s].status = "InKilling"
        /\ sh' = [sh EXCEPT ![s].status = "Failed"]
        /\ proc' = Signalled(sh[s].pid, "kill")
        /\ Done(<<StatusChanged(s, "Failed")>>)
  /\ UNCHANGED <<pid_map, lifecycle, sigterm, spawners>>

(* Variation: a kill that came before the pid is forgotten.                *)
PidChangedForgetsKill ==
  /\ Handling("PidChanged")
  /\ LET s == Head(batch).svc
         p == Head(batch).pid
     IN /\ pid_map' = AddPid(p, s)
        /\ \/ /\ sh[s].status = "InKilling"
              /\ sh' = [sh EXCEPT ![s].pid = p]
              /\ Done(<<>>)
           \/ /\ sh[s].status # "InKilling"
              /\ sh' = [sh EXCEPT ![s].pid = p, ![s].status = "Started"]
              /\ Done(<<StatusChanged(s, "Started")>>)
  /\ UNCHANGED <<lifecycle, sigterm, spawners, proc>>

(* A kill that came before the pid was known is carried out now.           *)
HandlePidChanged ==
  /\ Handling("PidChanged")
  /\ LET s == Head(batch).svc
         p == Head(batch).pid
     IN /\ pid_map' = AddPid(p, s)
        /\ \/ /\ sh[s].status = "InKilling"
              /\ sh' = [sh EXCEPT ![s].pid = p,
                                  ![s].shutting_down_start = "armed"]
              /\ proc' = Signalled(p, "term")
              /\ Done(<<>>)
           \/ /\ sh[s].status # "InKilling"
              /\ sh' = [sh EXCEPT ![s].pid = p, ![s].status = "Started"]
              /\ Done(<<StatusChanged(s, "Started")>>)
              /\ UNCHANGED proc
  /\ UNCHANGED <<lifecycle, sigterm, spawners>>

HandleHealthCheck ==
  /\ Handling("HealthCheck")
  /\ LET s == Head(batch).svc
     IN sh' = [sh EXCEPT
                 ![s] = AddHealthcheckEvent(s, sh[s], Head(batch).healthy)]
  /\ Done(<<>>)
  /\ UNCHANGED <<pid_map, lifecycle, sigterm, spawners, proc>>

HandleShuttingDownInitiated ==
  /\ Handling("ShuttingDownInitiated")
  /\ lifecycle' = Head(batch).mode
  /\ sigterm' = FALSE
  /\ Done(<<>>)
  /\ UNCHANGED <<repoVars, spawners, proc>>

HandleStatusUpdate ==
  /\ Handling("StatusUpdate")
  /\ LET s == Head(batch).svc
         h == ChangeStatus(sh[s], Head(batch).status)
     IN /\ sh' = [sh EXCEPT ![s] = h]
        /\ Done(IF h.status = sh[s].status THEN <<>>
                ELSE <<StatusChanged(s, h.status)>>)
  /\ UNCHANGED <<pid_map, lifecycle, sigterm, spawners, proc>>

(* A Run, Kill or ForceKill that comes in the wrong status is dropped.     *)
HandleIgnored ==
  /\ \/ Handling("Run") /\ ~MayRun(Head(batch).svc)
     \/ Handling("Kill") /\ sh[Head(batch).svc].status # "InKilling"
     \/ Handling("ForceKill") /\ sh[Head(batch).svc].status # "InKilling"
  /\ Done(<<>>)
  /\ UNCHANGED <<repoVars, lifecycle, sigterm, spawners, proc>>

HandleEvent ==
  \/ HandleServiceExited
  \/ PanicOnServiceExited
  \/ HandleRun
  \/ HandleRunPrepareFails
  \/ HandleSpawnFailed
  \/ HandleKill
  \/ HandleForceKill
  \/ HandlePidChanged
  \/ HandleHealthCheck
  \/ HandleShuttingDownInitiated
  \/ HandleStatusUpdate
  \/ HandleIgnored

SupervisorStep == Ingest \/ HandleEvent \/ Produce \/ Send \/ Return

-----------------------------------------------------------------------------
(* Spawner threads (process_spawner.rs).  A thread waits for its delay,    *)
(* which abstracts start_delay and backoff to any time at all, and forks;  *)
(* every 100 ms it looks for a shutdown in its own queue and gives up.     *)
(* Between the fork and the PidChanged event that reports it the child may *)
(* already run, exit and be reaped.                                        *)

StillToFork(s) == spawners[s].fresh + spawners[s].told
Spawning(s) == spawners[s] # NoSpawner

(* Variation: any counter may go down.                                     *)
SomeSpawnerEnds(s) ==
  \/ spawners' = [spawners EXCEPT ![s].fresh = @ - 1]
  \/ spawners' = [spawners EXCEPT ![s].told = @ - 1]

(* The thread ends; it is one of those that heard of a shutdown or not.    *)
SpawnerEnds(s) ==
  \/ /\ spawners[s].fresh > 0
     /\ spawners' = [spawners EXCEPT ![s].fresh = @ - 1]
  \/ /\ spawners[s].told > 0
     /\ spawners' = [spawners EXCEPT ![s].told = @ - 1]

SpawnerForks(s) ==
  /\ \E p \in FreePids :
       /\ Fork(s, p, "service")
       /\ \/ /\ spawners[s].fresh > 0
             /\ spawners' = [spawners EXCEPT ![s].fresh = @ - 1,
                                             ![s].forked = @ \cup {p}]
          \/ /\ spawners[s].told > 0
             /\ spawners' = [spawners EXCEPT ![s].told = @ - 1,
                                             ![s].forked = @ \cup {p}]
  /\ UNCHANGED <<busVars, repoVars, threadVars, signalVars>>

SpawnerReports(s) ==
  /\ \E p \in spawners[s].forked :
       /\ spawners' = [spawners EXCEPT ![s].forked = @ \ {p}]
       /\ pipe' = Append(pipe, PidChanged(s, p))
  /\ UNCHANGED <<inbox, joined, repoVars, threadVars, signalVars, proc>>

(* fork(2) or its preparation fails, for lack of a pid or otherwise.       *)
SpawnerFails(s) ==
  /\ StillToFork(s) > 0
  /\ Config[s].spawn_fails \/ FreePids = {}
  /\ SpawnerEnds(s)
  /\ pipe' = Append(pipe, SpawnFailed(s))
  /\ UNCHANGED <<inbox, joined, repoVars, threadVars, signalVars, proc>>

SpawnerGivesUp(s) ==
  /\ spawners[s].told > 0
  /\ spawners' = [spawners EXCEPT ![s].told = @ - 1]
  /\ pipe' = Append(pipe, SpawnFailed(s))
  /\ UNCHANGED <<inbox, joined, repoVars, threadVars, signalVars, proc>>

(* A dispatched shutdown reaches the queue of every spawner thread.        *)
SpawnersHear(ev) ==
  spawners' = IF ev.kind = "ShuttingDownInitiated"
                THEN [s \in Services |->
                        [spawners[s] EXCEPT !.fresh = 0,
                                            !.told = StillToFork(s)]]
                ELSE spawners

SpawnerStep(s) ==
  SpawnerForks(s) \/ SpawnerReports(s) \/ SpawnerFails(s) \/ SpawnerGivesUp(s)

-----------------------------------------------------------------------------
(* The world around the supervisor                                         *)

(* The supervisor thread has not ended: somebody looks at flags and clocks. *)
SupervisorIsUp == phase \in {"producing", "handling"}

(* The handler of SIGTERM and SIGINT.                                      *)
HandleSigterm ==
  /\ SupervisorIsUp
  /\ sigterms < MaxSigterms
  /\ sigterm' = TRUE
  /\ sigterms' = sigterms + 1
  /\ UNCHANGED <<busVars, repoVars, threadVars, spawners, proc>>

ProcessExits(p) ==
  /\ Exit(p)
  /\ UNCHANGED <<busVars, repoVars, threadVars, signalVars, spawners>>

(* termination.wait has elapsed since the shutdown of s started.           *)
GraceExpires(s) ==
  /\ SupervisorIsUp
  /\ sh[s].shutting_down_start = "armed"
  /\ sh' = [sh EXCEPT ![s].shutting_down_start = "expired"]
  /\ UNCHANGED <<busVars, pid_map, threadVars, signalVars, spawners, proc>>

=============================================================================

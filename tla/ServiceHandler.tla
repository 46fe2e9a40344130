--------------------------- MODULE ServiceHandler ---------------------------
(***************************************************************************)
(* horust/src/horust/supervisor/service_handler.rs: the finite state       *)
(* machine of one service.  Everything here is a pure operator on a handler *)
(* record h, on the handlers of all services sh and on the lifecycle.      *)
(***************************************************************************)
EXTENDS Formats, SequencesExt

(* healthiness_checks_failed: Option<i32> is -1 for None, and saturates    *)
(* one above max_failed, the largest value any test tells apart; for the   *)
(* same reason restart_attempts saturates one above attempts.              *)
(* shutting_down_start: Option<Instant> is "none", "armed" while less than *)
(* termination.wait has elapsed, and "expired" afterwards.                 *)
ServiceHandlerType ==
  [status : Statuses,
   pid : Pids \cup {None},
   restart_attempts : Nat,
   healthiness_checks_failed : Nat \cup {-1},
   shutting_down_start : {"none", "armed", "expired"}]

NewServiceHandler ==
  [status |-> "Initial", pid |-> None, restart_attempts |-> 0,
   healthiness_checks_failed |-> -1, shutting_down_start |-> "none"]

AtMost(n, cap) == IF n > cap THEN cap ELSE n

HasSomeFailedHealthchecks(h) == h.healthiness_checks_failed # 0
IsEarlyState(h) == h.status \in {"Initial", "Starting", "Started"}
IsAliveState(h) == h.status \in {"Starting", "Started", "Running"}
HasFinished(h) == h.status \in TerminalStatuses

RestartAttemptsAreOver(s, h) ==
  \/ Config[s].attempts = 0
  \/ h.restart_attempts > Config[s].attempts

AddHealthcheckEvent(s, h, healthy) ==
  LET previous == IF h.healthiness_checks_failed = -1
                    THEN 0 ELSE h.healthiness_checks_failed
      failed   == IF IsAliveState(h) /\ ~healthy THEN 1 ELSE 0
  IN [h EXCEPT !.healthiness_checks_failed =
                 AtMost(previous + failed, Config[s].max_failed + 1)]

-----------------------------------------------------------------------------
(* Status changes                                                          *)

ALLOWED_TRANSITIONS ==
  [Initial        |-> {"Success", "Failed"},
   Starting       |-> {"Initial"},
   Started        |-> {"Starting"},
   InKilling      |-> {"Initial", "Running", "Starting", "Started"},
   Running        |-> {"Started"},
   FinishedFailed |-> {"Starting", "Started", "Failed", "InKilling"},
   Success        |-> {"Starting", "Started", "Running", "InKilling"},
   Failed         |-> {"Starting", "Started", "Running", "InKilling"},
   Finished       |-> {"Success", "Initial"}]

(* Variation: the transition table is not consulted.                       *)
AnyChange(from, to) == from # to
IsAllowed(from, to) == from \in ALLOWED_TRANSITIONS[to]

(* An illegal transition is logged and leaves the handler as it is.        *)
ChangeStatus(h, new) ==
  IF ~IsAllowed(h.status, new) THEN h
  ELSE CASE new = "Started" -> [h EXCEPT !.status = new, !.restart_attempts = 0]
         [] new = "InKilling" /\ h.status = "Initial" ->
              [h EXCEPT !.status = "Success"]
         [] OTHER -> [h EXCEPT !.status = new]

-----------------------------------------------------------------------------
(* Queries of supervisor/repo.rs                                           *)

(* Variation: Started is enough.                                           *)
RunnableOnceStarted(sh, s) ==
  /\ sh[s].status = "Initial"
  /\ \A d \in Config[s].start_after :
       sh[d].status \in {"Started", "Running", "Finished"}

IsServiceRunnable(sh, s) ==
  /\ sh[s].status = "Initial"
  /\ \A d \in Config[s].start_after : sh[d].status \in {"Running", "Finished"}

(* Variation: being killed is enough.                                      *)
KillableOnceInKilling(sh, s) ==
  \A d \in Config[s].shutdown_after : ~IsAliveState(sh[d])

IsServiceKillable(sh, s) ==
  \A d \in Config[s].shutdown_after : HasFinished(sh[d])

Dependents(s)  == {d \in Services : s \in Config[d].start_after}

DieIfFailed(s) == {d \in Services : s \in Config[d].die_if_failed}

-----------------------------------------------------------------------------
(* The events that make the state machine of a service progress            *)

KillCommand(s) == <<StatusUpdate(s, "InKilling"), Kill(s)>>

(* Variation: the Kill commands are missing.                               *)
MarkAll(S) ==
  LET order == SetToSeq(S)
  IN [i \in 1..Cardinality(S) |-> StatusUpdate(order[i], "InKilling")]

(* The kill commands of all services of a set, one pair after the other.   *)
KillAll(S) ==
  LET order == SetToSeq(S)
  IN [i \in 1..(2 * Cardinality(S)) |->
        IF i % 2 = 1 THEN StatusUpdate(order[(i + 1) \div 2], "InKilling")
                     ELSE Kill(order[i \div 2])]

HandleRestartStrategy(s, h, is_failed) ==
  LET strategy == Config[s].strategy
      again == \/ strategy = "always"
               \/ strategy = "on-failure" /\ is_failed
               \/ /\ strategy = "never" /\ is_failed
                  /\ ~RestartAttemptsAreOver(s, h)
      stop == IF strategy = "never" /\ is_failed
                THEN "FinishedFailed" ELSE "Finished"
  IN StatusUpdate(s, IF again THEN "Initial" ELSE stop)

(* Variation: the shutdown strategy is forgotten.                          *)
NoShutdownOnFailure(s) ==
  IF Config[s].failure = "kill-dependents"
    THEN KillAll(Dependents(s)) ELSE <<>>

HandleFailedService(s) ==
  CASE Config[s].failure = "shutdown" ->
         <<ShuttingDownInitiated("Gracefully")>>
    [] Config[s].failure = "kill-dependents" -> KillAll(Dependents(s))
    [] Config[s].failure = "ignore" -> <<>>

(* Variation: the grace period is not looked at.                           *)
ForceKillOnRequest(h, lifecycle) == h.pid # None /\ lifecycle = "Forcefully"

(* A service in InKilling without a pid has not been forked yet.           *)
ShouldForceKill(h, lifecycle) ==
  /\ h.pid # None
  /\ lifecycle = "Forcefully" \/ h.shutting_down_start = "expired"

NextEventsRunning(sh, s) ==
  LET h == sh[s] IN
  CASE IsServiceRunnable(sh, s) -> <<Run(s)>>
    [] h.status = "Started" /\ ~HasSomeFailedHealthchecks(h) ->
         <<StatusUpdate(s, "Running")>>
    [] /\ h.status = "Running"
       /\ h.healthiness_checks_failed > Config[s].max_failed ->
         KillCommand(s)
    [] h.status = "Success" -> <<HandleRestartStrategy(s, h, FALSE)>>
    [] h.status = "Failed" ->
         HandleFailedService(s)
           \o <<HandleRestartStrategy(s, h, TRUE)>>
           \o KillAll(DieIfFailed(s))
    [] h.status = "InKilling" /\ ShouldForceKill(h, "Running") ->
         <<ForceKill(s), StatusChanged(s, "Failed")>>
    [] OTHER -> <<>>

NextEventsShuttingDown(sh, s, lifecycle) ==
  LET h == sh[s] IN
  CASE /\ h.status \in {"Running", "Started"}
       /\ lifecycle = "Forcefully" \/ IsServiceKillable(sh, s) ->
         KillCommand(s)
    [] h.status \in {"Success", "Initial"} -> <<StatusUpdate(s, "Finished")>>
    [] h.status = "Failed" -> <<StatusUpdate(s, "FinishedFailed")>>
    [] h.status = "InKilling" /\ ShouldForceKill(h, lifecycle) ->
         <<ForceKill(s)>>
    [] OTHER -> <<>>

(* Variation: a forceful shutdown is no shutdown.                          *)
NextEventsGracefulOnly(sh, s, lifecycle) ==
  IF lifecycle = "Gracefully" THEN NextEventsShuttingDown(sh, s, lifecycle)
                              ELSE NextEventsRunning(sh, s)

NextEvents(sh, s, lifecycle) ==
  IF lifecycle = "Running" THEN NextEventsRunning(sh, s)
                           ELSE NextEventsShuttingDown(sh, s, lifecycle)

=============================================================================

---------------------------- MODULE HorustProofs ----------------------------
(***************************************************************************)
(* Type correctness of Horust, proved for every set of services, of pids   *)
(* and every configuration.                                                *)
(***************************************************************************)
EXTENDS HorustProperties, FiniteSetTheorems, SequenceTheorems, TLAPS

-----------------------------------------------------------------------------
(* Events                                                                  *)

(* Every constructor of Formats yields an event.                           *)
LEMMA EventConstructors ==
  /\ \A s \in Services, p \in Pids : PidChanged(s, p) \in Event
  /\ \A s \in Services, st \in Statuses :
       StatusUpdate(s, st) \in Event /\ StatusChanged(s, st) \in Event
  /\ \A s \in Services, b \in BOOLEAN :
       ServiceExited(s, b) \in Event /\ HealthCheck(s, b) \in Event
  /\ \A s \in Services :
       /\ ForceKill(s) \in Event /\ Kill(s) \in Event
       /\ SpawnFailed(s) \in Event /\ Run(s) \in Event
  /\ \A sd \in ShuttingDown : ShuttingDownInitiated(sd) \in Event
BY DEF Event, PidChanged, StatusUpdate, StatusChanged, ServiceExited,
       HealthCheck, ForceKill, Kill, SpawnFailed, Run, ShuttingDownInitiated

(* What an event carries follows from its kind.                            *)
LEMMA EventFields ==
  ASSUME NEW ev \in Event
  PROVE  /\ ev.kind # "ShuttingDownInitiated" => ev.svc \in Services
         /\ ev.kind = "ShuttingDownInitiated" => ev.mode \in ShuttingDown
         /\ ev.kind = "PidChanged" => ev.pid \in Pids
         /\ ev.kind \in {"StatusUpdate", "StatusChanged"} =>
              ev.status \in Statuses
         /\ ev.kind = "ServiceExited" => ev.ok \in BOOLEAN
         /\ ev.kind = "HealthCheck" => ev.healthy \in BOOLEAN
BY DEF Event

(* Short lists of events, and their concatenations.                        *)
LEMMA EventLists ==
  /\ <<>> \in Seq(Event)
  /\ \A e \in Event : <<e>> \in Seq(Event)
  /\ \A e, f \in Event : <<e, f>> \in Seq(Event)
  /\ \A q, r \in Seq(Event) : q \o r \in Seq(Event)
OBVIOUS

(* SetToSeq enumerates a finite set.                                       *)
LEMMA SetToSeqType ==
  ASSUME NEW S, IsFiniteSet(S)
  PROVE  /\ Cardinality(S) \in Nat
         /\ SetToSeq(S) \in [1..Cardinality(S) -> S]
<1>1. Cardinality(S) \in Nat
  BY FS_CardinalityType
<1>2. \E f \in [1..Cardinality(S) -> S] : IsInjective(f)
  BY FS_CardinalityType DEF ExistsBijection, Bijection, Injection, IsInjective
<1> QED
  BY <1>1, <1>2 DEF SetToSeq

(* The kill commands of a set of services are events.                      *)
LEMMA KillAllType ==
  ASSUME NEW S \in SUBSET Services
  PROVE  KillAll(S) \in Seq(Event)
<1> DEFINE n == Cardinality(S)
           order == SetToSeq(S)
<1>1. n \in Nat /\ order \in [1..n -> S]
  BY SetToSeqType, ServicesAssumption, FS_Subset
<1> HIDE DEF n, order
<1>2. ASSUME NEW i \in 1..(2 * n)
      PROVE  (IF i % 2 = 1 THEN StatusUpdate(order[(i + 1) \div 2], "InKilling")
                           ELSE Kill(order[i \div 2])) \in Event
  <2>1. CASE i % 2 = 1
    <3>1. (i + 1) \div 2 \in 1..n
      BY <1>1, <2>1
    <3> QED BY <1>1, <2>1, <3>1, EventConstructors DEF Statuses
  <2>2. CASE i % 2 # 1
    <3>1. i \div 2 \in 1..n
      BY <1>1, <2>2
    <3> QED BY <1>1, <2>2, <3>1, EventConstructors
  <2> QED BY <2>1, <2>2
<1> QED
  BY <1>1, <1>2 DEF KillAll, n, order

-----------------------------------------------------------------------------
(* The state machine of a service                                          *)

(* A status change keeps the pid, the counters and the timer of a handler  *)
(* and gives it a status.                                                  *)
LEMMA ChangeStatusType ==
  ASSUME NEW h \in ServiceHandlerType, NEW new \in Statuses
  PROVE  ChangeStatus(h, new) \in ServiceHandlerType
<1>1. CASE ~IsAllowed(h.status, new)
  BY <1>1 DEF ChangeStatus
<1>2. CASE IsAllowed(h.status, new) /\ new = "Started"
  BY <1>2 DEF ChangeStatus, ServiceHandlerType
<1>3. CASE /\ IsAllowed(h.status, new)
           /\ new = "InKilling" /\ h.status = "Initial"
  BY <1>3 DEF ChangeStatus, ServiceHandlerType, Statuses
<1>4. CASE /\ IsAllowed(h.status, new) /\ new # "Started"
           /\ ~(new = "InKilling" /\ h.status = "Initial")
  BY <1>4 DEF ChangeStatus, ServiceHandlerType
<1> QED
  BY <1>1, <1>2, <1>3, <1>4

(* So does the counting of a health report.                                *)
LEMMA AddHealthcheckEventType ==
  ASSUME NEW s \in Services, NEW h \in ServiceHandlerType,
         NEW healthy \in BOOLEAN
  PROVE  AddHealthcheckEvent(s, h, healthy) \in ServiceHandlerType
<1>1. Config[s].max_failed \in Nat
  BY ConfigAssumption DEF ServiceType
<1> QED
  BY <1>1 DEF AddHealthcheckEvent, AtMost, ServiceHandlerType

(* The events that make a service progress are events.                     *)
LEMMA NextEventsType ==
  ASSUME NEW handlers \in [Services -> ServiceHandlerType],
         NEW s \in Services, NEW lc \in LifecycleStatuses
  PROVE  NextEvents(handlers, s, lc) \in Seq(Event)
<1>1. KillCommand(s) \in Seq(Event)
  BY EventConstructors DEF KillCommand, Statuses
<1>2. \A h, failed : HandleRestartStrategy(s, h, failed) \in Event
  BY EventConstructors DEF HandleRestartStrategy, Statuses
<1>3. /\ KillAll(Dependents(s)) \in Seq(Event)
      /\ KillAll(DieIfFailed(s)) \in Seq(Event)
  BY KillAllType DEF Dependents, DieIfFailed
<1>4. HandleFailedService(s) \in Seq(Event)
  <2>1. Config[s].failure \in FailureStrategies
    BY ConfigAssumption DEF ServiceType
  <2>2. <<ShuttingDownInitiated("Gracefully")>> \in Seq(Event)
    BY EventConstructors DEF ShuttingDown
  <2> QED BY <1>3, <2>1, <2>2 DEF HandleFailedService, FailureStrategies
<1>5. NextEventsRunning(handlers, s) \in Seq(Event)
  <2> DEFINE h == handlers[s]
  <2>1. HandleFailedService(s) \o <<HandleRestartStrategy(s, h, TRUE)>>
          \o KillAll(DieIfFailed(s)) \in Seq(Event)
    BY <1>2, <1>3, <1>4, EventLists
  <2>2. /\ <<Run(s)>> \in Seq(Event)
        /\ <<StatusUpdate(s, "Running")>> \in Seq(Event)
        /\ <<HandleRestartStrategy(s, h, FALSE)>> \in Seq(Event)
        /\ <<ForceKill(s), StatusChanged(s, "Failed")>> \in Seq(Event)
    BY <1>2, EventConstructors, EventLists DEF Statuses
  <2> QED BY <1>1, <2>1, <2>2, EventLists, Zenon DEF NextEventsRunning
<1>6. NextEventsShuttingDown(handlers, s, lc) \in Seq(Event)
  <2>1. /\ <<StatusUpdate(s, "Finished")>> \in Seq(Event)
        /\ <<StatusUpdate(s, "FinishedFailed")>> \in Seq(Event)
        /\ <<ForceKill(s)>> \in Seq(Event)
    BY EventConstructors DEF Statuses
  <2> QED BY <1>1, <2>1 DEF NextEventsShuttingDown
<1> QED
  BY <1>5, <1>6 DEF NextEvents

-----------------------------------------------------------------------------
(* The bus                                                                 *)

(* A connector that is dropped leaves the bus typed.                       *)
LEMMA LeaveType ==
  ASSUME BusTypeOK, NEW c \in Connectors, Leave(c), pipe' \in Seq(Event)
  PROVE  BusTypeOK'
BY DEF BusTypeOK, Leave

(* So does a dispatched message.                                           *)
LEMMA DeliverType ==
  ASSUME BusTypeOK, Deliver
  PROVE  BusTypeOK' /\ Head(pipe) \in Event
<1>1. Head(pipe) \in Event /\ pipe' \in Seq(Event)
  BY DEF BusTypeOK, Deliver
<1>2. \A c \in Connectors : Append(inbox[c], Head(pipe)) \in Seq(Event)
  BY <1>1 DEF BusTypeOK
<1> QED
  BY <1>1, <1>2 DEF BusTypeOK, Deliver

-----------------------------------------------------------------------------
(* Steps of the supervisor thread                                          *)

(* The event at the head of the batch, while one is being handled.         *)
LEMMA HeadOfBatch ==
  ASSUME SupervisorTypeOK, batch # <<>>
  PROVE  Head(batch) \in Event /\ Tail(batch) \in Seq(Event)
BY DEF SupervisorTypeOK

(* Taking the lists that have been sent off out leaves lists of events.    *)
LEMMA DrainedType ==
  ASSUME NEW lists \in Seq(Seq(Event))
  PROVE  Drained(lists) \in Seq(Seq(Event))
BY DEF Drained

(* The common end of every handler keeps the bus, the batch and out typed. *)
LEMMA DoneType ==
  ASSUME SupervisorTypeOK, BusTypeOK, NEW evs \in Seq(Event), Done(evs),
         batch # <<>>
  PROVE  /\ BusTypeOK'
         /\ batch' \in Seq(Event) /\ out' \in Seq(Seq(Event))
         /\ phase' \in Phases /\ sigterms' \in Nat
<1>1. batch' \in Seq(Event)
  BY HeadOfBatch DEF Done
<1>2. out' \in Seq(Seq(Event))
  BY DEF Done, SupervisorTypeOK
<1>3. BusTypeOK'
  BY DEF Done, BusTypeOK, busVars
<1> QED
  BY <1>1, <1>2, <1>3 DEF Done, SupervisorTypeOK

(* A signal keeps the process table typed.                                 *)
LEMMA SignalledType ==
  ASSUME ProcessesTypeOK, NEW p \in Pids \cup {None}, NEW sig \in {"term", "kill"}
  PROVE  Signalled(p, sig) \in [Pids -> Process]
BY DEF ProcessesTypeOK, Process, Signalled

(* Writing one or two fields of one handler keeps all handlers typed.      *)
LEMMA HandlersUpdate ==
  ASSUME SupervisorTypeOK, NEW s \in Services
  PROVE  /\ \A st \in Statuses :
              [sh EXCEPT ![s].status = st] \in [Services -> ServiceHandlerType]
         /\ \A t \in {"none", "armed", "expired"} :
              [sh EXCEPT ![s].shutting_down_start = t]
                \in [Services -> ServiceHandlerType]
         /\ \A p \in Pids, st \in Statuses :
              [sh EXCEPT ![s].pid = p, ![s].status = st]
                \in [Services -> ServiceHandlerType]
         /\ \A p \in Pids, t \in {"none", "armed", "expired"} :
              [sh EXCEPT ![s].pid = p, ![s].shutting_down_start = t]
                \in [Services -> ServiceHandlerType]
<1>1. sh \in [Services -> ServiceHandlerType]
  BY DEF SupervisorTypeOK
<1>2. ASSUME NEW st \in Statuses
      PROVE  [sh EXCEPT ![s].status = st] \in [Services -> ServiceHandlerType]
  BY <1>1 DEF ServiceHandlerType
<1>3. ASSUME NEW t \in {"none", "armed", "expired"}
      PROVE  [sh EXCEPT ![s].shutting_down_start = t]
               \in [Services -> ServiceHandlerType]
  BY <1>1 DEF ServiceHandlerType
<1>4. ASSUME NEW p \in Pids, NEW st \in Statuses
      PROVE  [sh EXCEPT ![s].pid = p, ![s].status = st]
               \in [Services -> ServiceHandlerType]
  BY <1>1 DEF ServiceHandlerType
<1>5. ASSUME NEW p \in Pids, NEW t \in {"none", "armed", "expired"}
      PROVE  [sh EXCEPT ![s].pid = p, ![s].shutting_down_start = t]
               \in [Services -> ServiceHandlerType]
  BY <1>1 DEF ServiceHandlerType
<1> QED BY <1>2, <1>3, <1>4, <1>5

(* One more spawner thread, or one less where there is one.                *)
LEMMA SpawnersUpdate ==
  ASSUME SupervisorTypeOK, NEW s \in Services
  PROVE  /\ [spawners EXCEPT ![s].fresh = @ + 1] \in [Services -> Spawners]
         /\ spawners[s].fresh > 0 =>
              [spawners EXCEPT ![s].fresh = @ - 1] \in [Services -> Spawners]
         /\ spawners[s].told > 0 =>
              [spawners EXCEPT ![s].told = @ - 1] \in [Services -> Spawners]
         /\ \A p \in Pids :
              /\ spawners[s].fresh > 0 =>
                   [spawners EXCEPT ![s].fresh = @ - 1,
                                    ![s].forked = @ \cup {p}]
                     \in [Services -> Spawners]
              /\ spawners[s].told > 0 =>
                   [spawners EXCEPT ![s].told = @ - 1,
                                    ![s].forked = @ \cup {p}]
                     \in [Services -> Spawners]
              /\ [spawners EXCEPT ![s].forked = @ \ {p}]
                   \in [Services -> Spawners]
<1>1. /\ spawners \in [Services -> Spawners]
      /\ spawners[s].fresh \in Nat /\ spawners[s].told \in Nat
      /\ spawners[s].forked \in SUBSET Pids
  BY DEF SupervisorTypeOK, Spawners
<1>2. ASSUME NEW n \in Nat, NEW F \in SUBSET Pids
      PROVE  /\ [spawners EXCEPT ![s].fresh = n] \in [Services -> Spawners]
             /\ [spawners EXCEPT ![s].told = n] \in [Services -> Spawners]
             /\ [spawners EXCEPT ![s].fresh = n, ![s].forked = F]
                  \in [Services -> Spawners]
             /\ [spawners EXCEPT ![s].told = n, ![s].forked = F]
                  \in [Services -> Spawners]
             /\ [spawners EXCEPT ![s].forked = F] \in [Services -> Spawners]
  BY <1>1 DEF Spawners
<1>3. /\ spawners[s].fresh + 1 \in Nat
      /\ spawners[s].fresh > 0 => spawners[s].fresh - 1 \in Nat
      /\ spawners[s].told > 0 => spawners[s].told - 1 \in Nat
      /\ \A p \in Pids : /\ spawners[s].forked \cup {p} \in SUBSET Pids
                         /\ spawners[s].forked \ {p} \in SUBSET Pids
  BY <1>1
<1> QED BY <1>1, <1>2, <1>3

(* Every handler of the supervisor keeps the types.                        *)
LEMMA HandleEventType ==
  ASSUME TypeOK, HandleEvent, UNCHANGED healthVars
  PROVE  TypeOK'
<1> USE DEF TypeOK
<1> DEFINE ev == Head(batch)
           s == ev.svc
<1>0. batch # <<>> /\ ev \in Event
  <2>1. batch # <<>>
    BY DEF HandleEvent, HandleServiceExited, PanicOnServiceExited, HandleRun,
           HandleRunPrepareFails, HandleSpawnFailed, HandleKill,
           HandleForceKill, HandlePidChanged, HandleHealthCheck,
           HandleShuttingDownInitiated, HandleStatusUpdate, HandleIgnored,
           Handling
  <2> QED BY <2>1, HeadOfBatch
<1>h. HealthcheckTypeOK'
  BY DEF HealthcheckTypeOK, healthVars
<1>1. CASE HandleServiceExited
  <2>1. s \in Services /\ ev.ok \in BOOLEAN
    BY <1>0, <1>1, EventFields DEF HandleServiceExited, Handling
  <2> DEFINE h == ExitedHandler(s, ev.ok)
  <2>2. h \in ServiceHandlerType
    <3> DEFINE n == IF HasSomeFailedHealthchecks(sh[s]) /\ IsEarlyState(sh[s])
                      THEN AtMost(sh[s].restart_attempts + 1,
                                  Config[s].attempts + 1)
                      ELSE sh[s].restart_attempts
               g == [sh[s] EXCEPT !.shutting_down_start = "none",
                                  !.pid = None,
                                  !.restart_attempts = n]
    <3>1. Config[s].attempts \in Nat /\ sh[s] \in ServiceHandlerType
      BY <2>1, ConfigAssumption DEF ServiceType, SupervisorTypeOK
    <3>n. n \in Nat
      BY <3>1 DEF AtMost, ServiceHandlerType
    <3> HIDE DEF n
    <3>2. g \in ServiceHandlerType
      BY <3>1, <3>n DEF ServiceHandlerType
    <3> HIDE DEF g
    <3>3. \A st \in {"Failed", "Success"} :
            ChangeStatus(g, st) \in ServiceHandlerType
      BY <3>2, ChangeStatusType DEF Statuses
    <3> QED BY <3>3, <3>1 DEF ExitedHandler, g, n, ServiceHandlerType
  <2> HIDE DEF h
  <2>3. <<StatusChanged(s, h.status)>> \in Seq(Event)
    BY <2>1, <2>2, EventConstructors, EventLists DEF ServiceHandlerType
  <2>4. Done(<<StatusChanged(s, h.status)>>)
    BY <1>1 DEF HandleServiceExited, h
  <2>5. sh' = [sh EXCEPT ![s] = h] /\ pid_map' = RemovePid(sh[s].pid)
    BY <1>1 DEF HandleServiceExited, h
  <2>6. /\ sh' \in [Services -> ServiceHandlerType]
        /\ pid_map' \in [Pids -> Services \cup {None}]
    BY <2>1, <2>2, <2>5 DEF SupervisorTypeOK, RemovePid
  <2>7. UNCHANGED <<lifecycle, sigterm, spawners, proc>>
    BY <1>1 DEF HandleServiceExited
  <2> DEFINE evs == <<StatusChanged(s, h.status)>>
  <2> HIDE DEF evs
  <2>8. /\ BusTypeOK'
        /\ batch' \in Seq(Event) /\ out' \in Seq(Seq(Event))
        /\ phase' \in Phases /\ sigterms' \in Nat
    <3>1. evs \in Seq(Event) /\ Done(evs)
      BY <2>3, <2>4 DEF evs
    <3> QED BY <1>0, <3>1, DoneType, Zenon
  <2> QED
    BY <1>h, <2>6, <2>7, <2>8 DEF SupervisorTypeOK, ProcessesTypeOK
<1>2. CASE PanicOnServiceExited
  <2>1. BusTypeOK'
    BY <1>2, LeaveType DEF PanicOnServiceExited, BusTypeOK, Connectors
  <2> QED
    BY <1>2, <1>h, <2>1 DEF PanicOnServiceExited, SupervisorTypeOK, Phases,
                            ProcessesTypeOK, repoVars, signalVars
<1>3. CASE HandleRun
  <2>1. s \in Services
    BY <1>0, <1>3, EventFields DEF HandleRun, Handling
  <2>2. <<StatusChanged(s, "Starting")>> \in Seq(Event)
    BY <2>1, EventConstructors, EventLists DEF Statuses
  <2>3. sh' \in [Services -> ServiceHandlerType]
    BY <1>3, <2>1, HandlersUpdate DEF HandleRun, Statuses
  <2>4. spawners' \in [Services -> Spawners]
    BY <1>3, <2>1, SpawnersUpdate DEF HandleRun
  <2> QED
    BY <1>0, <1>3, <1>h, <2>2, <2>3, <2>4, DoneType
    DEF HandleRun, SupervisorTypeOK, ProcessesTypeOK
<1>4. CASE HandleRunPrepareFails
  <2>1. s \in Services
    BY <1>0, <1>4, EventFields DEF HandleRunPrepareFails, Handling
  <2>2. <<StatusUpdate(s, "FinishedFailed"),
          ShuttingDownInitiated("Gracefully")>> \in Seq(Event)
    BY <2>1, EventConstructors, EventLists DEF Statuses, ShuttingDown
  <2>3. sh' \in [Services -> ServiceHandlerType]
    BY <1>4, <2>1, HandlersUpdate DEF HandleRunPrepareFails, Statuses
  <2> QED
    BY <1>0, <1>4, <1>h, <2>2, <2>3, DoneType
    DEF HandleRunPrepareFails, SupervisorTypeOK, ProcessesTypeOK,
        LifecycleStatuses, ShuttingDown
<1>5. CASE HandleSpawnFailed
  <2>1. s \in Services
    BY <1>0, <1>5, EventFields DEF HandleSpawnFailed, Handling
  <2>2. <<StatusUpdate(s, "Failed")>> \in Seq(Event)
    BY <2>1, EventConstructors, EventLists DEF Statuses
  <2>3. sh' \in [Services -> ServiceHandlerType]
    BY <1>5, <2>1, HandlersUpdate DEF HandleSpawnFailed, Statuses
  <2> QED
    BY <1>0, <1>5, <1>h, <2>2, <2>3, DoneType
    DEF HandleSpawnFailed, SupervisorTypeOK, ProcessesTypeOK
<1>6. CASE HandleKill
  <2>1. s \in Services /\ sh[s].pid \in Pids \cup {None}
    BY <1>0, <1>6, EventFields DEF HandleKill, Handling, SupervisorTypeOK,
                                   ServiceHandlerType
  <2>2. sh' \in [Services -> ServiceHandlerType]
    BY <1>6, <2>1, HandlersUpdate DEF HandleKill
  <2>3. ProcessesTypeOK'
    BY <1>6, <2>1, SignalledType DEF HandleKill, ProcessesTypeOK
  <2> QED
    BY <1>0, <1>6, <1>h, <2>2, <2>3, DoneType, EventLists
    DEF HandleKill, SupervisorTypeOK
<1>7. CASE HandleForceKill
  <2>1. s \in Services /\ sh[s].pid \in Pids \cup {None}
    BY <1>0, <1>7, EventFields DEF HandleForceKill, Handling,
                                   SupervisorTypeOK, ServiceHandlerType
  <2>2. sh' \in [Services -> ServiceHandlerType]
    BY <1>7, <2>1, HandlersUpdate DEF HandleForceKill, Statuses
  <2>3. ProcessesTypeOK'
    BY <1>7, <2>1, SignalledType DEF HandleForceKill, ProcessesTypeOK
  <2>4. <<StatusChanged(s, "Failed")>> \in Seq(Event)
    BY <2>1, EventConstructors, EventLists DEF Statuses
  <2> QED
    BY <1>0, <1>7, <1>h, <2>2, <2>3, <2>4, DoneType
    DEF HandleForceKill, SupervisorTypeOK
<1>8. CASE HandlePidChanged
  <2> DEFINE p == ev.pid
  <2>1. s \in Services /\ p \in Pids
    BY <1>0, <1>8, EventFields DEF HandlePidChanged, Handling
  <2>2. sh' \in [Services -> ServiceHandlerType]
    <3>1. \/ sh' = [sh EXCEPT ![s].pid = p, ![s].shutting_down_start = "armed"]
          \/ sh' = [sh EXCEPT ![s].pid = p, ![s].status = "Started"]
      BY <1>8 DEF HandlePidChanged
    <3>2. "Started" \in Statuses
      BY DEF Statuses
    <3> HIDE DEF p, s
    <3>3. /\ [sh EXCEPT ![s].pid = p, ![s].shutting_down_start = "armed"]
               \in [Services -> ServiceHandlerType]
          /\ [sh EXCEPT ![s].pid = p, ![s].status = "Started"]
               \in [Services -> ServiceHandlerType]
      BY <2>1, <3>2, HandlersUpdate, Zenon
    <3> QED BY <3>1, <3>3, Zenon
  <2>3. pid_map' \in [Pids -> Services \cup {None}]
    BY <1>8, <2>1 DEF HandlePidChanged, AddPid, SupervisorTypeOK
  <2>4. ProcessesTypeOK'
    <3>1. CASE proc' = Signalled(p, "term")
      BY <2>1, <3>1, SignalledType DEF ProcessesTypeOK
    <3>2. CASE UNCHANGED proc
      BY <3>2 DEF ProcessesTypeOK
    <3> QED BY <1>8, <3>1, <3>2 DEF HandlePidChanged
  <2>5. /\ <<StatusChanged(s, "Started")>> \in Seq(Event)
        /\ <<>> \in Seq(Event)
    BY <2>1, EventConstructors, EventLists DEF Statuses
  <2>6. Done(<<>>) \/ Done(<<StatusChanged(s, "Started")>>)
    BY <1>8 DEF HandlePidChanged
  <2>7. UNCHANGED <<lifecycle, sigterm, spawners>>
    BY <1>8 DEF HandlePidChanged
  <2> QED
    BY <1>0, <1>h, <2>2, <2>3, <2>4, <2>5, <2>6, <2>7, DoneType
    DEF SupervisorTypeOK
<1>9. CASE HandleHealthCheck
  <2>1. s \in Services /\ ev.healthy \in BOOLEAN
    BY <1>0, <1>9, EventFields DEF HandleHealthCheck, Handling
  <2>2. AddHealthcheckEvent(s, sh[s], ev.healthy) \in ServiceHandlerType
    BY <2>1, AddHealthcheckEventType DEF SupervisorTypeOK
  <2>3. sh' \in [Services -> ServiceHandlerType]
    BY <1>9, <2>1, <2>2 DEF HandleHealthCheck, SupervisorTypeOK
  <2> QED
    BY <1>0, <1>9, <1>h, <2>3, DoneType, EventLists
    DEF HandleHealthCheck, SupervisorTypeOK, ProcessesTypeOK
<1>10. CASE HandleShuttingDownInitiated
  <2>1. ev.mode \in ShuttingDown
    BY <1>0, <1>10, EventFields DEF HandleShuttingDownInitiated, Handling
  <2> QED
    BY <1>0, <1>10, <1>h, <2>1, DoneType, EventLists
    DEF HandleShuttingDownInitiated, SupervisorTypeOK, ProcessesTypeOK,
        LifecycleStatuses, repoVars
<1>11. CASE HandleStatusUpdate
  <2> DEFINE h == ChangeStatus(sh[s], ev.status)
             evs == IF h.status = sh[s].status THEN <<>>
                    ELSE <<StatusChanged(s, h.status)>>
  <2>1. s \in Services /\ ev.status \in Statuses
    BY <1>0, <1>11, EventFields DEF HandleStatusUpdate, Handling
  <2>2. h \in ServiceHandlerType
    BY <2>1, ChangeStatusType DEF SupervisorTypeOK
  <2>3. evs \in Seq(Event)
    BY <2>1, <2>2, EventConstructors, EventLists DEF ServiceHandlerType
  <2>4. sh' \in [Services -> ServiceHandlerType]
    BY <1>11, <2>1, <2>2 DEF HandleStatusUpdate, SupervisorTypeOK
  <2>5. Done(evs)
    BY <1>11 DEF HandleStatusUpdate
  <2> HIDE DEF evs
  <2> QED
    BY <1>0, <1>11, <1>h, <2>3, <2>4, <2>5, DoneType
    DEF HandleStatusUpdate, SupervisorTypeOK, ProcessesTypeOK
<1>12. CASE HandleIgnored
  BY <1>0, <1>12, <1>h, DoneType, EventLists
  DEF HandleIgnored, SupervisorTypeOK, ProcessesTypeOK, repoVars
<1> QED
  BY <1>1, <1>2, <1>3, <1>4, <1>5, <1>6, <1>7, <1>8, <1>9, <1>10, <1>11,
     <1>12 DEF HandleEvent

(* The other steps of an iteration, and the return, keep the types.        *)
LEMMA IterationType ==
  ASSUME TypeOK, Ingest \/ Produce \/ Send \/ Return, UNCHANGED healthVars
  PROVE  TypeOK'
<1> USE DEF TypeOK
<1>h. HealthcheckTypeOK'
  BY DEF HealthcheckTypeOK, healthVars
<1>1. CASE Ingest
  <2>1. SigtermRequest \in Seq(Event)
    BY EventConstructors, EventLists DEF SigtermRequest, ShuttingDown
  <2>2. pipe' \in Seq(Event) /\ batch' \in Seq(Event)
    BY <1>1, <2>1, EventLists DEF Ingest, BusTypeOK, Connectors
  <2>3. inbox' \in [Connectors -> Seq(Event)]
    BY <1>1 DEF Ingest, BusTypeOK, Connectors
  <2> QED
    BY <1>1, <1>h, <2>2, <2>3
    DEF Ingest, BusTypeOK, SupervisorTypeOK, ProcessesTypeOK, Phases,
        repoVars, signalVars
<1>2. CASE Produce
  <2>1. PICK reaped \in SUBSET Zombies :
          /\ \E order \in SetToSeqs({p \in reaped : pid_map[p] # None}) :
               out' = Drained(
                 out \o [i \in DOMAIN ServiceOrder |->
                           NextEvents(sh, ServiceOrder[i], lifecycle)]
                     \o <<[i \in DOMAIN order |->
                             ServiceExited(pid_map[order[i]],
                                           proc[order[i]].ok)]>>)
          /\ proc' = [p \in Pids |-> IF p \in reaped THEN Gone ELSE proc[p]]
    BY <1>2 DEF Produce
  <2> DEFINE known == {p \in reaped : pid_map[p] # None}
  <2>2. PICK order \in SetToSeqs(known) :
          out' = Drained(
            out \o [i \in DOMAIN ServiceOrder |->
                      NextEvents(sh, ServiceOrder[i], lifecycle)]
                \o <<[i \in DOMAIN order |->
                        ServiceExited(pid_map[order[i]], proc[order[i]].ok)]>>)
    BY <2>1
  <2> DEFINE nexts == [i \in DOMAIN ServiceOrder |->
                        NextEvents(sh, ServiceOrder[i], lifecycle)]
             exits == [i \in DOMAIN order |->
                        ServiceExited(pid_map[order[i]], proc[order[i]].ok)]
  <2>3. nexts \in Seq(Seq(Event))
    <3>1. ASSUME NEW i \in DOMAIN ServiceOrder
          PROVE  NextEvents(sh, ServiceOrder[i], lifecycle) \in Seq(Event)
      <4>1. ServiceOrder[i] \in Services
        BY OrderAssumption
      <4>2. /\ sh \in [Services -> ServiceHandlerType]
            /\ lifecycle \in LifecycleStatuses
        BY DEF SupervisorTypeOK
      <4> QED BY <4>1, <4>2, NextEventsType, Zenon
    <3> QED BY <3>1, OrderAssumption
  <2>4. exits \in Seq(Event)
    <3>1. known \in SUBSET Pids /\ IsFiniteSet(known)
      BY PidsAssumption, FS_Subset DEF Zombies
    <3>2. Cardinality(known) \in Nat
          /\ order \in [1..Cardinality(known) -> known]
      BY <2>2, <3>1, FS_CardinalityType DEF SetToSeqs
    <3>3. ASSUME NEW i \in DOMAIN order
          PROVE  ServiceExited(pid_map[order[i]], proc[order[i]].ok) \in Event
      <4>1. /\ order[i] \in Pids
            /\ pid_map[order[i]] \in Services
            /\ proc[order[i]].ok \in BOOLEAN
        BY <3>1, <3>2 DEF SupervisorTypeOK, ProcessesTypeOK, Process
      <4> QED BY <4>1, EventConstructors
    <3> HIDE DEF known
    <3> QED BY <3>2, <3>3
  <2> HIDE DEF nexts, exits
  <2>5. out' \in Seq(Seq(Event))
    <3>1. out \o nexts \o <<exits>> \in Seq(Seq(Event))
      BY <2>3, <2>4 DEF SupervisorTypeOK
    <3>2. out' = Drained(out \o nexts \o <<exits>>)
      BY <2>2 DEF nexts, exits
    <3> QED BY <3>1, <3>2, DrainedType
  <2>6. ProcessesTypeOK'
    BY <2>1 DEF ProcessesTypeOK, Process, Gone, Unborn
  <2> QED
    BY <1>2, <1>h, <2>5, <2>6
    DEF Produce, BusTypeOK, SupervisorTypeOK, Phases, busVars, repoVars,
        signalVars
<1>3. CASE Send
  <2>1. PICK i \in DOMAIN out :
          /\ out[i] # <<>>
          /\ pipe' = Append(pipe, Head(out[i]))
          /\ out' = Drained([out EXCEPT ![i] = Tail(out[i])])
    BY <1>3 DEF Send
  <2>2. /\ out \in Seq(Seq(Event)) /\ out[i] \in Seq(Event)
        /\ Head(out[i]) \in Event /\ Tail(out[i]) \in Seq(Event)
    BY <2>1 DEF SupervisorTypeOK
  <2>3. pipe' \in Seq(Event)
    BY <2>1, <2>2 DEF BusTypeOK
  <2>4. [out EXCEPT ![i] = Tail(out[i])] \in Seq(Seq(Event))
    BY <2>2
  <2>5. out' \in Seq(Seq(Event))
    BY <2>1, <2>4, DrainedType
  <2> QED
    BY <1>3, <1>h, <2>3, <2>5
    DEF Send, BusTypeOK, SupervisorTypeOK, ProcessesTypeOK, repoVars,
        signalVars
<1>4. CASE Return
  <2>1. pipe' \in Seq(Event)
    BY <1>4, EventConstructors DEF Return, BusTypeOK, ShuttingDown
  <2>2. BusTypeOK'
    BY <1>4, <2>1, LeaveType DEF Return, Connectors
  <2>3. ProcessesTypeOK'
    <3>1. ASSUME NEW p \in Pids
          PROVE  Signalled(p, "kill")[p] \in Process
      BY SignalledType
    <3> QED BY <1>4, <3>1 DEF Return, ProcessesTypeOK
  <2> QED
    BY <1>4, <1>h, <2>2, <2>3
    DEF Return, SupervisorTypeOK, Phases, repoVars, signalVars
<1> QED
  BY <1>1, <1>2, <1>3, <1>4

-----------------------------------------------------------------------------
(* Steps of the other threads and of the environment                       *)

(* A dispatched message reaches the queues and the spawner threads.        *)
LEMMA DispatchType ==
  ASSUME TypeOK, Dispatch
  PROVE  TypeOK'
<1>1. BusTypeOK'
  BY DeliverType DEF Dispatch, TypeOK
<1>2. spawners' \in [Services -> Spawners]
  <2>1. ASSUME NEW s \in Services
        PROVE  [spawners[s] EXCEPT !.fresh = 0, !.told = StillToFork(s)]
                 \in Spawners
    <3>1. spawners[s] \in Spawners
      BY DEF TypeOK, SupervisorTypeOK
    <3>2. StillToFork(s) \in Nat
      BY <3>1 DEF Spawners, StillToFork
    <3> QED BY <3>1, <3>2 DEF Spawners
  <2> QED BY <2>1 DEF TypeOK, Dispatch, SpawnersHear, SupervisorTypeOK
<1> QED
  BY <1>1, <1>2
  DEF TypeOK, Dispatch, SupervisorTypeOK, ProcessesTypeOK, HealthcheckTypeOK,
      repoVars, threadVars, signalVars, healthVars

(* The monitor starts and stops workers and reports for services without   *)
(* checks.                                                                 *)
LEMMA MonitorType ==
  ASSUME TypeOK, MonitorThread
  PROVE  TypeOK'
<1> DEFINE mail == inbox["healthcheck"]
<1>1. /\ mail \in Seq(Event) /\ BusTypeOK
      /\ "healthcheck" \in Connectors
  BY DEF TypeOK, BusTypeOK, Connectors
<1>2. ASSUME mail # <<>>
      PROVE  Head(mail) \in Event /\ Tail(mail) \in Seq(Event)
  BY <1>1, <1>2
<1>3. ASSUME NEW s \in Services
      PROVE  HealthCheck(s, TRUE) \in Event
  BY EventConstructors
<1>5. Told \in [Services -> {"none", "running", "stopping", "panicked"}]
  BY DEF Told, TypeOK, HealthcheckTypeOK
<1>4. BusTypeOK' /\ HealthcheckTypeOK'
  <2>1. CASE ReportWithoutChecks
    <3>1. mail # <<>> /\ Head(mail).svc \in Services
      BY <1>2, <2>1, EventFields DEF ReportWithoutChecks, Monitoring
    <3>2. pipe' \in Seq(Event)
      <4>1. pipe' = Append(pipe, HealthCheck(Head(mail).svc, TRUE))
        BY <2>1 DEF ReportWithoutChecks
      <4>2. HealthCheck(Head(mail).svc, TRUE) \in Event
        BY <1>3, <3>1
      <4>3. pipe \in Seq(Event)
        BY <1>1 DEF BusTypeOK
      <4>4. \A q \in Seq(Event), e \in Event : Append(q, e) \in Seq(Event)
        OBVIOUS
      <4> HIDE DEF mail
      <4> QED BY <4>1, <4>2, <4>3, <4>4, Zenon
    <3>3. inbox' \in [Connectors -> Seq(Event)]
      BY <1>1, <1>2, <2>1, <3>1 DEF ReportWithoutChecks, Consume, BusTypeOK
    <3> QED
      BY <1>1, <2>1, <3>2, <3>3
      DEF ReportWithoutChecks, BusTypeOK, HealthcheckTypeOK, TypeOK, healthVars
  <2>2. CASE StartWorker
    <3>1. mail # <<>> /\ Head(mail).svc \in Services
      BY <1>2, <2>2, EventFields DEF StartWorker, Monitoring
    <3> QED
      BY <1>1, <1>2, <2>2, <3>1
      DEF StartWorker, Consume, BusTypeOK, HealthcheckTypeOK, TypeOK
  <2>3. CASE StopWorker
    <3>1. mail # <<>> /\ Head(mail).svc \in Services
      BY <1>2, <2>3, EventFields DEF StopWorker, Monitoring
    <3> QED
      BY <1>1, <2>3, <3>1
      DEF StopWorker, BusTypeOK, HealthcheckTypeOK, TypeOK, busVars
  <2>4. CASE WorkerIsStopped
    <3>1. mail # <<>>
      BY <2>4 DEF WorkerIsStopped, Monitoring
    <3> QED
      BY <1>1, <1>2, <2>4, <3>1
      DEF WorkerIsStopped, Consume, BusTypeOK, HealthcheckTypeOK, TypeOK,
          healthVars
  <2>5. CASE StopAllWorkers
    BY <1>1, <1>5, <2>5
    DEF StopAllWorkers, BusTypeOK, HealthcheckTypeOK, TypeOK, busVars
  <2>6. CASE MonitorEnds
    <3>1. pipe' \in Seq(Event)
      BY <1>1, <2>6 DEF MonitorEnds, BusTypeOK
    <3> QED
      BY <1>1, <2>6, <3>1, LeaveType
      DEF MonitorEnds, HealthcheckTypeOK, TypeOK, healthVars
  <2>7. CASE MonitorPanics
    <3>1. pipe' \in Seq(Event)
      BY <1>1, <2>7 DEF MonitorPanics, BusTypeOK
    <3> QED
      BY <1>1, <1>5, <2>7, <3>1, LeaveType
      DEF MonitorPanics, HealthcheckTypeOK, TypeOK
  <2> QED
    BY <2>1, <2>2, <2>3, <2>4, <2>5, <2>6, <2>7 DEF MonitorThread, MonitorStep
<1> QED
  BY <1>4
  DEF TypeOK, MonitorThread, supervisorVars, repoVars, threadVars, signalVars,
      SupervisorTypeOK, ProcessesTypeOK

(* A child, of whatever role, is a process.                                *)
LEMMA ForkType ==
  ASSUME ProcessesTypeOK, NEW s \in Services, NEW p \in Pids,
         NEW role \in {"service", "check"}, Fork(s, p, role)
  PROVE  ProcessesTypeOK'
<1>1. proc[p] \in Process /\ proc[p].sig = "none" /\ proc[p].ok = FALSE
  BY DEF ProcessesTypeOK, Process, Fork, FreePids
<1>2. [proc[p] EXCEPT !.state = "alive", !.owner = s, !.role = role]
        \in Process
  BY <1>1 DEF Process
<1> QED BY <1>2 DEF Fork, ProcessesTypeOK

(* A spawner thread ends with a new process or without one.                *)
LEMMA SpawnerType ==
  ASSUME TypeOK, NEW s \in Services, SpawnerThread(s)
  PROVE  TypeOK'
<1>1. SupervisorTypeOK /\ BusTypeOK /\ ProcessesTypeOK /\ HealthcheckTypeOK
  BY DEF TypeOK
<1>2. spawners' \in [Services -> Spawners]
  <2>1. CASE SpawnerForks(s)
    <3>1. PICK p \in Pids :
            \/ /\ spawners[s].fresh > 0
               /\ spawners' = [spawners EXCEPT ![s].fresh = @ - 1,
                                               ![s].forked = @ \cup {p}]
            \/ /\ spawners[s].told > 0
               /\ spawners' = [spawners EXCEPT ![s].told = @ - 1,
                                               ![s].forked = @ \cup {p}]
      BY <2>1 DEF SpawnerForks, FreePids
    <3>2. CASE /\ spawners[s].fresh > 0
               /\ spawners' = [spawners EXCEPT ![s].fresh = @ - 1,
                                               ![s].forked = @ \cup {p}]
      <4>1. [spawners EXCEPT ![s].fresh = @ - 1, ![s].forked = @ \cup {p}]
              \in [Services -> Spawners]
        BY <1>1, <3>2, SpawnersUpdate, Zenon
      <4> QED BY <3>2, <4>1, Zenon
    <3>3. CASE /\ spawners[s].told > 0
               /\ spawners' = [spawners EXCEPT ![s].told = @ - 1,
                                               ![s].forked = @ \cup {p}]
      <4>1. [spawners EXCEPT ![s].told = @ - 1, ![s].forked = @ \cup {p}]
              \in [Services -> Spawners]
        BY <1>1, <3>3, SpawnersUpdate, Zenon
      <4> QED BY <3>3, <4>1, Zenon
    <3> QED BY <3>1, <3>2, <3>3
  <2>2. CASE SpawnerReports(s)
    <3>1. PICK p \in spawners[s].forked :
            spawners' = [spawners EXCEPT ![s].forked = @ \ {p}]
      BY <2>2 DEF SpawnerReports
    <3>2. p \in Pids
      BY <1>1, <3>1 DEF SupervisorTypeOK, Spawners
    <3>3. [spawners EXCEPT ![s].forked = @ \ {p}] \in [Services -> Spawners]
      BY <1>1, <3>2, SpawnersUpdate, Zenon
    <3> QED BY <3>1, <3>3, Zenon
  <2>3. CASE SpawnerFails(s) \/ SpawnerGivesUp(s)
    <3>1. \/ /\ spawners[s].fresh > 0
             /\ spawners' = [spawners EXCEPT ![s].fresh = @ - 1]
          \/ /\ spawners[s].told > 0
             /\ spawners' = [spawners EXCEPT ![s].told = @ - 1]
      BY <2>3 DEF SpawnerFails, SpawnerGivesUp, SpawnerEnds
    <3>2. /\ spawners[s].fresh > 0 =>
               [spawners EXCEPT ![s].fresh = @ - 1] \in [Services -> Spawners]
          /\ spawners[s].told > 0 =>
               [spawners EXCEPT ![s].told = @ - 1] \in [Services -> Spawners]
      BY <1>1, SpawnersUpdate, Zenon
    <3> QED BY <3>1, <3>2, Zenon
  <2> QED BY <2>1, <2>2, <2>3 DEF SpawnerThread, SpawnerStep
<1>3. ASSUME NEW ev \in Event, pipe' = Append(pipe, ev),
             UNCHANGED <<inbox, joined>>
      PROVE  BusTypeOK'
  BY <1>1, <1>3 DEF BusTypeOK
<1>4. BusTypeOK' /\ ProcessesTypeOK'
  <2>1. CASE SpawnerForks(s)
    <3>1. PICK p \in Pids : Fork(s, p, "service")
      BY <2>1 DEF SpawnerForks, FreePids
    <3>2. ProcessesTypeOK'
      BY <1>1, <3>1, ForkType
    <3> QED BY <1>1, <2>1, <3>2 DEF SpawnerForks, BusTypeOK, busVars
  <2>3. CASE SpawnerReports(s)
    <3>1. PICK p \in spawners[s].forked : pipe' = Append(pipe, PidChanged(s, p))
      BY <2>3 DEF SpawnerReports
    <3>2. p \in Pids
      BY <1>1, <3>1 DEF SupervisorTypeOK, Spawners
    <3>3. PidChanged(s, p) \in Event
      BY <3>2, EventConstructors
    <3> QED
      BY <1>1, <1>3, <2>3, <3>1, <3>3 DEF SpawnerReports, ProcessesTypeOK
  <2>2. CASE SpawnerFails(s) \/ SpawnerGivesUp(s)
    <3>1. SpawnFailed(s) \in Event
      BY EventConstructors
    <3>2. /\ pipe' = Append(pipe, SpawnFailed(s))
          /\ UNCHANGED <<inbox, joined, proc>>
      BY <2>2 DEF SpawnerFails, SpawnerGivesUp
    <3> QED BY <1>1, <1>3, <3>1, <3>2 DEF ProcessesTypeOK
  <2> QED BY <2>1, <2>2, <2>3 DEF SpawnerThread, SpawnerStep
<1>5. UNCHANGED <<repoVars, threadVars, signalVars, healthVars>>
  BY DEF SpawnerThread, SpawnerStep, SpawnerForks, SpawnerReports,
         SpawnerFails, SpawnerGivesUp
<1> QED
  BY <1>1, <1>2, <1>4, <1>5
  DEF TypeOK, SupervisorTypeOK, HealthcheckTypeOK, repoVars, threadVars,
      signalVars, healthVars

(* A worker reports, ends, waits for its command or panics.               *)
LEMMA WorkerType ==
  ASSUME TypeOK, NEW s \in Services, WorkerThread(s)
  PROVE  TypeOK'
<1> DEFINE States == {"none", "running", "stopping", "panicked"}
<1>1. /\ BusTypeOK /\ ProcessesTypeOK
      /\ worker \in [Services -> States]
      /\ command \in [Services -> Pids \cup {None}]
  BY DEF TypeOK, HealthcheckTypeOK
<1>2. ASSUME NEW healthy \in BOOLEAN, Reports(s, healthy),
             UNCHANGED <<inbox, joined>>
      PROVE  BusTypeOK'
  <2>1. HealthCheck(s, healthy) \in Event
    BY EventConstructors
  <2> QED BY <1>1, <1>2, <2>1 DEF Reports, BusTypeOK
<1>3. BusTypeOK' /\ ProcessesTypeOK' /\ HealthcheckTypeOK'
  <2>1. CASE WorkerReports(s) \/ WorkerEnds(s)
    <3>1. \A healthy \in FastOutcomes(s) : healthy \in BOOLEAN
      BY DEF FastOutcomes
    <3>2. BusTypeOK'
      BY <1>1, <1>2, <2>1, <3>1 DEF WorkerReports, WorkerEnds, BusTypeOK
    <3>3. HealthcheckTypeOK'
      BY <1>1, <2>1
      DEF WorkerReports, WorkerEnds, HealthcheckTypeOK, healthVars
    <3> QED
      BY <1>1, <2>1, <3>2, <3>3
      DEF WorkerReports, WorkerEnds, ProcessesTypeOK
  <2>2. CASE CommandStarts(s)
    <3>1. PICK p \in Pids : /\ Fork(s, p, "check")
                            /\ command' = [command EXCEPT ![s] = p]
      BY <2>2 DEF CommandStarts, FreePids
    <3>2. ProcessesTypeOK'
      BY <1>1, <3>1, ForkType
    <3> QED
      BY <1>1, <2>2, <3>1, <3>2
      DEF CommandStarts, HealthcheckTypeOK, BusTypeOK, busVars
  <2>3. CASE CommandEnds(s)
    <3> DEFINE p == command[s]
    <3>1. p \in Pids /\ proc[p] \in Process /\ proc[p].ok \in BOOLEAN
      BY <1>1, <2>3 DEF CommandEnds, ProcessesTypeOK, Process
    <3>2. BusTypeOK'
      BY <1>2, <2>3, <3>1 DEF CommandEnds
    <3>3. Gone \in Process
      BY DEF Gone, Unborn, Process
    <3>4. ProcessesTypeOK'
      BY <1>1, <2>3, <3>3 DEF CommandEnds, ProcessesTypeOK
    <3>5. worker' \in [Services -> States]
      BY <1>1, <2>3 DEF CommandEnds
    <3>6. command' \in [Services -> Pids \cup {None}]
      BY <1>1, <2>3 DEF CommandEnds
    <3> QED BY <3>2, <3>4, <3>5, <3>6 DEF HealthcheckTypeOK
  <2>4. CASE WorkerPanics(s)
    BY <1>1, <2>4
    DEF WorkerPanics, HealthcheckTypeOK, ProcessesTypeOK, BusTypeOK, busVars
  <2> QED
    BY <2>1, <2>2, <2>3, <2>4
    DEF WorkerThread, WorkerStep, WorkerWaits, CommandCannotStart,
        CommandIsStolen
<1> QED
  BY <1>3
  DEF TypeOK, WorkerThread, repoVars, threadVars, signalVars, SupervisorTypeOK

(* A signal arrives, a process exits, a grace period is over.              *)
LEMMA EnvironmentType ==
  ASSUME TypeOK, Environment
  PROVE  TypeOK'
<1>1. CASE HandleSigterm
  BY <1>1
  DEF Environment, HandleSigterm, TypeOK, BusTypeOK, SupervisorTypeOK,
      ProcessesTypeOK, HealthcheckTypeOK, busVars, repoVars, threadVars,
      healthVars
<1>2. ASSUME NEW p \in Pids, ProcessExits(p)
      PROVE  TypeOK'
  <2>1. ProcessesTypeOK'
    <3>1. PICK ok \in Outcomes(p) :
            proc' = [proc EXCEPT ![p].state = "zombie", ![p].ok = ok]
      BY <1>2 DEF ProcessExits, Exit
    <3>2. /\ proc \in [Pids -> Process] /\ proc[p].state = "alive"
          /\ proc[p].owner \in Services
      BY <1>2 DEF ProcessExits, Exit, TypeOK, ProcessesTypeOK, Process
    <3>3. /\ Config[proc[p].owner].exits \in SUBSET BOOLEAN
          /\ Config[proc[p].owner].on_term \in SUBSET BOOLEAN
      BY <3>2, ConfigAssumption DEF ServiceType
    <3>4. ok \in BOOLEAN
      BY <3>1, <3>2, <3>3 DEF Outcomes, Process
    <3> QED BY <3>1, <3>2, <3>4 DEF ProcessesTypeOK, Process
  <2> QED
    BY <1>2, <2>1
    DEF Environment, ProcessExits, TypeOK, BusTypeOK, SupervisorTypeOK,
        HealthcheckTypeOK, busVars, repoVars, threadVars, signalVars,
        healthVars
<1>3. ASSUME NEW s \in Services, GraceExpires(s)
      PROVE  TypeOK'
  <2>1. sh' \in [Services -> ServiceHandlerType]
    BY <1>3, HandlersUpdate DEF GraceExpires, TypeOK
  <2> QED
    BY <1>3, <2>1
    DEF Environment, GraceExpires, TypeOK, BusTypeOK, SupervisorTypeOK,
        ProcessesTypeOK, HealthcheckTypeOK, busVars, threadVars, signalVars,
        healthVars
<1> QED
  BY <1>1, <1>2, <1>3 DEF Environment

-----------------------------------------------------------------------------
(* Type correctness                                                        *)

(* The initial state is typed.                                             *)
LEMMA InitType == Init => TypeOK
<1> SUFFICES ASSUME Init
             PROVE  TypeOK
  OBVIOUS
<1>1. BusTypeOK
  BY DEF Init, BusInit, BusTypeOK
<1>2. SupervisorTypeOK
  <2>1. NewServiceHandler \in ServiceHandlerType
    BY DEF NewServiceHandler, ServiceHandlerType, Statuses
  <2>2. NoSpawner \in Spawners
    BY DEF NoSpawner, Spawners
  <2>3. /\ sh \in [Services -> ServiceHandlerType]
        /\ spawners \in [Services -> Spawners]
        /\ pid_map \in [Pids -> Services \cup {None}]
    BY <2>1, <2>2 DEF Init, SupervisorInit
  <2>4. /\ lifecycle \in LifecycleStatuses /\ phase \in Phases
        /\ sigterm \in BOOLEAN /\ sigterms \in Nat
    BY DEF Init, SupervisorInit, Phases, LifecycleStatuses
  <2>5. batch \in Seq(Event) /\ out \in Seq(Seq(Event))
    BY DEF Init, SupervisorInit
  <2> QED
    BY <2>3, <2>4, <2>5 DEF SupervisorTypeOK
<1>3. ProcessesTypeOK
  BY DEF Init, SupervisorInit, ProcessesInit, ProcessesTypeOK, Process,
         Unborn
<1>4. HealthcheckTypeOK
  BY DEF Init, HealthcheckInit, HealthcheckTypeOK
<1> QED BY <1>1, <1>2, <1>3, <1>4 DEF TypeOK

(* So is what every step of every thread leaves behind.                    *)
LEMMA NextType == TypeOK /\ [Next]_vars => TypeOK'
<1> SUFFICES ASSUME TypeOK, [Next]_vars
             PROVE  TypeOK'
  OBVIOUS
<1>1. CASE SupervisorThread
  BY <1>1, HandleEventType, IterationType DEF SupervisorThread, SupervisorStep
<1>2. CASE Dispatch
  BY <1>2, DispatchType
<1>3. CASE MonitorThread
  BY <1>3, MonitorType
<1>4. ASSUME NEW s \in Services, SpawnerThread(s) \/ WorkerThread(s)
      PROVE  TypeOK'
  BY <1>4, SpawnerType, WorkerType
<1>5. CASE Environment
  BY <1>5, EnvironmentType
<1>6. CASE UNCHANGED vars
  BY <1>6
  DEF vars, TypeOK, BusTypeOK, SupervisorTypeOK, ProcessesTypeOK,
      HealthcheckTypeOK, supervisorVars, busVars, repoVars, threadVars,
      signalVars, healthVars
<1> QED
  BY <1>1, <1>2, <1>3, <1>4, <1>5, <1>6 DEF Next, Idle

(* Every variable keeps its type, whatever the services, their             *)
(* configuration, the pids and the bounds are: no handler of any thread    *)
(* writes a value the others do not expect.                                *)
THEOREM Typing == Spec => []TypeOK
BY InitType, NextType, PTL DEF Spec

=============================================================================

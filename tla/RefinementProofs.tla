-------------------------- MODULE RefinementProofs --------------------------
(***************************************************************************)
(* Horust implements Lifecycle, step by step: for every number of services *)
(* and of queued events, for pids that are not reused, and however often a *)
(* service is started again.  What is new here is why signals are sent     *)
(* when they are allowed to be: the kill that a graceful shutdown decides  *)
(* on in the right order is obeyed in the right order, and SIGKILL comes   *)
(* after SIGTERM.                                                          *)
(***************************************************************************)
EXTENDS OrderProofs, ShutdownProofs, HorustRefinement

(* A service that is to outlive others is not killed for another reason    *)
(* than a shutdown: a kill that was decided on before the shutdown began   *)
(* is obeyed in it, and has not looked at shutdown_after.                  *)
OnlyShutdownsKill ==
  \A s \in Services : Config[s].shutdown_after # {} =>
    /\ Config[s].checks = {}
    /\ Config[s].die_if_failed = {}
    /\ \A t \in Config[s].start_after : Config[t].failure # "kill-dependents"

-----------------------------------------------------------------------------
(* The inductive invariant                                                 *)

(* s is going to be killed, or is being killed: ...                        *)
Killing(s) == {Kill(s), StatusUpdate(s, "InKilling")}
Asked(s) == ~Nowhere(Killing(s)) \/ sh[s].status = "InKilling"

(* ... unless the shutdown is forceful, what it is to outlive is gone.     *)
KillInv(s) ==
  lifecycle # "Forcefully" /\ Asked(s) =>
    \A d \in Config[s].shutdown_after : HasFinished(sh[d])

(* The grace period starts with SIGTERM, and SIGKILL comes at its end.     *)
(* What may be started again has not had one yet.                          *)
Termed(s) == \A p \in Alive(s) : proc[p].sig # "none"
MayRestart(s) ==
  /\ ~Once(s) /\ ~HasFinished(sh[s])
  /\ lifecycle = "Running" \/ ~Nowhere(Again(s))
GraceInv(s) ==
  /\ sh[s].shutting_down_start # "none" =>
       sh[s].status \in {"InKilling"} \cup Over
  /\ (/\ sh[s].status = "InKilling" /\ sh[s].pid # None
      /\ sh[s].shutting_down_start # "none") => Termed(s)
  /\ lifecycle # "Forcefully" /\ ~Nowhere({ForceKill(s)}) => Termed(s)
  /\ MayRestart(s) => sh[s].shutting_down_start = "none"

(* The process whose pid is held is the one of the holder.                 *)
OwnerInv ==
  \A s \in Services, p \in Pids :
    Holds(s, p) /\ proc[p].state = "alive" => p \in Alive(s)

StopInv ==
  /\ PidInv /\ FlowInv /\ OwnerInv
  /\ SupervisorIsUp =>
       \A s \in Services : KillInv(s) /\ GraceInv(s)

-----------------------------------------------------------------------------
(* The owner of a pid                                                      *)

LEMMA StepOwner ==
  ASSUME CleanRestarts, InstanceInv, HolderInv, OwnerInv, TypeOK', Next
  PROVE  OwnerInv'
<1> SUFFICES ASSUME NEW s \in Services, NEW p \in Pids, Holds(s, p)',
                    proc'[p].state = "alive"
             PROVE  /\ proc'[p].owner = s /\ proc'[p].role = "service"
  BY DEF OwnerInv, Alive
<1>1. TypeOK /\ proc \in [Pids -> Process]
  BY DEF InstanceInv, GlobalInv, TypeOK, ProcessesTypeOK
<1>2. CASE proc[p].state = "free" /\ Fork(s, p, "service")
  <2>1. proc' = [proc EXCEPT ![p].state = "alive", ![p].owner = s,
                             ![p].role = "service"]
    BY <1>2 DEF Fork
  <2> QED BY <1>1, <2>1 DEF Process
<1>3. CASE Holds(s, p)
  <2>1. proc[p].state # "free"
    BY <1>3 DEF HolderInv
  <2>2. Gone.state # "alive"
    BY DEF Gone, Unborn
  <2>3. SameProcess(p)
    BY <1>1, <2>1, <2>2, ProcessMoves DEF Dies, Collected, Born
  <2>4. p \in Alive(s)
    BY <1>3, <2>3 DEF OwnerInv, SameProcess
  <2> QED BY <2>3, <2>4 DEF SameProcess, Alive
<1> QED BY <1>1, <1>2, <1>3, HeldSince

-----------------------------------------------------------------------------
(* What a service asks for                                                 *)

(* A kill is asked for when what the service is to outlive has finished,   *)
(* and SIGKILL at the end of the grace period, or as the shutdown is       *)
(* forceful.                                                               *)
Orderly(ev) ==
  \A s \in Services :
    /\ ev \in Killing(s) =>
         lifecycle = "Forcefully" \/ IsServiceKillable(sh, s)
    /\ ev = ForceKill(s) =>
         sh[s].status = "InKilling" /\ ShouldForceKill(sh[s], lifecycle)
Disorderly == {ev \in Event : ~Orderly(ev)}

(* Most events ask for neither.                                            *)
LEMMA OtherEvents ==
  ASSUME NEW ev, ev.kind \notin {"Kill", "ForceKill"},
         ev.kind = "StatusUpdate" => ev.status # "InKilling"
  PROVE  Orderly(ev)
BY DEF Orderly, Killing, Kill, ForceKill, StatusUpdate

(* A service that is to outlive none may be killed at any time.            *)
LEMMA KillAllOrderly ==
  ASSUME NEW T \in SUBSET Services,
         \A s \in T : Config[s].shutdown_after = {}
  PROVE  KillAll(T) \in Seq(Event) /\ Without(KillAll(T), Disorderly)
<1> DEFINE n == Cardinality(T)
           order == SetToSeq(T)
<1>1. n \in Nat /\ order \in [1..n -> T]
  BY SetToSeqType, ServicesAssumption, FS_Subset
<1>2. DOMAIN KillAll(T) = 1..(2 * n)
  BY DEF KillAll
<1>3. ASSUME NEW i \in 1..(2 * n)
      PROVE  KillAll(T)[i] =
               IF i % 2 = 1 THEN StatusUpdate(order[(i + 1) \div 2], "InKilling")
                            ELSE Kill(order[i \div 2])
  BY DEF KillAll
<1> HIDE DEF n, order
<1>4. ASSUME NEW i \in DOMAIN KillAll(T)
      PROVE  Orderly(KillAll(T)[i])
  <2>1. i \in 1..(2 * n)
    BY <1>2
  <2>2. PICK t \in T : KillAll(T)[i] \in Killing(t)
    <3>1. CASE i % 2 = 1
      <4>1. (i + 1) \div 2 \in 1..n
        BY <1>1, <2>1, <3>1
      <4> QED BY <1>1, <1>3, <2>1, <3>1, <4>1 DEF Killing
    <3>2. CASE i % 2 # 1
      <4>1. i \div 2 \in 1..n
        BY <1>1, <2>1, <3>2
      <4> QED BY <1>1, <1>3, <2>1, <3>2, <4>1 DEF Killing
    <3> QED BY <3>1, <3>2
  <2>3. IsServiceKillable(sh, t)
    BY DEF IsServiceKillable
  <2> QED BY <2>2, <2>3 DEF Orderly, Killing, Kill, StatusUpdate, ForceKill
<1> QED BY <1>4, KillAllType DEF Without, Disorderly

(* So all that a service asks for is in order.                             *)
LEMMA NextEventsOrderly ==
  ASSUME OnlyShutdownsKill, TypeOK, NEW x \in Services, HealthInv(x)
  PROVE  /\ NextEvents(sh, x, lifecycle) \in Seq(Event)
         /\ Without(NextEvents(sh, x, lifecycle), Disorderly)
<1> DEFINE h == sh[x]
           Good(q) == q \in Seq(Event) /\ Without(q, Disorderly)
<1>0. /\ h \in ServiceHandlerType
      /\ Config[x] \in ServiceType
  BY ConfigAssumption DEF TypeOK, SupervisorTypeOK
<1>1. ASSUME NEW e \in Event, Orderly(e)
      PROVE  Good(<<e>>)
  <2>1. e \notin Disorderly
    BY <1>1 DEF Disorderly
  <2> QED BY <2>1, EventLists, ShortQueues
<1>2. \A q, r : Good(q) /\ Good(r) => Good(q \o r)
  BY Joined
<1>3. Good(<<>>)
  BY ShortQueues
<1>4. Good(KillAll(Dependents(x))) \/ Config[x].failure # "kill-dependents"
  <2>1. Dependents(x) \in SUBSET Services
    BY DEF Dependents
  <2>2. Config[x].failure = "kill-dependents" =>
          \A s \in Dependents(x) : Config[s].shutdown_after = {}
    BY DEF OnlyShutdownsKill, Dependents
  <2> QED BY <2>1, <2>2, KillAllOrderly
<1>5. Good(KillAll(DieIfFailed(x)))
  <2>1. DieIfFailed(x) \in SUBSET Services
    BY DEF DieIfFailed
  <2>2. \A s \in DieIfFailed(x) : Config[s].shutdown_after = {}
    BY DEF OnlyShutdownsKill, DieIfFailed
  <2> QED BY <2>1, <2>2, KillAllOrderly
<1>6. ASSUME NEW e \in Event, NEW f \in Event, Orderly(e), Orderly(f)
      PROVE  Good(<<e, f>>)
  <2>1. e \notin Disorderly /\ f \notin Disorderly
    BY <1>6 DEF Disorderly
  <2> QED BY <2>1, EventLists, ShortQueues
<1> HIDE DEF Good
<1>7. ASSUME lifecycle = "Forcefully" \/ IsServiceKillable(sh, x)
      PROVE  Good(KillCommand(x))
  <2>1. Orderly(StatusUpdate(x, "InKilling")) /\ Orderly(Kill(x))
    BY <1>7 DEF Orderly, Killing, StatusUpdate, Kill, ForceKill
  <2>2. StatusUpdate(x, "InKilling") \in Event /\ Kill(x) \in Event
    BY EventConstructors DEF Statuses
  <2> QED BY <1>6, <2>1, <2>2 DEF KillCommand
<1>8. ASSUME NEW st \in Statuses, st # "InKilling"
      PROVE  Good(<<StatusUpdate(x, st)>>)
  <2>1. Orderly(StatusUpdate(x, st))
    BY <1>8, OtherEvents DEF StatusUpdate
  <2>2. StatusUpdate(x, st) \in Event
    BY EventConstructors
  <2> QED BY <1>1, <2>1, <2>2
<1>9. \A b : Good(<<HandleRestartStrategy(x, h, b)>>)
  <2>1. ASSUME NEW b
        PROVE  \E st \in {"Initial", "Finished", "FinishedFailed"} :
                 HandleRestartStrategy(x, h, b) = StatusUpdate(x, st)
    BY DEF HandleRestartStrategy
  <2> QED BY <1>8, <2>1 DEF Statuses
<1>10. Good(HandleFailedService(x))
  <2>1. Config[x].failure \in FailureStrategies
    BY <1>0 DEF ServiceType
  <2>2. Good(<<ShuttingDownInitiated("Gracefully")>>)
    <3>1. Orderly(ShuttingDownInitiated("Gracefully"))
      BY OtherEvents DEF ShuttingDownInitiated
    <3>2. ShuttingDownInitiated("Gracefully") \in Event
      BY EventConstructors DEF ShuttingDown
    <3> QED BY <1>1, <3>1, <3>2
  <2> QED
    BY <1>3, <1>4, <2>1, <2>2 DEF HandleFailedService, FailureStrategies
<1>11. ASSUME h.status = "InKilling", ShouldForceKill(h, lifecycle)
       PROVE  /\ Good(<<ForceKill(x)>>)
              /\ Good(<<ForceKill(x), StatusChanged(x, "Failed")>>)
  <2>1. Orderly(ForceKill(x))
    BY <1>11 DEF Orderly, Killing, ForceKill, Kill, StatusUpdate
  <2>2. Orderly(StatusChanged(x, "Failed"))
    BY OtherEvents DEF StatusChanged
  <2>3. ForceKill(x) \in Event /\ StatusChanged(x, "Failed") \in Event
    BY EventConstructors DEF Statuses
  <2> QED BY <1>1, <1>6, <2>1, <2>2, <2>3
<1>12. CASE lifecycle = "Running"
  <2>1. Good(HandleFailedService(x)
               \o <<HandleRestartStrategy(x, h, TRUE)>>
               \o KillAll(DieIfFailed(x)))
    <3>1. Good(HandleFailedService(x) \o <<HandleRestartStrategy(x, h, TRUE)>>)
      BY <1>2, <1>9, <1>10
    <3> QED BY <1>2, <1>5, <3>1
  <2>2. Good(<<Run(x)>>)
    <3>1. Orderly(Run(x))
      BY OtherEvents DEF Run
    <3> QED BY <1>1, <3>1, EventConstructors
  <2>3. Good(<<StatusUpdate(x, "Running")>>)
    BY <1>8 DEF Statuses
  <2>4. h.healthiness_checks_failed > Config[x].max_failed =>
          Good(KillCommand(x))
    <3> SUFFICES ASSUME h.healthiness_checks_failed > Config[x].max_failed
                 PROVE  IsServiceKillable(sh, x)
      BY <1>7
    <3>1. Config[x].checks # {}
      BY <1>0 DEF HealthInv, ServiceType
    <3>2. Config[x].shutdown_after = {}
      BY <3>1 DEF OnlyShutdownsKill
    <3> QED BY <3>2 DEF IsServiceKillable
  <2>5. h.status = "InKilling" /\ ShouldForceKill(h, "Running") =>
          Good(<<ForceKill(x), StatusChanged(x, "Failed")>>)
    BY <1>11, <1>12
  <2>6. Good(NextEventsRunning(sh, x))
    BY <1>3, <1>9, <2>1, <2>2, <2>3, <2>4, <2>5, Zenon DEF NextEventsRunning
  <2> QED BY <1>12, <2>6 DEF NextEvents, Good
<1>13. CASE lifecycle # "Running"
  <2>1. /\ Good(<<StatusUpdate(x, "Finished")>>)
        /\ Good(<<StatusUpdate(x, "FinishedFailed")>>)
    BY <1>8 DEF Statuses
  <2>2. Good(NextEventsShuttingDown(sh, x, lifecycle))
    BY <1>3, <1>7, <1>11, <2>1, Zenon DEF NextEventsShuttingDown
  <2> QED BY <1>13, <2>2 DEF NextEvents, Good
<1> QED BY <1>12, <1>13

LEMMA NextOfAllOrderly ==
  ASSUME OnlyShutdownsKill, TypeOK, \A x \in Services : HealthInv(x),
         NEW e \in NextOfAll
  PROVE  Orderly(e)
<1>1. PICK x \in Services : e \in ToSet(NextEvents(sh, x, lifecycle))
  BY DEF NextOfAll
<1>2. PICK i \in DOMAIN NextEvents(sh, x, lifecycle) :
        e = NextEvents(sh, x, lifecycle)[i]
  BY <1>1 DEF ToSet
<1>3. e \in Event /\ e \notin Disorderly
  BY <1>2, NextEventsOrderly DEF Without
<1> QED BY <1>3 DEF Disorderly

-----------------------------------------------------------------------------
(* How the status of a service changes                                     *)

(* The update of s to a new status has been on its way.                    *)
Updated(s, new) ==
  /\ HandleStatusUpdate /\ ~Nowhere({StatusUpdate(s, new)})
  /\ sh'[s] = ChangeStatus(sh[s], new)

LEMMA StatusMoves ==
  ASSUME InstanceInv, Next, NEW s \in Services
  PROVE  \/ sh'[s].status = sh[s].status
         \/ \E new \in Statuses : Updated(s, new)
         \/ sh'[s].status \in {"Success", "Failed"}
         \/ sh[s].status = "Initial" /\ sh'[s].status = "Starting"
         \/ sh[s].status = "Starting" /\ sh'[s].status = "Started"
         \/ /\ HandleRunPrepareFails /\ sh[s].status = "Initial"
            /\ sh'[s].status = "FinishedFailed"
<1>1. /\ TypeOK /\ ServiceInv(s) /\ sh \in [Services -> ServiceHandlerType]
      /\ sh[s] \in ServiceHandlerType
  BY DEF InstanceInv, GlobalInv, TypeOK, SupervisorTypeOK
<1>2. CASE HandleServiceExited
  <2>1. PICK x, ok : sh' = [sh EXCEPT ![x] = ExitedHandler(x, ok)]
    BY <1>2 DEF HandleServiceExited
  <2>2. \/ ExitedHandler(s, ok).status = sh[s].status
        \/ ExitedHandler(s, ok).status \in {"Success", "Failed"}
    <3>1. \A n : [sh[s] EXCEPT !.shutting_down_start = "none",
                               !.pid = None,
                               !.restart_attempts = n].status = sh[s].status
      BY <1>1 DEF ServiceHandlerType
    <3> QED BY <1>1, <3>1
            DEF ExitedHandler, ChangeStatus, IsAllowed, ServiceHandlerType
  <2> QED BY <1>1, <2>1, <2>2
<1>3. CASE HandleStatusUpdate
  <2>1. /\ batch # <<>> /\ Head(batch) \in Event
        /\ Head(batch).kind = "StatusUpdate"
        /\ \A S : Head(batch) \in S => ~Nowhere(S)
    BY <1>1, <1>3, HeadUnderWay DEF HandleStatusUpdate, Handling
  <2>2. PICK x \in Services, new \in Statuses :
          /\ Head(batch) = StatusUpdate(x, new)
          /\ x = Head(batch).svc /\ new = Head(batch).status
    BY <2>1 DEF Event, StatusUpdate
  <2>3. sh' = [sh EXCEPT ![x] = ChangeStatus(sh[x], new)]
    BY <1>3, <2>2 DEF HandleStatusUpdate
  <2>4. CASE x = s
    <3>1. ~Nowhere({StatusUpdate(s, new)})
      BY <2>1, <2>2, <2>4
    <3>2. sh'[s] = ChangeStatus(sh[s], new)
      BY <1>1, <2>3, <2>4
    <3> QED BY <1>3, <3>1, <3>2 DEF Updated
  <2>5. CASE x # s
    BY <1>1, <2>3, <2>5
  <2> QED BY <2>4, <2>5
<1>4. CASE HandlePidChanged
  <2>1. /\ batch # <<>> /\ Head(batch) \in Event
        /\ Head(batch).kind = "PidChanged"
        /\ \A S : Head(batch) \in S => ~Nowhere(S)
    BY <1>1, <1>4, HeadUnderWay DEF HandlePidChanged, Handling
  <2>2. CASE Head(batch).svc = s
    <3>1. Head(batch) \in Replies(s)
      BY <2>1, <2>2 DEF Replies
    <3>2. ~Answered(s)
      BY <1>1, <2>1, <3>1 DEF ServiceInv, TokenInv, Answered, Nowhere
    <3>3. sh[s].status \in {"Starting", "InKilling"}
      BY <1>1, <3>2 DEF ServiceInv, TokenInv
    <3> QED BY <1>1, <1>4, <2>2, <3>3 DEF HandlePidChanged, ServiceHandlerType
  <2>3. CASE Head(batch).svc # s
    BY <1>1, <1>4, <2>3 DEF HandlePidChanged
  <2> QED BY <2>2, <2>3
<1>5. CASE HandleSpawnFailed \/ HandleForceKill
  BY <1>1, <1>5 DEF HandleSpawnFailed, HandleForceKill, ServiceHandlerType
<1>6. CASE HandleRun \/ HandleRunPrepareFails
  BY <1>1, <1>6
  DEF HandleRun, HandleRunPrepareFails, MayRun, ServiceHandlerType
<1>7. CASE HandleHealthCheck
  <2>1. PICK x, b : sh' = [sh EXCEPT ![x] = AddHealthcheckEvent(x, sh[x], b)]
    BY <1>7 DEF HandleHealthCheck
  <2>2. AddHealthcheckEvent(s, sh[s], b).status = sh[s].status
    BY <1>1 DEF AddHealthcheckEvent, ServiceHandlerType
  <2> QED BY <1>1, <2>1, <2>2
<1>8. CASE HandleKill \/ \E x \in Services : GraceExpires(x)
  BY <1>1, <1>8 DEF HandleKill, GraceExpires, ServiceHandlerType
<1> QED BY <1>2, <1>3, <1>4, <1>5, <1>6, <1>7, <1>8, WhoHandles

(* A service is in InKilling because that was asked for, and leaves it for *)
(* its end; in the end it stays unless it is told to be ready again.       *)
Ending(s) == sh[s].status \in {"InKilling"} \cup Over
Readied(s) == sh[s].status \in {"Success", "Failed"} /\ ~Nowhere(Again(s))

LEMMA TowardsTheEnd ==
  ASSUME InstanceInv, Next, NEW s \in Services
  PROVE  /\ sh'[s].status = "InKilling" =>
              \/ sh[s].status = "InKilling"
              \/ ~Nowhere({StatusUpdate(s, "InKilling")})
         /\ Ending(s) => Ending(s)' \/ Readied(s)
         /\ sh[s].status \in Over => sh'[s].status # "InKilling"
<1>1. /\ TypeOK /\ sh[s] \in ServiceHandlerType /\ Nowhere(Unsent)
  BY DEF InstanceInv, GlobalInv, TypeOK, SupervisorTypeOK
<1>2. CASE \E new \in Statuses : Updated(s, new)
  <2>1. PICK new \in Statuses : Updated(s, new)
    BY <1>2
  <2>2. StatusUpdate(s, new) \notin Unsent
    BY <1>1, <2>1 DEF Updated, Nowhere, Without, AllWithout
  <2>3. /\ new \notin {"Starting", "Started", "Success"}
        /\ new = "Initial" => ~Nowhere(Again(s))
    BY <2>1, <2>2 DEF Unsent, Updated, Again
  <2>4. \/ sh'[s].status = sh[s].status
        \/ /\ sh[s].status \in ALLOWED_TRANSITIONS[new]
           /\ \/ sh'[s].status = new
              \/ new = "InKilling" /\ sh'[s].status = "Success"
    BY <1>1, <2>1 DEF Updated, ChangeStatus, IsAllowed, ServiceHandlerType
  <2> QED
    BY <2>1, <2>3, <2>4
    DEF Updated, Ending, Readied, Over, ALLOWED_TRANSITIONS, Statuses
<1> QED BY <1>2, StatusMoves DEF Ending, Over

-----------------------------------------------------------------------------
(* Why a service is killed                                                 *)

(* What asks for the kill of s is sent when s may be killed, and SIGKILL   *)
(* when it is due.                                                         *)
LEMMA DecidedNow ==
  ASSUME OnlyShutdownsKill, InstanceInv, TypeOK', Next,
         NEW e, ~Nowhere({e})', Nowhere({e}),
         \/ e.kind \in {"Kill", "ForceKill"}
         \/ e.kind = "StatusUpdate" /\ e.status = "InKilling"
  PROVE  Produce /\ Orderly(e)
<1>1. TypeOK /\ GlobalInv
  BY DEF InstanceInv, GlobalInv
<1>2. PICK N : OnlyAdds(N) /\ \A n \in N : Origin(n)
  BY <1>1, Provenance
<1>3. e \in N
  <2> SUFFICES ASSUME e \notin N
               PROVE  Nowhere({e})'
    OBVIOUS
  <2>1. \A n \in N : n \notin {e}
    OBVIOUS
  <2>2. AllWithout(out', {e}) /\ Without(course', {e})
    BY <1>2, <2>1 DEF OnlyAdds, Nowhere
  <2> QED BY <2>2 DEF Nowhere
<1>4. ~IsAnnouncement(e)
  BY DEF IsAnnouncement, Announcements
<1>5. \A t, p : e # PidChanged(t, p)
  BY DEF PidChanged
<1>6. e \notin ExitsReaped(Zombies)
  BY DEF ExitsReaped, ExitOf, ServiceExited
<1>7. Produce /\ e \in NextOfAll
  BY <1>2, <1>3, <1>4, <1>5, <1>6 DEF Origin
<1> QED BY <1>1, <1>7, NextOfAllOrderly DEF InstanceInv

LEMMA AskedSince ==
  ASSUME OnlyShutdownsKill, InstanceInv, TypeOK', Next, NEW s \in Services, Asked(s)'
  PROVE  Asked(s) \/ lifecycle = "Forcefully" \/ IsServiceKillable(sh, s)
<1>1. CASE sh'[s].status = "InKilling"
  <2>1. Nowhere(Killing(s)) => Nowhere({StatusUpdate(s, "InKilling")})
    BY DEF Killing, Nowhere, Without, AllWithout
  <2> QED BY <1>1, <2>1, TowardsTheEnd DEF Asked
<1>2. CASE ~Nowhere(Killing(s))'
  <2> SUFFICES ASSUME Nowhere(Killing(s))
               PROVE  lifecycle = "Forcefully" \/ IsServiceKillable(sh, s)
    BY DEF Asked
  <2>1. PICK e \in Killing(s) : ~Nowhere({e})'
    BY <1>2 DEF Nowhere, Without, AllWithout, Killing, Kill, StatusUpdate
  <2>2. Nowhere({e})
    BY DEF Nowhere, Without, AllWithout
  <2>3. \/ e.kind \in {"Kill", "ForceKill"}
        \/ e.kind = "StatusUpdate" /\ e.status = "InKilling"
    BY DEF Killing, Kill, StatusUpdate
  <2>4. Orderly(e)
    BY <2>1, <2>2, <2>3, DecidedNow
  <2> QED BY <2>4 DEF Orderly
<1> QED BY <1>1, <1>2 DEF Asked

(* What had finished when the kill was decided on has finished when it is   *)
(* carried out.                                                            *)
LEMMA StepKill ==
  ASSUME OnlyShutdownsKill, PreparationsSucceed, InstanceInv, FlowInv,
         TypeOK', Next, NEW s \in Services, KillInv(s)
  PROVE  KillInv(s)'
<1> SUFFICES ASSUME lifecycle' # "Forcefully", Asked(s)',
                    NEW d \in Config[s].shutdown_after
             PROVE  HasFinished(sh'[d])
  BY DEF KillInv
<1>1. d \in Services
  BY ConfigAssumption DEF ServiceType
<1>2. lifecycle # "Forcefully"
  BY OnlyStronger
<1>3. HasFinished(sh[d])
  BY <1>2, AskedSince DEF KillInv, IsServiceKillable
<1>4. sh'[d].status = sh[d].status
  BY <1>1, <1>3, StaysFinished
<1> QED BY <1>3, <1>4 DEF HasFinished

-----------------------------------------------------------------------------
(* Who sends signals, and who forks                                        *)

(* What a signal does to the process it is sent to, and to the others.     *)
LEMMA SignalReaches ==
  ASSUME TypeOK, NEW q, NEW sig \in {"term", "kill"}, proc' = Signalled(q, sig),
         NEW p \in Pids, proc[p].state = "alive"
  PROVE  /\ p # q => proc'[p] = proc[p]
         /\ p = q => proc'[p].sig = IF proc[p].sig = "kill" THEN "kill" ELSE sig
<1>1. proc \in [Pids -> Process] /\ proc[p] \in Process
  BY DEF TypeOK, ProcessesTypeOK
<1> QED BY <1>1 DEF Signalled, Process

(* The handlers that send a signal to p.                                   *)
TermSent(p) ==
  /\ proc'[p].sig = IF proc[p].sig = "kill" THEN "kill" ELSE "term"
  /\ \/ HandleKill /\ p = sh[Head(batch).svc].pid
     \/ /\ HandlePidChanged /\ p = Head(batch).pid
        /\ sh[Head(batch).svc].status = "InKilling"
KillSent(p) ==
  /\ proc'[p].sig = "kill"
  /\ HandleForceKill /\ p = sh[Head(batch).svc].pid

LEMMA WhoSignals ==
  ASSUME TypeOK, Next, NEW p \in Pids, proc[p].state = "alive"
  PROVE  \/ proc'[p].sig = proc[p].sig
         \/ TermSent(p) \/ KillSent(p) \/ (Return /\ proc'[p].sig = "kill")
<1>1. proc \in [Pids -> Process] /\ proc[p] \in Process
  BY DEF TypeOK, ProcessesTypeOK
<1>2. CASE HandleKill
  <2>1. proc' = Signalled(sh[Head(batch).svc].pid, "term")
    BY <1>2 DEF HandleKill
  <2>2. \/ proc'[p] = proc[p]
        \/ /\ p = sh[Head(batch).svc].pid
           /\ proc'[p].sig = IF proc[p].sig = "kill" THEN "kill" ELSE "term"
    BY <2>1, SignalReaches
  <2> QED BY <1>2, <2>2 DEF TermSent
<1>3. CASE HandleForceKill
  <2>1. proc' = Signalled(sh[Head(batch).svc].pid, "kill")
    BY <1>3 DEF HandleForceKill
  <2>2. \/ proc'[p] = proc[p]
        \/ /\ p = sh[Head(batch).svc].pid
           /\ proc'[p].sig = "kill"
    BY <2>1, SignalReaches
  <2> QED BY <1>3, <2>2 DEF KillSent
<1>4. CASE HandlePidChanged
  BY <1>4, SignalReaches DEF HandlePidChanged, TermSent
<1>5. CASE Return
  BY <1>5, ReturnSignals
<1>6. CASE Produce
  <2>1. PICK reaped \in SUBSET Zombies :
          proc' = [q \in Pids |-> IF q \in reaped THEN Gone ELSE proc[q]]
    BY <1>6 DEF Produce
  <2> QED BY <2>1 DEF Zombies
<1>7. ASSUME NEW s \in Services, SpawnerForks(s)
      PROVE  proc'[p] = proc[p]
  BY <1>1, <1>7 DEF SpawnerForks, Fork, FreePids
<1>8. ASSUME NEW s \in Services, WorkerThread(s)
      PROVE  proc'[p] = proc[p]
  <2>1. CASE CommandStarts(s)
    BY <1>1, <2>1 DEF CommandStarts, Fork, FreePids
  <2>2. CASE CommandEnds(s)
    BY <1>1, <2>2 DEF CommandEnds
  <2> QED
    BY <1>8, <2>1, <2>2
    DEF WorkerThread, WorkerStep, WorkerReports, WorkerEnds,
        CommandCannotStart, WorkerWaits, CommandIsStolen, WorkerPanics
<1>9. ASSUME NEW q \in Pids, ProcessExits(q)
      PROVE  proc'[p].sig = proc[p].sig
  <2>1. PICK ok : proc' = [proc EXCEPT ![q].state = "zombie", ![q].ok = ok]
    BY <1>9 DEF ProcessExits, Exit
  <2> QED BY <1>1, <2>1 DEF Process
<1> QED BY <1>2, <1>3, <1>4, <1>5, <1>6, <1>7, <1>8, <1>9, WhoTouches

(* Only a spawner thread brings a process of a service into the world.     *)
LEMMA WhoForks ==
  ASSUME TypeOK, Next, NEW s \in Services, NEW p \in Alive(s)', p \notin Alive(s)
  PROVE  SpawnerForks(s)
<1>1. /\ proc \in [Pids -> Process] /\ p \in Pids /\ proc[p] \in Process
      /\ proc'[p].state = "alive" /\ proc'[p].owner = s
      /\ proc'[p].role = "service"
  BY DEF TypeOK, ProcessesTypeOK, Alive
<1>2. Gone.state # "alive"
  BY DEF Gone, Unborn
<1>3. proc[p].state = "free"
  <2>1. SameProcess(p) \/ Born(p)
    BY <1>1, <1>2, ProcessMoves DEF Dies, Collected
  <2> QED BY <1>1, <2>1 DEF SameProcess, Born, Alive
<1>4. ~UNCHANGED proc
  BY <1>1, <1>3
<1>5. ASSUME NEW q, NEW sig \in {"term", "kill"}, proc' = Signalled(q, sig)
      PROVE  FALSE
  BY <1>5, SignalledStays
<1>6. ~HandleKill /\ ~HandleForceKill /\ ~HandlePidChanged
  BY <1>4, <1>5 DEF HandleKill, HandleForceKill, HandlePidChanged
<1>7. ~Return
  BY <1>1, <1>3 DEF Return, Signalled
<1>8. ~Produce
  BY <1>1, <1>2, <1>3 DEF Produce
<1>9. ASSUME NEW x \in Services, WorkerThread(x)
      PROVE  FALSE
  <2>1. CASE CommandStarts(x)
    BY <1>1, <1>3, <2>1 DEF CommandStarts, Fork, Process
  <2>2. CASE CommandEnds(x)
    BY <1>1, <1>2, <1>3, <2>2 DEF CommandEnds
  <2> QED
    BY <1>4, <1>9, <2>1, <2>2
    DEF WorkerThread, WorkerStep, WorkerReports, WorkerEnds,
        CommandCannotStart, WorkerWaits, CommandIsStolen, WorkerPanics
<1>10. ASSUME NEW q \in Pids, ProcessExits(q)
       PROVE  FALSE
  BY <1>1, <1>3, <1>10 DEF ProcessExits, Exit, Process
<1>11. ASSUME NEW x \in Services, SpawnerForks(x)
       PROVE  x = s
  <2>1. PICK q \in FreePids :
          proc' = [proc EXCEPT ![q].state = "alive", ![q].owner = x,
                               ![q].role = "service"]
    BY <1>11 DEF SpawnerForks, Fork
  <2> QED BY <1>1, <1>3, <2>1 DEF Process, FreePids
<1> QED BY <1>4, <1>6, <1>7, <1>8, <1>9, <1>10, <1>11, WhoTouches

-----------------------------------------------------------------------------
(* The grace period                                                        *)

(* A supervisor that has ended stays so.                                   *)
LEMMA NeverUpAgain ==
  ASSUME Next, SupervisorIsUp'
  PROVE  SupervisorIsUp
<1>1. CASE SupervisorThread
  <2>1. CASE HandleEvent
    <3>1. phase = "handling"
      BY <2>1
      DEF HandleEvent, Handling, PanicOnServiceExited, HandleServiceExited,
          HandleRun, HandleRunPrepareFails, HandleSpawnFailed, HandleKill,
          HandleForceKill, HandlePidChanged, HandleHealthCheck,
          HandleShuttingDownInitiated, HandleStatusUpdate, HandleIgnored
    <3> QED BY <3>1 DEF SupervisorIsUp
  <2>2. CASE Ingest \/ Produce \/ Send \/ Return
    BY <2>2, Zenon DEF Ingest, Produce, Send, Return, Asleep, SupervisorIsUp
  <2> QED BY <1>1, <2>1, <2>2 DEF SupervisorThread, SupervisorStep
<1>2. CASE ~SupervisorThread
  <2>1. UNCHANGED phase
    BY <1>2
    DEF Next, Dispatch, MonitorThread, SpawnerThread, SpawnerStep,
        SpawnerForks, SpawnerReports, SpawnerFails, SpawnerGivesUp,
        WorkerThread, Environment, HandleSigterm, ProcessExits, GraceExpires,
        Idle, vars, supervisorVars, threadVars
  <2> QED BY <2>1 DEF SupervisorIsUp
<1> QED BY <1>1, <1>2

(* The two handlers that start the grace period of s.                      *)
Terminates(s) ==
  \/ HandleKill /\ Head(batch).svc = s
  \/ HandlePidChanged /\ Head(batch).svc = s /\ sh[s].status = "InKilling"

LEMMA StartMoves ==
  ASSUME TypeOK, Next, NEW s \in Services,
         sh'[s].shutting_down_start # "none"
  PROVE  sh[s].shutting_down_start # "none" \/ Terminates(s)
<1>1. sh \in [Services -> ServiceHandlerType] /\ sh[s] \in ServiceHandlerType
  BY DEF TypeOK, SupervisorTypeOK
<1>2. CASE HandleServiceExited
  <2>1. PICK x, ok : sh' = [sh EXCEPT ![x] = ExitedHandler(x, ok)]
    BY <1>2 DEF HandleServiceExited
  <2>2. ExitedHandler(s, ok).shutting_down_start = "none"
    BY <1>1 DEF ExitedHandler, ChangeStatus, ServiceHandlerType
  <2> QED BY <1>1, <2>1, <2>2
<1>3. CASE HandleStatusUpdate
  <2>1. PICK x, new : sh' = [sh EXCEPT ![x] = ChangeStatus(sh[x], new)]
    BY <1>3 DEF HandleStatusUpdate
  <2>2. ChangeStatus(sh[s], new).shutting_down_start
          = sh[s].shutting_down_start
    BY <1>1 DEF ChangeStatus, ServiceHandlerType
  <2> QED BY <1>1, <2>1, <2>2
<1>4. CASE HandleHealthCheck
  <2>1. PICK x, b : sh' = [sh EXCEPT ![x] = AddHealthcheckEvent(x, sh[x], b)]
    BY <1>4 DEF HandleHealthCheck
  <2>2. AddHealthcheckEvent(s, sh[s], b).shutting_down_start
          = sh[s].shutting_down_start
    BY <1>1 DEF AddHealthcheckEvent, ServiceHandlerType
  <2> QED BY <1>1, <2>1, <2>2
<1>5. CASE HandleKill
  BY <1>1, <1>5 DEF HandleKill, Terminates, ServiceHandlerType
<1>6. CASE HandlePidChanged
  BY <1>1, <1>6 DEF HandlePidChanged, Terminates, ServiceHandlerType
<1>7. CASE HandleSpawnFailed \/ HandleRunPrepareFails \/ HandleForceKill
  BY <1>1, <1>7
  DEF HandleSpawnFailed, HandleRunPrepareFails, HandleForceKill,
      ServiceHandlerType
<1>8. CASE HandleRun \/ \E x \in Services : GraceExpires(x)
  BY <1>1, <1>8 DEF HandleRun, GraceExpires, ServiceHandlerType
<1> QED BY <1>2, <1>3, <1>4, <1>5, <1>6, <1>7, <1>8, WhoHandles

(* A signal that has been sent has been sent.                              *)
LEMMA StaysTermed ==
  ASSUME TypeOK, Next, NEW s \in Services, Termed(s), ~SpawnerForks(s)
  PROVE  Termed(s)'
<1> SUFFICES ASSUME NEW p \in Alive(s)'
             PROVE  proc'[p].sig # "none"
  BY DEF Termed
<1>1. p \in Alive(s)
  BY WhoForks
<1>2. p \in Pids /\ proc[p].state = "alive" /\ proc[p].sig # "none"
  BY <1>1 DEF Alive, Termed
<1> QED BY <1>2, WhoSignals DEF TermSent, KillSent

(* Who knows the pid of s has its answer, and there is nothing to fork.    *)
LEMMA KnowsItsPid ==
  ASSUME NEW s \in Services, ServiceInv(s), SupervisorIsUp, sh[s].pid # None
  PROVE  Alive(s) \subseteq {sh[s].pid} /\ Answered(s)
BY DEF ServiceInv, TokenInv, Awaited, ProcessInv

LEMMA ForksUnanswered ==
  ASSUME TypeOK, NEW s \in Services, SpawnerForks(s)
  PROVE  ~Answered(s)
<1>1. spawners[s] \in Spawners
  BY DEF TypeOK, SupervisorTypeOK
<1> QED BY <1>1 DEF SpawnerForks, Answered, StillToFork, Spawners

(* A service is told to be ready again while the others run.               *)
LEMMA ReadiedNow ==
  ASSUME CleanRestarts, InstanceInv, TypeOK', Next, NEW s \in Services,
         Nowhere(Again(s)), ~Nowhere(Again(s))'
  PROVE  lifecycle = "Running" /\ sh[s].status \in {"Success", "Failed"}
<1>1. TypeOK /\ GlobalInv
  BY DEF InstanceInv, GlobalInv
<1>2. PICK N : OnlyAdds(N) /\ \A n \in N : Origin(n)
  BY <1>1, Provenance
<1> DEFINE e == StatusUpdate(s, "Initial")
<1>3. e \in N
  <2> SUFFICES ASSUME e \notin N
               PROVE  Nowhere({e})'
    BY DEF Again
  <2>1. \A n \in N : n \notin {e}
    OBVIOUS
  <2>2. Nowhere({e})
    BY DEF Again
  <2>3. AllWithout(out', {e}) /\ Without(course', {e})
    BY <1>2, <2>1, <2>2 DEF OnlyAdds, Nowhere
  <2> QED BY <2>3 DEF Nowhere
<1>4. ~IsAnnouncement(e)
  BY DEF IsAnnouncement, StatusUpdate
<1>5. \A t, p : e # PidChanged(t, p)
  BY DEF PidChanged, StatusUpdate
<1>6. e \notin ExitsReaped(Zombies)
  BY DEF ExitsReaped, ExitOf, ServiceExited, StatusUpdate
<1>7. e \in NextOfAll
  BY <1>2, <1>3, <1>4, <1>5, <1>6 DEF Origin
<1>8. PICK x \in Services : Fits(e, x)
  BY <1>1, <1>7, NextOfAllFits DEF InstanceInv
<1> QED BY <1>8, FitsSorts DEF Again

(* So what may be started again could be before, and was not being killed. *)
LEMMA RestartableSince ==
  ASSUME CleanRestarts, PreparationsSucceed, InstanceInv, InstanceInv',
         FlowInv, TypeOK', Next, NEW s \in Services, MayRestart(s)'
  PROVE  MayRestart(s) /\ sh[s].status # "InKilling"
<1>1. ~Once(s) /\ ~HasFinished(sh[s])
  BY StaysFinished DEF MayRestart, Once, HasFinished
<1>2. AgainInv(s) /\ CalmInv(s) /\ lifecycle \in LifecycleStatuses
  BY DEF InstanceInv, RestartInv, GlobalInv, TypeOK, SupervisorTypeOK
<1>3. CASE lifecycle' = "Running"
  <2>1. lifecycle = "Running"
    BY <1>2, <1>3, OnlyStronger DEF LifecycleStatuses, ShuttingDown
  <2> QED BY <1>1, <1>2, <2>1 DEF MayRestart, CalmInv
<1>4. CASE ~Nowhere(Again(s))'
  <2>1. CASE Nowhere(Again(s))
    BY <1>1, <1>4, <2>1, ReadiedNow DEF MayRestart
  <2>2. CASE ~Nowhere(Again(s))
    BY <1>1, <1>2, <2>2 DEF MayRestart, AgainInv
  <2> QED BY <2>1, <2>2
<1> QED BY <1>3, <1>4 DEF MayRestart

LEMMA StepGrace ==
  ASSUME PreparationsSucceed, OnlyShutdownsKill, CleanRestarts, InstanceInv,
         FlowInv, TypeOK', Next, SupervisorIsUp, NEW s \in Services,
         GraceInv(s)
  PROVE  SupervisorIsUp' => GraceInv(s)'
<1> SUFFICES ASSUME SupervisorIsUp'
             PROVE  GraceInv(s)'
  OBVIOUS
<1>1. /\ TypeOK /\ ServiceInv(s)
      /\ sh \in [Services -> ServiceHandlerType]
      /\ sh[s] \in ServiceHandlerType
  BY DEF InstanceInv, GlobalInv, TypeOK, SupervisorTypeOK
<1>2. InstanceInv' /\ ServiceInv(s)'
  BY StepNext DEF InstanceInv
<1>3. sh'[s].shutting_down_start # "none" =>
        sh'[s].status \in {"InKilling"} \cup Over
  <2> SUFFICES ASSUME sh'[s].shutting_down_start # "none"
               PROVE  Ending(s)'
    BY DEF Ending
  <2>1. CASE sh[s].shutting_down_start # "none"
    <3>1. ~Readied(s)
      BY <1>1, <2>1
      DEF GraceInv, MayRestart, Readied, HasFinished, TerminalStatuses,
          InstanceInv, RestartInv, AgainInv
    <3> QED BY <2>1, <3>1, TowardsTheEnd DEF GraceInv, Ending
  <2>2. CASE Terminates(s)
    <3>1. sh[s].status = "InKilling"
      BY <2>2 DEF Terminates, HandleKill
    <3> QED BY <3>1, TowardsTheEnd DEF Ending, Readied
  <2> QED BY <1>1, <2>1, <2>2, StartMoves
<1>4. ASSUME sh'[s].status = "InKilling", sh'[s].pid # None,
             sh'[s].shutting_down_start # "none"
      PROVE  Termed(s)'
  <2>1. CASE SpawnerForks(s)
    <3>1. ~Answered(s)
      BY <1>1, <2>1, ForksUnanswered
    <3>2. sh[s].pid = None
      BY <1>1, <3>1 DEF ServiceInv, TokenInv, Awaited
    <3>3. sh' = sh
      BY <2>1 DEF SpawnerForks, repoVars
    <3> QED BY <1>4, <3>2, <3>3
  <2>2. CASE ~SpawnerForks(s) /\ ~Terminates(s)
    <3>1. sh[s].shutting_down_start # "none"
      BY <1>1, <1>4, <2>2, StartMoves
    <3>2. sh[s].status = "InKilling"
      BY <1>4, <3>1, TowardsTheEnd DEF GraceInv, Over
    <3>3. sh[s].pid # None
      BY <1>4, <2>2, <3>2, PidMoves DEF Terminates
    <3>4. Termed(s)
      BY <3>1, <3>2, <3>3 DEF GraceInv
    <3> QED BY <1>1, <2>2, <3>4, StaysTermed
  <2>3. CASE Terminates(s)
    <3>1. proc' = Signalled(sh'[s].pid, "term")
      <4>1. CASE HandleKill /\ Head(batch).svc = s
        <5>1. /\ sh' = [sh EXCEPT ![s].shutting_down_start = "armed"]
              /\ proc' = Signalled(sh[s].pid, "term")
          BY <4>1 DEF HandleKill
        <5> QED BY <1>1, <5>1 DEF ServiceHandlerType
      <4>2. CASE /\ HandlePidChanged /\ Head(batch).svc = s
                 /\ sh[s].status = "InKilling"
        <5>1. /\ sh' = [sh EXCEPT ![s].pid = Head(batch).pid,
                                  ![s].shutting_down_start = "armed"]
              /\ proc' = Signalled(Head(batch).pid, "term")
          BY <4>2 DEF HandlePidChanged
        <5> QED BY <1>1, <5>1 DEF ServiceHandlerType
      <4> QED BY <2>3, <4>1, <4>2 DEF Terminates
    <3>2. Alive(s)' \subseteq {sh'[s].pid}
      BY <1>2, <1>4 DEF ServiceInv, TokenInv, Awaited, ProcessInv
    <3>3. Alive(s)' = Alive(s)
      BY <1>1, <3>1, SignalledStays
    <3> SUFFICES ASSUME NEW p \in Alive(s)'
                 PROVE  proc'[p].sig # "none"
      BY DEF Termed
    <3>4. p \in Pids /\ proc[p].state = "alive" /\ p = sh'[s].pid
      BY <3>2, <3>3 DEF Alive
    <3> QED BY <1>1, <3>1, <3>4, SignalReaches
  <2> QED BY <2>1, <2>2, <2>3
<1>5. ASSUME lifecycle' # "Forcefully", ~Nowhere({ForceKill(s)})'
      PROVE  Termed(s)'
  <2>1. lifecycle # "Forcefully"
    BY <1>5, OnlyStronger
  <2>2. Answered(s) /\ Termed(s)
    <3>1. CASE ~Nowhere({ForceKill(s)})
      <4>1. ~Nowhere(Late(s))
        BY <3>1 DEF Nowhere, Without, AllWithout, Late
      <4>2. Answered(s)
        BY <1>1, <4>1 DEF ServiceInv, TokenInv, Awaited
      <4> QED BY <2>1, <3>1, <4>2 DEF GraceInv
    <3>2. CASE Nowhere({ForceKill(s)})
      <4>1. ForceKill(s).kind = "ForceKill"
        BY DEF ForceKill
      <4>2. Orderly(ForceKill(s))
        BY <1>5, <3>2, <4>1, DecidedNow
      <4>3. /\ sh[s].status = "InKilling" /\ sh[s].pid # None
            /\ sh[s].shutting_down_start = "expired"
        BY <2>1, <4>2 DEF Orderly, ShouldForceKill
      <4> QED BY <1>1, <4>3, KnowsItsPid DEF GraceInv
    <3> QED BY <3>1, <3>2
  <2>3. ~SpawnerForks(s)
    BY <1>1, <2>2, ForksUnanswered
  <2> QED BY <1>1, <2>2, <2>3, StaysTermed
<1>6. ASSUME MayRestart(s)'
      PROVE  sh'[s].shutting_down_start = "none"
  <2>1. MayRestart(s) /\ sh[s].status # "InKilling"
    BY <1>2, <1>6, RestartableSince
  <2>2. ~Terminates(s)
    BY <2>1 DEF Terminates, HandleKill
  <2> QED BY <1>1, <2>1, <2>2, StartMoves DEF GraceInv
<1> QED BY <1>3, <1>4, <1>5, <1>6 DEF GraceInv

-----------------------------------------------------------------------------
(* The inductive invariant holds                                           *)

LEMMA StopInvariant ==
  ASSUME CleanRestarts, NoReuse, PreparationsSucceed, OnlyShutdownsKill
  PROVE  Spec => []StopInv
<1>1. Init /\ PidInv /\ FlowInv => StopInv
  <2> SUFFICES ASSUME Init, PidInv, FlowInv
               PROVE  StopInv
    OBVIOUS
  <2>1. /\ batch = <<>> /\ inbox["supervisor"] = <<>> /\ pipe = <<>>
        /\ out = <<>>
        /\ \A s \in Services : sh[s] = NewServiceHandler
        /\ \A p \in Pids : proc[p].state = "free"
        /\ \A s \in Services : worker[s] = "none" /\ command[s] = None
    BY DEF Init, BusInit, SupervisorInit, Connectors, ProcessesInit, Unborn,
           HealthcheckInit
  <2>2. course = <<>>
    BY <2>1 DEF course
  <2>3. \A S : Nowhere(S)
    BY <2>1, <2>2 DEF Nowhere, Without, AllWithout
  <2>4. OwnerInv
    BY <2>1 DEF OwnerInv
  <2>5. \A s \in Services : KillInv(s) /\ GraceInv(s)
    BY <2>1, <2>3 DEF KillInv, GraceInv, Asked, NewServiceHandler
  <2> QED BY <2>4, <2>5 DEF StopInv
<1>2. StopInv /\ PidInv' /\ FlowInv' /\ [Next]_vars => StopInv'
  <2> SUFFICES ASSUME StopInv, PidInv', FlowInv', [Next]_vars
               PROVE  StopInv'
    OBVIOUS
  <2>1. CASE Next
    <3>1. InstanceInv /\ HolderInv /\ TypeOK' /\ FlowInv
      BY DEF StopInv, PidInv, InstanceInv, GlobalInv
    <3>2. OwnerInv'
      BY <2>1, <3>1, StepOwner DEF StopInv
    <3>3. ASSUME SupervisorIsUp', NEW s \in Services
          PROVE  KillInv(s)' /\ GraceInv(s)'
      <4>1. /\ SupervisorIsUp
            /\ \A x \in Services : KillInv(x) /\ GraceInv(x)
        BY <2>1, <3>3, NeverUpAgain DEF StopInv
      <4>2. KillInv(s)'
        BY <2>1, <3>1, <4>1, StepKill
      <4>3. GraceInv(s)'
        BY <2>1, <3>1, <3>3, <4>1, StepGrace
      <4> QED BY <4>2, <4>3
    <3> QED BY <3>2, <3>3 DEF StopInv
  <2>2. CASE UNCHANGED vars
    <3>1. /\ UNCHANGED <<course, out, sh, spawners, proc, phase, lifecycle>>
          /\ UNCHANGED <<worker, command>>
      BY <2>2 DEF vars, busVars, supervisorVars, threadVars, repoVars, course,
                  healthVars
    <3>2. OwnerInv'
      BY <3>1 DEF StopInv, OwnerInv, Holds, Nowhere, PidChanged, Alive
    <3>3. ASSUME SupervisorIsUp', NEW s \in Services
          PROVE  KillInv(s)' /\ GraceInv(s)'
      <4>1. KillInv(s) /\ GraceInv(s)
        BY <3>1, <3>3 DEF StopInv, SupervisorIsUp
      <4>2. KillInv(s)'
        BY <3>1, <4>1
        DEF KillInv, Asked, Killing, Nowhere, HasFinished, Kill, StatusUpdate
      <4>3. GraceInv(s)'
        BY <3>1, <4>1
        DEF GraceInv, Termed, MayRestart, Once, Nowhere, Alive, HasFinished,
            ForceKill, Again, StatusUpdate
      <4> QED BY <4>2, <4>3
    <3> QED BY <3>2, <3>3 DEF StopInv
  <2> QED BY <2>1, <2>2
<1> QED BY <1>1, <1>2, PidInvariant, FlowInvariant, PTL DEF Spec

-----------------------------------------------------------------------------
(* The order of the shutdown                                               *)

(* Whom the signal of a handler reaches, and when.                         *)
LEMMA TermReaches ==
  ASSUME StopInv, Next, NEW p \in Pids, proc[p].state = "alive", TermSent(p)
  PROVE  \E s \in Services :
           /\ p \in Alive(s) /\ Terminates(s) /\ SupervisorIsUp
           /\ sh[s].status = "InKilling"
<1>1. TypeOK /\ SupervisorIsUp /\ batch # <<>>
  BY DEF StopInv, FlowInv, TermSent, HandleKill, HandlePidChanged, Handling,
         SupervisorIsUp
<1>2. Head(batch) \in Event /\ \A S : Head(batch) \in S => ~Nowhere(S)
  BY <1>1, HeadUnderWay
<1>3. CASE HandleKill /\ p = sh[Head(batch).svc].pid
  <2>1. Head(batch).kind = "Kill"
    BY <1>3 DEF HandleKill, Handling
  <2>2. Head(batch).svc \in Services
    BY <1>2, <2>1 DEF Event
  <2>3. Holds(Head(batch).svc, p)
    BY <1>3 DEF Holds
  <2> QED BY <1>1, <1>3, <2>2, <2>3 DEF StopInv, OwnerInv, Terminates, HandleKill
<1>4. CASE /\ HandlePidChanged /\ p = Head(batch).pid
           /\ sh[Head(batch).svc].status = "InKilling"
  <2>1. Head(batch).kind = "PidChanged"
    BY <1>4 DEF HandlePidChanged, Handling
  <2>2. /\ Head(batch).svc \in Services
        /\ Head(batch) = PidChanged(Head(batch).svc, p)
    BY <1>2, <1>4, <2>1 DEF Event, PidChanged
  <2>3. Holds(Head(batch).svc, p)
    BY <1>2, <2>2 DEF Holds
  <2> QED BY <1>1, <1>4, <2>2, <2>3 DEF StopInv, OwnerInv, Terminates
<1> QED BY <1>3, <1>4 DEF TermSent

(* During a graceful shutdown a service is sent its termination signal     *)
(* only after every service of its shutdown-after list is really gone,     *)
(* although the list is looked at when the Kill command is produced, and   *)
(* not when it is carried out or when the pid it waits for is reported.    *)
THEOREM StopsInOrder ==
  ASSUME CleanRestarts, NoReuse, PreparationsSucceed, OnlyShutdownsKill
  PROVE  Spec => ShutdownAfterIsRespected
<1>1. StopInv /\ [Next]_vars =>
        [\A p \in Pids : Signals(p, "term") /\ lifecycle = "Gracefully" =>
           \A d \in Config[proc[p].owner].shutdown_after :
             ~Spawning(d) /\ \A q \in Alive(d) : proc[q].sig = "kill"]_vars
  <2> SUFFICES ASSUME StopInv, Next, NEW p \in Pids, Signals(p, "term"),
                      lifecycle = "Gracefully",
                      NEW d \in Config[proc[p].owner].shutdown_after
               PROVE  ~Spawning(d) /\ \A q \in Alive(d) : proc[q].sig = "kill"
    OBVIOUS
  <2>1. TypeOK /\ InstanceInv /\ proc[p].state = "alive"
    BY DEF StopInv, FlowInv, PidInv, Signals
  <2>2. TermSent(p)
    BY <2>1, WhoSignals DEF Signals, KillSent
  <2>3. PICK s \in Services :
          p \in Alive(s) /\ SupervisorIsUp /\ sh[s].status = "InKilling"
    BY <2>1, <2>2, TermReaches
  <2>4. proc[p].owner = s /\ d \in Services
    BY <2>3, ConfigAssumption DEF Alive, ServiceType
  <2>5. HasFinished(sh[d])
    BY <2>3, <2>4 DEF StopInv, KillInv, Asked
  <2> QED BY <2>1, <2>4, <2>5, FinishedIsGone
<1> QED BY <1>1, StopInvariant, PTL DEF Spec, ShutdownAfterIsRespected

-----------------------------------------------------------------------------
(* The instance of a service                                               *)

(* The last case of InstanceOf does not occur, and CHOOSE has no choice.   *)
Shape(s) ==
  /\ StillToFork(s) \in {0, 1}
  /\ StillToFork(s) = 1 => Alive(s) = {} /\ InstanceOf(s) = "due"
  /\ StillToFork(s) = 0 /\ Alive(s) = {} => InstanceOf(s) = "none"
  /\ \A p \in Alive(s) : Alive(s) = {p} /\ InstanceOf(s) = StateOf(p)
  /\ HasFinished(sh[s]) => InstanceOf(s) \in {"none", "doomed"}
Shapes == \A s \in Services : Shape(s)

LEMMA OneShape == InstanceInv => Shapes
<1> SUFFICES ASSUME InstanceInv, NEW s \in Services
             PROVE  Shape(s)
  BY DEF Shapes
<1>1. /\ TypeOK /\ ServiceInv(s) /\ spawners[s] \in Spawners
  BY DEF InstanceInv, GlobalInv, TypeOK, SupervisorTypeOK
<1>2. StillToFork(s) \in {0, 1}
  <2>1. StillToFork(s) \in Nat /\ StillToFork(s) <= 1
    BY <1>1 DEF StillToFork, Spawners, ServiceInv, TokenInv, OneToken
  <2> QED BY <2>1
<1>3. StillToFork(s) = 1 => Alive(s) = {}
  BY <1>1 DEF ServiceInv, ProcessInv
<1>4. \A p \in Alive(s) : Alive(s) = {p}
  BY <1>1 DEF ServiceInv, ProcessInv
<1>5. StillToFork(s) = 1 => InstanceOf(s) = "due"
  BY <1>3 DEF InstanceOf
<1>6. StillToFork(s) = 0 /\ Alive(s) = {} => InstanceOf(s) = "none"
  BY FS_EmptySet DEF InstanceOf
<1>7. ASSUME NEW p \in Alive(s)
      PROVE  InstanceOf(s) = StateOf(p)
  <2>1. Alive(s) = {p} /\ StillToFork(s) = 0
    BY <1>2, <1>3, <1>4, <1>7
  <2>2. Cardinality(Alive(s)) = 1
    BY <2>1, FS_Singleton
  <2>3. (CHOOSE q \in Alive(s) : TRUE) = p
    BY <2>1
  <2> QED BY <2>1, <2>2, <2>3 DEF InstanceOf
<1>8. HasFinished(sh[s]) => InstanceOf(s) \in {"none", "doomed"}
  <2> SUFFICES ASSUME HasFinished(sh[s])
               PROVE  InstanceOf(s) \in {"none", "doomed"}
    OBVIOUS
  <2>1. StillToFork(s) = 0 /\ \A p \in Alive(s) : proc[p].sig = "kill"
    BY FinishedIsGone
  <2>2. ASSUME NEW p \in Alive(s)
        PROVE  InstanceOf(s) = "doomed"
    BY <1>7, <2>1, <2>2 DEF StateOf
  <2> QED BY <1>6, <2>1, <2>2
<1> QED BY <1>2, <1>3, <1>4, <1>5, <1>6, <1>7, <1>8 DEF Shape

(* It changes with the token, the process or the signal.                   *)
Unmoved(s) == InstanceOf(s)' = InstanceOf(s)

LEMMA NothingMoves ==
  ASSUME NEW s \in Services, Shape(s), Shape(s)',
         StillToFork(s)' = StillToFork(s), Alive(s)' = Alive(s),
         \A p \in Alive(s) : proc'[p].sig = proc[p].sig
  PROVE  Unmoved(s)
<1>1. CASE Alive(s) = {}
  BY <1>1 DEF Shape, Unmoved
<1>2. ASSUME NEW p \in Alive(s)
      PROVE  Unmoved(s)
  <2>1. StateOf(p)' = StateOf(p)
    BY <1>2 DEF StateOf
  <2> QED BY <1>2, <2>1 DEF Shape, Unmoved
<1> QED BY <1>1, <1>2

(* Who changes the token, ...                                              *)
Forks(s) == SpawnerForks(s) \/ SpawnerFails(s) \/ SpawnerGivesUp(s)

LEMMA TokenMoves ==
  ASSUME TypeOK, Next, NEW s \in Services
  PROVE  \/ StillToFork(s)' = StillToFork(s)
         \/ Forks(s)
         \/ HandleRun /\ Head(batch).svc = s
<1>1. /\ spawners \in [Services -> Spawners] /\ spawners[s] \in Spawners
      /\ StillToFork(s) \in Nat
  BY DEF TypeOK, SupervisorTypeOK, StillToFork, Spawners
<1>2. CASE UNCHANGED spawners
  BY <1>2 DEF StillToFork
<1>3. CASE HandleRun
  BY <1>1, <1>3 DEF HandleRun, StillToFork
<1>4. CASE Dispatch
  BY <1>4, SpawnersKeep
<1>5. ASSUME NEW x \in Services, SpawnerThread(x)
      PROVE  StillToFork(s)' = StillToFork(s) \/ Forks(s)
  <2>1. CASE SpawnerReports(x)
    <3>1. PICK p : spawners' = [spawners EXCEPT ![x].forked = @ \ {p}]
      BY <2>1 DEF SpawnerReports
    <3>2. /\ spawners'[s].fresh = spawners[s].fresh
          /\ spawners'[s].told = spawners[s].told
      BY <1>1, <3>1 DEF Spawners
    <3> QED BY <3>2 DEF StillToFork
  <2>2. CASE x # s
    BY <1>1, <1>5, <2>1, <2>2
    DEF SpawnerThread, SpawnerStep, SpawnerForks, SpawnerFails,
        SpawnerGivesUp, SpawnerEnds, StillToFork
  <2>3. CASE x = s
    <3>1. SpawnerThread(s)
      BY <1>5, <2>3
    <3>2. SpawnerReports(s) \/ Forks(s)
      BY <3>1 DEF SpawnerThread, SpawnerStep, Forks
    <3>3. CASE SpawnerReports(s)
      <4>1. SpawnerReports(x)
        BY <2>3, <3>3
      <4> QED BY <2>1, <4>1
    <3> QED BY <3>2, <3>3
  <2> QED BY <2>2, <2>3
<1>6. \/ UNCHANGED spawners \/ HandleRun \/ Dispatch
      \/ \E x \in Services : SpawnerThread(x)
  BY DEF Next, SupervisorThread, SupervisorStep, Ingest, Produce, Send,
         Return, HandleEvent, PanicOnServiceExited, HandleServiceExited,
         HandleRunPrepareFails, HandleSpawnFailed, HandleKill,
         HandleForceKill, HandlePidChanged, HandleHealthCheck,
         HandleShuttingDownInitiated, HandleStatusUpdate, HandleIgnored,
         MonitorThread, WorkerThread, Environment, HandleSigterm,
         ProcessExits, GraceExpires, Idle, vars, supervisorVars
<1> QED BY <1>2, <1>3, <1>4, <1>5, <1>6

LEMMA AliveMoves ==
  ASSUME TypeOK, Next, NEW s \in Services, ~SpawnerForks(s),
         \A p \in Alive(s) : ~ProcessExits(p)
  PROVE  Alive(s)' = Alive(s)
<1>1. \A p \in Alive(s)' : p \in Alive(s)
  BY WhoForks
<1>2. ASSUME NEW p \in Alive(s)
      PROVE  p \in Alive(s)'
  <2>1. p \in Pids /\ proc[p].state = "alive"
    BY <1>2 DEF Alive
  <2>2. SameProcess(p)
    BY <1>2, <2>1, ProcessMoves DEF Dies, Collected, Born
  <2> QED BY <1>2, <2>2 DEF SameProcess, Alive
<1> QED BY <1>1, <1>2

(* Which services have finished changes with a StatusUpdate only.          *)
StillOver == \A s \in Services : HasFinished(sh'[s]) <=> HasFinished(sh[s])

LEMMA OverMoves ==
  ASSUME PreparationsSucceed, InstanceInv, Next, ~HandleStatusUpdate
  PROVE  StillOver
<1> SUFFICES ASSUME NEW s \in Services, HasFinished(sh'[s])
             PROVE  HasFinished(sh[s])
  BY StaysFinished DEF StillOver, HasFinished
<1>1. ~HandleRunPrepareFails
  <2> SUFFICES ASSUME HandleRunPrepareFails
               PROVE  FALSE
    OBVIOUS
  <2>1. batch # <<>> /\ Head(batch).kind = "Run"
    BY DEF HandleRunPrepareFails, Handling
  <2>2. Head(batch) \in Event
    BY <2>1, HeadUnderWay DEF InstanceInv, GlobalInv
  <2>3. Head(batch).svc \in Services
    BY <2>1, <2>2 DEF Event
  <2> QED BY <2>3 DEF HandleRunPrepareFails, PreparationsSucceed
<1> QED BY <1>1, StatusMoves DEF HasFinished, TerminalStatuses, Updated

(* Most steps move nothing.                                                *)
LEMMA QuietSteps ==
  ASSUME InstanceInv, Shapes, Shapes', Next, NEW s \in Services,
         ~HandleRun, ~Forks(s), \A p \in Pids : ~ProcessExits(p),
         ~HandleKill, ~HandlePidChanged, ~HandleForceKill
  PROVE  Unmoved(s)
<1>1. TypeOK /\ Shape(s) /\ Shape(s)' /\ Alive(s) \subseteq Pids
  BY DEF InstanceInv, GlobalInv, Shapes, Alive
<1>2. StillToFork(s)' = StillToFork(s)
  BY <1>1, TokenMoves
<1>3. Alive(s)' = Alive(s)
  BY <1>1, AliveMoves DEF Forks
<1>4. ASSUME NEW p \in Alive(s)
      PROVE  proc'[p].sig = proc[p].sig
  <2>1. p \in Pids /\ proc[p].state = "alive"
    BY <1>4 DEF Alive
  <2>2. CASE Return
    <3>1. proc[p].sig = "kill"
      BY <1>4, <2>2, FinishedIsGone DEF Return, AllHaveFinished
    <3> QED BY <1>1, <2>1, <2>2, <3>1, WhoSignals DEF TermSent, KillSent
  <2>3. CASE ~Return
    BY <1>1, <2>1, <2>3, WhoSignals DEF TermSent, KillSent
  <2> QED BY <2>2, <2>3
<1> QED BY <1>1, <1>2, <1>3, <1>4, NothingMoves

(* A signal moves the instance it reaches, and no other.                   *)
LEMMA SignalMoves ==
  ASSUME TypeOK, Shapes, Shapes', NEW q, NEW sig \in {"term", "kill"},
         proc' = Signalled(q, sig), UNCHANGED spawners, NEW s \in Services
  PROVE  /\ q \notin Alive(s) => Unmoved(s)
         /\ q \in Alive(s) =>
              InstanceOf(s)' = IF proc[q].sig # "kill" /\ sig = "term"
                                 THEN "asked" ELSE "doomed"
<1>1. Shape(s) /\ Shape(s)'
  BY DEF Shapes
<1>2. Alive(s)' = Alive(s) /\ StillToFork(s)' = StillToFork(s)
  BY SignalledStays DEF StillToFork
<1>3. ASSUME q \notin Alive(s)
      PROVE  Unmoved(s)
  <2>1. ASSUME NEW p \in Alive(s)
        PROVE  proc'[p].sig = proc[p].sig
    <3>1. p \in Pids /\ proc[p].state = "alive" /\ p # q
      BY <1>3, <2>1 DEF Alive
    <3> QED BY <3>1, SignalReaches
  <2> QED BY <1>1, <1>2, <2>1, NothingMoves
<1>4. ASSUME q \in Alive(s)
      PROVE  InstanceOf(s)' = IF proc[q].sig # "kill" /\ sig = "term"
                                THEN "asked" ELSE "doomed"
  <2>1. q \in Pids /\ proc[q].state = "alive"
    BY <1>4 DEF Alive
  <2>2. proc'[q].sig = IF proc[q].sig = "kill" THEN "kill" ELSE sig
    BY <2>1, SignalReaches
  <2>3. InstanceOf(s)' = StateOf(q)'
    BY <1>1, <1>2, <1>4 DEF Shape
  <2> QED BY <2>2, <2>3 DEF StateOf
<1> QED BY <1>3, <1>4

-----------------------------------------------------------------------------
(* Every step is one of Lifecycle, or none                                 *)

(* Nothing but the instance of x changes; nothing at all changes.          *)
OnlyInstance(x, state) ==
  /\ UNCHANGED lifecycle /\ StillOver
  /\ \A s \in Services \ {x} : Unmoved(s)
  /\ InstanceOf(x)' = state
NoMove == UNCHANGED lifecycle /\ StillOver /\ \A s \in Services : Unmoved(s)

LEMMA AbstractMoves ==
  /\ \A x \in Services : \A state :
       OnlyInstance(x, state) => Abstract!Becomes(x, state)
  /\ NoMove => UNCHANGED Abstract!abstractVars
<1>1. ASSUME StillOver
      PROVE  UNCHANGED {s \in Services : HasFinished(sh[s])}
  BY <1>1 DEF StillOver, HasFinished
<1>2. ASSUME NEW x \in Services, NEW state, OnlyInstance(x, state)
      PROVE  Abstract!Becomes(x, state)
  <2>1. [s \in Services |-> InstanceOf(s)']
          = [[s \in Services |-> InstanceOf(s)] EXCEPT ![x] = state]
    BY <1>2 DEF OnlyInstance, Unmoved
  <2> QED BY <1>1, <1>2, <2>1 DEF OnlyInstance, Abstract!Becomes
<1>3. ASSUME NoMove
      PROVE  UNCHANGED Abstract!abstractVars
  <2>1. [s \in Services |-> InstanceOf(s)'] = [s \in Services |-> InstanceOf(s)]
    BY <1>3 DEF NoMove, Unmoved
  <2> QED BY <1>1, <1>3, <2>1 DEF NoMove, Abstract!abstractVars
<1> QED BY <1>2, <1>3

(* The proof that a step implements Lifecycle.                             *)
Implemented == Abstract!LifecycleNext \/ UNCHANGED Abstract!abstractVars

LEMMA RunImplements ==
  ASSUME StopInv, Shapes, Shapes', Next, HandleRun, StillOver
  PROVE  Implemented
<1>1. TypeOK /\ batch # <<>> /\ Head(batch).kind = "Run"
  BY DEF StopInv, FlowInv, HandleRun, Handling
<1>2. PICK x \in Services : x = Head(batch).svc
  BY <1>1, HeadUnderWay DEF Event
<1>3. /\ sh[x].status = "Initial" /\ UNCHANGED <<proc, lifecycle>>
      /\ spawners' = [spawners EXCEPT ![x].fresh = @ + 1]
  BY <1>2 DEF HandleRun, MayRun
<1>4. /\ spawners \in [Services -> Spawners] /\ spawners[x] \in Spawners
      /\ Shape(x) /\ Shape(x)' /\ ServiceInv(x)
  BY <1>1 DEF TypeOK, SupervisorTypeOK, Shapes, StopInv, PidInv, InstanceInv
<1>5. ASSUME NEW s \in Services \ {x}
      PROVE  Unmoved(s)
  <2>1. spawners'[s] = spawners[s]
    BY <1>3, <1>4
  <2>2. StillToFork(s)' = StillToFork(s) /\ Alive(s)' = Alive(s)
    BY <1>3, <2>1 DEF StillToFork, Alive
  <2> QED BY <1>3, <2>2, NothingMoves DEF Shapes
<1>6. StillToFork(x) = 0 /\ Alive(x) = {}
  BY <1>3, <1>4 DEF ServiceInv, TokenInv, ProcessInv, Answered
<1>7. StillToFork(x)' = StillToFork(x) + 1
  BY <1>3, <1>4 DEF StillToFork, Spawners
<1>8. InstanceOf(x) = "none" /\ InstanceOf(x)' = "due"
  BY <1>4, <1>6, <1>7 DEF Shape
<1>9. lifecycle # "Forcefully"
  <2>1. /\ batch \in Seq(Event) /\ Flow
    BY <1>1 DEF TypeOK, SupervisorTypeOK, StopInv, FlowInv, SupervisorIsUp,
                HandleRun, Handling
  <2>2. Early(Head(batch))
    BY <1>1 DEF Early
  <2> QED BY <1>1, <2>1, <2>2, TakenOff DEF Flow, NoneLeft
<1>10. OnlyInstance(x, "due") /\ ~HasFinished(sh[x])
  BY <1>3, <1>5, <1>8 DEF OnlyInstance, HasFinished, TerminalStatuses
<1>11. Abstract!StartInstance(x)
  BY <1>8, <1>9, <1>10, AbstractMoves DEF Abstract!StartInstance
<1> QED BY <1>11 DEF Implemented, Abstract!LifecycleNext

LEMMA SpawnerImplements ==
  ASSUME StopInv, Shapes, Shapes', Next, NEW x \in Services, Forks(x),
         StillOver
  PROVE  Implemented
<1>1. /\ TypeOK /\ ServiceInv(x) /\ spawners \in [Services -> Spawners]
      /\ spawners[x] \in Spawners /\ proc \in [Pids -> Process]
      /\ Shape(x) /\ Shape(x)'
  BY DEF StopInv, PidInv, InstanceInv, FlowInv, TypeOK, SupervisorTypeOK,
         ProcessesTypeOK, Shapes
<1>2. StillToFork(x) > 0
  BY <1>1 DEF Forks, SpawnerForks, SpawnerFails, SpawnerGivesUp, StillToFork,
              Spawners
<1>3. InstanceOf(x) = "due" /\ Alive(x) = {}
  BY <1>1, <1>2 DEF Shape
<1>4. UNCHANGED lifecycle /\ \A s \in Services \ {x} : spawners'[s] = spawners[s]
  BY <1>1 DEF Forks, SpawnerForks, SpawnerFails, SpawnerGivesUp, SpawnerEnds,
              threadVars
<1>5. CASE SpawnerForks(x)
  <2>1. PICK p \in FreePids : Fork(x, p, "service")
    BY <1>5 DEF SpawnerForks
  <2>2. /\ p \in Pids /\ proc[p] \in Process /\ proc[p].state = "free"
        /\ proc[p].sig = "none"
    BY <1>1 DEF FreePids, Process
  <2>3. /\ proc'[p].state = "alive" /\ proc'[p].owner = x
        /\ proc'[p].role = "service" /\ proc'[p].sig = "none"
        /\ \A q \in Pids \ {p} : proc'[q] = proc[q]
    BY <1>1, <2>1, <2>2 DEF Fork, Process
  <2>4. p \in Alive(x)'
    BY <2>2, <2>3 DEF Alive
  <2>5. InstanceOf(x)' = "up"
    BY <1>1, <2>3, <2>4 DEF Shape, StateOf
  <2>6. ASSUME NEW s \in Services \ {x}
        PROVE  Unmoved(s)
    <3>1. Alive(s)' = Alive(s) /\ p \notin Alive(s)
      BY <2>2, <2>3, <2>6 DEF Alive
    <3>2. \A q \in Alive(s) : proc'[q].sig = proc[q].sig
      BY <2>3, <3>1 DEF Alive
    <3>3. StillToFork(s)' = StillToFork(s)
      BY <1>4, <2>6 DEF StillToFork
    <3> QED BY <3>1, <3>2, <3>3, NothingMoves DEF Shapes
  <2>7. Abstract!Appear(x)
    BY <1>3, <1>4, <2>5, <2>6, AbstractMoves DEF OnlyInstance, Abstract!Appear
  <2> QED BY <2>7 DEF Implemented, Abstract!LifecycleNext
<1>6. CASE SpawnerFails(x) \/ SpawnerGivesUp(x)
  <2>1. UNCHANGED proc
    BY <1>6 DEF SpawnerFails, SpawnerGivesUp
  <2>2. \A s : Alive(s)' = Alive(s)
    BY <2>1 DEF Alive
  <2>3. StillToFork(x)' < StillToFork(x)
    <3>1. \/ spawners' = [spawners EXCEPT ![x].fresh = @ - 1]
          \/ spawners' = [spawners EXCEPT ![x].told = @ - 1]
      BY <1>6 DEF SpawnerFails, SpawnerGivesUp, SpawnerEnds
    <3>2. \/ /\ spawners'[x].fresh = spawners[x].fresh - 1
             /\ spawners'[x].told = spawners[x].told
          \/ /\ spawners'[x].fresh = spawners[x].fresh
             /\ spawners'[x].told = spawners[x].told - 1
      BY <1>1, <3>1 DEF Spawners
    <3> QED BY <1>1, <3>2 DEF StillToFork, Spawners
  <2>4. InstanceOf(x)' = "none"
    BY <1>1, <1>3, <2>2, <2>3 DEF Shape
  <2>5. ASSUME NEW s \in Services \ {x}
        PROVE  Unmoved(s)
    <3>1. StillToFork(s)' = StillToFork(s)
      BY <1>4, <2>5 DEF StillToFork
    <3> QED BY <2>1, <2>2, <3>1, NothingMoves DEF Shapes
  <2>6. Abstract!GiveUp(x)
    BY <1>3, <1>4, <2>4, <2>5, AbstractMoves DEF OnlyInstance, Abstract!GiveUp
  <2> QED BY <2>6 DEF Implemented, Abstract!LifecycleNext
<1> QED BY <1>5, <1>6 DEF Forks

LEMMA ExitImplements ==
  ASSUME TypeOK, Shapes, Shapes', NEW p \in Pids, ProcessExits(p), StillOver
  PROVE  Implemented
<1>1. /\ proc \in [Pids -> Process] /\ proc[p] \in Process
      /\ proc[p].state = "alive" /\ UNCHANGED <<spawners, lifecycle>>
  BY DEF TypeOK, ProcessesTypeOK, ProcessExits, Exit, threadVars
<1>2. PICK ok : proc' = [proc EXCEPT ![p].state = "zombie", ![p].ok = ok]
  BY DEF ProcessExits, Exit
<1>3. proc'[p].state = "zombie" /\ \A q \in Pids \ {p} : proc'[q] = proc[q]
  BY <1>1, <1>2 DEF Process
<1>4. ASSUME NEW s \in Services, p \notin Alive(s)
      PROVE  Unmoved(s)
  <2>1. Alive(s)' = Alive(s)
    BY <1>3, <1>4 DEF Alive
  <2>2. \A q \in Alive(s) : proc'[q].sig = proc[q].sig
    BY <1>3, <1>4 DEF Alive
  <2>3. StillToFork(s)' = StillToFork(s)
    BY <1>1 DEF StillToFork
  <2> QED BY <2>1, <2>2, <2>3, NothingMoves DEF Shapes
<1>5. CASE \E x \in Services : p \in Alive(x)
  <2>1. PICK x \in Services : p \in Alive(x)
    BY <1>5
  <2>2. \A s \in Services \ {x} : p \notin Alive(s)
    BY <2>1 DEF Alive
  <2>3. Shape(x) /\ Shape(x)' /\ StillToFork(x)' = StillToFork(x)
    BY <1>1 DEF Shapes, StillToFork
  <2>4. Alive(x)' = {}
    BY <1>3, <2>1, <2>3 DEF Shape, Alive
  <2>5. InstanceOf(x)' = "none"
    BY <2>1, <2>3, <2>4 DEF Shape
  <2>6. InstanceOf(x) \in {"up", "asked", "doomed"}
    <3>1. proc[p].sig \in {"none", "term", "kill"}
      BY <1>1 DEF Process
    <3> QED BY <2>1, <2>3, <3>1 DEF Shape, StateOf
  <2>7. Abstract!Vanish(x)
    BY <1>1, <1>4, <2>2, <2>5, <2>6, AbstractMoves
    DEF OnlyInstance, Abstract!Vanish
  <2> QED BY <2>7 DEF Implemented, Abstract!LifecycleNext
<1>6. CASE ~\E x \in Services : p \in Alive(x)
  BY <1>1, <1>4, <1>6, AbstractMoves DEF NoMove, Implemented
<1> QED BY <1>5, <1>6

(* What the signal in a state of the instance tells.                       *)
LEMMA SignalTells ==
  ASSUME TypeOK, NEW s \in Services, Shape(s), NEW p \in Alive(s)
  PROVE  /\ InstanceOf(s) \in {"up", "asked", "doomed"}
         /\ proc[p].sig = "none" <=> InstanceOf(s) = "up"
         /\ proc[p].sig = "term" <=> InstanceOf(s) = "asked"
         /\ proc[p].sig = "kill" <=> InstanceOf(s) = "doomed"
<1>1. p \in Pids /\ proc[p] \in Process /\ proc[p].state = "alive"
  BY DEF TypeOK, ProcessesTypeOK, Alive
<1>2. proc[p].sig \in {"none", "term", "kill"}
  BY <1>1 DEF Process
<1> QED BY <1>2 DEF Shape, StateOf

LEMMA TermImplements ==
  ASSUME StopInv, Shapes, Shapes', Next, StillOver,
         HandleKill \/ HandlePidChanged
  PROVE  Implemented
<1>1. TypeOK /\ InstanceInv /\ UNCHANGED <<spawners, lifecycle>>
  BY DEF StopInv, PidInv, InstanceInv, GlobalInv, HandleKill, HandlePidChanged
<1>2. CASE UNCHANGED proc
  <2>1. ASSUME NEW s \in Services
        PROVE  Unmoved(s)
    <3>1. Alive(s)' = Alive(s) /\ StillToFork(s)' = StillToFork(s)
      BY <1>1, <1>2 DEF Alive, StillToFork
    <3> QED BY <1>2, <3>1, NothingMoves DEF Shapes
  <2> QED BY <1>1, <2>1, AbstractMoves DEF NoMove, Implemented
<1>3. ASSUME NEW q, proc' = Signalled(q, "term"),
             \/ HandleKill /\ q = sh[Head(batch).svc].pid
             \/ /\ HandlePidChanged /\ q = Head(batch).pid
                /\ sh[Head(batch).svc].status = "InKilling"
      PROVE  Implemented
  <2>1. \A s \in Services :
          /\ q \notin Alive(s) => Unmoved(s)
          /\ q \in Alive(s) =>
               InstanceOf(s)' = IF proc[q].sig # "kill" THEN "asked"
                                                        ELSE "doomed"
    BY <1>1, <1>3, SignalMoves
  <2>2. ASSUME NEW x \in Services, q \in Alive(x)
        PROVE  Implemented
    <3>1. /\ q \in Pids /\ proc[q].state = "alive"
          /\ \A s \in Services \ {x} : q \notin Alive(s)
      BY <2>2 DEF Alive
    <3>2. TermSent(q)
      BY <1>1, <1>3, <3>1, SignalReaches DEF TermSent
    <3>3. SupervisorIsUp /\ sh[x].status = "InKilling"
      BY <3>1, <3>2, TermReaches
    <3>4. CASE proc[q].sig = "none"
      <4>1. InstanceOf(x) = "up" /\ InstanceOf(x)' = "asked"
        BY <1>1, <2>1, <2>2, <3>4, SignalTells DEF Shapes
      <4>2. ASSUME lifecycle = "Gracefully",
                   NEW d \in Config[x].shutdown_after
            PROVE  d \in Services /\ InstanceOf(d) \in {"none", "doomed"}
        <5>1. d \in Services
          BY <4>2, ConfigAssumption DEF ServiceType
        <5>2. HasFinished(sh[d])
          BY <3>3, <4>2 DEF StopInv, KillInv, Asked
        <5> QED BY <5>1, <5>2 DEF Shapes, Shape
      <4>3. OnlyInstance(x, "asked")
        BY <1>1, <2>1, <3>1, <4>1 DEF OnlyInstance
      <4>4. Abstract!Ask(x)
        BY <4>1, <4>2, <4>3, AbstractMoves DEF Abstract!Ask, Abstract!Down
      <4> QED BY <4>4 DEF Implemented, Abstract!LifecycleNext
    <3>5. CASE proc[q].sig # "none"
      <4>1. Unmoved(x)
        BY <1>1, <2>1, <2>2, <3>5, SignalTells DEF Shapes, Unmoved
      <4> QED
        BY <1>1, <2>1, <3>1, <4>1, AbstractMoves DEF NoMove, Implemented
    <3> QED BY <3>4, <3>5
  <2>3. CASE \A s \in Services : q \notin Alive(s)
    BY <1>1, <2>1, <2>3, AbstractMoves DEF NoMove, Implemented
  <2> QED BY <2>2, <2>3
<1> QED BY <1>2, <1>3 DEF HandleKill, HandlePidChanged

LEMMA KillImplements ==
  ASSUME StopInv, Shapes, Shapes', Next, StillOver, HandleForceKill
  PROVE  Implemented
<1>1. /\ TypeOK /\ UNCHANGED <<spawners, lifecycle>> /\ SupervisorIsUp
      /\ batch # <<>> /\ Head(batch).kind = "ForceKill"
  BY DEF StopInv, FlowInv, HandleForceKill, Handling, SupervisorIsUp
<1>2. PICK x \in Services : x = Head(batch).svc /\ ~Nowhere({ForceKill(x)})
  <2>1. Head(batch) \in Event /\ ~Nowhere({Head(batch)})
    BY <1>1, HeadUnderWay
  <2>2. /\ Head(batch).svc \in Services
        /\ Head(batch) = ForceKill(Head(batch).svc)
    BY <1>1, <2>1 DEF Event, ForceKill
  <2> QED BY <2>1, <2>2
<1> DEFINE q == sh[x].pid
<1>3. proc' = Signalled(q, "kill")
  BY <1>2 DEF HandleForceKill
<1>4. \A s \in Services : /\ q \notin Alive(s) => Unmoved(s)
                          /\ q \in Alive(s) => InstanceOf(s)' = "doomed"
  BY <1>1, <1>3, SignalMoves
<1>5. \A s \in Services : q \in Alive(s) => s = x
  <2> SUFFICES ASSUME NEW s \in Services, q \in Alive(s)
               PROVE  s = x
    OBVIOUS
  <2>1. q \in Pids /\ proc[q].state = "alive" /\ proc[q].owner = s
    BY DEF Alive
  <2>2. Holds(x, q)
    BY DEF Holds
  <2>3. q \in Alive(x)
    BY <2>1, <2>2 DEF StopInv, OwnerInv
  <2> QED BY <2>1, <2>3 DEF Alive
<1> HIDE DEF q
<1>6. CASE q \in Alive(x) /\ InstanceOf(x) # "doomed"
  <2>1. InstanceOf(x) = "asked" \/ InstanceOf(x) = "up"
    BY <1>1, <1>6, SignalTells DEF Shapes
  <2>2. InstanceOf(x) = "up" => lifecycle = "Forcefully"
    <3>1. proc[q].sig # "none" => InstanceOf(x) # "up"
      BY <1>1, <1>6, SignalTells DEF Shapes
    <3>2. lifecycle # "Forcefully" => Termed(x)
      BY <1>1, <1>2 DEF StopInv, GraceInv
    <3> QED BY <1>6, <3>1, <3>2 DEF Termed
  <2>3. OnlyInstance(x, "doomed")
    BY <1>1, <1>4, <1>5, <1>6 DEF OnlyInstance
  <2>4. Abstract!Doom(x)
    BY <2>1, <2>2, <2>3, AbstractMoves DEF Abstract!Doom
  <2> QED BY <2>4 DEF Implemented, Abstract!LifecycleNext
<1>7. CASE q \notin Alive(x) \/ InstanceOf(x) = "doomed"
  <2>1. \A s \in Services : Unmoved(s)
    BY <1>4, <1>5, <1>7 DEF Unmoved
  <2> QED BY <1>1, <2>1, AbstractMoves DEF NoMove, Implemented
<1> QED BY <1>6, <1>7

LEMMA UpdateImplements ==
  ASSUME StopInv, Shapes, Shapes', Next, HandleStatusUpdate
  PROVE  Implemented
<1>1. /\ InstanceInv /\ UNCHANGED <<proc, spawners, lifecycle>>
      /\ \A s \in Services \ {Head(batch).svc} : sh'[s] = sh[s]
  BY DEF HandleStatusUpdate, StopInv, PidInv, InstanceInv, GlobalInv, TypeOK,
         SupervisorTypeOK
<1>2. ASSUME NEW s \in Services
      PROVE  Unmoved(s)
  <2>1. Alive(s)' = Alive(s) /\ StillToFork(s)' = StillToFork(s)
    BY <1>1 DEF Alive, StillToFork
  <2> QED BY <1>1, <2>1, NothingMoves DEF Shapes
<1>3. CASE StillOver
  BY <1>1, <1>2, <1>3, AbstractMoves DEF NoMove, Implemented
<1>4. CASE ~StillOver
  <2>1. PICK x \in Services : HasFinished(sh'[x]) # HasFinished(sh[x])
    BY <1>4 DEF StillOver
  <2>2. HasFinished(sh'[x]) /\ ~HasFinished(sh[x])
    BY <1>1, <2>1, StaysFinished DEF HasFinished
  <2>3. x = Head(batch).svc
    BY <1>1, <2>1
  <2>4. {s \in Services : HasFinished(sh[s])}'
          = {s \in Services : HasFinished(sh[s])} \cup {x}
    BY <1>1, <2>2, <2>3
  <2>5. InstanceOf(x) \in {"none", "doomed"}
    BY <1>2, <2>2 DEF Shapes, Shape, Unmoved
  <2>6. [s \in Services |-> InstanceOf(s)'] = [s \in Services |-> InstanceOf(s)]
    BY <1>2 DEF Unmoved
  <2>7. Abstract!Finish(x)
    BY <1>1, <2>2, <2>4, <2>5, <2>6 DEF Abstract!Finish, Abstract!Down
  <2> QED BY <2>7 DEF Implemented, Abstract!LifecycleNext
<1> QED BY <1>3, <1>4

LEMMA ShutdownImplements ==
  ASSUME PreparationsSucceed, StopInv, TypeOK', Shapes, Shapes', Next,
         HandleShuttingDownInitiated, StillOver
  PROVE  Implemented
<1>1. UNCHANGED <<proc, spawners>>
  BY DEF HandleShuttingDownInitiated
<1>2. ASSUME NEW s \in Services
      PROVE  Unmoved(s)
  <2>1. Alive(s)' = Alive(s) /\ StillToFork(s)' = StillToFork(s)
    BY <1>1 DEF Alive, StillToFork
  <2> QED BY <1>1, <2>1, NothingMoves DEF Shapes
<1>3. CASE UNCHANGED lifecycle
  BY <1>2, <1>3, AbstractMoves DEF NoMove, Implemented
<1>4. CASE lifecycle' # lifecycle
  <2>1. \/ lifecycle = "Running" /\ lifecycle' \in {"Gracefully", "Forcefully"}
        \/ lifecycle = "Gracefully" /\ lifecycle' = "Forcefully"
    BY <1>4, OnlyStronger
    DEF StopInv, FlowInv, TypeOK, SupervisorTypeOK, LifecycleStatuses,
        ShuttingDown
  <2>2. [s \in Services |-> InstanceOf(s)'] = [s \in Services |-> InstanceOf(s)]
    BY <1>2 DEF Unmoved
  <2>3. UNCHANGED {s \in Services : HasFinished(sh[s])}
    BY DEF StillOver, HasFinished
  <2>4. Abstract!Escalate
    BY <2>1, <2>2, <2>3 DEF Abstract!Escalate
  <2> QED BY <2>4 DEF Implemented, Abstract!LifecycleNext
<1> QED BY <1>3, <1>4

LEMMA StepImplements ==
  ASSUME PreparationsSucceed, StopInv, TypeOK', Shapes, Shapes', Next
  PROVE  Implemented
<1>1. InstanceInv /\ TypeOK
  BY DEF StopInv, PidInv, InstanceInv, GlobalInv
<1>2. CASE HandleStatusUpdate
  BY <1>2, UpdateImplements
<1>3. CASE ~HandleStatusUpdate
  <2>1. StillOver
    BY <1>1, <1>3, OverMoves
  <2>2. CASE \/ HandleRun \/ HandleKill \/ HandlePidChanged \/ HandleForceKill
             \/ HandleShuttingDownInitiated
             \/ \E s \in Services : Forks(s)
             \/ \E p \in Pids : ProcessExits(p)
    BY <1>1, <2>1, <2>2, RunImplements, TermImplements, KillImplements,
       ShutdownImplements, SpawnerImplements, ExitImplements
  <2>3. CASE ~(\/ HandleRun \/ HandleKill \/ HandlePidChanged
               \/ HandleForceKill \/ HandleShuttingDownInitiated
               \/ \E s \in Services : Forks(s)
               \/ \E p \in Pids : ProcessExits(p))
    <3>1. \A s \in Services : Unmoved(s)
      BY <1>1, <2>3, QuietSteps
    <3>2. UNCHANGED lifecycle
      BY <2>3, OnlyStronger DEF StopInv
    <3> QED BY <2>1, <3>1, <3>2, AbstractMoves DEF NoMove, Implemented
  <2> QED BY <2>2, <2>3
<1> QED BY <1>2, <1>3

(* Horust implements Lifecycle: every step is one of the abstract          *)
(* supervisor or leaves it as it is.  Instances appear one at a time and   *)
(* never once the shutdown is forceful, get SIGTERM when the order of the  *)
(* shutdown allows it and SIGKILL only after that or in a forceful         *)
(* shutdown, and a service is over only when nothing of it is left.        *)
THEOREM Implements ==
  ASSUME CleanRestarts, NoReuse, PreparationsSucceed, OnlyShutdownsKill
  PROVE  Spec => ImplementsLifecycle
<1>1. Init /\ Shapes => Abstract!LifecycleInit
  <2> SUFFICES ASSUME Init, Shapes
               PROVE  Abstract!LifecycleInit
    OBVIOUS
  <2>1. /\ lifecycle = "Running"
        /\ \A s \in Services : sh[s].status = "Initial"
        /\ \A s \in Services : spawners[s] = NoSpawner
        /\ \A p \in Pids : proc[p].state = "free"
    BY DEF Init, SupervisorInit, ProcessesInit, Unborn, NewServiceHandler
  <2>2. ASSUME NEW s \in Services
        PROVE  InstanceOf(s) = "none" /\ ~HasFinished(sh[s])
    <3>1. StillToFork(s) = 0 /\ Alive(s) = {}
      BY <2>1 DEF StillToFork, NoSpawner, Alive
    <3> QED BY <2>1, <3>1 DEF Shapes, Shape, HasFinished, TerminalStatuses
  <2>3. {s \in Services : HasFinished(sh[s])} = {}
    BY <2>2
  <2> QED BY <2>1, <2>2, <2>3 DEF Abstract!LifecycleInit
<1>2. /\ StopInv /\ StopInv' /\ Shapes /\ Shapes' /\ [Next]_vars
      => [Abstract!LifecycleNext]_Abstract!abstractVars
  <2> SUFFICES ASSUME StopInv, StopInv', Shapes, Shapes', [Next]_vars
               PROVE  Implemented
    BY DEF Implemented
  <2>1. CASE Next
    BY <2>1, StepImplements DEF StopInv, FlowInv
  <2>2. CASE UNCHANGED vars
    <3>1. UNCHANGED <<sh, proc, spawners, lifecycle>>
      BY <2>2 DEF vars, supervisorVars, threadVars, repoVars
    <3>2. ASSUME NEW s \in Services
          PROVE  Unmoved(s)
      <4>1. Alive(s)' = Alive(s) /\ StillToFork(s)' = StillToFork(s)
        BY <3>1 DEF Alive, StillToFork
      <4> QED BY <3>1, <4>1, NothingMoves DEF Shapes
    <3>3. StillOver
      BY <3>1 DEF StillOver, HasFinished
    <3> QED BY <3>1, <3>2, <3>3, AbstractMoves DEF NoMove, Implemented
  <2> QED BY <2>1, <2>2
<1>3. StopInv => Shapes
  BY OneShape DEF StopInv, PidInv
<1> QED
  BY <1>1, <1>2, <1>3, StopInvariant, PTL
  DEF Spec, ImplementsLifecycle, Abstract!LifecycleSpec

=============================================================================

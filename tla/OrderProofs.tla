---------------------------- MODULE OrderProofs ----------------------------
(***************************************************************************)
(* Several services, for every number of services, pids and queued events: *)
(* none is forked before what it starts after is beyond Started.  The      *)
(* dependencies are looked at when the Run command is produced; the proof  *)
(* follows the command through the queues, the handler and the spawner     *)
(* thread to the process, however often that happens, and shows that       *)
(* meanwhile no dependency that is started once goes back.                 *)
(*                                                                         *)
(* If moreover the kernel hands out no pid twice, the two maps between     *)
(* services and pids agree, and pid.unwrap() in the handler of             *)
(* ServiceExited finds one.  Both fail when it does: the child of a health *)
(* check may get the pid that a service has just had.                      *)
(***************************************************************************)
EXTENDS InstanceProofs

NoReuse == ReusePids = FALSE

(* What another service starts after is itself started once.               *)
LastingDependencies ==
  \A s \in Services : \A d \in Config[s].start_after : Once(d)

-----------------------------------------------------------------------------
(* How services, spawner threads and processes change                      *)

(* Only an answer of its spawner thread makes a service Started, and        *)
(* nothing makes it Starting again, nor Initial if it is started once.     *)
LEMMA NeverBack ==
  ASSUME InstanceInv, Next, NEW d \in Services, Once(d), IsEarlyState(sh'[d])
  PROVE  IsEarlyState(sh[d])
<1>1. /\ TypeOK /\ ServiceInv(d) /\ sh \in [Services -> ServiceHandlerType]
      /\ sh[d] \in ServiceHandlerType
  BY DEF InstanceInv, GlobalInv, TypeOK, SupervisorTypeOK
<1>2. CASE HandleServiceExited
  <2>1. PICK x, ok : sh' = [sh EXCEPT ![x] = ExitedHandler(x, ok)]
    BY <1>2 DEF HandleServiceExited
  <2>2. \/ ExitedHandler(d, ok).status = sh[d].status
        \/ ExitedHandler(d, ok).status \in {"Success", "Failed"}
    <3>1. \A n : [sh[d] EXCEPT !.shutting_down_start = "none",
                              !.pid = None,
                              !.restart_attempts = n].status = sh[d].status
      BY <1>1 DEF ServiceHandlerType
    <3> QED BY <1>1, <3>1
            DEF ExitedHandler, ChangeStatus, IsAllowed, ServiceHandlerType
  <2> QED BY <1>1, <2>1, <2>2 DEF IsEarlyState
<1>3. CASE HandleStatusUpdate
  <2>1. /\ batch # <<>> /\ Head(batch) \in Event
        /\ Head(batch).kind = "StatusUpdate"
    BY <1>1, <1>3, HeadOfBatch DEF HandleStatusUpdate, Handling, TypeOK
  <2>2. PICK x \in Services, new \in Statuses :
          /\ Head(batch) = StatusUpdate(x, new)
          /\ x = Head(batch).svc /\ new = Head(batch).status
    BY <2>1 DEF Event, StatusUpdate
  <2>3. sh' = [sh EXCEPT ![x] = ChangeStatus(sh[x], new)]
    BY <1>3, <2>2 DEF HandleStatusUpdate
  <2>4. Head(batch) \notin Unsent
    <3>1. /\ batch \in Seq(Event) /\ inbox["supervisor"] \in Seq(Event)
          /\ pipe \in Seq(Event) /\ Without(course, Unsent)
      BY <1>1, QueueTypes DEF InstanceInv, GlobalInv, Nowhere
    <3>2. Without(batch, Unsent)
      BY <3>1, ThreeJoined DEF course, WithoutAll
    <3> QED BY <2>1, <3>1, <3>2, HeadAndTail
  <2>5. /\ new \notin {"Starting", "Started", "Success"}
        /\ x = d => new # "Initial"
    <3>1. ~Nowhere({Head(batch)})
      BY <1>1, <2>1, HeadUnderWay
    <3>2. Nowhere(Again(d))
      BY DEF InstanceInv, RestartInv, AgainInv
    <3>3. Head(batch) \notin Again(d)
      BY <3>1, <3>2 DEF Nowhere, AllWithout, Without
    <3> QED BY <2>2, <2>4, <3>3 DEF Unsent, Again
  <2>6. x = d => (IsEarlyState(ChangeStatus(sh[d], new)) => IsEarlyState(sh[d]))
    BY <1>1, <2>5 DEF ChangeStatus, IsEarlyState, IsAllowed, ServiceHandlerType
  <2> QED BY <1>1, <2>3, <2>6
<1>4. CASE HandlePidChanged
  <2>1. /\ batch # <<>> /\ Head(batch) \in Event
        /\ Head(batch).kind = "PidChanged"
    BY <1>1, <1>4, HeadOfBatch DEF HandlePidChanged, Handling, TypeOK
  <2>2. CASE Head(batch).svc = d
    <3>1. Head(batch) \in Replies(d)
      BY <2>1, <2>2 DEF Replies
    <3>2. ~Answered(d)
      <4>1. /\ batch \in Seq(Event) /\ inbox["supervisor"] \in Seq(Event)
            /\ pipe \in Seq(Event)
        BY <1>1, QueueTypes
      <4>2. ~Without(batch, Replies(d))
        BY <2>1, <3>1, <4>1, HeadAndTail
      <4> QED BY <4>1, <4>2, ThreeJoined DEF Answered, course, WithoutAll
    <3>3. sh[d].status \in {"Starting", "InKilling"}
      BY <1>1, <3>2 DEF ServiceInv, TokenInv
    <3>4. sh[d].status = "InKilling" => sh'[d].status = "InKilling"
      BY <1>1, <1>4, <2>2 DEF HandlePidChanged, ServiceHandlerType
    <3> QED BY <3>3, <3>4 DEF IsEarlyState
  <2>3. CASE Head(batch).svc # d
    BY <1>1, <1>4, <2>3 DEF HandlePidChanged
  <2> QED BY <2>2, <2>3
<1>5. CASE HandleSpawnFailed \/ HandleRunPrepareFails \/ HandleForceKill
  BY <1>1, <1>5 DEF HandleSpawnFailed, HandleRunPrepareFails,
                    HandleForceKill, IsEarlyState, ServiceHandlerType
<1>6. CASE HandleRun
  BY <1>1, <1>6 DEF HandleRun, MayRun, IsEarlyState
<1>7. CASE \/ HandleKill \/ HandleHealthCheck
           \/ \E s \in Services : GraceExpires(s)
  BY <1>1, <1>7 DEF HandleKill, HandleHealthCheck, AddHealthcheckEvent,
                    GraceExpires, ServiceHandlerType, IsEarlyState
<1> QED BY <1>2, <1>3, <1>4, <1>5, <1>6, <1>7, WhoHandles

(* A shutdown that is dispatched to the spawner threads moves no token.    *)
LEMMA SpawnersKeep ==
  ASSUME TypeOK, Dispatch, NEW s \in Services
  PROVE  /\ spawners'[s].forked = spawners[s].forked
         /\ StillToFork(s)' = StillToFork(s)
         /\ ~Spawning(s) => ~Spawning(s)'
<1>1. spawners \in [Services -> Spawners] /\ spawners[s] \in Spawners
  BY DEF TypeOK, SupervisorTypeOK
<1>2. CASE spawners' = [y \in Services |->
                          [spawners[y] EXCEPT !.fresh = 0,
                                              !.told = StillToFork(y)]]
  <2>1. /\ StillToFork(s) = spawners[s].fresh + spawners[s].told
        /\ StillToFork(s) \in Nat
    BY <1>1 DEF StillToFork, Spawners
  <2>2. /\ spawners'[s].forked = spawners[s].forked
        /\ spawners'[s].fresh = 0
        /\ spawners'[s].told = spawners[s].fresh + spawners[s].told
        /\ spawners'[s] \in Spawners
    BY <1>1, <1>2, <2>1 DEF Spawners
  <2>3. StillToFork(s)' = StillToFork(s)
    <3>1. StillToFork(s)' = spawners'[s].fresh + spawners'[s].told
      BY DEF StillToFork
    <3> QED BY <2>1, <2>2, <3>1
  <2>4. ~Spawning(s) => spawners'[s] = NoSpawner
    <3> SUFFICES ASSUME ~Spawning(s)
                 PROVE  spawners'[s] = NoSpawner
      OBVIOUS
    <3>1. /\ spawners[s].fresh = 0 /\ spawners[s].told = 0
          /\ spawners[s].forked = {}
      BY DEF Spawning, NoSpawner
    <3> QED BY <2>2, <3>1 DEF Spawners, NoSpawner
  <2> QED BY <2>2, <2>3, <2>4 DEF Spawning
<1>3. CASE UNCHANGED spawners
  BY <1>3 DEF Spawning, StillToFork
<1> QED BY <1>2, <1>3 DEF Dispatch, SpawnersHear

(* A spawner thread comes from a Run command, and a forked pid from it.    *)
LEMMA SpawnerMoves ==
  ASSUME TypeOK, Next, NEW s \in Services
  PROVE  /\ Spawning(s)' =>
              \/ Spawning(s)
              \/ HandleRun /\ Head(batch).svc = s
         /\ \A p \in spawners'[s].forked :
              \/ p \in spawners[s].forked
              \/ p \in FreePids /\ Fork(s, p, "service") /\ Spawning(s)
<1>1. /\ spawners \in [Services -> Spawners] /\ spawners[s] \in Spawners
      /\ spawners[s].fresh \in Nat /\ spawners[s].told \in Nat
  BY DEF TypeOK, SupervisorTypeOK, Spawners
<1>2. CASE UNCHANGED spawners
  BY <1>2 DEF Spawning
<1>3. CASE HandleRun
  <2>1. spawners' = [spawners EXCEPT ![Head(batch).svc].fresh = @ + 1]
    BY <1>3 DEF HandleRun
  <2>2. spawners'[s].forked = spawners[s].forked
    BY <1>1, <2>1 DEF Spawners
  <2>3. Head(batch).svc # s => spawners'[s] = spawners[s]
    BY <1>1, <2>1
  <2> QED BY <1>3, <2>2, <2>3 DEF Spawning
<1>4. ASSUME NEW x \in Services, SpawnerThread(x)
      PROVE  /\ Spawning(s)' => Spawning(s)
             /\ \A p \in spawners'[s].forked :
                  \/ p \in spawners[s].forked
                  \/ p \in FreePids /\ Fork(s, p, "service") /\ Spawning(s)
  <2>1. CASE x # s
    <3>1. spawners'[s] = spawners[s]
      BY <1>1, <1>4, <2>1 DEF SpawnerThread, SpawnerStep, SpawnerForks,
         SpawnerReports, SpawnerFails, SpawnerGivesUp, SpawnerEnds
    <3> QED BY <3>1 DEF Spawning
  <2>2. CASE x = s
    <3>1. Spawning(s)
      BY <1>1, <1>4, <2>2 DEF SpawnerThread, SpawnerStep, SpawnerForks,
         SpawnerReports, SpawnerFails, SpawnerGivesUp, Spawning, NoSpawner,
         StillToFork
    <3>2. CASE SpawnerForks(s)
      <4>1. PICK p \in FreePids :
              /\ Fork(s, p, "service")
              /\ \/ spawners' = [spawners EXCEPT ![s].fresh = @ - 1,
                                                ![s].forked = @ \cup {p}]
                 \/ spawners' = [spawners EXCEPT ![s].told = @ - 1,
                                                ![s].forked = @ \cup {p}]
        BY <3>2 DEF SpawnerForks
      <4>2. spawners'[s].forked = spawners[s].forked \cup {p}
        BY <1>1, <4>1 DEF Spawners
      <4> QED BY <3>1, <4>1, <4>2
    <3>3. CASE SpawnerReports(s)
      BY <1>1, <3>1, <3>3 DEF SpawnerReports, Spawners
    <3>4. CASE SpawnerFails(s) \/ SpawnerGivesUp(s)
      <4>1. \/ spawners' = [spawners EXCEPT ![s].fresh = @ - 1]
            \/ spawners' = [spawners EXCEPT ![s].told = @ - 1]
        BY <3>4 DEF SpawnerFails, SpawnerGivesUp, SpawnerEnds
      <4>2. spawners'[s].forked = spawners[s].forked
        BY <1>1, <4>1 DEF Spawners
      <4> QED BY <3>1, <4>2
    <3> QED BY <1>4, <2>2, <3>2, <3>3, <3>4 DEF SpawnerThread, SpawnerStep
  <2> QED BY <2>1, <2>2
<1>5. CASE Dispatch
  <2>1. /\ spawners'[s].forked = spawners[s].forked
        /\ ~Spawning(s) => ~Spawning(s)'
    BY <1>5, SpawnersKeep
  <2> QED BY <2>1, Zenon
<1>6. \/ UNCHANGED spawners \/ HandleRun \/ Dispatch
      \/ \E x \in Services : SpawnerThread(x)
  BY Zenon DEF Next, SupervisorThread, SupervisorStep, Ingest, Produce, Send,
         Return, HandleEvent, PanicOnServiceExited, HandleServiceExited,
         HandleRunPrepareFails, HandleSpawnFailed, HandleKill,
         HandleForceKill, HandlePidChanged, HandleHealthCheck,
         HandleShuttingDownInitiated, HandleStatusUpdate, HandleIgnored,
         MonitorThread, WorkerThread, Environment, HandleSigterm,
         ProcessExits, GraceExpires, Idle, vars, supervisorVars
<1> QED BY <1>2, <1>3, <1>4, <1>5, <1>6

(* The life of a process: forked, for a service or a check, then dead,     *)
(* then collected.                                                         *)
SameProcess(p) ==
  /\ proc'[p].state = proc[p].state /\ proc'[p].owner = proc[p].owner
  /\ proc'[p].role = proc[p].role
Dies(p) ==
  /\ ProcessExits(p)
  /\ proc[p].state = "alive" /\ proc'[p].state = "zombie"
  /\ proc'[p].owner = proc[p].owner /\ proc'[p].role = proc[p].role
Collected(p) == proc[p].state = "zombie" /\ proc'[p] = Gone
Born(p) ==
  /\ proc[p].state = "free" /\ proc'[p].state = "alive"
  /\ \/ proc'[p].role = "check"
     \/ /\ proc'[p].role = "service" /\ proc'[p].owner \in Services
        /\ Spawning(proc'[p].owner)

(* Who touches the process table.                                          *)
LEMMA WhoTouches ==
  ASSUME Next
  PROVE  \/ UNCHANGED proc
         \/ HandleKill \/ HandleForceKill \/ HandlePidChanged
         \/ Return \/ Produce
         \/ \E s \in Services : SpawnerForks(s) \/ WorkerThread(s)
         \/ \E q \in Pids : ProcessExits(q)
BY DEF Next, SupervisorThread, SupervisorStep, Ingest, Send, HandleEvent,
       PanicOnServiceExited, HandleServiceExited, HandleRun,
       HandleRunPrepareFails, HandleSpawnFailed, HandleHealthCheck,
       HandleShuttingDownInitiated, HandleStatusUpdate, HandleIgnored,
       Dispatch, MonitorThread, SpawnerThread, SpawnerStep, SpawnerReports,
       SpawnerFails, SpawnerGivesUp, Environment, HandleSigterm,
       GraceExpires, Idle, vars, supervisorVars

LEMMA ProcessMoves ==
  ASSUME TypeOK, Next, NEW p \in Pids
  PROVE  SameProcess(p) \/ Dies(p) \/ Collected(p) \/ Born(p)
<1>1. proc \in [Pids -> Process] /\ proc[p] \in Process
  BY DEF TypeOK, ProcessesTypeOK
<1>2. ASSUME UNCHANGED proc
      PROVE  SameProcess(p)
  BY <1>2 DEF SameProcess
<1>3. ASSUME NEW q, NEW sig \in {"term", "kill"}, proc' = Signalled(q, sig)
      PROVE  SameProcess(p)
  BY <1>1, <1>3 DEF Signalled, SameProcess, Process
<1>4. CASE HandleKill \/ HandleForceKill \/ HandlePidChanged
  BY <1>2, <1>3, <1>4 DEF HandleKill, HandleForceKill, HandlePidChanged
<1>5. CASE Return
  BY <1>5, ReturnSignals DEF SameProcess
<1>6. CASE Produce
  <2>1. PICK reaped \in SUBSET Zombies :
          proc' = [q \in Pids |-> IF q \in reaped THEN Gone ELSE proc[q]]
    BY <1>6 DEF Produce
  <2>2. proc'[p] = proc[p] \/ (p \in Zombies /\ proc'[p] = Gone)
    BY <2>1
  <2> QED BY <2>2 DEF SameProcess, Collected, Zombies
<1>7. ASSUME NEW s \in Services, SpawnerForks(s)
      PROVE  SameProcess(p) \/ Born(p)
  <2>1. PICK q \in FreePids :
          /\ proc' = [proc EXCEPT ![q].state = "alive", ![q].owner = s,
                                  ![q].role = "service"]
          /\ spawners[s].fresh > 0 \/ spawners[s].told > 0
    BY <1>7 DEF SpawnerForks, Fork
  <2>2. Spawning(s)
    BY <2>1 DEF Spawning, NoSpawner
  <2>3. p # q => proc'[p] = proc[p]
    BY <1>1, <2>1
  <2>4. p = q => Born(p)
    BY <1>1, <2>1, <2>2 DEF Born, FreePids, Process
  <2> QED BY <2>3, <2>4 DEF SameProcess
<1>8. ASSUME NEW s \in Services, WorkerThread(s)
      PROVE  SameProcess(p) \/ Born(p) \/ Collected(p)
  <2>1. CASE CommandStarts(s)
    <3>1. PICK q \in FreePids :
            proc' = [proc EXCEPT ![q].state = "alive", ![q].owner = s,
                                 ![q].role = "check"]
      BY <2>1 DEF CommandStarts, Fork
    <3>2. p # q => proc'[p] = proc[p]
      BY <1>1, <3>1
    <3>3. p = q => Born(p)
      BY <1>1, <3>1 DEF Born, FreePids, Process
    <3> QED BY <3>2, <3>3 DEF SameProcess
  <2>2. CASE CommandEnds(s)
    BY <1>1, <2>2 DEF CommandEnds, Collected, SameProcess
  <2>3. UNCHANGED proc \/ CommandStarts(s) \/ CommandEnds(s)
    BY <1>8 DEF WorkerThread, WorkerStep, WorkerReports, WorkerEnds,
                CommandCannotStart, WorkerWaits, CommandIsStolen, WorkerPanics
  <2> QED BY <1>2, <2>1, <2>2, <2>3
<1>9. ASSUME NEW q \in Pids, ProcessExits(q)
      PROVE  SameProcess(p) \/ Dies(p)
  <2>1. PICK ok : /\ proc' = [proc EXCEPT ![q].state = "zombie", ![q].ok = ok]
                  /\ proc[q].state = "alive"
    BY <1>9 DEF ProcessExits, Exit
  <2>2. p # q => proc'[p] = proc[p]
    BY <1>1, <2>1
  <2>3. p = q => Dies(p)
    BY <1>1, <1>9, <2>1 DEF Dies, Process
  <2> QED BY <2>2, <2>3 DEF SameProcess
<1> QED BY <1>2, <1>4, <1>5, <1>6, <1>7, <1>8, <1>9, WhoTouches

-----------------------------------------------------------------------------
(* The inductive invariant                                                 *)

(* s has been asked to start, and is between that and its end ...          *)
Underway(s) == ~Nowhere({Run(s)}) \/ Spawning(s) \/ Alive(s) # {}

(* ... and what it starts after has got beyond Started.                    *)
Ready(s) == \A d \in Config[s].start_after : ~IsEarlyState(sh[d])

OrderInv == InstanceInv /\ \A s \in Services : Underway(s) => Ready(s)

(* A service gets under way when it is runnable, and not otherwise.        *)
LEMMA GetsUnderway ==
  ASSUME CleanRestarts, InstanceInv, TypeOK', Next, NEW s \in Services,
         Underway(s)'
  PROVE  Underway(s) \/ IsServiceRunnable(sh, s)
<1>1. TypeOK /\ GlobalInv
  BY DEF InstanceInv, GlobalInv
<1>2. ASSUME ~Nowhere({Run(s)})'
      PROVE  ~Nowhere({Run(s)}) \/ IsServiceRunnable(sh, s)
  <2>1. PICK N : OnlyAdds(N) /\ \A e \in N : Origin(e)
    BY <1>1, Provenance
  <2>2. CASE Run(s) \notin N
    <3>1. \A e \in N : e \notin {Run(s)}
      BY <2>2
    <3>2. Nowhere({Run(s)}) => Nowhere({Run(s)})'
      BY <2>1, <3>1 DEF OnlyAdds, Nowhere, Run
    <3> QED BY <1>2, <3>2
  <2>3. CASE Run(s) \in N
    <3>1. Run(s) \in NextOfAll
      <4>1. Origin(Run(s))
        BY <2>1, <2>3
      <4>2. Run(s) \notin ExitsReaped(Zombies)
        BY DEF ExitsReaped, ExitOf, Run, ServiceExited
      <4> QED BY <4>1, <4>2 DEF Origin, IsAnnouncement, Announcements, Run,
                                PidChanged
    <3>2. PICK x \in Services : Fits(Run(s), x)
      BY <1>1, <3>1, NextOfAllFits DEF InstanceInv
    <3> QED BY <3>2 DEF Fits, Run, ForceKill, Kill, StatusUpdate
  <2> QED BY <2>2, <2>3
<1>3. ASSUME Spawning(s)'
      PROVE  Spawning(s) \/ ~Nowhere({Run(s)})
  <2>1. CASE HandleRun /\ Head(batch).svc = s
    <3>1. /\ batch # <<>> /\ Head(batch) \in Event
          /\ Head(batch).kind = "Run"
      BY <1>1, <2>1, HeadOfBatch DEF HandleRun, Handling, TypeOK
    <3>2. Head(batch) \in {Run(s)}
      BY <2>1, <3>1 DEF Event, Run
    <3>3. /\ batch \in Seq(Event) /\ inbox["supervisor"] \in Seq(Event)
          /\ pipe \in Seq(Event)
      BY <1>1, QueueTypes
    <3>4. ~Without(batch, {Run(s)})
      BY <3>1, <3>2, <3>3, HeadAndTail
    <3> QED BY <3>3, <3>4, ThreeJoined DEF Nowhere, course, WithoutAll
  <2> QED BY <1>1, <1>3, <2>1, SpawnerMoves
<1>4. ASSUME Alive(s)' # {}
      PROVE  Alive(s) # {} \/ Spawning(s)
  <2>1. PICK p \in Pids : /\ proc'[p].state = "alive" /\ proc'[p].owner = s
                          /\ proc'[p].role = "service"
    BY <1>4 DEF Alive
  <2>2. Gone.state # "alive"
    BY DEF Gone, Unborn
  <2>3. SameProcess(p) \/ Born(p)
    BY <1>1, <2>1, <2>2, ProcessMoves DEF Dies, Collected
  <2> QED BY <2>1, <2>3 DEF SameProcess, Born, Alive
<1> QED BY <1>2, <1>3, <1>4 DEF Underway

LEMMA StepInOrder ==
  ASSUME CleanRestarts, LastingDependencies, OrderInv, TypeOK', Next
  PROVE  \A s \in Services : Underway(s)' => Ready(s)'
<1> SUFFICES ASSUME NEW s \in Services, Underway(s)',
                    NEW d \in Config[s].start_after
             PROVE  ~IsEarlyState(sh'[d])
  BY DEF Ready
<1>1. d \in Services
  BY ConfigAssumption DEF ServiceType
<1>2. Underway(s) \/ IsServiceRunnable(sh, s)
  BY GetsUnderway DEF OrderInv
<1>3. ~IsEarlyState(sh[d])
  BY <1>2 DEF OrderInv, Ready, IsServiceRunnable, IsEarlyState
<1>4. Once(d)
  BY DEF LastingDependencies
<1> QED BY <1>1, <1>3, <1>4, NeverBack DEF OrderInv

LEMMA OrderInvariant ==
  ASSUME CleanRestarts, LastingDependencies
  PROVE  Spec => []OrderInv
<1>1. Init => \A s \in Services : Underway(s) => Ready(s)
  <2> SUFFICES ASSUME Init, NEW s \in Services
               PROVE  ~Underway(s)
    OBVIOUS
  <2>1. /\ batch = <<>> /\ inbox["supervisor"] = <<>> /\ pipe = <<>>
        /\ out = <<>>
    BY DEF Init, BusInit, SupervisorInit, Connectors
  <2>2. course = <<>>
    BY <2>1 DEF course
  <2>3. Nowhere({Run(s)})
    BY <2>1, <2>2 DEF Nowhere, Without, AllWithout
  <2>4. ~Spawning(s) /\ Alive(s) = {}
    BY DEF Init, SupervisorInit, ProcessesInit, Spawning, Alive, Unborn
  <2> QED BY <2>3, <2>4 DEF Underway
<1>2. Init => OrderInv
  BY <1>1, StepInit DEF OrderInv
<1>3. OrderInv /\ InstanceInv' /\ [Next]_vars => OrderInv'
  <2> SUFFICES ASSUME OrderInv, InstanceInv', [Next]_vars
               PROVE  \A s \in Services : Underway(s)' => Ready(s)'
    BY DEF OrderInv
  <2>1. CASE Next
    BY <2>1, StepInOrder DEF InstanceInv, GlobalInv
  <2>2. CASE UNCHANGED vars
    BY <2>2 DEF OrderInv, Underway, Ready, Nowhere, course, Spawning, Alive,
                vars, busVars, supervisorVars, threadVars, repoVars, Run
  <2> QED BY <2>1, <2>2
<1> QED BY <1>2, <1>3, InstanceInvariant, PTL DEF Spec

-----------------------------------------------------------------------------
(* The theorem about starts                                                *)

(* Services start in order: while a spawner thread is about to fork a      *)
(* service, or its process is alive, everything it starts after has got    *)
(* beyond Started, although it was looked at when the Run command was      *)
(* produced and a delay of any length may have passed.                     *)
THEOREM StartsInOrder ==
  ASSUME CleanRestarts, LastingDependencies
  PROVE  Spec => []StartAfterIsRespected
<1>1. OrderInv => StartAfterIsRespected
  BY DEF OrderInv, StartAfterIsRespected, Underway, Ready, IsEarlyState
<1> QED BY <1>1, OrderInvariant, PTL

-----------------------------------------------------------------------------
(* Pids: the inductive invariant                                           *)

(* The thread that forked p for s, the event that reports it, and the      *)
(* handler of s, one after the other.                                      *)
Holds(s, p) ==
  \/ p \in spawners[s].forked
  \/ ~Nowhere({PidChanged(s, p)})
  \/ sh[s].pid = p

(* A pid that is held has been handed out, to nobody else, and is in the   *)
(* map once the handler has it.                                            *)
HolderInv ==
  \A s \in Services, p \in Pids : Holds(s, p) =>
    /\ proc[p].state # "free"
    /\ \A t \in Services : Holds(t, p) => s = t
    /\ sh[s].pid = p => pid_map[p] = s

(* The reaper has collected the process whose pid s has.                   *)
Buried(s) == sh[s].pid # None /\ proc[sh[s].pid].state = "reaped"

(* The exit of s is told once, and s has its pid until it hears of it.     *)
ExitInv ==
  \A s \in Services :
    /\ OnlyOnce(course, out, Exits(s))
    /\ Nowhere(Exits(s)) \/ Buried(s)

PidInv == InstanceInv /\ NoPanic /\ HolderInv /\ ExitInv

-----------------------------------------------------------------------------
(* How the maps change                                                     *)

(* The handler of ServiceExited forgets the pid, here and there.           *)
LEMMA PidForgotten ==
  ASSUME TypeOK, HandleServiceExited, NEW s \in Services, Head(batch).svc = s
  PROVE  /\ sh[s].pid # None /\ sh'[s].pid = None
         /\ pid_map' = RemovePid(sh[s].pid)
<1>1. sh \in [Services -> ServiceHandlerType] /\ sh[s] \in ServiceHandlerType
  BY DEF TypeOK, SupervisorTypeOK
<1>2. PICK ok : /\ sh' = [sh EXCEPT ![s] = ExitedHandler(s, ok)]
                /\ sh[s].pid # None /\ pid_map' = RemovePid(sh[s].pid)
  BY DEF HandleServiceExited
<1>3. ExitedHandler(s, ok).pid = None
  <2> DEFINE g == [sh[s] EXCEPT
                     !.shutting_down_start = "none",
                     !.pid = None,
                     !.restart_attempts =
                       IF HasSomeFailedHealthchecks(sh[s])
                            /\ IsEarlyState(sh[s])
                         THEN AtMost(@ + 1, Config[s].attempts + 1) ELSE @]
  <2>1. g.pid = None /\ {"pid", "status", "restart_attempts"} \subseteq DOMAIN g
    BY <1>1 DEF ServiceHandlerType
  <2>2. \/ ExitedHandler(s, ok) = ChangeStatus(g, "Success")
        \/ ExitedHandler(s, ok) = ChangeStatus(g, "Failed")
    BY DEF ExitedHandler
  <2> HIDE DEF g
  <2>3. \A new : ChangeStatus(g, new).pid = None
    BY <2>1 DEF ChangeStatus
  <2> QED BY <2>2, <2>3
<1> QED BY <1>1, <1>2, <1>3

(* A service without pid learns it from a spawner thread, and loses it     *)
(* when it hears of the exit.                                              *)
LEMMA PidMoves ==
  ASSUME InstanceInv, Next, NEW s \in Services
  PROVE  \/ sh'[s].pid = sh[s].pid
         \/ /\ HandleServiceExited /\ Head(batch).svc = s
            /\ sh[s].pid # None /\ sh'[s].pid = None
            /\ pid_map' = RemovePid(sh[s].pid)
         \/ /\ HandlePidChanged /\ Head(batch).svc = s
            /\ sh[s].pid = None /\ sh'[s].pid = Head(batch).pid
            /\ pid_map' = AddPid(Head(batch).pid, s)
            /\ ~Nowhere({PidChanged(s, Head(batch).pid)})
<1>1. /\ TypeOK /\ ServiceInv(s) /\ sh \in [Services -> ServiceHandlerType]
      /\ sh[s] \in ServiceHandlerType
  BY DEF InstanceInv, GlobalInv, TypeOK, SupervisorTypeOK
<1>2. CASE HandleServiceExited
  <2>1. CASE Head(batch).svc = s
    BY <1>1, <1>2, <2>1, PidForgotten
  <2>2. CASE Head(batch).svc # s
    BY <1>1, <1>2, <2>2 DEF HandleServiceExited
  <2> QED BY <2>1, <2>2
<1>3. CASE HandlePidChanged
  <2>1. /\ batch # <<>> /\ Head(batch).kind = "PidChanged"
        /\ pid_map' = AddPid(Head(batch).pid, Head(batch).svc)
    BY <1>3 DEF HandlePidChanged, Handling
  <2>2. Head(batch) \in Event /\ \A S : Head(batch) \in S => ~Nowhere(S)
    BY <1>1, <2>1, HeadUnderWay
  <2>3. CASE Head(batch).svc = s
    <3>1. Head(batch) = PidChanged(s, Head(batch).pid)
      BY <2>1, <2>2, <2>3 DEF Event, PidChanged
    <3>2. Head(batch) \in Replies(s)
      BY <2>1, <2>2, <2>3 DEF Replies
    <3>3. sh[s].pid = None
      <4>1. ~Answered(s)
        BY <1>1, <2>2, <3>2 DEF Answered, Nowhere, ServiceInv, TokenInv
      <4> QED BY <1>1, <4>1 DEF ServiceInv, TokenInv, Awaited
    <3>4. sh'[s].pid = Head(batch).pid
      BY <1>1, <1>3, <2>3 DEF HandlePidChanged, ServiceHandlerType
    <3> QED BY <1>3, <2>1, <2>2, <2>3, <3>1, <3>3, <3>4
  <2>4. CASE Head(batch).svc # s
    BY <1>1, <1>3, <2>4 DEF HandlePidChanged
  <2> QED BY <2>3, <2>4
<1>4. CASE HandleStatusUpdate
  <2>1. PICK x, new : sh' = [sh EXCEPT ![x] = ChangeStatus(sh[x], new)]
    BY <1>4 DEF HandleStatusUpdate
  <2>2. ChangeStatus(sh[s], new).pid = sh[s].pid
    BY <1>1 DEF ChangeStatus, ServiceHandlerType
  <2> QED BY <1>1, <2>1, <2>2
<1>5. CASE \/ HandleSpawnFailed \/ HandleRunPrepareFails \/ HandleForceKill
           \/ HandleRun
  BY <1>1, <1>5 DEF HandleSpawnFailed, HandleRunPrepareFails,
                    HandleForceKill, HandleRun, ServiceHandlerType
<1>6. CASE \/ HandleKill \/ HandleHealthCheck
           \/ \E x \in Services : GraceExpires(x)
  BY <1>1, <1>6 DEF HandleKill, HandleHealthCheck, AddHealthcheckEvent,
                    GraceExpires, ServiceHandlerType
<1> QED BY <1>2, <1>3, <1>4, <1>5, <1>6, WhoHandles

(* Nothing else touches the map of the repository.                         *)
LEMMA MapMoves ==
  ASSUME Next
  PROVE  UNCHANGED pid_map \/ HandleServiceExited \/ HandlePidChanged
BY DEF Next, SupervisorThread, SupervisorStep, Ingest, Produce, Send, Return,
       HandleEvent, PanicOnServiceExited, HandleRun, HandleRunPrepareFails,
       HandleSpawnFailed, HandleKill, HandleForceKill, HandleHealthCheck,
       HandleShuttingDownInitiated, HandleStatusUpdate, HandleIgnored,
       Dispatch, MonitorThread, SpawnerThread, SpawnerStep, SpawnerForks,
       SpawnerReports, SpawnerFails, SpawnerGivesUp, WorkerThread, Environment,
       HandleSigterm, ProcessExits, GraceExpires, Idle, vars, supervisorVars,
       repoVars

(* A pid is held since it was forked.                                      *)
LEMMA HeldSince ==
  ASSUME InstanceInv, CleanRestarts, TypeOK', Next, NEW s \in Services,
         NEW p \in Pids, Holds(s, p)'
  PROVE  Holds(s, p) \/ (proc[p].state = "free" /\ Fork(s, p, "service"))
<1>1. TypeOK /\ GlobalInv
  BY DEF InstanceInv, GlobalInv
<1>2. ASSUME p \in spawners'[s].forked
      PROVE  Holds(s, p) \/ (proc[p].state = "free" /\ Fork(s, p, "service"))
  BY <1>1, <1>2, SpawnerMoves DEF Holds, FreePids
<1>3. ASSUME ~Nowhere({PidChanged(s, p)})'
      PROVE  Holds(s, p)
  <2> DEFINE e == PidChanged(s, p)
  <2>1. PICK N : OnlyAdds(N) /\ \A n \in N : Origin(n)
    BY <1>1, Provenance
  <2>2. CASE e \notin N
    <3>1. \A n \in N : n \notin {e}
      BY <2>2
    <3>2. Nowhere({e}) => Nowhere({e})'
      BY <2>1, <3>1 DEF OnlyAdds, Nowhere, PidChanged
    <3> QED BY <1>3, <3>2 DEF Holds
  <2>3. CASE e \in N
    <3>1. Origin(e) /\ e.kind = "PidChanged" /\ e.svc = s /\ e.pid = p
      BY <2>1, <2>3 DEF PidChanged
    <3> HIDE DEF e
    <3>2. e \notin ExitsReaped(Zombies)
      BY <3>1 DEF ExitsReaped, ExitOf, ServiceExited
    <3>3. e \notin NextOfAll
      <4>1. ASSUME e \in NextOfAll
            PROVE  FALSE
        <5>1. \E x \in Services : Fits(e, x)
          BY <1>1, <4>1, NextOfAllFits DEF InstanceInv
        <5> QED BY <3>1, <5>1 DEF Fits, Run, ForceKill, Kill, StatusUpdate
      <4> QED BY <4>1
    <3>4. \E t \in Services : \E q \in spawners[t].forked : e = PidChanged(t, q)
      BY <3>1, <3>2, <3>3 DEF Origin, IsAnnouncement, Announcements
    <3>5. p \in spawners[s].forked
      BY <3>1, <3>4 DEF PidChanged
    <3> QED BY <3>5 DEF Holds
  <2> QED BY <2>2, <2>3
<1>4. ASSUME sh'[s].pid = p
      PROVE  Holds(s, p)
  BY <1>4, PidMoves, NoneAssumption DEF Holds
<1>5. \/ p \in spawners'[s].forked \/ ~Nowhere({PidChanged(s, p)})'
      \/ sh'[s].pid = p
  BY DEF Holds
<1> QED BY <1>2, <1>3, <1>4, <1>5

-----------------------------------------------------------------------------
(* Each step keeps the invariant                                           *)

(* What is handed out stays handed out, what is collected stays collected. *)
LEMMA NoPidReturns ==
  ASSUME NoReuse, TypeOK, Next, NEW p \in Pids
  PROVE  /\ proc[p].state # "free" => proc'[p].state # "free"
         /\ proc[p].state = "reaped" => proc'[p].state = "reaped"
<1>1. Gone.state = "reaped"
  BY DEF Gone, NoReuse, Unborn
<1> QED BY <1>1, ProcessMoves DEF SameProcess, Dies, Collected, Born

LEMMA StepHolder ==
  ASSUME CleanRestarts, NoReuse, InstanceInv, HolderInv, TypeOK', Next
  PROVE  HolderInv'
<1> SUFFICES ASSUME NEW s \in Services, NEW p \in Pids, Holds(s, p)'
             PROVE  /\ proc'[p].state # "free"
                    /\ \A t \in Services : Holds(t, p)' => s = t
                    /\ sh'[s].pid = p => pid_map'[p] = s
  BY DEF HolderInv
<1>1. /\ TypeOK /\ proc \in [Pids -> Process]
      /\ pid_map \in [Pids -> Services \cup {None}]
  BY DEF InstanceInv, GlobalInv, TypeOK, ProcessesTypeOK, SupervisorTypeOK
<1>2. ASSUME NEW t \in Services, Holds(t, p)'
      PROVE  \/ Holds(t, p) /\ proc[p].state # "free"
             \/ /\ proc[p].state = "free" /\ proc'[p].state = "alive"
                /\ proc'[p].owner = t
  <2>1. Holds(t, p) \/ (proc[p].state = "free" /\ Fork(t, p, "service"))
    BY <1>2, HeldSince
  <2>2. Fork(t, p, "service") =>
          proc'[p].state = "alive" /\ proc'[p].owner = t
    BY <1>1 DEF Fork, Process
  <2> QED BY <2>1, <2>2 DEF HolderInv
<1>3. proc'[p].state # "free"
  BY <1>1, <1>2, NoPidReturns
<1>4. \A t \in Services : Holds(t, p)' => s = t
  BY <1>2 DEF HolderInv
<1>5. ASSUME sh'[s].pid = p
      PROVE  pid_map'[p] = s
  <2>1. CASE HandlePidChanged /\ Head(batch).svc = s
    BY <1>1, <1>5, <2>1, PidMoves, NoneAssumption
    DEF HandlePidChanged, AddPid, HolderInv, Holds
  <2>2. CASE sh[s].pid = p
    <3>1. /\ pid_map[p] = s
          /\ \A t \in Services : sh[t].pid = p => s = t
      BY <2>2 DEF HolderInv, Holds
    <3>2. CASE UNCHANGED pid_map
      BY <3>1, <3>2
    <3>3. CASE HandleServiceExited
      <4>1. /\ Head(batch) \in Event /\ Head(batch).kind = "ServiceExited"
            /\ pid_map' = [pid_map EXCEPT ![sh[Head(batch).svc].pid] = None]
        BY <1>1, <3>3, HeadUnderWay
        DEF HandleServiceExited, Handling, RemovePid
      <4>2. Head(batch).svc \in Services
        BY <4>1, EventFields
      <4>3. Head(batch).svc # s
        BY <1>1, <1>5, <3>3, PidForgotten, NoneAssumption
      <4> QED BY <1>1, <3>1, <4>1, <4>2, <4>3
    <3>4. CASE HandlePidChanged
      <4>1. /\ Head(batch) \in Event /\ Head(batch).kind = "PidChanged"
            /\ batch # <<>> /\ phase = "handling"
            /\ pid_map' = [pid_map EXCEPT ![Head(batch).pid] = Head(batch).svc]
            /\ \A S : Head(batch) \in S => ~Nowhere(S)
        BY <1>1, <3>4, HeadUnderWay DEF HandlePidChanged, Handling, AddPid
      <4>2. Head(batch).svc \in Services
        BY <4>1, EventFields
      <4>3. Head(batch) = PidChanged(Head(batch).svc, Head(batch).pid)
        BY <4>1 DEF Event, PidChanged
      <4>4. ASSUME Head(batch).pid = p
            PROVE  Head(batch).svc = s
        <5>1. Holds(Head(batch).svc, p)
          BY <4>1, <4>3, <4>4 DEF Holds
        <5> QED BY <2>2, <4>2, <5>1 DEF HolderInv, Holds
      <4> QED BY <1>1, <3>1, <4>1, <4>4
    <3> QED BY <3>2, <3>3, <3>4, MapMoves
  <2> QED BY <1>5, <2>1, <2>2, PidMoves, NoneAssumption
<1> QED BY <1>3, <1>4, <1>5

(* No exit of s is told but by the reaper, and by it only once.            *)
LEMMA StepExit ==
  ASSUME CleanRestarts, NoReuse, InstanceInv, ExitInv, TypeOK', Next,
         NEW s \in Services
  PROVE  /\ OnlyOnce(course', out', Exits(s))
         /\ Nowhere(Exits(s))' \/ Buried(s)'
<1>1. /\ TypeOK /\ GlobalInv /\ ServiceInv(s)
      /\ OnlyOnce(course, out, Exits(s))
      /\ Nowhere(Exits(s)) \/ Buried(s)
      /\ sh[s] \in ServiceHandlerType
  BY DEF InstanceInv, GlobalInv, ExitInv, TypeOK, SupervisorTypeOK
<1>2. ASSUME sh'[s].pid = sh[s].pid, Buried(s)
      PROVE  Buried(s)'
  <2>1. sh[s].pid \in Pids
    BY <1>1, <1>2 DEF Buried, ServiceHandlerType
  <2> QED BY <1>1, <1>2, <2>1, NoPidReturns DEF Buried
<1>3. ASSUME NEW N, OnlyAdds(N), \A e \in N : e \notin Exits(s)
      PROVE  /\ OnlyOnce(course', out', Exits(s))
             /\ Nowhere(Exits(s)) => Nowhere(Exits(s))'
  BY <1>1, <1>3 DEF OnlyAdds, Nowhere, Exits, ServiceExited
<1>4. CASE HandleServiceExited /\ Head(batch).svc = s
  <2>1. /\ batch # <<>> /\ Head(batch) \in Event
        /\ Head(batch).kind = "ServiceExited"
        /\ \A S : Head(batch) \in S => ~Nowhere(S)
    BY <1>1, <1>4, HeadUnderWay DEF HandleServiceExited, Handling
  <2>2. Head(batch) \in Exits(s)
    BY <1>4, <2>1 DEF Event, Exits, ServiceExited
  <2>3. PICK evs \in Seq(Event) :
          Done(evs) /\ \A i \in DOMAIN evs : IsAnnouncement(evs[i])
    <3>1. ~PanicOnServiceExited
      BY <1>4 DEF HandleServiceExited, PanicOnServiceExited
    <3> QED BY <1>1, <1>4, <3>1, HandlerSends DEF HandleEvent
  <2> DEFINE N == {evs[i] : i \in DOMAIN evs}
  <2>4. /\ OnlyAdds(N) /\ \A e \in N : e \notin Exits(s)
        /\ AtMostOneOf(course, Exits(s)) => Without(course', Exits(s))
    <3>1. \A e \in N : IsAnnouncement(e)
      BY <2>3
    <3>2. \A e \in Exits(s) : ~IsAnnouncement(e)
      BY Sorts DEF IsAnnouncement, Announcements
    <3> QED BY <1>1, <2>1, <2>2, <2>3, <3>1, <3>2, EventHandled
  <2> HIDE DEF N
  <2>5. ~Without(course, Exits(s))
    <3>1. /\ batch \in Seq(Event) /\ inbox["supervisor"] \in Seq(Event)
          /\ pipe \in Seq(Event)
      BY <1>1, QueueTypes
    <3>2. ~Without(batch, Exits(s))
      BY <2>1, <2>2, <3>1, HeadAndTail
    <3> QED BY <3>1, <3>2, ThreeJoined DEF course, WithoutAll
  <2>6. AllWithout(out, Exits(s))
    BY <1>1, <2>5 DEF OnlyOnce, AllWithout
  <2>7. Without(course', Exits(s)) /\ AllWithout(out', Exits(s))
    BY <1>1, <2>4, <2>6 DEF OnlyOnce, OnlyAdds
  <2>8. Nowhere(Exits(s))'
    BY <2>7 DEF Nowhere, Exits, ServiceExited
  <2> QED BY <1>3, <2>4, <2>8
<1>5. CASE Produce
  <2>1. PICK R \in SUBSET Zombies :
          /\ proc' = [p \in Pids |-> IF p \in R THEN Gone ELSE proc[p]]
          /\ OnlyAdds(NextOfAll \cup ExitsReaped(R))
          /\ \A S : /\ Nowhere(S)
                    /\ \A e \in NextOfAll : e \notin S
                    /\ \A p, q \in Zombies :
                         ExitOf(p) \in S /\ ExitOf(q) \in S => p = q
                    => OnlyOnce(course', out', S)
    BY <1>1, <1>5, IterationEnds
  <2>2. ASSUME NEW p \in Zombies, ExitOf(p) \in Exits(s)
        PROVE  sh[s].pid = p /\ p \in Pids /\ proc[p].state = "zombie"
    <3>1. p \in Pids /\ proc[p].state = "zombie" /\ pid_map[p] = s
      BY <2>2, Sorts DEF Zombies, ExitOf, Late, Exits, ServiceExited
    <3> QED BY <1>1, <3>1 DEF ServiceInv, TokenInv
  <2>3. \A e \in NextOfAll : e \notin Exits(s)
    BY <1>1, NextOfAllFits, FitsSorts DEF InstanceInv
  <2>4. UNCHANGED sh
    BY <1>5 DEF Produce, repoVars
  <2>5. CASE \A e \in ExitsReaped(R) : e \notin Exits(s)
    <3>1. \A e \in NextOfAll \cup ExitsReaped(R) : e \notin Exits(s)
      BY <2>3, <2>5
    <3> QED BY <1>1, <1>2, <1>3, <2>1, <2>4, <3>1
  <2>6. ASSUME NEW p \in R, ExitOf(p) \in Exits(s)
        PROVE  /\ OnlyOnce(course', out', Exits(s))
               /\ Buried(s)'
    <3>1. sh[s].pid = p /\ p \in Pids /\ proc[p].state = "zombie"
      BY <2>2, <2>6
    <3>2. Nowhere(Exits(s))
      BY <1>1, <3>1 DEF Buried
    <3>3. \A q, r \in Zombies :
            ExitOf(q) \in Exits(s) /\ ExitOf(r) \in Exits(s) => q = r
      BY <2>2
    <3>4. proc'[p].state = "reaped" /\ p # None
      BY <2>1, <3>1, NoneAssumption DEF Gone, NoReuse, Unborn
    <3> QED BY <2>1, <2>3, <2>4, <3>1, <3>2, <3>3, <3>4 DEF Buried
  <2> QED BY <2>5, <2>6 DEF ExitsReaped
<1>6. CASE ~Produce /\ ~(HandleServiceExited /\ Head(batch).svc = s)
  <2>1. PICK N : OnlyAdds(N) /\ \A e \in N : Origin(e)
    BY <1>1, Provenance
  <2>2. \A e \in N : e \notin Exits(s)
    <3>1. \A t, p : PidChanged(t, p) \notin Exits(s)
      BY Sorts DEF PidChanged
    <3>2. \A e \in Exits(s) : ~IsAnnouncement(e)
      BY Sorts DEF IsAnnouncement, Announcements
    <3> QED BY <1>6, <2>1, <3>1, <3>2 DEF Origin
  <2>3. sh[s].pid # None => sh'[s].pid = sh[s].pid
    BY <1>6, PidMoves
  <2>4. Buried(s) => Buried(s)'
    BY <1>2, <2>3 DEF Buried
  <2> QED BY <1>1, <1>3, <2>1, <2>2, <2>4
<1> QED BY <1>4, <1>5, <1>6

(* An exit whose service has no pid would be one that nobody collected.    *)
LEMMA StepNoPanic ==
  ASSUME InstanceInv, ExitInv, NoPanic, Next
  PROVE  NoPanic'
<1>1. TypeOK
  BY DEF InstanceInv, GlobalInv
<1>2. ~PanicOnServiceExited
  <2> SUFFICES ASSUME PanicOnServiceExited
               PROVE  FALSE
    OBVIOUS
  <2>1. /\ batch # <<>> /\ Head(batch) \in Event
        /\ Head(batch).kind = "ServiceExited"
        /\ sh[Head(batch).svc].pid = None
        /\ \A S : Head(batch) \in S => ~Nowhere(S)
    BY <1>1, HeadUnderWay DEF PanicOnServiceExited, Handling
  <2>2. PICK s \in Services : Head(batch) \in Exits(s) /\ s = Head(batch).svc
    <3>1. Head(batch) = ServiceExited(Head(batch).svc, Head(batch).ok)
      BY <2>1 DEF Event, ServiceExited
    <3>2. Head(batch).svc \in Services /\ Head(batch).ok \in BOOLEAN
      BY <2>1, EventFields
    <3> QED BY <3>1, <3>2 DEF Exits
  <2> QED BY <2>1, <2>2 DEF ExitInv, Buried
<1>3. UNCHANGED phase \/ phase' \in {"producing", "handling", "returned"}
  BY <1>2, Zenon DEF Next, SupervisorThread, SupervisorStep, Ingest, Produce, Send,
     Return, HandleEvent, HandleServiceExited, HandleRun,
     HandleRunPrepareFails, HandleSpawnFailed, HandleKill, HandleForceKill,
     HandlePidChanged, HandleHealthCheck, HandleShuttingDownInitiated,
     HandleStatusUpdate, HandleIgnored, Done, Dispatch, MonitorThread,
     SpawnerThread, SpawnerStep, SpawnerForks, SpawnerReports, SpawnerFails,
     SpawnerGivesUp, WorkerThread, Environment, HandleSigterm, ProcessExits,
     GraceExpires, Idle, vars, supervisorVars, threadVars
<1> QED BY <1>3 DEF NoPanic

LEMMA PidInvariant ==
  ASSUME CleanRestarts, NoReuse
  PROVE  Spec => []PidInv
<1>1. Init => PidInv
  <2> SUFFICES ASSUME Init
               PROVE  PidInv
    OBVIOUS
  <2>1. /\ batch = <<>> /\ inbox["supervisor"] = <<>> /\ pipe = <<>>
        /\ out = <<>> /\ phase = "producing"
        /\ \A s \in Services : sh[s].pid = None /\ spawners[s].forked = {}
    BY DEF Init, BusInit, SupervisorInit, Connectors, NewServiceHandler,
           NoSpawner
  <2>2. course = <<>>
    BY <2>1 DEF course
  <2>3. \A S : Nowhere(S) /\ OnlyOnce(course, out, S)
    BY <2>1, <2>2 DEF Nowhere, OnlyOnce, AtMostOneOf, Without, AllWithout
  <2>4. \A s \in Services, p \in Pids : ~Holds(s, p)
    BY <2>1, <2>3, NoneAssumption DEF Holds
  <2> QED BY <2>1, <2>3, <2>4, StepInit DEF PidInv, NoPanic, HolderInv, ExitInv
<1>2. PidInv /\ InstanceInv' /\ [Next]_vars => PidInv'
  <2> SUFFICES ASSUME PidInv, InstanceInv', [Next]_vars
               PROVE  PidInv'
    OBVIOUS
  <2>1. CASE Next
    <3>1. TypeOK'
      BY DEF InstanceInv, GlobalInv
    <3>2. HolderInv'
      BY <2>1, <3>1, StepHolder DEF PidInv
    <3>3. ExitInv'
      BY <2>1, <3>1, StepExit DEF PidInv, ExitInv
    <3>4. NoPanic'
      BY <2>1, StepNoPanic DEF PidInv
    <3> QED BY <3>2, <3>3, <3>4 DEF PidInv
  <2>2. CASE UNCHANGED vars
    <3>1. UNCHANGED <<course, out, sh, spawners, proc, pid_map, phase>>
      BY <2>2 DEF vars, busVars, supervisorVars, threadVars, repoVars, course
    <3>2. HolderInv'
      BY <3>1 DEF PidInv, HolderInv, Holds, Nowhere, PidChanged
    <3>3. ExitInv'
      BY <3>1 DEF PidInv, ExitInv, Nowhere, Buried, Exits, ServiceExited
    <3> QED BY <3>1, <3>2, <3>3 DEF PidInv, NoPanic
  <2> QED BY <2>1, <2>2
<1> QED BY <1>1, <1>2, InstanceInvariant, PTL DEF Spec

-----------------------------------------------------------------------------
(* The theorems about pids                                                 *)

(* The map of the repository and the pids of the handlers describe the     *)
(* same bijection, although an event of a spawner thread enters a pid in   *)
(* both and an event of the reaper, in its own time, removes it.           *)
THEOREM MapsAgree ==
  ASSUME CleanRestarts, NoReuse
  PROVE  Spec => []PidMapAgrees
<1>1. PidInv => PidMapAgrees
  BY DEF PidInv, PidMapAgrees, HolderInv, Holds, InstanceInv, ServiceInv,
         TokenInv
<1> QED BY <1>1, PidInvariant, PTL

(* The pid.unwrap() of the handler of ServiceExited always finds a pid:    *)
(* every exit is told once, after the pid and before the next one.         *)
THEOREM NeverPanics ==
  ASSUME CleanRestarts, NoReuse
  PROVE  Spec => []NoPanic
<1>1. PidInv => NoPanic
  BY DEF PidInv
<1> QED BY <1>1, PidInvariant, PTL

=============================================================================

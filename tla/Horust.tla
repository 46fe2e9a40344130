------------------------------- MODULE Horust -------------------------------
(***************************************************************************)
(* Horust::run (horust/src/horust/mod.rs): the supervisor, the spawner     *)
(* threads, the healthcheck monitor and its workers around one bus, with   *)
(* the processes they supervise.                                           *)
(***************************************************************************)
EXTENDS Supervisor, Healthcheck

vars == <<busVars, supervisorVars, healthVars>>

TypeOK ==
  /\ BusTypeOK
  /\ ProcessesTypeOK
  /\ SupervisorTypeOK
  /\ HealthcheckTypeOK

Init == BusInit /\ SupervisorInit /\ HealthcheckInit

Dispatch ==
  /\ Deliver
  /\ SpawnersHear(Head(pipe))
  /\ UNCHANGED <<repoVars, threadVars, signalVars, proc, healthVars>>

(* Only the bus keeps Horust::run going: it ends when the pipe is empty    *)
(* and every connector has been dropped.                                   *)
Terminated ==
  /\ pipe = <<>>
  /\ joined = {}
  /\ \A s \in Services : ~Spawning(s) /\ ~HasWorker(s)

Idle == Terminated /\ UNCHANGED vars

SupervisorThread == SupervisorStep /\ UNCHANGED healthVars
MonitorThread == MonitorStep /\ UNCHANGED supervisorVars
SpawnerThread(s) == SpawnerStep(s) /\ UNCHANGED healthVars
WorkerThread(s) ==
  WorkerStep(s) /\ UNCHANGED <<repoVars, threadVars, signalVars, spawners>>
Environment ==
  /\ \/ HandleSigterm
     \/ \E p \in Pids : ProcessExits(p)
     \/ \E s \in Services : GraceExpires(s)
  /\ UNCHANGED healthVars

Next ==
  \/ SupervisorThread
  \/ Dispatch
  \/ MonitorThread
  \/ \E s \in Services : SpawnerThread(s) \/ WorkerThread(s)
  \/ Environment
  \/ Idle

Spec == Init /\ [][Next]_vars

(* Every thread keeps running, the kernel carries out a SIGKILL and the    *)
(* clock advances.  A process need not exit, react to SIGTERM or be        *)
(* healthy, a worker need not look again, and nobody has to send SIGTERM.  *)
(* The command of a health check ends by itself: nothing limits its time,  *)
(* and the worker that waits for it cannot be stopped.                     *)
KilledProcessDies(p) ==
  /\ proc[p].sig = "kill"
  /\ ProcessExits(p)
  /\ UNCHANGED healthVars

CheckEnds(p) ==
  /\ proc[p].role = "check"
  /\ ProcessExits(p)
  /\ UNCHANGED healthVars

Fairness ==
  /\ WF_vars(SupervisorThread)
  /\ WF_vars(Dispatch)
  /\ WF_vars(MonitorThread)
  /\ \A s \in Services :
       /\ WF_vars(SpawnerThread(s))
       /\ WF_vars(WorkerEnds(s) /\ UNCHANGED supervisorVars)
       /\ WF_vars(WorkerWaits(s)
                    /\ UNCHANGED <<repoVars, threadVars, signalVars, spawners>>)
       /\ WF_vars(GraceExpires(s) /\ UNCHANGED healthVars)
  /\ \A p \in Pids : WF_vars(KilledProcessDies(p)) /\ WF_vars(CheckEnds(p))

FairSpec == Spec /\ Fairness

=============================================================================

# Horust in TLA+

Horust supervises a set of services: it starts them in order, watches their
processes and their health, restarts or gives them up, and takes everything
down on SIGTERM. It does so with half a dozen threads that share nothing but a
message bus. This directory holds TLA+ models of that core, of the way from the
command line to a running program and its logs, and of the commands handler
behind `horustctl`; the TLC instances that check them; and TLAPS proofs about
them for every configuration. Paths below are relative to `src/`; `S/`
abbreviates `horust/src/horust/supervisor/`.

## 1. The system

### Components

| Component | Source | State it keeps | Operations |
|---|---|---|---|
| Supervisor loop | `S/mod.rs` | lifecycle status, the events of this iteration | take the queued events, look at the SIGTERM flag, handle each event, produce the next events of every service, reap, send, sleep 300 ms; return when every service has finished |
| Service state machine | `S/service_handler.rs` | per service: status, pid, restart attempts, failed health checks, start of the grace period | change of status along a table, restart and failure strategies, next events |
| Repository | `S/repo.rs` | services by name, pid to service map | add/remove pid, runnable, killable, dependents, die-if-failed |
| Reaper | `S/reaper.rs` | none | up to 20 `waitpid(-1, WNOHANG)` per iteration |
| Signal flag | `S/signal_handling.rs` | an atomic flag | set by SIGTERM/SIGINT, read and cleared by the supervisor |
| Spawner threads | `S/process_spawner.rs` | one thread per Run: its delay and its queue | wait, poll for a shutdown, prepare, fork and exec, report |
| The child up to exec | `S/process_spawner.rs`, `signal_safe.rs` | descriptors, environment | redirect, exec, or report an error and exit with 101 to 103 |
| Log writers | `S/process_spawner.rs` (`chunked_writer`) | the read end of a pipe, the current chunk | copy a program's output into files of limited size |
| Message bus | `horust/src/horust/bus.rs` | one input pipe, one queue per connector | send, copy each message to every queue, end when the last sender is gone |
| Health monitor and workers | `horust/src/horust/healthcheck/` | one worker thread per started service with checks | start, report, stop, join |
| Checks | `horust/src/horust/healthcheck/checks.rs` | the child process of a command check | file, HTTP and command checks |
| Commands handler | `horust/src/horust/commands_handler.rs`, `commands/` | a copy of the statuses, a Unix socket | follow StatusChanged, answer horustctl |
| horustctl | `horustctl/src/main.rs` | none | find the socket, ask, print |
| Loading | `main.rs`, `mod.rs`, `formats/service.rs` | the list of services | fetch the files of all paths, validate |
| Formats | `horust/src/horust/formats/` | the configuration of each service | parse, defaults, environment |
| Horust::run | `horust/src/horust/mod.rs` | the bus | start the threads, run the bus, join the supervisor |
| Resource limits | `formats/service.rs` | cgroups | write limits, attach a pid |

### Interactions

Every thread owns a connector of the bus. A message sent by anyone goes into
one pipe; the thread of `Horust::run` copies it into the queue of every
connector, the sender's included. So the supervisor *sends itself* the commands
it decides on (`Run`, `Kill`, `ForceKill`, `StatusUpdate`) and obeys them when
they have come round, one iteration later or more. The spawners answer a `Run`
with `PidChanged` or `SpawnFailed`; the monitor reacts to `StatusChanged(Started)`
and `ServiceExited` and its workers send `HealthCheck`; `ShuttingDownInitiated`
tells everyone to stop. Processes are reached by `fork`, `kill` and `waitpid`
only, and signals reach Horust by one flag.

Three interactions do not go over the bus. All threads are one process to the
kernel, so the reaper, which waits for *any* child, also meets the children that
health checks have started and wait for themselves. For the same reason a child
inherits whatever pipe ends the other spawner threads hold at the moment of its
fork (`pipe(2)` without `O_CLOEXEC`), and keeps them through exec. And a client
of the commands handler holds up the handler's thread while it has not sent its
request; that thread's connector is one of those the bus waits for at the end.

### What is hard here, and what would be right

- **A command is decided on in one iteration and obeyed in a later one.** By
  then the service, its dependencies or the lifecycle may have changed, and while
  the command is on its way the same decision is taken again. Right: one instance
  per service, dependencies respected at the fork, finished means finished.
- **Fork, exit, reap and registration are four steps in three threads.** A child
  can be gone before its pid is known. Right: the pid map agrees with the
  handlers; an exit is never attributed to the wrong service or lost.
- **A kill meets a service in any stage of starting**: before its Run, before its
  fork, before its pid is known. Right: SIGTERM first, SIGKILL after the grace
  period, and nothing left behind a finished service.
- **Shutdowns and failures.** Two SIGTERMs through one flag, a shutdown asked for
  by a failing service meanwhile. Right: a shutdown only escalates, respects
  `shutdown-after` unless forceful, and ends - threads and bus included.
- **Health reports outlive** the worker and the instance they are about, and the
  end of a check's command may be taken by the reaper.
- **A log is written by a thread** that must outlive the program and must notice
  its end, although end of file needs every inherited copy of the pipe's write
  end closed. Right: no byte lost, no program killed by its own output, every
  writer ends.
- **The copy of the statuses** follows events that some transitions do not send
  and others send twice. Right: what horustctl is told is what is.
- **What is validated is not what is used**: the list of services is checked, the
  map by name is what the supervisor keeps. Right: dependencies exist in the map.
- **Every process may hang, ignore signals or die** at any point.

`PROJECT.json` lists each of these at its line under `hazards`.

## 2. The modules

| Module | Models | State |
|---|---|---|
| `Formats` | events, statuses, the configuration fields that steer supervision | - |
| `Bus` | `bus.rs` | `pipe`, `inbox[c]`, `joined` |
| `Processes` | the kernel (external): fork, kill, exit, zombies, pid reuse | `proc[p]` |
| `ServiceHandler` | `service_handler.rs` and the queries of `repo.rs`, as pure operators | - |
| `Supervisor` | `S/mod.rs`, the pid map, the reaper, the flag, the spawner threads | `sh`, `pid_map`, `lifecycle`, `phase`, `batch`, `out`, `sigterm`, `spawners` |
| `Healthcheck` | `healthcheck/mod.rs`, `checks.rs`: monitor, workers, command checks | `worker[s]`, `command[s]` |
| `Horust` | `Horust::run`: all of the above around one bus, fairness | all |
| `HorustProperties` | what the system promises | - |
| `Lifecycle` | the abstract specification: what any supervisor of this kind promises | `instance`, `over`, `level` |
| `HorustRefinement` | `Horust` implements `Lifecycle` | - |
| `HorustClaims` | what docs and comments promise and the code does not keep | - |
| `CommandsHandler` | `commands_handler.rs`, `commands/src/server.rs`, `horustctl` | `heard`, `services`, `server`, `peer`, `backlog`, `sockets`, `client` |
| `HorustCommands` | `Horust` composed with `CommandsHandler`, and their properties | all |
| `Environment` | `get_environment`, and the relation the documentation states | - |
| `SignalSafe` | `signal_safe.rs` | - |
| `Loading` | `main.rs`, `fetch_services`, `load_service`, `validate`, `Repo::new` | `setup`, `fetched`, `waiting`, `loaded`, `stage` |
| `Spawning` | `process_spawner.rs` in detail: thread, child, pipes, log writer | `thread`, `child`, `ends`, `writer`, `file` |
| `Launch` | `Loading` and `Spawning` composed, fairness and properties | all |
| `HorustProofs`, `ShutdownProofs`, `InstanceProofs`, `OrderProofs`, `RefinementProofs` | proofs about `Horust`, and that it implements `Lifecycle` | - |
| `CommandsProofs` | proofs about `HorustCommands` | - |
| `LaunchProofs` | proofs about `Launch` | - |
| `NumberProofs` | least and greatest of a set of numbers | - |
| `MCHorust`, `MCCommands`, `MCLaunch` | instances for TLC | - |

There are two compositions. `Formats` is extended by `Bus`, `Processes` and
`ServiceHandler`; `Supervisor` puts these together, `Horust` adds `Healthcheck`,
`HorustCommands` adds the `CommandsHandler`. `Environment` and `SignalSafe` are
used by `Loading` and `Spawning`, which `Launch` composes. The two meet at the
spawner thread: `Supervisor` has of it what concerns the other threads (delay,
shutdown, fork, report), `Spawning` what concerns the program. So `Spawning` lets
services be spawned in any order and at any time, with the one thing that the
supervisor guarantees (`AtMostOneInstance`, checked in `Horust`): a service is
spawned again only after its previous process has ended or was not spawned.

### How state and actions correspond to the code

**Supervisor.** One iteration of `Supervisor::run` (`S/mod.rs:291-340`) is `Ingest`
(`try_get_events` and the look at the flag), one `Handle...` action for each arm
of `handle_event`, `Produce` (next events of every service, then the reaper) and
one `Send` per event. Every other thread can move between any two of these.
`batch` is the `Vec` of events being handled, `out` the lists of events to send,
in the order the code sends them. A disjunct per arm: an arm with a guard
(`Event::Run(..) if is_initial()`) has that guard, and `HandleIgnored` is the
fall-through arm. `handler.next` (`ServiceHandler.NextEvents`) is one operator
with the cases of the two `match`es in their order. `PanicOnServiceExited` is
`pid.unwrap()` on `None`: the supervisor thread ends, the others go on.

A spawner thread is counted, not named: `spawners[s].fresh` threads of `s` have
still to fork, `told` ones have a shutdown in their queue and may give up or fork
all the same (the `select!` picks either), and `forked` holds the pids whose
`PidChanged` is not yet sent.

**Health checks.** The monitor's loop over events is one action per event and
branch; `StopWorker` and `WorkerIsStopped` are the notification and the join. A
worker runs its file and HTTP checks in one step. A command check is two: it
forks a child (`CommandStarts`), and collects it (`CommandEnds`) or finds that the
supervisor's reaper has done so, upon which its `expect` panics
(`CommandIsStolen`); the monitor's `unwrap` of the join then panics in turn
(`MonitorPanics`), which drops the notifiers of the other workers.

**Commands.** `run` is the loop `listening` (take the events, end on a shutdown),
`accepting` (a non-blocking `accept`) and `reading` (a blocking read to the end
of the request, by `HandleConnection`). A client connects (after looking for the
socket as `get_uds_path` does), then asks, hangs up, or does nothing more. The
socket file is created by `Bind`, removed by `EndCommands`, and may be there
already after a crash.

**Launch.** `FetchServices` looks up the next path, `LoadService` loads one of the
files found there, `Validate` is the checks, `Repo` the map by name. A run `r = <<service, k>>` names the k-th spawning of a
service, with its spawner thread, its child, its pipe and its log writer.
`SpawnStep` has an action per system call of `spawn_process`, so that forks of
other threads can come in between; `ends` are the pipe ends held by the process of
Horust and `child[r].ends` those a child has inherited. A child redirects one
descriptor after the other, where `STDOUT` as the target of stderr is what stdout
is *by then*. `chunked_writer` is one action per opening of a chunk, filling of
its `BufReader`, copying of what fits, and end of file.

Operators like `KeepPid` or `CopyAndForget`, each marked *variation*, are
what a plausible bug would make of the definition that follows them; the model
does not use them.

### What is abstracted, and why that loses nothing

- **Counters saturate.** `healthiness_checks_failed` is compared with `max_failed`
  and with 0 only, `restart_attempts` with `attempts` only; both stop one above.
  The defaults (3, 10) are scaled down in the instances.
- **Exit codes** become "successful or not"; a death by signal is reported as
  -137 by the reaper, which is assumed not to be in `successful-exit-code`.
- **Time.** Start delay and backoff are "any time at all". The grace period is
  `none`, `armed`, `expired`; it may expire at any time after it started. The
  timestamp of a log does not go back from one writer of a service to the next,
  and may be the same, since it is in seconds.
- **HashMap iteration order** is the constant `ServiceOrder`: fixed for a run, as
  it is for a map that is not modified. The order of dependents in a kill list is
  fixed too; their commands concern different services.
- **Health checks** answer anything at any time; a worker has one report at a
  time on its way to the supervisor.
- **The connectors** of the workers and of the library's users are never read and
  are left out. The queues of monitor, supervisor and commands handler keep the
  events that these do not skip; of a spawner's queue it is kept whether there is
  a shutdown in it.
- **Values of environment variables** are where they come from: the `.toml` file,
  the environment of Horust, or computed. Precedence is all `get_environment` is
  about.
- **Text** written by a dying child is a sequence of parts (the name, the
  message, the number); only the number is spelled out, in digits.
- **Bytes** in a pipe, a buffer and a file are counted, per run. Where the bytes
  of two writers to the same file lie in it is left out, and so is a write to an
  open file that fails (a full disk).
- **Requests** are one name each, an answer is a status or an error; a message
  that cannot be decoded is not modelled.

## 3. What TLC checks

`MCHorust`, `MCCommands` and `MCLaunch` are instantiated by the `.cfg` files; the
configuration of services is the `...Config` (or `...Setups`) definition a `.cfg`
names.

| Run | Question | Result |
|---|---|---|
| `shutdown_order` | Two services in a `start-after`/`shutdown-after` chain, two SIGTERMs, one reap per iteration. Is the start order kept at the fork, the stop order at the signal, and is nothing left behind a finished service? | `StartAfterIsRespected`, `ShutdownAfterIsRespected`, `FinishedMeansGone`, `ImplementsLifecycle` hold |
| `restarts` | One service, always restarted, whose fork may fail and whose failure shuts Horust down; the kernel reuses its pid, the dispatcher lags up to 3 events behind, two SIGTERMs. Do duplicated and late commands do harm? | `TypeOK`, `NoPanic`, `AtMostOneInstance`, `PidMapAgrees`, `FinishedIsFinal`, `ShutdownOnlyEscalates`, `NothingSpawnedWhenForced`, `ImplementsLifecycle` hold |
| `failed_checks` | One service checked by a command, deaf to SIGTERM, killed for a failed check and restarted; the reaper may take the end of the check away, worker and monitor may panic; two SIGTERMs. Does a shutdown still end? | `ShutdownTerminatesUnlessPanic`, `NothingSpawnedWhenForced` hold |
| `failures_spread` | Two services that go down with each other, by kill-dependents and by die-if-failed, in any stage of starting, one deaf to SIGTERM, Horust as pid 1, the dispatcher up to one event behind. | `FailureSpreads`, `ShutdownTerminates`, `ImplementsLifecycle` hold |
| `commands` | Horust with its commands handler and two runs of horustctl that may say nothing; a socket file left behind by a crash, of the same pid or another; a service that fails in every way. | `AllTypeOK`, `MirrorAgrees`, `FailureShutsDown`, `RequestsAreAnswered`, `ShutdownEndsCommands` hold |
| `launch` | About 170 command lines and directories: what is loaded or refused, where output goes, in which environment, what arrives in the logs of up to two concurrent programs. | `LaunchTypeOK`, `DependenciesExist`, `LoadedTogether`, `OutputGoesWhereToldTo`, `EnvironmentIsDocumented`, `LogsAreComplete`, `BrokenPipeOnlyWithoutLog`, `ErrnoIsDecimal`, `SpawnsReport`, `WritersEnd` hold |
| `claim_*` | Six statements of docs, comments and assertions. | violated, see section 4 |

**Properties.** Their statements, and what each is about, are in
`HorustProperties`, `HorustRefinement`, `HorustCommands` and `Launch`. In one line
each:

- *Supervision*: no `unwrap` on a missing pid; one process or spawner per service;
  `pid_map` and `sh[s].pid` are the same bijection; a finished service has no
  spawner and no process without a SIGKILL; dependencies are beyond Started at the
  fork; Finished is final; a shutdown only escalates; nothing is spawned in a
  forceful shutdown; a service gets its SIGTERM after its `shutdown-after` list is
  gone; a shutdown ends everything; failures reach whom they should.
- *Refinement*: `ImplementsLifecycle` maps statuses, spawners and processes to the
  three variables of `Lifecycle`, where a service has one instance that is due, up,
  asked to end, doomed or none, and says of every step at once: SIGTERM comes
  before SIGKILL but in a forceful shutdown, an instance appears only when due,
  what is over stays over, forced means nothing new, order holds when graceful.
- *Commands*: once no event is under way the copy of the statuses agrees with the
  supervisor's; requests are answered or reset; only a silent client can keep the
  last thread of Horust after a shutdown.
- *Launch*: dependencies exist in the repo; how services are spread over paths
  does not matter; descriptors and environment of a program are those documented;
  a rotated log is complete, in chunks of exactly the size, when its writer has
  ended; a program is not killed by writing to its log; `i32_to_str_bytes` writes
  decimal numbers; every spawner reports; every writer ends.

**Bounds.** `MaxSigterms` (2 is enough: the second one is the forceful shutdown,
and nothing reads a third), `MaxReaps` (20 in the code; 1 where zombies compete),
`Pids` (one or two more than instances alive at once; with `ReusePids` a single
one, so that every restart reuses it; in `failed_checks` one for the service and
one for its check), `MaxLag` and `MaxBacklog`. `MaxLag` bounds
the undelivered events when an iteration starts. The dispatcher has 300 ms to
copy a handful of events, so 0 is what nearly always happens; `failures_spread`
allows 1 and `restarts` 3, which is enough for a whole round of commands to come
back an iteration late and be produced twice. In `commands` there are two
clients, so that one is waiting while the other is served or silent.
In `launch`, `MaxRuns` = 2 (a log is written by at most two writers, of one
service restarted or of two services), `MaxBytes` = 2 and `PipeSize` = 2 with
chunks of 1 and 2 bytes: totals below, at, and above a chunk, a full pipe, and a
buffer that spans two chunks. The error numbers include 0, a power of ten, one
less, and the largest and smallest. Each property is broken by at least one
variation of the code in each run that lists it (`mutants` in `PROJECT.json`), so
the interesting cases do happen within the bounds.

**Fairness.** `Horust.Fairness` is weak fairness of each thread - supervisor,
dispatcher, monitor, each service's spawners, a worker told to stop - since none
waits for a lock held by another and the OS schedules them all; of the death of
a process that has a pending SIGKILL, which the kernel carries out; of the
grace period, since clocks advance; and of the end of a *check's* command
(`CheckEnds`), without which a worker that waits for it cannot be stopped: nothing
limits its time in the code, so this one is an assumption about the commands. A
service's process need *not* exit by itself, react to SIGTERM or be healthy; a
worker need not report; nobody has to send SIGTERM. `FairSpecAll` adds the thread
of the commands handler; clients need not connect, nor go on once connected.
`LaunchFairness` has all threads, and all children up to exec, keep running;
programs need neither write nor end.

**Deadlock** is checked except in two runs that may really stop: in
`failed_checks` the supervisor can panic and leave nobody to do anything
(`claim_exit_has_pid`), and `launch` ends when services are refused or all
programs have ended.

**Limits of what holds.** `NoPanic`, `AtMostOneInstance`, `FinishedMeansGone` and
`ImplementsLifecycle` are *not* claimed for services restarted after a ForceKill
(`claim_exit_has_pid` shows why; the property checked there is
`ShutdownTerminatesUnlessPanic`), `ShutdownAfterIsRespected` not for services that
are killed for another reason than a shutdown (a `Kill` decided on before the
shutdown and obeyed in it has not looked at `shutdown_after`, see section 5),
`StartAfterIsRespected` not where a dependency is restarted (it goes back to Initial
while what was started after it keeps running), `PidMapAgrees` not for pids reused *between*
services, and `ShutdownOnlyEscalates` not where the preparation of health checks
fails (both in section 4). `FailureSpreads` is checked for a failing service that
is not retried: a service whose fork keeps failing is retried for ever, since only
`ServiceExited` counts an attempt (`S/mod.rs:136`), and each failure sends the
services that die with it a new Kill, which restarts their grace period
(`S/mod.rs:212`); if they ignore SIGTERM and the failures come faster than
`termination.wait`, they are never killed. `MirrorAgrees` speaks of the moments
when no event is under way. `LogsAreComplete` promises nothing for a run whose files
another run writes too (section 4), `SpawnsReport` nothing for commands without
words, over which the spawner panics, and the second half of `LoadedTogether`
nothing when two services have one name.

## 4. Where the code differs from what is said of it

| Run | Said | Done |
|---|---|---|
| `claim_no_spawn` | `S/mod.rs:104`: shutting down, "no more services will be spawned" | a `Run` queued behind the shutdown is obeyed |
| `claim_exit_has_pid` | `pid.unwrap()` at `S/mod.rs:122` | ForceKill makes the service Failed while its process is still registered; after an immediate restart two exits meet one pid field and the second panics the supervisor |
| `claim_exit_noticed` | `docs/README.md:260,265`: Started and Running end with the process | a process reaped before its `PidChanged` is handled leaves its service Running for ever |
| `claim_check_stolen` | `.expect("Failed to execute command")` at `healthcheck/checks.rs:118` | the reaper's `waitpid(-1)` (`S/reaper.rs:21`) takes the child of a check, and the worker panics |
| `claim_exits` | `docs/README.md:182`: shutdown strategy: "exit Horust if this service has failed" | a client that has connected and says nothing keeps the commands handler reading (`commands_handler.rs:61`, `commands/src/server.rs:39`), its connector alive and Horust running |
| `claim_panic` | `signal_safe.rs:13`: "Prints s to stderr" | each write closes descriptor 2 after itself (`:32`), so only the first, the name of the service, appears |

More came up while modelling. They can be read off a few lines of the code and
have no run of their own:

- `docs/README.md:124` says that once the attempts are over a service is never
  restarted, also under always/on-failure; the attempts are only looked at under
  `never`.
- `docs/README.md:161` counts unhealthy checks *in a row*; a healthy check does
  not reset the count.
- `docs/README.md:263-264` has a killed service be Finished; a process that its
  SIGTERM ends counts as failed and finishes as FinishedFailed.
- `docs/README.md:94` gives `stdout-rotate-size` a default of 100 MB; unset, it is
  0, and nothing is rotated.
- `docs/README.md:95-96` recommends timestamps to avoid overwriting logs of
  earlier runs; they are in seconds, and a service restarted within one truncates
  its previous log, possibly while that is still being written.
- Two services of the same name: the supervisor keeps the last one, the monitor
  finds the first, and `validate` accepts both.
- With `ReusePids` and two services the pid of a reaped process can be handed to
  another service before the first `PidChanged` is handled, and both services
  claim it, although `S/reaper.rs:16-17` asks for isolation from the forks.
- A failed preparation of health checks sets the lifecycle to graceful
  (`S/mod.rs:182`) and queues a graceful `ShuttingDownInitiated`, which is obeyed
  even if a forceful shutdown (`docs/README.md:82`) was handled in between.

## 5. What is proved

The proofs hold for every set of services and pids, every configuration and
every bound. They assume what the modules state as `ASSUME`: services and pids
are finite sets, `Config` gives every service a `ServiceType`, `None` is neither
a service nor a pid, `ServiceOrder` lists every service, the bounds are natural
numbers, `None` is no client, the predefined variables are among `Variables`,
setups are `Setup`s, a command given on the command line yields a name and the
empty name is one, the words for a descriptor are not log files, log files that
cannot be opened are. TLC evaluates these on every run. A theorem that needs more
says so in its statement:

- `CleanRestarts`: every service has the default restart strategy, `never`
  without attempts (`Once`), or nothing but a shutdown kills it (`Calm`: it has no
  checks and no `die-if-failed`, and depends on no service with
  `kill-dependents`), whatever its strategy and its attempts. The configurations
  of `restarts` and `shutdown_order` are within this;
- `LastingDependencies`: what is named in a `start-after` is `Once`;
- `NoReuse`: the kernel hands out no pid twice;
- `PreparationsSucceed`: the preparation of health checks does not fail;
- `OnlyShutdownsKill`: services with `shutdown-after` are `Calm`.

### Supervision

- **`Typing`** (`HorustProofs`): `Spec => []TypeOK`. `TypeOK` is inductive as it
  stands because it carries what the steps need: a live or zombie process belongs
  to a service (so that its ways to end are defined), the counts of threads are
  naturals, every event in every queue is an `Event`, whose kind fixes its
  fields. One lemma per thread (`HandleEventType`, `IterationType`,
  `DispatchType`, `MonitorType`, `SpawnerType`, `WorkerType`,
  `EnvironmentType`), over lemmas about the operators (`KillAllType`,
  `ChangeStatusType`, `NextEventsType`, `DoneType`, ...).
- **`NoSpawnWhenForced`** (`ShutdownProofs`): `Spec => NothingSpawnedWhenForced`.
- **`Escalation`** (`ShutdownProofs`): `Spec => ShutdownOnlyEscalates`, if no
  preparation of health checks fails (`PreparationsSucceed`; without it the
  property is false, see section 4).

- **`OneInstance`**, **`FinalStatus`**, **`NothingLeft`** (`InstanceProofs`):
  `Spec => []AtMostOneInstance`, `Spec => FinishedIsFinal` and
  `Spec => []FinishedMeansGone`, if `CleanRestarts`. Pids may be reused.
- **`StartsInOrder`** (`OrderProofs`): `Spec => []StartAfterIsRespected`, if
  `CleanRestarts` and `LastingDependencies`.
- **`MapsAgree`**, **`NeverPanics`** (`OrderProofs`): `Spec => []PidMapAgrees` and
  `Spec => []NoPanic`, if `CleanRestarts` and `NoReuse`.
- **`StopsInOrder`**, **`Implements`** (`RefinementProofs`):
  `Spec => ShutdownAfterIsRespected` and `Spec => ImplementsLifecycle`, if
  `CleanRestarts`, `NoReuse`, `PreparationsSucceed` and `OnlyShutdownsKill`. The
  instance of `shutdown_order` is such a configuration.

`NoSpawnWhenForced` and `Escalation` share one argument. The `Run` arm of
`handle_event` does not look at the lifecycle, so what keeps a forceful shutdown
from spawning is the order of events alone: a `Run` (and a graceful `ShuttingDownInitiated`) is only *sent*
while the lifecycle is Running, a forceful one only when it is not, and the bus
is FIFO. The property itself says nothing about queues and is not inductive; the
invariant `FlowInv` is. While the supervisor is up: in `batch`, then the queue,
then the pipe, no early event stands behind a forceful shutdown (`InOrder`); no
forceful one is there while Horust is running (`GracefulComesFirst`); once it was
handled no early event is left (`NoneLeft`); the lists still to be sent hold no
forceful one, and no early one unless Horust is running and no longer handling
events (`SentWhileRunning`). It is proved per step: `FlowIngest`, `FlowHandle`,
`FlowProduce`, `FlowSent`, `FlowDispatch`, `FlowMonitor`, `FlowThreads`. TLC
confirmed `FlowInv` on the instance of `restarts`.

The three theorems of `InstanceProofs` share another one. None of the three
properties is inductive: they speak of threads, processes and statuses, while what
keeps them true is what is under way between these. A `Run` that is obeyed makes a
*token*, which is first a spawner thread, then a forked and unreported pid, then
an answer (`PidChanged` or `SpawnFailed`) in the pipe, the queue or the batch of
the supervisor (`course`). `InstanceInv` says of each service: there is at most one
token, in one of these places (`OneToken`, `Answered`); while it is there the
service is Starting or InKilling, its pid is unknown, and no exit, failure or
SIGKILL of it is under way (`TokenInv`); its only process is born with the token
and is the one the token, later the handler, names (`ProcessInv`); no exit is
under way while a process lives, no failure before the service has failed, and
what still lives when the service is over has a SIGKILL pending (`EndInv`); and
nobody sends the updates that have no business there (`Unsent`). The lemmas
say first what each kind of step does to the queues (`OnlyAdds`, `KeepsOrder`), then
what that means for a service (`ServiceKept`, `ServiceUntouched`, `TokenTaken`), then
there is one per action (`Step...`). The pids need not be fresh: the theorems include
that a pid is reused by another service.

A service that is started again adds the question of what its last life leaves
behind: an event that belongs to that life and is handled in the next one would break
the token. `RestartInv` says why there is none. The bus is FIFO, so it is about the
order of events in the `course` (`NoneBehind`), and about what the lists still to
be sent can hold in which phase. No `Run` stands behind the answer of a spawner
thread, and no failure behind a `Run`, so a `Run` that is sent twice because the bus
lags is dropped before anything of the start it would repeat can end (`RunInv`). The
update that makes a service ready again stands behind no `Run`, no exit stands
behind it, and while it is under way the service has no token, no pid and no process
(`AgainInv`). And a service that is not `Once` is InKilling, or has a kill under
way, only when a shutdown has begun, after which nothing starts again (`CalmInv`);
that no failed check of it can be behind such a kill is `HealthInv`.

That a kill belongs to the life it was meant for is what the code does not ensure in
general: a service that is killed by force *outside* a shutdown, because its
checks have failed or another service has, and is then restarted can have two
instances (`claim_exit_has_pid`). So `Calm` cannot be dropped for the first and the
third theorem. For `FinalStatus` it is what the argument uses. TLC confirmed
`InstanceInv`, before it was proved, on five instances with one and with two
services, with and without restarts, and with pids reused.

`StartsInOrder` adds `OrderInv` to that. `StartAfterIsRespected` compares a fork
with the statuses of other services, but `next` looked at these when it produced
the `Run`, and from there on nothing looks again. The invariant has the
dependencies beyond Started all along the way: while the `Run` is among the lists
to be sent, in a queue or in the batch, while the token is under way, and while the
process lives. Two facts make it inductive. Nothing goes back: a service that is
`Once` and is beyond Started stays there (`NeverBack`), which is where
`LastingDependencies` is used; a dependency that is restarted goes back to Initial
while what was started after it keeps running. And a `Run` has one
origin: of all the steps that add events only `Produce` adds one (`Origin`), of a
service whose `start-after` it has just looked at.

`MapsAgree` and `NeverPanics` add `PidInv`: a pid has one holder at a time, the
thread that forked it, the `PidChanged` that reports it, or the handler, and is in
the map exactly when the handler has it (`HolderInv`); and an exit is told once,
while the handler still has the pid of a process that was reaped (`ExitInv`). So
the `pid.unwrap()` of the `ServiceExited` arm finds a pid because the reaper only
reports pids that are in the map, finds each of them once, and what it reports
stays in the map and with the handler until the report arrives. With pids reused the argument breaks where section 4
says it does, and a health check's child may be handed the pid that a service has
just had.

`StopsInOrder` adds `StopInv`. As with the start, `shutdown_after` is looked at when
`next` produces the `Kill`, and the signal is sent later: by the `Kill` arm, or, if
the pid was not known yet, by the `PidChanged` arm. So the invariant carries what
was seen: from the moment a kill of `s` is decided on, in the lists, the queue and
the batch, and while `s` is InKilling, all that `s` is to outlive has finished
(`KillInv`). What starts it is the origin of the `Kill` (`Produce` in a graceful
shutdown, having looked); what keeps it is that a service that has finished stays
so (`StaysFinished`), and what it leaves behind has a SIGKILL pending
(`EndInv`). `OwnerInv` says that the pid that is signalled is the one of a process
of the service; `HealthInv`, that a service without checks has not failed any.
`OnlyShutdownsKill` is needed: a `Kill` that was decided on while Horust was
Running, because of failed checks or of another service's failure, did not look at
`shutdown_after`, and may be obeyed when a graceful shutdown has begun. Without
the assumption TLC finds that behaviour, in a configuration with checks and one in
which the services fail together.

`Implements` is the refinement of `Lifecycle`, one abstract step or none for every
step of the code. Its core is that an instance is always in one of the
abstract states: never a spawner and a process, nor two processes, of one service
(`Shape`, from `InstanceInv`). Then each action is given what it does to an instance
(`OnlyInstance` and `NoMove`: at most one service moves, in one step of its own):
`Run` makes it due (`RunImplements`), a thread makes it appear or gives up
(`SpawnerImplements`), the reaper or an exit makes it vanish (`ExitImplements`), the
`Kill` and `PidChanged` arms ask it to end (`TermImplements`, which is where
`KillInv` is used), and `ForceKill` dooms it (`KillImplements`). The last one is the
hard one: SIGKILL is sent by an event that was decided on when a grace period ended,
and that it comes after SIGTERM is `GraceInv`: in InKilling a grace period is
running only if the signal has been sent, and a `ForceKill` outside a forceful
shutdown is under way only after that. The grace period is one of the fields that a
restart does not reset, so `GraceInv` also says that none was ever started for
a service that may still be started again (`MayRestart`), which is told to be ready
only while the others run (`ReadiedNow`). That a service is over when nothing but a
doomed process is left is `EndInv` again, that the shutdown only gets stronger and
never spawns when forceful is `FlowInv`. TLC confirmed `StopInv` on the instance of
`shutdown_order`.

### Commands

- **`CommandsTyping`** (`CommandsProofs`): `SpecAll => []AllTypeOK`.
- **`CommandsMirror`** (`CommandsProofs`): `SpecAll => []MirrorAgrees`, for all
  services, also restarted ones, and any lag of the bus.

`MirrorAgrees` is about the moments when no event is under way. In between, the
copy is behind, and not always by the events that would catch up: a failed spawn
changes the status and announces nothing, a forced kill is announced before it is
carried out and once more when it is, and when the bus lags behind a decision is
taken, and sent, twice. The
inductive invariant `MirrorInv` therefore speaks of what the commands handler
*will have been told* when the queue, the pipe and the lists to be sent have come,
the last announcement of a service winning (`WillBeTold`). It is the status of
the service (`RightlyTold`), but for three cases: the service is Failed, then
a `StatusUpdate` that takes it on is under way (`GoesOn`); it is InKilling and
already announced as Failed, then the `ForceKill` is; or a shutdown has been or
will be heard, which ends the commands handler. When nothing is under way the first
two are excluded and the last one means that nobody is answered any more. The
lemmas say what putting an event into a queue, or taking it out, does to what will
be told (`ToldAtEnd`, `ToldAtHead`, `ToldBefore`, ...); then there is one per kind
of step (`MirrorHandle`, `MirrorProduce`, `MirrorDispatch`, ...). TLC confirmed
`MirrorInv` on the instance of `commands` and on one with a service that is killed
by force and restarted while the dispatcher lags behind.

### Launch

- **`Output`** (`LaunchProofs`): `LaunchSpec => []OutputGoesWhereToldTo`.
- **`DocumentedEnvironment`**: `LaunchSpec => []EnvironmentIsDocumented`, from the
  lemma `EnvironmentDocumented` on `GetEnvironment` alone.
- **`NoBrokenPipe`**: `LaunchSpec => []BrokenPipeOnlyWithoutLog`.
- **`Dependencies`**, **`Together`**: `LaunchSpec => []DependenciesExist` and
  `LaunchSpec => []LoadedTogether`.
- **`LaunchTyping`**, **`CompleteLogs`**: `LaunchSpec => []LaunchTypeOK` and
  `LaunchSpec => []LogsAreComplete`.
- **`DecimalErrno`**: `LaunchSpec => []ErrnoIsDecimal`.

The first three follow from one inductive invariant, `LaunchInv`: before the
services are loaded nothing has begun, and `RunInv` holds of every run. `RunInv`
gives the descriptors of a child at each of its stages (`FdsAreRight`), the
environment of a running one (`EnvironmentIsComputed`), and who holds the ends of
its pipe (`PipeIsHeld`): the process of Horust from the creation to the fork, then
the child the write end as long as it lives, and Horust the read end, unless the
log cannot be written. `BrokenPipeOnlyWithoutLog` by itself does not say why the
log writer does not give up early: end of file needs the write end closed
everywhere, and the living program has it. Whatever other children inherit does
not matter for this direction, which is why it can be proved run by run
(`Elsewhere`, `OneRun`), with a lemma per action.

The next two follow from `LoadInv`. No file gets lost between the directories and
the list (`NothingLost`): the names loaded and the names still waiting are those
of all paths looked at so far. The rest is about `Repo`, which keeps of every name
the service that was loaded last: that there is a last one is `MaxIsGreatest`
(`NumberProofs`), from the theorem of the library that the order of the naturals
is well-founded, which does not need an induction of our own.

The typing and the logs need `WritingInv` besides. It ties the bytes of a run in its four
places (written by the program, in the pipe, in the buffer, in the files) to each
other: nothing is lost between them, chunks before the current one have exactly
their size, the current one not more, later ones are empty (`WriterInv`,
`FilesAreRight`). `LogsAreComplete` alone only speaks of writers that have ended;
what carries it is the count at every step of one that has not, and that no two
runs whose files differ touch each other's.

The last one is about what a recursive function computes for *every* number, an
induction over the digits, which the provers cannot take from the library. It is
done by hand, as a least counterexample (`Least`, `NumberProofs`): a function that
satisfies the recursive equation exists up to every n (`SomethingSpells`), all of
them agree (`SpellsAlike`), so `DigitsOf` unfolds (`DigitsUnfold`); the same for the
fold that reads digits from the left (`SomethingAddsUp`, `ReadFromTheLeft`). Then
each number is spelled well because its tenth is (`AllWellSpelled`), and read
backwards its digits give it back (`DigitsGiveNumber`), with a sign and for 0 as well
(`Written`).

### Only model-checked

- Liveness under fairness (`ShutdownTerminates`, `FailureSpreads`,
  `FailureShutsDown`, `RequestsAreAnswered`, `ShutdownEndsCommands`,
  `SpawnsReport`, `WritersEnd`, ...) is outside TLAPS.
- Nothing is proved of services that are both restarted and killed outside
  shutdowns but what needs no `CleanRestarts` (`Typing`, `NoSpawnWhenForced`,
  `Escalation`, `CommandsMirror`): most of the rest does not hold for them
  (section 3, limits).
- `NoPanic`, `PidMapAgrees`, `ShutdownAfterIsRespected` and the refinement where one
  service reuses pids (`restarts`).
- The refinement where services go down with each other or prepare in vain
  (`failures_spread`).

## 6. Not modelled, and the plan

Not modelled, and why:

- *Resource limits*: cgroup files are written after the fork, a failure is logged
  and changes nothing else.
- *The outcome of checks*: HTTP and the file system are the outside world;
  whether a check succeeds, and whether its preparation fails, is a free choice.
- *Parsing*: TOML, templates, durations, sizes, signal names, and the
  configuration file of Horust. A service file either parses or does not.
- *The exit status of Horust, `--sample-service`, the creation of the socket
  folder*: plain input and output.
- *Connectors of users of the library* (`get_bus`): no code here reads them.
- *The encoding of the protocol* between horustctl and the commands handler.
- *Writes to an open log file that fail*, and `chdir`, `setsid`, `setuid` one by
  one: they are one step with `execve`, which may fail.

Order of work, most important first:

1. *(done)* `Formats`, `Bus`, `Processes`, `ServiceHandler`, `Supervisor`,
   `Healthcheck`, `Horust`: the supervision core, its safety and liveness.
2. *(done)* `Typing`, and the theorems of `ShutdownProofs`.
3. *(done)* `CommandsHandler`, `HorustCommands`.
4. *(done)* `Lifecycle`, and its refinement by `Horust`.
5. *(done)* `Environment`, `Loading`, `Spawning`, `SignalSafe`, `Launch`, and the
   theorems of `LaunchProofs`; command checks in `Healthcheck`.
6. `Broadcast`: an abstract bus (one log, a position per connector) refined by
   `Bus`.
7. Cycles: `validate` accepts them; a start-after cycle never starts, a
   shutdown-after cycle stops only when forced.
8. *(done)* `InstanceProofs`.
9. *(done)* `OrderProofs`, on top of `InstanceInv`;
   `CommandsProofs`; loading and writing in `LaunchProofs`.
10. *(done)* `RefinementProofs`: the order of shutdowns, and the refinement of
   `Lifecycle` step by step.
11. *(done)* The theorems of `InstanceProofs`, `OrderProofs` and
   `RefinementProofs` also for services that are restarted, but killed by shutdowns
   alone.
12. `MapsAgree` and `NeverPanics` for pids that one service reuses: the window of
   section 4 is between two services.

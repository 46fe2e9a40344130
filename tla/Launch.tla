------------------------------- MODULE Launch -------------------------------
(***************************************************************************)
(* Horust from its command line to the running programs: the services are  *)
(* loaded, and then spawned concurrently, each by a thread of its own.  In *)
(* which order and how often the supervisor has them spawned is the        *)
(* business of Horust.tla; here any order will do.                         *)
(***************************************************************************)
EXTENDS Spawning

launchVars == <<loadingVars, spawningVars>>

LaunchInit == LoadingInit /\ SpawningInit

LoadingThread == LoadingStep /\ UNCHANGED spawningVars

BeginsRun(r) == BeginRun(r) /\ UNCHANGED loadingVars
SpawnThread(r) == SpawnStep(r) /\ UNCHANGED loadingVars
ChildProcess(r) == ChildStep(r) /\ UNCHANGED loadingVars
Program(r) == ProgramStep(r) /\ UNCHANGED loadingVars
WriterThread(r) == WriterStep(r) /\ UNCHANGED loadingVars

LaunchNext ==
  \/ LoadingThread
  \/ /\ stage = "running"
     /\ \E r \in Runs : BeginsRun(r)
  \/ \E r \in Begun :
       SpawnThread(r) \/ ChildProcess(r) \/ Program(r) \/ WriterThread(r)

LaunchSpec == LaunchInit /\ [][LaunchNext]_launchVars

(* All threads and all children up to exec keep running.  A program need   *)
(* not write anything, nor end.                                            *)
LaunchFairness ==
  /\ WF_launchVars(LoadingThread)
  /\ WF_launchVars(\E r \in Begun : SpawnThread(r))
  /\ WF_launchVars(\E r \in Begun : ChildProcess(r))
  /\ WF_launchVars(\E r \in Begun : WriterThread(r))

FairLaunchSpec == LaunchSpec /\ LaunchFairness

LaunchTypeOK ==
  /\ setup \in Setups
  /\ fetched \in 0..Len(setup.paths)
  /\ stage \in {"loading", "running", "refused"}
  /\ SpawningTypeOK

-----------------------------------------------------------------------------
(* Properties of loading                                                   *)

LoadsServices == stage = "running" /\ setup.command = "none"

(* What runs has its dependencies: every name of a start-after and of a    *)
(* shutdown-after belongs to a service of the repo, also when the service  *)
(* that was looked at by validate is not the one of its name that the repo *)
(* has kept.  Repo::get_mut_sh unwraps on the strength of this.            *)
DependenciesExist ==
  stage = "running" =>
    \A n \in DOMAIN Repo :
      /\ Repo[n].start_after \cup Repo[n].shutdown_after \subseteq DOMAIN Repo
      /\ LoadsServices => n # NoName

(* docs/README.md:311-317: the services of all paths are treated as if     *)
(* they were in a single directory.  As long as no two have the same name, *)
(* which services there are, and what they are, does not depend on how     *)
(* they are spread, and the monitor works with the same ones as the        *)
(* supervisor.                                                             *)
LoadedTogether ==
  LoadsServices =>
    LET files == UNION {ToSet(setup.paths[k].files) : k \in DOMAIN setup.paths}
        names == {Named(f).name : f \in {g \in files : g.toml /\ g.parses}}
    IN /\ DOMAIN Repo = names
       /\ Len(loaded) = Cardinality(names) =>
            \A n \in names : GetService(n) = Repo[n]

-----------------------------------------------------------------------------
(* Properties of spawning                                                  *)

(* A program's output goes where its .toml file says, STDERR being the     *)
(* standard error of Horust, and STDOUT as the target of stderr what the   *)
(* program's standard output is: neither redirection spoils the other.     *)
OutputGoesWhereToldTo ==
  \A r \in Begun : child[r].state = "running" =>
    LET s == SettingsOf(r)
        out == IF s.rotate > 0 THEN "pipe" ELSE s.stdout
    IN child[r].fds = <<out, IF s.stderr = "STDOUT" THEN out ELSE s.stderr>>

(* The environment of a program is the one the documentation describes.    *)
EnvironmentIsDocumented ==
  \A r \in Begun : child[r].state = "running" =>
    Documented(SettingsOf(r).environment, child[r].environment)

(* Nobody else writes log files of the names that run r uses.              *)
HasItsOwnFiles(r) ==
  \A q \in Begun \ {r} :
    writer[q].chunk > 0 => [ChunkName(q) EXCEPT !.count = writer[r].chunk]
                             # ChunkName(r)

(* A log is complete when its writer has ended: every byte the program     *)
(* wrote is there, in chunks of exactly the size asked for but the last,   *)
(* which is shorter, be it empty; unless another run of the service, or    *)
(* another service, has truncated the files for its own use.               *)
LogsAreComplete ==
  \A r \in Begun : writer[r].state = "ended" /\ HasItsOwnFiles(r) =>
    LET size == SettingsOf(r).rotate
        bytes == writer[r].written
    IN /\ writer[r].chunk = (bytes \div size) + 1
       /\ \A k \in 0..(bytes \div size) :
            file[[ChunkName(r) EXCEPT !.count = k]][r] =
              Min({size, bytes - k * size})

(* A program whose log can be written is never killed by writing to it:    *)
(* the log writer outlives it.                                             *)
BrokenPipeOnlyWithoutLog ==
  \A r \in Begun : child[r].code = 141 =>
    SettingsOf(r).stdout \notin LogPaths \ Unopenable

(* i32_to_str_bytes turns the error number of a failed child into its      *)
(* decimal digits: read from the left they amount to it, and the first is  *)
(* 0 for 0 only.                                                           *)
ErrnoIsDecimal ==
  \A r \in Begun :
    LET n == child[r].errno
        text == I32ToStrBytes(n)
        digits == IF n < 0 THEN Tail(text) ELSE text
        size == FoldLeft(LAMBDA v, d : 10 * v + d, 0, digits)
    IN /\ Len(digits) > 0
       /\ digits[1] = 0 => n = 0
       /\ n = IF n < 0 /\ text[1] = "-" THEN -size ELSE size

(* Every spawner thread reports a pid or a failure, without which the      *)
(* service stays in Starting for ever; but for a command without words,    *)
(* over which it panics.                                                   *)
SpawnsReport ==
  []<>(\A r \in Begun : \/ thread[r] \in {"reported", "failed"}
                         \/ Repo[r[1]].command \in {"empty", "blank"})

(* Once all programs have ended, whatever pipe ends they had inherited of  *)
(* each other, every log writer ends and no end of a pipe is left open.    *)
WritersEnd ==
  <>[](\A r \in Begun : thread[r] \in {"failed", "panicked"} \/ Dead(r))
    => <>[](/\ ends = {}
            /\ \A r \in Begun : writer[r].state \notin {"starting", "copying"})

-----------------------------------------------------------------------------
(* signal_safe.rs:13: "Async-signal-safe panic. Prints s to stderr, and    *)
(* exit with status as code."  The first write closes file descriptor 2:   *)
(* the name of the service is printed, and the message is not.             *)
PanicPrintsItsMessage ==
  \A r \in Begun : child[r].code \in 101..103 =>
    Message(child[r].code) \in ToSet(child[r].text)

=============================================================================

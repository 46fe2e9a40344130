------------------------------ MODULE Spawning ------------------------------
(***************************************************************************)
(* horust/src/horust/supervisor/process_spawner.rs, in detail: what the    *)
(* thread that spawns a service does once its delay is over, what the      *)
(* child does between fork and exec, and the thread that writes the output *)
(* of a service to log files of limited size.  The threads run             *)
(* concurrently in one process, and every child inherits the pipe ends     *)
(* which that process holds at the time: pipe(2) is called without         *)
(* O_CLOEXEC.                                                              *)
(***************************************************************************)
EXTENDS Loading, SignalSafe

CONSTANTS MaxRuns,    \* bound: how often services are spawned
          MaxBytes,   \* bound: how many bytes a program writes
          PipeSize,   \* how many bytes a pipe holds
          Unopenable, \* log files that cannot be opened
          Errnos      \* error numbers a failing system call may return

ASSUME SpawningAssumption ==
  /\ MaxRuns \in Nat /\ MaxBytes \in Nat /\ PipeSize \in Nat \ {0}
  /\ Unopenable \subseteq LogPaths
  /\ Errnos \subseteq Int

(* The k-th time service n is spawned.                                     *)
Runs == {<<n, k>> : n \in NamesOf(loaded), k \in 1..MaxRuns}
SettingsOf(r) == Repo[r[1]].settings

VARIABLES thread, \* the spawner threads of the runs that have begun
          child,  \* their children
          ends,   \* the ends of pipes the process of Horust holds
          writer, \* the log writer threads and their pipes
          file    \* the log files: how many bytes of which run are in them

spawningVars == <<thread, child, ends, writer, file>>

(* Functions of the runs that have begun; a pipe is named by its run.      *)
Begun == DOMAIN thread
PipeEnds(r) == {<<r, "read">>, <<r, "write">>}

(* The function of r alone.                                                *)
Only(r, value) == [q \in {r} |-> value]

NewChild ==
  [state |-> "unborn", fds |-> <<"STDOUT", "STDERR">>, ends |-> {},
   environment |-> <<>>, code |-> 0, errno |-> 0, text |-> <<>>]

NewWriter ==
  [state |-> "none", pipe |-> 0, buffer |-> 0, written |-> 0, stamp |-> 0,
   chunk |-> 0, filled |-> 0]

SpawningTypeOK ==
  /\ thread \in [Begun -> {"ready", "piped", "forked", "reported", "failed",
                           "panicked"}]
  /\ \A r \in Begun :
       /\ child[r].state \in {"unborn", "born", "redirecting", "redirected",
                              "running", "exited"}
       /\ writer[r].state \in {"none", "starting", "copying", "ended",
                               "failed"}
       /\ writer[r].pipe \in 0..PipeSize /\ writer[r].buffer \in 0..PipeSize
       /\ writer[r].filled \in 0..SettingsOf(r).rotate
       /\ child[r].ends \subseteq UNION {PipeEnds(q) : q \in Begun}
  /\ ends \subseteq UNION {PipeEnds(q) : q \in Begun}

SpawningInit ==
  thread = <<>> /\ child = <<>> /\ ends = {} /\ writer = <<>> /\ file = <<>>

Rotates(r) == SettingsOf(r).rotate > 0
Dead(r) == child[r].state = "exited"

(* Somebody may still write into, or read from, the pipe of run r.         *)
Holders(e) == {q \in Begun : e \in child[q].ends}
WriteEndOpen(r) == <<r, "write">> \in ends \/ Holders(<<r, "write">>) # {}
ReadEndOpen(r)  == <<r, "read">> \in ends \/ Holders(<<r, "read">>) # {}

-----------------------------------------------------------------------------
(* The spawner thread: spawn_process                                       *)

(* A service is spawned again only after its previous process has ended,   *)
(* or could not be spawned.                                                *)
BeginRun(r) ==
  /\ r \notin Begun /\ Cardinality(Begun) < MaxRuns
  /\ r[2] > 1 => LET previous == <<r[1], r[2] - 1>>
                 IN /\ previous \in Begun
                    /\ thread[previous] = "failed" \/ Dead(previous)
  /\ thread' = Extended(thread, Only(r, "ready"))
  /\ child' = Extended(child, Only(r, NewChild))
  /\ writer' = Extended(writer, Only(r, NewWriter))
  /\ UNCHANGED <<ends, file>>

(* Variation: the program that is not found is unwrapped, too.             *)
UnwrapsProgram(r) ==
  /\ thread[r] = "ready"
  /\ \/ /\ Repo[r[1]].command \in {"empty", "blank", "unknown"}
        /\ thread' = [thread EXCEPT ![r] = "panicked"]
     \/ /\ \/ Repo[r[1]].command = "unparsable"
           \/ Repo[r[1]].command = "program" /\ ~SettingsOf(r).user_known
        /\ thread' = [thread EXCEPT ![r] = "failed"]
  /\ UNCHANGED <<child, ends, writer, file>>

(* exec_args and get_uid: an error is reported; the unwrap() of the first  *)
(* word of a command without words ends the thread without a report.       *)
PrepareFails(r) ==
  /\ thread[r] = "ready"
  /\ \/ /\ Repo[r[1]].command \in {"empty", "blank"}
        /\ thread' = [thread EXCEPT ![r] = "panicked"]
     \/ /\ \/ Repo[r[1]].command \in {"unparsable", "unknown"}
           \/ Repo[r[1]].command = "program" /\ ~SettingsOf(r).user_known
        /\ thread' = [thread EXCEPT ![r] = "failed"]
  /\ UNCHANGED <<child, ends, writer, file>>

Prepared(r) == Repo[r[1]].command = "program" /\ SettingsOf(r).user_known

CreatePipe(r) ==
  /\ thread[r] = "ready" /\ Prepared(r) /\ Rotates(r)
  /\ ends' = ends \cup PipeEnds(r)
  /\ thread' = [thread EXCEPT ![r] = "piped"]
  /\ UNCHANGED <<child, writer, file>>

(* pipe(2) or fork(2) fails; the ends of the pipe are dropped.             *)
SpawnFails(r) ==
  /\ \/ thread[r] = "piped"
     \/ thread[r] = "ready" /\ Prepared(r)
  /\ thread' = [thread EXCEPT ![r] = "failed"]
  /\ ends' = ends \ PipeEnds(r)
  /\ UNCHANGED <<child, writer, file>>

(* The child drops its copy of the end it does not need.                   *)
ForkChild(r) ==
  /\ \/ thread[r] = "piped"
     \/ thread[r] = "ready" /\ Prepared(r) /\ ~Rotates(r)
  /\ child' = [child EXCEPT ![r].state = "born",
                            ![r].ends = ends \ {<<r, "read">>}]
  /\ thread' = [thread EXCEPT ![r] = "forked"]
  /\ UNCHANGED <<ends, writer, file>>

(* Variation: the parent keeps its write end.                              *)
ParentKeepsEnd(r) ==
  /\ thread[r] = "forked"
  /\ thread' = [thread EXCEPT ![r] = "reported"]
  /\ writer' = IF Rotates(r) THEN [writer EXCEPT ![r].state = "starting"]
                             ELSE writer
  /\ UNCHANGED <<child, file, ends>>

(* The parent drops its write end, starts the writer with the read end and *)
(* reports the pid.                                                        *)
ParentGoesOn(r) ==
  /\ thread[r] = "forked"
  /\ ends' = ends \ {<<r, "write">>}
  /\ thread' = [thread EXCEPT ![r] = "reported"]
  /\ writer' = IF Rotates(r) THEN [writer EXCEPT ![r].state = "starting"]
                             ELSE writer
  /\ UNCHANGED <<child, file>>

SpawnStep(r) ==
  \/ PrepareFails(r) \/ CreatePipe(r) \/ SpawnFails(r)
  \/ ForkChild(r) \/ ParentGoesOn(r)

-----------------------------------------------------------------------------
(* The child: child_process_main                                           *)

(* panic_ssafe: the reason on standard error, the code as exit status.     *)
Message(code) ==
  CASE code = 101 -> "Redirect stdout failed."
    [] code = 102 -> "Redirect stderr failed."
    [] code = 103 -> "Failed to exec the new process."

Panics(r, code) ==
  \E errno \in Errnos :
    child' = [child EXCEPT
                ![r].state = "exited", ![r].ends = {},
                ![r].code = code, ![r].errno = errno,
                ![r].text = PanicText(r[1], Message(code), errno)]

(* Variation: STDOUT is Horust's own, whatever stdout is by now.           *)
ToOriginal(fds, fd, target) == [fds EXCEPT ![fd] = target]

(* redirect_output: what the descriptor fd becomes for the target, given   *)
(* the descriptors as they are.                                            *)
Redirected(fds, fd, target) ==
  [fds EXCEPT ![fd] = CASE target = "STDOUT"               -> fds[1]
                        [] target = "STDERR"               -> fds[2]
                        [] OTHER                           -> target]

RedirectStdout(r) ==
  LET target == SettingsOf(r).stdout IN
  /\ child[r].state = "born"
  /\ IF target \in Unopenable /\ ~Rotates(r)
       THEN Panics(r, 101)
       ELSE child' = [child EXCEPT
              ![r].state = "redirecting",
              ![r].fds = IF Rotates(r) THEN [@ EXCEPT ![1] = "pipe"]
                                       ELSE Redirected(@, 1, target)]
  /\ UNCHANGED <<thread, ends, writer, file>>

RedirectStderr(r) ==
  LET target == SettingsOf(r).stderr IN
  /\ child[r].state = "redirecting"
  /\ IF target \in Unopenable
       THEN Panics(r, 102)
       ELSE child' = [child EXCEPT ![r].state = "redirected",
                                   ![r].fds = Redirected(@, 2, target)]
  /\ UNCHANGED <<thread, ends, writer, file>>

Exec(r) ==
  /\ child[r].state = "redirected"
  /\ IF ~SettingsOf(r).executable
       THEN Panics(r, 103)
       ELSE child' = [child EXCEPT
              ![r].state = "running",
              ![r].environment = GetEnvironment(SettingsOf(r).environment)]
  /\ UNCHANGED <<thread, ends, writer, file>>

ChildStep(r) == RedirectStdout(r) \/ RedirectStderr(r) \/ Exec(r)

-----------------------------------------------------------------------------
(* The program: external to the repository.  It writes to its standard     *)
(* output, and is ended by SIGPIPE when nobody can read that any more.     *)

ProgramWrites(r) ==
  /\ child[r].state = "running" /\ child[r].fds[1] = "pipe"
  /\ writer[r].written < MaxBytes
  /\ \/ /\ ReadEndOpen(r) /\ writer[r].pipe < PipeSize
        /\ writer' = [writer EXCEPT ![r].written = @ + 1, ![r].pipe = @ + 1]
        /\ UNCHANGED child
     \/ /\ ~ReadEndOpen(r)
        /\ child' = [child EXCEPT ![r].state = "exited", ![r].ends = {},
                                  ![r].code = 141]
        /\ UNCHANGED writer
  /\ UNCHANGED <<thread, ends, file>>

ProgramExits(r) ==
  /\ child[r].state = "running"
  /\ child' = [child EXCEPT ![r].state = "exited", ![r].ends = {}]
  /\ UNCHANGED <<thread, ends, writer, file>>

ProgramStep(r) == ProgramWrites(r) \/ ProgramExits(r)

-----------------------------------------------------------------------------
(* The log writer: chunked_writer                                          *)

WriterStops(r, state) ==
  /\ writer' = [writer EXCEPT ![r].state = state]
  /\ ends' = ends \ {<<r, "read">>}

(* Only a path can be rotated.                                             *)
WriterHasNoPath(r) ==
  /\ writer[r].state = "starting"
  /\ SettingsOf(r).stdout \notin LogPaths
  /\ WriterStops(r, "failed")
  /\ UNCHANGED <<thread, child, file>>

(* The timestamp is in seconds: writers of a service may share one, but it *)
(* never goes back from one that starts to the next.                       *)
WriterStarts(r) ==
  /\ writer[r].state = "starting"
  /\ SettingsOf(r).stdout \in LogPaths
  /\ \E now \in 1..MaxRuns :
       /\ \A q \in Begun : q[1] = r[1] => writer[q].stamp <= now
       /\ writer' = [writer EXCEPT ![r].state = "copying", ![r].stamp = now]
  /\ UNCHANGED <<thread, child, ends, file>>

(* The name of the next chunk of run r.                                    *)
ChunkName(r) ==
  [path |-> SettingsOf(r).stdout,
   stamp |-> IF SettingsOf(r).stamped THEN writer[r].stamp ELSE 0,
   count |-> writer[r].chunk]

(* The chunk that is being filled was opened before it was counted.        *)
CurrentChunk(r) == [ChunkName(r) EXCEPT !.count = @ - 1]

ChunkOpen(r) == writer[r].chunk > 0 /\ writer[r].filled < SettingsOf(r).rotate

(* Every chunk is truncated when it is opened.                             *)
OpenNextChunk(r) ==
  /\ writer[r].state = "copying"
  /\ ~ChunkOpen(r)
  /\ \/ /\ SettingsOf(r).stdout \in Unopenable
        /\ WriterStops(r, "failed")
        /\ UNCHANGED file
     \/ /\ SettingsOf(r).stdout \notin Unopenable
        /\ file' = Extended(file, Only(ChunkName(r), Only(r, 0)))
        /\ writer' = [writer EXCEPT ![r].chunk = @ + 1, ![r].filled = 0]
        /\ UNCHANGED ends
  /\ UNCHANGED <<thread, child>>

(* The BufReader takes what the pipe holds.                                *)
FillBuffer(r) ==
  /\ writer[r].state = "copying" /\ ChunkOpen(r)
  /\ writer[r].buffer = 0 /\ writer[r].pipe > 0
  /\ writer' = [writer EXCEPT ![r].buffer = writer[r].pipe, ![r].pipe = 0]
  /\ UNCHANGED <<thread, child, ends, file>>

(* How many bytes of run r a file holds.                                   *)
BytesOf(r, contents) == IF r \in DOMAIN contents THEN contents[r] ELSE 0

(* Variation: the reader is not capped.                                    *)
CopyEverything(r) ==
  /\ writer[r].state = "copying" /\ ChunkOpen(r)
  /\ writer[r].buffer > 0
  /\ writer' = [writer EXCEPT ![r].buffer = 0,
                              ![r].filled = @ + writer[r].buffer]
  /\ file' = [file EXCEPT ![CurrentChunk(r)] =
                Extended(@, Only(r, writer[r].buffer + BytesOf(r, @)))]
  /\ UNCHANGED <<thread, child, ends>>

(* Variation: every chunk has a BufReader of its own.                      *)
CopyAndForget(r) ==
  /\ writer[r].state = "copying" /\ ChunkOpen(r)
  /\ writer[r].buffer > 0
  /\ LET room == SettingsOf(r).rotate - writer[r].filled
         n == Min({room, writer[r].buffer})
     IN /\ writer' = [writer EXCEPT
                         ![r].buffer = IF n = room THEN 0 ELSE @ - n,
                         ![r].filled = @ + n]
        /\ file' = [file EXCEPT ![CurrentChunk(r)] =
                      Extended(@, Only(r, n + BytesOf(r, @)))]
  /\ UNCHANGED <<thread, child, ends>>

(* io::copy, up to the size of a chunk; where the bytes of two runs that   *)
(* write to one file lie in it is left out.                                *)
Copy(r) ==
  /\ writer[r].state = "copying" /\ ChunkOpen(r)
  /\ writer[r].buffer > 0
  /\ LET n == Min({SettingsOf(r).rotate - writer[r].filled, writer[r].buffer})
     IN /\ writer' = [writer EXCEPT ![r].buffer = @ - n, ![r].filled = @ + n]
        /\ file' = [file EXCEPT ![CurrentChunk(r)] =
                      Extended(@, Only(r, n + BytesOf(r, @)))]
  /\ UNCHANGED <<thread, child, ends>>

(* Variation: an empty pipe is taken for the end of file.                  *)
EndOnEmptyPipe(r) ==
  /\ writer[r].state = "copying" /\ ChunkOpen(r)
  /\ writer[r].buffer = 0 /\ writer[r].pipe = 0
  /\ WriterStops(r, "ended")
  /\ UNCHANGED <<thread, child, file>>

EndOfFile(r) ==
  /\ writer[r].state = "copying" /\ ChunkOpen(r)
  /\ writer[r].buffer = 0 /\ writer[r].pipe = 0 /\ ~WriteEndOpen(r)
  /\ WriterStops(r, "ended")
  /\ UNCHANGED <<thread, child, file>>

WriterStep(r) ==
  \/ WriterHasNoPath(r) \/ WriterStarts(r) \/ OpenNextChunk(r)
  \/ FillBuffer(r) \/ Copy(r) \/ EndOfFile(r)

=============================================================================

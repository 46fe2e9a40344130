----------------------------- MODULE Processes -----------------------------
(***************************************************************************)
(* The operating system as the code uses it through nix: fork, kill,       *)
(* waitpid.  External to the repository.  A pid is free, names a live      *)
(* child, or names a zombie until the reaper collects it; a collected pid  *)
(* can be handed out again only when ReusePids holds.  A child runs the    *)
(* program of its service, or the command of one of its health checks.     *)
(***************************************************************************)
EXTENDS Formats

CONSTANT ReusePids
ASSUME ReusePidsAssumption == ReusePids \in BOOLEAN

VARIABLE proc  \* proc[p]: the process table

Unborn == [state |-> "free", owner |-> None, role |-> "service",
           sig |-> "none", ok |-> FALSE]
Gone   == IF ReusePids THEN Unborn ELSE [Unborn EXCEPT !.state = "reaped"]

Process ==
  [state : {"alive", "zombie"}, owner : Services,
   role : {"service", "check"}, sig : {"none", "term", "kill"}, ok : BOOLEAN]
    \cup [state : {"free", "reaped"}, owner : {None}, role : {"service"},
          sig : {"none"}, ok : {FALSE}]

ProcessesTypeOK == proc \in [Pids -> Process]

ProcessesInit == proc = [p \in Pids |-> Unborn]

FreePids == {p \in Pids : proc[p].state = "free"}
Alive(s) == {p \in Pids : /\ proc[p].state = "alive" /\ proc[p].owner = s
                          /\ proc[p].role = "service"}
Zombies  == {p \in Pids : proc[p].state = "zombie"}

Fork(s, p, role) ==
  /\ p \in FreePids
  /\ proc' = [proc EXCEPT ![p].state = "alive", ![p].owner = s,
                          ![p].role = role]

(* kill(2): ESRCH when the process has been reaped, no effect on a zombie. *)
(* A pending SIGKILL cannot be taken back.                                 *)
Signalled(p, sig) ==
  IF p \in Pids /\ proc[p].state = "alive" /\ proc[p].sig # "kill"
    THEN [proc EXCEPT ![p].sig = sig] ELSE proc

(* How a live process may end: TRUE is a successful exit code.  Death by a *)
(* signal is reported as -137, which is no successful exit code.  The      *)
(* command of a health check may end either way.                           *)
Outcomes(p) ==
  CASE proc[p].sig = "kill" -> {FALSE}
    [] proc[p].sig # "kill" /\ proc[p].role = "check" -> BOOLEAN
    [] proc[p].sig = "none" /\ proc[p].role = "service" ->
         Config[proc[p].owner].exits
    [] proc[p].sig = "term" /\ proc[p].role = "service" ->
         Config[proc[p].owner].exits \cup Config[proc[p].owner].on_term

Exit(p) ==
  /\ proc[p].state = "alive"
  /\ \E ok \in Outcomes(p) :
       proc' = [proc EXCEPT ![p].state = "zombie", ![p].ok = ok]

=============================================================================

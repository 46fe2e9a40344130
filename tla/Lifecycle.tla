----------------------------- MODULE Lifecycle -----------------------------
(***************************************************************************)
(* What a supervisor like Horust promises, without saying how: nothing of  *)
(* the bus, the events, the pid map, the statuses or the threads is left.  *)
(* A service has at most one instance, which is due to be forked, up,      *)
(* asked to end by its signal, or doomed by SIGKILL; a service that is     *)
(* over stays so and leaves at most a doomed instance behind; a shutdown   *)
(* only gets stronger, takes services down in the order they ask for, and  *)
(* once forced brings nothing up.                                          *)
(***************************************************************************)
CONSTANTS Services,
          ShutdownAfter  \* ShutdownAfter[s]: services s is to outlive

VARIABLES instance, \* instance[s]: the one instance of s
          over,     \* the services that have finished
          level     \* the shutdown, if there is one

abstractVars == <<instance, over, level>>

LifecycleInit ==
  /\ instance = [s \in Services |-> "none"]
  /\ over = {}
  /\ level = "Running"

Becomes(s, state) ==
  /\ instance' = [instance EXCEPT ![s] = state]
  /\ UNCHANGED <<over, level>>

StartInstance(s) ==
  /\ instance[s] = "none" /\ s \notin over /\ level # "Forcefully"
  /\ Becomes(s, "due")

Appear(s) == instance[s] = "due" /\ Becomes(s, "up")
GiveUp(s) == instance[s] = "due" /\ Becomes(s, "none")
Vanish(s) == instance[s] \in {"up", "asked", "doomed"} /\ Becomes(s, "none")

(* Nothing is left of s but what SIGKILL is about to remove.               *)
Down(s) == instance[s] \in {"none", "doomed"}

(* Only in a graceful shutdown does the order count.                       *)
Ask(s) ==
  /\ instance[s] = "up"
  /\ level = "Gracefully" => \A d \in ShutdownAfter[s] : Down(d)
  /\ Becomes(s, "asked")

Doom(s) ==
  /\ \/ instance[s] = "asked"
     \/ instance[s] = "up" /\ level = "Forcefully"
  /\ Becomes(s, "doomed")

Finish(s) ==
  /\ s \notin over /\ Down(s)
  /\ over' = over \cup {s}
  /\ UNCHANGED <<instance, level>>

(* A service that could not be prepared is over and ends the others.       *)
FinishAndShutDown(s) ==
  /\ s \notin over /\ Down(s)
  /\ over' = over \cup {s}
  /\ level = "Running" /\ level' = "Gracefully"
  /\ UNCHANGED instance

Escalate ==
  /\ \/ level = "Running" /\ level' \in {"Gracefully", "Forcefully"}
     \/ level = "Gracefully" /\ level' = "Forcefully"
  /\ UNCHANGED <<instance, over>>

LifecycleNext ==
  \/ Escalate
  \/ \E s \in Services :
       \/ StartInstance(s) \/ Appear(s) \/ GiveUp(s) \/ Vanish(s)
       \/ Ask(s) \/ Doom(s) \/ Finish(s) \/ FinishAndShutDown(s)

LifecycleSpec == LifecycleInit /\ [][LifecycleNext]_abstractVars

=============================================================================

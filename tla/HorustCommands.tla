--------------------------- MODULE HorustCommands ---------------------------
(***************************************************************************)
(* Horust::run with its commands handler, and horustctl: the handler       *)
(* listens to the same bus as the other threads, and the bus does not end  *)
(* before it has dropped its connector.                                    *)
(***************************************************************************)
EXTENDS HorustProperties, CommandsHandler

allVars == <<vars, commandVars>>

AllTypeOK == TypeOK /\ CommandsTypeOK

InitAll == Init /\ CommandsInit

DispatchAll == Dispatch /\ CommandsHear(Head(pipe))

(* The threads of Horust.tla, and the world around them.                   *)
OtherThread ==
  /\ \/ SupervisorThread
     \/ MonitorThread
     \/ \E s \in Services : SpawnerThread(s) \/ WorkerThread(s)
     \/ Environment
  /\ UNCHANGED commandVars

CommandsThread == CommandsStep /\ UNCHANGED vars
ClientProcess(c) == ClientStep(c) /\ UNCHANGED vars

CommandsHaveEnded == server \in {"ended", "panicked"}

AllTerminated == Terminated /\ CommandsHaveEnded

IdleAll == AllTerminated /\ UNCHANGED allVars

NextAll ==
  \/ OtherThread
  \/ DispatchAll
  \/ CommandsThread
  \/ \E c \in Clients : ClientProcess(c)
  \/ IdleAll

SpecAll == InitAll /\ [][NextAll]_allVars

(* The thread of the commands handler keeps running.  A client need not    *)
(* connect, and one that has connected need not go on.                     *)
FairSpecAll == SpecAll /\ Fairness /\ WF_commandVars(CommandsThread)

-----------------------------------------------------------------------------
(* Properties                                                              *)

(* The supervisor sleeps, and there is no event that it or the commands    *)
(* handler has not seen.                                                   *)
NothingUnderWay ==
  Asleep /\ pipe = <<>> /\ inbox["supervisor"] = <<>> /\ heard = <<>>

(* What horustctl is told is the status of the service, once the events    *)
(* have come through: although some changes of status emit no              *)
(* StatusChanged (a failed spawn, a failed preparation of checks), and     *)
(* others emit it twice or before they happen (a forced kill).             *)
MirrorAgrees ==
  NothingUnderWay /\ server \in {"listening", "accepting", "reading"} =>
    \A s \in Services : services[s] = sh[s].status

(* A client that is connected and has not said anything.                   *)
Silent(c) == client[c].state = "connected"

(* Every request is answered, or its connection is reset by the end of     *)
(* Horust, whoever else is connected, unless a silent client is being      *)
(* waited for.                                                             *)
RequestsAreAnswered ==
  \A c \in Clients :
    client[c].state = "asked" ~>
      \/ client[c].state \in {"told", "reset"}
      \/ peer # None /\ Silent(peer)

(* The commands handler ends with Horust, clients waiting or not: after a  *)
(* shutdown has begun only a silent client keeps its thread.               *)
ShutdownEndsCommands ==
  lifecycle # "Running" ~>
    \/ AllTerminated
    \/ peer # None /\ Silent(peer)

-----------------------------------------------------------------------------
(* What the documentation says and the code does not keep                  *)

(* docs/README.md:182: "shutdown: Shut down all the services and exit      *)
(* Horust if this service has failed".  With a client connected that has   *)
(* not sent its request, the thread of the commands handler never drops    *)
(* its connector, and Horust never exits.                                  *)
FailureExitsHorust ==
  \A s \in Services :
    (sh[s].status = "Failed" /\ Config[s].failure = "shutdown")
      ~> AllTerminated

=============================================================================

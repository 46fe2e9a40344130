-------------------------------- MODULE Bus --------------------------------
(***************************************************************************)
(* horust/src/horust/bus.rs: one input pipe shared by every sender and one *)
(* dispatcher that copies each message into the queue of every connector.  *)
(* The queues are unbounded, so a sender never blocks.  The connectors of  *)
(* the spawner threads are short-lived and only ever look for a shutdown:  *)
(* Supervisor.tla keeps what they have heard.                              *)
(***************************************************************************)
EXTENDS Formats

VARIABLES pipe,    \* messages sent and not yet dispatched
          inbox,   \* inbox[c]: messages dispatched to c and not yet read
          joined   \* connectors whose owner has not dropped them yet

busVars == <<pipe, inbox, joined>>

Connectors == {"supervisor", "healthcheck"}

(* Variation: exits and shutdowns are skipped.                             *)
DeafMonitor(c, ev) ==
  \/ c = "supervisor" /\ ev.kind # "StatusChanged"
  \/ /\ c = "healthcheck"
     /\ ev.kind = "StatusChanged" /\ ev.status = "Started"

(* The events the thread behind a connector does not simply skip.          *)
Reads(c, ev) ==
  \/ c = "supervisor" /\ ev.kind # "StatusChanged"
  \/ c = "healthcheck"
       /\ \/ ev.kind \in {"ServiceExited", "ShuttingDownInitiated"}
          \/ ev.kind = "StatusChanged" /\ ev.status = "Started"

BusTypeOK ==
  /\ pipe \in Seq(Event)
  /\ inbox \in [Connectors -> Seq(Event)]
  /\ joined \in SUBSET Connectors

BusInit ==
  /\ pipe = <<>>
  /\ inbox = [c \in Connectors |-> <<>>]
  /\ joined = Connectors

(* One turn of the dispatching loop.                                       *)
Deliver ==
  /\ pipe # <<>>
  /\ pipe' = Tail(pipe)
  /\ inbox' = [c \in Connectors |->
                 IF c \in joined /\ Reads(c, Head(pipe))
                   THEN Append(inbox[c], Head(pipe)) ELSE inbox[c]]
  /\ UNCHANGED joined

(* The owner of connector c drops it: its queue goes with it.              *)
Leave(c) ==
  /\ joined' = joined \ {c}
  /\ inbox' = [inbox EXCEPT ![c] = <<>>]

=============================================================================

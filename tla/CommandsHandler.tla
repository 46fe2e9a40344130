-------------------------- MODULE CommandsHandler --------------------------
(***************************************************************************)
(* horust/src/horust/commands_handler.rs, the server side of the protocol  *)
(* in commands/src/server.rs, and horustctl, its client: a thread keeps a  *)
(* copy of the statuses of all services from the StatusChanged events and  *)
(* answers one connection at a time on a Unix socket.  It accepts without  *)
(* blocking, but reads a request until the client closes its side.         *)
(***************************************************************************)
EXTENDS Formats, SequencesExt

CONSTANTS Clients,  \* runs of horustctl; each asks once
          Requests, \* what they ask: names of services and "change"
          Leftovers \* the socket files that Horust may find when it starts

VARIABLES heard,    \* the connector's queue
          services, \* CommandsHandler.services
          server,   \* where the thread is
          peer,     \* the client whose request is being read
          backlog,  \* clients connected and not yet accepted
          sockets,  \* the socket files in the folder of --uds-folder-path
          client    \* client[c]: what c does, asked and was told

commandVars == <<heard, services, server, peer, backlog, sockets, client>>

(* The socket named after the pid of this Horust, and a leftover of one    *)
(* with another pid that crashed.                                          *)
SocketFiles == {"own", "other"}

ASSUME CommandsAssumption ==
  /\ None \notin Clients
  /\ Leftovers \in SUBSET (SUBSET SocketFiles)

Client ==
  [state : {"away", "connected", "asked", "hung up", "told", "refused",
            "reset"},
   request : Requests \cup {None},
   reply : Statuses \cup {"error", "nothing", None}]

CommandsTypeOK ==
  /\ heard \in Seq(Event)
  /\ services \in [Services -> Statuses]
  /\ server \in {"binding", "listening", "accepting", "reading", "ended",
                 "panicked"}
  /\ peer \in Clients \cup {None}
  /\ backlog \in Seq(Clients)
  /\ sockets \in SUBSET SocketFiles
  /\ client \in [Clients -> Client]

(* The folder may hold what crashed runs of Horust left behind, this pid's *)
(* previous owner among them.                                              *)
CommandsInit ==
  /\ heard = <<>>
  /\ services = [s \in Services |-> "Initial"]
  /\ server = "binding"
  /\ peer = None
  /\ backlog = <<>>
  /\ sockets \in Leftovers
  /\ client = [c \in Clients |->
                 [state |-> "away", request |-> None, reply |-> None]]

-----------------------------------------------------------------------------
(* The server                                                              *)

(* A dispatched event reaches the connector of a thread that still runs.   *)
CommandsHear(ev) ==
  /\ heard' = IF /\ server \notin {"ended", "panicked"}
                 /\ ev.kind \in {"StatusChanged", "ShuttingDownInitiated"}
                THEN Append(heard, ev) ELSE heard
  /\ UNCHANGED <<services, server, peer, backlog, sockets, client>>

(* bind().unwrap() does not survive a socket file that is already there.   *)
Bind ==
  /\ server = "binding"
  /\ \/ "own" \notin sockets /\ server' = "listening"
     \/ "own" \in sockets /\ server' = "panicked"
  /\ sockets' = sockets \cup {"own"}
  /\ heard' = IF server' = "panicked" THEN <<>> ELSE heard
  /\ UNCHANGED <<services, peer, backlog, client>>

(* Variation: the first StatusChanged of a batch wins.                     *)
FirstOnly(known, evs) ==
  [s \in DOMAIN known |->
     LET told == {i \in DOMAIN evs : evs[i].kind = "StatusChanged"
                                     /\ evs[i].svc = s}
     IN IF told = {} THEN known[s] ELSE evs[Min(told)].status]

(* The statuses after the StatusChanged events evs.                        *)
Applied(known, evs) ==
  [s \in DOMAIN known |->
     LET told == {i \in DOMAIN evs : evs[i].kind = "StatusChanged"
                                     /\ evs[i].svc = s}
     IN IF told = {} THEN known[s] ELSE evs[Max(told)].status]

(* Variation: a graceful shutdown is not listened to.                      *)
OnlyForcefulHeard ==
  \E i \in DOMAIN heard : /\ heard[i].kind = "ShuttingDownInitiated"
                          /\ heard[i].mode = "Forcefully"

ShutdownHeard ==
  \E i \in DOMAIN heard : heard[i].kind = "ShuttingDownInitiated"

(* Variation: connections are only looked for after an event.              *)
TakeEventsOnly ==
  /\ server = "listening"
  /\ heard # <<>>
  /\ ~ShutdownHeard
  /\ services' = Applied(services, heard)
  /\ heard' = <<>>
  /\ server' = "accepting"
  /\ UNCHANGED <<peer, backlog, sockets, client>>

TakeEvents ==
  /\ server = "listening"
  /\ heard # <<>> \/ backlog # <<>>
  /\ ~ShutdownHeard
  /\ services' = Applied(services, heard)
  /\ heard' = <<>>
  /\ server' = "accepting"
  /\ UNCHANGED <<peer, backlog, sockets, client>>

(* An iteration of run() that finds nothing to do.                         *)
FindNothing ==
  /\ server = "listening"
  /\ heard = <<>> /\ backlog = <<>>
  /\ UNCHANGED commandVars

(* The first shutdown ends the thread, and the connections that nobody has *)
(* accepted with it.                                                       *)
EndCommands ==
  /\ server = "listening"
  /\ ShutdownHeard
  /\ server' = "ended"
  /\ sockets' = sockets \ {"own"}
  /\ heard' = <<>>
  /\ backlog' = <<>>
  /\ client' = [c \in Clients |->
                  IF c \in ToSet(backlog)
                    THEN [client[c] EXCEPT !.state = "reset"] ELSE client[c]]
  /\ UNCHANGED <<services, peer>>

Accept ==
  /\ server = "accepting"
  /\ \/ /\ backlog = <<>>
        /\ server' = "listening"
        /\ UNCHANGED <<peer, backlog>>
     \/ /\ backlog # <<>>
        /\ server' = "reading"
        /\ peer' = Head(backlog)
        /\ backlog' = Tail(backlog)
  /\ UNCHANGED <<heard, services, sockets, client>>

(* Variation: the name is sent back in place of the status.                *)
EchoRequest(c) ==
  IF client[c].state = "hung up" THEN "nothing" ELSE client[c].request

(* What a request is answered with; an empty message gets no reply.        *)
Reply(c) ==
  CASE client[c].state = "hung up"        -> "nothing"
    [] client[c].request \in Services     -> services[client[c].request]
    [] client[c].request \notin Services
         /\ client[c].state # "hung up"   -> "error"

HandleConnection ==
  /\ server = "reading"
  /\ client[peer].state \in {"asked", "hung up"}
  /\ client' = [client EXCEPT ![peer].state = "told",
                              ![peer].reply = Reply(peer)]
  /\ server' = "listening"
  /\ peer' = None
  /\ UNCHANGED <<heard, services, backlog, sockets>>

CommandsStep ==
  \/ Bind \/ TakeEvents \/ FindNothing
  \/ EndCommands \/ Accept \/ HandleConnection

-----------------------------------------------------------------------------
(* The clients                                                             *)

(* get_uds_path: without --pid there has to be exactly one socket.         *)
UdsPath(with_pid) ==
  IF with_pid THEN {"own"}
              ELSE IF Cardinality(sockets) = 1 THEN sockets ELSE {}

ServerAccepts == server \in {"listening", "accepting", "reading"}

Connect(c) ==
  /\ client[c].state = "away"
  /\ \E with_pid \in BOOLEAN :
       IF "own" \in UdsPath(with_pid) /\ ServerAccepts
         THEN /\ client' = [client EXCEPT ![c].state = "connected"]
              /\ backlog' = Append(backlog, c)
         ELSE /\ client' = [client EXCEPT ![c].state = "refused"]
              /\ UNCHANGED backlog
  /\ UNCHANGED <<heard, services, server, peer, sockets>>

Ask(c) ==
  /\ client[c].state = "connected"
  /\ \E r \in Requests :
       client' = [client EXCEPT ![c].state = "asked", ![c].request = r]
  /\ UNCHANGED <<heard, services, server, peer, backlog, sockets>>

HangUp(c) ==
  /\ client[c].state = "connected"
  /\ client' = [client EXCEPT ![c].state = "hung up"]
  /\ UNCHANGED <<heard, services, server, peer, backlog, sockets>>

ClientStep(c) == Connect(c) \/ Ask(c) \/ HangUp(c)

=============================================================================

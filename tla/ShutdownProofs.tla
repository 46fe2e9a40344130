--------------------------- MODULE ShutdownProofs ---------------------------
(***************************************************************************)
(* What a shutdown stops, proved for every configuration.  Run commands,   *)
(* and the graceful shutdowns that failing services ask for, are only sent *)
(* while Horust is running.  The bus keeps their order: they are handled   *)
(* before the forceful shutdown that is sent later, however far the        *)
(* dispatcher lags behind.                                                 *)
(***************************************************************************)
EXTENDS HorustProofs

(* A Run, and unless preparing checks may fail a graceful shutdown, is sent *)
(* by a running Horust only.  (A failed preparation asks for a graceful    *)
(* shutdown whatever the lifecycle is.)                                    *)
PreparationsSucceed == \A s \in Services : ~Config[s].prepare_fails

Early(ev) ==
  \/ ev.kind = "Run"
  \/ /\ PreparationsSucceed
     /\ ev.kind = "ShuttingDownInitiated" /\ ev.mode = "Gracefully"
Forced(ev) == ev.kind = "ShuttingDownInitiated" /\ ev.mode = "Forcefully"

NoneEarly(q)  == \A i \in DOMAIN q : ~Early(q[i])
NoneForced(q) == \A i \in DOMAIN q : ~Forced(q[i])
EarlyFirst(q) ==
  \A i, j \in DOMAIN q : i < j => ~(Forced(q[i]) /\ Early(q[j]))
Precedes(q, r) == NoneForced(q) \/ NoneEarly(r)

(* On their way through the pipe, the queue and the batch, early events     *)
(* come before every forceful shutdown; ...                                *)
InOrder ==
  /\ EarlyFirst(batch) /\ EarlyFirst(inbox["supervisor"]) /\ EarlyFirst(pipe)
  /\ Precedes(batch, inbox["supervisor"])
  /\ Precedes(batch, pipe)
  /\ Precedes(inbox["supervisor"], pipe)

(* ... a forceful shutdown is under way only after a graceful one was      *)
(* handled; ...                                                            *)
GracefulComesFirst ==
  lifecycle = "Running" =>
    /\ NoneForced(batch) /\ NoneForced(inbox["supervisor"])
    /\ NoneForced(pipe)

(* ... once it is handled, no early event is left; ...                     *)
NoneLeft ==
  lifecycle = "Forcefully" =>
    /\ NoneEarly(batch) /\ NoneEarly(inbox["supervisor"]) /\ NoneEarly(pipe)

(* ... and early events are sent only when it is not even graceful.        *)
SentWhileRunning ==
  \A k \in DOMAIN out :
    /\ NoneForced(out[k])
    /\ lifecycle # "Running" \/ phase = "handling" => NoneEarly(out[k])

Flow == InOrder /\ GracefulComesFirst /\ NoneLeft /\ SentWhileRunning
FlowInv == TypeOK /\ (SupervisorIsUp => Flow)

-----------------------------------------------------------------------------
(* Sequences of events                                                     *)

(* The head of a queue is taken off.                                       *)
LEMMA TakenOff ==
  ASSUME NEW q \in Seq(Event), q # <<>>
  PROVE  /\ NoneEarly(q) => ~Early(Head(q)) /\ NoneEarly(Tail(q))
         /\ NoneForced(q) => ~Forced(Head(q)) /\ NoneForced(Tail(q))
         /\ EarlyFirst(q) =>
              EarlyFirst(Tail(q)) /\ (Forced(Head(q)) => NoneEarly(Tail(q)))
<1>1. /\ Len(q) \in Nat /\ Len(q) > 0 /\ Head(q) = q[1]
      /\ DOMAIN q = 1..Len(q) /\ DOMAIN Tail(q) = 1..(Len(q) - 1)
      /\ \A i \in 1..(Len(q) - 1) : Tail(q)[i] = q[i + 1]
  OBVIOUS
<1>2. \A i \in DOMAIN Tail(q) : /\ i + 1 \in DOMAIN q /\ 1 < i + 1
                                /\ Tail(q)[i] = q[i + 1]
  BY <1>1
<1>3. 1 \in DOMAIN q /\ Head(q) = q[1]
  BY <1>1
<1>4. EarlyFirst(q) => EarlyFirst(Tail(q))
  <2>1. \A i, j \in DOMAIN Tail(q) : i < j => i + 1 < j + 1
    BY <1>1
  <2> QED BY <1>2, <2>1 DEF EarlyFirst
<1>5. EarlyFirst(q) /\ Forced(Head(q)) => NoneEarly(Tail(q))
  BY <1>2, <1>3 DEF EarlyFirst, NoneEarly
<1>6. /\ NoneEarly(q) => ~Early(Head(q)) /\ NoneEarly(Tail(q))
      /\ NoneForced(q) => ~Forced(Head(q)) /\ NoneForced(Tail(q))
  BY <1>2, <1>3 DEF NoneEarly, NoneForced
<1> QED BY <1>4, <1>5, <1>6

(* An event is put at the end of a queue.                                  *)
LEMMA OrderAtEnd ==
  ASSUME NEW q \in Seq(Event), NEW e \in Event
  PROVE  /\ NoneEarly(q) /\ ~Early(e) => NoneEarly(Append(q, e))
         /\ NoneForced(q) /\ ~Forced(e) => NoneForced(Append(q, e))
         /\ EarlyFirst(q) /\ (NoneForced(q) \/ ~Early(e))
              => EarlyFirst(Append(q, e))
<1> DEFINE r == Append(q, e)
           n == Len(q)
<1>1. /\ n \in Nat /\ DOMAIN q = 1..n /\ DOMAIN r = 1..(n + 1)
      /\ r[n + 1] = e
      /\ \A i \in 1..n : r[i] = q[i]
  OBVIOUS
<1>2. \A i \in DOMAIN r : i \in DOMAIN q \/ i = n + 1
  BY <1>1
<1>3. \A i \in DOMAIN q : r[i] = q[i]
  BY <1>1
<1>4. \A i, j \in DOMAIN r : i < j => i \in DOMAIN q
  BY <1>1
<1> HIDE DEF r, n
<1>5. /\ NoneEarly(q) /\ ~Early(e) => NoneEarly(r)
      /\ NoneForced(q) /\ ~Forced(e) => NoneForced(r)
  BY <1>1, <1>2, <1>3 DEF NoneEarly, NoneForced
<1>6. ASSUME EarlyFirst(q), NoneForced(q) \/ ~Early(e)
      PROVE  EarlyFirst(r)
  <2> SUFFICES ASSUME NEW i \in DOMAIN r, NEW j \in DOMAIN r, i < j,
                      Forced(r[i]), Early(r[j])
               PROVE  FALSE
    BY DEF EarlyFirst
  <2>1. i \in DOMAIN q /\ Forced(q[i])
    BY <1>3, <1>4
  <2>2. CASE j \in DOMAIN q
    BY <1>3, <1>6, <2>1, <2>2 DEF EarlyFirst
  <2>3. CASE j = n + 1
    BY <1>1, <1>6, <2>1, <2>3 DEF NoneForced
  <2> QED BY <1>2, <2>2, <2>3
<1> QED BY <1>5, <1>6 DEF r

(* Nothing is out of order in the empty queue.                             *)
LEMMA EmptyQueue ==
  NoneEarly(<<>>) /\ NoneForced(<<>>) /\ EarlyFirst(<<>>)
BY DEF NoneEarly, NoneForced, EarlyFirst

(* The kinds of events that are neither early nor forced.                  *)
LEMMA OrdinaryEvents ==
  /\ \A ev : ev.kind \notin {"Run", "ShuttingDownInitiated"} =>
       ~Early(ev) /\ ~Forced(ev)
  /\ \A s, st : StatusUpdate(s, st).kind = "StatusUpdate"
  /\ \A s, st : StatusChanged(s, st).kind = "StatusChanged"
  /\ \A s, ok : ServiceExited(s, ok).kind = "ServiceExited"
  /\ \A s, h : HealthCheck(s, h).kind = "HealthCheck"
  /\ \A s, p : PidChanged(s, p).kind = "PidChanged"
  /\ \A s : /\ ForceKill(s).kind = "ForceKill"
            /\ Kill(s).kind = "Kill"
            /\ SpawnFailed(s).kind = "SpawnFailed"
            /\ Run(s).kind = "Run"
BY DEF Early, Forced, StatusUpdate, StatusChanged, ServiceExited, HealthCheck,
       PidChanged, ForceKill, Kill, SpawnFailed, Run

-----------------------------------------------------------------------------
(* Steps that touch the queues                                             *)

(* What Flow speaks of.                                                    *)
queueVars == <<lifecycle, phase, batch, inbox["supervisor"], pipe, out>>

(* An event is sent: an early one by a running Horust, a forceful shutdown *)
(* by one that is not running any more.                                    *)
LEMMA FlowSend ==
  ASSUME BusTypeOK, InOrder, GracefulComesFirst, NoneLeft,
         NEW e \in Event, pipe' = Append(pipe, e),
         Early(e) => lifecycle = "Running",
         Forced(e) => lifecycle # "Running",
         UNCHANGED <<lifecycle, batch, inbox["supervisor"]>>
  PROVE  InOrder' /\ GracefulComesFirst' /\ NoneLeft'
<1>1. pipe \in Seq(Event)
  BY DEF BusTypeOK
<1>2. /\ NoneEarly(pipe) /\ ~Early(e) => NoneEarly(pipe')
      /\ NoneForced(pipe) /\ ~Forced(e) => NoneForced(pipe')
      /\ EarlyFirst(pipe) /\ (NoneForced(pipe) \/ ~Early(e))
           => EarlyFirst(pipe')
  BY <1>1, OrderAtEnd
<1>3. InOrder'
  BY <1>2 DEF InOrder, GracefulComesFirst, Precedes
<1>4. GracefulComesFirst'
  BY <1>2 DEF GracefulComesFirst
<1>5. NoneLeft'
  BY <1>2 DEF NoneLeft
<1> QED BY <1>3, <1>4, <1>5

(* The dispatcher moves an event on, or drops what nobody reads.           *)
LEMMA FlowDispatch ==
  ASSUME TypeOK, Flow, Dispatch
  PROVE  Flow'
<1> DEFINE e == Head(pipe)
           i == inbox["supervisor"]
<1>1. /\ pipe \in Seq(Event) /\ pipe # <<>> /\ e \in Event
      /\ i \in Seq(Event) /\ i' \in {i, Append(i, e)}
      /\ pipe' = Tail(pipe)
  BY DEF TypeOK, BusTypeOK, Dispatch, Deliver, Connectors
<1>2. UNCHANGED <<lifecycle, phase, batch, out>>
  BY DEF Dispatch, threadVars
<1> HIDE DEF e, i
<1>3. /\ NoneEarly(pipe) => ~Early(e) /\ NoneEarly(pipe')
      /\ NoneForced(pipe) => ~Forced(e) /\ NoneForced(pipe')
      /\ EarlyFirst(pipe) =>
           EarlyFirst(pipe') /\ (Forced(e) => NoneEarly(pipe'))
  BY <1>1, TakenOff DEF e
<1>4. /\ NoneEarly(i) /\ ~Early(e) => NoneEarly(i')
      /\ NoneForced(i) /\ ~Forced(e) => NoneForced(i')
      /\ EarlyFirst(i) /\ (NoneForced(i) \/ ~Early(e)) => EarlyFirst(i')
  <2>1. CASE i' = i
    BY <2>1
  <2>2. CASE i' = Append(i, e)
    BY <1>1, <2>2, OrderAtEnd
  <2> QED BY <1>1, <2>1, <2>2
<1>5. InOrder'
  BY <1>2, <1>3, <1>4 DEF Flow, InOrder, Precedes, i
<1>6. GracefulComesFirst' /\ NoneLeft'
  BY <1>2, <1>3, <1>4 DEF Flow, GracefulComesFirst, NoneLeft, i
<1>7. SentWhileRunning'
  BY <1>2 DEF Flow, SentWhileRunning
<1> QED BY <1>5, <1>6, <1>7 DEF Flow

(* A step that leaves the queues alone.                                    *)
LEMMA FlowStutter ==
  ASSUME Flow, UNCHANGED queueVars
  PROVE  Flow'
BY DEF Flow, queueVars, InOrder, GracefulComesFirst, NoneLeft,
       SentWhileRunning

(* Another thread or a worker sends an ordinary event.                     *)
LEMMA FlowOrdinary ==
  ASSUME TypeOK, Flow, NEW e \in Event,
         e.kind \notin {"Run", "ShuttingDownInitiated"},
         pipe' = Append(pipe, e),
         UNCHANGED <<lifecycle, phase, batch, inbox["supervisor"], out>>
  PROVE  Flow'
<1>1. ~Early(e) /\ ~Forced(e)
  BY OrdinaryEvents
<1>2. InOrder' /\ GracefulComesFirst' /\ NoneLeft'
  BY <1>1, FlowSend DEF TypeOK, Flow
<1>3. SentWhileRunning'
  BY DEF Flow, SentWhileRunning
<1> QED BY <1>2, <1>3 DEF Flow

(* The end of a handler: the event is off the batch, and what the handler  *)
(* answers is neither early nor forced.                                    *)
LEMMA FlowDone ==
  ASSUME TypeOK, batch # <<>>, NEW evs \in Seq(Event), Done(evs),
         NoneForced(evs), NoneEarly(evs), SentWhileRunning,
         phase = "handling"
  PROVE  /\ SentWhileRunning'
         /\ UNCHANGED <<inbox["supervisor"], pipe>> /\ batch' = Tail(batch)
<1>1. /\ out \in Seq(Seq(Event))
      /\ out' = IF evs = <<>> THEN out ELSE Append(out, evs)
  BY DEF TypeOK, SupervisorTypeOK, Done
<1>2. ASSUME NEW k \in DOMAIN out'
      PROVE  \/ k \in DOMAIN out /\ out'[k] = out[k]
             \/ out'[k] = evs
  BY <1>1
<1>3. SentWhileRunning'
  BY <1>2 DEF SentWhileRunning
<1> QED BY <1>3 DEF Done, busVars

-----------------------------------------------------------------------------
(* What the supervisor sends                                               *)

(* The kill commands of a set of services are ordinary events.             *)
LEMMA KillAllKinds ==
  ASSUME NEW S \in SUBSET Services
  PROVE  NoneForced(KillAll(S))
<1> DEFINE n == 2 * Cardinality(S)
<1>1. ASSUME NEW i \in DOMAIN KillAll(S)
      PROVE  KillAll(S)[i].kind \in {"StatusUpdate", "Kill"}
  <2>1. KillAll(S)[i] = IF i % 2 = 1
          THEN StatusUpdate(SetToSeq(S)[(i + 1) \div 2], "InKilling")
          ELSE Kill(SetToSeq(S)[i \div 2])
    BY DEF KillAll
  <2>2. CASE i % 2 = 1
    BY <2>1, <2>2, OrdinaryEvents
  <2>3. CASE i % 2 # 1
    BY <2>1, <2>3, OrdinaryEvents
  <2> QED BY <2>2, <2>3
<1> QED BY <1>1, OrdinaryEvents DEF NoneForced

(* Two lists without a forceful shutdown make one.                         *)
LEMMA NoneForcedJoins ==
  ASSUME NEW q \in Seq(Event), NEW r \in Seq(Event),
         NoneForced(q), NoneForced(r)
  PROVE  NoneForced(q \o r)
BY DEF NoneForced

(* A service never asks for a forceful shutdown.  It asks to be run, or    *)
(* for a graceful one, only while Horust is running.                       *)
LEMMA NextEventsKinds ==
  ASSUME NEW handlers \in [Services -> ServiceHandlerType],
         NEW s \in Services, NEW lc \in LifecycleStatuses
  PROVE  /\ NoneForced(NextEvents(handlers, s, lc))
         /\ lc # "Running" => NoneEarly(NextEvents(handlers, s, lc))
<1> DEFINE Plain(q) == /\ NoneForced(q) /\ NoneEarly(q)
<1>1. Plain(KillCommand(s))
  BY OrdinaryEvents DEF KillCommand, NoneForced, NoneEarly
<1>2. \A h, failed :
        HandleRestartStrategy(s, h, failed).kind = "StatusUpdate"
  BY OrdinaryEvents, Zenon DEF HandleRestartStrategy
<1>3. \A e : e.kind \notin {"Run", "ShuttingDownInitiated"} => Plain(<<e>>)
  BY OrdinaryEvents DEF NoneForced, NoneEarly
<1>4. Plain(<<>>)
  BY EmptyQueue
<1>5. \A h, failed : Plain(<<HandleRestartStrategy(s, h, failed)>>)
  BY <1>2, <1>3
<1>6. NoneForced(NextEventsRunning(handlers, s))
  <2> DEFINE h == handlers[s]
             answer == HandleFailedService(s)
             again == <<HandleRestartStrategy(s, h, TRUE)>>
             deaths == KillAll(DieIfFailed(s))
  <2>1. NoneForced(answer) /\ answer \in Seq(Event)
    <3>1. Config[s].failure \in FailureStrategies
      BY ConfigAssumption DEF ServiceType
    <3>2. NoneForced(<<ShuttingDownInitiated("Gracefully")>>)
      BY DEF NoneForced, Forced, ShuttingDownInitiated
    <3>3. Dependents(s) \in SUBSET Services
      BY DEF Dependents
    <3>4. NoneForced(KillAll(Dependents(s)))
      BY <3>3, KillAllKinds
    <3>5. KillAll(Dependents(s)) \in Seq(Event)
      BY <3>3, KillAllType
    <3>6. <<ShuttingDownInitiated("Gracefully")>> \in Seq(Event)
      BY EventConstructors, EventLists DEF ShuttingDown
    <3> QED
      BY <3>1, <3>2, <3>4, <3>5, <3>6, <1>4, EventLists, Zenon
      DEF HandleFailedService, FailureStrategies
  <2>2. NoneForced(again) /\ again \in Seq(Event)
    <3>1. HandleRestartStrategy(s, h, TRUE) \in Event
      BY EventConstructors DEF HandleRestartStrategy, Statuses
    <3>2. NoneForced(again)
      BY <1>5, Zenon
    <3>3. again \in Seq(Event)
      BY <3>1, EventLists
    <3> QED BY <3>2, <3>3
  <2>3. NoneForced(deaths) /\ deaths \in Seq(Event)
    BY KillAllKinds, KillAllType DEF DieIfFailed
  <2> HIDE DEF answer, again, deaths
  <2>4. NoneForced(answer \o again \o deaths)
    <3>1. NoneForced(answer \o again) /\ answer \o again \in Seq(Event)
      BY <2>1, <2>2, NoneForcedJoins, EventLists
    <3> QED BY <2>3, <3>1, NoneForcedJoins
  <2>5. NoneForced(<<Run(s)>>)
    BY DEF NoneForced, Forced, Run
  <2>6. NoneForced(<<StatusUpdate(s, "Running")>>)
    BY <1>3, OrdinaryEvents
  <2>7. NoneForced(<<ForceKill(s), StatusChanged(s, "Failed")>>)
    BY OrdinaryEvents DEF NoneForced
  <2> QED
    BY <1>1, <1>4, <1>5, <2>4, <2>5, <2>6, <2>7, Zenon
    DEF NextEventsRunning, answer, again, deaths
<1>7. Plain(NextEventsShuttingDown(handlers, s, lc))
  <2>1. /\ Plain(<<StatusUpdate(s, "Finished")>>)
        /\ Plain(<<StatusUpdate(s, "FinishedFailed")>>)
        /\ Plain(<<ForceKill(s)>>)
    BY <1>3, OrdinaryEvents
  <2> HIDE DEF Plain
  <2> QED BY <1>1, <1>4, <2>1, Zenon DEF NextEventsShuttingDown
<1> QED
  BY <1>6, <1>7 DEF NextEvents

(* A new iteration: the queue becomes the batch, and the SIGTERM flag may   *)
(* ask for a shutdown.                                                     *)
LEMMA FlowIngest ==
  ASSUME TypeOK, Flow, Ingest
  PROVE  Flow'
<1> DEFINE i == inbox["supervisor"]
<1>1. /\ batch' = i /\ i' = <<>> /\ out = <<>> /\ out' = out
      /\ phase' = "handling" /\ UNCHANGED lifecycle
      /\ pipe' = pipe \o SigtermRequest
      /\ pipe \in Seq(Event)
  BY DEF TypeOK, BusTypeOK, Connectors, Ingest, Asleep
<1> HIDE DEF i
<1>2. /\ lifecycle = "Running" /\ NoneForced(pipe) => NoneForced(pipe')
      /\ NoneEarly(pipe) /\ lifecycle = "Forcefully" => NoneEarly(pipe')
      /\ InOrder /\ GracefulComesFirst =>
           EarlyFirst(pipe') /\ Precedes(i, pipe')
  <2>1. CASE SigtermRequest = <<>>
    BY <1>1, <2>1 DEF InOrder, i
  <2>2. CASE /\ lifecycle = "Running"
             /\ SigtermRequest = <<ShuttingDownInitiated("Gracefully")>>
    <3> DEFINE e == ShuttingDownInitiated("Gracefully")
    <3>1. e \in Event /\ ~Forced(e)
      BY EventConstructors DEF ShuttingDown, Forced, ShuttingDownInitiated
    <3> HIDE DEF e
    <3>2. pipe' = Append(pipe, e)
      BY <1>1, <2>2 DEF e
    <3> QED
      BY <1>1, <2>2, <3>1, <3>2, OrderAtEnd
      DEF InOrder, GracefulComesFirst, Precedes, i
  <2>3. CASE /\ lifecycle = "Gracefully"
             /\ SigtermRequest = <<ShuttingDownInitiated("Forcefully")>>
    <3> DEFINE e == ShuttingDownInitiated("Forcefully")
    <3>1. e \in Event /\ ~Early(e)
      BY EventConstructors DEF ShuttingDown, Early, ShuttingDownInitiated
    <3> HIDE DEF e
    <3>2. pipe' = Append(pipe, e)
      BY <1>1, <2>3 DEF e
    <3> QED
      BY <1>1, <2>3, <3>1, <3>2, OrderAtEnd
      DEF InOrder, GracefulComesFirst, Precedes, i
  <2> QED BY <2>1, <2>2, <2>3 DEF SigtermRequest
<1>3. NoneEarly(i') /\ NoneForced(i') /\ EarlyFirst(i')
  BY <1>1, EmptyQueue
<1>4. InOrder'
  BY <1>1, <1>2, <1>3 DEF Flow, InOrder, Precedes, i
<1>5. GracefulComesFirst' /\ NoneLeft'
  BY <1>1, <1>2, <1>3 DEF Flow, GracefulComesFirst, NoneLeft, i
<1>6. SentWhileRunning'
  BY <1>1 DEF SentWhileRunning
<1> QED BY <1>4, <1>5, <1>6 DEF Flow

(* The end of an iteration: every service may go on, and exits are told.   *)
LEMMA FlowProduce ==
  ASSUME TypeOK, Flow, Produce
  PROVE  Flow'
<1> DEFINE nexts == [i \in DOMAIN ServiceOrder |->
                       NextEvents(sh, ServiceOrder[i], lifecycle)]
           Exits(order) == [i \in DOMAIN order |->
                              ServiceExited(pid_map[order[i]],
                                            proc[order[i]].ok)]
           Fine(q) == NoneForced(q) /\ (lifecycle # "Running" => NoneEarly(q))
<1>1. /\ UNCHANGED <<lifecycle, batch, inbox["supervisor"], pipe>>
      /\ phase = "handling" /\ phase' = "producing"
  BY DEF Produce, busVars
<1>2. PICK order : out' = Drained(out \o nexts \o <<Exits(order)>>)
  BY DEF Produce
<1>3. ASSUME NEW k \in DOMAIN nexts
      PROVE  Fine(nexts[k])
  <2>1. ServiceOrder[k] \in Services
    BY OrderAssumption
  <2>2. nexts[k] = NextEvents(sh, ServiceOrder[k], lifecycle)
    OBVIOUS
  <2>3. sh \in [Services -> ServiceHandlerType] /\ lifecycle \in LifecycleStatuses
    BY DEF TypeOK, SupervisorTypeOK
  <2>4. /\ NoneForced(NextEvents(sh, ServiceOrder[k], lifecycle))
        /\ lifecycle # "Running" =>
             NoneEarly(NextEvents(sh, ServiceOrder[k], lifecycle))
    BY <2>1, <2>3, NextEventsKinds, Zenon
  <2> QED BY <2>2, <2>4, Zenon
<1>4. Fine(Exits(order))
  BY OrdinaryEvents DEF NoneForced, NoneEarly
<1>5. \A k \in DOMAIN out : Fine(out[k])
  BY <1>1 DEF Flow, SentWhileRunning
<1>6. out \in Seq(Seq(Event)) /\ \E n \in Nat : DOMAIN nexts = 1..n
  BY OrderAssumption DEF TypeOK, SupervisorTypeOK
<1> DEFINE exits == Exits(order)
<1>7. /\ out' = Drained(out \o nexts \o <<exits>>)
      /\ Fine(exits)
  BY <1>2, <1>4
<1>8. nexts \in Seq({nexts[k] : k \in DOMAIN nexts})
  <2>1. PICK n \in Nat : DOMAIN nexts = 1..n
    BY <1>6
  <2>2. nexts = [k \in 1..n |-> nexts[k]]
    BY <2>1
  <2> HIDE DEF nexts
  <2> QED BY <2>1, <2>2
<1> HIDE DEF nexts, exits, Fine
<1>9. ASSUME NEW k \in DOMAIN (out \o nexts \o <<exits>>)
      PROVE  Fine((out \o nexts \o <<exits>>)[k])
  <2>1. \/ /\ k \in DOMAIN out
           /\ (out \o nexts \o <<exits>>)[k] = out[k]
        \/ \E j \in DOMAIN nexts :
             (out \o nexts \o <<exits>>)[k] = nexts[j]
        \/ (out \o nexts \o <<exits>>)[k] = exits
    BY <1>6, <1>8
  <2> QED BY <1>3, <1>5, <1>7, <2>1
<1>10. \A k \in DOMAIN out' : Fine(out'[k])
  BY <1>7, <1>9 DEF Drained
<1>11. SentWhileRunning'
  BY <1>1, <1>10 DEF SentWhileRunning, Fine
<1> QED
  BY <1>1, <1>11 DEF Flow, InOrder, GracefulComesFirst, NoneLeft

(* One of the events of this iteration is sent.                            *)
LEMMA FlowSent ==
  ASSUME TypeOK, Flow, Send
  PROVE  Flow'
<1>1. PICK k \in DOMAIN out :
        /\ out[k] # <<>>
        /\ pipe' = Append(pipe, Head(out[k]))
        /\ out' = Drained([out EXCEPT ![k] = Tail(out[k])])
  BY DEF Send
<1>2. /\ out \in Seq(Seq(Event)) /\ out[k] \in Seq(Event)
      /\ Head(out[k]) \in Event
  BY <1>1 DEF TypeOK, SupervisorTypeOK
<1>3. /\ UNCHANGED <<lifecycle, phase, batch, inbox["supervisor"]>>
      /\ phase = "producing"
  BY DEF Send
<1>4. /\ NoneForced(out[k]) /\ (lifecycle # "Running" => NoneEarly(out[k]))
  BY DEF Flow, SentWhileRunning
<1>5. /\ NoneForced(out[k]) => ~Forced(Head(out[k])) /\ NoneForced(Tail(out[k]))
      /\ NoneEarly(out[k]) => ~Early(Head(out[k])) /\ NoneEarly(Tail(out[k]))
  BY <1>1, <1>2, TakenOff
<1>6. InOrder' /\ GracefulComesFirst' /\ NoneLeft'
  BY <1>1, <1>2, <1>3, <1>4, <1>5, FlowSend DEF TypeOK, Flow
<1>7. ASSUME NEW j \in DOMAIN out'
      PROVE  /\ NoneForced(out'[j])
             /\ lifecycle # "Running" => NoneEarly(out'[j])
  <2>1. /\ j \in DOMAIN out
        /\ out'[j] = IF j = k THEN Tail(out[k]) ELSE out[j]
    BY <1>1, <1>2, <1>7 DEF Drained
  <2> QED BY <1>4, <1>5, <2>1 DEF Flow, SentWhileRunning
<1>8. SentWhileRunning'
  BY <1>3, <1>7 DEF SentWhileRunning
<1> QED BY <1>6, <1>8 DEF Flow

(* The events of the batch are handled in their order.  A handler changes  *)
(* the lifecycle when it handles a shutdown or cannot prepare the checks.  *)
LEMMA FlowHandle ==
  ASSUME TypeOK, Flow, HandleEvent, UNCHANGED healthVars, SupervisorIsUp'
  PROVE  Flow'
<1> DEFINE ev == Head(batch)
           s == ev.svc
<1>0. /\ batch \in Seq(Event) /\ batch # <<>> /\ ev \in Event
      /\ phase = "handling"
  <2>1. batch # <<>> /\ phase = "handling"
    BY DEF HandleEvent, HandleServiceExited, PanicOnServiceExited, HandleRun,
           HandleRunPrepareFails, HandleSpawnFailed, HandleKill,
           HandleForceKill, HandlePidChanged, HandleHealthCheck,
           HandleShuttingDownInitiated, HandleStatusUpdate, HandleIgnored,
           Handling
  <2> QED BY <2>1, HeadOfBatch DEF TypeOK, SupervisorTypeOK
<1>t. /\ NoneEarly(batch) => ~Early(ev) /\ NoneEarly(Tail(batch))
      /\ NoneForced(batch) => ~Forced(ev) /\ NoneForced(Tail(batch))
      /\ EarlyFirst(batch) =>
           EarlyFirst(Tail(batch)) /\ (Forced(ev) => NoneEarly(Tail(batch)))
  BY <1>0, TakenOff
(* Every handler but two keeps the lifecycle.                              *)
<1>1. ASSUME NEW evs \in Seq(Event), Done(evs), UNCHANGED lifecycle,
             NoneForced(evs), NoneEarly(evs)
      PROVE  Flow'
  <2>1. /\ SentWhileRunning'
        /\ UNCHANGED <<inbox["supervisor"], pipe>> /\ batch' = Tail(batch)
    BY <1>0, <1>1, FlowDone DEF Flow
  <2>2. InOrder'
    BY <1>t, <2>1 DEF Flow, InOrder, Precedes
  <2>3. GracefulComesFirst' /\ NoneLeft'
    BY <1>1, <1>t, <2>1 DEF Flow, GracefulComesFirst, NoneLeft
  <2> QED BY <2>1, <2>2, <2>3 DEF Flow
<1>2. ASSUME NEW e \in Event, e.kind \notin {"Run", "ShuttingDownInitiated"}
      PROVE  <<e>> \in Seq(Event) /\ NoneForced(<<e>>) /\ NoneEarly(<<e>>)
  BY <1>2, OrdinaryEvents DEF NoneForced, NoneEarly
<1>3. <<>> \in Seq(Event) /\ NoneForced(<<>>) /\ NoneEarly(<<>>)
  BY EmptyQueue
<1>4. CASE HandleShuttingDownInitiated
  <2>0. Done(<<>>) /\ lifecycle' = ev.mode /\ SentWhileRunning
    BY <1>4 DEF HandleShuttingDownInitiated, Flow
  <2>1. /\ SentWhileRunning'
        /\ UNCHANGED <<inbox["supervisor"], pipe>> /\ batch' = Tail(batch)
        /\ lifecycle' = ev.mode
    BY <1>0, <1>3, <2>0, FlowDone
  <2>2. ev.mode \in ShuttingDown /\ ev.kind = "ShuttingDownInitiated"
    BY <1>0, <1>4, EventFields DEF HandleShuttingDownInitiated, Handling
  <2>3. InOrder'
    BY <1>t, <2>1 DEF Flow, InOrder, Precedes
  <2>4. GracefulComesFirst'
    BY <2>1, <2>2 DEF GracefulComesFirst, ShuttingDown
  <2>5. NoneLeft'
    <3> SUFFICES ASSUME ev.mode = "Forcefully"
                 PROVE  NoneLeft'
      BY <2>1 DEF NoneLeft
    <3>1. Forced(ev)
      BY <2>2 DEF Forced
    <3>2. ~NoneForced(batch)
      BY <1>t, <3>1
    <3> QED BY <1>t, <2>1, <3>1, <3>2 DEF Flow, InOrder, Precedes, NoneLeft
  <2> QED BY <2>1, <2>3, <2>4, <2>5 DEF Flow
<1>5. CASE HandleRunPrepareFails
  <2> DEFINE update == StatusUpdate(s, "FinishedFailed")
             shutdown == ShuttingDownInitiated("Gracefully")
             evs == <<update, shutdown>>
  <2>1. s \in Services /\ ~PreparationsSucceed
    BY <1>0, <1>5, EventFields
    DEF HandleRunPrepareFails, Handling, PreparationsSucceed
  <2>2. update \in Event /\ shutdown \in Event
    BY <2>1, EventConstructors DEF Statuses, ShuttingDown
  <2>3. NoneForced(evs) /\ NoneEarly(evs)
    <3>1. ~Forced(update) /\ ~Early(update)
      BY OrdinaryEvents
    <3>2. ~Forced(shutdown) /\ ~Early(shutdown)
      BY <2>1 DEF Forced, Early, ShuttingDownInitiated
    <3> HIDE DEF update, shutdown
    <3> QED BY <3>1, <3>2 DEF NoneForced, NoneEarly
  <2>4. Done(evs) /\ lifecycle' = "Gracefully"
    BY <1>5 DEF HandleRunPrepareFails
  <2>5. evs \in Seq(Event)
    BY <2>2, EventLists
  <2> HIDE DEF evs
  <2>6. /\ SentWhileRunning'
        /\ UNCHANGED <<inbox["supervisor"], pipe>> /\ batch' = Tail(batch)
    BY <1>0, <2>3, <2>4, <2>5, FlowDone DEF Flow
  <2>7. InOrder'
    BY <1>t, <2>6 DEF Flow, InOrder, Precedes
  <2>8. GracefulComesFirst' /\ NoneLeft'
    BY <2>4 DEF GracefulComesFirst, NoneLeft
  <2> QED BY <2>6, <2>7, <2>8 DEF Flow
(* What the other handlers answer.                                         *)
<1>6. CASE \/ HandleServiceExited \/ HandleRun \/ HandleSpawnFailed
           \/ HandleForceKill \/ HandlePidChanged \/ HandleStatusUpdate
  <2>1. TypeOK'
    BY HandleEventType
  <2>2. s \in Services
    BY <1>0, <1>6, EventFields
    DEF HandleServiceExited, HandleRun, HandleSpawnFailed, HandleForceKill,
        HandlePidChanged, HandleStatusUpdate, Handling
  <2>3. /\ UNCHANGED lifecycle
        /\ \/ Done(<<>>)
           \/ \E st \in Statuses : Done(<<StatusChanged(s, st)>>)
           \/ Done(<<StatusUpdate(s, "Failed")>>)
    <3>1. CASE HandleServiceExited
      <4> DEFINE st == ExitedHandler(s, ev.ok).status
      <4>1. sh' = [sh EXCEPT ![s] = ExitedHandler(s, ev.ok)]
        BY <3>1 DEF HandleServiceExited
      <4>2. st \in Statuses
        BY <2>1, <2>2, <4>1 DEF TypeOK, SupervisorTypeOK, ServiceHandlerType
      <4>3. Done(<<StatusChanged(s, st)>>) /\ UNCHANGED lifecycle
        BY <3>1 DEF HandleServiceExited
      <4> QED BY <4>2, <4>3
    <3>2. CASE HandleRun
      BY <3>2 DEF HandleRun, Statuses
    <3>3. CASE HandleSpawnFailed
      BY <3>3 DEF HandleSpawnFailed
    <3>4. CASE HandleForceKill
      BY <3>4 DEF HandleForceKill, Statuses
    <3>5. CASE HandlePidChanged
      BY <3>5 DEF HandlePidChanged, Statuses
    <3>6. CASE HandleStatusUpdate
      <4> DEFINE h == ChangeStatus(sh[s], ev.status)
      <4>1. /\ sh' = [sh EXCEPT ![s] = h] /\ UNCHANGED lifecycle
            /\ Done(IF h.status = sh[s].status THEN <<>>
                    ELSE <<StatusChanged(s, h.status)>>)
        BY <3>6 DEF HandleStatusUpdate
      <4>2. h.status \in Statuses
        BY <2>1, <2>2, <4>1 DEF TypeOK, SupervisorTypeOK, ServiceHandlerType
      <4>3. Done(<<>>) \/ Done(<<StatusChanged(s, h.status)>>)
        BY <4>1
      <4> QED BY <4>1, <4>2, <4>3
    <3> QED BY <1>6, <3>1, <3>2, <3>3, <3>4, <3>5, <3>6
  <2>4. /\ StatusUpdate(s, "Failed") \in Event
        /\ StatusUpdate(s, "Failed").kind = "StatusUpdate"
        /\ \A st \in Statuses : /\ StatusChanged(s, st) \in Event
                                /\ StatusChanged(s, st).kind = "StatusChanged"
    BY <2>2, EventConstructors, OrdinaryEvents DEF Statuses
  <2>5. CASE Done(<<>>)
    BY <1>1, <1>3, <2>3, <2>5
  <2>6. CASE Done(<<StatusUpdate(s, "Failed")>>)
    BY <1>1, <1>2, <2>3, <2>4, <2>6
  <2>7. ASSUME NEW st \in Statuses, Done(<<StatusChanged(s, st)>>)
        PROVE  Flow'
    BY <1>1, <1>2, <2>3, <2>4, <2>7
  <2> QED BY <2>3, <2>5, <2>6, <2>7
<1>7. CASE HandleKill \/ HandleHealthCheck \/ HandleIgnored
  BY <1>1, <1>3, <1>7 DEF HandleKill, HandleHealthCheck, HandleIgnored
<1>8. CASE PanicOnServiceExited
  BY <1>8 DEF PanicOnServiceExited, SupervisorIsUp
<1> QED
  BY <1>4, <1>5, <1>6, <1>7, <1>8 DEF HandleEvent

-----------------------------------------------------------------------------
(* The other threads and the environment                                   *)

(* The monitor reads its own queue and reports health.                     *)
LEMMA FlowMonitor ==
  ASSUME TypeOK, Flow, MonitorThread
  PROVE  Flow'
<1> DEFINE mail == inbox["healthcheck"]
<1>1. /\ inbox \in [Connectors -> Seq(Event)]
      /\ UNCHANGED <<lifecycle, phase, batch, out>>
  BY DEF TypeOK, BusTypeOK, MonitorThread, supervisorVars, threadVars
<1>2. UNCHANGED inbox["supervisor"]
  BY <1>1
  DEF MonitorThread, MonitorStep, ReportWithoutChecks, StartWorker, StopWorker,
      WorkerIsStopped, StopAllWorkers, MonitorEnds, MonitorPanics, Consume, Leave, busVars,
      Connectors
<1>3. CASE UNCHANGED pipe
  BY <1>1, <1>2, <1>3, FlowStutter DEF queueVars
<1>4. CASE ReportWithoutChecks
  <2>1. Head(mail) \in Event /\ Head(mail).kind = "StatusChanged"
    BY <1>1, <1>4 DEF ReportWithoutChecks, Monitoring, Connectors
  <2>2. Head(mail).svc \in Services
    BY <2>1, EventFields
  <2>3. HealthCheck(Head(mail).svc, TRUE) \in Event
    BY <2>2, EventConstructors
  <2>4. pipe' = Append(pipe, HealthCheck(Head(mail).svc, TRUE))
    BY <1>4 DEF ReportWithoutChecks
  <2>5. HealthCheck(Head(mail).svc, TRUE).kind = "HealthCheck"
    BY OrdinaryEvents
  <2> QED BY <1>1, <1>2, <2>3, <2>4, <2>5, FlowOrdinary
<1>5. UNCHANGED pipe \/ ReportWithoutChecks
  BY DEF MonitorThread, MonitorStep, StartWorker, StopWorker,
         WorkerIsStopped, StopAllWorkers, MonitorEnds, MonitorPanics, busVars
<1> QED BY <1>3, <1>4, <1>5

(* A spawner sends a pid or a failure, a worker a report.                  *)
LEMMA FlowThreads ==
  ASSUME TypeOK, Flow, NEW s \in Services, SpawnerThread(s) \/ WorkerThread(s)
  PROVE  Flow'
<1>1. UNCHANGED <<lifecycle, phase, batch, inbox["supervisor"], out>>
  BY DEF SpawnerThread, SpawnerStep, SpawnerForks, SpawnerReports,
         SpawnerFails, SpawnerGivesUp, WorkerThread, WorkerStep, WorkerReports,
         WorkerEnds, CommandStarts, CommandCannotStart, WorkerWaits,
         CommandEnds, CommandIsStolen, WorkerPanics, busVars, threadVars,
         supervisorVars
<1>2. CASE UNCHANGED pipe
  BY <1>1, <1>2, FlowStutter DEF queueVars
<1>3. \/ UNCHANGED pipe
      \/ \E p \in Pids : pipe' = Append(pipe, PidChanged(s, p))
      \/ pipe' = Append(pipe, SpawnFailed(s))
      \/ \E b \in BOOLEAN : pipe' = Append(pipe, HealthCheck(s, b))
  <2>1. spawners[s].forked \in SUBSET Pids
    BY DEF TypeOK, SupervisorTypeOK, Spawners
  <2>2. CASE SpawnerThread(s)
    BY <2>1, <2>2
    DEF SpawnerThread, SpawnerStep, SpawnerForks, SpawnerReports, SpawnerFails,
        SpawnerGivesUp, busVars
  <2>3. CASE WorkerReports(s) \/ WorkerEnds(s)
    BY <2>3 DEF WorkerReports, WorkerEnds, FastOutcomes, Reports
  <2>4. CASE CommandEnds(s)
    <3>1. command[s] \in Pids
      BY <2>4 DEF CommandEnds, TypeOK, HealthcheckTypeOK
    <3>2. proc[command[s]].ok \in BOOLEAN
      BY <3>1 DEF TypeOK, ProcessesTypeOK, Process
    <3> QED BY <2>4, <3>2 DEF CommandEnds, Reports
  <2>5. CASE CommandStarts(s) \/ WorkerPanics(s)
    BY <2>5 DEF CommandStarts, WorkerPanics, busVars
  <2> QED
    BY <2>2, <2>3, <2>4, <2>5
    DEF WorkerThread, WorkerStep, WorkerWaits, CommandCannotStart,
        CommandIsStolen
<1>4. ASSUME NEW p \in Pids, pipe' = Append(pipe, PidChanged(s, p))
      PROVE  Flow'
  BY <1>1, <1>4, EventConstructors, OrdinaryEvents, FlowOrdinary
<1>5. CASE pipe' = Append(pipe, SpawnFailed(s))
  BY <1>1, <1>5, EventConstructors, OrdinaryEvents, FlowOrdinary
<1>6. ASSUME NEW b \in BOOLEAN, pipe' = Append(pipe, HealthCheck(s, b))
      PROVE  Flow'
  BY <1>1, <1>6, EventConstructors, OrdinaryEvents, FlowOrdinary
<1> QED BY <1>2, <1>3, <1>4, <1>5, <1>6

-----------------------------------------------------------------------------
(* The theorems                                                            *)

(* The order of events on their way to the supervisor is an invariant.     *)
LEMMA FlowInvariant == Spec => []FlowInv
<1>1. Init => FlowInv
  <2> SUFFICES ASSUME Init
               PROVE  Flow
    BY InitType DEF FlowInv
  <2> QED
    BY EmptyQueue
    DEF Init, BusInit, SupervisorInit, Connectors, Flow, InOrder, Precedes,
        GracefulComesFirst, NoneLeft, SentWhileRunning
<1>2. FlowInv /\ [Next]_vars => FlowInv'
  <2> SUFFICES ASSUME FlowInv, [Next]_vars, SupervisorIsUp'
               PROVE  Flow'
    BY NextType DEF FlowInv
  <2>0. TypeOK
    BY DEF FlowInv
  <2>1. CASE SupervisorThread
    <3>1. Flow
      BY <2>1
      DEF FlowInv, SupervisorIsUp, SupervisorThread, SupervisorStep, Ingest,
          Asleep, HandleEvent, HandleServiceExited, PanicOnServiceExited,
          HandleRun, HandleRunPrepareFails, HandleSpawnFailed, HandleKill,
          HandleForceKill, HandlePidChanged, HandleHealthCheck,
          HandleShuttingDownInitiated, HandleStatusUpdate, HandleIgnored,
          Handling, Produce, Send, Return
    <3>2. CASE Return
      BY <3>2 DEF Return, SupervisorIsUp
    <3> QED
      BY <2>0, <2>1, <3>1, <3>2, FlowIngest, FlowHandle, FlowProduce, FlowSent
      DEF SupervisorThread, SupervisorStep
  <2>2. CASE ~SupervisorThread
    <3>1. UNCHANGED phase
      BY <2>2
      DEF Next, Idle, vars, Dispatch, MonitorThread, SpawnerThread,
          SpawnerStep, SpawnerForks, SpawnerReports, SpawnerFails,
          SpawnerGivesUp, WorkerThread, Environment, HandleSigterm,
          ProcessExits, GraceExpires, supervisorVars, threadVars
    <3>2. Flow
      BY <3>1 DEF FlowInv, SupervisorIsUp
    <3>3. CASE Environment \/ UNCHANGED vars
      <4>1. UNCHANGED queueVars
        BY <3>3
        DEF vars, Environment, HandleSigterm, ProcessExits, GraceExpires,
            supervisorVars, threadVars, busVars, queueVars
      <4> QED BY <3>2, <4>1, FlowStutter
    <3> QED
      BY <2>0, <2>2, <3>2, <3>3, FlowDispatch, FlowMonitor, FlowThreads
      DEF Next, Idle
  <2> QED BY <2>1, <2>2
<1> QED BY <1>1, <1>2, PTL DEF Spec

(* No spawner thread is started once the shutdown is forceful, for any     *)
(* services and however far the bus lags behind: the Run arm of            *)
(* handle_event is never reached any more.                                 *)
THEOREM NoSpawnWhenForced == Spec => NothingSpawnedWhenForced
<1>1. FlowInv /\ [Next]_vars =>
        [\A s \in Services : lifecycle = "Forcefully" => ~Spawned(s)]_vars
  <2> SUFFICES ASSUME FlowInv, Next, NEW s \in Services,
                      lifecycle = "Forcefully", Spawned(s)
               PROVE  FALSE
    OBVIOUS
  <2>0. TypeOK
    BY DEF FlowInv
  <2>t. /\ spawners \in [Services -> Spawners]
        /\ spawners[s].fresh \in Nat /\ spawners[s].told \in Nat
    BY <2>0 DEF TypeOK, SupervisorTypeOK, Spawners
  <2>1. HandleRun
    <3>1. ~UNCHANGED spawners
      BY <2>t DEF Spawned, StillToFork
    <3>2. ASSUME NEW x \in Services, SpawnerThread(x)
          PROVE  FALSE
      <4>0. spawners[x] \in Spawners /\ spawners[s] \in Spawners
        BY <2>t
      <4>1. spawners'[s].fresh + spawners'[s].told
              <= spawners[s].fresh + spawners[s].told
        <5>1. CASE SpawnerForks(x)
          <6>1. PICK p :
                  \/ /\ spawners[x].fresh > 0
                     /\ spawners' = [spawners EXCEPT ![x].fresh = @ - 1,
                                                     ![x].forked = @ \cup {p}]
                  \/ /\ spawners[x].told > 0
                     /\ spawners' = [spawners EXCEPT ![x].told = @ - 1,
                                                     ![x].forked = @ \cup {p}]
            BY <5>1 DEF SpawnerForks
          <6> QED BY <2>t, <4>0, <6>1 DEF Spawners
        <5>2. CASE SpawnerReports(x)
          <6>1. PICK p : spawners' = [spawners EXCEPT ![x].forked = @ \ {p}]
            BY <5>2 DEF SpawnerReports
          <6>2. /\ spawners'[s].fresh = spawners[s].fresh
                /\ spawners'[s].told = spawners[s].told
            BY <2>t, <4>0, <6>1 DEF Spawners
          <6> QED BY <2>t, <6>2
        <5>3. CASE SpawnerFails(x) \/ SpawnerGivesUp(x)
          <6>1. \/ spawners' = [spawners EXCEPT ![x].fresh = @ - 1]
                \/ spawners' = [spawners EXCEPT ![x].told = @ - 1]
            BY <5>3 DEF SpawnerFails, SpawnerGivesUp, SpawnerEnds
          <6>2. CASE s = x
            BY <2>t, <4>0, <6>1, <6>2 DEF Spawners
          <6>3. CASE s # x
            BY <2>t, <4>0, <6>1, <6>3 DEF Spawners
          <6> QED BY <6>2, <6>3
        <5> QED BY <3>2, <5>1, <5>2, <5>3 DEF SpawnerThread, SpawnerStep
      <4>2. StillToFork(s)' = spawners'[s].fresh + spawners'[s].told
        BY DEF StillToFork
      <4>3. TypeOK'
        BY <2>0, <3>2, SpawnerType
      <4>4. spawners'[s].fresh \in Nat /\ spawners'[s].told \in Nat
        BY <4>3 DEF TypeOK, SupervisorTypeOK, Spawners
      <4> QED BY <2>t, <4>1, <4>2, <4>4 DEF Spawned, StillToFork
    <3>3. CASE Dispatch
      <4>1. \/ UNCHANGED spawners
            \/ spawners'[s].fresh = 0 /\ spawners'[s].told = StillToFork(s)
        <5>1. spawners[s] \in Spawners
          BY <2>t
        <5> QED BY <2>t, <3>3, <5>1 DEF Dispatch, SpawnersHear, Spawners
      <4>2. StillToFork(s) \in Nat
        BY <2>t DEF StillToFork
      <4> QED BY <3>1, <4>1, <4>2 DEF Spawned, StillToFork
    <3>4. CASE SupervisorThread
      BY <3>1, <3>4
      DEF SupervisorThread, SupervisorStep, Ingest, HandleEvent,
          HandleServiceExited, PanicOnServiceExited, HandleRunPrepareFails,
          HandleSpawnFailed, HandleKill, HandleForceKill, HandlePidChanged,
          HandleHealthCheck, HandleShuttingDownInitiated, HandleStatusUpdate,
          HandleIgnored, Produce, Send, Return
    <3> QED
      BY <3>1, <3>2, <3>3, <3>4
      DEF Next, Idle, vars, MonitorThread, WorkerThread, Environment,
          HandleSigterm, ProcessExits, GraceExpires, supervisorVars
  <2>2. /\ batch # <<>> /\ Head(batch).kind = "Run" /\ phase = "handling"
        /\ batch \in Seq(Event)
    BY <2>0, <2>1 DEF HandleRun, Handling, TypeOK, SupervisorTypeOK
  <2>3. NoneEarly(batch)
    BY <2>2 DEF FlowInv, SupervisorIsUp, Flow, NoneLeft
  <2> QED BY <2>2, <2>3, TakenOff DEF Early
<1> QED BY <1>1, FlowInvariant, PTL DEF Spec, NothingSpawnedWhenForced

(* Where the preparation of checks never fails, a shutdown only gets        *)
(* stronger, and only when a ShuttingDownInitiated is handled.             *)
LEMMA OnlyStronger ==
  ASSUME PreparationsSucceed, FlowInv, Next
  PROVE  /\ lifecycle = "Forcefully" => lifecycle' = "Forcefully"
         /\ lifecycle = "Gracefully" => lifecycle' # "Running"
         /\ UNCHANGED lifecycle \/ HandleShuttingDownInitiated
<1>0. TypeOK
  BY DEF FlowInv
<1>1. CASE HandleShuttingDownInitiated
  <2>1. /\ batch # <<>> /\ batch \in Seq(Event) /\ phase = "handling"
        /\ Head(batch).kind = "ShuttingDownInitiated"
        /\ lifecycle' = Head(batch).mode
    BY <1>0, <1>1
    DEF HandleShuttingDownInitiated, Handling, TypeOK, SupervisorTypeOK
  <2>2. Head(batch).mode \in ShuttingDown
    BY <2>1, EventFields
  <2>3. lifecycle = "Forcefully" => ~Early(Head(batch))
    BY <2>1, TakenOff DEF FlowInv, SupervisorIsUp, Flow, NoneLeft
  <2> QED BY <1>1, <2>1, <2>2, <2>3 DEF Early, ShuttingDown
<1>2. CASE HandleRunPrepareFails
  <2>1. Head(batch).kind = "Run" /\ batch # <<>>
    BY <1>2 DEF HandleRunPrepareFails, Handling
  <2>2. Head(batch).svc \in Services
    BY <1>0, <2>1, HeadOfBatch, EventFields DEF TypeOK
  <2> QED BY <1>2, <2>2 DEF HandleRunPrepareFails, PreparationsSucceed
<1>3. CASE ~HandleShuttingDownInitiated /\ ~HandleRunPrepareFails
  <2>1. UNCHANGED lifecycle
    BY <1>3
    DEF Next, Idle, vars, SupervisorThread, SupervisorStep, Ingest,
        HandleEvent, HandleServiceExited, PanicOnServiceExited, HandleRun,
        HandleSpawnFailed, HandleKill, HandleForceKill, HandlePidChanged,
        HandleHealthCheck, HandleStatusUpdate, HandleIgnored, Produce, Send,
        Return, Dispatch, MonitorThread, SpawnerThread, SpawnerStep,
        SpawnerForks, SpawnerReports, SpawnerFails, SpawnerGivesUp,
        WorkerThread, Environment, HandleSigterm, ProcessExits, GraceExpires,
        supervisorVars, threadVars
  <2> QED BY <2>1
<1> QED BY <1>1, <1>2, <1>3

(* Where the preparation of checks never fails, a shutdown only escalates: *)
(* every graceful ShuttingDownInitiated, of a signal or of a failing       *)
(* service, is handled before the forceful one.                            *)
THEOREM Escalation ==
  ASSUME PreparationsSucceed
  PROVE  Spec => ShutdownOnlyEscalates
<1>1. FlowInv /\ [Next]_vars =>
        [/\ lifecycle = "Forcefully" => lifecycle' = "Forcefully"
         /\ lifecycle = "Gracefully" => lifecycle' # "Running"]_vars
  BY OnlyStronger
<1> QED BY <1>1, FlowInvariant, PTL DEF Spec, ShutdownOnlyEscalates

=============================================================================

--------------------------- MODULE CommandsProofs ---------------------------
(***************************************************************************)
(* What horustctl is told, proved for every set of services, every         *)
(* configuration and any number of clients: when nothing is under way, the *)
(* commands handler's copy of the statuses is right, although some changes *)
(* of status are never announced, and others too early or twice.           *)
(***************************************************************************)
EXTENDS HorustCommands, InstanceProofs, NumberProofs

-----------------------------------------------------------------------------
(* What will have been told of a service                                   *)

Announces(e, s) == e.kind = "StatusChanged" /\ e.svc = s
ToldIn(q, s) == {i \in DOMAIN q : Announces(q[i], s)}

(* What is known of s when the events of q have come, the last one winning; *)
After(known, q, s) ==
  IF ToldIn(q, s) = {} THEN known ELSE q[Max(ToldIn(q, s))].status

(* and when those of several lists have.                                   *)
Speaking(lists, s) == {k \in DOMAIN lists : ToldIn(lists[k], s) # {}}
AfterAll(known, lists, s) ==
  IF Speaking(lists, s) = {} THEN known
  ELSE After(known, lists[Max(Speaking(lists, s))], s)

(* What the commands handler will know when it has heard everything.       *)
WillBeTold(s) ==
  AfterAll(After(After(services[s], heard, s), pipe, s), out, s)

-----------------------------------------------------------------------------
(* The inductive invariant                                                 *)

(* The commands handler has ended, or is going to when it hears of a       *)
(* shutdown.                                                               *)
CommandsEnd ==
  \/ CommandsHaveEnded
  \/ ~Without(heard, Shutdowns)
  \/ ~Without(pipe, Shutdowns)
  \/ ~AllWithout(out, Shutdowns)

(* What takes a failed service on.                                         *)
WaysOut(s) == {StatusUpdate(s, st) : st \in {"Initial", "FinishedFailed"}}

(* What will be told is right, but for what a failed spawn and an early    *)
(* announcement of a forced kill leave to an event that is under way, and  *)
(* for a failed preparation of checks, which ends the commands handler.    *)
RightlyTold(s) ==
  \/ WillBeTold(s) = sh[s].status
  \/ sh[s].status = "Failed"
  \/ sh[s].status = "InKilling" /\ ~Nowhere({ForceKill(s)})
  \/ CommandsEnd

GoesOn(s) ==
  phase = "producing" /\ sh[s].status = "Failed" => ~Nowhere(WaysOut(s))

MirrorInv ==
  /\ phase = "producing" => batch = <<>>
  /\ SupervisorIsUp =>
       /\ "supervisor" \in joined
       /\ \A s \in Services : RightlyTold(s) /\ GoesOn(s)

-----------------------------------------------------------------------------
(* Types                                                                   *)

(* A step of Horust with its commands handler is one of Horust, or none.   *)
LEMMA NextOfHorust == [NextAll]_allVars => [Next]_vars
BY DEF NextAll, OtherThread, DispatchAll, CommandsThread, ClientProcess,
       IdleAll, allVars, Next

(* The commands handler, and what it answers.                              *)
LEMMA CommandsType ==
  ASSUME CommandsTypeOK, CommandsStep
  PROVE  CommandsTypeOK'
<1> USE DEF CommandsTypeOK
<1>1. CASE Bind
  BY <1>1 DEF Bind, SocketFiles
<1>2. CASE TakeEvents
  <2>1. Applied(services, heard) \in [Services -> Statuses]
    <3>1. ASSUME NEW s \in Services
          PROVE  After(services[s], heard, s) \in Statuses
      <4>1. CASE ToldIn(heard, s) = {}
        BY <4>1 DEF After
      <4>2. CASE ToldIn(heard, s) # {}
        <5>1. Len(heard) \in Nat /\ ToldIn(heard, s) \in SUBSET (0..Len(heard))
          BY DEF ToldIn
        <5>2. Max(ToldIn(heard, s)) \in ToldIn(heard, s)
          BY <4>2, <5>1, MaxIsGreatest
        <5>3. /\ heard[Max(ToldIn(heard, s))] \in Event
              /\ heard[Max(ToldIn(heard, s))].kind = "StatusChanged"
          BY <5>2 DEF ToldIn, Announces
        <5> QED BY <4>2, <5>3, EventFields DEF After
      <4> QED BY <4>1, <4>2
    <3> QED BY <3>1 DEF Applied, After, ToldIn, Announces
  <2> QED BY <1>2, <2>1 DEF TakeEvents
<1>3. CASE FindNothing
  BY <1>3 DEF FindNothing, commandVars
<1>4. CASE EndCommands
  <2>1. \A c \in Clients : [client[c] EXCEPT !.state = "reset"] \in Client
    BY DEF Client
  <2> QED BY <1>4, <2>1 DEF EndCommands
<1>5. CASE Accept
  <2>1. backlog # <<>> =>
          Head(backlog) \in Clients /\ Tail(backlog) \in Seq(Clients)
    OBVIOUS
  <2> QED BY <1>5, <2>1 DEF Accept
<1>6. CASE HandleConnection
  <2>1. ASSUME peer \in Clients
        PROVE  Reply(peer) \in Statuses \cup {"error", "nothing", None}
    <3>1. CASE client[peer].state = "hung up"
      BY <3>1 DEF Reply
    <3>2. CASE /\ client[peer].state # "hung up"
               /\ client[peer].request \in Services
      BY <3>2 DEF Reply
    <3>3. CASE /\ client[peer].state # "hung up"
               /\ client[peer].request \notin Services
      BY <3>3 DEF Reply
    <3> QED BY <3>1, <3>2, <3>3
  <2>2. client' = [client EXCEPT ![peer].state = "told",
                                 ![peer].reply = Reply(peer)]
    BY <1>6 DEF HandleConnection
  <2>3. ASSUME peer \in Clients
        PROVE  [client[peer] EXCEPT !.state = "told", !.reply = Reply(peer)]
                 \in Client
    <3>1. client[peer] \in Client
      BY <2>3
    <3> QED BY <2>1, <2>3, <3>1 DEF Client
  <2>4. client' \in [Clients -> Client]
    BY <2>2, <2>3
  <2> QED BY <1>6, <2>4 DEF HandleConnection
<1> QED BY <1>1, <1>2, <1>3, <1>4, <1>5, <1>6 DEF CommandsStep

LEMMA ClientType ==
  ASSUME CommandsTypeOK, NEW c \in Clients, ClientStep(c)
  PROVE  CommandsTypeOK'
<1>1. CASE Connect(c)
  <2>1. \A st \in {"connected", "refused"} :
          [client EXCEPT ![c].state = st] \in [Clients -> Client]
    <3>1. ASSUME NEW st \in {"connected", "refused"}
          PROVE  [client[c] EXCEPT !.state = st] \in Client
      BY DEF CommandsTypeOK, Client
    <3> QED BY <3>1 DEF CommandsTypeOK
  <2>2. Append(backlog, c) \in Seq(Clients)
    BY DEF CommandsTypeOK
  <2>3. /\ client' \in [Clients -> Client] /\ backlog' \in Seq(Clients)
        /\ UNCHANGED <<heard, services, server, peer, sockets>>
    BY <1>1, <2>1, <2>2 DEF Connect, CommandsTypeOK
  <2> QED BY <2>3 DEF CommandsTypeOK
<1>2. CASE Ask(c)
  <2>1. \A r \in Requests :
          [client[c] EXCEPT !.state = "asked", !.request = r] \in Client
    BY DEF CommandsTypeOK, Client
  <2>2. PICK r \in Requests :
          client' = [client EXCEPT ![c] = [client[c] EXCEPT !.state = "asked",
                                                            !.request = r]]
    BY <1>2 DEF Ask
  <2> QED BY <1>2, <2>1, <2>2 DEF Ask, CommandsTypeOK
<1>3. CASE HangUp(c)
  <2>1. [client[c] EXCEPT !.state = "hung up"] \in Client
    BY DEF CommandsTypeOK, Client
  <2>2. client' = [client EXCEPT ![c] = [client[c] EXCEPT !.state = "hung up"]]
    BY <1>3 DEF HangUp
  <2> QED BY <1>3, <2>1, <2>2 DEF HangUp, CommandsTypeOK
<1> QED BY <1>1, <1>2, <1>3 DEF ClientStep

LEMMA AllTypes ==
  /\ InitAll => AllTypeOK
  /\ AllTypeOK /\ [NextAll]_allVars => AllTypeOK'
<1>1. ASSUME InitAll PROVE AllTypeOK
  BY <1>1, InitType, CommandsAssumption
  DEF InitAll, AllTypeOK, CommandsInit, CommandsTypeOK, Client, Statuses,
      SocketFiles
<1>2. ASSUME AllTypeOK, [NextAll]_allVars
      PROVE  AllTypeOK'
  <2>1. TypeOK'
    BY <1>2, NextOfHorust, NextType DEF AllTypeOK
  <2>2. CommandsTypeOK'
    <3>1. CASE UNCHANGED commandVars
      BY <1>2, <3>1 DEF AllTypeOK, CommandsTypeOK, commandVars
    <3>2. CASE DispatchAll
      <4>1. Head(pipe) \in Event
        BY <1>2, <3>2 DEF AllTypeOK, TypeOK, BusTypeOK, DispatchAll, Dispatch,
                          Deliver
      <4> QED BY <1>2, <3>2, <4>1
              DEF AllTypeOK, CommandsTypeOK, DispatchAll, CommandsHear
    <3>3. CASE CommandsThread
      BY <1>2, <3>3, CommandsType DEF AllTypeOK, CommandsThread
    <3>4. CASE \E c \in Clients : ClientProcess(c)
      BY <1>2, <3>4, ClientType DEF AllTypeOK, ClientProcess
    <3> QED BY <1>2, <3>1, <3>2, <3>3, <3>4
            DEF NextAll, OtherThread, IdleAll, allVars
  <2> QED BY <2>1, <2>2 DEF AllTypeOK
<1> QED BY <1>1, <1>2

(* Every variable keeps its type: what is answered is the status of a      *)
(* service, an error, or nothing.                                          *)
THEOREM CommandsTyping == SpecAll => []AllTypeOK
BY AllTypes, PTL DEF SpecAll

-----------------------------------------------------------------------------
(* Queues of announcements                                                 *)

(* The greatest of a bounded set of numbers, as a number of its own.       *)
LEMMA Largest ==
  ASSUME NEW b \in Nat, NEW T \in SUBSET (0..b)
  PROVE  /\ T # {} =>
              \E m \in Nat : m = Max(T) /\ m \in T /\ \A n \in T : n <= m
         /\ \A m \in T : (\A n \in T : n <= m) => Max(T) = m
<1>1. \A n \in T : n \in Nat
  OBVIOUS
<1>2. ASSUME T # {}
      PROVE  \E m \in Nat : m = Max(T) /\ m \in T /\ \A n \in T : n <= m
  <2>1. Max(T) \in T /\ \A n \in T : Max(T) >= n
    BY <1>2, MaxIsGreatest
  <2> DEFINE m == Max(T)
  <2>2. m \in Nat /\ m \in T /\ \A n \in T : m >= n
    BY <1>1, <2>1
  <2> HIDE DEF m
  <2>3. \A n \in T : n <= m
    BY <1>1, <2>2
  <2> QED BY <2>2, <2>3 DEF m
<1>3. ASSUME NEW m \in T, \A n \in T : n <= m
      PROVE  Max(T) = m
  <2>1. PICK k \in Nat : k = Max(T) /\ k \in T /\ \A n \in T : n <= k
    BY <1>2, <1>3
  <2>2. k <= m /\ m <= k /\ m \in Nat
    BY <1>1, <1>3, <2>1
  <2> QED BY <2>1, <2>2
<1> QED BY <1>2, <1>3

Quiet(q, s) == \A i \in DOMAIN q : ~Announces(q[i], s)
LastTold(q, s, m) ==
  /\ m \in DOMAIN q /\ Announces(q[m], s)
  /\ \A i \in DOMAIN q : i > m => ~Announces(q[i], s)

(* A queue is quiet about s, or has a last word on it.                     *)
LEMMA QuietOrNot ==
  ASSUME NEW q \in Seq(Event), NEW s
  PROVE  /\ ToldIn(q, s) = {} <=> Quiet(q, s)
         /\ Quiet(q, s) \/ \E m \in Nat : LastTold(q, s, m)
         /\ Quiet(q, s) => \A known : After(known, q, s) = known
         /\ \A m \in Nat : LastTold(q, s, m) =>
              \A known : After(known, q, s) = q[m].status
<1> DEFINE T == ToldIn(q, s)
<1>1. Len(q) \in Nat /\ DOMAIN q = 1..Len(q) /\ T \in SUBSET (0..Len(q))
  BY DEF ToldIn
<1>2. \A i : i \in T <=> i \in DOMAIN q /\ Announces(q[i], s)
  BY DEF ToldIn
<1>3. T = {} <=> Quiet(q, s)
  BY <1>2 DEF Quiet
<1>4. \A known :
        After(known, q, s) = IF T = {} THEN known ELSE q[Max(T)].status
  BY DEF After
<1> HIDE DEF T
<1>5. ASSUME T # {}
      PROVE  \E m \in Nat : LastTold(q, s, m)
  <2>1. PICK m \in Nat : m \in T /\ \A n \in T : n <= m
    BY <1>1, <1>5, Largest
  <2>2. \A i \in DOMAIN q : i > m => i \notin T
    BY <1>1, <2>1
  <2> QED BY <1>2, <2>1, <2>2 DEF LastTold
<1>6. ASSUME NEW m \in Nat, LastTold(q, s, m)
      PROVE  T # {} /\ Max(T) = m
  <2>1. m \in T
    BY <1>1, <1>2, <1>6 DEF LastTold
  <2>2. ASSUME NEW n \in T PROVE n <= m
    <3>1. n \in DOMAIN q /\ ~(n > m) /\ n \in Nat
      BY <1>1, <1>2, <1>6 DEF LastTold
    <3> QED BY <2>1, <3>1
  <2> QED BY <1>1, <2>1, <2>2, Largest
<1>7. ToldIn(q, s) = T
  BY DEF T
<1> QED BY <1>3, <1>4, <1>5, <1>6, <1>7

LEMMA QuietQueue ==
  ASSUME NEW q \in Seq(Event), NEW s, Quiet(q, s), NEW known
  PROVE  After(known, q, s) = known
BY QuietOrNot

LEMMA LastWord ==
  ASSUME NEW q \in Seq(Event), NEW s, NEW m \in Nat, LastTold(q, s, m),
         NEW known
  PROVE  After(known, q, s) = q[m].status
BY QuietOrNot

LEMMA SomeWord ==
  ASSUME NEW q \in Seq(Event), NEW s, ~Quiet(q, s)
  PROVE  \E m \in Nat : LastTold(q, s, m)
BY QuietOrNot

(* What was known before does not matter to a queue with a last word.      *)
LEMMA LoudQueue ==
  ASSUME NEW q \in Seq(Event), NEW s, ~Quiet(q, s), NEW known, NEW other
  PROVE  After(known, q, s) = After(other, q, s)
<1>1. PICK m \in Nat : LastTold(q, s, m)
  BY SomeWord
<1>2. After(known, q, s) = q[m].status
  BY <1>1, LastWord
<1>3. After(other, q, s) = q[m].status
  BY <1>1, LastWord
<1> QED BY <1>2, <1>3

(* The last word is that of the end of the queue, ...                      *)
LEMMA ToldAtEnd ==
  ASSUME NEW q \in Seq(Event), NEW e \in Event, NEW s, NEW known
  PROVE  After(known, Append(q, e), s) =
           IF Announces(e, s) THEN e.status ELSE After(known, q, s)
<1> DEFINE r == Append(q, e)
           n == Len(q) + 1
<1>1. /\ DOMAIN r = 1..n /\ DOMAIN q \subseteq 1..n
      /\ n \in DOMAIN r /\ r[n] = e
      /\ \A i \in DOMAIN r : ~(i > n) /\ (i = n \/ i \in DOMAIN q)
      /\ \A i \in DOMAIN q : i \in DOMAIN r /\ r[i] = q[i]
  OBVIOUS
<1>t. r \in Seq(Event) /\ r[n] = e /\ n \in Nat
  OBVIOUS
<1> HIDE DEF r, n
<1>2. ASSUME Announces(e, s)
      PROVE  After(known, r, s) = e.status
  <2>1. LastTold(r, s, n)
    BY <1>1, <1>2 DEF LastTold
  <2>2. After(known, r, s) = r[n].status
    BY <1>t, <2>1, LastWord
  <2> QED BY <1>t, <2>2
<1>3. ASSUME ~Announces(e, s)
      PROVE  After(known, r, s) = After(known, q, s)
  <2>1. CASE Quiet(q, s)
    <3>1. Quiet(r, s)
      BY <1>1, <1>3, <2>1 DEF Quiet
    <3>2. After(known, r, s) = known
      BY <1>t, <3>1, QuietQueue
    <3>3. After(known, q, s) = known
      BY <2>1, QuietQueue
    <3> QED BY <3>2, <3>3
  <2>2. CASE ~Quiet(q, s)
    <3>1. PICK m \in Nat : LastTold(q, s, m)
      BY <2>2, SomeWord
    <3>2. LastTold(r, s, m) /\ r[m] = q[m]
      BY <1>1, <1>3, <3>1 DEF LastTold
    <3>3. After(known, r, s) = r[m].status
      BY <1>t, <3>2, LastWord
    <3>4. After(known, q, s) = q[m].status
      BY <3>1, LastWord
    <3> QED BY <3>2, <3>3, <3>4
  <2> QED BY <2>1, <2>2
<1> QED BY <1>2, <1>3 DEF r

(* ... unless that is quiet: then what came before counts.                 *)
LEMMA ToldAtHead ==
  ASSUME NEW q \in Seq(Event), q # <<>>, NEW s, NEW known
  PROVE  After(known, q, s) =
           After(IF Announces(Head(q), s) THEN Head(q).status ELSE known,
                 Tail(q), s)
<1> DEFINE e == Head(q)
           r == Tail(q)
           now == IF Announces(e, s) THEN e.status ELSE known
<1>1. /\ Len(q) \in Nat /\ Len(q) > 0 /\ DOMAIN q = 1..Len(q)
      /\ DOMAIN r = 1..(Len(q) - 1) /\ q[1] = e
      /\ \A i \in DOMAIN r : i + 1 \in DOMAIN q /\ r[i] = q[i + 1]
  OBVIOUS
<1>2. \A i \in DOMAIN q : i = 1 \/ i - 1 \in DOMAIN r
  BY <1>1
<1>3. \A i \in DOMAIN q : i = 1 \/ q[i] = r[i - 1]
  BY <1>1, <1>2
<1>t. r \in Seq(Event) /\ e \in Event /\ q[1] = e
  OBVIOUS
<1> HIDE DEF e, r, now
<1>4. CASE ~Quiet(r, s)
  <2>1. PICK m \in Nat : LastTold(r, s, m)
    BY <1>t, <1>4, SomeWord
  <2>2. m + 1 \in DOMAIN q /\ q[m + 1] = r[m] /\ m + 1 \in Nat
    BY <1>1, <2>1 DEF LastTold
  <2>3. ASSUME NEW i \in DOMAIN q, i > m + 1
        PROVE  ~Announces(q[i], s)
    <3>1. i - 1 \in DOMAIN r /\ i - 1 > m /\ q[i] = r[i - 1]
      BY <1>1, <1>2, <1>3, <2>1, <2>3
    <3> QED BY <2>1, <3>1 DEF LastTold
  <2>4. LastTold(q, s, m + 1)
    BY <2>1, <2>2, <2>3 DEF LastTold
  <2>5. After(known, q, s) = q[m + 1].status
    BY <2>2, <2>4, LastWord
  <2>6. After(now, r, s) = r[m].status
    BY <1>t, <2>1, LastWord
  <2> QED BY <2>2, <2>5, <2>6 DEF now, e, r
<1>5. CASE Quiet(r, s)
  <2>1. \A i \in DOMAIN q : i > 1 => ~Announces(q[i], s)
    BY <1>1, <1>2, <1>3, <1>5 DEF Quiet
  <2>2. After(known, q, s) = now
    <3>1. CASE Announces(e, s)
      <4>1. LastTold(q, s, 1)
        BY <1>1, <2>1, <3>1 DEF LastTold
      <4>2. After(known, q, s) = q[1].status
        BY <4>1, LastWord
      <4> QED BY <1>t, <3>1, <4>2 DEF now
    <3>2. CASE ~Announces(e, s)
      <4>1. Quiet(q, s)
        BY <1>1, <2>1, <3>2 DEF Quiet
      <4>2. After(known, q, s) = known
        BY <4>1, QuietQueue
      <4> QED BY <3>2, <4>2 DEF now
    <3> QED BY <3>1, <3>2
  <2>3. After(now, r, s) = now
    BY <1>t, <1>5, QuietQueue
  <2> QED BY <2>2, <2>3 DEF now, e, r
<1> QED BY <1>4, <1>5

LEMMA QuietTail ==
  ASSUME NEW q \in Seq(Event), q # <<>>, NEW s
  PROVE  Quiet(q, s) <=> ~Announces(Head(q), s) /\ Quiet(Tail(q), s)
<1> DEFINE r == Tail(q)
<1>1. /\ Len(q) \in Nat /\ Len(q) > 0 /\ DOMAIN q = 1..Len(q)
      /\ DOMAIN r = 1..(Len(q) - 1) /\ q[1] = Head(q)
      /\ \A i \in DOMAIN r : i + 1 \in DOMAIN q /\ r[i] = q[i + 1]
  OBVIOUS
<1>2. \A i \in DOMAIN q : i = 1 \/ i - 1 \in DOMAIN r
  BY <1>1
<1>3. \A i \in DOMAIN q : i = 1 \/ q[i] = r[i - 1]
  BY <1>1, <1>2
<1>4. 1 \in DOMAIN q
  BY <1>1
<1> HIDE DEF r
<1>5. Quiet(q, s) <=> ~Announces(Head(q), s) /\ Quiet(r, s)
  <2>1. ASSUME Quiet(q, s)
        PROVE  ~Announces(Head(q), s) /\ Quiet(r, s)
    BY <1>1, <1>4, <2>1 DEF Quiet
  <2>2. ASSUME ~Announces(Head(q), s), Quiet(r, s)
        PROVE  Quiet(q, s)
    BY <1>1, <1>2, <1>3, <2>2 DEF Quiet
  <2> QED BY <2>1, <2>2
<1> QED BY <1>5 DEF r

(* Lists of announcements: the last that is not quiet counts.              *)
LastSpeaks(lists, s, m) ==
  /\ m \in DOMAIN lists /\ ~Quiet(lists[m], s)
  /\ \A k \in DOMAIN lists : k > m => Quiet(lists[k], s)
AllQuiet(lists, s) == \A k \in DOMAIN lists : Quiet(lists[k], s)

LEMMA ListsQuietOrNot ==
  ASSUME NEW lists \in Seq(Seq(Event)), NEW s
  PROVE  /\ AllQuiet(lists, s) =>
              \A known : AfterAll(known, lists, s) = known
         /\ AllQuiet(lists, s) \/ \E m \in Nat : LastSpeaks(lists, s, m)
         /\ \A m \in Nat : LastSpeaks(lists, s, m) =>
              \A known : AfterAll(known, lists, s) = After(known, lists[m], s)
<1> DEFINE T == Speaking(lists, s)
<1>1. /\ Len(lists) \in Nat /\ DOMAIN lists = 1..Len(lists)
      /\ T \in SUBSET (0..Len(lists))
  BY DEF Speaking
<1>2. \A k : k \in T <=> k \in DOMAIN lists /\ ~Quiet(lists[k], s)
  <2>1. \A k \in DOMAIN lists : ToldIn(lists[k], s) = {} <=> Quiet(lists[k], s)
    BY QuietOrNot
  <2> QED BY <2>1 DEF Speaking
<1>3. \A known : AfterAll(known, lists, s) =
        IF T = {} THEN known ELSE After(known, lists[Max(T)], s)
  BY DEF AfterAll
<1> HIDE DEF T
<1>4. T = {} <=> AllQuiet(lists, s)
  BY <1>2 DEF AllQuiet
<1>5. ASSUME T # {}
      PROVE  \E m \in Nat : LastSpeaks(lists, s, m)
  <2>1. PICK m \in Nat : m \in T /\ \A n \in T : n <= m
    BY <1>1, <1>5, Largest
  <2>2. \A k \in DOMAIN lists : k > m => k \notin T
    BY <1>1, <2>1
  <2> QED BY <1>2, <2>1, <2>2 DEF LastSpeaks
<1>6. ASSUME NEW m \in Nat, LastSpeaks(lists, s, m)
      PROVE  T # {} /\ Max(T) = m
  <2>1. m \in T
    BY <1>1, <1>2, <1>6 DEF LastSpeaks
  <2>2. ASSUME NEW n \in T PROVE n <= m
    <3>1. n \in DOMAIN lists /\ ~(n > m) /\ n \in Nat
      BY <1>1, <1>2, <1>6 DEF LastSpeaks
    <3> QED BY <2>1, <3>1
  <2> QED BY <1>1, <2>1, <2>2, Largest
<1> QED BY <1>3, <1>4, <1>5, <1>6

LEMMA QuietLists ==
  ASSUME NEW lists \in Seq(Seq(Event)), NEW s, AllQuiet(lists, s), NEW known
  PROVE  AfterAll(known, lists, s) = known
BY ListsQuietOrNot

LEMMA LastList ==
  ASSUME NEW lists \in Seq(Seq(Event)), NEW s, NEW m \in Nat,
         LastSpeaks(lists, s, m), NEW known
  PROVE  AfterAll(known, lists, s) = After(known, lists[m], s)
<1>1. \A n \in Nat : LastSpeaks(lists, s, n) =>
        \A k : AfterAll(k, lists, s) = After(k, lists[n], s)
  BY ListsQuietOrNot
<1>2. \A k : AfterAll(k, lists, s) = After(k, lists[m], s)
  BY <1>1
<1> QED BY <1>2

LEMMA SomeList ==
  ASSUME NEW lists \in Seq(Seq(Event)), NEW s, ~AllQuiet(lists, s)
  PROVE  \E m \in Nat : LastSpeaks(lists, s, m)
BY ListsQuietOrNot

(* The first event of the lists is taken away.                             *)
FirstTaken(lists, k, rest) ==
  /\ k \in DOMAIN lists /\ lists[k] # <<>>
  /\ \A j \in 1..(k - 1) : lists[j] = <<>>
  /\ DOMAIN rest = DOMAIN lists /\ rest[k] = Tail(lists[k])
  /\ \A j \in DOMAIN lists : j # k => rest[j] = lists[j]

LEMMA ToldFirst ==
  ASSUME NEW lists \in Seq(Seq(Event)), NEW rest \in Seq(Seq(Event)), NEW k,
         FirstTaken(lists, k, rest), NEW s, NEW known
  PROVE  AfterAll(known, lists, s) =
           AfterAll(IF Announces(Head(lists[k]), s)
                      THEN Head(lists[k]).status ELSE known, rest, s)
<1> DEFINE e == Head(lists[k])
           now == IF Announces(e, s) THEN e.status ELSE known
<1>1. /\ DOMAIN rest = DOMAIN lists
      /\ rest[k] = Tail(lists[k])
      /\ \A j \in DOMAIN lists : j # k => rest[j] = lists[j]
      /\ DOMAIN lists = 1..Len(lists) /\ Len(lists) \in Nat
      /\ \A j \in 1..(k - 1) : lists[j] = <<>>
      /\ k \in DOMAIN lists /\ lists[k] # <<>>
  BY DEF FirstTaken
<1>t. /\ lists[k] \in Seq(Event) /\ rest[k] \in Seq(Event) /\ e \in Event
      /\ k \in Nat
  BY <1>1
<1>2. \A j \in DOMAIN lists : j < k => lists[j] = <<>>
  BY <1>1
<1>3. \A x : After(x, lists[k], s) =
        After(IF Announces(e, s) THEN e.status ELSE x, rest[k], s)
  BY <1>1, <1>t, ToldAtHead
<1>4. Quiet(lists[k], s) <=> ~Announces(e, s) /\ Quiet(rest[k], s)
  BY <1>1, <1>t, QuietTail
<1>5. Quiet(<<>>, s)
  BY DEF Quiet
<1> HIDE DEF e, now
<1>6. CASE ~AllQuiet(lists, s)
  <2>1. PICK m \in Nat : LastSpeaks(lists, s, m)
    BY <1>6, SomeList
  <2>2. m \in DOMAIN lists /\ ~(m < k)
    BY <1>1, <1>2, <1>5, <2>1 DEF LastSpeaks
  <2>3. AfterAll(known, lists, s) = After(known, lists[m], s)
    BY <2>1, LastList
  <2>4. CASE m # k
    <3>1. LastSpeaks(rest, s, m) /\ rest[m] = lists[m]
      <4>1. ASSUME NEW j \in DOMAIN rest, j > m
            PROVE  j # k /\ rest[j] = lists[j] /\ Quiet(lists[j], s)
        BY <1>1, <1>t, <2>1, <2>2, <2>4, <4>1 DEF LastSpeaks
      <4> QED BY <1>1, <2>1, <2>4, <4>1 DEF LastSpeaks
    <3>2. AfterAll(now, rest, s) = After(now, rest[m], s)
      BY <1>t, <3>1, LastList
    <3>3. lists[m] \in Seq(Event) /\ ~Quiet(lists[m], s)
      BY <2>1 DEF LastSpeaks
    <3>4. After(known, lists[m], s) = After(now, lists[m], s)
      BY <3>3, LoudQueue
    <3> QED BY <2>3, <3>1, <3>2, <3>4 DEF now, e
  <2>5. CASE m = k /\ ~Quiet(rest[k], s)
    <3>1. LastSpeaks(rest, s, k)
      BY <1>1, <2>1, <2>5 DEF LastSpeaks
    <3>2. AfterAll(now, rest, s) = After(now, rest[k], s)
      BY <1>t, <3>1, LastList
    <3> QED BY <1>3, <2>3, <2>5, <3>2 DEF now, e
  <2>6. CASE m = k /\ Quiet(rest[k], s)
    <3>1. ASSUME NEW j \in DOMAIN rest PROVE Quiet(rest[j], s)
      <4>1. CASE j = k
        BY <2>6, <4>1
      <4>2. CASE j # k
        <5>1. rest[j] = lists[j] /\ (j < k \/ j > k)
          BY <1>1, <1>t, <4>2
        <5> QED BY <1>1, <1>2, <1>5, <2>1, <2>6, <5>1 DEF LastSpeaks
      <4> QED BY <4>1, <4>2
    <3>2. AllQuiet(rest, s)
      BY <3>1 DEF AllQuiet
    <3>3. After(now, rest[k], s) = now
      BY <1>t, <2>6, QuietQueue
    <3>4. AfterAll(now, rest, s) = now
      BY <1>t, <3>2, QuietLists
    <3> QED BY <1>3, <2>3, <2>6, <3>3, <3>4 DEF now, e
  <2> QED BY <2>4, <2>5, <2>6
<1>7. CASE AllQuiet(lists, s)
  <2>1. ASSUME NEW j \in DOMAIN rest PROVE Quiet(rest[j], s)
    BY <1>1, <1>4, <1>7 DEF AllQuiet
  <2>2. AllQuiet(rest, s) /\ ~Announces(e, s)
    BY <1>1, <1>4, <1>7, <2>1 DEF AllQuiet
  <2>3. AfterAll(now, rest, s) = now
    BY <1>t, <2>2, QuietLists
  <2>4. AfterAll(known, lists, s) = known
    BY <1>7, QuietLists
  <2> QED BY <2>2, <2>3, <2>4 DEF now, e
<1> QED BY <1>6, <1>7

(* Empty lists say nothing.                                                *)
LEMMA ToldWhenDrained ==
  ASSUME NEW lists \in Seq(Seq(Event)), NEW s, NEW known
  PROVE  AfterAll(known, Drained(lists), s) = AfterAll(known, lists, s)
<1>1. CASE \A i \in DOMAIN lists : lists[i] = <<>>
  <2> DEFINE none == Drained(lists)
  <2>1. none = <<>>
    BY <1>1 DEF Drained
  <2>2. none \in Seq(Seq(Event))
    BY <2>1
  <2>3. AllQuiet(lists, s)
    BY <1>1 DEF AllQuiet, Quiet
  <2>4. AllQuiet(none, s)
    BY <2>1 DEF AllQuiet
  <2> HIDE DEF none
  <2>5. AfterAll(known, lists, s) = known
    BY <2>3, QuietLists
  <2>6. AfterAll(known, none, s) = known
    BY <2>2, <2>4, QuietLists
  <2> QED BY <2>5, <2>6 DEF none
<1>2. CASE ~ \A i \in DOMAIN lists : lists[i] = <<>>
  BY <1>2 DEF Drained
<1> QED BY <1>1, <1>2

(* A list is added.                                                        *)
LEMMA ToldLast ==
  ASSUME NEW lists \in Seq(Seq(Event)), NEW evs \in Seq(Event), NEW s,
         NEW known
  PROVE  AfterAll(known, Append(lists, evs), s) =
           After(AfterAll(known, lists, s), evs, s)
<1> DEFINE more == Append(lists, evs)
           n == Len(lists) + 1
           told == AfterAll(known, lists, s)
<1>1. /\ Len(lists) \in Nat
      /\ DOMAIN lists = 1..Len(lists) /\ DOMAIN more = 1..n
      /\ more[n] = evs /\ \A k \in DOMAIN lists : more[k] = lists[k]
      /\ n \in DOMAIN more /\ \A k \in DOMAIN more : k = n \/ k \in DOMAIN lists
      /\ \A k \in DOMAIN lists : k \in DOMAIN more /\ k < n
      /\ \A k \in DOMAIN more : ~(k > n)
  OBVIOUS
<1>t. more \in Seq(Seq(Event)) /\ more[n] = evs /\ n \in Nat
  OBVIOUS
<1> HIDE DEF more, n, told
<1>2. CASE ~Quiet(evs, s)
  <2>1. LastSpeaks(more, s, n)
    BY <1>1, <1>2 DEF LastSpeaks
  <2>2. AfterAll(known, more, s) = After(known, more[n], s)
    BY <1>t, <2>1, LastList
  <2>3. After(known, evs, s) = After(told, evs, s)
    BY <1>2, LoudQueue
  <2> QED BY <1>t, <2>2, <2>3 DEF more, told
<1>3. CASE Quiet(evs, s)
  <2>1. After(told, evs, s) = told
    BY <1>3, QuietQueue
  <2>2. AfterAll(known, more, s) = told
    <3>1. CASE AllQuiet(lists, s)
      <4>1. AllQuiet(more, s)
        BY <1>1, <1>3, <3>1 DEF AllQuiet
      <4>2. AfterAll(known, more, s) = known
        BY <1>t, <4>1, QuietLists
      <4>3. AfterAll(known, lists, s) = known
        BY <3>1, QuietLists
      <4> QED BY <4>2, <4>3 DEF told
    <3>2. CASE ~AllQuiet(lists, s)
      <4>1. PICK m \in Nat : LastSpeaks(lists, s, m)
        BY <3>2, SomeList
      <4>2. LastSpeaks(more, s, m) /\ more[m] = lists[m]
        BY <1>1, <1>3, <4>1 DEF LastSpeaks
      <4>3. AfterAll(known, more, s) = After(known, more[m], s)
        BY <1>t, <4>2, LastList
      <4>4. AfterAll(known, lists, s) = After(known, lists[m], s)
        BY <4>1, LastList
      <4> QED BY <4>2, <4>3, <4>4 DEF told
    <3> QED BY <3>1, <3>2
  <2> QED BY <2>1, <2>2 DEF more, told
<1> QED BY <1>2, <1>3

(* Quiet lists are added.                                                  *)
LEMMA ToldBefore ==
  ASSUME NEW lists \in Seq(Seq(Event)), NEW others \in Seq(Seq(Event)), NEW s,
         AllQuiet(others, s), NEW known
  PROVE  AfterAll(known, lists \o others, s) = AfterAll(known, lists, s)
<1> DEFINE all == lists \o others
<1>1. /\ Len(lists) \in Nat /\ Len(others) \in Nat
      /\ DOMAIN lists = 1..Len(lists) /\ DOMAIN others = 1..Len(others)
      /\ DOMAIN all = 1..(Len(lists) + Len(others))
      /\ \A k \in DOMAIN lists : k \in DOMAIN all /\ all[k] = lists[k]
      /\ \A k \in DOMAIN all :
           k \notin DOMAIN lists => all[k] = others[k - Len(lists)]
  OBVIOUS
<1>t. all \in Seq(Seq(Event))
  OBVIOUS
<1> HIDE DEF all
<1>2. ASSUME NEW k \in DOMAIN all, k \notin DOMAIN lists
      PROVE  Quiet(all[k], s)
  <2>1. k - Len(lists) \in DOMAIN others
    BY <1>1, <1>2
  <2> QED BY <1>1, <1>2, <2>1 DEF AllQuiet
<1>3. CASE AllQuiet(lists, s)
  <2>1. ASSUME NEW k \in DOMAIN all PROVE Quiet(all[k], s)
    BY <1>1, <1>2, <1>3 DEF AllQuiet
  <2>2. AllQuiet(all, s)
    BY <2>1 DEF AllQuiet
  <2>3. AfterAll(known, all, s) = known
    BY <1>t, <2>2, QuietLists
  <2>4. AfterAll(known, lists, s) = known
    BY <1>3, QuietLists
  <2> QED BY <2>3, <2>4 DEF all
<1>4. CASE ~AllQuiet(lists, s)
  <2>1. PICK m \in Nat : LastSpeaks(lists, s, m)
    BY <1>4, SomeList
  <2>2. LastSpeaks(all, s, m) /\ all[m] = lists[m]
    BY <1>1, <1>2, <2>1 DEF LastSpeaks
  <2>3. AfterAll(known, all, s) = After(known, all[m], s)
    BY <1>t, <2>2, LastList
  <2>4. AfterAll(known, lists, s) = After(known, lists[m], s)
    BY <2>1, LastList
  <2> QED BY <2>2, <2>3, <2>4 DEF all
<1> QED BY <1>3, <1>4

-----------------------------------------------------------------------------
(* Steps that announce nothing                                             *)

Quietly(s) == WillBeTold(s)' = WillBeTold(s)

(* What keeps a wrong status from being the last word is not dropped.      *)
NothingDropped(s) ==
  \A S \in {{ForceKill(s)}, WaysOut(s)} : Nowhere(S)' => Nowhere(S)

(* They keep the invariant.                                                *)
LEMMA MirrorKept ==
  ASSUME MirrorInv,
         phase' = "producing" => batch' = <<>>,
         SupervisorIsUp' =>
           /\ SupervisorIsUp /\ "supervisor" \in joined'
           /\ phase' = "producing" => phase = "producing"
           /\ CommandsEnd => CommandsEnd'
           /\ \A s \in Services :
                /\ sh'[s].status = sh[s].status
                /\ Quietly(s) \/ CommandsEnd'
                /\ NothingDropped(s)
  PROVE  MirrorInv'
<1> SUFFICES ASSUME SupervisorIsUp', NEW s \in Services
             PROVE  RightlyTold(s)' /\ GoesOn(s)'
  BY DEF MirrorInv
<1>1. /\ RightlyTold(s) /\ GoesOn(s)
      /\ sh'[s].status = sh[s].status
      /\ Quietly(s) \/ CommandsEnd'
      /\ CommandsEnd => CommandsEnd'
      /\ phase' = "producing" => phase = "producing"
  BY DEF MirrorInv
<1>2. /\ Nowhere({ForceKill(s)})' => Nowhere({ForceKill(s)})
      /\ Nowhere(WaysOut(s))' => Nowhere(WaysOut(s))
  BY DEF NothingDropped
<1>3. RightlyTold(s)'
  BY <1>1, <1>2 DEF RightlyTold, Quietly
<1>4. GoesOn(s)'
  BY <1>1, <1>2 DEF GoesOn
<1> QED BY <1>3, <1>4

(* The queues of the commands handler and of the bus.                      *)
LEMMA AllQueueTypes ==
  ASSUME AllTypeOK
  PROVE  /\ TypeOK /\ heard \in Seq(Event) /\ pipe \in Seq(Event)
         /\ out \in Seq(Seq(Event)) /\ batch \in Seq(Event)
         /\ inbox["supervisor"] \in Seq(Event)
         /\ services \in [Services -> Statuses]
BY QueueTypes DEF AllTypeOK, CommandsTypeOK

LEMMA ToldByNone ==
  ASSUME NEW s, NEW known
  PROVE  After(known, <<>>, s) = known /\ AfterAll(known, <<>>, s) = known
BY DEF After, AfterAll, ToldIn, Speaking

(* Another event than an announcement is put into the pipe, or none.       *)
LEMMA SentQuietly ==
  ASSUME AllTypeOK, UNCHANGED <<commandVars, out>>,
         \/ UNCHANGED pipe
         \/ \E e \in Event : e.kind # "StatusChanged" /\ pipe' = Append(pipe, e)
  PROVE  /\ \A s \in Services : Quietly(s)
         /\ CommandsEnd => CommandsEnd'
<1>1. /\ UNCHANGED <<heard, services, server, out>>
      /\ pipe \in Seq(Event)
  BY AllQueueTypes DEF commandVars
<1>2. CASE UNCHANGED pipe
  BY <1>1, <1>2 DEF Quietly, WillBeTold, CommandsEnd, CommandsHaveEnded
<1>3. ASSUME NEW e \in Event, e.kind # "StatusChanged", pipe' = Append(pipe, e)
      PROVE  /\ \A s \in Services : Quietly(s)
             /\ CommandsEnd => CommandsEnd'
  <2>1. ASSUME NEW s \in Services PROVE Quietly(s)
    <3> DEFINE known == After(services[s], heard, s)
    <3>1. known' = known
      BY <1>1
    <3>2. After(known, Append(pipe, e), s) = After(known, pipe, s)
      BY <1>1, <1>3, ToldAtEnd DEF Announces
    <3> HIDE DEF known
    <3>3. After(known', pipe', s) = After(known, pipe, s)
      BY <1>3, <3>1, <3>2
    <3> QED BY <1>1, <3>3 DEF Quietly, WillBeTold, known
  <2>2. Without(pipe', Shutdowns) => Without(pipe, Shutdowns)
    BY <1>1, <1>3, PutAtEnd
  <2>3. Shutdowns' = Shutdowns
    BY DEF Shutdowns
  <2> QED BY <1>1, <2>1, <2>2, <2>3 DEF CommandsEnd, CommandsHaveEnded
<1> QED BY <1>2, <1>3

(* So does every thread but the supervisor's, and the world.               *)
LEMMA MirrorOthers ==
  ASSUME AllTypeOK, MirrorInv, UNCHANGED <<commandVars, out, batch, phase>>,
         UNCHANGED inbox["supervisor"],
         "supervisor" \in joined => "supervisor" \in joined',
         \/ UNCHANGED pipe
         \/ \E e \in Event :
              e.kind # "StatusChanged" /\ pipe' = Append(pipe, e),
         \A s \in Services : sh'[s].status = sh[s].status
  PROVE  MirrorInv'
<1>1. TypeOK
  BY DEF AllTypeOK
<1>2. \A S : Nowhere(S)' => Nowhere(S)
  <2>1. CASE UNCHANGED pipe
    BY <2>1, NothingSent DEF Nowhere
  <2>2. ASSUME NEW e \in Event, pipe' = Append(pipe, e)
        PROVE  \A S : Without(course', S) => Without(course, S)
    BY <1>1, <2>2, EventSent
  <2> QED BY <2>1, <2>2 DEF Nowhere
<1>3. \A s \in Services : NothingDropped(s)
  BY <1>2 DEF NothingDropped
<1>4. /\ \A s \in Services : Quietly(s)
      /\ CommandsEnd => CommandsEnd'
  BY SentQuietly
<1>5. /\ phase' = "producing" => batch' = <<>>
      /\ SupervisorIsUp' => SupervisorIsUp /\ "supervisor" \in joined'
  BY DEF MirrorInv, SupervisorIsUp
<1> QED BY <1>3, <1>4, <1>5, MirrorKept

LEMMA MirrorThreads ==
  ASSUME AllTypeOK, MirrorInv, UNCHANGED commandVars,
         \/ MonitorThread
         \/ \E x \in Services : SpawnerThread(x) \/ WorkerThread(x)
         \/ Environment
  PROVE  MirrorInv'
<1>1. TypeOK
  BY DEF AllTypeOK
<1>2. \A x \in Services, b \in BOOLEAN :
        HealthCheck(x, b) \in Event /\ HealthCheck(x, b).kind # "StatusChanged"
  BY EventConstructors DEF HealthCheck
<1>3. CASE MonitorThread
  <2>1. /\ UNCHANGED <<sh, phase, batch, out>>
        /\ UNCHANGED inbox["supervisor"]
        /\ "supervisor" \in joined => "supervisor" \in joined'
        /\ \/ UNCHANGED pipe
           \/ \E x \in Services, b \in BOOLEAN :
                pipe' = Append(pipe, HealthCheck(x, b))
    BY <1>1, <1>3, MonitorSends DEF threadVars
  <2> QED BY <1>2, <2>1, MirrorOthers
<1>4. ASSUME NEW x \in Services, WorkerThread(x)
      PROVE  MirrorInv'
  <2>1. /\ UNCHANGED <<sh, phase, batch, out, inbox, joined>>
        /\ \/ UNCHANGED pipe
           \/ \E b \in BOOLEAN : pipe' = Append(pipe, HealthCheck(x, b))
    BY <1>1, <1>4, WorkerSends DEF threadVars
  <2> QED BY <1>2, <2>1, MirrorOthers
<1>5. ASSUME NEW x \in Services, SpawnerThread(x)
      PROVE  MirrorInv'
  <2>1. UNCHANGED <<sh, phase, batch, out, inbox, joined>>
    BY <1>5 DEF SpawnerThread, SpawnerStep, SpawnerForks, SpawnerReports,
                SpawnerFails, SpawnerGivesUp, busVars, repoVars, threadVars
  <2>2. /\ SpawnFailed(x) \in Event /\ SpawnFailed(x).kind # "StatusChanged"
        /\ \A q \in Pids : /\ PidChanged(x, q) \in Event
                           /\ PidChanged(x, q).kind # "StatusChanged"
    BY EventConstructors DEF SpawnFailed, PidChanged
  <2>3. spawners[x].forked \subseteq Pids
    BY <1>1 DEF TypeOK, SupervisorTypeOK, Spawners
  <2>4. \/ UNCHANGED pipe
        \/ \E e \in Event : e.kind # "StatusChanged" /\ pipe' = Append(pipe, e)
    <3>1. CASE SpawnerForks(x)
      BY <3>1 DEF SpawnerForks, busVars
    <3>2. CASE SpawnerReports(x)
      BY <2>2, <2>3, <3>2 DEF SpawnerReports
    <3>3. CASE SpawnerFails(x) \/ SpawnerGivesUp(x)
      BY <2>2, <3>3 DEF SpawnerFails, SpawnerGivesUp
    <3> QED BY <1>5, <3>1, <3>2, <3>3 DEF SpawnerThread, SpawnerStep
  <2> QED BY <2>1, <2>4, MirrorOthers
<1>6. CASE Environment
  <2>1. UNCHANGED <<pipe, inbox, joined, phase, batch, out>>
    BY <1>6 DEF Environment, HandleSigterm, ProcessExits, GraceExpires,
                busVars, threadVars
  <2>2. \A s \in Services : sh'[s].status = sh[s].status
    <3>1. CASE UNCHANGED sh
      BY <3>1
    <3>2. ASSUME NEW x \in Services, GraceExpires(x)
          PROVE  \A s \in Services : sh'[s].status = sh[s].status
      <4>1. sh \in [Services -> ServiceHandlerType]
        BY <1>1 DEF TypeOK, SupervisorTypeOK
      <4>2. sh' = [sh EXCEPT ![x].shutting_down_start = "expired"]
        BY <3>2 DEF GraceExpires
      <4>3. sh[x] \in ServiceHandlerType
        BY <4>1
      <4>4. [sh[x] EXCEPT !.shutting_down_start = "expired"].status
              = sh[x].status
        BY <4>3 DEF ServiceHandlerType
      <4> QED BY <4>1, <4>2, <4>4
    <3> QED BY <1>6, <3>1, <3>2
            DEF Environment, HandleSigterm, ProcessExits, repoVars
  <2> QED BY <2>1, <2>2, MirrorOthers
<1> QED BY <1>3, <1>4, <1>5, <1>6

(* A new iteration of the supervisor.                                      *)
LEMMA MirrorIngest ==
  ASSUME AllTypeOK, MirrorInv, UNCHANGED commandVars, Ingest
  PROVE  MirrorInv'
<1>1. TypeOK /\ batch = <<>> /\ SupervisorIsUp /\ "supervisor" \in joined
  BY DEF AllTypeOK, MirrorInv, Ingest, Asleep, SupervisorIsUp
<1>2. /\ phase' = "handling" /\ UNCHANGED <<joined, sh, out>>
      /\ pipe' = pipe \o SigtermRequest
  BY DEF Ingest, repoVars
<1>3. \/ UNCHANGED pipe
      \/ \E e \in Event : e.kind # "StatusChanged" /\ pipe' = Append(pipe, e)
  <2>1. pipe \in Seq(Event)
    BY <1>1, QueueTypes
  <2>2. CASE SigtermRequest = <<>>
    BY <1>2, <2>1, <2>2
  <2>3. ASSUME NEW sd \in ShuttingDown,
               SigtermRequest = <<ShuttingDownInitiated(sd)>>
        PROVE  \E e \in Event :
                 e.kind # "StatusChanged" /\ pipe' = Append(pipe, e)
    <3> DEFINE e == ShuttingDownInitiated(sd)
    <3>1. e \in Event /\ e.kind # "StatusChanged"
      BY EventConstructors DEF ShuttingDownInitiated
    <3> HIDE DEF e
    <3>2. pipe \o <<e>> = Append(pipe, e)
      BY <2>1, <3>1
    <3>3. pipe' = Append(pipe, e)
      BY <1>2, <2>3, <3>2 DEF e
    <3> QED BY <3>1, <3>3
  <2>4. \/ SigtermRequest = <<>>
        \/ \E sd \in ShuttingDown :
             SigtermRequest = <<ShuttingDownInitiated(sd)>>
    BY DEF SigtermRequest, ShuttingDown
  <2> QED BY <2>2, <2>3, <2>4
<1>4. \A s \in Services : NothingDropped(s)
  <2>1. \A S : Without(course', S) => Without(course, S)
    BY <1>1, BatchTaken
  <2> QED BY <1>2, <2>1 DEF NothingDropped, Nowhere
<1>5. /\ \A s \in Services : Quietly(s)
      /\ CommandsEnd => CommandsEnd'
  BY <1>2, <1>3, SentQuietly
<1> QED BY <1>1, <1>2, <1>4, <1>5, MirrorKept

(* The supervisor ends.                                                    *)
LEMMA MirrorLeaves ==
  ASSUME MirrorInv, Return \/ PanicOnServiceExited
  PROVE  MirrorInv'
BY DEF MirrorInv, Return, PanicOnServiceExited, SupervisorIsUp

(* An event on its way from the supervisor to the bus.                     *)
LEMMA MirrorSend ==
  ASSUME AllTypeOK, MirrorInv, UNCHANGED commandVars, Send
  PROVE  MirrorInv'
<1>1. /\ TypeOK /\ SupervisorIsUp /\ "supervisor" \in joined /\ batch = <<>>
      /\ UNCHANGED <<joined, sh, batch, phase, heard, services, server>>
      /\ UNCHANGED inbox
  BY DEF AllTypeOK, MirrorInv, Send, SupervisorIsUp, repoVars, commandVars
<1>2. PICK k \in DOMAIN out :
        /\ out[k] # <<>>
        /\ \A j \in 1..(k - 1) : out[j] = <<>>
        /\ pipe' = Append(pipe, Head(out[k]))
        /\ out' = Drained([out EXCEPT ![k] = Tail(out[k])])
  BY DEF Send
<1> DEFINE e == Head(out[k])
           rest == [out EXCEPT ![k] = Tail(out[k])]
<1>3. /\ out \in Seq(Seq(Event)) /\ pipe \in Seq(Event)
      /\ out[k] \in Seq(Event) /\ e \in Event
  BY <1>1, <1>2, QueueTypes
<1>4. rest \in Seq(Seq(Event)) /\ DOMAIN rest = DOMAIN out
  BY <1>2, <1>3
<1>5. ASSUME NEW S, Without(pipe', S), AllWithout(out', S)
      PROVE  Without(pipe, S) /\ AllWithout(out, S)
  <2>1. Without(pipe, S) /\ e \notin S
    BY <1>2, <1>3, <1>5, PutAtEnd
  <2>2. AllWithout(rest, S)
    <3>1. CASE out' = rest
      BY <1>5, <3>1
    <3>2. CASE \A i \in DOMAIN rest : rest[i] = <<>>
      BY <3>2 DEF AllWithout, Without
    <3> QED BY <1>2, <3>1, <3>2 DEF Drained
  <2>3. Without(Tail(out[k]), S)
    BY <1>2, <1>3, <2>2 DEF AllWithout
  <2>4. Without(out[k], S)
    BY <1>2, <1>3, <2>1, <2>3, HeadAndTail
  <2>5. \A j \in DOMAIN out : j # k => Without(out[j], S)
    BY <1>3, <2>2 DEF AllWithout
  <2> QED BY <2>1, <2>4, <2>5 DEF AllWithout
<1>6. \A S : Nowhere(S)' => Nowhere(S)
  <2> SUFFICES ASSUME NEW S, Nowhere(S)' PROVE Nowhere(S)
    OBVIOUS
  <2>1. Without(course, S)
    BY <1>1, NextSent DEF Nowhere
  <2>2. pipe' \in Seq(Event)
    BY <1>2, <1>3
  <2>3. Without(batch' \o inbox'["supervisor"] \o pipe', S)
    BY DEF Nowhere, course
  <2>4. Without(pipe', S)
    BY <1>1, <2>2, <2>3, QueueTypes, ThreeJoined DEF WithoutAll
  <2> QED BY <1>5, <2>1, <2>4 DEF Nowhere
<1>7. CommandsEnd => CommandsEnd'
  BY <1>1, <1>5 DEF CommandsEnd, CommandsHaveEnded, Shutdowns
<1>8. ASSUME NEW s \in Services
      PROVE  Quietly(s)
  <2> DEFINE known == After(services[s], heard, s)
             told == After(known, pipe, s)
             now == IF Announces(e, s) THEN e.status ELSE told
  <2>1. After(known, Append(pipe, e), s) = now
    BY <1>3, ToldAtEnd
  <2>2. AfterAll(told, out, s) = AfterAll(now, rest, s)
    <3>1. FirstTaken(out, k, rest)
      BY <1>2, <1>3 DEF FirstTaken
    <3> HIDE DEF rest, told
    <3> QED BY <1>3, <1>4, <3>1, ToldFirst
  <2>3. AfterAll(now, Drained(rest), s) = AfterAll(now, rest, s)
    BY <1>4, ToldWhenDrained
  <2>4. known' = known
    BY <1>1
  <2>5. WillBeTold(s)' = AfterAll(After(known', pipe', s), out', s)
    BY DEF WillBeTold
  <2>6. WillBeTold(s) = AfterAll(told, out, s)
    BY DEF WillBeTold
  <2> HIDE DEF known, told, now, e, rest
  <2>7. pipe' = Append(pipe, e) /\ out' = Drained(rest)
    BY <1>2 DEF e, rest
  <2> QED BY <2>1, <2>2, <2>3, <2>4, <2>5, <2>6, <2>7 DEF Quietly
<1>9. \A s \in Services : NothingDropped(s)
  BY <1>6 DEF NothingDropped
<1> QED BY <1>1, <1>7, <1>8, <1>9, MirrorKept

-----------------------------------------------------------------------------
(* Steps that change a status                                              *)

LEMMA ToldByOne ==
  ASSUME NEW e \in Event, NEW s, NEW known
  PROVE  After(known, <<e>>, s) = IF Announces(e, s) THEN e.status ELSE known
<1> DEFINE none == <<>>
<1>1. none \in Seq(Event) /\ Append(none, e) = <<e>>
  OBVIOUS
<1>2. After(known, none, s) = known
  BY ToldByNone
<1> HIDE DEF none
<1>3. After(known, Append(none, e), s) =
        IF Announces(e, s) THEN e.status ELSE After(known, none, s)
  BY <1>1, ToldAtEnd
<1> QED BY <1>1, <1>2, <1>3

(* A service keeps its status, unannounced, and no ForceKill it obeys has  *)
(* been handled.                                                           *)
Unchanged(s, evs) ==
  /\ sh'[s].status = sh[s].status
  /\ Quiet(evs, s)
  /\ ~(Head(batch) = ForceKill(s) /\ sh[s].status = "InKilling")

(* Or its new status is announced, it has failed, or Horust shuts down.    *)
Announced(s, evs) ==
  \/ Unchanged(s, evs)
  \/ evs = <<StatusChanged(s, sh'[s].status)>>
  \/ sh'[s].status = "Failed"
  \/ ~Without(evs, Shutdowns)

HandlesAndTells ==
  \E evs \in Seq(Event) : Done(evs) /\ \A s \in Services : Announced(s, evs)

(* An event about x at most, with what it announces, if anything.          *)
LEMMA TellsOfOne ==
  ASSUME NEW x \in Services, NEW st \in Statuses, sh'[x].status = st,
         \A s \in Services \ {x} : sh'[s].status = sh[s].status,
         Done(<<StatusChanged(x, st)>>),
         Head(batch).kind = "ForceKill" => Head(batch).svc = x
  PROVE  HandlesAndTells
<1> DEFINE e == StatusChanged(x, st)
           evs == <<e>>
<1>1. e \in Event /\ \A s : Announces(e, s) => s = x
  BY EventConstructors DEF StatusChanged, Announces
<1>2. evs \in Seq(Event) /\ DOMAIN evs = {1} /\ evs[1] = e
  BY <1>1, OneEvent
<1> HIDE DEF e, evs
<1>3. ASSUME NEW s \in Services, s # x
      PROVE  Unchanged(s, evs)
  <2>1. Quiet(evs, s)
    BY <1>1, <1>2, <1>3 DEF Quiet
  <2> QED BY <1>3, <2>1 DEF Unchanged, ForceKill
<1>4. evs = <<StatusChanged(x, sh'[x].status)>>
  BY DEF e, evs
<1>5. Done(evs)
  BY DEF e, evs
<1>6. \A s \in Services : Announced(s, evs)
  BY <1>3, <1>4 DEF Announced
<1> QED BY <1>2, <1>5, <1>6 DEF HandlesAndTells

LEMMA TellsNothing ==
  ASSUME Done(<<>>),
         \A s \in Services :
           /\ sh'[s].status = sh[s].status
           /\ ~(Head(batch) = ForceKill(s) /\ sh[s].status = "InKilling")
  PROVE  HandlesAndTells
<1> DEFINE evs == <<>>
<1>1. evs \in Seq(Event) /\ DOMAIN evs = {}
  OBVIOUS
<1>2. Done(evs)
  OBVIOUS
<1> HIDE DEF evs
<1>3. \A s \in Services : Announced(s, evs)
  BY <1>1 DEF Announced, Unchanged, Quiet
<1> QED BY <1>1, <1>2, <1>3 DEF HandlesAndTells

(* This holds of every handler of the supervisor.                          *)
LEMMA WhatIsTold ==
  ASSUME TypeOK, TypeOK', HandleEvent
  PROVE  PanicOnServiceExited \/ HandlesAndTells
<1> DEFINE x == Head(batch).svc
<1>1. /\ sh \in [Services -> ServiceHandlerType]
      /\ batch # <<>> /\ Head(batch) \in Event /\ phase = "handling"
  BY HeadOfBatch
  DEF TypeOK, SupervisorTypeOK, HandleEvent, Handling, HandleServiceExited,
      PanicOnServiceExited, HandleRun, HandleRunPrepareFails,
      HandleSpawnFailed, HandleKill, HandleForceKill, HandlePidChanged,
      HandleHealthCheck, HandleShuttingDownInitiated, HandleStatusUpdate,
      HandleIgnored
<1>2. Head(batch).kind # "ShuttingDownInitiated" => x \in Services
  BY <1>1, EventFields
<1>k. ASSUME Head(batch).kind # "ForceKill"
      PROVE  \A s : Head(batch) # ForceKill(s)
  BY <1>k DEF ForceKill
<1>3. CASE HandleServiceExited
  <2> DEFINE h == ExitedHandler(x, Head(batch).ok)
  <2>1. /\ x \in Services /\ sh' = [sh EXCEPT ![x] = h]
        /\ Done(<<StatusChanged(x, h.status)>>)
        /\ Head(batch).kind = "ServiceExited"
    BY <1>2, <1>3 DEF HandleServiceExited, Handling
  <2>2. sh' \in [Services -> ServiceHandlerType]
    BY DEF TypeOK, SupervisorTypeOK
  <2> HIDE DEF h, x
  <2>3. sh'[x] = h /\ \A s \in Services \ {x} : sh'[s] = sh[s]
    BY <1>1, <2>1
  <2>4. h.status \in Statuses
    BY <2>1, <2>2, <2>3 DEF ServiceHandlerType
  <2> QED BY <2>1, <2>3, <2>4, TellsOfOne
<1>4. CASE HandleRun
  <2>1. /\ x \in Services /\ sh' = [sh EXCEPT ![x].status = "Starting"]
        /\ Done(<<StatusChanged(x, "Starting")>>)
        /\ Head(batch).kind = "Run"
    BY <1>2, <1>4 DEF HandleRun, Handling
  <2> HIDE DEF x
  <2>2. sh'[x].status = "Starting" /\ \A s \in Services \ {x} : sh'[s] = sh[s]
    BY <1>1, <2>1 DEF ServiceHandlerType
  <2> QED BY <2>1, <2>2, TellsOfOne DEF Statuses
<1>5. CASE HandleRunPrepareFails
  <2> DEFINE e == StatusUpdate(x, "FinishedFailed")
             f == ShuttingDownInitiated("Gracefully")
             evs == <<e, f>>
  <2>1. e \in Event /\ f \in Event /\ f \in Shutdowns
    BY <1>2, <1>5, EventConstructors
    DEF HandleRunPrepareFails, Handling, Statuses, Shutdowns, ShuttingDown
  <2>2. Done(evs)
    BY <1>5 DEF HandleRunPrepareFails
  <2> HIDE DEF e, f
  <2>3. evs \in Seq(Event)
    BY <2>1, EventLists
  <2>4. ~Without(evs, Shutdowns)
    BY <2>1, ShortQueues
  <2> QED BY <2>2, <2>3, <2>4 DEF HandlesAndTells, Announced
<1>6. CASE HandleSpawnFailed
  <2> DEFINE e == StatusUpdate(x, "Failed")
             evs == <<e>>
  <2>1. /\ x \in Services /\ sh' = [sh EXCEPT ![x].status = "Failed"]
        /\ Done(evs) /\ Head(batch).kind = "SpawnFailed"
    BY <1>2, <1>6 DEF HandleSpawnFailed, Handling
  <2>2. e \in Event /\ \A s : ~Announces(e, s)
    BY <2>1, EventConstructors DEF Statuses, StatusUpdate, Announces
  <2> HIDE DEF e, x
  <2>3. evs \in Seq(Event) /\ DOMAIN evs = {1} /\ evs[1] = e
    BY <2>2, OneEvent
  <2> HIDE DEF evs
  <2>4. sh'[x].status = "Failed" /\ \A s \in Services \ {x} : sh'[s] = sh[s]
    BY <1>1, <2>1 DEF ServiceHandlerType
  <2>5. \A s \in Services : Quiet(evs, s)
    BY <2>2, <2>3 DEF Quiet
  <2>6. \A s \in Services : Announced(s, evs)
    BY <1>k, <2>1, <2>4, <2>5 DEF Announced, Unchanged
  <2> QED BY <2>1, <2>3, <2>6 DEF HandlesAndTells
<1>7. CASE HandleKill
  <2>1. /\ x \in Services /\ sh' = [sh EXCEPT ![x].shutting_down_start = "armed"]
        /\ Done(<<>>) /\ Head(batch).kind = "Kill"
    BY <1>2, <1>7 DEF HandleKill, Handling
  <2> HIDE DEF x
  <2>2. \A s \in Services : sh'[s].status = sh[s].status
    BY <1>1, <2>1 DEF ServiceHandlerType
  <2> QED BY <1>k, <2>1, <2>2, TellsNothing
<1>8. CASE HandleForceKill
  <2>1. /\ x \in Services /\ sh' = [sh EXCEPT ![x].status = "Failed"]
        /\ Done(<<StatusChanged(x, "Failed")>>)
    BY <1>2, <1>8 DEF HandleForceKill, Handling
  <2>2. sh'[x].status = "Failed" /\ \A s \in Services \ {x} : sh'[s] = sh[s]
    BY <1>1, <2>1 DEF ServiceHandlerType
  <2> QED BY <2>1, <2>2, TellsOfOne DEF Statuses
<1>9. CASE HandlePidChanged
  <2> DEFINE p == Head(batch).pid
  <2>1. x \in Services /\ Head(batch).kind = "PidChanged"
    BY <1>2, <1>9 DEF HandlePidChanged, Handling
  <2>2. CASE /\ sh' = [sh EXCEPT ![x].pid = p,
                                 ![x].shutting_down_start = "armed"]
             /\ Done(<<>>)
    <3> HIDE DEF x, p
    <3>1. \A s \in Services : sh'[s].status = sh[s].status
      BY <1>1, <2>1, <2>2 DEF ServiceHandlerType
    <3> QED BY <1>k, <2>1, <2>2, <3>1, TellsNothing
  <2>3. CASE /\ sh' = [sh EXCEPT ![x].pid = p, ![x].status = "Started"]
             /\ Done(<<StatusChanged(x, "Started")>>)
    <3>1. Head(batch).kind # "ForceKill"
      BY <2>1
    <3> HIDE DEF x, p
    <3>2. /\ sh'[x].status = "Started"
          /\ \A s \in Services \ {x} : sh'[s].status = sh[s].status
      BY <1>1, <2>1, <2>3 DEF ServiceHandlerType
    <3>3. Done(<<StatusChanged(x, "Started")>>) /\ "Started" \in Statuses
      BY <2>3 DEF Statuses
    <3> QED BY <2>1, <3>1, <3>2, <3>3, TellsOfOne
  <2> QED BY <1>9, <2>2, <2>3 DEF HandlePidChanged
<1>10. CASE HandleHealthCheck
  <2> DEFINE h == AddHealthcheckEvent(x, sh[x], Head(batch).healthy)
  <2>1. /\ x \in Services /\ sh' = [sh EXCEPT ![x] = h]
        /\ Done(<<>>) /\ Head(batch).kind = "HealthCheck"
    BY <1>2, <1>10 DEF HandleHealthCheck, Handling
  <2>2. h.status = sh[x].status
    BY <1>1, <2>1 DEF AddHealthcheckEvent, ServiceHandlerType
  <2> HIDE DEF x, h
  <2>3. \A s \in Services : sh'[s].status = sh[s].status
    BY <1>1, <2>1, <2>2
  <2> QED BY <1>k, <2>1, <2>3, TellsNothing
<1>11. CASE HandleShuttingDownInitiated
  <2>1. /\ UNCHANGED sh /\ Done(<<>>)
        /\ Head(batch).kind = "ShuttingDownInitiated"
    BY <1>11 DEF HandleShuttingDownInitiated, Handling, repoVars
  <2> QED BY <1>k, <2>1, TellsNothing
<1>12. CASE HandleStatusUpdate
  <2> DEFINE h == ChangeStatus(sh[x], Head(batch).status)
  <2>1. /\ x \in Services /\ sh' = [sh EXCEPT ![x] = h]
        /\ Done(IF h.status = sh[x].status THEN <<>>
                ELSE <<StatusChanged(x, h.status)>>)
        /\ Head(batch).kind = "StatusUpdate"
        /\ Head(batch).status \in Statuses
    BY <1>1, <1>2, <1>12, EventFields DEF HandleStatusUpdate, Handling
  <2>2. h \in ServiceHandlerType
    BY <1>1, <2>1, ChangeStatusType
  <2> HIDE DEF h
  <2>3. h.status \in Statuses
    BY <2>2 DEF ServiceHandlerType
  <2>4. Head(batch).kind # "ForceKill"
    BY <2>1
  <2> HIDE DEF x
  <2>5. sh'[x].status = h.status
        /\ \A s \in Services \ {x} : sh'[s].status = sh[s].status
    BY <1>1, <2>1
  <2>6. CASE h.status = sh[x].status
    <3>1. Done(<<>>) /\ \A s \in Services : sh'[s].status = sh[s].status
      BY <2>1, <2>5, <2>6
    <3> QED BY <1>k, <2>4, <3>1, TellsNothing
  <2>7. CASE h.status # sh[x].status
    <3>1. Done(<<StatusChanged(x, h.status)>>)
      BY <2>1, <2>7
    <3> QED BY <2>1, <2>3, <2>4, <2>5, <3>1, TellsOfOne
  <2> QED BY <2>6, <2>7
<1>13. CASE HandleIgnored
  <2>1. UNCHANGED sh /\ Done(<<>>)
    BY <1>13 DEF HandleIgnored, repoVars
  <2>2. \A s \in Services :
          ~(Head(batch) = ForceKill(s) /\ sh[s].status = "InKilling")
    BY <1>13 DEF HandleIgnored, Handling, ForceKill
  <2> QED BY <2>1, <2>2, TellsNothing
<1>14. CASE PanicOnServiceExited
  BY <1>14
<1> QED BY <1>3, <1>4, <1>5, <1>6, <1>7, <1>8, <1>9, <1>10, <1>11, <1>12,
           <1>13, <1>14 DEF HandleEvent

LEMMA MirrorHandle ==
  ASSUME AllTypeOK, AllTypeOK', MirrorInv, UNCHANGED commandVars, HandleEvent
  PROVE  MirrorInv'
<1>1. CASE PanicOnServiceExited
  BY <1>1, MirrorLeaves
<1>2. CASE HandlesAndTells
  <2>1. /\ TypeOK /\ phase = "handling" /\ batch # <<>>
        /\ out \in Seq(Seq(Event)) /\ pipe \in Seq(Event)
    BY AllQueueTypes
    DEF HandleEvent, Handling, HandleServiceExited,
        PanicOnServiceExited, HandleRun, HandleRunPrepareFails,
        HandleSpawnFailed, HandleKill, HandleForceKill, HandlePidChanged,
        HandleHealthCheck, HandleShuttingDownInitiated, HandleStatusUpdate,
        HandleIgnored
  <2>2. PICK evs \in Seq(Event) :
          Done(evs) /\ \A s \in Services : Announced(s, evs)
    BY <1>2 DEF HandlesAndTells
  <2>3. /\ phase' = "handling" /\ SupervisorIsUp /\ SupervisorIsUp'
        /\ "supervisor" \in joined'
        /\ UNCHANGED <<pipe, heard, services, server>>
        /\ out' = IF evs = <<>> THEN out ELSE Append(out, evs)
    BY <2>1, <2>2 DEF Done, busVars, SupervisorIsUp, MirrorInv, commandVars
  <2>4. ASSUME NEW S, AllWithout(out', S)
        PROVE  AllWithout(out, S) /\ Without(evs, S)
    <3>1. CASE evs = <<>>
      BY <2>3, <2>4, <3>1, ShortQueues
    <3>2. CASE evs # <<>>
      <4>1. /\ out' = Append(out, evs) /\ Len(out) + 1 \in DOMAIN out'
            /\ out'[Len(out) + 1] = evs
            /\ \A k \in DOMAIN out : k \in DOMAIN out' /\ out'[k] = out[k]
        BY <2>1, <2>3, <3>2
      <4> QED BY <2>4, <4>1 DEF AllWithout
    <3> QED BY <3>1, <3>2
  <2>5. CommandsEnd => CommandsEnd'
    BY <2>3, <2>4 DEF CommandsEnd, CommandsHaveEnded, Shutdowns
  <2>6. ASSUME NEW s \in Services
        PROVE  RightlyTold(s)'
    <3>1. WillBeTold(s)' = After(WillBeTold(s), evs, s)
      <4> DEFINE known == After(After(services[s], heard, s), pipe, s)
      <4>1. known' = known
        BY <2>3
      <4>2. /\ WillBeTold(s)' = AfterAll(known', out', s)
            /\ WillBeTold(s) = AfterAll(known, out, s)
        BY DEF WillBeTold
      <4> HIDE DEF known
      <4>3. CASE evs = <<>>
        BY <2>3, <4>1, <4>2, <4>3, ToldByNone
      <4>4. CASE evs # <<>>
        <5>1. AfterAll(known, Append(out, evs), s)
                = After(AfterAll(known, out, s), evs, s)
          BY <2>1, <2>2, ToldLast
        <5> QED BY <2>3, <4>1, <4>2, <4>4, <5>1
      <4> QED BY <4>3, <4>4
    <3>2. Announced(s, evs) /\ RightlyTold(s)
      BY <2>2, <2>3 DEF MirrorInv
    <3>3. CASE Unchanged(s, evs)
      <4>1. WillBeTold(s)' = WillBeTold(s)
        BY <2>2, <3>1, <3>3, QuietQueue DEF Unchanged
      <4>2. ASSUME sh[s].status = "InKilling", ~Nowhere({ForceKill(s)})
            PROVE  ~Nowhere({ForceKill(s)})'
        <5> DEFINE S == {ForceKill(s)}
        <5>1. Head(batch) \notin S
          BY <3>3, <4>2 DEF Unchanged
        <5>2. ~(Without(course, S) /\ AllWithout(out, S))
          BY <4>2 DEF Nowhere
        <5> HIDE DEF S
        <5>3. Without(course', S) => Without(course, S)
          BY <2>1, <2>2, <5>1, EventHandled
        <5>4. ~(Without(course', S) /\ AllWithout(out', S))
          BY <2>4, <5>2, <5>3
        <5> QED BY <5>4 DEF Nowhere, S
      <4> QED BY <2>5, <3>2, <3>3, <4>1, <4>2 DEF RightlyTold, Unchanged
    <3>4. CASE evs = <<StatusChanged(s, sh'[s].status)>>
      <4> DEFINE st == sh'[s].status
                 e == StatusChanged(s, st)
      <4>1. st \in Statuses
        BY DEF AllTypeOK, TypeOK, SupervisorTypeOK, ServiceHandlerType
      <4> HIDE DEF st
      <4>2. e \in Event /\ Announces(e, s) /\ e.status = st
        BY <4>1, EventConstructors DEF StatusChanged, Announces
      <4>3. evs = <<e>>
        BY <3>4 DEF st
      <4> HIDE DEF e
      <4>4. After(WillBeTold(s), <<e>>, s) = st
        BY <4>2, ToldByOne
      <4> QED BY <3>1, <4>3, <4>4 DEF RightlyTold, st
    <3>5. CASE sh'[s].status = "Failed"
      BY <3>5 DEF RightlyTold
    <3>6. CASE ~Without(evs, Shutdowns)
      <4>1. ~AllWithout(out', Shutdowns)
        BY <2>4, <3>6
      <4> QED BY <4>1 DEF RightlyTold, CommandsEnd, Shutdowns
    <3> QED BY <3>2, <3>3, <3>4, <3>5, <3>6 DEF Announced
  <2>7. \A s \in Services : GoesOn(s)'
    BY <2>3 DEF GoesOn
  <2>8. (phase = "producing" => batch = <<>>)'
    BY <2>3
  <2>9. "supervisor" \in joined'
    BY <2>3
  <2> QED BY <2>6, <2>7, <2>8, <2>9 DEF MirrorInv
<1> QED BY <1>1, <1>2, WhatIsTold DEF AllTypeOK

-----------------------------------------------------------------------------
(* The end of an iteration                                                 *)

(* A service announces its own status at the most, and that only with the  *)
(* SIGKILL it asks for; and it asks for a way out when it has failed.      *)
LEMMA NextEventsTell ==
  ASSUME TypeOK, NEW x \in Services
  PROVE  /\ NextEvents(sh, x, lifecycle) \in Seq(Event)
         /\ \A s \in Services :
              \/ Quiet(NextEvents(sh, x, lifecycle), s)
              \/ /\ s = x /\ sh[x].status = "InKilling"
                 /\ ~Without(NextEvents(sh, x, lifecycle), {ForceKill(x)})
         /\ sh[x].status = "Failed" =>
              ~Without(NextEvents(sh, x, lifecycle), WaysOut(x))
<1> DEFINE h == sh[x]
           Mute(q) == q \in Seq(Event) /\ \A s \in Services : Quiet(q, s)
<1>0. /\ sh \in [Services -> ServiceHandlerType]
      /\ lifecycle \in LifecycleStatuses
  BY DEF TypeOK, SupervisorTypeOK
<1>1. ASSUME NEW e \in Event, e.kind # "StatusChanged"
      PROVE  Mute(<<e>>)
  <2>1. <<e>> \in Seq(Event) /\ DOMAIN <<e>> = {1} /\ <<e>>[1] = e
    BY OneEvent
  <2> QED BY <1>1, <2>1 DEF Quiet, Announces
<1>2. ASSUME NEW q, NEW r, Mute(q), Mute(r)
      PROVE  Mute(q \o r)
  <2>1. /\ q \o r \in Seq(Event)
        /\ \A S : Without(q \o r, S) <=> Without(q, S) /\ Without(r, S)
    BY <1>2, Joined
  <2>2. ASSUME NEW s \in Services PROVE Quiet(q \o r, s)
    <3> DEFINE S == {ev \in Event : Announces(ev, s)}
    <3>1. \A t \in Seq(Event) : Without(t, S) <=> Quiet(t, s)
      BY DEF Without, Quiet
    <3> HIDE DEF S
    <3>2. Without(q, S) /\ Without(r, S)
      BY <1>2, <3>1
    <3> QED BY <2>1, <3>1, <3>2
  <2> QED BY <2>1, <2>2
<1>3. Mute(<<>>)
  BY DEF Quiet
<1>4. ASSUME NEW T \in SUBSET Services
      PROVE  Mute(KillAll(T))
  <2>1. ASSUME NEW i \in DOMAIN KillAll(T)
        PROVE  KillAll(T)[i].kind # "StatusChanged"
    <3>1. \/ \E s : KillAll(T)[i] = StatusUpdate(s, "InKilling")
          \/ \E s : KillAll(T)[i] = Kill(s)
      BY DEF KillAll
    <3> QED BY <3>1 DEF StatusUpdate, Kill
  <2> QED BY <2>1, KillAllType DEF Quiet, Announces
<1>5. /\ \A st \in Statuses : /\ StatusUpdate(x, st) \in Event
                              /\ StatusUpdate(x, st).kind # "StatusChanged"
      /\ Kill(x) \in Event /\ Kill(x).kind # "StatusChanged"
      /\ ForceKill(x) \in Event /\ ForceKill(x).kind # "StatusChanged"
      /\ Run(x) \in Event /\ Run(x).kind # "StatusChanged"
      /\ ShuttingDownInitiated("Gracefully") \in Event
      /\ ShuttingDownInitiated("Gracefully").kind # "StatusChanged"
  BY EventConstructors
  DEF ShuttingDown, StatusUpdate, Kill, ForceKill, Run, ShuttingDownInitiated
<1> HIDE DEF Mute
<1>6. /\ \A st \in Statuses : Mute(<<StatusUpdate(x, st)>>)
      /\ Mute(<<Kill(x)>>) /\ Mute(<<ForceKill(x)>>) /\ Mute(<<Run(x)>>)
      /\ Mute(<<ShuttingDownInitiated("Gracefully")>>)
  BY <1>1, <1>5
<1>7. Mute(KillCommand(x))
  <2> DEFINE e == StatusUpdate(x, "InKilling")
             f == Kill(x)
  <2>1. /\ e \in Event /\ f \in Event
        /\ e.kind # "StatusChanged" /\ f.kind # "StatusChanged"
    BY <1>5 DEF Statuses
  <2> HIDE DEF e, f
  <2>2. /\ <<e, f>> \in Seq(Event) /\ DOMAIN <<e, f>> = {1, 2}
        /\ <<e, f>>[1] = e /\ <<e, f>>[2] = f
    BY <2>1
  <2>3. \A s \in Services : Quiet(<<e, f>>, s)
    BY <2>1, <2>2 DEF Quiet, Announces
  <2> QED BY <2>2, <2>3 DEF Mute, KillCommand, e, f
<1>8. \A b \in BOOLEAN : Mute(<<HandleRestartStrategy(x, h, b)>>)
  <2>1. \A b \in BOOLEAN : \E st \in Statuses :
          HandleRestartStrategy(x, h, b) = StatusUpdate(x, st)
    BY DEF HandleRestartStrategy, Statuses
  <2> QED BY <1>6, <2>1
<1>9. Mute(HandleFailedService(x))
  <2>1. Config[x].failure \in FailureStrategies
    BY ConfigAssumption DEF ServiceType
  <2>2. Mute(KillAll(Dependents(x)))
    BY <1>4 DEF Dependents
  <2> QED
    BY <1>3, <1>6, <2>1, <2>2 DEF HandleFailedService, FailureStrategies
<1>10. Mute(KillAll(DieIfFailed(x)))
  BY <1>4 DEF DieIfFailed
<1> DEFINE failed == HandleFailedService(x)
                       \o <<HandleRestartStrategy(x, h, TRUE)>>
                       \o KillAll(DieIfFailed(x))
           forced == <<ForceKill(x), StatusChanged(x, "Failed")>>
           running == NextEventsRunning(sh, x)
           ending == NextEventsShuttingDown(sh, x, lifecycle)
<1>11. Mute(failed)
  <2>1. Mute(HandleFailedService(x) \o <<HandleRestartStrategy(x, h, TRUE)>>)
    BY <1>2, <1>8, <1>9
  <2> QED BY <1>2, <1>10, <2>1
<1>12. /\ forced \in Seq(Event) /\ ~Without(forced, {ForceKill(x)})
       /\ \A s \in Services : Quiet(forced, s) \/ s = x
  <2> DEFINE e == ForceKill(x)
             f == StatusChanged(x, "Failed")
  <2>1. /\ e \in Event /\ f \in Event
        /\ \A s : ~Announces(e, s) /\ (Announces(f, s) => s = x)
    BY <1>5, EventConstructors DEF Statuses, StatusChanged, Announces
  <2> HIDE DEF e, f
  <2>2. /\ <<e, f>> \in Seq(Event) /\ DOMAIN <<e, f>> = {1, 2}
        /\ <<e, f>>[1] = e /\ <<e, f>>[2] = f
    BY <2>1
  <2>3. ~Without(<<e, f>>, {e})
    BY <2>2 DEF Without
  <2>4. \A s \in Services : Quiet(<<e, f>>, s) \/ s = x
    BY <2>1, <2>2 DEF Quiet
  <2> QED BY <2>2, <2>3, <2>4 DEF e, f
<1>13. h.status = "Failed" => ~Without(failed, WaysOut(x))
  <2> DEFINE e == HandleRestartStrategy(x, h, TRUE)
             a == HandleFailedService(x)
             b == KillAll(DieIfFailed(x))
             S == WaysOut(x)
  <2>1. e \in S /\ e \in Event
    <3>1. Config[x].strategy \in Strategies
      BY ConfigAssumption DEF ServiceType
    <3>2. \E st \in {"Initial", "FinishedFailed"} : e = StatusUpdate(x, st)
      BY <3>1 DEF HandleRestartStrategy, Strategies
    <3> HIDE DEF e
    <3> QED BY <1>5, <3>2 DEF WaysOut, Statuses
  <2>2. a \in Seq(Event) /\ b \in Seq(Event)
    BY <1>9, <1>10 DEF Mute
  <2> HIDE DEF e, a, b, S
  <2>3. ~Without(<<e>>, S) /\ <<e>> \in Seq(Event)
    BY <2>1, ShortQueues, OneEvent
  <2>4. a \o <<e>> \in Seq(Event) /\ ~Without(a \o <<e>>, S)
    BY <2>2, <2>3, Joined
  <2>5. ~Without((a \o <<e>>) \o b, S)
    BY <2>2, <2>4, Joined
  <2> QED BY <2>5 DEF e, a, b, S
<1>14. \/ Mute(running)
       \/ running = forced /\ h.status = "InKilling"
  <2> DEFINE Fine(q) == Mute(q) \/ (q = forced /\ h.status = "InKilling")
  <2>1. Mute(<<StatusUpdate(x, "Running")>>)
    BY <1>6 DEF Statuses
  <2>2. Mute(<<HandleRestartStrategy(x, h, FALSE)>>)
    BY <1>8
  <2>3. \A q : Mute(q) => Fine(q)
    OBVIOUS
  <2>4. h.status = "InKilling" => Fine(forced)
    OBVIOUS
  <2> HIDE DEF Fine
  <2>5. /\ Fine(<<Run(x)>>) /\ Fine(<<StatusUpdate(x, "Running")>>)
        /\ Fine(KillCommand(x)) /\ Fine(failed) /\ Fine(<<>>)
        /\ Fine(<<HandleRestartStrategy(x, h, FALSE)>>)
    BY <1>3, <1>6, <1>7, <1>11, <2>1, <2>2, <2>3, Zenon
  <2>6. Fine(running)
    BY <2>4, <2>5, Zenon DEF NextEventsRunning
  <2> QED BY <2>6 DEF Fine
<1>15. Mute(ending)
  <2>1. /\ Mute(<<StatusUpdate(x, "Finished")>>)
        /\ Mute(<<StatusUpdate(x, "FinishedFailed")>>)
    BY <1>6 DEF Statuses
  <2> QED BY <1>3, <1>6, <1>7, <2>1, Zenon DEF NextEventsShuttingDown
<1>16. h.status = "Failed" => running = failed
  BY DEF NextEventsRunning, IsServiceRunnable
<1>17. h.status = "Failed" => ending = <<StatusUpdate(x, "FinishedFailed")>>
  BY DEF NextEventsShuttingDown
<1>18. ~Without(<<StatusUpdate(x, "FinishedFailed")>>, WaysOut(x))
  BY ShortQueues DEF WaysOut
<1>19. NextEvents(sh, x, lifecycle) =
         IF lifecycle = "Running" THEN running ELSE ending
  BY DEF NextEvents
<1> HIDE DEF running, ending, failed, forced
<1> QED BY <1>12, <1>13, <1>14, <1>15, <1>16, <1>17, <1>18, <1>19 DEF Mute

(* What is to be sent at the end of an iteration: all of it is kept, and   *)
(* the exits announce nothing.                                             *)
LEMMA Produced ==
  ASSUME TypeOK, Produce
  PROVE  /\ \A S : AllWithout(out', S) =>
              /\ AllWithout(out, S)
              /\ \A x \in Services : Without(NextEvents(sh, x, lifecycle), S)
         /\ \A s \in Services :
              (\A x \in Services : Quiet(NextEvents(sh, x, lifecycle), s)) =>
                \A known : AfterAll(known, out', s) = AfterAll(known, out, s)
<1>1. PICK reaped \in SUBSET Zombies :
        \E order \in SetToSeqs({p \in reaped : pid_map[p] # None}) :
          out' = Drained(
            out \o [i \in DOMAIN ServiceOrder |->
                      NextEvents(sh, ServiceOrder[i], lifecycle)]
                \o <<[i \in DOMAIN order |->
                        ServiceExited(pid_map[order[i]], proc[order[i]].ok)]>>)
  BY DEF Produce
<1> DEFINE collected == {p \in reaped : pid_map[p] # None}
<1>2. PICK order \in SetToSeqs(collected) :
        out' = Drained(
          out \o [i \in DOMAIN ServiceOrder |->
                    NextEvents(sh, ServiceOrder[i], lifecycle)]
              \o <<[i \in DOMAIN order |->
                      ServiceExited(pid_map[order[i]], proc[order[i]].ok)]>>)
  BY <1>1
<1> DEFINE nexts == [i \in DOMAIN ServiceOrder |->
                       NextEvents(sh, ServiceOrder[i], lifecycle)]
           exits == [i \in DOMAIN order |->
                       ServiceExited(pid_map[order[i]], proc[order[i]].ok)]
           others == Append(nexts, exits)
           lists == out \o others
<1>3. out \in Seq(Seq(Event)) /\ nexts \in Seq(Seq(Event))
  <2>1. ASSUME NEW i \in DOMAIN ServiceOrder
        PROVE  NextEvents(sh, ServiceOrder[i], lifecycle) \in Seq(Event)
    <3>1. ServiceOrder[i] \in Services
      BY OrderAssumption
    <3> QED BY <3>1, NextEventsTell
  <2>2. /\ DOMAIN ServiceOrder = 1..Len(ServiceOrder)
        /\ Len(ServiceOrder) \in Nat
    BY OrderAssumption
  <2> QED BY <2>1, <2>2, QueueTypes
<1>4. exits \in Seq(Event) /\ \A i \in DOMAIN exits : exits[i].kind = "ServiceExited"
  <2>1. /\ order \in [1..Cardinality(collected) -> collected]
        /\ Cardinality(collected) \in Nat
    <3>1. IsFiniteSet(collected)
      BY PidsAssumption, FS_Subset DEF Zombies
    <3> QED BY <1>2, <3>1, FS_CardinalityType DEF SetToSeqs
  <2>2. ASSUME NEW i \in DOMAIN order
        PROVE  ServiceExited(pid_map[order[i]], proc[order[i]].ok) \in Event
    <3>1. order[i] \in Pids /\ pid_map[order[i]] # None
      BY <2>1 DEF Zombies
    <3>2. pid_map[order[i]] \in Services /\ proc[order[i]].ok \in BOOLEAN
      BY <3>1 DEF TypeOK, SupervisorTypeOK, ProcessesTypeOK, Process
    <3> QED BY <3>2, EventConstructors
  <2>3. PICK n \in Nat : DOMAIN order = 1..n
    BY <2>1
  <2>4. exits \in [1..n -> Event]
    BY <2>2, <2>3
  <2>5. exits \in Seq(Event)
    <3> HIDE DEF exits
    <3> QED BY <2>4
  <2>6. \A i \in DOMAIN exits : exits[i].kind = "ServiceExited"
    BY DEF ServiceExited
  <2> QED BY <2>5, <2>6
<1>5. out' = Drained(lists)
  <2> DEFINE l == <<exits>>
  <2>1. Append(nexts, exits) = nexts \o <<exits>>
    <3> HIDE DEF nexts, exits
    <3> QED BY <1>3, <1>4
  <2>2. out \o (nexts \o <<exits>>) = (out \o nexts) \o <<exits>>
    <3> HIDE DEF nexts, exits
    <3> QED BY <1>3, <1>4
  <2> QED BY <1>2, <2>1, <2>2
<1>6. ASSUME NEW x \in Services
      PROVE  \E i \in DOMAIN nexts : nexts[i] = NextEvents(sh, x, lifecycle)
  BY OrderAssumption
<1>7. ASSUME NEW i \in DOMAIN nexts
      PROVE  \E x \in Services : nexts[i] = NextEvents(sh, x, lifecycle)
  BY OrderAssumption
<1> HIDE DEF nexts, exits
<1>8. /\ others \in Seq(Seq(Event)) /\ lists \in Seq(Seq(Event))
      /\ \A k \in DOMAIN out : k \in DOMAIN lists /\ lists[k] = out[k]
      /\ \A i \in DOMAIN others : /\ Len(out) + i \in DOMAIN lists
                                  /\ lists[Len(out) + i] = others[i]
      /\ \A i \in DOMAIN nexts : i \in DOMAIN others /\ others[i] = nexts[i]
      /\ \A i \in DOMAIN others :
           \/ i \in DOMAIN nexts /\ others[i] = nexts[i]
           \/ others[i] = exits
  BY <1>3, <1>4, SMTT(30)
<1> HIDE DEF others, lists
<1>9. ASSUME NEW S, AllWithout(out', S)
      PROVE  AllWithout(lists, S)
  <2>1. CASE \A i \in DOMAIN lists : lists[i] = <<>>
    BY <2>1 DEF AllWithout, Without
  <2>2. CASE out' = lists
    BY <1>9, <2>2
  <2> QED BY <1>5, <2>1, <2>2 DEF Drained
<1>10. ASSUME NEW S, AllWithout(lists, S)
       PROVE  /\ AllWithout(out, S)
              /\ \A x \in Services : Without(NextEvents(sh, x, lifecycle), S)
  <2>1. AllWithout(out, S)
    BY <1>8, <1>10 DEF AllWithout
  <2>2. \A i \in DOMAIN others : Without(others[i], S)
    BY <1>8, <1>10 DEF AllWithout
  <2>3. \A i \in DOMAIN nexts : Without(nexts[i], S)
    BY <1>8, <2>2
  <2> QED BY <1>6, <2>1, <2>3
<1>11. ASSUME NEW s \in Services, NEW known,
              \A x \in Services : Quiet(NextEvents(sh, x, lifecycle), s)
       PROVE  AfterAll(known, out', s) = AfterAll(known, out, s)
  <2>1. \A i \in DOMAIN nexts : Quiet(nexts[i], s)
    BY <1>7, <1>11
  <2>2. Quiet(exits, s)
    BY <1>4 DEF Quiet, Announces
  <2>3. AllQuiet(others, s)
    BY <1>8, <2>1, <2>2 DEF AllQuiet
  <2>4. AfterAll(known, out \o others, s) = AfterAll(known, out, s)
    BY <1>3, <1>8, <2>3, ToldBefore
  <2>5. AfterAll(known, Drained(lists), s) = AfterAll(known, lists, s)
    BY <1>8, ToldWhenDrained
  <2> QED BY <1>5, <2>4, <2>5 DEF lists
<1> QED BY <1>9, <1>10, <1>11

LEMMA MirrorProduce ==
  ASSUME AllTypeOK, MirrorInv, UNCHANGED commandVars, Produce
  PROVE  MirrorInv'
<1>1. /\ TypeOK /\ SupervisorIsUp /\ "supervisor" \in joined' /\ batch' = <<>>
      /\ UNCHANGED <<sh, pipe, batch, inbox, heard, services, server>>
      /\ course' = course
  BY DEF AllTypeOK, MirrorInv, Produce, SupervisorIsUp, busVars, repoVars,
         commandVars, course
<1>2. ASSUME NEW S, AllWithout(out', S)
      PROVE  /\ AllWithout(out, S)
             /\ \A x \in Services : Without(NextEvents(sh, x, lifecycle), S)
  BY <1>1, <1>2, Produced
<1>3. CommandsEnd => CommandsEnd'
  BY <1>1, <1>2 DEF CommandsEnd, CommandsHaveEnded, Shutdowns
<1>4. ASSUME NEW s \in Services, RightlyTold(s)
      PROVE  RightlyTold(s)'
  <2>1. CASE \A x \in Services : Quiet(NextEvents(sh, x, lifecycle), s)
    <3> DEFINE known == After(After(services[s], heard, s), pipe, s)
    <3>1. known' = known
      BY <1>1
    <3>2. /\ WillBeTold(s)' = AfterAll(known', out', s)
          /\ WillBeTold(s) = AfterAll(known, out, s)
      BY DEF WillBeTold
    <3> HIDE DEF known
    <3>3. AfterAll(known, out', s) = AfterAll(known, out, s)
      BY <1>1, <2>1, Produced
    <3>4. WillBeTold(s)' = WillBeTold(s)
      BY <3>1, <3>2, <3>3
    <3>5. Nowhere({ForceKill(s)})' => Nowhere({ForceKill(s)})
      BY <1>1, <1>2 DEF Nowhere
    <3> QED BY <1>1, <1>3, <1>4, <3>4, <3>5 DEF RightlyTold
  <2>2. ASSUME NEW x \in Services, ~Quiet(NextEvents(sh, x, lifecycle), s)
        PROVE  RightlyTold(s)'
    <3>1. /\ s = x /\ sh[x].status = "InKilling"
          /\ ~Without(NextEvents(sh, x, lifecycle), {ForceKill(x)})
      BY <1>1, <2>2, NextEventsTell
    <3>2. ~AllWithout(out', {ForceKill(s)})
      BY <1>2, <3>1
    <3> QED BY <1>1, <3>1, <3>2 DEF RightlyTold, Nowhere
  <2> QED BY <2>1, <2>2
<1>5. ASSUME NEW s \in Services
      PROVE  GoesOn(s)'
  <2>1. sh[s].status = "Failed" =>
          ~Without(NextEvents(sh, s, lifecycle), WaysOut(s))
    BY <1>1, NextEventsTell
  <2>2. sh[s].status = "Failed" => ~AllWithout(out', WaysOut(s))
    BY <1>2, <2>1
  <2> QED BY <1>1, <2>2 DEF GoesOn, Nowhere
<1> QED BY <1>1, <1>4, <1>5 DEF MirrorInv

-----------------------------------------------------------------------------
(* The bus and the commands handler                                        *)

(* An announcement or a shutdown moves on to a commands handler that runs. *)
LEMMA MirrorDispatch ==
  ASSUME AllTypeOK, MirrorInv, DispatchAll
  PROVE  MirrorInv'
<1> DEFINE e == Head(pipe)
<1>1. /\ TypeOK /\ pipe \in Seq(Event) /\ heard \in Seq(Event)
      /\ pipe # <<>> /\ e \in Event /\ Tail(pipe) \in Seq(Event)
  BY AllQueueTypes DEF DispatchAll, Dispatch, Deliver
<1>2. /\ UNCHANGED <<joined, sh, phase, batch, out, services, server>>
      /\ pipe' = Tail(pipe)
      /\ heard' = IF /\ ~CommandsHaveEnded
                     /\ e.kind \in {"StatusChanged", "ShuttingDownInitiated"}
                    THEN Append(heard, e) ELSE heard
  BY DEF DispatchAll, Dispatch, Deliver, CommandsHear, repoVars, threadVars,
         CommandsHaveEnded
<1> HIDE DEF e
<1>3. ASSUME SupervisorIsUp, NEW s \in Services
      PROVE  NothingDropped(s)
  <2>1. "supervisor" \in joined
    BY <1>3 DEF MirrorInv
  <2>2. ASSUME NEW S \in {{ForceKill(s)}, WaysOut(s)}
        PROVE  Nowhere(S)' => Nowhere(S)
    <3>1. \A ev \in S : ev.kind # "StatusChanged"
      BY DEF WaysOut, ForceKill, StatusUpdate
    <3>2. Without(course', S) => Without(course, S)
      BY <1>1, <2>1, <3>1, EventDispatched DEF DispatchAll
    <3> QED BY <1>2, <3>2 DEF Nowhere
  <2> QED BY <2>2 DEF NothingDropped
<1>4. ASSUME NEW s \in Services
      PROVE  Quietly(s) \/ CommandsEnd'
  <2> DEFINE known == After(services[s], heard, s)
             now == IF Announces(e, s) THEN e.status ELSE known
  <2>1. After(known, pipe, s) = After(now, Tail(pipe), s)
    <3> HIDE DEF known
    <3> QED BY <1>1, ToldAtHead DEF e
  <2>2. /\ WillBeTold(s) = AfterAll(After(known, pipe, s), out, s)
        /\ WillBeTold(s)' = AfterAll(After(known', pipe', s), out', s)
    BY DEF WillBeTold
  <2>3. CASE CommandsHaveEnded
    BY <1>2, <2>3 DEF CommandsEnd, CommandsHaveEnded
  <2>4. CASE ~CommandsHaveEnded
    <3>1. known' = now
      <4>1. CASE heard' = Append(heard, e)
        <5>1. known' = After(services[s], Append(heard, e), s)
          BY <1>2, <4>1
        <5>2. After(services[s], Append(heard, e), s) = now
          BY <1>1, ToldAtEnd
        <5> QED BY <5>1, <5>2
      <4>2. CASE heard' = heard /\ ~Announces(e, s)
        BY <1>2, <4>2
      <4> QED BY <1>2, <2>4, <4>1, <4>2 DEF Announces
    <3> HIDE DEF known, now
    <3> QED BY <1>2, <2>1, <2>2, <3>1 DEF Quietly
  <2> QED BY <2>3, <2>4
<1>5. CommandsEnd => CommandsEnd'
  <2>1. CASE CommandsHaveEnded
    BY <1>2, <2>1 DEF CommandsEnd, CommandsHaveEnded
  <2>2. CASE ~CommandsHaveEnded
    <3>1. e \in Shutdowns => e.kind = "ShuttingDownInitiated"
      BY DEF Shutdowns, ShuttingDownInitiated
    <3>2. Without(pipe, Shutdowns) <=>
            e \notin Shutdowns /\ Without(Tail(pipe), Shutdowns)
      BY <1>1, HeadAndTail DEF e
    <3>3. Without(Append(heard, e), Shutdowns) <=>
            Without(heard, Shutdowns) /\ e \notin Shutdowns
      BY <1>1, PutAtEnd
    <3>4. Shutdowns' = Shutdowns
      BY DEF Shutdowns
    <3>5. CASE heard' = Append(heard, e)
      BY <1>2, <3>2, <3>3, <3>4, <3>5 DEF CommandsEnd, CommandsHaveEnded
    <3>6. CASE heard' = heard /\ e \notin Shutdowns
      BY <1>2, <3>2, <3>4, <3>6 DEF CommandsEnd, CommandsHaveEnded
    <3> QED BY <1>2, <2>2, <3>1, <3>5, <3>6
  <2> QED BY <2>1, <2>2
<1> QED BY <1>2, <1>3, <1>4, <1>5, MirrorKept DEF MirrorInv, SupervisorIsUp

(* The commands handler takes what it has heard, or ends.                  *)
LEMMA MirrorCommands ==
  ASSUME AllTypeOK, MirrorInv, CommandsThread
  PROVE  MirrorInv'
<1>1. /\ UNCHANGED <<joined, sh, phase, batch, out, pipe, inbox>>
      /\ heard \in Seq(Event) /\ services \in [Services -> Statuses]
  BY AllQueueTypes
  DEF CommandsThread, vars, busVars, supervisorVars, repoVars, threadVars
<1>2. course' = course
  BY <1>1 DEF course
<1>3. \A s \in Services : NothingDropped(s)
  BY <1>1, <1>2 DEF NothingDropped, Nowhere
<1>4. /\ CommandsEnd => CommandsEnd'
      /\ \A s \in Services : Quietly(s) \/ CommandsEnd'
  <2>1. CASE CommandsHaveEnded'
    BY <2>1 DEF CommandsEnd
  <2>2. CASE UNCHANGED <<heard, services>> /\ ~CommandsHaveEnded
    BY <1>1, <2>2 DEF CommandsEnd, Quietly, WillBeTold, Shutdowns
  <2>3. CASE TakeEvents
    <3>1. /\ ~CommandsHaveEnded /\ heard' = <<>>
          /\ services' = Applied(services, heard) /\ ~ShutdownHeard
      BY <2>3 DEF TakeEvents, CommandsHaveEnded
    <3>2. Without(heard, Shutdowns)
      BY <3>1 DEF Without, ShutdownHeard, Shutdowns, ShuttingDownInitiated
    <3>3. CommandsEnd => CommandsEnd'
      BY <1>1, <3>1, <3>2 DEF CommandsEnd, Shutdowns
    <3>4. ASSUME NEW s \in Services PROVE Quietly(s)
      <4>1. services'[s] = After(services[s], heard, s)
        BY <1>1, <3>1 DEF Applied, After, ToldIn, Announces
      <4>2. After(services'[s], heard', s) = services'[s]
        BY <3>1, ToldByNone
      <4> QED BY <1>1, <4>1, <4>2 DEF Quietly, WillBeTold
    <3> QED BY <3>3, <3>4
  <2>4. \/ CommandsHaveEnded' \/ TakeEvents
        \/ UNCHANGED <<heard, services>> /\ ~CommandsHaveEnded
    BY DEF CommandsThread, CommandsStep, Bind, FindNothing, EndCommands,
           Accept, HandleConnection, CommandsHaveEnded, commandVars
  <2> QED BY <2>1, <2>2, <2>3, <2>4
<1> QED BY <1>1, <1>3, <1>4, MirrorKept DEF MirrorInv, SupervisorIsUp

LEMMA MirrorClients ==
  ASSUME MirrorInv, UNCHANGED <<vars, heard, services, server>>
  PROVE  MirrorInv'
<1>1. UNCHANGED <<joined, sh, phase, batch, out, pipe, inbox>>
  BY DEF vars, busVars, supervisorVars, repoVars, threadVars
<1>2. course' = course
  BY <1>1 DEF course
<1>3. \A s \in Services : NothingDropped(s)
  BY <1>1, <1>2 DEF NothingDropped, Nowhere
<1>4. /\ \A s \in Services : Quietly(s)
      /\ CommandsEnd => CommandsEnd'
  BY <1>1 DEF Quietly, WillBeTold, CommandsEnd, CommandsHaveEnded, Shutdowns
<1> QED BY <1>1, <1>3, <1>4, MirrorKept DEF MirrorInv, SupervisorIsUp

-----------------------------------------------------------------------------
(* The theorem                                                             *)

LEMMA MirrorStarts == InitAll => MirrorInv
<1> SUFFICES ASSUME InitAll PROVE MirrorInv
  OBVIOUS
<1>1. /\ pipe = <<>> /\ heard = <<>> /\ out = <<>> /\ batch = <<>>
      /\ joined = Connectors /\ sh = [s \in Services |-> NewServiceHandler]
      /\ services = [s \in Services |-> "Initial"]
  BY DEF InitAll, Init, BusInit, SupervisorInit, CommandsInit
<1>2. ASSUME NEW s \in Services
      PROVE  RightlyTold(s) /\ GoesOn(s)
  <2>1. services[s] = "Initial" /\ sh[s].status = "Initial"
    BY <1>1 DEF NewServiceHandler
  <2>2. WillBeTold(s) = services[s]
    BY <1>1, ToldByNone DEF WillBeTold
  <2> QED BY <2>1, <2>2 DEF RightlyTold, GoesOn
<1> QED BY <1>1, <1>2 DEF MirrorInv, Connectors

LEMMA MirrorNext ==
  AllTypeOK /\ AllTypeOK' /\ MirrorInv /\ [NextAll]_allVars => MirrorInv'
<1> SUFFICES ASSUME AllTypeOK, AllTypeOK', MirrorInv, [NextAll]_allVars
             PROVE  MirrorInv'
  OBVIOUS
<1>1. CASE OtherThread /\ SupervisorThread
  BY <1>1, MirrorIngest, MirrorHandle, MirrorProduce, MirrorSend, MirrorLeaves
  DEF OtherThread, SupervisorThread, SupervisorStep
<1>2. CASE OtherThread /\ ~SupervisorThread
  BY <1>2, MirrorThreads DEF OtherThread
<1>3. CASE DispatchAll
  BY <1>3, MirrorDispatch
<1>4. CASE CommandsThread
  BY <1>4, MirrorCommands
<1>5. CASE \E c \in Clients : ClientProcess(c)
  BY <1>5, MirrorClients DEF ClientProcess, ClientStep, Connect, Ask, HangUp
<1>6. CASE UNCHANGED allVars
  BY <1>6, MirrorClients DEF allVars, commandVars
<1> QED BY <1>1, <1>2, <1>3, <1>4, <1>5, <1>6 DEF NextAll, IdleAll

(* When nothing is under way the last word has been heard.                 *)
LEMMA LastWordHeard == AllTypeOK /\ MirrorInv => MirrorAgrees
<1> SUFFICES ASSUME MirrorInv, NothingUnderWay,
                    server \in {"listening", "accepting", "reading"},
                    NEW s \in Services
             PROVE  services[s] = sh[s].status
  BY DEF MirrorAgrees
<1>1. /\ phase = "producing" /\ batch = <<>> /\ out = <<>> /\ pipe = <<>>
      /\ inbox["supervisor"] = <<>> /\ heard = <<>>
  BY DEF NothingUnderWay, Asleep, MirrorInv
<1>2. \A S : Nowhere(S) /\ Without(pipe, S) /\ Without(heard, S)
  <2> DEFINE none == <<>>
  <2>1. none \in Seq(Event) /\ course = none \o none \o none
    BY <1>1 DEF course
  <2>2. \A S : Without(none, S)
    BY ShortQueues
  <2> HIDE DEF none
  <2>3. \A S : Without(course, S)
    BY <2>1, <2>2, ThreeJoined DEF WithoutAll
  <2>4. \A S : AllWithout(out, S)
    BY <1>1 DEF AllWithout
  <2> QED BY <1>1, <2>2, <2>3, <2>4 DEF Nowhere, none
<1>3. ~CommandsEnd
  BY <1>2 DEF CommandsEnd, CommandsHaveEnded, Nowhere
<1>4. WillBeTold(s) = services[s]
  BY <1>1, ToldByNone DEF WillBeTold
<1>5. RightlyTold(s) /\ GoesOn(s)
  BY <1>1 DEF MirrorInv, SupervisorIsUp
<1> QED BY <1>1, <1>2, <1>3, <1>4, <1>5 DEF RightlyTold, GoesOn

(* Whatever is told early, twice or not at all on the way: when nothing is *)
(* under way any more, horustctl is told the status of the service.        *)
THEOREM CommandsMirror == SpecAll => []MirrorAgrees
<1>1. SpecAll => [](AllTypeOK /\ MirrorInv)
  BY AllTypes, MirrorStarts, MirrorNext, PTL DEF SpecAll
<1> QED BY <1>1, LastWordHeard, PTL

=============================================================================

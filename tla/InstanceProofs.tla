--------------------------- MODULE InstanceProofs ---------------------------
(***************************************************************************)
(* One service at a time, for every number of services, pids and queued    *)
(* events: each has at most one instance, keeps the status it has finished *)
(* with, and leaves nothing behind, however often it is started again.     *)
(* Four threads have a part in it, and what holds them together is a       *)
(* token: the spawner thread that a Run command starts, the forked pid it  *)
(* has not reported, and its answer on its way to the supervisor are one   *)
(* and the same thing.  What belongs to one start and what belongs to the  *)
(* next are kept apart by the order of the queues alone.                   *)
(***************************************************************************)
EXTENDS HorustProofs

(* The default restart strategy, without attempts.                         *)
Once(s) == Config[s].strategy = "never" /\ Config[s].attempts = 0

(* Nothing but a shutdown kills s: it has no checks to fail, it dies with  *)
(* no other service, and nothing it starts after takes it along.           *)
Calm(s) ==
  /\ Config[s].checks = {} /\ Config[s].die_if_failed = {}
  /\ \A d \in Config[s].start_after : Config[d].failure # "kill-dependents"

(* What may be started again is killed by shutdowns alone: the kill of one *)
(* instance cannot hit, or be followed by, the next.                       *)
CleanRestarts == \A s \in Services : Once(s) \/ Calm(s)

Without(q, S) == \A i \in DOMAIN q : q[i] \notin S
AtMostOneOf(q, S) == \A i, j \in DOMAIN q : q[i] \in S /\ q[j] \in S => i = j

(* What is on its way to the supervisor, the next event first, and what it *)
(* has still to send.                                                      *)
course == batch \o inbox["supervisor"] \o pipe
AllWithout(lists, S) == \A k \in DOMAIN lists : Without(lists[k], S)

(* None of S is being sent, under way, or about to be handled.             *)
Nowhere(S) == Without(course, S) /\ AllWithout(out, S)

(* After an event of S comes none of T.                                    *)
NoneBehind(q, S, T) ==
  \A i, j \in DOMAIN q : i < j /\ q[i] \in S => q[j] \notin T

(* Of S there is at most one event in the queue q and in the lists.        *)
OnlyOnce(q, lists, S) ==
  /\ AtMostOneOf(q, S)
  /\ \A k \in DOMAIN lists :
       AtMostOneOf(lists[k], S) /\ (Without(q, S) \/ Without(lists[k], S))
  /\ \A k, l \in DOMAIN lists :
       k = l \/ Without(lists[k], S) \/ Without(lists[l], S)

(* A step sends, or is going to send, nothing but events of N.             *)
OnlyAdds(N) ==
  \A S : (\A e \in N : e \notin S) =>
    /\ OnlyOnce(course, out, S) => OnlyOnce(course', out', S)
    /\ AllWithout(out, S) =>
         /\ AllWithout(out', S)
         /\ Without(course, S) => Without(course', S)
         /\ AtMostOneOf(course, S) => AtMostOneOf(course', S)

(* A step puts nothing but events of M behind the others.                  *)
KeepsOrder(M) ==
  \A S, T : /\ NoneBehind(course, S, T)
            /\ Without(course, S) \/ \A e \in M : e \notin T
            => NoneBehind(course', S, T)

-----------------------------------------------------------------------------
(* The events that matter                                                  *)

(* What a spawner thread answers.                                          *)
Replies(s) ==
  {ev \in Event : ev.kind \in {"PidChanged", "SpawnFailed"} /\ ev.svc = s}

(* What comes only when the spawner thread has answered.                   *)
Exits(s) == {ServiceExited(s, ok) : ok \in BOOLEAN}
Failures(s) == {StatusUpdate(s, st) : st \in {"Failed", "FinishedFailed"}}
Late(s) == Exits(s) \cup {ForceKill(s)}

(* What starts s, what makes it ready to be started again, and what ends   *)
(* an instance of it.                                                      *)
Starts(s) == {Run(s)}
Again(s) == {StatusUpdate(s, "Initial")}
Kills(s) == {Kill(s), StatusUpdate(s, "InKilling"), ForceKill(s)}

(* What nobody sends.                                                      *)
Unsent ==
  {StatusUpdate(s, st) :
     s \in Services, st \in {"Starting", "Started", "Success"}}

(* The replies that do not tell the truth about the process of s.          *)
Reported(ev) == IF ev.kind = "PidChanged" THEN {ev.pid} ELSE {}
Misreports(s) == {ev \in Replies(s) : ~(Alive(s) \subseteq Reported(ev))}

-----------------------------------------------------------------------------
(* The inductive invariant, for a service s                                *)

(* There is no token ...                                                   *)
Answered(s) ==
  /\ StillToFork(s) = 0
  /\ spawners[s].forked = {}
  /\ Without(course, Replies(s))

(* ... or one, in one place.                                               *)
OneToken(s) ==
  /\ StillToFork(s) <= 1
  /\ \A p, q \in spawners[s].forked : p = q
  /\ AtMostOneOf(course, Replies(s))
  /\ StillToFork(s) > 0 =>
       spawners[s].forked = {} /\ Without(course, Replies(s))
  /\ spawners[s].forked # {} => Without(course, Replies(s))

(* s has not been started, or its spawner thread has not answered: nobody  *)
(* knows its pid.                                                          *)
Awaited(s) == sh[s].status = "Initial" \/ ~Answered(s)

TokenInv(s) ==
  /\ OneToken(s)
  /\ AllWithout(out, Replies(s))
  /\ sh[s].status = "Initial" => Answered(s)
  /\ ~Answered(s) => sh[s].status \in {"Starting", "InKilling"}
  /\ Awaited(s) => sh[s].pid = None /\ Nowhere(Late(s))
  /\ \A p \in Pids : pid_map[p] = s => sh[s].pid = p

(* The processes of s at each place of the token.  Once it has answered,   *)
(* the handler knows the pid of the only process that may be alive.        *)
ProcessInv(s) ==
  /\ \A p, q \in Alive(s) : p = q
  /\ sh[s].status = "Initial" \/ StillToFork(s) > 0 => Alive(s) = {}
  /\ \A p \in spawners[s].forked : Alive(s) \subseteq {p}
  /\ Without(course, Misreports(s))
  /\ SupervisorIsUp /\ Answered(s) => Alive(s) \subseteq {sh[s].pid}

Over == {"Success", "Failed", "Finished", "FinishedFailed"}
Live == {"Starting", "Started", "Running", "InKilling"}
HasFailed(s) == sh[s].status \in {"Failed", "FinishedFailed"}

(* Why nothing but what SIGKILL is about to remove is left in the end.     *)
EndInv(s) ==
  /\ Alive(s) # {} => Nowhere(Exits(s))
  /\ sh[s].status \in Live => Nowhere(Failures(s))
  /\ sh[s].status \in Over => \A p \in Alive(s) : proc[p].sig = "kill"

ServiceInv(s) == TokenInv(s) /\ ProcessInv(s) /\ EndInv(s)

(* A Run command is of no use once a spawner thread has answered one: it   *)
(* was sent before, and is dropped before anything of the start it would   *)
(* repeat can end.                                                         *)
RunInv(s) ==
  /\ NoneBehind(course, Replies(s), Starts(s))
  /\ ~HasFinished(sh[s]) => NoneBehind(course, Starts(s), Failures(s))
  /\ ~AllWithout(out, Starts(s)) =>
       phase = "producing" /\ sh[s].status = "Initial"
  /\ ~AllWithout(out, Failures(s)) =>
       /\ HasFailed(s)
       /\ phase = "handling" /\ sh[s].status = "Failed" => Nowhere(Again(s))
  /\ /\ SupervisorIsUp /\ Answered(s)
     /\ \/ sh[s].status \in Live \cup {"Failed"}
        \/ sh[s].status = "Success" /\ ~Once(s)
     => Without(course, Starts(s))

(* While s is told to be ready again, nothing of its last instance is      *)
(* left, and nothing of the next is there yet.                             *)
AgainInv(s) ==
  /\ Once(s) => Nowhere(Again(s))
  /\ ~AllWithout(out, Again(s)) =>
       phase = "producing" /\ sh[s].status \in {"Success", "Failed"}
  /\ ~AllWithout(out, Exits(s)) => phase = "producing" /\ sh[s].pid # None
  /\ ~HasFinished(sh[s]) =>
       /\ NoneBehind(course, Starts(s), Again(s))
       /\ NoneBehind(course, Again(s), Exits(s))
       /\ ~Nowhere(Again(s)) =>
            /\ sh[s].status \in {"Initial", "Success", "Failed"}
            /\ sh[s].pid = None /\ Answered(s) /\ Nowhere(Kills(s))

(* What may be started again is killed in shutdowns alone, and never       *)
(* before it has been started.                                             *)
CalmInv(s) ==
  ~Once(s) =>
    /\ sh[s].status = "InKilling" \/ ~Nowhere(Kills(s)) =>
         lifecycle # "Running"
    /\ sh[s].status = "Initial" => Nowhere(Kills(s))
    /\ lifecycle = "Running" /\ sh[s].status \in {"Success", "Failed"} =>
         sh[s].pid = None

RestartInv(s) == RunInv(s) /\ AgainInv(s) /\ CalmInv(s)

(* A service without checks has not failed one, nor is it going to.        *)
HealthInv(s) ==
  Config[s].checks = {} =>
    /\ worker[s] = "none" /\ command[s] = None
    /\ sh[s].healthiness_checks_failed \in {-1, 0}
    /\ Nowhere({HealthCheck(s, FALSE)})

(* For all services; between two iterations the batch is empty.            *)
GlobalInv ==
  /\ TypeOK
  /\ phase = "producing" => batch = <<>>
  /\ SupervisorIsUp => "supervisor" \in joined
  /\ Nowhere(Unsent)

(* What a step is shown to keep for each service by itself ...             *)
ServicesInv ==
  /\ GlobalInv
  /\ \A s \in Services : ServiceInv(s)
  /\ \A s \in Services : RestartInv(s)

(* ... and with it what the health checks may do.                          *)
InstanceInv ==
  /\ GlobalInv
  /\ \A s \in Services : ServiceInv(s)
  /\ \A s \in Services : RestartInv(s)
  /\ \A s \in Services : HealthInv(s)

-----------------------------------------------------------------------------
(* Sequences of events                                                     *)

(* The head of a queue and its tail.                                       *)
LEMMA HeadAndTail ==
  ASSUME NEW q \in Seq(Event), q # <<>>, NEW S
  PROVE  /\ Without(q, S) <=> Head(q) \notin S /\ Without(Tail(q), S)
         /\ AtMostOneOf(q, S) =>
              /\ AtMostOneOf(Tail(q), S)
              /\ Head(q) \in S => Without(Tail(q), S)
<1>1. /\ Len(q) \in Nat /\ Len(q) > 0 /\ Head(q) = q[1]
      /\ DOMAIN q = 1..Len(q) /\ DOMAIN Tail(q) = 1..(Len(q) - 1)
      /\ \A i \in 1..(Len(q) - 1) : Tail(q)[i] = q[i + 1]
  OBVIOUS
<1>2. \A i \in DOMAIN Tail(q) : /\ i + 1 \in DOMAIN q /\ i + 1 # 1
                                /\ Tail(q)[i] = q[i + 1]
  BY <1>1
<1>3. 1 \in DOMAIN q /\ Head(q) = q[1]
  BY <1>1
<1>4. \A i \in DOMAIN q : i = 1 \/ (i - 1 \in DOMAIN Tail(q)
                                    /\ Tail(q)[i - 1] = q[i])
  BY <1>1
<1>5. \A i, j \in DOMAIN Tail(q) : i + 1 = j + 1 => i = j
  BY <1>1
<1>6. Without(q, S) <=> Head(q) \notin S /\ Without(Tail(q), S)
  BY <1>2, <1>3, <1>4 DEF Without
<1>7. AtMostOneOf(q, S) => AtMostOneOf(Tail(q), S)
  BY <1>2, <1>5 DEF AtMostOneOf
<1>8. AtMostOneOf(q, S) /\ Head(q) \in S => Without(Tail(q), S)
  BY <1>2, <1>3 DEF AtMostOneOf, Without
<1> QED BY <1>6, <1>7, <1>8

(* Two queues, one after the other.                                        *)
LEMMA Joined ==
  ASSUME NEW q \in Seq(Event), NEW r \in Seq(Event), NEW S
  PROVE  /\ q \o r \in Seq(Event)
         /\ Without(q \o r, S) <=> Without(q, S) /\ Without(r, S)
         /\ AtMostOneOf(q \o r, S) <=>
              /\ AtMostOneOf(q, S) /\ AtMostOneOf(r, S)
              /\ Without(q, S) \/ Without(r, S)
<1> DEFINE m == Len(q)
           n == Len(r)
           t == q \o r
<1>1. /\ m \in Nat /\ n \in Nat
      /\ DOMAIN q = 1..m /\ DOMAIN r = 1..n /\ DOMAIN t = 1..(m + n)
      /\ \A i \in 1..m : t[i] = q[i]
      /\ \A i \in 1..n : t[m + i] = r[i]
      /\ t \in Seq(Event)
  OBVIOUS
<1> HIDE DEF m, n, t
<1>2. \A i \in DOMAIN t : i \in DOMAIN q \/ i - m \in DOMAIN r
  BY <1>1
<1>3. \A i \in DOMAIN q : i \in DOMAIN t /\ t[i] = q[i]
  BY <1>1
<1>4. \A i \in DOMAIN r : /\ m + i \in DOMAIN t /\ t[m + i] = r[i]
                          /\ m + i \notin DOMAIN q
  BY <1>1
<1>5. \A i \in DOMAIN t : i - m \in DOMAIN r => t[i] = r[i - m]
  BY <1>1
<1>6. Without(t, S) <=> Without(q, S) /\ Without(r, S)
  <2>1. Without(q, S) /\ Without(r, S) => Without(t, S)
    BY <1>2, <1>3, <1>5 DEF Without
  <2>2. Without(t, S) => Without(q, S) /\ Without(r, S)
    BY <1>3, <1>4 DEF Without
  <2> QED BY <2>1, <2>2
<1>7. ASSUME AtMostOneOf(t, S)
      PROVE  /\ AtMostOneOf(q, S) /\ AtMostOneOf(r, S)
             /\ Without(q, S) \/ Without(r, S)
  <2>1. AtMostOneOf(q, S)
    BY <1>3, <1>7 DEF AtMostOneOf
  <2>2. AtMostOneOf(r, S)
    <3> SUFFICES ASSUME NEW i \in DOMAIN r, NEW j \in DOMAIN r,
                        r[i] \in S, r[j] \in S
                 PROVE  i = j
      BY DEF AtMostOneOf
    <3>1. m + i = m + j
      BY <1>4, <1>7 DEF AtMostOneOf
    <3> QED BY <1>1, <3>1
  <2>3. Without(q, S) \/ Without(r, S)
    <3> SUFFICES ASSUME NEW i \in DOMAIN q, NEW j \in DOMAIN r,
                        q[i] \in S, r[j] \in S
                 PROVE  FALSE
      BY DEF Without
    <3>1. i = m + j
      BY <1>3, <1>4, <1>7 DEF AtMostOneOf
    <3> QED BY <1>4, <3>1
  <2> QED BY <2>1, <2>2, <2>3
<1>8. ASSUME AtMostOneOf(q, S), AtMostOneOf(r, S),
             Without(q, S) \/ Without(r, S)
      PROVE  AtMostOneOf(t, S)
  <2> SUFFICES ASSUME NEW i \in DOMAIN t, NEW j \in DOMAIN t,
                      t[i] \in S, t[j] \in S
               PROVE  i = j
    BY DEF AtMostOneOf
  <2>1. CASE Without(q, S)
    <3>1. /\ i - m \in DOMAIN r /\ j - m \in DOMAIN r
          /\ t[i] = r[i - m] /\ t[j] = r[j - m]
      BY <1>2, <1>3, <1>5, <2>1 DEF Without
    <3>2. i - m = j - m
      BY <1>8, <3>1 DEF AtMostOneOf
    <3> QED BY <1>1, <3>2
  <2>2. CASE Without(r, S)
    <3>1. i \in DOMAIN q /\ j \in DOMAIN q
      BY <1>2, <1>5, <2>2 DEF Without
    <3> QED BY <1>3, <1>8, <3>1 DEF AtMostOneOf
  <2> QED BY <1>8, <2>1, <2>2
<1> QED BY <1>1, <1>6, <1>7, <1>8 DEF t

(* The shortest queues, and what is put at the end of one.                 *)
LEMMA ShortQueues ==
  ASSUME NEW S
  PROVE  /\ <<>> \in Seq(Event) /\ Without(<<>>, S) /\ AtMostOneOf(<<>>, S)
         /\ \A e : Without(<<e>>, S) <=> e \notin S
         /\ \A e, f : Without(<<e, f>>, S) <=> e \notin S /\ f \notin S
         /\ \A e : AtMostOneOf(<<e>>, S)
BY DEF Without, AtMostOneOf

LEMMA PutAtEnd ==
  ASSUME NEW q \in Seq(Event), NEW e \in Event, NEW S
  PROVE  /\ Append(q, e) \in Seq(Event)
         /\ Without(Append(q, e), S) <=> Without(q, S) /\ e \notin S
         /\ AtMostOneOf(Append(q, e), S) <=>
              AtMostOneOf(q, S) /\ (Without(q, S) \/ e \notin S)
<1>1. <<e>> \in Seq(Event) /\ Append(q, e) = q \o <<e>>
  OBVIOUS
<1>2. /\ Without(q \o <<e>>, S) <=> Without(q, S) /\ Without(<<e>>, S)
      /\ AtMostOneOf(q \o <<e>>, S) <=>
           /\ AtMostOneOf(q, S) /\ AtMostOneOf(<<e>>, S)
           /\ Without(q, S) \/ Without(<<e>>, S)
  BY <1>1, Joined
<1>3. Append(q, e) \in Seq(Event)
  OBVIOUS
<1>4. (Without(<<e>>, S) <=> e \notin S) /\ AtMostOneOf(<<e>>, S)
  BY ShortQueues
<1> QED BY <1>1, <1>2, <1>3, <1>4

(* What comes behind what in a queue, in its tail, and in two queues, one  *)
(* after the other.                                                        *)
LEMMA OrderInTail ==
  ASSUME NEW q \in Seq(Event), q # <<>>, NEW S, NEW T, NoneBehind(q, S, T)
  PROVE  NoneBehind(Tail(q), S, T) /\ (Head(q) \in S => Without(Tail(q), T))
<1>1. /\ Len(q) \in Nat /\ Len(q) > 0 /\ Head(q) = q[1]
      /\ DOMAIN q = 1..Len(q) /\ DOMAIN Tail(q) = 1..(Len(q) - 1)
      /\ \A i \in 1..(Len(q) - 1) : Tail(q)[i] = q[i + 1]
  OBVIOUS
<1>2. \A i \in DOMAIN Tail(q) : /\ i + 1 \in DOMAIN q /\ 1 < i + 1
                                /\ Tail(q)[i] = q[i + 1]
  BY <1>1
<1>3. 1 \in DOMAIN q /\ Head(q) = q[1]
  BY <1>1
<1>4. \A i, j \in DOMAIN Tail(q) : i < j => i + 1 < j + 1
  BY <1>1
<1>5. NoneBehind(Tail(q), S, T)
  BY <1>2, <1>4 DEF NoneBehind
<1>6. Head(q) \in S => Without(Tail(q), T)
  BY <1>2, <1>3 DEF NoneBehind, Without
<1> QED BY <1>5, <1>6

LEMMA OrderJoined ==
  ASSUME NEW q \in Seq(Event), NEW r \in Seq(Event), NEW S, NEW T
  PROVE  NoneBehind(q \o r, S, T) <=>
           /\ NoneBehind(q, S, T) /\ NoneBehind(r, S, T)
           /\ Without(q, S) \/ Without(r, T)
<1> DEFINE m == Len(q)
           n == Len(r)
           t == q \o r
<1>1. /\ m \in Nat /\ n \in Nat
      /\ DOMAIN q = 1..m /\ DOMAIN r = 1..n /\ DOMAIN t = 1..(m + n)
      /\ \A i \in 1..m : t[i] = q[i]
      /\ \A i \in 1..n : t[m + i] = r[i]
  OBVIOUS
<1> HIDE DEF m, n, t
<1>2. \A i \in DOMAIN q : i \in DOMAIN t /\ t[i] = q[i]
  BY <1>1
<1>3. \A i \in DOMAIN r : m + i \in DOMAIN t /\ t[m + i] = r[i]
  BY <1>1
<1>4. \A i \in DOMAIN q, j \in DOMAIN r : i < m + j
  BY <1>1
<1>5. \A i, j \in DOMAIN r : i < j => m + i < m + j
  BY <1>1
<1>6. ASSUME NoneBehind(t, S, T)
      PROVE  /\ NoneBehind(q, S, T) /\ NoneBehind(r, S, T)
             /\ Without(q, S) \/ Without(r, T)
  <2>1. NoneBehind(q, S, T)
    BY <1>2, <1>6 DEF NoneBehind
  <2>2. NoneBehind(r, S, T)
    BY <1>3, <1>5, <1>6 DEF NoneBehind
  <2>3. ASSUME NEW i \in DOMAIN q, NEW j \in DOMAIN r, q[i] \in S, r[j] \in T
        PROVE  FALSE
    <3>1. /\ i \in DOMAIN t /\ m + j \in DOMAIN t /\ i < m + j
          /\ t[i] \in S /\ t[m + j] \in T
      BY <1>2, <1>3, <1>4, <2>3
    <3> QED BY <1>6, <3>1 DEF NoneBehind
  <2> QED BY <2>1, <2>2, <2>3 DEF Without
<1>7. ASSUME NoneBehind(q, S, T), NoneBehind(r, S, T),
             Without(q, S) \/ Without(r, T)
      PROVE  NoneBehind(t, S, T)
  <2> SUFFICES ASSUME NEW i \in DOMAIN t, NEW j \in DOMAIN t, i < j,
                      t[i] \in S, t[j] \in T
               PROVE  FALSE
    BY DEF NoneBehind
  <2>1. CASE j \in DOMAIN q
    <3>1. i \in DOMAIN q
      BY <1>1, <2>1
    <3> QED BY <1>2, <1>7, <2>1, <3>1 DEF NoneBehind
  <2>2. CASE i \notin DOMAIN q
    <3>1. /\ i - m \in DOMAIN r /\ j - m \in DOMAIN r /\ i - m < j - m
          /\ t[i] = r[i - m] /\ t[j] = r[j - m]
      BY <1>1, <2>2
    <3> QED BY <1>7, <3>1 DEF NoneBehind
  <2>3. CASE i \in DOMAIN q /\ j \notin DOMAIN q
    <3>1. t[i] = q[i] /\ j - m \in DOMAIN r /\ t[j] = r[j - m]
      BY <1>1, <2>3
    <3> QED BY <1>7, <2>3, <3>1 DEF Without
  <2> QED BY <2>1, <2>2, <2>3
<1> QED BY <1>6, <1>7 DEF t

(* The same of the empty queue, and of one that gets longer.               *)
LEMMA NoneBehindAtEnd ==
  ASSUME NEW q \in Seq(Event), NEW e \in Event, NEW S, NEW T
  PROVE  /\ NoneBehind(<<>>, S, T)
         /\ NoneBehind(Append(q, e), S, T) <=>
              NoneBehind(q, S, T) /\ (Without(q, S) \/ e \notin T)
<1>1. <<e>> \in Seq(Event) /\ Append(q, e) = q \o <<e>>
  OBVIOUS
<1>2. NoneBehind(<<e>>, S, T) /\ NoneBehind(<<>>, S, T)
  BY DEF NoneBehind
<1>3. Without(<<e>>, T) <=> e \notin T
  BY ShortQueues
<1>4. NoneBehind(q \o <<e>>, S, T) <=>
        /\ NoneBehind(q, S, T) /\ NoneBehind(<<e>>, S, T)
        /\ Without(q, S) \/ Without(<<e>>, T)
  BY <1>1, OrderJoined
<1> QED BY <1>1, <1>2, <1>3, <1>4

(* What NoneBehind says of three queues.                                   *)
NoneBehindAcross(b, q, r, S, T) ==
  /\ NoneBehind(b, S, T) /\ NoneBehind(q, S, T) /\ NoneBehind(r, S, T)
  /\ Without(b, S) \/ Without(q, T)
  /\ Without(b, S) \/ Without(r, T)
  /\ Without(q, S) \/ Without(r, T)

LEMMA OrderOfThree ==
  ASSUME NEW b \in Seq(Event), NEW q \in Seq(Event), NEW r \in Seq(Event),
         NEW S, NEW T
  PROVE  NoneBehind(b \o q \o r, S, T) <=> NoneBehindAcross(b, q, r, S, T)
<1>1. /\ b \o q \in Seq(Event)
      /\ Without(b \o q, S) <=> Without(b, S) /\ Without(q, S)
      /\ NoneBehind(b \o q, S, T) <=>
           /\ NoneBehind(b, S, T) /\ NoneBehind(q, S, T)
           /\ Without(b, S) \/ Without(q, T)
  BY Joined, OrderJoined
<1>2. NoneBehind((b \o q) \o r, S, T) <=>
        /\ NoneBehind(b \o q, S, T) /\ NoneBehind(r, S, T)
        /\ Without(b \o q, S) \/ Without(r, T)
  BY <1>1, OrderJoined
<1> QED BY <1>1, <1>2 DEF NoneBehindAcross

(* What Without and AtMostOneOf say of three queues.                       *)
WithoutAll(b, q, r, S) == Without(b, S) /\ Without(q, S) /\ Without(r, S)
AtMostOneAmong(b, q, r, S) ==
  /\ AtMostOneOf(b, S) /\ AtMostOneOf(q, S) /\ AtMostOneOf(r, S)
  /\ Without(b, S) \/ Without(q, S)
  /\ Without(b, S) \/ Without(r, S)
  /\ Without(q, S) \/ Without(r, S)

(* Three queues.                                                           *)
LEMMA ThreeJoined ==
  ASSUME NEW b \in Seq(Event), NEW q \in Seq(Event), NEW r \in Seq(Event),
         NEW S
  PROVE  /\ Without(b \o q \o r, S) <=> WithoutAll(b, q, r, S)
         /\ AtMostOneOf(b \o q \o r, S) <=> AtMostOneAmong(b, q, r, S)
<1>1. /\ b \o q \in Seq(Event)
      /\ Without(b \o q, S) <=> Without(b, S) /\ Without(q, S)
      /\ AtMostOneOf(b \o q, S) <=>
              /\ AtMostOneOf(b, S) /\ AtMostOneOf(q, S)
              /\ Without(b, S) \/ Without(q, S)
  BY Joined
<1>2. /\ Without((b \o q) \o r, S) <=> Without(b \o q, S) /\ Without(r, S)
      /\ AtMostOneOf((b \o q) \o r, S) <=>
              /\ AtMostOneOf(b \o q, S) /\ AtMostOneOf(r, S)
              /\ Without(b \o q, S) \/ Without(r, S)
  <2> DEFINE bq == b \o q
  <2>1. bq \in Seq(Event)
    BY <1>1
  <2> HIDE DEF bq
  <2>2. /\ Without(bq \o r, S) <=> Without(bq, S) /\ Without(r, S)
        /\ AtMostOneOf(bq \o r, S) <=>
                /\ AtMostOneOf(bq, S) /\ AtMostOneOf(r, S)
                /\ Without(bq, S) \/ Without(r, S)
    BY <2>1, Joined
  <2> QED BY <2>2 DEF bq
<1> QED BY <1>1, <1>2 DEF WithoutAll, AtMostOneAmong

(* No event of S is put into the queue, none into the lists.               *)
LEMMA StillOnce ==
  ASSUME NEW q, NEW r, NEW lists, NEW kept, NEW S, OnlyOnce(q, lists, S),
         Without(q, S) => Without(r, S),
         AtMostOneOf(q, S) => AtMostOneOf(r, S),
         \A k \in DOMAIN kept :
           Without(kept[k], S) \/ (k \in DOMAIN lists /\ kept[k] = lists[k])
  PROVE  OnlyOnce(r, kept, S)
<1>1. \A k \in DOMAIN kept : Without(kept[k], S) => AtMostOneOf(kept[k], S)
  BY DEF Without, AtMostOneOf
<1> QED BY <1>1 DEF OnlyOnce

-----------------------------------------------------------------------------
(* The queues at each kind of step                                         *)

(* The types that matter here.                                             *)
LEMMA QueueTypes ==
  ASSUME TypeOK
  PROVE  /\ batch \in Seq(Event) /\ pipe \in Seq(Event)
         /\ inbox["supervisor"] \in Seq(Event)
         /\ inbox["healthcheck"] \in Seq(Event)
         /\ out \in Seq(Seq(Event))
BY DEF TypeOK, BusTypeOK, SupervisorTypeOK, Connectors

(* The queues are left alone.                                              *)
LEMMA NothingSent ==
  ASSUME UNCHANGED <<batch, inbox["supervisor"], pipe, out>>
  PROVE  /\ OnlyAdds({})
         /\ \A S : Without(course', S) => Without(course, S)
BY DEF OnlyAdds, course

(* Another thread sends an event.                                          *)
LEMMA EventSent ==
  ASSUME TypeOK, NEW e \in Event, pipe' = Append(pipe, e),
         UNCHANGED <<batch, inbox["supervisor"], out>>
  PROVE  /\ OnlyAdds({e})
         /\ \A S : Without(course', S) => Without(course, S) /\ e \notin S
         /\ \A S : Without(course, S) => AtMostOneOf(course', S)
<1> DEFINE q == inbox["supervisor"]
<1>1. batch \in Seq(Event) /\ q \in Seq(Event) /\ pipe \in Seq(Event)
  BY QueueTypes
<1>2. course = batch \o q \o pipe /\ course' = batch \o q \o pipe'
  BY DEF course
<1> HIDE DEF q
<1>3. ASSUME NEW S
      PROVE  /\ Without(course', S) <=> Without(course, S) /\ e \notin S
             /\ e \notin S /\ AtMostOneOf(course, S) => AtMostOneOf(course', S)
             /\ Without(course, S) => AtMostOneOf(course', S)
  <2>1. /\ pipe' \in Seq(Event)
        /\ Without(pipe', S) <=> Without(pipe, S) /\ e \notin S
        /\ AtMostOneOf(pipe', S) <=>
             AtMostOneOf(pipe, S) /\ (Without(pipe, S) \/ e \notin S)
    BY <1>1, PutAtEnd
  <2>2. /\ Without(course, S) <=> WithoutAll(batch, q, pipe, S)
        /\ AtMostOneOf(course, S) <=> AtMostOneAmong(batch, q, pipe, S)
    BY <1>1, <1>2, ThreeJoined
  <2>3. /\ Without(course', S) <=> WithoutAll(batch, q, pipe', S)
        /\ AtMostOneOf(course', S) <=> AtMostOneAmong(batch, q, pipe', S)
    BY <1>1, <1>2, <2>1, ThreeJoined
  <2>4. /\ Without(batch, S) => AtMostOneOf(batch, S)
        /\ Without(q, S) => AtMostOneOf(q, S)
        /\ Without(pipe, S) => AtMostOneOf(pipe, S)
    BY DEF Without, AtMostOneOf
  <2> QED BY <2>1, <2>2, <2>3, <2>4 DEF WithoutAll, AtMostOneAmong
<1>4. ASSUME NEW S, e \notin S, OnlyOnce(course, out, S)
      PROVE  OnlyOnce(course', out', S)
  BY <1>3, <1>4, StillOnce
<1> QED BY <1>3, <1>4 DEF OnlyAdds

(* An event has been handled, and evs is to be sent.                       *)
LEMMA EventHandled ==
  ASSUME TypeOK, batch # <<>>, NEW evs \in Seq(Event), Done(evs)
  PROVE  /\ OnlyAdds({evs[i] : i \in DOMAIN evs})
         /\ \A S : Head(batch) \notin S =>
              (Without(course', S) => Without(course, S))
         /\ \A S : Head(batch) \in S /\ AtMostOneOf(course, S) =>
              Without(course', S) /\ ~Without(course, S)
<1> DEFINE q == inbox["supervisor"]
           N == {evs[i] : i \in DOMAIN evs}
<1>1. /\ batch \in Seq(Event) /\ q \in Seq(Event) /\ pipe \in Seq(Event)
      /\ out \in Seq(Seq(Event)) /\ Tail(batch) \in Seq(Event)
  BY QueueTypes
<1>2. course = batch \o q \o pipe /\ course' = Tail(batch) \o q \o pipe
  BY DEF course, Done, busVars
<1>3. out' = IF evs = <<>> THEN out ELSE Append(out, evs)
  BY DEF Done
<1>4. ASSUME NEW k \in DOMAIN out'
      PROVE  \/ k \in DOMAIN out /\ out'[k] = out[k]
             \/ out'[k] = evs
  BY <1>1, <1>3
<1> HIDE DEF q
<1>5. ASSUME NEW S
      PROVE  /\ Without(course, S) <=>
                  Head(batch) \notin S /\ Without(course', S)
             /\ AtMostOneOf(course, S) =>
                  /\ AtMostOneOf(course', S)
                  /\ Head(batch) \in S => Without(course', S)
  <2>1. /\ Without(batch, S) <=> Head(batch) \notin S /\ Without(Tail(batch), S)
        /\ AtMostOneOf(batch, S) =>
             /\ AtMostOneOf(Tail(batch), S)
             /\ Head(batch) \in S => Without(Tail(batch), S)
    BY <1>1, HeadAndTail
  <2>2. /\ Without(course, S) <=> WithoutAll(batch, q, pipe, S)
        /\ AtMostOneOf(course, S) <=> AtMostOneAmong(batch, q, pipe, S)
    BY <1>1, <1>2, ThreeJoined
  <2>3. /\ Without(course', S) <=> WithoutAll(Tail(batch), q, pipe, S)
        /\ AtMostOneOf(course', S) <=> AtMostOneAmong(Tail(batch), q, pipe, S)
    BY <1>1, <1>2, ThreeJoined
  <2> QED BY <2>1, <2>2, <2>3 DEF WithoutAll, AtMostOneAmong
<1>6. ASSUME NEW S, \A e \in N : e \notin S, AllWithout(out, S)
      PROVE  AllWithout(out', S)
  <2>1. Without(evs, S)
    BY <1>6 DEF Without
  <2> QED BY <1>4, <1>6, <2>1 DEF AllWithout
<1>7. ASSUME NEW S, \A e \in N : e \notin S, OnlyOnce(course, out, S)
      PROVE  OnlyOnce(course', out', S)
  <2>1. Without(evs, S)
    BY <1>7 DEF Without
  <2> QED BY <1>4, <1>5, <1>7, <2>1, StillOnce
<1> HIDE DEF N
<1>8. OnlyAdds(N)
  BY <1>5, <1>6, <1>7 DEF OnlyAdds
<1> QED BY <1>5, <1>8 DEF N

(* The dispatcher moves an event on, or drops what nobody reads.           *)
LEMMA EventDispatched ==
  ASSUME TypeOK, Dispatch
  PROVE  /\ OnlyAdds({})
         /\ \A S : /\ "supervisor" \in joined
                   /\ \A ev \in S : ev.kind # "StatusChanged"
                   => (Without(course', S) => Without(course, S))
<1> DEFINE q == inbox["supervisor"]
           e == Head(pipe)
<1>1. /\ batch \in Seq(Event) /\ q \in Seq(Event) /\ pipe \in Seq(Event)
      /\ pipe # <<>> /\ e \in Event /\ Tail(pipe) \in Seq(Event)
      /\ Append(q, e) \in Seq(Event)
  BY QueueTypes DEF Dispatch, Deliver
<1>2. /\ q' = IF "supervisor" \in joined /\ e.kind # "StatusChanged"
                THEN Append(q, e) ELSE q
      /\ pipe' = Tail(pipe) /\ UNCHANGED <<batch, out>>
  BY DEF Dispatch, Deliver, Connectors, threadVars, Reads
<1>3. course = batch \o q \o pipe /\ course' = batch \o q' \o Tail(pipe)
  BY <1>2 DEF course
<1> HIDE DEF q, e
<1>4. ASSUME NEW S
      PROVE  /\ Without(course, S) => Without(course', S)
             /\ AtMostOneOf(course, S) => AtMostOneOf(course', S)
             /\ "supervisor" \in joined /\ (e \in S => e.kind # "StatusChanged")
                  => (Without(course', S) => Without(course, S))
  <2>1. /\ Without(pipe, S) <=> e \notin S /\ Without(Tail(pipe), S)
        /\ AtMostOneOf(pipe, S) =>
             /\ AtMostOneOf(Tail(pipe), S)
             /\ e \in S => Without(Tail(pipe), S)
    BY <1>1, HeadAndTail DEF e
  <2>2. /\ Without(Append(q, e), S) <=> Without(q, S) /\ e \notin S
        /\ AtMostOneOf(Append(q, e), S) <=>
             AtMostOneOf(q, S) /\ (Without(q, S) \/ e \notin S)
    BY <1>1, PutAtEnd
  <2>3. /\ Without(course, S) <=> WithoutAll(batch, q, pipe, S)
        /\ AtMostOneOf(course, S) <=> AtMostOneAmong(batch, q, pipe, S)
    BY <1>1, <1>3, ThreeJoined
  <2>4. /\ Without(course', S) <=> WithoutAll(batch, q', Tail(pipe), S)
        /\ AtMostOneOf(course', S) <=> AtMostOneAmong(batch, q', Tail(pipe), S)
    <3>1. q' \in Seq(Event)
      BY <1>1, <1>2
    <3> QED BY <1>1, <1>3, <3>1, ThreeJoined
  <2>5. CASE q' = Append(q, e)
    BY <2>1, <2>2, <2>3, <2>4, <2>5 DEF WithoutAll, AtMostOneAmong
  <2>6. CASE q' = q /\ ~("supervisor" \in joined /\ e.kind # "StatusChanged")
    BY <2>1, <2>3, <2>4, <2>6 DEF WithoutAll, AtMostOneAmong
  <2> QED BY <1>2, <2>5, <2>6
<1>5. ASSUME NEW S, OnlyOnce(course, out, S)
      PROVE  OnlyOnce(course', out', S)
  BY <1>2, <1>4, <1>5, StillOnce
<1> QED BY <1>2, <1>4, <1>5 DEF OnlyAdds

(* The shutdown events that the SIGTERM flag and Supervisor::run ask for.  *)
Shutdowns == {ShuttingDownInitiated(sd) : sd \in ShuttingDown}

(* A new iteration: the queue becomes the batch.                           *)
LEMMA BatchTaken ==
  ASSUME TypeOK, batch = <<>>, Ingest
  PROVE  /\ OnlyAdds(Shutdowns)
         /\ \A S : Without(course', S) => Without(course, S)
<1> DEFINE q == inbox["supervisor"]
           r == SigtermRequest
<1>1. /\ q \in Seq(Event) /\ pipe \in Seq(Event) /\ r \in Seq(Event)
      /\ \/ r = <<>>
         \/ \E sd \in ShuttingDown : r = <<ShuttingDownInitiated(sd)>>
  BY QueueTypes, EventConstructors, EventLists DEF SigtermRequest, ShuttingDown
<1>2. /\ course = <<>> \o q \o pipe
      /\ course' = q \o <<>> \o (pipe \o r)
      /\ UNCHANGED out
  <2>1. /\ batch' = q /\ pipe' = pipe \o r /\ UNCHANGED out
        /\ inbox'["supervisor"] = <<>>
    BY DEF Ingest, TypeOK, BusTypeOK, Connectors
  <2> QED BY <2>1 DEF course
<1> HIDE DEF q, r
<1>3. ASSUME NEW S
      PROVE  /\ Without(course', S) => Without(course, S)
             /\ (\A e \in Shutdowns : e \notin S)
                 => /\ Without(course, S) => Without(course', S)
                    /\ AtMostOneOf(course, S) => AtMostOneOf(course', S)
  <2>1. /\ Without(course, S) <=> WithoutAll(<<>>, q, pipe, S)
        /\ AtMostOneOf(course, S) <=> AtMostOneAmong(<<>>, q, pipe, S)
    BY <1>1, <1>2, ThreeJoined, ShortQueues
  <2>2. /\ pipe \o r \in Seq(Event)
        /\ Without(pipe \o r, S) <=> Without(pipe, S) /\ Without(r, S)
        /\ AtMostOneOf(pipe \o r, S) <=>
              /\ AtMostOneOf(pipe, S) /\ AtMostOneOf(r, S)
              /\ Without(pipe, S) \/ Without(r, S)
    BY <1>1, Joined
  <2>3. /\ Without(course', S) <=> WithoutAll(q, <<>>, pipe \o r, S)
        /\ AtMostOneOf(course', S) <=> AtMostOneAmong(q, <<>>, pipe \o r, S)
    BY <1>1, <1>2, <2>2, ThreeJoined, ShortQueues
  <2>4. Without(<<>>, S) /\ AtMostOneOf(<<>>, S) /\ AtMostOneOf(r, S)
    BY <1>1, ShortQueues
  <2>5. ASSUME \A e \in Shutdowns : e \notin S
        PROVE  Without(r, S)
    <3>1. ASSUME NEW sd \in ShuttingDown, r = <<ShuttingDownInitiated(sd)>>
          PROVE  Without(r, S)
      <4>1. ShuttingDownInitiated(sd) \notin S
        BY <2>5 DEF Shutdowns
      <4> QED BY <3>1, <4>1, ShortQueues
    <3> QED BY <1>1, <2>4, <3>1
  <2> QED BY <2>1, <2>2, <2>3, <2>4, <2>5 DEF WithoutAll, AtMostOneAmong
<1>4. ASSUME NEW S, \A e \in Shutdowns : e \notin S, OnlyOnce(course, out, S)
      PROVE  OnlyOnce(course', out', S)
  BY <1>2, <1>3, <1>4, StillOnce
<1> QED BY <1>2, <1>3, <1>4 DEF OnlyAdds

(* One of the events of this iteration is sent.                            *)
LEMMA NextSent ==
  ASSUME TypeOK, Send
  PROVE  /\ OnlyAdds({})
         /\ \A S : Without(course', S) => Without(course, S)
<1> DEFINE q == inbox["supervisor"]
<1>1. batch \in Seq(Event) /\ q \in Seq(Event) /\ pipe \in Seq(Event)
  BY QueueTypes
<1>2. PICK k \in DOMAIN out :
        /\ out[k] # <<>>
        /\ pipe' = Append(pipe, Head(out[k]))
        /\ out' = Drained([out EXCEPT ![k] = Tail(out[k])])
  BY DEF Send
<1> DEFINE e == Head(out[k])
<1>3. /\ out \in Seq(Seq(Event)) /\ out[k] \in Seq(Event) /\ e \in Event
  BY <1>2, QueueTypes
<1>4. course = batch \o q \o pipe /\ course' = batch \o q \o Append(pipe, e)
  BY <1>2 DEF course, Send
<1>5. \A j \in DOMAIN out' :
        /\ j \in DOMAIN out
        /\ out'[j] = IF j = k THEN Tail(out[k]) ELSE out[j]
  <2> DEFINE left == [out EXCEPT ![k] = Tail(out[k])]
  <2>1. /\ DOMAIN left = DOMAIN out
        /\ \A j \in DOMAIN out :
             left[j] = IF j = k THEN Tail(out[k]) ELSE out[j]
    BY <1>3
  <2>2. out' = Drained(left)
    BY <1>2
  <2> HIDE DEF left
  <2>3. out' = <<>> \/ out' = left
    BY <2>2 DEF Drained
  <2> QED BY <2>1, <2>3
<1>6. ASSUME NEW S, AllWithout(out, S)
      PROVE  e \notin S /\ AllWithout(out', S)
  <2>1. Without(out[k], S)
    BY <1>6 DEF AllWithout
  <2>2. e \notin S /\ Without(Tail(out[k]), S)
    BY <1>2, <1>3, <2>1, HeadAndTail
  <2> QED BY <1>5, <1>6, <2>2 DEF AllWithout
<1> HIDE DEF q, e
<1>7. ASSUME NEW S
      PROVE  /\ Without(course', S) <=> Without(course, S) /\ e \notin S
             /\ e \notin S /\ AtMostOneOf(course, S) => AtMostOneOf(course', S)
             /\ Without(course, S) => AtMostOneOf(course', S)
  <2>1. /\ Append(pipe, e) \in Seq(Event)
        /\ Without(Append(pipe, e), S) <=> Without(pipe, S) /\ e \notin S
        /\ AtMostOneOf(Append(pipe, e), S) <=>
             AtMostOneOf(pipe, S) /\ (Without(pipe, S) \/ e \notin S)
    BY <1>1, <1>3, PutAtEnd
  <2>2. /\ Without(course, S) <=> WithoutAll(batch, q, pipe, S)
        /\ AtMostOneOf(course, S) <=> AtMostOneAmong(batch, q, pipe, S)
    BY <1>1, <1>4, ThreeJoined
  <2>3. /\ Without(course', S) <=> WithoutAll(batch, q, Append(pipe, e), S)
        /\ AtMostOneOf(course', S) <=>
             AtMostOneAmong(batch, q, Append(pipe, e), S)
    BY <1>1, <1>4, <2>1, ThreeJoined
  <2>4. /\ Without(batch, S) => AtMostOneOf(batch, S)
        /\ Without(q, S) => AtMostOneOf(q, S)
        /\ Without(pipe, S) => AtMostOneOf(pipe, S)
    BY DEF Without, AtMostOneOf
  <2> QED BY <2>1, <2>2, <2>3, <2>4 DEF WithoutAll, AtMostOneAmong
<1>8. ASSUME NEW S, OnlyOnce(course, out, S)
      PROVE  OnlyOnce(course', out', S)
  <2>1. /\ Without(out[k], S) <=> e \notin S /\ Without(Tail(out[k]), S)
        /\ AtMostOneOf(out[k], S) =>
             /\ AtMostOneOf(Tail(out[k]), S)
             /\ e \in S => Without(Tail(out[k]), S)
    BY <1>2, <1>3, HeadAndTail DEF e
  <2>2. CASE e \notin S
    BY <1>5, <1>7, <1>8, <2>1, <2>2 DEF OnlyOnce
  <2>3. CASE e \in S
    <3>1. /\ Without(course, S) /\ Without(Tail(out[k]), S)
          /\ \A j \in DOMAIN out : j # k => Without(out[j], S)
      BY <1>8, <2>1, <2>3 DEF OnlyOnce
    <3>2. AllWithout(out', S)
      BY <1>5, <3>1 DEF AllWithout
    <3>3. AtMostOneOf(course', S)
      BY <1>7, <3>1
    <3>4. \A j \in DOMAIN out' : AtMostOneOf(out'[j], S)
      BY <3>2 DEF AllWithout, Without, AtMostOneOf
    <3> QED BY <3>2, <3>3, <3>4 DEF OnlyOnce, AllWithout
  <2> QED BY <2>2, <2>3
<1> QED BY <1>6, <1>7, <1>8 DEF OnlyAdds

(* The supervisor ends, with or without a last shutdown: what was under    *)
(* way to it is gone.                                                      *)
LEMMA SupervisorGone ==
  ASSUME TypeOK, NEW e \in Event, pipe' \in {pipe, Append(pipe, e)},
         batch' = <<>>, inbox'["supervisor"] = <<>>, out' \in {<<>>, out}
  PROVE  OnlyAdds({e})
<1> DEFINE q == inbox["supervisor"]
<1>1. batch \in Seq(Event) /\ q \in Seq(Event) /\ pipe \in Seq(Event)
  BY QueueTypes
<1>2. course = batch \o q \o pipe /\ course' = <<>> \o <<>> \o pipe'
  BY DEF course
<1> HIDE DEF q
<1>3. ASSUME NEW S, e \notin S
      PROVE  /\ Without(course, S) => Without(course', S)
             /\ AtMostOneOf(course, S) => AtMostOneOf(course', S)
  <2>1. /\ pipe' \in Seq(Event)
        /\ Without(pipe', S) <=> Without(pipe, S)
        /\ AtMostOneOf(pipe, S) => AtMostOneOf(pipe', S)
    <3>1. CASE pipe' = Append(pipe, e)
      BY <1>1, <1>3, <3>1, PutAtEnd
    <3>2. CASE pipe' = pipe
      BY <1>1, <3>2
    <3> QED BY <3>1, <3>2
  <2>2. /\ Without(course, S) <=> WithoutAll(batch, q, pipe, S)
        /\ AtMostOneOf(course, S) <=> AtMostOneAmong(batch, q, pipe, S)
    BY <1>1, <1>2, ThreeJoined
  <2>3. /\ Without(course', S) <=> WithoutAll(<<>>, <<>>, pipe', S)
        /\ AtMostOneOf(course', S) <=> AtMostOneAmong(<<>>, <<>>, pipe', S)
    BY <1>2, <2>1, ThreeJoined, ShortQueues
  <2> QED BY <2>1, <2>2, <2>3, ShortQueues DEF WithoutAll, AtMostOneAmong
<1>4. \A S : AllWithout(out, S) => AllWithout(out', S)
  BY DEF AllWithout
<1>5. ASSUME NEW S, e \notin S, OnlyOnce(course, out, S)
      PROVE  OnlyOnce(course', out', S)
  <2>1. \A k \in DOMAIN out' : k \in DOMAIN out /\ out'[k] = out[k]
    OBVIOUS
  <2> QED BY <1>3, <1>5, <2>1, StillOnce
<1> QED BY <1>3, <1>4, <1>5 DEF OnlyAdds

(* What an iteration has to send in the end.                               *)
NextOfAll ==
  UNION {ToSet(NextEvents(sh, s, lifecycle)) : s \in Services}
ExitOf(p) == ServiceExited(pid_map[p], proc[p].ok)
ExitsReaped(R) == {ExitOf(p) : p \in {z \in R : pid_map[z] # None}}

LEMMA IterationEnds ==
  ASSUME TypeOK, Produce
  PROVE  \E reaped \in SUBSET Zombies :
           /\ proc' = [p \in Pids |-> IF p \in reaped THEN Gone ELSE proc[p]]
           /\ OnlyAdds(NextOfAll \cup ExitsReaped(reaped))
           /\ \A S : Without(course', S) => Without(course, S)
           /\ \A S : /\ Nowhere(S)
                     /\ \A e \in NextOfAll : e \notin S
                     /\ \A p, q \in Zombies :
                          ExitOf(p) \in S /\ ExitOf(q) \in S => p = q
                     => OnlyOnce(course', out', S)
<1>1. PICK reaped \in SUBSET Zombies :
        /\ proc' = [p \in Pids |-> IF p \in reaped THEN Gone ELSE proc[p]]
        /\ \E order \in SetToSeqs({p \in reaped : pid_map[p] # None}) :
             out' = Drained(
               out \o [i \in DOMAIN ServiceOrder |->
                         NextEvents(sh, ServiceOrder[i], lifecycle)]
                   \o <<[i \in DOMAIN order |->
                           ServiceExited(pid_map[order[i]],
                                         proc[order[i]].ok)]>>)
  BY DEF Produce
<1> DEFINE known == {p \in reaped : pid_map[p] # None}
<1>2. PICK order \in SetToSeqs(known) :
        out' = Drained(
          out \o [i \in DOMAIN ServiceOrder |->
                    NextEvents(sh, ServiceOrder[i], lifecycle)]
              \o <<[i \in DOMAIN order |->
                      ServiceExited(pid_map[order[i]], proc[order[i]].ok)]>>)
  BY <1>1
<1> DEFINE nexts == [i \in DOMAIN ServiceOrder |->
                       NextEvents(sh, ServiceOrder[i], lifecycle)]
           exits == [i \in DOMAIN order |->
                       ServiceExited(pid_map[order[i]], proc[order[i]].ok)]
           N == NextOfAll \cup ExitsReaped(reaped)
           lists == out \o nexts \o <<exits>>
<1>3. ASSUME NEW S, \A e \in NextOfAll : e \notin S, NEW k \in DOMAIN nexts
      PROVE  Without(nexts[k], S)
  <2>1. ServiceOrder[k] \in Services
    BY OrderAssumption
  <2>2. ASSUME NEW i \in DOMAIN nexts[k]
        PROVE  nexts[k][i] \in NextOfAll
    BY <2>1 DEF NextOfAll, ToSet
  <2> HIDE DEF nexts
  <2> QED BY <1>3, <2>2 DEF Without
<1>4. ASSUME NEW S, \A e \in N : e \notin S
      PROVE  Without(exits, S)
  <2>1. \A i \in DOMAIN order : order[i] \in known
    BY <1>2 DEF SetToSeqs
  <2>2. ASSUME NEW i \in DOMAIN exits
        PROVE  exits[i] \in ExitsReaped(reaped)
    BY <2>1 DEF ExitsReaped, ExitOf
  <2> HIDE DEF exits
  <2> QED BY <1>4, <2>2 DEF Without
<1>5. out \in Seq(Seq(Event)) /\ \E n \in Nat : DOMAIN nexts = 1..n
  BY QueueTypes, OrderAssumption
<1>6. nexts \in Seq({nexts[k] : k \in DOMAIN nexts})
  <2>1. PICK n \in Nat : DOMAIN nexts = 1..n
    BY <1>5
  <2>2. nexts = [k \in 1..n |-> nexts[k]]
    BY <2>1
  <2> HIDE DEF nexts
  <2> QED BY <2>1, <2>2
<1>7. out' = Drained(lists)
  BY <1>2
<1>n. \A e \in NextOfAll : e \in N
  OBVIOUS
<1>o. /\ \A i \in DOMAIN exits : /\ i \in DOMAIN order /\ order[i] \in Zombies
                                 /\ exits[i] = ExitOf(order[i])
      /\ \A i, j \in DOMAIN order : order[i] = order[j] => i = j
  BY <1>2 DEF SetToSeqs, ExitOf
<1> HIDE DEF nexts, exits, N
<1>l. Len(out) \in Nat /\ Len(nexts) \in Nat /\ Len(lists) = Len(out) + Len(nexts) + 1
  BY <1>5, <1>6
<1>8. ASSUME NEW k \in DOMAIN lists
      PROVE  \/ k \in DOMAIN out /\ lists[k] = out[k]
             \/ \E j \in DOMAIN nexts : lists[k] = nexts[j]
             \/ k = Len(lists) /\ lists[k] = exits
  <2>1. /\ Len(out \o nexts) = Len(out) + Len(nexts)
        /\ \A j \in 1..Len(out) : (out \o nexts)[j] = out[j]
        /\ \A j \in 1..Len(nexts) : (out \o nexts)[Len(out) + j] = nexts[j]
    BY <1>5, <1>6
  <2>2. k \in 1..(Len(out) + Len(nexts) + 1)
    BY <1>5, <1>6, <1>l
  <2>3. k <= Len(out) + Len(nexts) => lists[k] = (out \o nexts)[k]
    BY <1>5, <1>6, <2>2
  <2>4. k = Len(out) + Len(nexts) + 1 => lists[k] = exits
    BY <1>5, <1>6
  <2>5. DOMAIN out = 1..Len(out) /\ DOMAIN nexts = 1..Len(nexts)
    BY <1>5, <1>6
  <2> HIDE DEF lists
  <2>6. CASE k <= Len(out)
    BY <1>l, <2>1, <2>2, <2>3, <2>5, <2>6
  <2>7. CASE k > Len(out) /\ k <= Len(out) + Len(nexts)
    <3>1. k - Len(out) \in 1..Len(nexts) /\ k = Len(out) + (k - Len(out))
      BY <1>l, <2>2, <2>7
    <3>2. lists[k] = nexts[k - Len(out)]
      BY <2>1, <2>3, <2>7, <3>1
    <3> QED BY <2>5, <3>1, <3>2
  <2>8. CASE k = Len(out) + Len(nexts) + 1
    BY <1>l, <2>4, <2>8
  <2> QED BY <1>l, <2>2, <2>6, <2>7, <2>8
<1> HIDE DEF lists
<1>9. ASSUME NEW S, \A e \in N : e \notin S, AllWithout(out, S)
      PROVE  AllWithout(out', S)
  <2>1. AllWithout(lists, S)
    BY <1>n, <1>3, <1>4, <1>8, <1>9 DEF AllWithout
  <2> QED BY <1>7, <2>1 DEF Drained, AllWithout
<1>10. course' = course
  BY DEF Produce, course, busVars
<1>d. \A k \in DOMAIN out' : k \in DOMAIN lists /\ out'[k] = lists[k]
  BY <1>7 DEF Drained
<1>11. ASSUME NEW S, \A e \in N : e \notin S, OnlyOnce(course, out, S)
       PROVE  OnlyOnce(course', out', S)
  <2>1. \A k \in DOMAIN lists :
          Without(lists[k], S) \/ (k \in DOMAIN out /\ lists[k] = out[k])
    BY <1>n, <1>3, <1>4, <1>8, <1>11
  <2> QED BY <1>10, <1>11, <1>d, <2>1, StillOnce
<1>12. ASSUME NEW S, Nowhere(S), \A e \in NextOfAll : e \notin S,
              \A p, q \in Zombies : ExitOf(p) \in S /\ ExitOf(q) \in S => p = q
       PROVE  OnlyOnce(course', out', S)
  <2>1. AtMostOneOf(exits, S)
    BY <1>o, <1>12 DEF AtMostOneOf
  <2>2. \A k \in DOMAIN lists : Without(lists[k], S) \/ k = Len(lists)
    BY <1>3, <1>8, <1>12 DEF Nowhere, AllWithout
  <2>3. \A k \in DOMAIN lists : AtMostOneOf(lists[k], S)
    <3>1. \A q : Without(q, S) => AtMostOneOf(q, S)
      BY DEF Without, AtMostOneOf
    <3> QED BY <1>3, <1>8, <1>12, <2>1, <3>1 DEF Nowhere, AllWithout
  <2>4. Without(course, S) /\ AtMostOneOf(course, S)
    BY <1>12 DEF Nowhere, Without, AtMostOneOf
  <2>5. \A k, l \in DOMAIN lists :
          k = l \/ Without(lists[k], S) \/ Without(lists[l], S)
    BY <2>2
  <2> QED BY <1>10, <1>d, <2>3, <2>4, <2>5 DEF OnlyOnce
<1> QED BY <1>1, <1>9, <1>10, <1>11, <1>12 DEF OnlyAdds, N

-----------------------------------------------------------------------------
(* The order of the queues at each kind of step                            *)

LEMMA NothingSentOrder ==
  ASSUME UNCHANGED <<batch, inbox["supervisor"], pipe>>
  PROVE  KeepsOrder({})
BY DEF KeepsOrder, course

LEMMA EventSentOrder ==
  ASSUME TypeOK, NEW e \in Event, pipe' = Append(pipe, e),
         UNCHANGED <<batch, inbox["supervisor"]>>
  PROVE  KeepsOrder({e})
<1> DEFINE q == inbox["supervisor"]
<1>1. batch \in Seq(Event) /\ q \in Seq(Event) /\ pipe \in Seq(Event)
  BY QueueTypes
<1>2. course = batch \o q \o pipe /\ course' = batch \o q \o Append(pipe, e)
  BY DEF course
<1> HIDE DEF q
<1> SUFFICES ASSUME NEW S, NEW T, NoneBehind(course, S, T),
                    Without(course, S) \/ e \notin T
             PROVE  NoneBehind(course', S, T)
  BY DEF KeepsOrder
<1>3. Append(pipe, e) \in Seq(Event)
  BY <1>1
<1>4. /\ Without(course, S) <=> WithoutAll(batch, q, pipe, S)
      /\ NoneBehind(course, S, T) <=> NoneBehindAcross(batch, q, pipe, S, T)
      /\ NoneBehind(course', S, T) <=>
           NoneBehindAcross(batch, q, Append(pipe, e), S, T)
  BY <1>1, <1>2, <1>3, ThreeJoined, OrderOfThree
<1>5. /\ NoneBehind(Append(pipe, e), S, T) <=>
           NoneBehind(pipe, S, T) /\ (Without(pipe, S) \/ e \notin T)
      /\ Without(Append(pipe, e), T) <=> Without(pipe, T) /\ e \notin T
  BY <1>1, NoneBehindAtEnd, PutAtEnd
<1> QED BY <1>4, <1>5 DEF NoneBehindAcross, WithoutAll

(* What comes behind the event that is handled.                            *)
LEMMA EventHandledOrder ==
  ASSUME TypeOK, batch # <<>>, NEW evs, Done(evs)
  PROVE  /\ KeepsOrder({})
         /\ \A S, T : NoneBehind(course, S, T) /\ Head(batch) \in S =>
                       Without(course', T)
<1> DEFINE q == inbox["supervisor"]
<1>1. /\ batch \in Seq(Event) /\ q \in Seq(Event) /\ pipe \in Seq(Event)
      /\ Tail(batch) \in Seq(Event)
  BY QueueTypes
<1>2. course = batch \o q \o pipe /\ course' = Tail(batch) \o q \o pipe
  BY DEF course, Done, busVars
<1> HIDE DEF q
<1>3. ASSUME NEW S, NEW T, NoneBehind(course, S, T)
      PROVE  /\ NoneBehind(course', S, T)
             /\ Head(batch) \in S => Without(course', T)
  <2>1. /\ NoneBehind(course, S, T) <=> NoneBehindAcross(batch, q, pipe, S, T)
        /\ NoneBehind(course', S, T) <=> NoneBehindAcross(Tail(batch), q, pipe, S, T)
        /\ Without(course', T) <=> WithoutAll(Tail(batch), q, pipe, T)
    BY <1>1, <1>2, ThreeJoined, OrderOfThree
  <2>2. NoneBehind(batch, S, T)
    BY <1>3, <2>1 DEF NoneBehindAcross
  <2>3. /\ NoneBehind(Tail(batch), S, T)
        /\ Head(batch) \in S => Without(Tail(batch), T)
        /\ Without(batch, S) <=> Head(batch) \notin S /\ Without(Tail(batch), S)
    BY <1>1, <2>2, OrderInTail, HeadAndTail
  <2> QED BY <1>3, <2>1, <2>3 DEF NoneBehindAcross, WithoutAll
<1> QED BY <1>3 DEF KeepsOrder

LEMMA EventDispatchedOrder ==
  ASSUME TypeOK, Dispatch
  PROVE  KeepsOrder({})
<1> DEFINE q == inbox["supervisor"]
           e == Head(pipe)
<1>1. /\ batch \in Seq(Event) /\ q \in Seq(Event) /\ pipe \in Seq(Event)
      /\ pipe # <<>> /\ e \in Event /\ Tail(pipe) \in Seq(Event)
      /\ Append(q, e) \in Seq(Event)
  BY QueueTypes DEF Dispatch, Deliver
<1>2. q' \in {q, Append(q, e)} /\ pipe' = Tail(pipe) /\ UNCHANGED batch
  BY DEF Dispatch, Deliver, Connectors, threadVars, Reads
<1>3. course = batch \o q \o pipe /\ course' = batch \o q' \o Tail(pipe)
  BY <1>2 DEF course
<1> HIDE DEF q
<1> SUFFICES ASSUME NEW S, NEW T, NoneBehind(course, S, T)
             PROVE  NoneBehind(course', S, T)
  BY DEF KeepsOrder
<1>4. /\ NoneBehind(course, S, T) <=> NoneBehindAcross(batch, q, pipe, S, T)
      /\ NoneBehind(course', S, T) <=> NoneBehindAcross(batch, q', Tail(pipe), S, T)
  BY <1>1, <1>2, <1>3, OrderOfThree
<1>5. /\ NoneBehind(pipe, S, T)
      /\ \A U : Without(pipe, U) <=> e \notin U /\ Without(Tail(pipe), U)
  BY <1>1, <1>4, HeadAndTail DEF NoneBehindAcross
<1>6. /\ NoneBehind(Tail(pipe), S, T)
      /\ e \in S => Without(Tail(pipe), T)
  BY <1>1, <1>5, OrderInTail
<1>7. /\ NoneBehind(Append(q, e), S, T) <=>
           NoneBehind(q, S, T) /\ (Without(q, S) \/ e \notin T)
      /\ \A U : Without(Append(q, e), U) <=> Without(q, U) /\ e \notin U
  BY <1>1, NoneBehindAtEnd, PutAtEnd
<1> HIDE DEF e
<1> QED BY <1>2, <1>4, <1>5, <1>6, <1>7 DEF NoneBehindAcross

LEMMA BatchTakenOrder ==
  ASSUME TypeOK, batch = <<>>, Ingest
  PROVE  KeepsOrder(Shutdowns)
<1> DEFINE q == inbox["supervisor"]
           r == SigtermRequest
<1>1. /\ q \in Seq(Event) /\ pipe \in Seq(Event) /\ r \in Seq(Event)
      /\ \/ r = <<>>
         \/ \E sd \in ShuttingDown : r = <<ShuttingDownInitiated(sd)>>
  BY QueueTypes, EventConstructors, EventLists DEF SigtermRequest, ShuttingDown
<1>2. course = <<>> \o q \o pipe /\ course' = q \o <<>> \o (pipe \o r)
  <2>1. /\ batch' = q /\ pipe' = pipe \o r
        /\ inbox'["supervisor"] = <<>>
    BY DEF Ingest, TypeOK, BusTypeOK, Connectors
  <2> QED BY <2>1 DEF course
<1> HIDE DEF q, r
<1> SUFFICES ASSUME NEW S, NEW T, NoneBehind(course, S, T),
                    Without(course, S) \/ \A e \in Shutdowns : e \notin T
             PROVE  NoneBehind(course', S, T)
  BY DEF KeepsOrder
<1>3. pipe \o r \in Seq(Event) /\ <<>> \in Seq(Event)
  BY <1>1
<1>4. /\ NoneBehind(course, S, T) <=> NoneBehindAcross(<<>>, q, pipe, S, T)
      /\ Without(course, S) <=> WithoutAll(<<>>, q, pipe, S)
      /\ NoneBehind(course', S, T) <=> NoneBehindAcross(q, <<>>, pipe \o r, S, T)
  BY <1>1, <1>2, <1>3, OrderOfThree, ThreeJoined
<1>5. /\ NoneBehind(pipe \o r, S, T) <=>
           /\ NoneBehind(pipe, S, T) /\ NoneBehind(r, S, T)
           /\ Without(pipe, S) \/ Without(r, T)
      /\ Without(pipe \o r, T) <=> Without(pipe, T) /\ Without(r, T)
  BY <1>1, OrderJoined, Joined
<1>6. /\ Without(<<>>, S) /\ Without(<<>>, T)
      /\ NoneBehind(<<>>, S, T) /\ NoneBehind(r, S, T)
  BY <1>1 DEF NoneBehind, Without
<1>7. ASSUME \A e \in Shutdowns : e \notin T
      PROVE  Without(r, T)
  <2>1. ASSUME NEW sd \in ShuttingDown, r = <<ShuttingDownInitiated(sd)>>
        PROVE  Without(r, T)
    <3>1. ShuttingDownInitiated(sd) \notin T
      BY <1>7 DEF Shutdowns
    <3> QED BY <2>1, <3>1, ShortQueues
  <2> QED BY <1>1, <1>6, <2>1
<1> QED BY <1>4, <1>5, <1>6, <1>7 DEF NoneBehindAcross, WithoutAll

(* The order in which the events of this iteration are sent is that of a   *)
(* queue, too.                                                             *)
LEMMA NextSentOrder ==
  ASSUME TypeOK, Send
  PROVE  \E e \in Event : KeepsOrder({e}) /\ ~AllWithout(out, {e})
<1>1. PICK k \in DOMAIN out :
        out[k] # <<>> /\ pipe' = Append(pipe, Head(out[k]))
  BY DEF Send
<1> DEFINE e == Head(out[k])
<1>2. /\ out \in Seq(Seq(Event)) /\ out[k] \in Seq(Event) /\ e \in Event
  BY <1>1, QueueTypes
<1>3. ~Without(out[k], {e})
  BY <1>1, <1>2, HeadAndTail
<1>4. UNCHANGED <<batch, inbox["supervisor"]>>
  BY DEF Send
<1> HIDE DEF e
<1>5. KeepsOrder({e})
  BY <1>1, <1>2, <1>4, EventSentOrder DEF e
<1> QED BY <1>2, <1>3, <1>5 DEF AllWithout

LEMMA SupervisorGoneOrder ==
  ASSUME TypeOK, NEW e \in Event, pipe' \in {pipe, Append(pipe, e)},
         batch' = <<>>, inbox'["supervisor"] = <<>>
  PROVE  KeepsOrder({e})
<1> DEFINE q == inbox["supervisor"]
<1>1. batch \in Seq(Event) /\ q \in Seq(Event) /\ pipe \in Seq(Event)
  BY QueueTypes
<1>2. course = batch \o q \o pipe /\ course' = <<>> \o <<>> \o pipe'
  BY DEF course
<1> HIDE DEF q
<1> SUFFICES ASSUME NEW S, NEW T, NoneBehind(course, S, T),
                    Without(course, S) \/ e \notin T
             PROVE  NoneBehind(course', S, T)
  BY DEF KeepsOrder
<1>3. pipe' \in Seq(Event) /\ <<>> \in Seq(Event)
  <2>1. Append(pipe, e) \in Seq(Event)
    BY <1>1
  <2> QED BY <1>1, <2>1, ShortQueues
<1>4. /\ Without(course, S) <=> WithoutAll(batch, q, pipe, S)
      /\ NoneBehind(course, S, T) <=> NoneBehindAcross(batch, q, pipe, S, T)
      /\ NoneBehind(course', S, T) <=> NoneBehindAcross(<<>>, <<>>, pipe', S, T)
  BY <1>1, <1>2, <1>3, ThreeJoined, OrderOfThree
<1>5. /\ NoneBehind(Append(pipe, e), S, T) <=>
           NoneBehind(pipe, S, T) /\ (Without(pipe, S) \/ e \notin T)
      /\ NoneBehind(<<>>, S, T)
  BY <1>1, NoneBehindAtEnd
<1>6. Without(<<>>, S)
  BY ShortQueues
<1> QED BY <1>4, <1>5, <1>6 DEF NoneBehindAcross, WithoutAll

-----------------------------------------------------------------------------
(* Where events come from                                                  *)

(* The kinds of events that handlers, threads and the signal handler send. *)
Announcements ==
  {"StatusUpdate", "StatusChanged", "ShuttingDownInitiated", "HealthCheck",
   "SpawnFailed"}

(* A worker looks after s, or has left a command behind.                   *)
IsChecked(s) == worker[s] # "none" \/ command[s] # None

(* None of them asks for a kill, and only a worker reports a failed check.  *)
IsAnnouncement(e) ==
  /\ e.kind \in Announcements
  /\ e.kind = "StatusUpdate" => e.status \notin {"InKilling", "Initial"}
  /\ e.kind = "HealthCheck" => e.healthy \/ IsChecked(e.svc)

(* Who may have sent e in this step.                                       *)
Origin(e) ==
  \/ IsAnnouncement(e)
  \/ Produce /\ e \in NextOfAll \cup ExitsReaped(Zombies)
  \/ \E s \in Services :
       /\ SpawnerReports(s)
       /\ \E p \in spawners[s].forked : e = PidChanged(s, p)

(* The monitor sends at most a good report, and reads its own queue.       *)
LEMMA MonitorSends ==
  ASSUME TypeOK, MonitorThread
  PROVE  /\ UNCHANGED <<sh, pid_map, threadVars, spawners, proc>>
         /\ UNCHANGED inbox["supervisor"]
         /\ "supervisor" \in joined => "supervisor" \in joined'
         /\ \/ UNCHANGED pipe
            \/ \E x \in Services : pipe' = Append(pipe, HealthCheck(x, TRUE))
<1> DEFINE mail == inbox["healthcheck"]
<1>2. /\ inbox \in [Connectors -> Seq(Event)]
      /\ UNCHANGED <<sh, pid_map, threadVars, spawners, proc>>
  BY DEF TypeOK, BusTypeOK, MonitorThread, supervisorVars, threadVars,
         repoVars
<1>3. /\ UNCHANGED inbox["supervisor"]
      /\ "supervisor" \in joined => "supervisor" \in joined'
  BY <1>2
  DEF MonitorThread, MonitorStep, ReportWithoutChecks, StartWorker, StopWorker,
      WorkerIsStopped, StopAllWorkers, MonitorEnds, MonitorPanics, Consume,
      Leave, busVars, Connectors
<1>4. \/ UNCHANGED pipe
      \/ \E x \in Services : pipe' = Append(pipe, HealthCheck(x, TRUE))
  <2>1. CASE ReportWithoutChecks
    <3>1. Head(mail) \in Event /\ Head(mail).kind = "StatusChanged"
      BY <1>2, <2>1 DEF ReportWithoutChecks, Monitoring, Connectors
    <3>2. Head(mail).svc \in Services
      BY <3>1, EventFields
    <3>3. pipe' = Append(pipe, HealthCheck(Head(mail).svc, TRUE))
      BY <2>1 DEF ReportWithoutChecks
    <3> QED BY <3>2, <3>3
  <2>2. UNCHANGED pipe \/ ReportWithoutChecks
    BY DEF MonitorThread, MonitorStep, StartWorker, StopWorker,
           WorkerIsStopped, StopAllWorkers, MonitorEnds, MonitorPanics, busVars
  <2> QED BY <2>1, <2>2
<1> QED BY <1>2, <1>3, <1>4

(* A worker sends at most a report on its service.                         *)
LEMMA WorkerSends ==
  ASSUME TypeOK, NEW x \in Services, WorkerThread(x)
  PROVE  /\ UNCHANGED <<sh, pid_map, threadVars, spawners, inbox, joined>>
         /\ \/ UNCHANGED pipe
            \/ /\ IsChecked(x)
               /\ \E b \in BOOLEAN : pipe' = Append(pipe, HealthCheck(x, b))
<1>2. UNCHANGED <<sh, pid_map, threadVars, spawners, inbox, joined>>
  BY DEF WorkerThread, WorkerStep, WorkerReports, WorkerEnds, CommandStarts,
         CommandCannotStart, WorkerWaits, CommandEnds, CommandIsStolen,
         WorkerPanics, busVars, threadVars, repoVars
<1>3. \/ UNCHANGED pipe
      \/ /\ IsChecked(x)
         /\ \E b \in BOOLEAN : pipe' = Append(pipe, HealthCheck(x, b))
  <2>1. CASE WorkerReports(x) \/ WorkerEnds(x)
    BY <2>1 DEF WorkerReports, WorkerEnds, FastOutcomes, Reports, IsChecked
  <2>2. CASE CommandEnds(x)
    <3>1. command[x] \in Pids
      BY <2>2 DEF CommandEnds, TypeOK, HealthcheckTypeOK
    <3>2. proc[command[x]].ok \in BOOLEAN
      BY <3>1 DEF TypeOK, ProcessesTypeOK, Process
    <3> QED BY <2>2, <3>2 DEF CommandEnds, Reports, IsChecked
  <2>3. CASE CommandStarts(x) \/ CommandCannotStart(x) \/ CommandIsStolen(x)
    BY <2>3 DEF CommandStarts, CommandCannotStart, CommandIsStolen,
                WorkerPanics, busVars
  <2> QED BY <2>1, <2>2, <2>3 DEF WorkerThread, WorkerStep, WorkerWaits
<1> QED BY <1>2, <1>3

(* What a handler sends announces something, and is nothing else.          *)
LEMMA HandlerSends ==
  ASSUME TypeOK, TypeOK', HandleEvent, ~PanicOnServiceExited
  PROVE  \E evs \in Seq(Event) :
           Done(evs) /\ \A i \in DOMAIN evs : IsAnnouncement(evs[i])
<1>1. \E evs : /\ Done(evs)
               /\ \A i \in DOMAIN evs : IsAnnouncement(evs[i])
  <2>1. \A e, f : /\ DOMAIN <<e>> = {1} /\ <<e>>[1] = e
                  /\ DOMAIN <<e, f>> = {1, 2}
                  /\ <<e, f>>[1] = e /\ <<e, f>>[2] = f
                  /\ DOMAIN <<>> = {}
    OBVIOUS
  <2>2. \A s, st, sd :
          /\ IsAnnouncement(StatusChanged(s, st))
          /\ st \in {"Failed", "FinishedFailed"} =>
               IsAnnouncement(StatusUpdate(s, st))
          /\ IsAnnouncement(ShuttingDownInitiated(sd))
    <3>1. \A s, st : IsAnnouncement(StatusChanged(s, st))
      BY DEF StatusChanged, Announcements, IsAnnouncement
    <3>2. \A s : \A st \in {"Failed", "FinishedFailed"} :
            IsAnnouncement(StatusUpdate(s, st))
      BY DEF StatusUpdate, Announcements, IsAnnouncement
    <3>3. \A sd : IsAnnouncement(ShuttingDownInitiated(sd))
      BY DEF ShuttingDownInitiated, Announcements, IsAnnouncement
    <3> QED BY <3>1, <3>2, <3>3, Zenon
  <2>3. \/ Done(<<>>)
        \/ \E s, st : Done(<<StatusChanged(s, st)>>)
        \/ \E s : Done(<<StatusUpdate(s, "Failed")>>)
        \/ \E s, sd : Done(<<StatusUpdate(s, "FinishedFailed"),
                              ShuttingDownInitiated(sd)>>)
    BY DEF HandleEvent, HandleServiceExited, HandleRun, HandleRunPrepareFails,
           HandleSpawnFailed, HandleKill, HandleForceKill, HandlePidChanged,
           HandleHealthCheck, HandleShuttingDownInitiated, HandleStatusUpdate,
           HandleIgnored
  <2> DEFINE Goal == \E evs : /\ Done(evs)
                             /\ \A i \in DOMAIN evs : IsAnnouncement(evs[i])
  <2>4. ASSUME NEW e, IsAnnouncement(e), Done(<<e>>)
        PROVE  Goal
    BY <2>1, <2>4
  <2>5. ASSUME NEW e, NEW f, IsAnnouncement(e), IsAnnouncement(f),
               Done(<<e, f>>)
        PROVE  Goal
    BY <2>1, <2>5
  <2>6. ASSUME Done(<<>>)
        PROVE  Goal
    BY <2>1, <2>6
  <2> HIDE DEF Goal
  <2>7. ASSUME NEW s, NEW st, Done(<<StatusChanged(s, st)>>)
        PROVE  Goal
    BY <2>2, <2>4, <2>7
  <2>8. ASSUME NEW s, Done(<<StatusUpdate(s, "Failed")>>)
        PROVE  Goal
    BY <2>2, <2>4, <2>8
  <2>9. ASSUME NEW s, NEW sd,
               Done(<<StatusUpdate(s, "FinishedFailed"),
                      ShuttingDownInitiated(sd)>>)
        PROVE  Goal
    BY <2>2, <2>5, <2>9
  <2>10. Goal
    BY <2>3, <2>6, <2>7, <2>8, <2>9
  <2> QED BY <2>10 DEF Goal
<1>2. PICK evs : /\ Done(evs)
                 /\ \A i \in DOMAIN evs : IsAnnouncement(evs[i])
  BY <1>1
<1>3. out \in Seq(Seq(Event)) /\ out' \in Seq(Seq(Event))
  BY DEF TypeOK, SupervisorTypeOK
<1>4. CASE evs = <<>>
  <2>1. evs \in Seq(Event)
    BY <1>4
  <2> QED BY <1>2, <2>1
<1>5. CASE evs # <<>>
  <2>1. out' = Append(out, evs)
    BY <1>2, <1>5 DEF Done
  <2>2. evs = out'[Len(out) + 1] /\ Len(out) + 1 \in DOMAIN out'
    BY <1>3, <2>1
  <2> QED BY <1>2, <1>3, <2>2
<1> QED BY <1>4, <1>5

(* Every event that a step adds has one of these origins.                  *)
LEMMA Provenance ==
  ASSUME GlobalInv, TypeOK', Next
  PROVE  \E N : OnlyAdds(N) /\ \A e \in N : Origin(e)
<1>1. TypeOK /\ (phase = "producing" => batch = <<>>)
  BY DEF GlobalInv
<1> DEFINE Goal == \E N : OnlyAdds(N) /\ \A e \in N : Origin(e)
<1> SUFFICES Goal
  OBVIOUS
<1>2. ASSUME NEW N, OnlyAdds(N), \A e \in N : Origin(e)
      PROVE  Goal
  BY <1>2
<1>3. ASSUME NEW e, OnlyAdds({e}), Origin(e)
      PROVE  Goal
  <2>1. \A f \in {e} : Origin(f)
    BY <1>3
  <2> HIDE DEF Goal
  <2> QED BY <1>2, <1>3, <2>1
<1>4. ASSUME OnlyAdds({})
      PROVE  Goal
  <2>1. \A f \in {} : Origin(f)
    OBVIOUS
  <2> HIDE DEF Goal
  <2> QED BY <1>2, <1>4, <2>1
<1> HIDE DEF Goal
<1>5. CASE Ingest
  <2>1. OnlyAdds(Shutdowns)
    BY <1>1, <1>5, BatchTaken DEF Ingest, Asleep
  <2>2. \A e \in Shutdowns : Origin(e)
    BY DEF Shutdowns, Origin, IsAnnouncement, Announcements,
           ShuttingDownInitiated
  <2> QED BY <1>2, <2>1, <2>2
<1>6. CASE HandleEvent /\ ~PanicOnServiceExited
  <2>h. HandleEvent /\ ~PanicOnServiceExited
    BY <1>6
  <2>1. PICK evs \in Seq(Event) :
          Done(evs) /\ \A i \in DOMAIN evs : IsAnnouncement(evs[i])
    <3> HIDE DEF HandleEvent, PanicOnServiceExited, IsAnnouncement
    <3> QED BY <1>1, <2>h, HandlerSends, ZenonT(40)
  <2>2. batch # <<>>
    BY <1>6 DEF HandleEvent, HandleServiceExited, HandleRun,
                HandleRunPrepareFails, HandleSpawnFailed, HandleKill,
                HandleForceKill, HandlePidChanged, HandleHealthCheck,
                HandleShuttingDownInitiated, HandleStatusUpdate,
                HandleIgnored, Handling
  <2>3. OnlyAdds({evs[i] : i \in DOMAIN evs})
    BY <1>1, <2>1, <2>2, EventHandled
  <2>4. \A e \in {evs[i] : i \in DOMAIN evs} : Origin(e)
    BY <2>1 DEF Origin
  <2> QED BY <1>2, <2>3, <2>4
<1>7. CASE Return \/ PanicOnServiceExited
  <2> DEFINE e == ShuttingDownInitiated("Gracefully")
  <2>1. e \in Event /\ Origin(e)
    BY EventConstructors
    DEF ShuttingDown, Origin, IsAnnouncement, Announcements,
        ShuttingDownInitiated
  <2> HIDE DEF e
  <2>2. /\ pipe' \in {pipe, Append(pipe, e)}
        /\ batch' = <<>> /\ inbox'["supervisor"] = <<>> /\ out' \in {<<>>, out}
    BY <1>1, <1>7 DEF Return, PanicOnServiceExited, Leave, TypeOK, BusTypeOK,
                      Connectors, Asleep, e
  <2> QED BY <1>1, <1>3, <2>1, <2>2, SupervisorGone
<1>8. CASE Produce
  <2>1. PICK R \in SUBSET Zombies : OnlyAdds(NextOfAll \cup ExitsReaped(R))
    BY <1>1, <1>8, IterationEnds
  <2>2. \A e \in NextOfAll \cup ExitsReaped(R) : Origin(e)
    BY <1>8 DEF Origin, ExitsReaped
  <2> QED BY <1>2, <2>1, <2>2
<1>9. CASE Send
  BY <1>1, <1>4, <1>9, NextSent
<1>10. CASE Dispatch
  BY <1>1, <1>4, <1>10, EventDispatched
<1>11. ASSUME NEW s \in Services, SpawnerThread(s)
       PROVE  Goal
  <2>1. UNCHANGED <<batch, inbox["supervisor"], out>>
    BY <1>11 DEF SpawnerThread, SpawnerStep, SpawnerForks, SpawnerReports,
                 SpawnerFails, SpawnerGivesUp, busVars, threadVars
  <2>2. CASE SpawnerForks(s)
    <3>1. UNCHANGED pipe
      BY <2>2 DEF SpawnerForks, busVars
    <3> QED BY <1>4, <2>1, <3>1, NothingSent
  <2>3. CASE SpawnerReports(s)
    <3>1. PICK p \in spawners[s].forked : pipe' = Append(pipe, PidChanged(s, p))
      BY <2>3 DEF SpawnerReports
    <3>2. p \in Pids
      BY <1>1 DEF TypeOK, SupervisorTypeOK, Spawners
    <3>3. PidChanged(s, p) \in Event
      BY <3>2, EventConstructors
    <3>4. Origin(PidChanged(s, p))
      BY <2>3 DEF Origin
    <3> QED BY <1>1, <1>3, <2>1, <3>1, <3>3, <3>4, EventSent
  <2>4. CASE SpawnerFails(s) \/ SpawnerGivesUp(s)
    <3>1. pipe' = Append(pipe, SpawnFailed(s))
      BY <2>4 DEF SpawnerFails, SpawnerGivesUp
    <3>2. SpawnFailed(s) \in Event /\ Origin(SpawnFailed(s))
      BY EventConstructors DEF Origin, IsAnnouncement, Announcements,
                              SpawnFailed
    <3> QED BY <1>1, <1>3, <2>1, <3>1, <3>2, EventSent
  <2> QED BY <1>11, <2>2, <2>3, <2>4 DEF SpawnerThread, SpawnerStep
<1>12. ASSUME UNCHANGED <<batch, inbox["supervisor"], out>>,
              \/ UNCHANGED pipe
              \/ \E x \in Services, b \in BOOLEAN :
                   /\ b \/ IsChecked(x)
                   /\ pipe' = Append(pipe, HealthCheck(x, b))
       PROVE  Goal
  <2>1. CASE UNCHANGED pipe
    BY <1>4, <1>12, <2>1, NothingSent
  <2>2. ASSUME NEW x \in Services, NEW b \in BOOLEAN, b \/ IsChecked(x),
               pipe' = Append(pipe, HealthCheck(x, b))
        PROVE  Goal
    <3>1. HealthCheck(x, b) \in Event /\ Origin(HealthCheck(x, b))
      BY <2>2, EventConstructors
      DEF Origin, IsAnnouncement, Announcements, HealthCheck
    <3> QED BY <1>1, <1>3, <1>12, <2>2, <3>1, EventSent
  <2> QED BY <1>12, <2>1, <2>2
<1>13. CASE MonitorThread
  BY <1>1, <1>12, <1>13, MonitorSends DEF threadVars
<1>14. ASSUME NEW s \in Services, WorkerThread(s)
       PROVE  Goal
  BY <1>1, <1>12, <1>14, WorkerSends DEF threadVars
<1>15. CASE Environment \/ Idle
  <2>1. UNCHANGED <<pipe, inbox, batch, out>>
    BY <1>15 DEF Environment, HandleSigterm, ProcessExits, GraceExpires, Idle,
                 busVars, threadVars, vars, supervisorVars
  <2> QED BY <1>12, <2>1
<1> QED
  BY <1>5, <1>6, <1>7, <1>8, <1>9, <1>10, <1>11, <1>13, <1>14, <1>15
  DEF Next, SupervisorThread, SupervisorStep, HandleEvent

(* The head of the batch is on its way to the supervisor.                  *)
LEMMA HeadUnderWay ==
  ASSUME TypeOK, batch # <<>>
  PROVE  Head(batch) \in Event /\ \A S : Head(batch) \in S => ~Nowhere(S)
<1>1. /\ batch \in Seq(Event) /\ inbox["supervisor"] \in Seq(Event)
      /\ pipe \in Seq(Event)
  BY QueueTypes
<1>2. ASSUME NEW S, Head(batch) \in S
      PROVE  ~Nowhere(S)
  <2>1. ~Without(batch, S)
    BY <1>1, <1>2, HeadAndTail
  <2> QED BY <1>1, <2>1, ThreeJoined DEF Nowhere, course, WithoutAll
<1> QED BY <1>1, <1>2

(* The steps that may change a handler.                                    *)
LEMMA WhoHandles ==
  ASSUME Next
  PROVE  \/ UNCHANGED sh
         \/ HandleServiceExited \/ HandleStatusUpdate
         \/ HandlePidChanged \/ HandleSpawnFailed
         \/ HandleRun \/ HandleRunPrepareFails \/ HandleForceKill
         \/ HandleKill \/ HandleHealthCheck
         \/ \E s \in Services : GraceExpires(s)
BY DEF Next, SupervisorThread, SupervisorStep, Ingest, Produce, Send,
       Return, HandleEvent, PanicOnServiceExited,
       HandleShuttingDownInitiated, HandleIgnored, Dispatch, MonitorThread,
       SpawnerThread, SpawnerStep, SpawnerForks, SpawnerReports,
       SpawnerFails, SpawnerGivesUp, WorkerThread, Environment,
       HandleSigterm, ProcessExits, Idle, vars, supervisorVars, repoVars

-----------------------------------------------------------------------------
(* The services at each kind of step                                       *)

(* The events that matter, by their fields.                                *)
LEMMA Sorts ==
  /\ \A s : \A ev \in Replies(s) :
       ev \in Event /\ ev.kind \in {"PidChanged", "SpawnFailed"} /\ ev.svc = s
  /\ \A s : \A ev \in Late(s) :
       ev.kind \in {"ServiceExited", "ForceKill"} /\ ev.svc = s
  /\ \A s : \A ev \in Exits(s) : ev \in Late(s) /\ ev.kind = "ServiceExited"
  /\ \A s : \A ev \in Failures(s) :
       /\ ev.kind = "StatusUpdate" /\ ev.svc = s
       /\ ev.status \in {"Failed", "FinishedFailed"}
  /\ \A s : \A ev \in Starts(s) : ev.kind = "Run" /\ ev.svc = s
  /\ \A s : \A ev \in Again(s) :
       ev.kind = "StatusUpdate" /\ ev.svc = s /\ ev.status = "Initial"
  /\ \A s : \A ev \in Kills(s) :
       /\ ev.svc = s
       /\ \/ ev.kind \in {"Kill", "ForceKill"}
          \/ ev.kind = "StatusUpdate" /\ ev.status = "InKilling"
  /\ \A ev \in Unsent :
       /\ ev.kind = "StatusUpdate"
       /\ ev.status \in {"Starting", "Started", "Success"}
BY DEF Replies, Late, Exits, Failures, Starts, Again, Kills, Unsent,
       ServiceExited, StatusUpdate, ForceKill, Kill, Run

(* A step that moves no token of s keeps the invariant, given what it does *)
(* to the handler of s, to its processes and to the events on their way.   *)
LEMMA ServiceKept ==
  ASSUME NEW s \in Services, ServiceInv(s), NEW N, OnlyAdds(N),
         \A e \in N : e \notin Replies(s),
         Awaited(s)' => \A e \in N : e \notin Late(s),
         Alive(s)' # {} => \A e \in N : e \notin Exits(s),
         sh'[s].status \in Live => \A e \in N : e \notin Failures(s),
         StillToFork(s)' = StillToFork(s),
         spawners'[s].forked = spawners[s].forked,
         SupervisorIsUp' =>
           /\ SupervisorIsUp
           /\ Without(course', Replies(s)) => Without(course, Replies(s)),
         \A p \in Alive(s)' :
           p \in Alive(s) /\ (proc[p].sig = "kill" => proc'[p].sig = "kill"),
         \A p \in Pids : pid_map'[p] = s => sh'[s].pid = p,
         Awaited(s) => sh'[s].pid = None,
         sh'[s].pid = sh[s].pid \/ Alive(s)' = {},
         sh'[s].status = "Initial" =>
           \/ sh[s].status = "Initial"
           \/ /\ Answered(s) /\ sh'[s].pid = None
              /\ Nowhere(Late(s))' /\ Alive(s)' = {},
         ~Answered(s) => sh'[s].status \in {"Starting", "InKilling"},
         sh'[s].status \in Live => sh[s].status \in Live,
         sh'[s].status \in Over => \A p \in Alive(s)' : proc'[p].sig = "kill"
  PROVE  ServiceInv(s)'
<1> USE DEF ServiceInv
<1>1. /\ AllWithout(out', Replies(s))
      /\ Without(course, Replies(s)) => Without(course', Replies(s))
      /\ AtMostOneOf(course', Replies(s))
  BY DEF OnlyAdds, TokenInv, OneToken
<1>2. Answered(s) => Answered(s)'
  BY <1>1 DEF Answered
<1>3. SupervisorIsUp' => (Answered(s)' => Answered(s))
  BY DEF Answered
<1>4. \/ Awaited(s)' => Awaited(s)
      \/ sh'[s].pid = None /\ Nowhere(Late(s))'
  BY <1>2 DEF Awaited
<1>5. Nowhere(Late(s)) /\ (\A e \in N : e \notin Late(s)) => Nowhere(Late(s))'
  BY DEF OnlyAdds, Nowhere, Late, Exits, ServiceExited, ForceKill
<1>6. OneToken(s)'
  BY <1>1 DEF TokenInv, OneToken
<1>7. TokenInv(s)'
  BY <1>1, <1>2, <1>4, <1>5, <1>6 DEF TokenInv, Awaited
<1>8. ProcessInv(s)'
  <2>1. Misreports(s)' \subseteq Misreports(s) /\ Misreports(s) \subseteq Replies(s)
    BY DEF Misreports, Replies
  <2>2. Without(course, Misreports(s))
    BY DEF ProcessInv
  <2>3. AllWithout(out, Misreports(s))
    BY <2>1 DEF TokenInv, AllWithout, Without
  <2>4. Without(course', Misreports(s))
    BY <2>1, <2>2, <2>3 DEF OnlyAdds
  <2>5. Without(course', Misreports(s)')
    BY <2>1, <2>4 DEF Without
  <2>6. SupervisorIsUp' /\ Answered(s)' => Alive(s)' \subseteq {sh'[s].pid}
    BY <1>3 DEF ProcessInv
  <2> QED BY <2>5, <2>6 DEF ProcessInv
<1>9. EndInv(s)'
  <2>1. Nowhere(Exits(s)) /\ (\A e \in N : e \notin Exits(s)) => Nowhere(Exits(s))'
    BY DEF OnlyAdds, Nowhere, Exits, ServiceExited
  <2>2. /\ Nowhere(Failures(s)) /\ (\A e \in N : e \notin Failures(s))
             => Nowhere(Failures(s))'
    BY DEF OnlyAdds, Nowhere, Failures, StatusUpdate
  <2>3. Alive(s)' # {} => Alive(s) # {}
    OBVIOUS
  <2> QED BY <2>1, <2>2, <2>3 DEF EndInv
<1> QED BY <1>7, <1>8, <1>9

(* In particular a step that leaves the handler of s alone.                *)
LEMMA ServiceUntouched ==
  ASSUME NEW s \in Services, ServiceInv(s), NEW N, OnlyAdds(N),
         \A e \in N : e \notin Replies(s),
         Awaited(s) => \A e \in N : e \notin Late(s),
         Alive(s)' # {} => \A e \in N : e \notin Exits(s),
         sh[s].status \in Live => \A e \in N : e \notin Failures(s),
         StillToFork(s)' = StillToFork(s),
         spawners'[s].forked = spawners[s].forked,
         SupervisorIsUp' =>
           /\ SupervisorIsUp
           /\ Without(course', Replies(s)) => Without(course, Replies(s)),
         \A p \in Alive(s)' :
           p \in Alive(s) /\ (proc[p].sig = "kill" => proc'[p].sig = "kill"),
         \A p \in Pids : pid_map'[p] = s => pid_map[p] = s,
         sh'[s].pid = sh[s].pid, sh'[s].status = sh[s].status
  PROVE  ServiceInv(s)'
<1>1. Answered(s) => Answered(s)'
  <2>1. Without(course, Replies(s)) => Without(course', Replies(s))
    BY DEF OnlyAdds, ServiceInv, TokenInv
  <2> QED BY <2>1 DEF Answered
<1>2. Awaited(s)' => Awaited(s)
  BY <1>1 DEF Awaited
<1>3. /\ \A p \in Pids : pid_map'[p] = s => sh'[s].pid = p
      /\ Awaited(s) => sh'[s].pid = None
      /\ ~Answered(s) => sh'[s].status \in {"Starting", "InKilling"}
  BY DEF ServiceInv, TokenInv
<1>4. sh'[s].status \in Over => \A p \in Alive(s)' : proc'[p].sig = "kill"
  BY DEF ServiceInv, EndInv
<1> QED BY <1>2, <1>3, <1>4, ServiceKept

(* The events of M come at a time when they may be the last on their way.  *)
Timely(M, s) ==
  \A e \in M :
    /\ e \in Starts(s) => Without(course, Replies(s))
    /\ ~HasFinished(sh[s]) /\ e \in Failures(s) \cup Again(s) =>
         Without(course, Starts(s))
    /\ ~HasFinished(sh[s]) /\ e \in Exits(s) => Without(course, Again(s))

(* What holds between one start of s and the next is kept by a step that   *)
(* leaves the handler of s alone.                                          *)
LEMMA RestartUntouched ==
  ASSUME NEW s \in Services, RestartInv(s), NEW N, OnlyAdds(N),
         \A e \in N : /\ e \notin Starts(s) /\ e \notin Failures(s)
                      /\ e \notin Again(s) /\ e \notin Exits(s)
                      /\ e \notin Kills(s),
         NEW M, KeepsOrder(M), Timely(M, s),
         Answered(s) => Answered(s)',
         SupervisorIsUp' /\ Answered(s)' => SupervisorIsUp /\ Answered(s),
         phase' = phase \/ out' = <<>>,
         lifecycle' = "Running" => lifecycle = "Running",
         sh'[s].pid = sh[s].pid, sh'[s].status = sh[s].status
  PROVE  RestartInv(s)'
<1>1. /\ Starts(s)' = Starts(s) /\ Failures(s)' = Failures(s)
      /\ Again(s)' = Again(s) /\ Exits(s)' = Exits(s) /\ Kills(s)' = Kills(s)
  BY DEF Starts, Failures, Again, Exits, Kills, Run, StatusUpdate,
         ServiceExited, Kill, ForceKill
<1>2. ASSUME NEW S \in {Starts(s), Failures(s), Again(s), Exits(s), Kills(s)}
      PROVE  /\ AllWithout(out, S) => AllWithout(out', S)
             /\ Nowhere(S) => Without(course', S) /\ AllWithout(out', S)
  BY <1>2 DEF OnlyAdds, Nowhere
<1>3. out' = <<>> => \A S : AllWithout(out', S)
  BY DEF AllWithout
<1>4. /\ (HasFinished(sh[s]))' <=> HasFinished(sh[s])
      /\ HasFailed(s)' <=> HasFailed(s)
  BY DEF HasFinished, HasFailed
<1>5. RunInv(s)'
  <2>1. NoneBehind(course', Replies(s), Starts(s))
    BY DEF KeepsOrder, Timely, RestartInv, RunInv
  <2>2. ~HasFinished(sh[s]) => NoneBehind(course', Starts(s), Failures(s))
    BY DEF KeepsOrder, Timely, RestartInv, RunInv
  <2>3. ~AllWithout(out', Starts(s)) =>
          phase' = "producing" /\ sh'[s].status = "Initial"
    BY <1>2, <1>3 DEF RestartInv, RunInv
  <2>4. ~AllWithout(out', Failures(s)) =>
          /\ HasFailed(s)
          /\ phase' = "handling" /\ sh'[s].status = "Failed" =>
               Without(course', Again(s)) /\ AllWithout(out', Again(s))
    BY <1>2, <1>3 DEF RestartInv, RunInv
  <2>5. /\ SupervisorIsUp' /\ Answered(s)'
        /\ \/ sh'[s].status \in Live \cup {"Failed"}
           \/ sh'[s].status = "Success" /\ ~Once(s)
        => Without(course', Starts(s))
    <3> SUFFICES ASSUME SupervisorIsUp', Answered(s)',
                        \/ sh'[s].status \in Live \cup {"Failed"}
                        \/ sh'[s].status = "Success" /\ ~Once(s)
                 PROVE  Without(course', Starts(s))
      OBVIOUS
    <3>1. Without(course, Starts(s)) /\ AllWithout(out, Starts(s))
      BY DEF RestartInv, RunInv, Live
    <3> QED BY <1>2, <3>1 DEF Nowhere
  <2> QED BY <1>1, <1>4, <2>1, <2>2, <2>3, <2>4, <2>5
          DEF RunInv, Nowhere, Once, Live, Replies
<1>6. AgainInv(s)'
  <2>1. Once(s) => Without(course', Again(s)) /\ AllWithout(out', Again(s))
    BY <1>2 DEF RestartInv, AgainInv
  <2>2. ~AllWithout(out', Again(s)) =>
          phase' = "producing" /\ sh'[s].status \in {"Success", "Failed"}
    BY <1>2, <1>3 DEF RestartInv, AgainInv
  <2>3. ~AllWithout(out', Exits(s)) => phase' = "producing" /\ sh'[s].pid # None
    BY <1>2, <1>3 DEF RestartInv, AgainInv
  <2>4. ~HasFinished(sh[s]) =>
          /\ NoneBehind(course', Starts(s), Again(s))
          /\ NoneBehind(course', Again(s), Exits(s))
    BY DEF KeepsOrder, Timely, RestartInv, AgainInv
  <2>5. ~HasFinished(sh[s]) /\ ~(Without(course', Again(s)) /\ AllWithout(out', Again(s)))
          => /\ sh'[s].status \in {"Initial", "Success", "Failed"}
             /\ sh'[s].pid = None /\ Answered(s)'
             /\ Without(course', Kills(s)) /\ AllWithout(out', Kills(s))
    BY <1>2 DEF RestartInv, AgainInv
  <2> QED BY <1>1, <1>4, <2>1, <2>2, <2>3, <2>4, <2>5 DEF AgainInv, Nowhere, Once
<1>7. CalmInv(s)'
  <2>1. Nowhere(Kills(s)) => Without(course', Kills(s)) /\ AllWithout(out', Kills(s))
    BY <1>2
  <2> QED BY <1>1, <2>1 DEF RestartInv, CalmInv, Nowhere, Once
<1> QED BY <1>5, <1>6, <1>7 DEF RestartInv

-----------------------------------------------------------------------------
(* What a service asks for                                                 *)

(* A service that may be started again is killed in shutdowns alone.       *)
MayKill(t) ==
  Once(t) \/ (lifecycle # "Running" /\ sh[t].status \in {"Started", "Running"})

(* Of what a service x asks for, a SIGKILL needs a pid, a failure is the   *)
(* end of a service that has failed, a start follows what it starts after, *)
(* and a restart follows an end.                                           *)
Fits(ev, x) ==
  \/ ev.kind \in {"StatusChanged", "ShuttingDownInitiated"}
  \/ ev = Run(x) /\ IsServiceRunnable(sh, x)
  \/ ev = ForceKill(x) /\ sh[x].status = "InKilling" /\ sh[x].pid # None
  \/ \E t \in Services :
       ev \in {StatusUpdate(t, "InKilling"), Kill(t)} /\ MayKill(t)
  \/ ev.kind = "StatusUpdate" /\ ev.status \in {"Running", "Finished"}
  \/ /\ ev = StatusUpdate(x, "Initial") /\ ~Once(x)
     /\ lifecycle = "Running" /\ sh[x].status \in {"Success", "Failed"}
  \/ ev = StatusUpdate(x, "FinishedFailed") /\ sh[x].status = "Failed"
Misfits(x) == {ev \in Event : ~Fits(ev, x)}

(* The kill commands of services that may be killed fit.                   *)
LEMMA KillAllFits ==
  ASSUME NEW T \in SUBSET Services, \A t \in T : MayKill(t), NEW x
  PROVE  KillAll(T) \in Seq(Event) /\ Without(KillAll(T), Misfits(x))
<1> DEFINE n == Cardinality(T)
           order == SetToSeq(T)
<1>1. n \in Nat /\ order \in [1..n -> T]
  BY SetToSeqType, ServicesAssumption, FS_Subset
<1>2. KillAll(T) = [i \in 1..(2 * n) |->
                      IF i % 2 = 1
                        THEN StatusUpdate(order[(i + 1) \div 2], "InKilling")
                        ELSE Kill(order[i \div 2])]
  BY DEF KillAll
<1> HIDE DEF n, order
<1>3. ASSUME NEW i \in DOMAIN KillAll(T)
      PROVE  Fits(KillAll(T)[i], x)
  <2>0. i \in 1..(2 * n)
    BY <1>2
  <2>1. CASE i % 2 = 1
    <3>1. (i + 1) \div 2 \in 1..n
      BY <1>1, <2>0, <2>1
    <3>2. KillAll(T)[i] = StatusUpdate(order[(i + 1) \div 2], "InKilling")
      BY <1>2, <2>0, <2>1
    <3>3. order[(i + 1) \div 2] \in T
      BY <1>1, <3>1
    <3> QED BY <3>2, <3>3 DEF Fits
  <2>2. CASE i % 2 # 1
    <3>1. i \div 2 \in 1..n
      BY <1>1, <2>0, <2>2
    <3>2. KillAll(T)[i] = Kill(order[i \div 2])
      BY <1>2, <2>0, <2>2
    <3>3. order[i \div 2] \in T
      BY <1>1, <3>1
    <3> QED BY <3>2, <3>3 DEF Fits
  <2> QED BY <2>1, <2>2
<1> QED BY <1>3, KillAllType DEF Without, Misfits

(* So does all that a service asks for.                                    *)
LEMMA NextEventsFit ==
  ASSUME CleanRestarts, TypeOK, NEW x \in Services, HealthInv(x)
  PROVE  /\ NextEvents(sh, x, lifecycle) \in Seq(Event)
         /\ Without(NextEvents(sh, x, lifecycle), Misfits(x))
<1> DEFINE h == sh[x]
           Good(q) == q \in Seq(Event) /\ Without(q, Misfits(x))
<1>0. /\ sh \in [Services -> ServiceHandlerType]
      /\ lifecycle \in LifecycleStatuses
      /\ Config \in [Services -> ServiceType]
  BY ConfigAssumption DEF TypeOK, SupervisorTypeOK
<1>1. ASSUME NEW e \in Event, Fits(e, x)
      PROVE  Good(<<e>>)
  <2>1. e \notin Misfits(x)
    BY <1>1 DEF Misfits
  <2> QED BY <2>1, EventLists, ShortQueues
<1>2. \A q, r : Good(q) /\ Good(r) => Good(q \o r)
  BY Joined
<1>3. Good(<<>>)
  BY ShortQueues
<1>4. \A T \in SUBSET Services : (\A t \in T : Once(t)) => Good(KillAll(T))
  BY KillAllFits DEF MayKill
<1>5. /\ StatusUpdate(x, "InKilling") \in Event
      /\ StatusUpdate(x, "Running") \in Event
      /\ StatusUpdate(x, "Initial") \in Event
      /\ StatusUpdate(x, "Finished") \in Event
      /\ StatusUpdate(x, "FinishedFailed") \in Event
      /\ StatusChanged(x, "Failed") \in Event
      /\ Kill(x) \in Event /\ ForceKill(x) \in Event /\ Run(x) \in Event
      /\ ShuttingDownInitiated("Gracefully") \in Event
  BY EventConstructors DEF Statuses, ShuttingDown
<1>6. /\ MayKill(x) => Fits(StatusUpdate(x, "InKilling"), x) /\ Fits(Kill(x), x)
      /\ Fits(StatusUpdate(x, "Running"), x)
      /\ Fits(StatusUpdate(x, "Finished"), x)
      /\ /\ ~Once(x) /\ lifecycle = "Running" /\ h.status \in {"Success", "Failed"}
         => Fits(StatusUpdate(x, "Initial"), x)
      /\ h.status = "Failed" => Fits(StatusUpdate(x, "FinishedFailed"), x)
      /\ Fits(StatusChanged(x, "Failed"), x)
      /\ IsServiceRunnable(sh, x) => Fits(Run(x), x)
      /\ h.status = "InKilling" /\ h.pid # None => Fits(ForceKill(x), x)
      /\ Fits(ShuttingDownInitiated("Gracefully"), x)
  <2>1. /\ StatusUpdate(x, "Running").kind = "StatusUpdate"
        /\ StatusUpdate(x, "Running").status = "Running"
        /\ StatusUpdate(x, "Finished").kind = "StatusUpdate"
        /\ StatusUpdate(x, "Finished").status = "Finished"
        /\ StatusChanged(x, "Failed").kind = "StatusChanged"
        /\ ShuttingDownInitiated("Gracefully").kind = "ShuttingDownInitiated"
    BY DEF StatusUpdate, StatusChanged, ShuttingDownInitiated
  <2> QED BY <2>1 DEF Fits
<1> HIDE DEF Good
<1>7. ASSUME NEW e \in Event, NEW f \in Event, Fits(e, x), Fits(f, x)
      PROVE  Good(<<e, f>>)
  <2>1. e \notin Misfits(x) /\ f \notin Misfits(x)
    BY <1>7 DEF Misfits
  <2> QED BY <2>1, EventLists, ShortQueues DEF Good
<1>8. MayKill(x) => Good(KillCommand(x))
  BY <1>5, <1>6, <1>7 DEF KillCommand
<1>9. ASSUME lifecycle = "Running"
      PROVE  Good(NextEventsRunning(sh, x))
  <2>1. /\ h.status = "Success" => Good(<<HandleRestartStrategy(x, h, FALSE)>>)
        /\ h.status = "Failed" => Good(<<HandleRestartStrategy(x, h, TRUE)>>)
    <3>1. /\ HandleRestartStrategy(x, h, FALSE) \in
               {StatusUpdate(x, "Finished")} \cup
               (IF Once(x) THEN {} ELSE {StatusUpdate(x, "Initial")})
          /\ HandleRestartStrategy(x, h, TRUE) \in
               {StatusUpdate(x, "Finished"), StatusUpdate(x, "FinishedFailed")}
               \cup (IF Once(x) THEN {} ELSE {StatusUpdate(x, "Initial")})
      BY DEF HandleRestartStrategy, Once, RestartAttemptsAreOver
    <3>2. /\ Good(<<StatusUpdate(x, "Finished")>>)
          /\ h.status = "Failed" => Good(<<StatusUpdate(x, "FinishedFailed")>>)
          /\ ~Once(x) /\ h.status \in {"Success", "Failed"} =>
               Good(<<StatusUpdate(x, "Initial")>>)
      BY <1>1, <1>5, <1>6, <1>9
    <3> QED BY <3>1, <3>2
  <2>2. Good(HandleFailedService(x))
    <3>1. Config[x].failure \in FailureStrategies
      BY <1>0 DEF ServiceType
    <3>2. Config[x].failure = "kill-dependents" => Good(KillAll(Dependents(x)))
      <4> SUFFICES ASSUME Config[x].failure = "kill-dependents"
                   PROVE  \A t \in Dependents(x) : Once(t)
        BY <1>4 DEF Dependents
      <4> QED BY DEF Dependents, CleanRestarts, Calm
    <3> QED
      BY <1>1, <1>3, <1>5, <1>6, <3>1, <3>2
      DEF HandleFailedService, FailureStrategies
  <2>3. Good(KillAll(DieIfFailed(x)))
    <3>1. \A t \in DieIfFailed(x) : Once(t)
      BY DEF DieIfFailed, CleanRestarts, Calm
    <3> QED BY <1>4, <3>1 DEF DieIfFailed
  <2>4. h.status = "Failed" =>
          Good(HandleFailedService(x)
                 \o <<HandleRestartStrategy(x, h, TRUE)>>
                 \o KillAll(DieIfFailed(x)))
    <3>1. h.status = "Failed" =>
            Good(HandleFailedService(x) \o <<HandleRestartStrategy(x, h, TRUE)>>)
      BY <1>2, <2>1, <2>2
    <3> QED BY <1>2, <2>3, <3>1
  <2>5. h.healthiness_checks_failed > Config[x].max_failed => MayKill(x)
    <3> SUFFICES ASSUME ~Once(x)
                 PROVE  ~(h.healthiness_checks_failed > Config[x].max_failed)
      BY DEF MayKill
    <3>1. h.healthiness_checks_failed \in {-1, 0}
      BY DEF HealthInv, CleanRestarts, Calm
    <3>2. Config[x].max_failed \in Nat
      BY <1>0 DEF ServiceType
    <3> QED BY <3>1, <3>2
  <2>6. /\ IsServiceRunnable(sh, x) => Good(<<Run(x)>>)
        /\ Good(<<StatusUpdate(x, "Running")>>)
        /\ h.status = "InKilling" /\ h.pid # None =>
             Good(<<ForceKill(x), StatusChanged(x, "Failed")>>)
    BY <1>1, <1>5, <1>6, <1>7
  <2>7. ShouldForceKill(h, "Running") => h.pid # None
    BY DEF ShouldForceKill
  <2> QED
    BY <1>3, <1>8, <2>1, <2>4, <2>5, <2>6, <2>7, Zenon DEF NextEventsRunning
<1>10. ASSUME lifecycle # "Running"
       PROVE  Good(NextEventsShuttingDown(sh, x, lifecycle))
  <2>1. /\ Good(<<StatusUpdate(x, "Finished")>>)
        /\ h.status = "Failed" => Good(<<StatusUpdate(x, "FinishedFailed")>>)
        /\ h.status = "InKilling" /\ h.pid # None => Good(<<ForceKill(x)>>)
    BY <1>1, <1>5, <1>6
  <2>2. ShouldForceKill(h, lifecycle) => h.pid # None
    BY DEF ShouldForceKill
  <2>3. h.status \in {"Running", "Started"} => Good(KillCommand(x))
    BY <1>8, <1>10 DEF MayKill
  <2> QED
    BY <1>3, <2>1, <2>2, <2>3, Zenon DEF NextEventsShuttingDown
<1>11. Good(NextEvents(sh, x, lifecycle))
  BY <1>9, <1>10, Zenon DEF NextEvents
<1> QED BY <1>11 DEF Good

LEMMA NextOfAllFits ==
  ASSUME CleanRestarts, TypeOK, \A s \in Services : HealthInv(s),
         NEW e \in NextOfAll
  PROVE  e \in Event /\ \E x \in Services : Fits(e, x)
<1>1. PICK x \in Services : e \in ToSet(NextEvents(sh, x, lifecycle))
  BY DEF NextOfAll
<1>2. PICK i \in DOMAIN NextEvents(sh, x, lifecycle) :
        e = NextEvents(sh, x, lifecycle)[i]
  BY <1>1 DEF ToSet
<1>3. e \in Event /\ e \notin Misfits(x)
  BY <1>2, NextEventsFit DEF Without
<1> QED BY <1>3 DEF Misfits

(* What this says of the events that matter.                               *)
LEMMA FitsSorts ==
  ASSUME NEW x \in Services, NEW e, Fits(e, x), NEW s
  PROVE  /\ e \notin Unsent /\ e \notin Replies(s) /\ e \notin Exits(s)
         /\ e \in Late(s) => sh[s].status = "InKilling" /\ sh[s].pid # None
         /\ e \in Failures(s) => sh[s].status = "Failed"
         /\ e \in Starts(s) => sh[s].status = "Initial"
         /\ e \in Again(s) =>
              /\ ~Once(s) /\ lifecycle = "Running"
              /\ sh[s].status \in {"Success", "Failed"}
         /\ e \in Kills(s) => MayKill(s) \/ sh[s].status = "InKilling"
<1>1. \/ e.kind \in {"StatusChanged", "ShuttingDownInitiated"}
      \/ /\ e.kind = "Run" /\ e.svc = x /\ sh[x].status = "Initial"
      \/ /\ e.kind = "ForceKill" /\ e.svc = x
         /\ sh[x].status = "InKilling" /\ sh[x].pid # None
      \/ e.kind = "Kill" /\ MayKill(e.svc)
      \/ /\ e.kind = "StatusUpdate"
         /\ \/ e.status = "InKilling" /\ MayKill(e.svc)
            \/ e.status \in {"Running", "Finished"}
            \/ /\ e.svc = x /\ e.status = "Initial" /\ ~Once(x)
               /\ lifecycle = "Running" /\ sh[x].status \in {"Success", "Failed"}
            \/ e.svc = x /\ e.status = "FinishedFailed" /\ sh[x].status = "Failed"
  BY DEF Fits, Run, ForceKill, Kill, StatusUpdate, IsServiceRunnable
<1> QED BY <1>1, Sorts

-----------------------------------------------------------------------------
(* Steps that touch no handler and no token                                *)

(* No process of a service is born, and no SIGKILL is taken back.          *)
NoBirths ==
  \A s \in Services : \A p \in Alive(s)' :
    p \in Alive(s) /\ (proc[p].sig = "kill" => proc'[p].sig = "kill")

(* Nothing about the spawner threads of a service but which of them have   *)
(* heard of a shutdown.                                                    *)
NoTokenMoves ==
  \A s \in Services : /\ StillToFork(s)' = StillToFork(s)
                      /\ spawners'[s].forked = spawners[s].forked

Harmless(ev) ==
  ev.kind \in {"StatusChanged", "HealthCheck", "ShuttingDownInitiated"}

LEMMA HarmlessSorts ==
  ASSUME NEW ev, Harmless(ev)
  PROVE  /\ ev \notin Unsent
         /\ \A s : /\ ev \notin Replies(s) /\ ev \notin Late(s)
                   /\ ev \notin Exits(s) /\ ev \notin Failures(s)
                   /\ ev \notin Starts(s) /\ ev \notin Again(s)
                   /\ ev \notin Kills(s)
BY Sorts DEF Harmless

LEMMA GlobalKept ==
  ASSUME GlobalInv, TypeOK', NEW N, OnlyAdds(N), \A e \in N : e \notin Unsent,
         phase' = "producing" => batch' = <<>>,
         SupervisorIsUp' => "supervisor" \in joined'
  PROVE  GlobalInv'
<1>1. Nowhere(Unsent)'
  BY DEF OnlyAdds, GlobalInv, Nowhere, Unsent, StatusUpdate
<1> QED BY <1>1 DEF GlobalInv

(* Such a step keeps the invariant.                                        *)
LEMMA AllUntouched ==
  ASSUME InstanceInv, TypeOK', NEW N, OnlyAdds(N),
         \A e \in N : Harmless(e),
         NEW M, KeepsOrder(M), \A s \in Services : Timely(M, s),
         phase' = "producing" => batch' = <<>>,
         phase' = phase \/ out' = <<>>,
         lifecycle' = "Running" => lifecycle = "Running",
         SupervisorIsUp' =>
           /\ SupervisorIsUp /\ "supervisor" \in joined'
           /\ \A s \in Services :
                Without(course', Replies(s)) => Without(course, Replies(s)),
         NoBirths, NoTokenMoves, UNCHANGED pid_map,
         \A s \in Services : /\ sh'[s].pid = sh[s].pid
                             /\ sh'[s].status = sh[s].status
  PROVE  ServicesInv'
<1>1. GlobalInv'
  BY HarmlessSorts, GlobalKept DEF InstanceInv
<1>2. ASSUME NEW s \in Services
      PROVE  ServiceInv(s)' /\ RestartInv(s)'
  <2>1. ServiceInv(s) /\ RestartInv(s)
    BY DEF InstanceInv
  <2>2. \A e \in N : /\ e \notin Replies(s) /\ e \notin Late(s)
                     /\ e \notin Exits(s) /\ e \notin Failures(s)
                     /\ e \notin Starts(s) /\ e \notin Again(s)
                     /\ e \notin Kills(s)
    BY HarmlessSorts
  <2>3. /\ StillToFork(s)' = StillToFork(s)
        /\ spawners'[s].forked = spawners[s].forked
        /\ \A p \in Alive(s)' :
             p \in Alive(s) /\ (proc[p].sig = "kill" => proc'[p].sig = "kill")
    BY DEF NoBirths, NoTokenMoves
  <2>4. /\ Answered(s) => Answered(s)'
        /\ SupervisorIsUp' /\ Answered(s)' => SupervisorIsUp /\ Answered(s)
    <3>1. Without(course, Replies(s)) => Without(course', Replies(s))
      BY <2>1, <2>2 DEF OnlyAdds, ServiceInv, TokenInv
    <3> QED BY <2>3, <3>1 DEF Answered
  <2> QED BY <2>1, <2>2, <2>3, <2>4, ServiceUntouched, RestartUntouched
<1> QED BY <1>1, <1>2 DEF ServicesInv

(* Harmless events are never too early.                                    *)
LEMMA HarmlessTimely ==
  ASSUME NEW M, \A e \in M : Harmless(e)
  PROVE  \A s : Timely(M, s)
BY HarmlessSorts DEF Timely

(* A signal leaves every process alive, and a pending SIGKILL pending.     *)
LEMMA SignalledStays ==
  ASSUME TypeOK, NEW p, NEW sig \in {"term", "kill"}, proc' = Signalled(p, sig)
  PROVE  /\ \A s : Alive(s)' = Alive(s)
         /\ \A q \in Pids : proc[q].sig = "kill" => proc'[q].sig = "kill"
         /\ \A s : sig = "kill" /\ p \in Alive(s) => proc'[p].sig = "kill"
<1>1. proc \in [Pids -> Process]
  BY DEF TypeOK, ProcessesTypeOK
<1>2. CASE p \in Pids /\ proc[p].state = "alive" /\ proc[p].sig # "kill"
  <2>1. /\ proc' = [proc EXCEPT ![p].sig = sig]
        /\ proc[p] \in Process
    BY <1>1, <1>2 DEF Signalled
  <2>2. \A q \in Pids : /\ q # p => proc'[q] = proc[q]
                        /\ proc'[q].state = proc[q].state
                        /\ proc'[q].owner = proc[q].owner
                        /\ proc'[q].role = proc[q].role
                        /\ q = p => proc'[q].sig = sig
    BY <1>1, <2>1 DEF Process
  <2> QED BY <1>2, <2>2 DEF Alive
<1>3. CASE ~(p \in Pids /\ proc[p].state = "alive" /\ proc[p].sig # "kill")
  BY <1>3 DEF Signalled, Alive
<1> QED BY <1>2, <1>3

(* A new iteration, and its events.                                        *)
LEMMA StepIngest ==
  ASSUME InstanceInv, TypeOK', Ingest
  PROVE  ServicesInv'
<1>1. batch = <<>> /\ TypeOK /\ "supervisor" \in joined /\ SupervisorIsUp
  BY DEF InstanceInv, GlobalInv, Ingest, Asleep, SupervisorIsUp
<1>2. /\ OnlyAdds(Shutdowns)
      /\ \A S : Without(course', S) => Without(course, S)
  BY <1>1, BatchTaken
<1>3. \A e \in Shutdowns : Harmless(e)
  BY DEF Shutdowns, Harmless, ShuttingDownInitiated
<1>4. /\ NoBirths /\ NoTokenMoves
      /\ UNCHANGED <<sh, pid_map, joined, lifecycle, out>>
  BY DEF NoBirths, NoTokenMoves, Ingest, repoVars, Alive, StillToFork
<1>5. phase' = "handling" /\ out = <<>>
  BY DEF Ingest, Asleep
<1>6. KeepsOrder(Shutdowns) /\ \A s \in Services : Timely(Shutdowns, s)
  BY <1>1, <1>3, BatchTakenOrder, HarmlessTimely
<1> QED BY <1>1, <1>2, <1>3, <1>4, <1>5, <1>6, AllUntouched

(* An event is sent in time for the service it is about: what is to be     *)
(* sent follows from the status of its service.                            *)
LEMMA StepSend ==
  ASSUME InstanceInv, TypeOK', Send
  PROVE  ServicesInv'
<1>1. /\ TypeOK /\ SupervisorIsUp /\ "supervisor" \in joined /\ batch = <<>>
  BY DEF InstanceInv, GlobalInv, Send, SupervisorIsUp
<1>2. /\ OnlyAdds({})
      /\ \A S : Without(course', S) => Without(course, S)
  BY <1>1, NextSent
<1>3. /\ NoBirths /\ NoTokenMoves
      /\ UNCHANGED <<sh, pid_map, joined, batch, phase, lifecycle>>
  BY DEF NoBirths, NoTokenMoves, Send, repoVars, Alive, StillToFork
<1>4. PICK e \in Event : KeepsOrder({e}) /\ ~AllWithout(out, {e})
  BY <1>1, NextSentOrder
<1>5. ASSUME NEW s \in Services
      PROVE  Timely({e}, s)
  <2>1. ServiceInv(s) /\ RestartInv(s)
    BY DEF InstanceInv
  <2>2. \A S : e \in S => ~AllWithout(out, S)
    BY <1>4 DEF AllWithout, Without
  <2>3. e \in Starts(s) => Without(course, Replies(s))
    BY <2>1, <2>2
    DEF RestartInv, RunInv, ServiceInv, TokenInv, Answered
  <2>4. sh[s].status \in {"Success", "Failed"} => Answered(s)
    BY <2>1 DEF ServiceInv, TokenInv
  <2>5. ~HasFinished(sh[s]) /\ e \in Failures(s) => Without(course, Starts(s))
    BY <1>1, <2>1, <2>2, <2>4
    DEF RestartInv, RunInv, HasFailed, HasFinished, TerminalStatuses
  <2>6. e \in Again(s) => Without(course, Starts(s))
    BY <1>1, <2>1, <2>2, <2>4 DEF RestartInv, RunInv, AgainInv, Nowhere
  <2>7. ~HasFinished(sh[s]) /\ e \in Exits(s) => Without(course, Again(s))
    BY <2>1, <2>2 DEF RestartInv, AgainInv, Nowhere
  <2> QED BY <2>3, <2>5, <2>6, <2>7 DEF Timely
<1> QED BY <1>1, <1>2, <1>3, <1>4, <1>5, AllUntouched

(* A supervisor that returns kills all the processes or none.              *)
LEMMA ReturnSignals ==
  ASSUME TypeOK, Return, NEW p \in Pids
  PROVE  /\ proc'[p].state = proc[p].state
         /\ proc'[p].owner = proc[p].owner
         /\ proc'[p].role = proc[p].role
         /\ proc'[p].sig = proc[p].sig \/ proc'[p].sig = "kill"
<1>1. proc \in [Pids -> Process] /\ proc[p] \in Process
  BY DEF TypeOK, ProcessesTypeOK
<1>2. \/ proc'[p] = proc[p]
      \/ proc'[p] = [proc[p] EXCEPT !.sig = "kill"]
  <2>1. proc'[p] = IF IsInit THEN Signalled(p, "kill")[p] ELSE proc[p]
    BY DEF Return
  <2>2. Signalled(p, "kill")[p] \in {proc[p], [proc[p] EXCEPT !.sig = "kill"]}
    BY <1>1 DEF Signalled
  <2> QED BY <2>1, <2>2
<1>3. CASE proc'[p] = proc[p]
  BY <1>3
<1>4. CASE proc'[p] = [proc[p] EXCEPT !.sig = "kill"]
  BY <1>1, <1>4 DEF Process
<1> QED BY <1>2, <1>3, <1>4

(* The supervisor returns, or panics.                                      *)
LEMMA StepLeaves ==
  ASSUME InstanceInv, TypeOK', Return \/ PanicOnServiceExited
  PROVE  ServicesInv'
<1> DEFINE e == ShuttingDownInitiated("Gracefully")
<1>1. TypeOK /\ e \in Event /\ Harmless(e) /\ (phase = "producing" => batch = <<>>)
  BY EventConstructors
  DEF InstanceInv, GlobalInv, ShuttingDown, Harmless, ShuttingDownInitiated
<1> HIDE DEF e
<1>2. /\ pipe' \in {pipe, Append(pipe, e)}
      /\ batch' = <<>> /\ inbox'["supervisor"] = <<>> /\ out' \in {<<>>, out}
  BY <1>1 DEF Return, PanicOnServiceExited, Leave, TypeOK, BusTypeOK,
              Connectors, Asleep, e
<1>3. OnlyAdds({e}) /\ KeepsOrder({e}) /\ \A s \in Services : Timely({e}, s)
  BY <1>1, <1>2, SupervisorGone, SupervisorGoneOrder, HarmlessTimely
<1>4. /\ NoTokenMoves /\ UNCHANGED <<sh, pid_map, lifecycle>>
      /\ ~SupervisorIsUp' /\ out' = <<>>
  BY DEF NoTokenMoves, Return, PanicOnServiceExited, repoVars, StillToFork,
         SupervisorIsUp, Asleep
<1>5. NoBirths
  <2>1. CASE Return
    <3>1. ASSUME NEW p \in Pids
          PROVE  /\ proc'[p].state = proc[p].state
                 /\ proc'[p].owner = proc[p].owner
                 /\ proc'[p].role = proc[p].role
                 /\ proc[p].sig = "kill" => proc'[p].sig = "kill"
      BY <1>1, <2>1, ReturnSignals
    <3> QED BY <3>1 DEF NoBirths, Alive
  <2>2. CASE PanicOnServiceExited
    BY <2>2 DEF PanicOnServiceExited, NoBirths, Alive
  <2> QED BY <2>1, <2>2
<1> QED BY <1>1, <1>2, <1>3, <1>4, <1>5, AllUntouched

(* The end of an iteration: what the services ask for and what the reaper  *)
(* has collected.  A pid that is told to have exited was the only process  *)
(* of its service.                                                         *)
LEMMA StepProduce ==
  ASSUME CleanRestarts, InstanceInv, TypeOK', Produce
  PROVE  ServicesInv'
<1>1. /\ TypeOK /\ SupervisorIsUp /\ "supervisor" \in joined /\ batch = <<>>
  BY DEF InstanceInv, GlobalInv, Produce, SupervisorIsUp
<1>2. PICK reaped \in SUBSET Zombies :
        /\ proc' = [p \in Pids |-> IF p \in reaped THEN Gone ELSE proc[p]]
        /\ OnlyAdds(NextOfAll \cup ExitsReaped(reaped))
        /\ \A S : Without(course', S) => Without(course, S)
  BY <1>1, IterationEnds
<1> DEFINE N == NextOfAll \cup ExitsReaped(reaped)
<1>n. OnlyAdds(N)
  BY <1>2
<1>3. \A e \in NextOfAll : \E x \in Services : Fits(e, x)
  BY <1>1, NextOfAllFits DEF InstanceInv
<1>4. \A e \in ExitsReaped(reaped) :
        \E p \in Zombies : /\ pid_map[p] # None
                            /\ e = ServiceExited(pid_map[p], proc[p].ok)
  BY DEF ExitsReaped, ExitOf
<1>5. /\ batch' = <<>>
      /\ UNCHANGED <<sh, pid_map, joined, spawners>>
      /\ phase' = "producing" /\ SupervisorIsUp'
  BY <1>1 DEF Produce, busVars, repoVars, SupervisorIsUp
<1>6. NoTokenMoves /\ NoBirths
  <2>2. \A p \in Pids : proc'[p] = Gone \/ proc'[p] = proc[p]
    BY <1>2
  <2>3. Gone.state # "alive"
    BY DEF Gone, Unborn
  <2> QED BY <1>5, <2>2, <2>3 DEF NoTokenMoves, NoBirths, Alive, StillToFork
<1> HIDE DEF N
<1>7. \A e \in N : e \notin Unsent
  <2>1. \A e \in NextOfAll : e \notin Unsent
    BY <1>3, FitsSorts
  <2>2. \A e \in ExitsReaped(reaped) : e \notin Unsent
    BY <1>4, Sorts DEF ServiceExited
  <2> QED BY <2>1, <2>2 DEF N
<1>8. GlobalInv'
  BY <1>1, <1>n, <1>5, <1>7, GlobalKept DEF InstanceInv
<1>9. ASSUME NEW s \in Services
      PROVE  ServiceInv(s)'
  <2>1. ServiceInv(s)
    BY DEF InstanceInv
  <2>2. ASSUME NEW e \in NextOfAll
        PROVE  /\ e \notin Replies(s) /\ e \notin Exits(s)
               /\ Awaited(s) => e \notin Late(s)
               /\ sh[s].status \in Live => e \notin Failures(s)
    <3>1. PICK x \in Services : Fits(e, x)
      BY <1>3
    <3>2. Awaited(s) => sh[s].pid = None
      BY <2>1 DEF ServiceInv, TokenInv
    <3> QED BY <3>1, <3>2, FitsSorts DEF Live
  <2>3. ASSUME NEW e \in ExitsReaped(reaped)
        PROVE  /\ e \notin Replies(s) /\ e \notin Failures(s)
               /\ Awaited(s) => e \notin Late(s)
               /\ Alive(s)' # {} => e \notin Exits(s)
    <3>1. PICK p \in Zombies :
            pid_map[p] # None /\ e = ServiceExited(pid_map[p], proc[p].ok)
      BY <1>4
    <3>2. p \in Pids /\ proc[p].state = "zombie"
      BY DEF Zombies
    <3>3. e \notin Replies(s) /\ e \notin Failures(s)
      BY <3>1, Sorts DEF ServiceExited
    <3>4. ASSUME e \in Late(s)
          PROVE  ~Awaited(s) /\ Alive(s)' = {}
      <4>1. pid_map[p] = s
        BY <3>1, <3>4, Sorts DEF ServiceExited
      <4>2. sh[s].pid = p /\ p # None
        BY <2>1, <3>2, <4>1, NoneAssumption DEF ServiceInv, TokenInv
      <4>3. ~Awaited(s)
        BY <2>1, <4>2 DEF ServiceInv, TokenInv
      <4>4. Alive(s) \subseteq {p}
        BY <1>1, <2>1, <4>2, <4>3 DEF ServiceInv, ProcessInv, Awaited
      <4>5. Alive(s) = {}
        BY <3>2, <4>4 DEF Alive
      <4> QED BY <1>6, <4>3, <4>5 DEF NoBirths
    <3> QED BY <3>3, <3>4, Sorts
  <2>4. /\ StillToFork(s)' = StillToFork(s)
        /\ spawners'[s].forked = spawners[s].forked
        /\ \A p \in Alive(s)' :
             p \in Alive(s) /\ (proc[p].sig = "kill" => proc'[p].sig = "kill")
    BY <1>6 DEF NoBirths, NoTokenMoves
  <2>5. \A e \in N : /\ e \notin Replies(s)
                     /\ Awaited(s) => e \notin Late(s)
                     /\ Alive(s)' # {} => e \notin Exits(s)
                     /\ sh[s].status \in Live => e \notin Failures(s)
    BY <2>2, <2>3 DEF N
  <2> QED BY <1>1, <1>2, <1>n, <1>5, <2>1, <2>4, <2>5, ServiceUntouched
<1>10. ASSUME NEW s \in Services
       PROVE  RestartInv(s)'
  <2>1. ServiceInv(s) /\ RestartInv(s)
    BY DEF InstanceInv
  <2>2. /\ course' = course /\ phase = "handling" /\ phase' = "producing"
        /\ UNCHANGED lifecycle
    BY DEF Produce, busVars, course
  <2>3. /\ Starts(s)' = Starts(s) /\ Failures(s)' = Failures(s)
        /\ Again(s)' = Again(s) /\ Exits(s)' = Exits(s) /\ Kills(s)' = Kills(s)
        /\ Replies(s)' = Replies(s)
    BY DEF Starts, Failures, Again, Exits, Kills, Replies, Run, StatusUpdate,
           ServiceExited, Kill, ForceKill
  <2>4. ASSUME NEW e \in N
        PROVE  /\ e \in Exits(s) => sh[s].pid # None
               /\ e \in Failures(s) => sh[s].status = "Failed"
               /\ e \in Starts(s) => sh[s].status = "Initial"
               /\ e \in Again(s) =>
                    /\ ~Once(s) /\ lifecycle = "Running"
                    /\ sh[s].status \in {"Success", "Failed"}
               /\ e \in Kills(s) => MayKill(s) \/ sh[s].status = "InKilling"
    <3>1. CASE e \in NextOfAll
      BY <1>3, <3>1, FitsSorts
    <3>2. CASE e \in ExitsReaped(reaped)
      <4>1. PICK p \in Zombies :
              pid_map[p] # None /\ e = ServiceExited(pid_map[p], proc[p].ok)
        BY <1>4, <3>2
      <4>2. e.kind = "ServiceExited" /\ e.svc = pid_map[p] /\ p \in Pids
        BY <4>1 DEF ServiceExited, Zombies
      <4>3. pid_map[p] = s => sh[s].pid # None
        BY <2>1, <4>2, NoneAssumption DEF ServiceInv, TokenInv
      <4> QED BY <4>2, <4>3, Sorts
    <3> QED BY <3>1, <3>2 DEF N
  <2>5. \A S : (\A e \in N : e \notin S) =>
          /\ AllWithout(out, S) => AllWithout(out', S)
          /\ Nowhere(S) => Without(course', S) /\ AllWithout(out', S)
    BY <1>n DEF OnlyAdds, Nowhere
  <2>6. Answered(s)' <=> Answered(s)
    BY <1>6, <2>2, <2>3 DEF Answered, NoTokenMoves
  <2>7. RunInv(s)'
    <3>1. AllWithout(out, Starts(s))
      BY <2>1, <2>2 DEF RestartInv, RunInv
    <3>2. ~AllWithout(out', Starts(s)) => sh[s].status = "Initial"
      BY <2>4, <2>5, <3>1
    <3>3. ~AllWithout(out', Failures(s)) => HasFailed(s)
      BY <2>1, <2>4, <2>5 DEF RestartInv, RunInv, HasFailed
    <3> QED
      BY <1>1, <1>5, <2>1, <2>2, <2>3, <2>6, <3>2, <3>3
      DEF RestartInv, RunInv, HasFinished, HasFailed, Live, Once
  <2>8. AgainInv(s)'
    <3>1. AllWithout(out, Again(s)) /\ AllWithout(out, Exits(s))
      BY <2>1, <2>2 DEF RestartInv, AgainInv
    <3>2. Once(s) => Without(course', Again(s)) /\ AllWithout(out', Again(s))
      BY <2>1, <2>4, <2>5 DEF RestartInv, AgainInv
    <3>3. ~AllWithout(out', Again(s)) => sh[s].status \in {"Success", "Failed"}
      BY <2>4, <2>5, <3>1
    <3>4. ~AllWithout(out', Exits(s)) => sh[s].pid # None
      BY <2>4, <2>5, <3>1
    <3>5. ASSUME ~HasFinished(sh[s]),
                 ~(Without(course', Again(s)) /\ AllWithout(out', Again(s)))
          PROVE  /\ sh[s].status \in {"Initial", "Success", "Failed"}
                 /\ sh[s].pid = None /\ Answered(s)
                 /\ Without(course', Kills(s)) /\ AllWithout(out', Kills(s))
      <4>1. /\ sh[s].status \in {"Initial", "Success", "Failed"}
            /\ sh[s].pid = None /\ Answered(s) /\ Nowhere(Kills(s)) /\ ~Once(s)
        <5>1. CASE ~Nowhere(Again(s))
          BY <2>1, <3>5, <5>1 DEF RestartInv, AgainInv
        <5>2. CASE \E e \in N : e \in Again(s)
          <6>1. /\ ~Once(s) /\ lifecycle = "Running"
                /\ sh[s].status \in {"Success", "Failed"}
            BY <2>4, <5>2
          <6> QED BY <2>1, <6>1
                  DEF RestartInv, CalmInv, ServiceInv, TokenInv
        <5> QED BY <2>5, <3>5, <5>1, <5>2
      <4>2. \A e \in N : e \notin Kills(s)
        BY <2>4, <4>1 DEF MayKill
      <4> QED BY <2>5, <4>1, <4>2
    <3> QED
      BY <1>5, <2>1, <2>2, <2>3, <2>6, <3>2, <3>3, <3>4, <3>5
      DEF RestartInv, AgainInv, HasFinished, Nowhere, Once
  <2>9. CalmInv(s)'
    <3>1. ASSUME ~Once(s), ~(Without(course', Kills(s)) /\ AllWithout(out', Kills(s)))
          PROVE  lifecycle # "Running" /\ sh[s].status # "Initial"
      <4>1. ~Nowhere(Kills(s)) \/ \E e \in N : e \in Kills(s)
        BY <2>5, <3>1
      <4> QED BY <2>1, <2>4, <3>1, <4>1 DEF RestartInv, CalmInv, MayKill
    <3> QED BY <1>5, <2>1, <2>2, <2>3, <3>1 DEF RestartInv, CalmInv, Nowhere, Once
  <2> QED BY <2>7, <2>8, <2>9 DEF RestartInv
<1> QED BY <1>8, <1>9, <1>10 DEF ServicesInv

-----------------------------------------------------------------------------
(* The handlers of the supervisor                                          *)

(* What every handler does to the queues.                                  *)
LEMMA Handled ==
  ASSUME InstanceInv, TypeOK', phase = "handling", batch # <<>>,
         NEW evs \in Seq(Event), Done(evs),
         \A i \in DOMAIN evs : evs[i] \notin Unsent
  PROVE  /\ GlobalInv'
         /\ OnlyAdds({evs[i] : i \in DOMAIN evs})
         /\ SupervisorIsUp /\ SupervisorIsUp'
         /\ "supervisor" \in joined' /\ phase' = "handling"
         /\ \A S : Head(batch) \notin S =>
              (Without(course', S) => Without(course, S))
         /\ \A S : Head(batch) \in S => ~Without(course, S)
         /\ \A S : Head(batch) \in S /\ AtMostOneOf(course, S) =>
              Without(course', S)
<1>1. TypeOK /\ SupervisorIsUp /\ "supervisor" \in joined /\ GlobalInv
  BY DEF InstanceInv, GlobalInv, SupervisorIsUp
<1>2. /\ OnlyAdds({evs[i] : i \in DOMAIN evs})
      /\ \A S : Head(batch) \notin S =>
           (Without(course', S) => Without(course, S))
      /\ \A S : Head(batch) \in S /\ AtMostOneOf(course, S) =>
           Without(course', S)
  BY <1>1, EventHandled
<1>3. /\ phase' = "handling" /\ "supervisor" \in joined' /\ SupervisorIsUp'
  BY <1>1 DEF Done, busVars, SupervisorIsUp
<1>4. GlobalInv'
  BY <1>1, <1>2, <1>3, GlobalKept
<1>5. ASSUME NEW S, Head(batch) \in S
      PROVE  ~Without(course, S)
  <2>1. /\ batch \in Seq(Event) /\ pipe \in Seq(Event)
        /\ inbox["supervisor"] \in Seq(Event)
    BY <1>1, QueueTypes
  <2>2. ~Without(batch, S)
    BY <1>5, <2>1, HeadAndTail
  <2> QED BY <2>1, <2>2, ThreeJoined DEF course, WithoutAll
<1> QED BY <1>1, <1>2, <1>3, <1>4, <1>5

(* An event of the service x leaves the other services alone.              *)
LEMMA OthersKept ==
  ASSUME InstanceInv, TypeOK', phase = "handling", batch # <<>>,
         NEW evs \in Seq(Event), Done(evs),
         NEW x, Head(batch).svc = x,
         \A i \in DOMAIN evs :
           evs[i] \notin Unsent /\ (Harmless(evs[i]) \/ evs[i].svc = x),
         NoBirths,
         lifecycle' = "Running" => lifecycle = "Running",
         \A s \in Services \ {x} :
           /\ StillToFork(s)' = StillToFork(s)
           /\ spawners'[s].forked = spawners[s].forked
           /\ sh'[s] = sh[s]
           /\ \A p \in Pids : pid_map'[p] = s => pid_map[p] = s
  PROVE  \A s \in Services \ {x} : ServiceInv(s)' /\ RestartInv(s)'
<1> SUFFICES ASSUME NEW s \in Services, s # x
             PROVE  ServiceInv(s)' /\ RestartInv(s)'
  OBVIOUS
<1> DEFINE N == {evs[i] : i \in DOMAIN evs}
<1>1. \A e \in N : /\ e \notin Replies(s) /\ e \notin Late(s)
                   /\ e \notin Exits(s) /\ e \notin Failures(s)
                   /\ e \notin Starts(s) /\ e \notin Again(s)
                   /\ e \notin Kills(s)
  BY Sorts, HarmlessSorts
<1>2. Head(batch) \notin Replies(s)
  BY Sorts
<1>3. /\ OnlyAdds(N) /\ SupervisorIsUp /\ phase' = phase
      /\ Without(course', Replies(s)) => Without(course, Replies(s))
  BY <1>2, Handled
<1>4. ServiceInv(s) /\ RestartInv(s) /\ TypeOK
  BY DEF InstanceInv, GlobalInv
<1>5. \A p \in Alive(s)' :
        p \in Alive(s) /\ (proc[p].sig = "kill" => proc'[p].sig = "kill")
  BY DEF NoBirths
<1> HIDE DEF N
<1>6. KeepsOrder({}) /\ Timely({}, s)
  BY <1>4, EventHandledOrder DEF Timely
<1>7. Answered(s)' <=> Answered(s)
  <2>1. Without(course, Replies(s)) => Without(course', Replies(s))
    BY <1>1, <1>3, <1>4 DEF OnlyAdds, ServiceInv, TokenInv
  <2> QED BY <1>3, <2>1 DEF Answered
<1>8. ServiceInv(s)'
  BY <1>1, <1>3, <1>4, <1>5, ServiceUntouched
<1> QED BY <1>1, <1>3, <1>4, <1>6, <1>7, <1>8, RestartUntouched

(* What holds between one start of x and the next, given what the handler  *)
(* of an event of x does to its status and its pid.                        *)
LEMMA RestartKept ==
  ASSUME InstanceInv, TypeOK', phase = "handling", batch # <<>>,
         NEW evs \in Seq(Event), Done(evs), NEW x \in Services,
         \A i \in DOMAIN evs :
           /\ evs[i] \notin Unsent /\ evs[i] \notin Starts(x)
           /\ evs[i] \notin Again(x) /\ evs[i] \notin Exits(x)
           /\ evs[i] \notin Kills(x),
         lifecycle' = "Running" => lifecycle = "Running",
         \/ HasFailed(x)'
         \/ /\ AllWithout(out, Failures(x))
            /\ \A i \in DOMAIN evs : evs[i] \notin Failures(x),
         sh'[x].status = "Failed" =>
           \/ Nowhere(Again(x))
           \/ /\ sh[x].status = "Failed"
              /\ \A i \in DOMAIN evs : evs[i] \notin Failures(x),
         HasFinished(sh[x]) => HasFinished(sh'[x]),
         Answered(x)' =>
           \/ Without(course', Starts(x))
           \/ sh'[x].status \notin Live \cup {"Failed", "Success"}
           \/ sh'[x].status = "Success" /\ Once(x),
         ~Nowhere(Again(x))' =>
           \/ HasFinished(sh'[x])
           \/ /\ sh'[x].status \in {"Initial", "Success", "Failed"}
              /\ sh'[x].pid = None /\ Answered(x)',
         ~Once(x) =>
           /\ sh'[x].status = "InKilling" => lifecycle # "Running"
           /\ sh'[x].status = "Initial" => Nowhere(Kills(x))
           /\ lifecycle' = "Running" /\ sh'[x].status \in {"Success", "Failed"} =>
                sh'[x].pid = None
  PROVE  RestartInv(x)'
<1>1. /\ Starts(x)' = Starts(x) /\ Failures(x)' = Failures(x)
      /\ Again(x)' = Again(x) /\ Exits(x)' = Exits(x) /\ Kills(x)' = Kills(x)
      /\ Replies(x)' = Replies(x)
  BY DEF Starts, Failures, Again, Exits, Kills, Replies, Run, StatusUpdate,
         ServiceExited, Kill, ForceKill
<1>2. RestartInv(x) /\ TypeOK
  BY DEF InstanceInv, GlobalInv
<1>3. /\ OnlyAdds({evs[i] : i \in DOMAIN evs}) /\ phase' = "handling"
      /\ KeepsOrder({})
  BY <1>2, Handled, EventHandledOrder
<1>4. ASSUME NEW S, \A i \in DOMAIN evs : evs[i] \notin S
      PROVE  /\ AllWithout(out, S) => AllWithout(out', S)
             /\ Nowhere(S) => Without(course', S) /\ AllWithout(out', S)
  <2>1. \A e \in {evs[i] : i \in DOMAIN evs} : e \notin S
    BY <1>4
  <2> QED BY <1>3, <2>1 DEF OnlyAdds, Nowhere
<1>5. \A S, T : NoneBehind(course, S, T) => NoneBehind(course', S, T)
  BY <1>3 DEF KeepsOrder
<1>6. Nowhere(Again(x)) => Without(course', Again(x)) /\ AllWithout(out', Again(x))
  BY <1>4
<1>7. RunInv(x)'
  <2>1. AllWithout(out', Starts(x))
    BY <1>2, <1>4 DEF RestartInv, RunInv
  <2>2. ~AllWithout(out', Failures(x)) =>
          /\ HasFailed(x)'
          /\ sh'[x].status = "Failed" =>
               Without(course', Again(x)) /\ AllWithout(out', Again(x))
    <3>1. (\A i \in DOMAIN evs : evs[i] \notin Failures(x)) =>
            (AllWithout(out, Failures(x)) => AllWithout(out', Failures(x)))
      BY <1>4
    <3> QED BY <1>2, <1>6, <3>1 DEF RestartInv, RunInv
  <2>3. /\ NoneBehind(course', Replies(x), Starts(x))
        /\ ~HasFinished(sh'[x]) => NoneBehind(course', Starts(x), Failures(x))
    BY <1>2, <1>5 DEF RestartInv, RunInv
  <2> QED BY <1>1, <1>3, <2>1, <2>2, <2>3 DEF RunInv, Nowhere, Live, Once
<1>8. AgainInv(x)'
  <2>1. AllWithout(out', Again(x)) /\ AllWithout(out', Exits(x))
    BY <1>2, <1>4 DEF RestartInv, AgainInv
  <2>2. Once(x) => Without(course', Again(x))
    BY <1>2, <1>6 DEF RestartInv, AgainInv
  <2>3. ~HasFinished(sh'[x]) =>
          /\ NoneBehind(course', Starts(x), Again(x))
          /\ NoneBehind(course', Again(x), Exits(x))
    BY <1>2, <1>5 DEF RestartInv, AgainInv
  <2>4. ~HasFinished(sh'[x]) /\ ~Without(course', Again(x)) =>
          Without(course', Kills(x)) /\ AllWithout(out', Kills(x))
    BY <1>2, <1>4, <1>6 DEF RestartInv, AgainInv
  <2> QED BY <1>1, <2>1, <2>2, <2>3, <2>4 DEF AgainInv, Nowhere, Once
<1>9. CalmInv(x)'
  <2>1. Nowhere(Kills(x)) => Without(course', Kills(x)) /\ AllWithout(out', Kills(x))
    BY <1>4
  <2> QED BY <1>1, <1>2, <2>1 DEF RestartInv, CalmInv, Nowhere, Once
<1> QED BY <1>7, <1>8, <1>9 DEF RestartInv

(* The answer of the spawner thread of x is taken: the token is gone.      *)
LEMMA TokenTaken ==
  ASSUME InstanceInv, TypeOK', phase = "handling", batch # <<>>,
         NEW evs \in Seq(Event), Done(evs), NEW x \in Services,
         Head(batch) \in Replies(x),
         \A i \in DOMAIN evs :
           /\ evs[i] \notin Unsent /\ evs[i] \notin Replies(x)
           /\ evs[i] \notin Exits(x)
           /\ sh'[x].status \in Live => evs[i] \notin Failures(x),
         StillToFork(x)' = StillToFork(x),
         spawners'[x].forked = spawners[x].forked,
         sh'[x].status \in {"Started", "InKilling", "Failed"},
         Alive(x)' \subseteq {sh'[x].pid},
         \A p \in Pids : pid_map'[p] = x => sh'[x].pid = p,
         sh'[x].status = "Failed" => Alive(x)' = {}
  PROVE  ServiceInv(x)'
<1> DEFINE N == {evs[i] : i \in DOMAIN evs}
<1>1. ServiceInv(x) /\ TypeOK
  BY DEF InstanceInv, GlobalInv
<1>2. /\ OnlyAdds(N)
      /\ ~Without(course, Replies(x)) /\ Without(course', Replies(x))
  <2>1. AtMostOneOf(course, Replies(x))
    BY <1>1 DEF ServiceInv, TokenInv, OneToken
  <2> QED BY <2>1, Handled
<1>3. StillToFork(x) = 0 /\ spawners[x].forked = {}
  <2>1. spawners[x].fresh \in Nat /\ spawners[x].told \in Nat
    BY <1>1 DEF TypeOK, SupervisorTypeOK, Spawners
  <2> QED BY <1>1, <1>2, <2>1 DEF ServiceInv, TokenInv, OneToken, StillToFork
<1>4. Nowhere(Late(x)) /\ AllWithout(out, Replies(x))
  BY <1>1, <1>2 DEF ServiceInv, TokenInv, Awaited, Answered
<1>5. Nowhere(Exits(x)) /\ Nowhere(Failures(x))
  <2>1. ~Answered(x)
    BY <1>2 DEF Answered
  <2>2. sh[x].status \in Live
    BY <1>1, <2>1 DEF ServiceInv, TokenInv, Live
  <2> QED
    BY <1>1, <1>4, <2>2
    DEF ServiceInv, EndInv, Nowhere, AllWithout, Without, Late
<1> HIDE DEF N
<1>6. AllWithout(out', Replies(x))
  BY <1>2, <1>4 DEF OnlyAdds, N
<1>7. Nowhere(Exits(x))'
  BY <1>2, <1>5 DEF OnlyAdds, Nowhere, N, Exits, ServiceExited
<1>8. sh'[x].status \in Live => Nowhere(Failures(x))'
  BY <1>2, <1>5 DEF OnlyAdds, Nowhere, N, Failures, StatusUpdate
<1>9. AtMostOneOf(course', Replies(x)) /\ Without(course', Misreports(x)')
  BY <1>2 DEF AtMostOneOf, Without, Misreports
<1>10. Answered(x)' /\ ~Awaited(x)'
  BY <1>2, <1>3 DEF Answered, Awaited
<1>11. TokenInv(x)'
  BY <1>2, <1>3, <1>6, <1>9, <1>10 DEF TokenInv, OneToken
<1>12. ProcessInv(x)'
  BY <1>3, <1>9 DEF ProcessInv
<1>13. EndInv(x)'
  BY <1>7, <1>8 DEF EndInv, Over
<1> QED BY <1>11, <1>12, <1>13 DEF ServiceInv

(* Handlers that change neither a status nor a pid.                        *)
LEMMA StepPlain ==
  ASSUME InstanceInv, TypeOK',
         \/ HandleKill \/ HandleHealthCheck \/ HandleShuttingDownInitiated
         \/ HandleIgnored
  PROVE  ServicesInv'
<1>1. /\ phase = "handling" /\ batch # <<>> /\ Done(<<>>)
      /\ Head(batch).kind \notin {"PidChanged", "SpawnFailed"}
      /\ UNCHANGED <<pid_map, spawners>>
  BY DEF HandleKill, HandleHealthCheck, HandleShuttingDownInitiated,
         HandleIgnored, Handling, repoVars
<1>2. TypeOK
  BY DEF InstanceInv, GlobalInv
<1> DEFINE none == <<>>
<1>e. none \in Seq(Event) /\ DOMAIN none = {} /\ Done(none)
  BY <1>1
<1> HIDE DEF none
<1>3. OnlyAdds({})
  <2>1. {none[i] : i \in DOMAIN none} = {}
    BY <1>e
  <2> QED BY <1>1, <1>e, <2>1, Handled
<1>4. /\ SupervisorIsUp /\ "supervisor" \in joined' /\ phase' = "handling"
      /\ \A S : Head(batch) \notin S =>
           (Without(course', S) => Without(course, S))
  BY <1>1, <1>e, Handled
<1>5. \A s : Head(batch) \notin Replies(s)
  BY <1>1, Sorts
<1>6. NoTokenMoves
  BY <1>1 DEF NoTokenMoves, StillToFork
<1>7. NoBirths
  <2>1. UNCHANGED proc \/ \E p : proc' = Signalled(p, "term")
    BY DEF HandleKill, HandleHealthCheck, HandleShuttingDownInitiated,
           HandleIgnored
  <2>2. ASSUME NEW p, proc' = Signalled(p, "term")
        PROVE  NoBirths
    BY <1>2, <2>2, SignalledStays DEF NoBirths, Alive
  <2>3. CASE UNCHANGED proc
    BY <2>3 DEF NoBirths, Alive
  <2> QED BY <2>1, <2>2, <2>3
<1>8. \A s \in Services : /\ sh'[s].pid = sh[s].pid
                          /\ sh'[s].status = sh[s].status
  <2>1. sh \in [Services -> ServiceHandlerType]
    BY <1>2 DEF TypeOK, SupervisorTypeOK
  <2>2. CASE HandleKill
    BY <2>1, <2>2 DEF HandleKill, ServiceHandlerType
  <2>3. CASE HandleHealthCheck
    BY <2>1, <2>3 DEF HandleHealthCheck, AddHealthcheckEvent, ServiceHandlerType
  <2>4. CASE HandleShuttingDownInitiated \/ HandleIgnored
    BY <2>4 DEF HandleShuttingDownInitiated, HandleIgnored, repoVars
  <2> QED BY <2>2, <2>3, <2>4
<1>9. KeepsOrder({}) /\ \A s \in Services : Timely({}, s)
  BY <1>1, <1>2, EventHandledOrder DEF Timely
<1>10. lifecycle' = "Running" => lifecycle = "Running"
  <2>1. CASE HandleShuttingDownInitiated
    <3>1. /\ Head(batch) \in Event /\ lifecycle' = Head(batch).mode
          /\ Head(batch).kind = "ShuttingDownInitiated"
      BY <1>1, <1>2, <2>1, HeadUnderWay
      DEF HandleShuttingDownInitiated, Handling
    <3> QED BY <3>1, EventFields DEF ShuttingDown
  <2>2. CASE HandleKill \/ HandleHealthCheck \/ HandleIgnored
    BY <2>2 DEF HandleKill, HandleHealthCheck, HandleIgnored
  <2> QED BY <2>1, <2>2
<1> QED BY <1>1, <1>3, <1>4, <1>5, <1>6, <1>7, <1>8, <1>9, <1>10, AllUntouched

(* The list of one event.                                                  *)
LEMMA OneEvent ==
  ASSUME NEW e \in Event
  PROVE  /\ <<e>> \in Seq(Event)
         /\ DOMAIN <<e>> = {1} /\ <<e>>[1] = e
OBVIOUS

(* The SIGKILL reaches the only process of the service: its pid is known   *)
(* since otherwise nobody would have sent the event.                       *)
LEMMA StepForceKill ==
  ASSUME InstanceInv, TypeOK', HandleForceKill
  PROVE  ServicesInv'
<1>1. /\ TypeOK /\ phase = "handling" /\ batch # <<>>
      /\ Head(batch) \in Event /\ Head(batch).kind = "ForceKill"
  BY HeadOfBatch DEF InstanceInv, GlobalInv, HandleForceKill, Handling, TypeOK
<1>2. PICK x \in Services : Head(batch) = ForceKill(x) /\ x = Head(batch).svc
  BY <1>1 DEF Event, ForceKill
<1> DEFINE e == StatusChanged(x, "Failed")
           evs == <<e>>
<1>3. e \in Event /\ Harmless(e)
  BY <1>2, EventConstructors DEF Harmless, StatusChanged, Statuses
<1>4. /\ sh[x].status = "InKilling"
      /\ sh' = [sh EXCEPT ![x].status = "Failed"]
      /\ proc' = Signalled(sh[x].pid, "kill")
      /\ Done(evs)
      /\ UNCHANGED <<pid_map, spawners, lifecycle>>
  BY <1>2 DEF HandleForceKill
<1>5. sh \in [Services -> ServiceHandlerType]
  BY <1>1 DEF TypeOK, SupervisorTypeOK
<1>6. /\ sh'[x].status = "Failed" /\ sh'[x].pid = sh[x].pid
      /\ \A s \in Services \ {x} : sh'[s] = sh[s]
  BY <1>2, <1>4, <1>5 DEF ServiceHandlerType
<1>7. /\ evs \in Seq(Event) /\ DOMAIN evs = {1} /\ evs[1] = e
  BY <1>3, OneEvent
<1>8. /\ \A s : Alive(s)' = Alive(s)
      /\ \A q \in Pids : proc[q].sig = "kill" => proc'[q].sig = "kill"
      /\ \A s : sh[x].pid \in Alive(s) => proc'[sh[x].pid].sig = "kill"
  BY <1>1, <1>4, SignalledStays
<1> HIDE DEF e, evs
<1>9. \A i \in DOMAIN evs : Harmless(evs[i]) /\ evs[i] \notin Unsent
  BY <1>3, <1>7, HarmlessSorts
<1>10. /\ GlobalInv' /\ OnlyAdds({evs[i] : i \in DOMAIN evs}) /\ SupervisorIsUp
       /\ \A S : Head(batch) \notin S =>
            (Without(course', S) => Without(course, S))
       /\ \A S : Head(batch) \in S => ~Without(course, S)
  BY <1>1, <1>4, <1>7, <1>9, Handled
<1>11. NoBirths
  BY <1>8 DEF NoBirths, Alive
<1>12. \A s \in Services \ {x} : ServiceInv(s)' /\ RestartInv(s)'
  <2>1. \A s \in Services \ {x} :
          /\ StillToFork(s)' = StillToFork(s)
          /\ spawners'[s].forked = spawners[s].forked
          /\ sh'[s] = sh[s]
          /\ \A p \in Pids : pid_map'[p] = s => pid_map[p] = s
    BY <1>4, <1>6 DEF StillToFork
  <2> QED BY <1>1, <1>2, <1>4, <1>7, <1>9, <1>11, <2>1, OthersKept
<1>13. ServiceInv(x)'
  <2> DEFINE N == {evs[i] : i \in DOMAIN evs}
  <2>1. ServiceInv(x)
    BY <1>2 DEF InstanceInv
  <2>2. ~Awaited(x)
    <3>1. Head(batch) \in Late(x)
      BY <1>2 DEF Late
    <3>2. ~Nowhere(Late(x))
      BY <1>10, <3>1 DEF Nowhere
    <3> QED BY <2>1, <3>2 DEF ServiceInv, TokenInv
  <2>3. Alive(x) \subseteq {sh[x].pid}
    BY <1>10, <2>1, <2>2 DEF Awaited, ServiceInv, ProcessInv
  <2>4. \A p \in Alive(x)' : proc'[p].sig = "kill"
    BY <1>8, <2>3
  <2>5. \A n \in N : /\ n \notin Replies(x) /\ n \notin Late(x)
                     /\ n \notin Exits(x) /\ n \notin Failures(x)
    BY <1>9, HarmlessSorts
  <2>6. Head(batch) \notin Replies(x)
    BY <1>1, Sorts
  <2>7. /\ StillToFork(x)' = StillToFork(x)
        /\ spawners'[x].forked = spawners[x].forked
        /\ \A p \in Pids : pid_map'[p] = x => sh'[x].pid = p
    BY <1>4, <1>6, <2>1 DEF StillToFork, ServiceInv, TokenInv
  <2>8. sh'[x].status = "Failed" /\ Answered(x)
    BY <1>6, <2>2 DEF Awaited
  <2>9. OnlyAdds(N) /\ (Without(course', Replies(x)) => Without(course, Replies(x)))
    BY <1>10, <2>6
  <2>10. \A p \in Alive(x)' :
           p \in Alive(x) /\ (proc[p].sig = "kill" => proc'[p].sig = "kill")
    BY <1>8, <2>4
  <2> HIDE DEF N
  <2> QED
    BY <1>2, <1>6, <1>10, <2>1, <2>2, <2>4, <2>5, <2>7, <2>8, <2>9, <2>10,
       ServiceKept DEF Live
<1>14. RestartInv(x)'
  <2>1. ServiceInv(x) /\ RestartInv(x)
    BY <1>2 DEF InstanceInv
  <2>2. ~Awaited(x)
    <3>1. Head(batch) \in Late(x)
      BY <1>2 DEF Late
    <3>2. ~Nowhere(Late(x))
      BY <1>10, <3>1 DEF Nowhere
    <3> QED BY <2>1, <3>2 DEF ServiceInv, TokenInv
  <2>3. Nowhere(Again(x)) /\ Nowhere(Again(x))'
    <3>1. Nowhere(Again(x))
      BY <1>4, <2>1 DEF RestartInv, AgainInv, HasFinished, TerminalStatuses
    <3>2. \A n \in {evs[i] : i \in DOMAIN evs} : n \notin Again(x)
      BY <1>9, HarmlessSorts
    <3> QED BY <1>10, <3>1, <3>2 DEF OnlyAdds, Nowhere, Again, StatusUpdate
  <2>4. Without(course', Starts(x))
    <3>1. Without(course, Starts(x)) /\ AllWithout(out, Starts(x))
      BY <1>1, <1>4, <1>10, <2>1, <2>2 DEF RestartInv, RunInv, Awaited, Live
    <3>2. \A n \in {evs[i] : i \in DOMAIN evs} : n \notin Starts(x)
      BY <1>9, HarmlessSorts
    <3> QED BY <1>10, <3>1, <3>2 DEF OnlyAdds
  <2>5. HasFailed(x)' /\ ~HasFinished(sh[x])
    BY <1>4, <1>6 DEF HasFailed, HasFinished, TerminalStatuses
  <2>6. ~Once(x) => lifecycle # "Running"
    BY <1>4, <2>1 DEF RestartInv, CalmInv
  <2> QED BY <1>1, <1>4, <1>6, <1>7, <1>9, <2>3, <2>4, <2>5, <2>6,
             HarmlessSorts, RestartKept
<1> QED BY <1>2, <1>10, <1>12, <1>13, <1>14 DEF ServicesInv

(* A StatusUpdate is obeyed where the transition table allows it.  The one  *)
(* that makes the service ready again finds nothing of it left.            *)
LEMMA StepStatusUpdate ==
  ASSUME InstanceInv, TypeOK', HandleStatusUpdate
  PROVE  ServicesInv'
<1>1. /\ TypeOK /\ phase = "handling" /\ batch # <<>>
      /\ Head(batch) \in Event /\ Head(batch).kind = "StatusUpdate"
      /\ sh \in [Services -> ServiceHandlerType]
  BY HeadOfBatch
  DEF InstanceInv, GlobalInv, HandleStatusUpdate, Handling, TypeOK,
      SupervisorTypeOK
<1>2. PICK x \in Services, new \in Statuses :
        /\ Head(batch) = StatusUpdate(x, new)
        /\ x = Head(batch).svc /\ new = Head(batch).status
  BY <1>1 DEF Event, StatusUpdate
<1> DEFINE h == ChangeStatus(sh[x], new)
<1>3. /\ sh' = [sh EXCEPT ![x] = h]
      /\ Done(IF h.status = sh[x].status THEN <<>>
              ELSE <<StatusChanged(x, h.status)>>)
      /\ UNCHANGED <<pid_map, spawners, proc, lifecycle>>
  BY <1>2 DEF HandleStatusUpdate
<1>4. h \in ServiceHandlerType /\ h.pid = sh[x].pid
  <2>1. h \in ServiceHandlerType
    BY <1>1, <1>2, ChangeStatusType
  <2>2. h.pid = sh[x].pid
    BY <1>1, <1>2 DEF ChangeStatus, ServiceHandlerType
  <2> QED BY <2>1, <2>2
<1>5. /\ sh'[x] = h
      /\ \A s \in Services \ {x} : sh'[s] = sh[s]
  BY <1>1, <1>2, <1>3
<1>6. \/ h.status = sh[x].status
      \/ /\ sh[x].status \in ALLOWED_TRANSITIONS[new] /\ h.status = new
         /\ ~(sh[x].status = "Initial" /\ new = "InKilling")
      \/ /\ sh[x].status = "Initial" /\ new = "InKilling"
         /\ h.status = "Success"
  BY <1>1, <1>2 DEF ChangeStatus, IsAllowed, ServiceHandlerType
<1> HIDE DEF h
<1>7. PICK evs \in Seq(Event) :
        Done(evs) /\ \A i \in DOMAIN evs : Harmless(evs[i])
  <2> DEFINE e == StatusChanged(x, h.status)
  <2>1. e \in Event /\ Harmless(e)
    BY <1>2, <1>4, EventConstructors
    DEF Harmless, StatusChanged, ServiceHandlerType
  <2> HIDE DEF e
  <2>2. <<e>> \in Seq(Event) /\ \A i \in DOMAIN <<e>> : Harmless(<<e>>[i])
    BY <2>1, OneEvent
  <2>3. <<>> \in Seq(Event) /\ \A i \in DOMAIN <<>> : Harmless(<<>>[i])
    OBVIOUS
  <2>4. Done(<<>>) \/ Done(<<e>>)
    BY <1>3 DEF e
  <2> QED BY <2>2, <2>3, <2>4
<1>8. \A i \in DOMAIN evs : evs[i] \notin Unsent
  BY <1>7, HarmlessSorts
<1>9. /\ GlobalInv' /\ OnlyAdds({evs[i] : i \in DOMAIN evs}) /\ SupervisorIsUp
      /\ \A S : Head(batch) \notin S =>
           (Without(course', S) => Without(course, S))
      /\ \A S : Head(batch) \in S => ~Without(course, S)
  BY <1>1, <1>7, <1>8, Handled
<1>10. NoBirths /\ \A s : Alive(s)' = Alive(s)
  BY <1>3 DEF NoBirths, Alive
<1>11. \A s \in Services :
         /\ StillToFork(s)' = StillToFork(s)
         /\ spawners'[s].forked = spawners[s].forked
         /\ \A p \in Pids : pid_map'[p] = s => pid_map[p] = s
  BY <1>3 DEF StillToFork
<1>12. \A s \in Services \ {x} : ServiceInv(s)' /\ RestartInv(s)'
  BY <1>1, <1>2, <1>3, <1>5, <1>7, <1>8, <1>10, <1>11, OthersKept
<1>13. ServiceInv(x) /\ RestartInv(x) /\ Nowhere(Unsent)
  BY <1>2 DEF InstanceInv, GlobalInv
<1>14. \/ sh'[x].status = sh[x].status
       \/ sh'[x].status = "Running" /\ sh[x].status = "Started"
       \/ /\ sh'[x].status = "InKilling" /\ new = "InKilling"
          /\ sh[x].status \in {"Starting", "Started", "Running"}
       \/ /\ sh'[x].status = "Success" /\ sh[x].status = "Initial"
          /\ new = "InKilling"
       \/ sh'[x].status = "Finished" /\ sh[x].status \in {"Success", "Initial"}
       \/ sh'[x].status = "FinishedFailed" /\ sh[x].status = "Failed"
       \/ /\ sh'[x].status = "Initial" /\ new = "Initial"
          /\ sh[x].status \in {"Success", "Failed"}
  <2>1. new \notin {"Starting", "Started", "Success"}
    BY <1>2, <1>9, <1>13 DEF Nowhere, Unsent
  <2>2. new \in {"Failed", "FinishedFailed"} => sh[x].status \notin Live
    <3> SUFFICES ASSUME new \in {"Failed", "FinishedFailed"}
                 PROVE  sh[x].status \notin Live
      OBVIOUS
    <3>1. Head(batch) \in Failures(x)
      BY <1>2 DEF Failures
    <3> QED BY <1>9, <1>13, <3>1 DEF Nowhere, ServiceInv, EndInv
  <2> QED BY <1>2, <1>5, <1>6, <2>1, <2>2 DEF ALLOWED_TRANSITIONS, Statuses, Live
<1>15. new = "InKilling" => ~Nowhere(Kills(x))
  <2>1. new = "InKilling" => Head(batch) \in Kills(x)
    BY <1>2 DEF Kills
  <2> QED BY <1>9, <2>1 DEF Nowhere
<1>16. \A i \in DOMAIN evs :
         /\ evs[i] \notin Replies(x) /\ evs[i] \notin Late(x)
         /\ evs[i] \notin Exits(x) /\ evs[i] \notin Failures(x)
         /\ evs[i] \notin Starts(x) /\ evs[i] \notin Again(x)
         /\ evs[i] \notin Kills(x)
  BY <1>7, HarmlessSorts
<1>17. /\ Without(course', Replies(x)) => Without(course, Replies(x))
       /\ Answered(x)' => Answered(x)
       /\ Answered(x) => Answered(x)'
       /\ sh'[x].pid = sh[x].pid
  <2>1. Without(course', Replies(x)) => Without(course, Replies(x))
    BY <1>1, <1>9, Sorts
  <2>2. Without(course, Replies(x)) => Without(course', Replies(x))
    BY <1>9, <1>13, <1>16 DEF OnlyAdds, ServiceInv, TokenInv
  <2> QED BY <1>2, <1>4, <1>5, <1>11, <2>1, <2>2 DEF Answered
<1>18. /\ Nowhere(Again(x)) => Nowhere(Again(x))'
       /\ Without(course, Starts(x)) => Without(course', Starts(x))
  BY <1>1, <1>9, <1>13, <1>16
  DEF OnlyAdds, Nowhere, RestartInv, RunInv, Again, StatusUpdate
<1>19. ASSUME sh'[x].status = "Initial", new = "Initial",
              sh[x].status \in {"Success", "Failed"}
       PROVE  /\ ~Once(x) /\ Answered(x) /\ sh[x].pid = None
              /\ Nowhere(Kills(x)) /\ ~Nowhere(Again(x))
              /\ AllWithout(out, Failures(x))
              /\ Nowhere(Late(x))' /\ Alive(x) = {}
  <2>1. Head(batch) \in Again(x) /\ ~HasFinished(sh[x])
    BY <1>2, <1>19 DEF Again, HasFinished, TerminalStatuses
  <2>2. ~Nowhere(Again(x))
    BY <1>9, <2>1 DEF Nowhere
  <2>3. /\ ~Once(x) /\ Answered(x) /\ sh[x].pid = None /\ Nowhere(Kills(x))
        /\ NoneBehind(course, Again(x), Exits(x)) /\ AllWithout(out, Exits(x))
    BY <1>1, <1>13, <2>1, <2>2 DEF RestartInv, AgainInv
  <2>4. AllWithout(out, Failures(x))
    BY <1>1, <1>13, <1>19, <2>2 DEF RestartInv, RunInv, HasFailed
  <2>5. Without(course', Exits(x)) /\ AllWithout(out', Exits(x))
    BY <1>1, <1>7, <1>9, <1>16, <2>1, <2>3, EventHandledOrder DEF OnlyAdds
  <2>6. Without(course', Kills(x)) /\ AllWithout(out', Kills(x))
    BY <1>9, <1>16, <2>3 DEF OnlyAdds, Nowhere
  <2>7. Nowhere(Late(x))'
    <3>1. Without(course', Late(x)) /\ AllWithout(out', Late(x))
      BY <2>5, <2>6 DEF Late, Kills, AllWithout, Without
    <3> QED BY <3>1 DEF Nowhere, Late, Exits, ServiceExited, ForceKill
  <2>8. Alive(x) = {}
    BY <1>9, <1>13, <2>3, NoneAssumption DEF ServiceInv, ProcessInv, Alive
  <2> QED BY <2>2, <2>3, <2>4, <2>7, <2>8
<1>20. ServiceInv(x)'
  <2> DEFINE N == {evs[i] : i \in DOMAIN evs}
  <2>1. \A n \in N : /\ n \notin Replies(x) /\ n \notin Late(x)
                     /\ n \notin Exits(x) /\ n \notin Failures(x)
    BY <1>16
  <2>2. /\ ~Answered(x) => sh'[x].status \in {"Starting", "InKilling"}
        /\ Awaited(x) => sh'[x].pid = None
        /\ \A p \in Pids : pid_map'[p] = x => sh'[x].pid = p
    BY <1>2, <1>11, <1>13, <1>14, <1>17, <1>19 DEF ServiceInv, TokenInv
  <2>3. sh'[x].status \in Over => \A p \in Alive(x)' : proc'[p].sig = "kill"
    BY <1>3, <1>10, <1>13, <1>14 DEF ServiceInv, ProcessInv, EndInv, Over
  <2>4. sh'[x].status \in Live => sh[x].status \in Live
    BY <1>14 DEF Live
  <2>5. sh'[x].status = "Initial" =>
          \/ sh[x].status = "Initial"
          \/ /\ Answered(x) /\ sh'[x].pid = None
             /\ Nowhere(Late(x))' /\ Alive(x)' = {}
    BY <1>10, <1>14, <1>17, <1>19
  <2>6. \A p \in Alive(x)' :
          p \in Alive(x) /\ (proc[p].sig = "kill" => proc'[p].sig = "kill")
    BY <1>3, <1>10
  <2>7. OnlyAdds(N)
    BY <1>9
  <2> HIDE DEF N
  <2> QED
    BY <1>2, <1>9, <1>11, <1>13, <1>17, <2>1, <2>2, <2>3, <2>4, <2>5, <2>6,
       <2>7, ServiceKept
<1>21. RestartInv(x)'
  <2>1. \/ HasFailed(x)'
        \/ AllWithout(out, Failures(x))
    BY <1>13, <1>14, <1>19 DEF RestartInv, RunInv, HasFailed
  <2>2. sh'[x].status = "Failed" => sh[x].status = "Failed"
    BY <1>14
  <2>3. HasFinished(sh[x]) => HasFinished(sh'[x])
    BY <1>14 DEF HasFinished, TerminalStatuses
  <2>4. Answered(x)' =>
          \/ Without(course', Starts(x))
          \/ sh'[x].status \notin Live \cup {"Failed", "Success"}
          \/ sh'[x].status = "Success" /\ Once(x)
    <3>1. sh[x].status = "Initial" /\ new = "InKilling" => Once(x)
      BY <1>13, <1>15 DEF RestartInv, CalmInv
    <3> QED BY <1>9, <1>13, <1>14, <1>17, <1>18, <3>1
            DEF RestartInv, RunInv, Live
  <2>5. ~Nowhere(Again(x))' =>
          \/ HasFinished(sh'[x])
          \/ /\ sh'[x].status \in {"Initial", "Success", "Failed"}
             /\ sh'[x].pid = None /\ Answered(x)'
    <3> SUFFICES ASSUME ~Nowhere(Again(x))', ~HasFinished(sh'[x])
                 PROVE  /\ sh'[x].status \in {"Initial", "Success", "Failed"}
                        /\ sh'[x].pid = None /\ Answered(x)'
      OBVIOUS
    <3>1. ~Nowhere(Again(x)) /\ ~HasFinished(sh[x])
      BY <1>18, <2>3
    <3>2. /\ sh[x].status \in {"Initial", "Success", "Failed"}
          /\ sh[x].pid = None /\ Answered(x)
      BY <1>13, <3>1 DEF RestartInv, AgainInv
    <3>3. sh'[x].status \in {"Initial", "Success", "Failed"}
      BY <1>14, <3>2 DEF HasFinished, TerminalStatuses
    <3> QED BY <1>17, <3>2, <3>3
  <2>6. ~Once(x) =>
          /\ sh'[x].status = "InKilling" => lifecycle # "Running"
          /\ sh'[x].status = "Initial" => Nowhere(Kills(x))
          /\ lifecycle' = "Running" /\ sh'[x].status \in {"Success", "Failed"} =>
               sh'[x].pid = None
    BY <1>3, <1>13, <1>14, <1>15, <1>17, <1>19 DEF RestartInv, CalmInv
  <2>7. lifecycle' = lifecycle
    BY <1>3
  <2>8. /\ Nowhere(Again(x)) \/ sh'[x].status # "Failed"
           \/ /\ sh[x].status = "Failed"
              /\ \A i \in DOMAIN evs : evs[i] \notin Failures(x)
        /\ HasFailed(x)' \/ /\ AllWithout(out, Failures(x))
                            /\ \A i \in DOMAIN evs : evs[i] \notin Failures(x)
    BY <1>16, <2>1, <2>2
  <2> QED BY <1>1, <1>2, <1>7, <1>8, <1>16, <2>3, <2>4, <2>5, <2>6, <2>7,
             <2>8, RestartKept
<1> QED BY <1>9, <1>12, <1>20, <1>21 DEF ServicesInv

(* The exit of a process takes its pid off both maps.                      *)
LEMMA StepExited ==
  ASSUME InstanceInv, TypeOK', HandleServiceExited
  PROVE  ServicesInv'
<1>1. /\ TypeOK /\ phase = "handling" /\ batch # <<>>
      /\ Head(batch) \in Event /\ Head(batch).kind = "ServiceExited"
      /\ sh \in [Services -> ServiceHandlerType]
      /\ pid_map \in [Pids -> Services \cup {None}]
  BY HeadOfBatch
  DEF InstanceInv, GlobalInv, HandleServiceExited, Handling, TypeOK,
      SupervisorTypeOK
<1>2. PICK x \in Services, ok \in BOOLEAN :
        /\ Head(batch) = ServiceExited(x, ok)
        /\ x = Head(batch).svc /\ ok = Head(batch).ok
  BY <1>1 DEF Event, ServiceExited
<1> DEFINE h == ExitedHandler(x, ok)
           e == StatusChanged(x, h.status)
           evs == <<e>>
<1>3. /\ sh' = [sh EXCEPT ![x] = h]
      /\ pid_map' = [pid_map EXCEPT ![sh[x].pid] = None]
      /\ Done(evs)
      /\ UNCHANGED <<spawners, proc, lifecycle>>
  BY <1>2 DEF HandleServiceExited, RemovePid
<1>4. /\ sh'[x] = h
      /\ \A s \in Services \ {x} : sh'[s] = sh[s]
      /\ h \in ServiceHandlerType
  <2>1. sh' \in [Services -> ServiceHandlerType]
    BY DEF TypeOK, SupervisorTypeOK
  <2> HIDE DEF h
  <2> QED BY <1>1, <1>2, <1>3, <2>1
<1>5. /\ h.pid = None
      /\ \/ h.status = sh[x].status
         \/ /\ h.status \in {"Success", "Failed"}
            /\ sh[x].status \in {"Starting", "Started", "Running", "InKilling"}
  <2> DEFINE g == [sh[x] EXCEPT
                     !.shutting_down_start = "none",
                     !.pid = None,
                     !.restart_attempts =
                        IF HasSomeFailedHealthchecks(sh[x]) /\ IsEarlyState(sh[x])
                          THEN AtMost(@ + 1, Config[x].attempts + 1) ELSE @]
  <2>1. g.pid = None /\ g.status = sh[x].status
    BY <1>1, <1>2 DEF ServiceHandlerType
  <2>2. h = ChangeStatus(g, "Success") \/ h = ChangeStatus(g, "Failed")
    BY DEF ExitedHandler
  <2>3. "pid" \in DOMAIN g /\ "status" \in DOMAIN g
    BY <1>1, <1>2 DEF ServiceHandlerType
  <2> HIDE DEF g, h
  <2>4. \A new \in {"Success", "Failed"} :
          /\ ChangeStatus(g, new).pid = None
          /\ \/ ChangeStatus(g, new).status = g.status
             \/ /\ ChangeStatus(g, new).status = new
                /\ g.status \in {"Starting", "Started", "Running", "InKilling"}
    BY <2>1, <2>3 DEF ChangeStatus, IsAllowed, ALLOWED_TRANSITIONS
  <2> QED BY <2>1, <2>2, <2>4
<1>6. e \in Event /\ Harmless(e)
  <2> HIDE DEF h
  <2> QED BY <1>2, <1>4, EventConstructors
          DEF Harmless, StatusChanged, ServiceHandlerType
<1> HIDE DEF h, e
<1>7. evs \in Seq(Event) /\ DOMAIN evs = {1} /\ evs[1] = e
  BY <1>6, OneEvent
<1> HIDE DEF evs
<1>8. \A i \in DOMAIN evs : Harmless(evs[i]) /\ evs[i] \notin Unsent
  BY <1>6, <1>7, HarmlessSorts
<1>9. /\ GlobalInv' /\ OnlyAdds({evs[i] : i \in DOMAIN evs}) /\ SupervisorIsUp
      /\ \A S : Head(batch) \notin S =>
           (Without(course', S) => Without(course, S))
      /\ \A S : Head(batch) \in S => ~Without(course, S)
  BY <1>1, <1>3, <1>7, <1>8, Handled
<1>10. NoBirths /\ \A s : Alive(s)' = Alive(s)
  BY <1>3 DEF NoBirths, Alive
<1>11. \A s \in Services :
         /\ StillToFork(s)' = StillToFork(s)
         /\ spawners'[s].forked = spawners[s].forked
         /\ \A p \in Pids : pid_map'[p] = s =>
              pid_map[p] = s /\ p # sh[x].pid
  BY <1>1, <1>3, NoneAssumption DEF StillToFork
<1>12. \A s \in Services \ {x} : ServiceInv(s)' /\ RestartInv(s)'
  BY <1>1, <1>2, <1>3, <1>4, <1>7, <1>8, <1>10, <1>11, OthersKept
<1>13. ServiceInv(x) /\ RestartInv(x)
  BY <1>2 DEF InstanceInv
<1>14. Answered(x) /\ sh[x].status # "Initial" /\ Alive(x) = {}
  <2>1. Head(batch) \in Exits(x) /\ Head(batch) \in Late(x)
    BY <1>2 DEF Exits, Late
  <2>2. Alive(x) = {} /\ ~Awaited(x)
    BY <1>9, <1>13, <2>1 DEF Nowhere, ServiceInv, TokenInv, EndInv
  <2> QED BY <2>2 DEF Awaited
<1>15. \A i \in DOMAIN evs :
         /\ evs[i] \notin Replies(x) /\ evs[i] \notin Late(x)
         /\ evs[i] \notin Exits(x) /\ evs[i] \notin Failures(x)
         /\ evs[i] \notin Starts(x) /\ evs[i] \notin Again(x)
         /\ evs[i] \notin Kills(x)
  BY <1>8, HarmlessSorts
<1>16. /\ sh'[x].pid = None
       /\ \/ sh'[x].status = sh[x].status
          \/ /\ sh'[x].status \in {"Success", "Failed"}
             /\ sh[x].status \in Live
  BY <1>4, <1>5 DEF Live
<1>17. /\ Without(course', Replies(x)) => Without(course, Replies(x))
       /\ Answered(x)'
  <2>1. Without(course', Replies(x)) => Without(course, Replies(x))
    BY <1>1, <1>9, Sorts
  <2>2. Without(course, Replies(x)) => Without(course', Replies(x))
    BY <1>9, <1>13, <1>15 DEF OnlyAdds, ServiceInv, TokenInv
  <2> QED BY <1>2, <1>11, <1>14, <2>1, <2>2 DEF Answered
<1>18. ServiceInv(x)'
  <2> DEFINE N == {evs[i] : i \in DOMAIN evs}
  <2>1. \A n \in N : /\ n \notin Replies(x) /\ n \notin Late(x)
                     /\ n \notin Exits(x) /\ n \notin Failures(x)
    BY <1>15
  <2>2. \A p \in Pids : pid_map'[p] = x => sh'[x].pid = p
    BY <1>2, <1>11, <1>13 DEF ServiceInv, TokenInv
  <2>3. /\ sh'[x].status \in Live => sh[x].status \in Live
        /\ sh'[x].status # "Initial"
        /\ Alive(x)' = {}
    BY <1>10, <1>14, <1>16 DEF Live
  <2>4. OnlyAdds(N)
    BY <1>9
  <2> HIDE DEF N
  <2> QED
    BY <1>2, <1>9, <1>11, <1>13, <1>14, <1>16, <1>17, <2>1, <2>2, <2>3, <2>4,
       ServiceKept
<1>19. RestartInv(x)'
  <2>1. AllWithout(out, Failures(x)) \/ HasFailed(x)'
    BY <1>13, <1>16 DEF RestartInv, RunInv, HasFailed, Live
  <2>2. sh[x].status \in Live => Nowhere(Again(x)) /\ ~HasFinished(sh[x])
    BY <1>13 DEF RestartInv, AgainInv, HasFinished, TerminalStatuses, Live
  <2>3. HasFinished(sh[x]) => HasFinished(sh'[x])
    BY <1>16, <2>2 DEF HasFinished, TerminalStatuses
  <2>4. \/ Without(course', Starts(x))
        \/ sh'[x].status \notin Live \cup {"Failed", "Success"}
        \/ sh'[x].status = "Success" /\ Once(x)
    <3>1. Without(course, Starts(x)) => Without(course', Starts(x))
      BY <1>1, <1>9, <1>13, <1>15 DEF OnlyAdds, RestartInv, RunInv
    <3> QED BY <1>9, <1>13, <1>14, <1>16, <3>1 DEF RestartInv, RunInv
  <2>5. ~Nowhere(Again(x))' =>
          \/ HasFinished(sh'[x])
          \/ sh'[x].status \in {"Initial", "Success", "Failed"}
    <3> SUFFICES ASSUME ~Nowhere(Again(x))', ~HasFinished(sh'[x])
                 PROVE  sh'[x].status \in {"Initial", "Success", "Failed"}
      OBVIOUS
    <3>1. ~Nowhere(Again(x))
      BY <1>9, <1>15 DEF OnlyAdds, Nowhere, Again, StatusUpdate
    <3> QED BY <1>13, <1>16, <2>3, <3>1 DEF RestartInv, AgainInv
  <2>6. ~Once(x) =>
          /\ sh'[x].status = "InKilling" => lifecycle # "Running"
          /\ sh'[x].status # "Initial"
    BY <1>13, <1>14, <1>16 DEF RestartInv, CalmInv
  <2>7. \/ sh'[x].status # "Failed" \/ Nowhere(Again(x))
        \/ sh[x].status = "Failed"
    BY <1>16, <2>2
  <2> QED BY <1>1, <1>2, <1>3, <1>7, <1>8, <1>15, <1>16, <1>17, <2>1, <2>3,
             <2>4, <2>5, <2>6, <2>7, RestartKept
<1> QED BY <1>9, <1>12, <1>18, <1>19 DEF ServicesInv

(* The Run command makes a token, where there is none.                     *)
LEMMA StepRun ==
  ASSUME InstanceInv, TypeOK', HandleRun
  PROVE  ServicesInv'
<1>1. /\ TypeOK /\ phase = "handling" /\ batch # <<>>
      /\ Head(batch) \in Event /\ Head(batch).kind = "Run"
      /\ sh \in [Services -> ServiceHandlerType]
      /\ spawners \in [Services -> Spawners]
  BY HeadOfBatch
  DEF InstanceInv, GlobalInv, HandleRun, Handling, TypeOK, SupervisorTypeOK
<1>2. PICK x \in Services : Head(batch) = Run(x) /\ x = Head(batch).svc
  BY <1>1 DEF Event, Run
<1> DEFINE e == StatusChanged(x, "Starting")
           evs == <<e>>
<1>3. /\ sh[x].status = "Initial"
      /\ sh' = [sh EXCEPT ![x].status = "Starting"]
      /\ spawners' = [spawners EXCEPT ![x].fresh = @ + 1]
      /\ Done(evs)
      /\ UNCHANGED <<pid_map, proc, lifecycle>>
  BY <1>2 DEF HandleRun, MayRun
<1>4. /\ sh'[x].status = "Starting" /\ sh'[x].pid = sh[x].pid
      /\ \A s \in Services \ {x} : sh'[s] = sh[s]
  BY <1>1, <1>2, <1>3 DEF ServiceHandlerType
<1>5. /\ \A s \in Services \ {x} : spawners'[s] = spawners[s]
      /\ spawners'[x].fresh = spawners[x].fresh + 1
      /\ spawners'[x].told = spawners[x].told
      /\ spawners'[x].forked = spawners[x].forked
      /\ spawners[x].fresh \in Nat /\ spawners[x].told \in Nat
  BY <1>1, <1>2, <1>3 DEF Spawners
<1>6. e \in Event /\ Harmless(e)
  BY <1>2, EventConstructors DEF Harmless, StatusChanged, Statuses
<1> HIDE DEF e
<1>7. evs \in Seq(Event) /\ DOMAIN evs = {1} /\ evs[1] = e
  BY <1>6, OneEvent
<1> HIDE DEF evs
<1>8. \A i \in DOMAIN evs : Harmless(evs[i]) /\ evs[i] \notin Unsent
  BY <1>6, <1>7, HarmlessSorts
<1>9. GlobalInv' /\ OnlyAdds({evs[i] : i \in DOMAIN evs})
  BY <1>1, <1>3, <1>7, <1>8, Handled
<1>10. NoBirths /\ \A s : Alive(s)' = Alive(s)
  BY <1>3 DEF NoBirths, Alive
<1>11. \A s \in Services \ {x} : ServiceInv(s)' /\ RestartInv(s)'
  <2>1. \A s \in Services \ {x} :
          /\ StillToFork(s)' = StillToFork(s)
          /\ spawners'[s].forked = spawners[s].forked
    BY <1>5 DEF StillToFork
  <2> QED BY <1>1, <1>2, <1>3, <1>4, <1>7, <1>8, <1>10, <2>1, OthersKept
<1>12. ServiceInv(x) /\ RestartInv(x)
  BY <1>2 DEF InstanceInv
<1>13. /\ Answered(x) /\ sh[x].pid = None /\ Nowhere(Late(x))
       /\ Alive(x) = {} /\ AllWithout(out, Replies(x))
       /\ \A p \in Pids : pid_map[p] # x
  BY <1>3, <1>12, NoneAssumption
  DEF ServiceInv, TokenInv, ProcessInv, Awaited
<1>14. \A i \in DOMAIN evs :
         /\ evs[i] \notin Replies(x) /\ evs[i] \notin Late(x)
         /\ evs[i] \notin Exits(x) /\ evs[i] \notin Failures(x)
         /\ evs[i] \notin Starts(x) /\ evs[i] \notin Again(x)
         /\ evs[i] \notin Kills(x)
  BY <1>8, HarmlessSorts
<1>15. /\ Without(course', Replies(x)) /\ AllWithout(out', Replies(x))
       /\ Without(course', Late(x)) /\ AllWithout(out', Late(x))
  BY <1>9, <1>13, <1>14 DEF OnlyAdds, Nowhere, Answered
<1>16. StillToFork(x)' = 1 /\ spawners'[x].forked = {} /\ ~Answered(x)'
  BY <1>5, <1>13 DEF StillToFork, Answered
<1>17. AllWithout(out, Failures(x)) /\ AllWithout(out, Again(x))
  BY <1>1, <1>3, <1>12 DEF RestartInv, RunInv, AgainInv, HasFailed
<1>18. Nowhere(Failures(x))' /\ Nowhere(Again(x))'
  <2>1. Head(batch) \in Starts(x) /\ ~HasFinished(sh[x])
    BY <1>2, <1>3 DEF Starts, HasFinished, TerminalStatuses
  <2>2. /\ NoneBehind(course, Starts(x), Failures(x))
        /\ NoneBehind(course, Starts(x), Again(x))
    BY <1>12, <2>1 DEF RestartInv, RunInv, AgainInv
  <2>3. Without(course', Failures(x)) /\ Without(course', Again(x))
    BY <1>1, <1>3, <2>1, <2>2, EventHandledOrder
  <2>4. AllWithout(out', Failures(x)) /\ AllWithout(out', Again(x))
    BY <1>9, <1>14, <1>17 DEF OnlyAdds
  <2> QED BY <2>3, <2>4 DEF Nowhere, Failures, Again, StatusUpdate
<1>19. ServiceInv(x)'
  <2>1. AtMostOneOf(course', Replies(x)) /\ Without(course', Misreports(x)')
    BY <1>15 DEF AtMostOneOf, Without, Misreports
  <2>2. Nowhere(Late(x))'
    BY <1>15 DEF Nowhere, Late, Exits, ServiceExited, ForceKill
  <2>3. Nowhere(Exits(x))'
    BY <2>2 DEF Nowhere, AllWithout, Without, Late
  <2>4. TokenInv(x)'
    BY <1>3, <1>4, <1>13, <1>15, <1>16, <2>1, <2>2
    DEF TokenInv, OneToken
  <2>5. ProcessInv(x)'
    BY <1>10, <1>13, <1>16, <2>1 DEF ProcessInv
  <2>6. EndInv(x)'
    BY <1>4, <1>18, <2>3 DEF EndInv, Over
  <2> QED BY <2>4, <2>5, <2>6 DEF ServiceInv
<1>20. RestartInv(x)'
  <2>1. ~HasFinished(sh[x]) /\ lifecycle' = lifecycle
    BY <1>3 DEF HasFinished, TerminalStatuses
  <2> QED BY <1>1, <1>2, <1>3, <1>4, <1>7, <1>8, <1>14, <1>16, <1>17, <1>18,
             <2>1, RestartKept
<1> QED BY <1>9, <1>11, <1>19, <1>20 DEF ServicesInv

(* A service whose checks cannot be prepared ends before it has begun.     *)
LEMMA StepPrepareFails ==
  ASSUME InstanceInv, TypeOK', HandleRunPrepareFails
  PROVE  ServicesInv'
<1>1. /\ TypeOK /\ phase = "handling" /\ batch # <<>>
      /\ Head(batch) \in Event /\ Head(batch).kind = "Run"
      /\ sh \in [Services -> ServiceHandlerType]
  BY HeadOfBatch
  DEF InstanceInv, GlobalInv, HandleRunPrepareFails, Handling, TypeOK,
      SupervisorTypeOK
<1>2. PICK x \in Services : Head(batch) = Run(x) /\ x = Head(batch).svc
  BY <1>1 DEF Event, Run
<1> DEFINE e == StatusUpdate(x, "FinishedFailed")
           f == ShuttingDownInitiated("Gracefully")
           evs == <<e, f>>
<1>3. /\ sh[x].status = "Initial"
      /\ sh' = [sh EXCEPT ![x].status = "FinishedFailed"]
      /\ Done(evs)
      /\ lifecycle' = "Gracefully"
      /\ UNCHANGED <<pid_map, spawners, proc>>
  BY <1>2 DEF HandleRunPrepareFails, MayRun
<1>4. /\ sh'[x].status = "FinishedFailed" /\ sh'[x].pid = sh[x].pid
      /\ \A s \in Services \ {x} : sh'[s] = sh[s]
  BY <1>1, <1>2, <1>3 DEF ServiceHandlerType
<1>5. /\ e \in Event /\ f \in Event /\ Harmless(f)
      /\ e.kind = "StatusUpdate" /\ e.svc = x /\ e.status = "FinishedFailed"
      /\ e \notin Unsent
  <2>1. e \in Event /\ f \in Event /\ Harmless(f)
    BY <1>2, EventConstructors
    DEF Harmless, ShuttingDownInitiated, Statuses, ShuttingDown
  <2>2. e.kind = "StatusUpdate" /\ e.svc = x /\ e.status = "FinishedFailed"
    BY DEF StatusUpdate
  <2> QED BY <2>1, <2>2, Sorts
<1> HIDE DEF e, f
<1>6. evs \in Seq(Event) /\ DOMAIN evs = {1, 2} /\ evs[1] = e /\ evs[2] = f
  BY <1>5
<1> HIDE DEF evs
<1>7. \A i \in DOMAIN evs :
        /\ evs[i] \notin Unsent
        /\ Harmless(evs[i]) \/ evs[i].svc = x
        /\ evs[i] \notin Replies(x) /\ evs[i] \notin Exits(x)
        /\ evs[i] \notin Starts(x) /\ evs[i] \notin Again(x)
        /\ evs[i] \notin Kills(x)
  <2>1. /\ e \notin Replies(x) /\ e \notin Exits(x) /\ e \notin Starts(x)
        /\ e \notin Again(x) /\ e \notin Kills(x)
    BY <1>5, Sorts
  <2> QED BY <1>5, <1>6, <2>1, HarmlessSorts
<1>8. /\ GlobalInv' /\ OnlyAdds({evs[i] : i \in DOMAIN evs}) /\ SupervisorIsUp
      /\ \A S : Head(batch) \notin S =>
           (Without(course', S) => Without(course, S))
  BY <1>1, <1>3, <1>6, <1>7, Handled
<1>9. NoBirths /\ \A s : Alive(s)' = Alive(s)
  BY <1>3 DEF NoBirths, Alive
<1>10. \A s \in Services :
         /\ StillToFork(s)' = StillToFork(s)
         /\ spawners'[s].forked = spawners[s].forked
  BY <1>3 DEF StillToFork
<1>11. \A s \in Services \ {x} : ServiceInv(s)' /\ RestartInv(s)'
  BY <1>1, <1>2, <1>3, <1>4, <1>6, <1>7, <1>9, <1>10, OthersKept
<1>12. ServiceInv(x)'
  <2> DEFINE N == {evs[i] : i \in DOMAIN evs}
  <2>1. ServiceInv(x)
    BY <1>2 DEF InstanceInv
  <2>2. /\ Answered(x) /\ sh[x].pid = None /\ Alive(x) = {}
        /\ AllWithout(out, Replies(x))
        /\ \A p \in Pids : pid_map[p] # x
    BY <1>3, <2>1, NoneAssumption
    DEF ServiceInv, TokenInv, ProcessInv, Awaited
  <2>3. \A n \in N : n \notin Replies(x) /\ n \notin Exits(x)
    BY <1>7
  <2>4. Head(batch) \notin Replies(x)
    BY <1>1, Sorts
  <2>5. OnlyAdds(N) /\ (Without(course', Replies(x)) => Without(course, Replies(x)))
    BY <1>8, <2>4
  <2> HIDE DEF N
  <2>6. Answered(x)' /\ ~Awaited(x)'
    BY <1>4, <1>10, <1>2, <2>2, <2>3, <2>5 DEF OnlyAdds, Answered, Awaited
  <2>7. /\ sh'[x].status = "FinishedFailed" /\ Alive(x)' = {}
        /\ "FinishedFailed" \notin Live
    BY <1>4, <1>9, <2>2 DEF Live
  <2>8. \A p \in Pids : pid_map'[p] # x
    BY <1>3, <2>2
  <2> QED
    BY <1>2, <1>4, <1>8, <1>10, <2>1, <2>2, <2>3, <2>5, <2>6, <2>7, <2>8,
       ServiceKept
<1>13. RestartInv(x)'
  <2>1. HasFailed(x)' /\ HasFinished(sh'[x])
    BY <1>4 DEF HasFailed, HasFinished, TerminalStatuses
  <2>2. sh'[x].status \notin Live \cup {"Initial", "Success", "Failed"}
    BY <1>4 DEF Live
  <2> QED BY <1>1, <1>2, <1>3, <1>6, <1>7, <2>1, <2>2, RestartKept DEF Live
<1> QED BY <1>8, <1>11, <1>12, <1>13 DEF ServicesInv

(* When the spawner thread of x answers, the Run commands for it that were *)
(* sent too often are gone, and nobody has told it to be ready again.      *)
LEMMA ReplyHandled ==
  ASSUME InstanceInv, TypeOK', phase = "handling", batch # <<>>,
         NEW evs \in Seq(Event), Done(evs), NEW x \in Services,
         Head(batch) \in Replies(x),
         \A i \in DOMAIN evs :
           evs[i] \notin Unsent /\ evs[i] \notin Again(x)
  PROVE  /\ ~HasFinished(sh[x]) /\ sh[x].pid = None
         /\ AllWithout(out, Failures(x)) /\ Without(course', Starts(x))
         /\ Nowhere(Again(x)) /\ Nowhere(Again(x))'
<1>1. ServiceInv(x) /\ RestartInv(x) /\ TypeOK
  BY DEF InstanceInv, GlobalInv
<1>2. /\ OnlyAdds({evs[i] : i \in DOMAIN evs})
      /\ ~Without(course, Replies(x))
  BY Handled
<1>3. /\ ~Answered(x) /\ sh[x].pid = None
      /\ sh[x].status \in {"Starting", "InKilling"}
  BY <1>1, <1>2 DEF Answered, ServiceInv, TokenInv, Awaited
<1>4. ~HasFinished(sh[x]) /\ ~HasFailed(x)
  BY <1>3 DEF HasFinished, TerminalStatuses, HasFailed
<1>5. AllWithout(out, Failures(x)) /\ Nowhere(Again(x))
  BY <1>1, <1>3, <1>4 DEF RestartInv, RunInv, AgainInv
<1>6. Without(course', Starts(x))
  BY <1>1, EventHandledOrder DEF RestartInv, RunInv
<1>7. Nowhere(Again(x))'
  BY <1>2, <1>5 DEF OnlyAdds, Nowhere, Again, StatusUpdate
<1> QED BY <1>3, <1>4, <1>5, <1>6, <1>7

(* The fork has failed: there is nothing to be killed.                     *)
LEMMA StepSpawnFailed ==
  ASSUME InstanceInv, TypeOK', HandleSpawnFailed
  PROVE  ServicesInv'
<1>1. /\ TypeOK /\ phase = "handling" /\ batch # <<>>
      /\ Head(batch) \in Event /\ Head(batch).kind = "SpawnFailed"
      /\ sh \in [Services -> ServiceHandlerType]
  BY HeadOfBatch
  DEF InstanceInv, GlobalInv, HandleSpawnFailed, Handling, TypeOK,
      SupervisorTypeOK
<1>2. PICK x \in Services : Head(batch) = SpawnFailed(x) /\ x = Head(batch).svc
  BY <1>1 DEF Event, SpawnFailed
<1> DEFINE e == StatusUpdate(x, "Failed")
           evs == <<e>>
<1>3. /\ sh' = [sh EXCEPT ![x].status = "Failed"]
      /\ Done(evs)
      /\ UNCHANGED <<pid_map, spawners, proc, lifecycle>>
  BY <1>2 DEF HandleSpawnFailed
<1>4. /\ sh'[x].status = "Failed" /\ sh'[x].pid = sh[x].pid
      /\ \A s \in Services \ {x} : sh'[s] = sh[s]
  BY <1>1, <1>2, <1>3 DEF ServiceHandlerType
<1>5. /\ e \in Event /\ e \notin Unsent /\ e.svc = x
      /\ e \notin Replies(x) /\ e \notin Exits(x) /\ e \notin Starts(x)
      /\ e \notin Again(x) /\ e \notin Kills(x)
  <2>1. e \in Event
    BY <1>2, EventConstructors DEF Statuses
  <2>2. e.kind = "StatusUpdate" /\ e.svc = x /\ e.status = "Failed"
    BY DEF StatusUpdate
  <2> QED BY <2>1, <2>2, Sorts
<1> HIDE DEF e
<1>6. evs \in Seq(Event) /\ DOMAIN evs = {1} /\ evs[1] = e
  BY <1>5, OneEvent
<1> HIDE DEF evs
<1>7. \A i \in DOMAIN evs : /\ evs[i] \notin Unsent /\ evs[i].svc = x
                            /\ evs[i] \notin Replies(x)
                            /\ evs[i] \notin Exits(x)
                            /\ evs[i] \notin Starts(x)
                            /\ evs[i] \notin Again(x)
                            /\ evs[i] \notin Kills(x)
  BY <1>5, <1>6
<1>8. GlobalInv' /\ \A S : Head(batch) \in S => ~Without(course, S)
  BY <1>1, <1>3, <1>6, <1>7, Handled
<1>9. NoBirths /\ \A s : Alive(s)' = Alive(s)
  BY <1>3 DEF NoBirths, Alive
<1>10. \A s \in Services :
         /\ StillToFork(s)' = StillToFork(s)
         /\ spawners'[s].forked = spawners[s].forked
  BY <1>3 DEF StillToFork
<1>11. \A s \in Services \ {x} : ServiceInv(s)' /\ RestartInv(s)'
  BY <1>1, <1>2, <1>3, <1>4, <1>6, <1>7, <1>9, <1>10, OthersKept
<1>12. ServiceInv(x)'
  <2>1. ServiceInv(x)
    BY <1>2 DEF InstanceInv
  <2>2. Head(batch) \in Replies(x)
    BY <1>1, <1>2 DEF Replies
  <2>3. Alive(x) = {}
    <3>1. Head(batch) \notin Misreports(x)
      BY <1>8, <2>1 DEF ServiceInv, ProcessInv
    <3> QED BY <1>1, <2>2, <3>1 DEF Misreports, Reported
  <2>4. \A p \in Pids : pid_map[p] # x
    BY <1>8, <2>1, <2>2, NoneAssumption
    DEF ServiceInv, TokenInv, Awaited, Answered
  <2>5. /\ sh'[x].status = "Failed" /\ Alive(x)' = {}
        /\ "Failed" \notin Live
    BY <1>4, <1>9, <2>3 DEF Live
  <2> QED BY <1>1, <1>2, <1>3, <1>4, <1>6, <1>7, <1>10, <2>2, <2>4, <2>5,
             TokenTaken
<1>13. RestartInv(x)'
  <2>1. Head(batch) \in Replies(x)
    BY <1>1, <1>2 DEF Replies
  <2>2. /\ Nowhere(Again(x)) /\ Nowhere(Again(x))' /\ ~HasFinished(sh[x])
        /\ sh[x].pid = None /\ Without(course', Starts(x))
    BY <1>1, <1>2, <1>3, <1>6, <1>7, <2>1, ReplyHandled
  <2>3. HasFailed(x)' /\ lifecycle' = lifecycle
    BY <1>3, <1>4 DEF HasFailed
  <2> QED BY <1>1, <1>2, <1>3, <1>4, <1>6, <1>7, <2>2, <2>3, RestartKept
<1> QED BY <1>8, <1>11, <1>12, <1>13 DEF ServicesInv

(* The pid is known from now on; a kill that came before it is not lost.   *)
LEMMA StepPidChanged ==
  ASSUME InstanceInv, TypeOK', HandlePidChanged
  PROVE  ServicesInv'
<1>1. /\ TypeOK /\ phase = "handling" /\ batch # <<>>
      /\ Head(batch) \in Event /\ Head(batch).kind = "PidChanged"
      /\ sh \in [Services -> ServiceHandlerType]
      /\ pid_map \in [Pids -> Services \cup {None}]
  BY HeadOfBatch
  DEF InstanceInv, GlobalInv, HandlePidChanged, Handling, TypeOK,
      SupervisorTypeOK
<1>2. PICK x \in Services, p \in Pids :
        /\ Head(batch) = PidChanged(x, p)
        /\ x = Head(batch).svc /\ p = Head(batch).pid
  BY <1>1 DEF Event, PidChanged
<1> DEFINE e == StatusChanged(x, "Started")
<1>3. /\ pid_map' = [pid_map EXCEPT ![p] = x]
      /\ UNCHANGED <<spawners, lifecycle>>
      /\ \/ /\ sh[x].status = "InKilling"
            /\ sh' = [sh EXCEPT ![x].pid = p,
                                ![x].shutting_down_start = "armed"]
            /\ proc' = Signalled(p, "term")
            /\ Done(<<>>)
         \/ /\ sh[x].status # "InKilling"
            /\ sh' = [sh EXCEPT ![x].pid = p, ![x].status = "Started"]
            /\ Done(<<e>>)
            /\ UNCHANGED proc
  BY <1>2 DEF HandlePidChanged, AddPid
<1>4. /\ sh'[x].status \in {"Started", "InKilling"} /\ sh'[x].pid = p
      /\ sh'[x].status = "InKilling" => sh[x].status = "InKilling"
      /\ \A s \in Services \ {x} : sh'[s] = sh[s]
  BY <1>1, <1>2, <1>3 DEF ServiceHandlerType
<1>5. e \in Event /\ Harmless(e)
  BY <1>2, EventConstructors DEF Harmless, StatusChanged, Statuses
<1> HIDE DEF e
<1>6. PICK evs \in Seq(Event) :
        Done(evs) /\ \A i \in DOMAIN evs : Harmless(evs[i])
  <2>1. <<e>> \in Seq(Event) /\ \A i \in DOMAIN <<e>> : Harmless(<<e>>[i])
    BY <1>5, OneEvent
  <2>2. <<>> \in Seq(Event) /\ \A i \in DOMAIN <<>> : Harmless(<<>>[i])
    OBVIOUS
  <2> QED BY <1>3, <2>1, <2>2
<1>7. \A i \in DOMAIN evs : /\ evs[i] \notin Unsent
                            /\ evs[i] \notin Replies(x)
                            /\ evs[i] \notin Exits(x)
                            /\ evs[i] \notin Failures(x)
                            /\ evs[i] \notin Starts(x)
                            /\ evs[i] \notin Again(x)
                            /\ evs[i] \notin Kills(x)
  BY <1>6, HarmlessSorts
<1>8. GlobalInv' /\ \A S : Head(batch) \in S => ~Without(course, S)
  BY <1>1, <1>6, <1>7, Handled
<1>9. NoBirths /\ \A s : Alive(s)' = Alive(s)
  <2>1. CASE proc' = Signalled(p, "term")
    BY <1>1, <2>1, SignalledStays DEF NoBirths, Alive
  <2>2. CASE UNCHANGED proc
    BY <2>2 DEF NoBirths, Alive
  <2> QED BY <1>3, <2>1, <2>2
<1>10. \A s \in Services :
         /\ StillToFork(s)' = StillToFork(s)
         /\ spawners'[s].forked = spawners[s].forked
  BY <1>3 DEF StillToFork
<1>11. \A s \in Services \ {x} : ServiceInv(s)' /\ RestartInv(s)'
  <2>1. \A s \in Services \ {x}, q \in Pids : pid_map'[q] = s => pid_map[q] = s
    BY <1>1, <1>3
  <2> QED BY <1>1, <1>2, <1>3, <1>4, <1>6, <1>7, <1>9, <1>10, <2>1, OthersKept
<1>12. ServiceInv(x)'
  <2>1. ServiceInv(x)
    BY <1>2 DEF InstanceInv
  <2>2. Head(batch) \in Replies(x)
    BY <1>1, <1>2 DEF Replies
  <2>3. Alive(x) \subseteq {p}
    <3>1. Head(batch) \notin Misreports(x)
      BY <1>8, <2>1 DEF ServiceInv, ProcessInv
    <3> QED BY <1>1, <1>2, <2>2, <3>1 DEF Misreports, Reported
  <2>4. \A q \in Pids : pid_map[q] # x
    BY <1>8, <2>1, <2>2, NoneAssumption
    DEF ServiceInv, TokenInv, Awaited, Answered
  <2>5. \A q \in Pids : pid_map'[q] = x => sh'[x].pid = q
    BY <1>1, <1>3, <1>4, <2>4
  <2>6. Alive(x)' \subseteq {sh'[x].pid}
    BY <1>4, <1>9, <2>3
  <2> QED BY <1>1, <1>2, <1>4, <1>6, <1>7, <1>10, <2>2, <2>5, <2>6, TokenTaken
<1>13. RestartInv(x)'
  <2>1. Head(batch) \in Replies(x)
    BY <1>1, <1>2 DEF Replies
  <2>2. /\ Nowhere(Again(x)) /\ Nowhere(Again(x))' /\ ~HasFinished(sh[x])
        /\ AllWithout(out, Failures(x)) /\ Without(course', Starts(x))
    BY <1>1, <1>2, <1>6, <1>7, <2>1, ReplyHandled
  <2>3. lifecycle' = lifecycle
    BY <1>3
  <2>4. sh'[x].status \notin {"Initial", "Success", "Failed"}
    BY <1>4
  <2>5. ~Once(x) /\ sh'[x].status = "InKilling" => lifecycle # "Running"
    BY <1>2, <1>4 DEF InstanceInv, RestartInv, CalmInv
  <2> QED BY <1>1, <1>2, <1>6, <1>7, <2>2, <2>3, <2>4, <2>5, RestartKept
<1> QED BY <1>8, <1>11, <1>12, <1>13 DEF ServicesInv

-----------------------------------------------------------------------------
(* The other threads and the environment                                   *)

LEMMA StepDispatch ==
  ASSUME InstanceInv, TypeOK', Dispatch
  PROVE  ServicesInv'
<1>1. TypeOK /\ GlobalInv
  BY DEF InstanceInv, GlobalInv
<1>2. /\ OnlyAdds({})
      /\ \A S : /\ "supervisor" \in joined
                /\ \A ev \in S : ev.kind # "StatusChanged"
                => (Without(course', S) => Without(course, S))
  BY <1>1, EventDispatched
<1>3. /\ UNCHANGED <<sh, pid_map, proc, joined, batch, phase, lifecycle>>
  BY DEF Dispatch, Deliver, repoVars, threadVars
<1>4. \A s : \A ev \in Replies(s) : ev.kind # "StatusChanged"
  BY Sorts
<1>5. NoBirths
  BY <1>3 DEF NoBirths, Alive
<1>6. NoTokenMoves
  <2>1. spawners \in [Services -> Spawners]
    BY <1>1 DEF TypeOK, SupervisorTypeOK
  <2>2. CASE UNCHANGED spawners
    BY <2>2 DEF NoTokenMoves, StillToFork
  <2>3. CASE spawners' = [s \in Services |->
                            [spawners[s] EXCEPT !.fresh = 0,
                                                !.told = StillToFork(s)]]
    <3> SUFFICES ASSUME NEW s \in Services
                 PROVE  /\ StillToFork(s)' = StillToFork(s)
                        /\ spawners'[s].forked = spawners[s].forked
      BY DEF NoTokenMoves
    <3>1. spawners[s] \in Spawners
      BY <2>1
    <3>2. /\ spawners'[s].fresh = 0 /\ spawners'[s].told = StillToFork(s)
          /\ spawners'[s].forked = spawners[s].forked
      BY <2>3, <3>1 DEF Spawners
    <3>3. StillToFork(s) \in Nat
      BY <3>1 DEF Spawners, StillToFork
    <3>4. StillToFork(s)' = spawners'[s].fresh + spawners'[s].told
      BY DEF StillToFork
    <3> QED BY <3>2, <3>3, <3>4
  <2> QED BY <2>2, <2>3 DEF Dispatch, SpawnersHear
<1>7. SupervisorIsUp' =>
        /\ SupervisorIsUp /\ "supervisor" \in joined'
        /\ \A s \in Services :
             Without(course', Replies(s)) => Without(course, Replies(s))
  BY <1>1, <1>2, <1>3, <1>4 DEF SupervisorIsUp, GlobalInv
<1>8. phase' = "producing" => batch' = <<>>
  BY <1>1, <1>3 DEF GlobalInv
<1>9. KeepsOrder({}) /\ \A s \in Services : Timely({}, s)
  BY <1>1, EventDispatchedOrder DEF Timely
<1> QED BY <1>2, <1>3, <1>5, <1>6, <1>7, <1>8, <1>9, AllUntouched

(* A step of another thread that sends a health report at the most.        *)
LEMMA ReportSent ==
  ASSUME InstanceInv, TypeOK',
         UNCHANGED <<inbox["supervisor"], threadVars, pid_map>>,
         "supervisor" \in joined => "supervisor" \in joined',
         \/ UNCHANGED pipe
         \/ \E x \in Services, b \in BOOLEAN :
              pipe' = Append(pipe, HealthCheck(x, b)),
         NoBirths, NoTokenMoves,
         \A s \in Services : /\ sh'[s].pid = sh[s].pid
                             /\ sh'[s].status = sh[s].status
  PROVE  ServicesInv'
<1>1. TypeOK /\ GlobalInv
  BY DEF InstanceInv, GlobalInv
<1>2. /\ phase' = "producing" => batch' = <<>>
      /\ SupervisorIsUp' => SupervisorIsUp /\ "supervisor" \in joined'
      /\ UNCHANGED <<phase, lifecycle, batch, out>>
  BY <1>1 DEF GlobalInv, SupervisorIsUp, threadVars
<1>3. CASE UNCHANGED pipe
  <2>1. OnlyAdds({}) /\ \A S : Without(course', S) => Without(course, S)
    BY <1>2, <1>3, NothingSent
  <2>2. KeepsOrder({}) /\ \A s \in Services : Timely({}, s)
    BY <1>2, <1>3, NothingSentOrder DEF Timely
  <2> QED BY <1>2, <2>1, <2>2, AllUntouched
<1>4. ASSUME NEW x \in Services, NEW b \in BOOLEAN,
             pipe' = Append(pipe, HealthCheck(x, b))
      PROVE  ServicesInv'
  <2> DEFINE e == HealthCheck(x, b)
  <2>1. e \in Event /\ Harmless(e)
    BY EventConstructors DEF Harmless, HealthCheck
  <2> HIDE DEF e
  <2>2. pipe' = Append(pipe, e)
    BY <1>4 DEF e
  <2>3. OnlyAdds({e}) /\ \A S : Without(course', S) => Without(course, S)
    BY <1>1, <1>2, <2>1, <2>2, EventSent
  <2>4. \A f \in {e} : Harmless(f)
    BY <2>1
  <2>5. KeepsOrder({e}) /\ \A s \in Services : Timely({e}, s)
    BY <1>1, <1>2, <2>1, <2>2, <2>4, EventSentOrder, HarmlessTimely
  <2> QED BY <1>2, <2>3, <2>4, <2>5, AllUntouched
<1> QED BY <1>3, <1>4

LEMMA StepMonitor ==
  ASSUME InstanceInv, TypeOK', MonitorThread
  PROVE  ServicesInv'
<1>1. TypeOK
  BY DEF InstanceInv, GlobalInv
<1>2. /\ UNCHANGED <<sh, pid_map, threadVars, spawners, proc>>
      /\ UNCHANGED inbox["supervisor"]
      /\ "supervisor" \in joined => "supervisor" \in joined'
      /\ \/ UNCHANGED pipe
         \/ \E x \in Services, b \in BOOLEAN :
              pipe' = Append(pipe, HealthCheck(x, b))
  BY <1>1, MonitorSends
<1>3. NoBirths /\ NoTokenMoves
  BY <1>2 DEF NoBirths, NoTokenMoves, Alive, StillToFork
<1> QED BY <1>2, <1>3, ReportSent

(* The child that runs a command is no instance of the service.            *)
LEMMA StepWorker ==
  ASSUME InstanceInv, TypeOK', NEW x \in Services, WorkerThread(x)
  PROVE  ServicesInv'
<1>1. TypeOK
  BY DEF InstanceInv, GlobalInv
<1>2. /\ UNCHANGED <<sh, pid_map, threadVars, spawners, inbox, joined>>
      /\ \/ UNCHANGED pipe
         \/ \E b \in BOOLEAN : pipe' = Append(pipe, HealthCheck(x, b))
  BY <1>1, WorkerSends
<1>4. NoBirths
  <2>0. proc \in [Pids -> Process]
    BY <1>1 DEF TypeOK, ProcessesTypeOK
  <2>1. CASE UNCHANGED proc
    BY <2>1 DEF NoBirths, Alive
  <2>2. CASE CommandStarts(x)
    <3>1. PICK p \in FreePids :
            proc' = [proc EXCEPT ![p].state = "alive", ![p].owner = x,
                                 ![p].role = "check"]
      BY <2>2 DEF CommandStarts, Fork
    <3>2. \A q \in Pids : /\ q # p => proc'[q] = proc[q]
                          /\ q = p => proc'[q].role = "check"
      BY <2>0, <3>1 DEF FreePids, Process
    <3> QED BY <3>2 DEF NoBirths, Alive
  <2>3. CASE CommandEnds(x)
    <3>1. proc' = [proc EXCEPT ![command[x]] = Gone]
      BY <2>3 DEF CommandEnds
    <3>2. \A q \in Pids : proc'[q] = Gone \/ proc'[q] = proc[q]
      BY <2>0, <3>1
    <3>3. Gone.state # "alive"
      BY DEF Gone, Unborn
    <3> QED BY <3>2, <3>3 DEF NoBirths, Alive
  <2>4. UNCHANGED proc \/ CommandStarts(x) \/ CommandEnds(x)
    BY DEF WorkerThread, WorkerStep, WorkerReports, WorkerEnds,
           CommandCannotStart, WorkerWaits, CommandIsStolen, WorkerPanics
  <2> QED BY <2>1, <2>2, <2>3, <2>4
<1>5. NoTokenMoves
  BY <1>2 DEF NoTokenMoves, StillToFork
<1> QED BY <1>2, <1>4, <1>5, ReportSent

LEMMA StepEnvironment ==
  ASSUME InstanceInv, TypeOK', Environment
  PROVE  ServicesInv'
<1>1. TypeOK
  BY DEF InstanceInv, GlobalInv
<1>2. UNCHANGED <<busVars, pid_map, threadVars, spawners>>
  BY DEF Environment, HandleSigterm, ProcessExits, GraceExpires, repoVars
<1>3. UNCHANGED <<pipe, inbox, joined, threadVars, pid_map>>
  BY <1>2 DEF busVars
<1>4. NoBirths
  <2>0. proc \in [Pids -> Process]
    BY <1>1 DEF TypeOK, ProcessesTypeOK
  <2>1. CASE UNCHANGED proc
    BY <2>1 DEF NoBirths, Alive
  <2>2. ASSUME NEW p \in Pids, ProcessExits(p)
        PROVE  NoBirths
    <3>1. PICK ok : proc' = [proc EXCEPT ![p].state = "zombie", ![p].ok = ok]
      BY <2>2 DEF ProcessExits, Exit
    <3>2. \A q \in Pids : /\ q # p => proc'[q] = proc[q]
                          /\ q = p => proc'[q].state = "zombie"
      BY <2>0, <3>1 DEF Process
    <3> QED BY <3>2 DEF NoBirths, Alive
  <2> QED
    BY <2>1, <2>2 DEF Environment, HandleSigterm, GraceExpires
<1>5. NoTokenMoves
  BY <1>2 DEF NoTokenMoves, StillToFork
<1>6. \A s \in Services : /\ sh'[s].pid = sh[s].pid
                          /\ sh'[s].status = sh[s].status
  <2>1. sh \in [Services -> ServiceHandlerType]
    BY <1>1 DEF TypeOK, SupervisorTypeOK
  <2>2. UNCHANGED sh \/ \E x \in Services : GraceExpires(x)
    BY DEF Environment, HandleSigterm, ProcessExits, repoVars
  <2> QED BY <2>1, <2>2 DEF GraceExpires, ServiceHandlerType
<1> QED BY <1>3, <1>4, <1>5, <1>6, ReportSent

(* A spawner thread of x leaves the other services alone, and does not end *)
(* the start of x that it belongs to.                                      *)
LEMMA OtherSpawners ==
  ASSUME InstanceInv, TypeOK', NEW x, NEW N, OnlyAdds(N), KeepsOrder(N),
         N \subseteq Replies(x), ~Answered(x), ~Answered(x)',
         \A S : Without(course', S) => Without(course, S),
         UNCHANGED <<sh, pid_map, phase, lifecycle, batch, joined>>,
         \A s \in Services \ {x} :
           /\ StillToFork(s)' = StillToFork(s)
           /\ spawners'[s].forked = spawners[s].forked
           /\ Alive(s)' = Alive(s),
         \A p \in Pids : proc[p].sig = "kill" => proc'[p].sig = "kill"
  PROVE  /\ GlobalInv' /\ \A s \in Services \ {x} : ServiceInv(s)'
         /\ \A s \in Services : RestartInv(s)'
<1>1. /\ phase' = "producing" => batch' = <<>>
      /\ SupervisorIsUp' => SupervisorIsUp /\ "supervisor" \in joined'
  BY DEF InstanceInv, GlobalInv, SupervisorIsUp
<1>2. GlobalInv'
  <2>1. \A e \in N : e \notin Unsent
    BY Sorts
  <2> QED BY <1>1, <2>1, GlobalKept DEF InstanceInv
<1>3. ASSUME NEW s \in Services \ {x}
      PROVE  ServiceInv(s)'
  <2>1. \A e \in N : /\ e \notin Replies(s) /\ e \notin Late(s)
                     /\ e \notin Exits(s) /\ e \notin Failures(s)
    BY <1>3, Sorts
  <2>2. ServiceInv(s)
    BY DEF InstanceInv
  <2>3. \A p \in Alive(s)' :
          p \in Alive(s) /\ (proc[p].sig = "kill" => proc'[p].sig = "kill")
    BY DEF Alive
  <2> QED BY <1>1, <2>1, <2>2, <2>3, ServiceUntouched
<1>4. ASSUME NEW s \in Services
      PROVE  RestartInv(s)'
  <2>1. \A e \in N : /\ e \notin Starts(s) /\ e \notin Failures(s)
                     /\ e \notin Again(s) /\ e \notin Exits(s)
                     /\ e \notin Kills(s)
    BY Sorts
  <2>2. ServiceInv(s) /\ RestartInv(s)
    BY DEF InstanceInv
  <2>3. Answered(s)' <=> Answered(s)
    <3>1. CASE s # x
      <4>1. \A e \in N : e \notin Replies(s)
        BY <3>1, Sorts
      <4>2. Without(course', Replies(s)) <=> Without(course, Replies(s))
        BY <2>2, <4>1 DEF OnlyAdds, ServiceInv, TokenInv
      <4> QED BY <3>1, <4>2 DEF Answered
    <3> QED BY <3>1
  <2>4. Timely(N, s)
    BY <2>1 DEF Timely
  <2> QED BY <1>1, <2>1, <2>2, <2>3, <2>4, RestartUntouched
<1> QED BY <1>2, <1>3, <1>4

(* The spawner thread of x answers, and is gone.                           *)
LEMMA ReplySent ==
  ASSUME InstanceInv, TypeOK', NEW x \in Services, NEW e \in Replies(x),
         pipe' = Append(pipe, e), ~Answered(x), Without(course, Replies(x)),
         Alive(x) \subseteq Reported(e),
         UNCHANGED <<inbox, joined, sh, pid_map, threadVars, proc>>,
         StillToFork(x)' = 0, spawners'[x].forked = {},
         \A s \in Services \ {x} : spawners'[s] = spawners[s]
  PROVE  ServicesInv'
<1>1. TypeOK /\ ServiceInv(x) /\ e \in Event
  BY DEF InstanceInv, GlobalInv, Replies
<1>2. /\ OnlyAdds({e})
      /\ \A S : Without(course', S) => Without(course, S) /\ e \notin S
      /\ AtMostOneOf(course', Replies(x))
      /\ KeepsOrder({e})
  BY <1>1, EventSent, EventSentOrder DEF threadVars
<1>3. ~Answered(x)' /\ Awaited(x)
  BY <1>2 DEF Answered, Awaited
<1>4. /\ GlobalInv' /\ \A s \in Services \ {x} : ServiceInv(s)'
      /\ \A s \in Services : RestartInv(s)'
  <2>1. \A s \in Services \ {x} :
           /\ StillToFork(s)' = StillToFork(s)
           /\ spawners'[s].forked = spawners[s].forked
           /\ Alive(s)' = Alive(s)
    BY DEF StillToFork, Alive
  <2>2. {e} \subseteq Replies(x)
    OBVIOUS
  <2> QED BY <1>2, <1>3, <2>1, <2>2, OtherSpawners DEF threadVars
<1>5. Alive(x)' = Alive(x)
  BY DEF Alive
<1>6. TokenInv(x)'
  <2>1. e \notin Late(x)
    BY Sorts
  <2>2. sh[x].pid = None /\ Nowhere(Late(x))
    BY <1>1, <1>3 DEF ServiceInv, TokenInv
  <2>3. Nowhere(Late(x))'
    BY <1>2, <2>1, <2>2
    DEF OnlyAdds, Nowhere, Late, Exits, ServiceExited, ForceKill
  <2>4. OneToken(x)'
    BY <1>2 DEF OneToken
  <2>5. sh[x].status \in {"Starting", "InKilling"}
    BY <1>1 DEF ServiceInv, TokenInv
  <2>6. out' = out
    BY DEF threadVars
  <2> QED BY <1>1, <1>3, <2>2, <2>3, <2>4, <2>5, <2>6 DEF ServiceInv, TokenInv
<1>7. ProcessInv(x)'
  <2>1. e \notin Misreports(x)'
    BY <1>5 DEF Misreports
  <2>2. Without(course, Misreports(x)') /\ AllWithout(out, Misreports(x)')
    BY <1>1 DEF ServiceInv, TokenInv, AllWithout, Without, Misreports
  <2>3. Without(course', Misreports(x)')
    BY <1>2, <2>1, <2>2 DEF OnlyAdds
  <2>4. sh[x].status # "Initial" /\ \A p, q \in Alive(x) : p = q
    BY <1>1 DEF ServiceInv, TokenInv, ProcessInv
  <2> QED BY <1>3, <1>5, <2>3, <2>4 DEF ProcessInv
<1>8. EndInv(x)'
  <2>1. e \notin Exits(x) /\ e \notin Failures(x)
    BY Sorts
  <2>2. /\ Nowhere(Exits(x)) => Nowhere(Exits(x))'
        /\ Nowhere(Failures(x)) => Nowhere(Failures(x))'
    BY <1>2, <2>1
    DEF OnlyAdds, Nowhere, Exits, Failures, ServiceExited, StatusUpdate
  <2> QED BY <1>1, <1>5, <2>2 DEF ServiceInv, EndInv
<1> QED BY <1>4, <1>6, <1>7, <1>8 DEF ServicesInv, ServiceInv

(* What the only spawner thread of x has left to do.                       *)
LEMMA OnlySpawner ==
  ASSUME TypeOK, NEW x \in Services, ServiceInv(x), StillToFork(x) > 0
  PROVE  /\ StillToFork(x) = 1 /\ spawners[x].forked = {}
         /\ Without(course, Replies(x)) /\ Alive(x) = {} /\ ~Answered(x)
         /\ spawners[x].fresh + spawners[x].told = 1
         /\ spawners[x] \in Spawners /\ spawners \in [Services -> Spawners]
<1>1. spawners \in [Services -> Spawners] /\ spawners[x] \in Spawners
  BY DEF TypeOK, SupervisorTypeOK
<1>2. StillToFork(x) \in Nat /\ StillToFork(x) <= 1
  BY <1>1 DEF StillToFork, Spawners, ServiceInv, TokenInv, OneToken
<1>3. StillToFork(x) = 1
  BY <1>2
<1> QED
  BY <1>1, <1>3
  DEF ServiceInv, TokenInv, OneToken, ProcessInv, Answered, StillToFork

(* The fork: the only process of x.                                        *)
LEMMA StepForks ==
  ASSUME InstanceInv, TypeOK', NEW x \in Services, SpawnerForks(x)
  PROVE  ServicesInv'
<1>1. TypeOK /\ ServiceInv(x) /\ proc \in [Pids -> Process]
  BY DEF InstanceInv, GlobalInv, TypeOK, ProcessesTypeOK
<1>2. PICK p \in FreePids :
        /\ Fork(x, p, "service")
        /\ \/ /\ spawners[x].fresh > 0
              /\ spawners' = [spawners EXCEPT ![x].fresh = @ - 1,
                                              ![x].forked = @ \cup {p}]
           \/ /\ spawners[x].told > 0
              /\ spawners' = [spawners EXCEPT ![x].told = @ - 1,
                                              ![x].forked = @ \cup {p}]
  BY DEF SpawnerForks
<1>3. StillToFork(x) > 0
  <2>1. spawners[x].fresh \in Nat /\ spawners[x].told \in Nat
    BY <1>1 DEF TypeOK, SupervisorTypeOK, Spawners
  <2> QED BY <1>2, <2>1 DEF StillToFork
<1>4. /\ spawners[x].forked = {} /\ Without(course, Replies(x))
      /\ Alive(x) = {} /\ ~Answered(x)
      /\ spawners[x].fresh + spawners[x].told = 1
      /\ spawners[x] \in Spawners /\ spawners \in [Services -> Spawners]
  BY <1>1, <1>3, OnlySpawner
<1>5. /\ spawners'[x].fresh + spawners'[x].told = 0
      /\ spawners'[x].forked = {p}
      /\ \A s \in Services \ {x} : spawners'[s] = spawners[s]
  BY <1>2, <1>4 DEF Spawners
<1>6. UNCHANGED <<pipe, inbox, joined, sh, pid_map, phase, lifecycle, batch, out>>
  BY DEF SpawnerForks, busVars, repoVars, threadVars
<1>7. /\ OnlyAdds({}) /\ \A S : Without(course', S) => Without(course, S)
      /\ KeepsOrder({}) /\ ~Answered(x)'
  BY <1>5, <1>6, NothingSent, NothingSentOrder DEF Answered
<1>8. /\ p \in Pids /\ proc[p].sig = "none"
      /\ proc'[p].owner = x /\ proc'[p].state = "alive"
      /\ proc'[p].role = "service"
      /\ \A q \in Pids : q # p => proc'[q] = proc[q]
  BY <1>1, <1>2 DEF FreePids, Fork, Process
<1>9. Alive(x)' = {p} /\ \A s \in Services \ {x} : Alive(s)' = Alive(s)
  <2>1. proc[p].state = "free"
    BY <1>2 DEF FreePids
  <2> QED BY <1>4, <1>8, <2>1 DEF Alive
<1>10. StillToFork(x)' = 0 /\ UNCHANGED course
  BY <1>5, <1>6 DEF StillToFork, course
<1>11. /\ GlobalInv' /\ \A s \in Services \ {x} : ServiceInv(s)'
       /\ \A s \in Services : RestartInv(s)'
  <2>1. \A s \in Services \ {x} : StillToFork(s)' = StillToFork(s)
    BY <1>5 DEF StillToFork
  <2>2. \A q \in Pids : proc[q].sig = "kill" => proc'[q].sig = "kill"
    BY <1>8
  <2> QED BY <1>4, <1>5, <1>6, <1>7, <1>9, <2>1, <2>2, OtherSpawners
<1>12. /\ sh[x].status \in {"Starting", "InKilling"} /\ sh[x].pid = None
       /\ Nowhere(Late(x))
  BY <1>1, <1>4 DEF ServiceInv, TokenInv, Awaited
<1>13. TokenInv(x)'
  <2>1. OneToken(x)'
    BY <1>1, <1>4, <1>5, <1>10 DEF ServiceInv, TokenInv, OneToken
  <2>2. Nowhere(Late(x))'
    BY <1>6, <1>10, <1>12
    DEF Nowhere, Late, Exits, ServiceExited, ForceKill
  <2> QED BY <1>1, <1>6, <1>10, <1>12, <2>1, <2>2 DEF ServiceInv, TokenInv
<1>14. ProcessInv(x)'
  <2>1. Without(course', Misreports(x)')
    BY <1>4, <1>10 DEF Misreports, Without
  <2>2. ~Answered(x)'
    BY <1>5 DEF Answered
  <2> QED BY <1>5, <1>6, <1>9, <1>10, <1>12, <2>1, <2>2 DEF ProcessInv
<1>15. EndInv(x)'
  <2>1. Nowhere(Exits(x)) /\ Nowhere(Failures(x))
    BY <1>1, <1>12
    DEF Nowhere, AllWithout, Without, Late, ServiceInv, EndInv, Live
  <2> QED
    BY <1>6, <1>10, <1>12, <2>1
    DEF EndInv, Over, Nowhere, Exits, Failures, ServiceExited, StatusUpdate
<1> QED BY <1>11, <1>13, <1>14, <1>15 DEF ServicesInv, ServiceInv

LEMMA StepSpawner ==
  ASSUME InstanceInv, TypeOK', NEW x \in Services, SpawnerThread(x)
  PROVE  ServicesInv'
<1>1. TypeOK /\ ServiceInv(x) /\ spawners \in [Services -> Spawners]
  BY DEF InstanceInv, GlobalInv, TypeOK, SupervisorTypeOK
<1>2. CASE SpawnerReports(x)
  <2>1. PICK p \in spawners[x].forked :
          /\ spawners' = [spawners EXCEPT ![x].forked = @ \ {p}]
          /\ pipe' = Append(pipe, PidChanged(x, p))
    BY <1>2 DEF SpawnerReports
  <2>2. /\ \A q \in spawners[x].forked : q = p
        /\ Without(course, Replies(x)) /\ ~Answered(x)
        /\ ~(StillToFork(x) > 0) /\ Alive(x) \subseteq {p}
    BY <1>1 DEF ServiceInv, TokenInv, OneToken, ProcessInv, Answered
  <2>3. spawners[x] \in Spawners /\ p \in Pids
    BY <1>1 DEF Spawners
  <2>4. /\ spawners'[x].forked = {}
        /\ spawners'[x].fresh + spawners'[x].told = 0
        /\ \A s \in Services \ {x} : spawners'[s] = spawners[s]
    BY <1>1, <2>1, <2>2, <2>3 DEF Spawners, StillToFork
  <2>5. PidChanged(x, p) \in Replies(x) /\ Reported(PidChanged(x, p)) = {p}
    BY <2>3, EventConstructors DEF Replies, Reported, PidChanged
  <2>6. UNCHANGED <<inbox, joined, sh, pid_map, threadVars, proc>>
    BY <1>2 DEF SpawnerReports, repoVars
  <2>7. StillToFork(x)' = 0
    BY <2>4 DEF StillToFork
  <2> QED BY <2>1, <2>2, <2>4, <2>5, <2>6, <2>7, ReplySent
<1>3. CASE SpawnerFails(x) \/ SpawnerGivesUp(x)
  <2>1. /\ \/ /\ spawners[x].fresh > 0
              /\ spawners' = [spawners EXCEPT ![x].fresh = @ - 1]
           \/ /\ spawners[x].told > 0
              /\ spawners' = [spawners EXCEPT ![x].told = @ - 1]
        /\ pipe' = Append(pipe, SpawnFailed(x))
        /\ UNCHANGED <<inbox, joined, sh, pid_map, threadVars, proc>>
    BY <1>3 DEF SpawnerFails, SpawnerGivesUp, SpawnerEnds, repoVars
  <2>2. StillToFork(x) > 0
    <3>1. spawners[x].fresh \in Nat /\ spawners[x].told \in Nat
      BY <1>1 DEF Spawners
    <3> QED BY <2>1, <3>1 DEF StillToFork
  <2>3. /\ spawners[x].forked = {} /\ Without(course, Replies(x))
        /\ Alive(x) = {} /\ ~Answered(x)
        /\ spawners[x].fresh + spawners[x].told = 1
        /\ spawners[x] \in Spawners
    BY <1>1, <2>2, OnlySpawner
  <2>4. /\ spawners'[x].forked = {}
        /\ spawners'[x].fresh + spawners'[x].told = 0
        /\ \A s \in Services \ {x} : spawners'[s] = spawners[s]
    <3>1. CASE spawners' = [spawners EXCEPT ![x].fresh = @ - 1]
      BY <1>1, <2>3, <3>1 DEF Spawners
    <3>2. CASE spawners' = [spawners EXCEPT ![x].told = @ - 1]
      BY <1>1, <2>3, <3>2 DEF Spawners
    <3> QED BY <2>1, <3>1, <3>2
  <2>5. SpawnFailed(x) \in Replies(x)
    BY EventConstructors DEF Replies, SpawnFailed
  <2>6. StillToFork(x)' = 0
    BY <2>4 DEF StillToFork
  <2> QED BY <2>1, <2>3, <2>4, <2>5, <2>6, ReplySent
<1> QED BY <1>2, <1>3, StepForks DEF SpawnerThread, SpawnerStep

-----------------------------------------------------------------------------
(* Health                                                                  *)

(* Only a service with checks gets a worker, or the child of a check.      *)
LEMMA WorkersHaveChecks ==
  ASSUME TypeOK, Next, NEW s \in Services, Config[s].checks = {},
         worker[s] = "none", command[s] = None
  PROVE  worker'[s] = "none" /\ command'[s] = None
<1>1. /\ worker \in [Services ->
                       {"none", "running", "stopping", "panicked"}]
      /\ command \in [Services -> Pids \cup {None}]
  BY DEF TypeOK, HealthcheckTypeOK
<1>2. CASE UNCHANGED healthVars
  BY <1>2 DEF healthVars
<1>3. CASE MonitorThread
  <2>1. CASE StartWorker
    <3>1. Head(inbox["healthcheck"]).svc # s
      BY <2>1 DEF StartWorker, HasAnyCheckDefined
    <3> QED BY <1>1, <2>1, <3>1 DEF StartWorker
  <2>2. CASE StopWorker
    BY <1>1, <2>2 DEF StopWorker, healthVars
  <2>3. CASE StopAllWorkers \/ MonitorPanics
    BY <1>1, <2>3 DEF StopAllWorkers, MonitorPanics, Told
  <2>4. CASE ReportWithoutChecks \/ WorkerIsStopped \/ MonitorEnds
    BY <2>4 DEF ReportWithoutChecks, WorkerIsStopped, MonitorEnds, healthVars
  <2> QED BY <1>3, <2>1, <2>2, <2>3, <2>4 DEF MonitorThread, MonitorStep
<1>4. ASSUME NEW x \in Services, WorkerThread(x)
      PROVE  worker'[s] = "none" /\ command'[s] = None
  <2>1. CASE x # s
    BY <1>1, <1>4, <2>1
    DEF WorkerThread, WorkerStep, WorkerReports, WorkerEnds, CommandStarts,
        CommandCannotStart, WorkerWaits, CommandEnds, CommandIsStolen,
        WorkerPanics, healthVars
  <2>2. CASE x = s
    BY <1>1, <1>4, <2>2
    DEF WorkerThread, WorkerStep, WorkerReports, WorkerEnds, CommandStarts,
        CommandCannotStart, WorkerWaits, CommandEnds, CommandIsStolen,
        HasWorker
  <2> QED BY <2>1, <2>2
<1> QED
  BY <1>2, <1>3, <1>4
  DEF Next, SupervisorThread, Dispatch, SpawnerThread, Environment, Idle, vars

LEMMA StepHealth ==
  ASSUME CleanRestarts, InstanceInv, TypeOK', Next, NEW s \in Services,
         HealthInv(s)
  PROVE  HealthInv(s)'
<1> SUFFICES ASSUME Config[s].checks = {}
             PROVE  /\ worker'[s] = "none" /\ command'[s] = None
                    /\ sh'[s].healthiness_checks_failed \in {-1, 0}
                    /\ Nowhere({HealthCheck(s, FALSE)})'
  BY DEF HealthInv
<1>1. /\ TypeOK /\ GlobalInv
      /\ sh \in [Services -> ServiceHandlerType]
      /\ sh[s] \in ServiceHandlerType
  BY DEF InstanceInv, GlobalInv, TypeOK, SupervisorTypeOK
<1>2. /\ worker[s] = "none" /\ command[s] = None
      /\ sh[s].healthiness_checks_failed \in {-1, 0}
      /\ Nowhere({HealthCheck(s, FALSE)})
  BY DEF HealthInv
<1>3. worker'[s] = "none" /\ command'[s] = None
  BY <1>1, <1>2, WorkersHaveChecks
<1>4. Nowhere({HealthCheck(s, FALSE)})'
  <2> DEFINE e == HealthCheck(s, FALSE)
  <2>1. PICK N : OnlyAdds(N) /\ \A n \in N : Origin(n)
    BY <1>1, Provenance
  <2>2. e.kind = "HealthCheck" /\ e.svc = s /\ e.healthy = FALSE
    BY DEF HealthCheck
  <2>3. ~Origin(e)
    <3>1. ~IsAnnouncement(e)
      BY <1>2, <2>2 DEF IsAnnouncement, IsChecked
    <3> HIDE DEF e
    <3>2. \A t, p : e # PidChanged(t, p)
      BY <2>2 DEF PidChanged
    <3>3. e \notin ExitsReaped(Zombies)
      BY <2>2 DEF ExitsReaped, ExitOf, ServiceExited
    <3>4. e \notin NextOfAll
      <4> SUFFICES ASSUME e \in NextOfAll
                   PROVE  FALSE
        OBVIOUS
      <4>1. PICK x \in Services : Fits(e, x)
        BY <1>1, NextOfAllFits DEF InstanceInv
      <4> QED BY <2>2, <4>1 DEF Fits, Run, ForceKill, Kill, StatusUpdate
    <3> QED BY <3>1, <3>2, <3>3, <3>4 DEF Origin
  <2>4. \A n \in N : n \notin {e}
    BY <2>1, <2>3
  <2> QED BY <1>2, <2>1, <2>4 DEF OnlyAdds, Nowhere, HealthCheck
<1>5. sh'[s].healthiness_checks_failed \in {-1, 0}
  <2>1. CASE HandleHealthCheck /\ Head(batch).svc = s
    <3>1. /\ batch # <<>> /\ Head(batch) \in Event
          /\ Head(batch).kind = "HealthCheck"
          /\ \A S : Head(batch) \in S => ~Nowhere(S)
      BY <1>1, <2>1, HeadUnderWay DEF HandleHealthCheck, Handling
    <3>2. Head(batch).healthy
      BY <1>2, <2>1, <3>1 DEF Event, HealthCheck
    <3>3. AddHealthcheckEvent(s, sh[s], TRUE).healthiness_checks_failed = 0
      BY <1>1, <1>2, ConfigAssumption
      DEF AddHealthcheckEvent, AtMost, ServiceHandlerType, ServiceType
    <3>4. Head(batch).healthy = TRUE
      BY <3>1, <3>2, EventFields
    <3> QED BY <1>1, <2>1, <3>3, <3>4 DEF HandleHealthCheck
  <2>2. CASE HandleHealthCheck /\ Head(batch).svc # s
    BY <1>1, <1>2, <2>2 DEF HandleHealthCheck
  <2>3. CASE HandleServiceExited
    <3>1. PICK x, ok : sh' = [sh EXCEPT ![x] = ExitedHandler(x, ok)]
      BY <2>3 DEF HandleServiceExited
    <3>2. ExitedHandler(s, ok).healthiness_checks_failed
            = sh[s].healthiness_checks_failed
      BY <1>1 DEF ExitedHandler, ChangeStatus, ServiceHandlerType
    <3> QED BY <1>1, <1>2, <3>1, <3>2
  <2>4. CASE HandleStatusUpdate
    <3>1. PICK x, new : sh' = [sh EXCEPT ![x] = ChangeStatus(sh[x], new)]
      BY <2>4 DEF HandleStatusUpdate
    <3>2. ChangeStatus(sh[s], new).healthiness_checks_failed
            = sh[s].healthiness_checks_failed
      BY <1>1 DEF ChangeStatus, ServiceHandlerType
    <3> QED BY <1>1, <1>2, <3>1, <3>2
  <2>5. CASE HandleSpawnFailed \/ HandleRunPrepareFails \/ HandleForceKill
    BY <1>1, <1>2, <2>5
    DEF HandleSpawnFailed, HandleRunPrepareFails, HandleForceKill,
        ServiceHandlerType
  <2>6. CASE HandleRun
    <3>1. PICK x : sh' = [sh EXCEPT ![x].status = "Starting"]
      BY <2>6 DEF HandleRun
    <3> QED BY <1>1, <1>2, <3>1 DEF ServiceHandlerType
  <2>7. CASE HandleKill
    BY <1>1, <1>2, <2>7 DEF HandleKill, ServiceHandlerType
  <2>9. CASE HandlePidChanged
    BY <1>1, <1>2, <2>9, SMTT(30) DEF HandlePidChanged, ServiceHandlerType
  <2>8. CASE \E x \in Services : GraceExpires(x)
    BY <1>1, <1>2, <2>8 DEF GraceExpires, ServiceHandlerType
  <2> QED BY <1>2, <2>1, <2>2, <2>3, <2>4, <2>5, <2>6, <2>7, <2>8, <2>9,
             WhoHandles
<1> QED BY <1>3, <1>4, <1>5

-----------------------------------------------------------------------------
(* The beginning                                                           *)

(* Nothing has happened yet.                                               *)
LEMMA StepInit == Init => InstanceInv
<1> SUFFICES ASSUME Init
             PROVE  InstanceInv
  OBVIOUS
<1>1. TypeOK
  BY InitType
<1>2. /\ batch = <<>> /\ pipe = <<>> /\ out = <<>>
      /\ inbox["supervisor"] = <<>> /\ joined = {"supervisor", "healthcheck"}
      /\ \A s \in Services : sh[s] = NewServiceHandler
      /\ \A s \in Services : spawners[s] = NoSpawner
      /\ \A p \in Pids : pid_map[p] = None /\ proc[p] = Unborn
  BY DEF Init, BusInit, SupervisorInit, ProcessesInit, Connectors
<1>3. course = <<>>
  BY <1>2 DEF course
<1>4. /\ \A S : Without(course, S) /\ AtMostOneOf(course, S)
      /\ \A S : AllWithout(out, S) /\ Nowhere(S)
  BY <1>2, <1>3 DEF Without, AtMostOneOf, AllWithout, Nowhere
<1>5. GlobalInv
  BY <1>1, <1>2, <1>4 DEF GlobalInv
<1>6. ASSUME NEW s \in Services
      PROVE  ServiceInv(s)
  <2>1. sh[s].status = "Initial" /\ sh[s].pid = None
    BY <1>2 DEF NewServiceHandler
  <2>2. StillToFork(s) = 0 /\ spawners[s].forked = {}
    BY <1>2 DEF StillToFork, NoSpawner
  <2>3. Alive(s) = {}
    BY <1>2 DEF Alive, Unborn
  <2>4. Answered(s) /\ OneToken(s)
    BY <1>4, <2>2 DEF Answered, OneToken
  <2>5. \A p \in Pids : pid_map[p] # s
    BY <1>2, NoneAssumption
  <2> QED BY <1>4, <2>1, <2>2, <2>3, <2>4, <2>5
          DEF ServiceInv, TokenInv, ProcessInv, EndInv, Over
<1>7. ASSUME NEW s \in Services
      PROVE  RestartInv(s) /\ HealthInv(s)
  <2>1. /\ sh[s].status = "Initial"
        /\ sh[s].healthiness_checks_failed = -1
    BY <1>2 DEF NewServiceHandler
  <2>2. \A S, T : NoneBehind(course, S, T)
    BY <1>3 DEF NoneBehind
  <2>3. worker[s] = "none" /\ command[s] = None
    BY DEF Init, HealthcheckInit
  <2>4. RunInv(s)
    BY <1>4, <2>1, <2>2 DEF RunInv
  <2>5. AgainInv(s)
    BY <1>4, <2>1, <2>2 DEF AgainInv
  <2>6. CalmInv(s)
    BY <1>4, <2>1 DEF CalmInv
  <2>7. HealthInv(s)
    BY <1>4, <2>1, <2>3 DEF HealthInv
  <2> QED BY <2>4, <2>5, <2>6, <2>7 DEF RestartInv
<1> QED BY <1>5, <1>6, <1>7 DEF InstanceInv

-----------------------------------------------------------------------------
(* The theorems                                                            *)

LEMMA StepHandle ==
  ASSUME InstanceInv, TypeOK', HandleEvent
  PROVE  ServicesInv'
BY StepLeaves, StepPlain, StepForceKill, StepStatusUpdate, StepExited, StepRun,
   StepPrepareFails, StepSpawnFailed, StepPidChanged DEF HandleEvent

(* A step that changes nothing.                                            *)
LEMMA StepNothing ==
  ASSUME InstanceInv, TypeOK', UNCHANGED vars
  PROVE  ServicesInv'
<1>1. UNCHANGED <<pipe, inbox, joined, sh, pid_map, threadVars, spawners, proc>>
  BY DEF vars, busVars, supervisorVars, repoVars
<1>2. NoBirths /\ NoTokenMoves
  BY <1>1 DEF NoBirths, NoTokenMoves, Alive, StillToFork
<1>3. UNCHANGED pipe /\ UNCHANGED pid_map /\ UNCHANGED inbox["supervisor"]
  BY <1>1
<1> QED BY <1>1, <1>2, <1>3, ReportSent

LEMMA StepNext ==
  ASSUME CleanRestarts, InstanceInv, TypeOK', Next
  PROVE  InstanceInv'
<1>1. ServicesInv'
  <2>1. CASE SupervisorThread
    BY <2>1, StepIngest, StepHandle, StepProduce, StepSend, StepLeaves
    DEF SupervisorThread, SupervisorStep
  <2>2. CASE Idle
    BY <2>2, StepNothing DEF Idle
  <2> QED
    BY <2>1, <2>2, StepDispatch, StepMonitor, StepSpawner, StepWorker,
       StepEnvironment DEF Next
<1>2. \A s \in Services : HealthInv(s)'
  BY StepHealth DEF InstanceInv
<1> QED BY <1>1, <1>2 DEF ServicesInv, InstanceInv

LEMMA InstanceInvariant ==
  ASSUME CleanRestarts
  PROVE  Spec => []InstanceInv
<1>1. InstanceInv /\ [Next]_vars => InstanceInv'
  <2> SUFFICES ASSUME InstanceInv, [Next]_vars
               PROVE  InstanceInv'
    OBVIOUS
  <2>1. TypeOK'
    BY NextType DEF InstanceInv, GlobalInv
  <2>2. CASE Next
    BY <2>1, <2>2, StepNext
  <2>3. CASE UNCHANGED vars
    <3>1. ServicesInv'
      BY <2>1, <2>3, StepNothing
    <3>2. ASSUME NEW s \in Services
          PROVE  HealthInv(s)'
      BY <2>3
      DEF InstanceInv, HealthInv, Nowhere, course, vars, busVars,
          supervisorVars, repoVars, threadVars, healthVars
    <3> QED BY <3>1, <3>2 DEF ServicesInv, InstanceInv
  <2> QED BY <2>2, <2>3
<1> QED BY <1>1, StepInit, PTL DEF Spec

(* A service has at most one live process or thread about to fork it,      *)
(* however often it is started again, however long the queues grow and     *)
(* however often pids are handed out again.                                *)
THEOREM OneInstance ==
  ASSUME CleanRestarts
  PROVE  Spec => []AtMostOneInstance
<1>1. InstanceInv => AtMostOneInstance
  <2> SUFFICES ASSUME InstanceInv, NEW s \in Services
               PROVE  Cardinality(Alive(s)) + StillToFork(s) <= 1
    BY DEF AtMostOneInstance
  <2>1. ServiceInv(s) /\ spawners[s] \in Spawners
    BY DEF InstanceInv, GlobalInv, TypeOK, SupervisorTypeOK
  <2>2. StillToFork(s) \in Nat /\ StillToFork(s) <= 1
    BY <2>1 DEF StillToFork, Spawners, ServiceInv, TokenInv, OneToken
  <2>3. CASE Alive(s) = {}
    BY <2>2, <2>3, FS_EmptySet
  <2>4. CASE Alive(s) # {}
    <3>1. PICK p : Alive(s) = {p}
      BY <2>1, <2>4 DEF ServiceInv, ProcessInv
    <3>2. Cardinality(Alive(s)) = 1
      BY <3>1, FS_Singleton
    <3>3. StillToFork(s) = 0
      BY <2>1, <2>2, <2>4 DEF ServiceInv, ProcessInv
    <3> QED BY <3>2, <3>3
  <2> QED BY <2>3, <2>4
<1> QED BY <1>1, InstanceInvariant, PTL

(* An answer of its spawner thread, an exit, a kill, or an update comes    *)
(* before a service has finished, or changes nothing.                      *)
LEMMA StaysFinished ==
  ASSUME InstanceInv, Next, NEW s \in Services, HasFinished(sh[s])
  PROVE  sh'[s].status = sh[s].status
<1>1. /\ sh[s].status \in {"Finished", "FinishedFailed"} /\ ServiceInv(s)
      /\ sh \in [Services -> ServiceHandlerType] /\ TypeOK
  BY DEF HasFinished, TerminalStatuses, InstanceInv, GlobalInv, TypeOK,
         SupervisorTypeOK
<1>2. ASSUME NEW h \in ServiceHandlerType, h.status = sh[s].status,
             NEW new \in Statuses
      PROVE  ChangeStatus(h, new) = h
  <2>1. h.status \notin ALLOWED_TRANSITIONS[new]
    BY <1>1, <1>2 DEF ALLOWED_TRANSITIONS, Statuses
  <2> QED BY <2>1 DEF ChangeStatus, IsAllowed
<1>3. CASE HandleServiceExited
  <2>1. PICK x, ok : sh' = [sh EXCEPT ![x] = ExitedHandler(x, ok)]
    BY <1>3 DEF HandleServiceExited
  <2>2. ExitedHandler(s, ok).status = sh[s].status
    <3>1. \A n : [sh[s] EXCEPT !.shutting_down_start = "none",
                               !.pid = None,
                               !.restart_attempts = n].status = sh[s].status
      BY <1>1 DEF ServiceHandlerType
    <3> QED BY <1>1, <3>1
            DEF ExitedHandler, ChangeStatus, IsAllowed, ALLOWED_TRANSITIONS
  <2> QED BY <1>1, <2>1, <2>2
<1>4. CASE HandleStatusUpdate
  <2>1. /\ Head(batch) \in Event /\ Head(batch).kind = "StatusUpdate"
        /\ Head(batch).status \in Statuses /\ Head(batch).svc \in Services
    BY <1>1, <1>4, HeadOfBatch, EventFields
    DEF HandleStatusUpdate, Handling, TypeOK
  <2>2. PICK x \in Services, new \in Statuses :
          sh' = [sh EXCEPT ![x] = ChangeStatus(sh[x], new)]
    BY <1>4, <2>1 DEF HandleStatusUpdate
  <2>3. ChangeStatus(sh[s], new) = sh[s]
    BY <1>1, <1>2
  <2> QED BY <1>1, <2>2, <2>3
<1>5. CASE HandlePidChanged \/ HandleSpawnFailed
  <2>1. /\ phase = "handling" /\ batch # <<>> /\ Head(batch) \in Event
        /\ Head(batch).kind \in {"PidChanged", "SpawnFailed"}
        /\ \A y \in Services : y # Head(batch).svc => sh'[y] = sh[y]
    BY <1>1, <1>5, HeadOfBatch
    DEF HandlePidChanged, HandleSpawnFailed, Handling, TypeOK
  <2>2. Answered(s)
    BY <1>1 DEF ServiceInv, TokenInv
  <2>3. Head(batch) \notin Replies(s)
    <3>1. /\ batch \in Seq(Event) /\ inbox["supervisor"] \in Seq(Event)
          /\ pipe \in Seq(Event)
      BY <1>1, QueueTypes
    <3>2. Without(batch, Replies(s))
      BY <2>2, <3>1, ThreeJoined DEF Answered, course, WithoutAll
    <3> QED BY <2>1, <3>1, <3>2, HeadAndTail
  <2> QED BY <2>1, <2>3 DEF Replies
<1>6. CASE HandleRun \/ HandleRunPrepareFails \/ HandleForceKill
  BY <1>1, <1>6 DEF HandleRun, HandleRunPrepareFails, HandleForceKill, MayRun
<1>7. CASE HandleKill \/ HandleHealthCheck
  <2>1. CASE HandleKill
    BY <1>1, <2>1 DEF HandleKill, ServiceHandlerType
  <2>2. CASE HandleHealthCheck
    <3>1. PICK x, b : sh' = [sh EXCEPT ![x] = AddHealthcheckEvent(x, sh[x], b)]
      BY <2>2 DEF HandleHealthCheck
    <3>2. AddHealthcheckEvent(s, sh[s], b).status = sh[s].status
      BY <1>1 DEF AddHealthcheckEvent, ServiceHandlerType
    <3> QED BY <1>1, <3>1, <3>2
  <2> QED BY <1>7, <2>1, <2>2
<1>8. CASE \E x \in Services : GraceExpires(x)
  BY <1>1, <1>8 DEF GraceExpires, ServiceHandlerType
<1> QED BY <1>3, <1>4, <1>5, <1>6, <1>7, <1>8, WhoHandles

(* A service that has finished keeps its status: no answer of its spawner  *)
(* thread, no exit, no kill and no restart is handled after that, or is    *)
(* but changes nothing.                                                    *)
THEOREM FinalStatus ==
  ASSUME CleanRestarts
  PROVE  Spec => FinishedIsFinal
<1>1. InstanceInv /\ [Next]_vars =>
        [\A s \in Services :
           HasFinished(sh[s]) => sh'[s].status = sh[s].status]_vars
  <2> SUFFICES ASSUME InstanceInv, Next, NEW s \in Services,
                      HasFinished(sh[s])
               PROVE  sh'[s].status = sh[s].status
    OBVIOUS
  <2> QED BY StaysFinished
<1> QED BY <1>1, InstanceInvariant, PTL DEF Spec, FinishedIsFinal

(* What has finished is gone.                                              *)
LEMMA FinishedIsGone ==
  ASSUME InstanceInv, NEW s \in Services, HasFinished(sh[s])
  PROVE  /\ ~Spawning(s) /\ StillToFork(s) = 0
         /\ \A p \in Alive(s) : proc[p].sig = "kill"
<1>1. /\ sh[s].status \in {"Finished", "FinishedFailed"} /\ ServiceInv(s)
      /\ spawners[s] \in Spawners
  BY DEF HasFinished, TerminalStatuses, InstanceInv, GlobalInv, TypeOK,
         SupervisorTypeOK
<1>2. StillToFork(s) = 0 /\ spawners[s].forked = {}
  BY <1>1 DEF ServiceInv, TokenInv, Answered
<1>3. spawners[s] = NoSpawner
  <2>1. /\ spawners[s].fresh \in Nat /\ spawners[s].told \in Nat
        /\ spawners[s].fresh + spawners[s].told = 0
    BY <1>1, <1>2 DEF StillToFork, Spawners
  <2>2. spawners[s].fresh = 0 /\ spawners[s].told = 0
    BY <2>1
  <2> QED BY <1>1, <1>2, <2>2 DEF Spawners, NoSpawner
<1> QED BY <1>1, <1>2, <1>3 DEF Spawning, ServiceInv, EndInv, Over

(* A service that has finished has left nothing behind: nobody is going to *)
(* fork it, and a process that is still there has been sent SIGKILL.       *)
THEOREM NothingLeft ==
  ASSUME CleanRestarts
  PROVE  Spec => []FinishedMeansGone
<1>1. InstanceInv => FinishedMeansGone
  BY FinishedIsGone DEF FinishedMeansGone
<1> QED BY <1>1, InstanceInvariant, PTL

=============================================================================

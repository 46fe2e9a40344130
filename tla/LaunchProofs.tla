---------------------------- MODULE LaunchProofs ----------------------------
(***************************************************************************)
(* What the child of a spawner thread becomes, for every set of service    *)
(* files, every environment and every interleaving of the threads: proofs  *)
(* about Launch.tla.                                                       *)
(***************************************************************************)
EXTENDS Launch, NumberProofs, SequenceTheorems, TLAPS

-----------------------------------------------------------------------------
(* The environment                                                         *)

(* GetEnvironment has the precedence that the documentation gives it,      *)
(* whatever a service keeps, re-exports and adds.                          *)
LEMMA EnvironmentDocumented ==
  ASSUME NEW e PROVE Documented(e, GetEnvironment(e))
<1> DEFINE initial ==
             Extended(FromHorust(IF e.keep_env THEN Variables ELSE {}),
                      Computed)
           with_term == Extended(FromHorust({"TERM"}), initial)
           exported == Extended(with_term, FromHorust(e.re_export))
           env == Extended(exported, [v \in e.additional |-> "additional"])
<1>1. /\ DOMAIN initial =
           Predefined \cup (IF e.keep_env THEN HorustEnv ELSE {})
      /\ \A v \in DOMAIN initial :
           initial[v] = IF v \in Predefined THEN Computed[v] ELSE "horust"
  BY EnvironmentAssumption DEF Extended, FromHorust, Computed
<1>2. /\ DOMAIN with_term = DOMAIN initial \cup ({"TERM"} \cap HorustEnv)
      /\ \A v \in DOMAIN initial : with_term[v] = initial[v]
  BY DEF Extended, FromHorust
<1>3. /\ DOMAIN exported = DOMAIN with_term \cup (e.re_export \cap HorustEnv)
      /\ \A v \in DOMAIN exported :
           exported[v] = IF v \in e.re_export \cap HorustEnv
                           THEN "horust" ELSE with_term[v]
  BY DEF Extended, FromHorust
<1>4. /\ DOMAIN env = DOMAIN exported \cup e.additional
      /\ \A v \in DOMAIN env :
           env[v] = IF v \in e.additional THEN "additional" ELSE exported[v]
  BY DEF Extended
<1>5. GetEnvironment(e) = env
  BY DEF GetEnvironment
<1>6. \A v \in Predefined \ Inherited : Computed[v] = "computed"
  BY DEF Computed
<1> HIDE DEF initial, with_term, exported, env
<1>7. \A v \in (Predefined \ Inherited) \ e.re_export : env[v] # "horust"
  <2> SUFFICES ASSUME NEW v \in (Predefined \ Inherited) \ e.re_export
               PROVE  env[v] # "horust"
    OBVIOUS
  <2>1. CASE v \in e.additional
    BY <2>1, <1>4
  <2>2. CASE v \notin e.additional
    BY <2>2, <1>1, <1>2, <1>3, <1>4, <1>6
  <2> QED
    BY <2>1, <2>2
<1>8. Predefined \subseteq DOMAIN env
  BY <1>1, <1>2, <1>3, <1>4
<1>9. e.keep_env => HorustEnv \subseteq DOMAIN env
  BY <1>1, <1>2, <1>3, <1>4
<1>10. \A v \in DOMAIN env \ e.additional :
         \/ v \in Predefined
         \/ v \in HorustEnv /\ (e.keep_env \/ v = "TERM" \/ v \in e.re_export)
  BY <1>1, <1>2, <1>3, <1>4
<1> QED
  BY <1>3, <1>4, <1>5, <1>7, <1>8, <1>9, <1>10 DEF Documented

-----------------------------------------------------------------------------
(* The inductive invariant                                                 *)

Out(r) == IF Rotates(r) THEN "pipe" ELSE SettingsOf(r).stdout
Err(r) == IF SettingsOf(r).stderr = "STDOUT" THEN Out(r)
                                            ELSE SettingsOf(r).stderr

Writable(r) == SettingsOf(r).stdout \in LogPaths \ Unopenable

(* Child r is somewhere between fork and its end.                          *)
Lives(r) == child[r].state \in {"born", "redirecting", "redirected", "running"}

(* The descriptors at each stage of the child.                             *)
FdsAreRight(r) ==
  /\ child[r].state \in {"unborn", "born"} =>
       child[r].fds = <<"STDOUT", "STDERR">>
  /\ child[r].state = "redirecting" => child[r].fds = <<Out(r), "STDERR">>
  /\ child[r].state \in {"redirected", "running"} =>
       child[r].fds = <<Out(r), Err(r)>>

EnvironmentIsComputed(r) ==
  child[r].state = "running" =>
    child[r].environment = GetEnvironment(SettingsOf(r).environment)

(* The process of Horust holds the ends of the pipe from its creation to   *)
(* the fork; then the child holds the write end as long as it lives, and   *)
(* somebody the read end, unless the log cannot be written.                *)
PipeIsHeld(r) ==
  /\ thread[r] \in {"forked", "reported"} <=> child[r].state # "unborn"
  /\ thread[r] = "piped" => Rotates(r) /\ <<r, "write">> \in ends
  /\ Lives(r) /\ Rotates(r) => <<r, "write">> \in child[r].ends
  /\ /\ Lives(r) \/ thread[r] = "piped"
     /\ Rotates(r) /\ Writable(r)
     => <<r, "read">> \in ends

SignalledForAReason(r) == child[r].code = 141 => ~Writable(r)

RunInv(r) ==
  /\ DOMAIN child[r] = DOMAIN NewChild
  /\ FdsAreRight(r)
  /\ EnvironmentIsComputed(r)
  /\ PipeIsHeld(r)
  /\ SignalledForAReason(r)

LaunchInv ==
  /\ stage # "running" => Begun = {}
  /\ DOMAIN child = Begun
  /\ \A r \in Begun : RunInv(r)

(* A step that leaves a run alone keeps its invariant.                     *)
LEMMA Elsewhere ==
  ASSUME NEW q, RunInv(q), UNCHANGED loaded,
         thread'[q] = thread[q], child'[q] = child[q],
         PipeEnds(q) \cap ends' = PipeEnds(q) \cap ends
  PROVE  RunInv(q)'
<1>1. /\ SettingsOf(q)' = SettingsOf(q) /\ Rotates(q)' = Rotates(q)
      /\ Out(q)' = Out(q) /\ Err(q)' = Err(q) /\ Writable(q)' = Writable(q)
  BY DEF SettingsOf, Repo, NamesOf, Rotates, Out, Err, Writable
<1>2. /\ <<q, "read">> \in ends' <=> <<q, "read">> \in ends
      /\ <<q, "write">> \in ends' <=> <<q, "write">> \in ends
  BY DEF PipeEnds
<1>3. FdsAreRight(q)' /\ EnvironmentIsComputed(q)' /\ SignalledForAReason(q)'
  BY <1>1 DEF RunInv, FdsAreRight, EnvironmentIsComputed, SignalledForAReason
<1>4. PipeIsHeld(q)'
  BY <1>1, <1>2 DEF RunInv, PipeIsHeld, Lives
<1> QED
  BY <1>3, <1>4 DEF RunInv, NewChild

(* A step of run r leaves the other runs alone.                            *)
LEMMA OneRun ==
  ASSUME LaunchInv, NEW r \in Begun, UNCHANGED <<loaded, stage>>,
         DOMAIN thread' = DOMAIN thread, DOMAIN child' = DOMAIN child,
         \A q \in Begun \ {r} :
           /\ thread'[q] = thread[q] /\ child'[q] = child[q]
           /\ PipeEnds(q) \cap ends' = PipeEnds(q) \cap ends,
         RunInv(r)'
  PROVE  LaunchInv'
<1>1. \A q \in Begun \ {r} : RunInv(q)'
  BY Elsewhere DEF LaunchInv
<1> QED
  BY <1>1 DEF LaunchInv, Begun

(* Nobody else has an end of the pipe of run r by its name.                *)
LEMMA EndsOfOneRun ==
  ASSUME NEW r, NEW q, q # r, NEW S \in SUBSET PipeEnds(r)
  PROVE  /\ PipeEnds(q) \cap (ends \ S) = PipeEnds(q) \cap ends
         /\ PipeEnds(q) \cap (ends \cup S) = PipeEnds(q) \cap ends
BY DEF PipeEnds

-----------------------------------------------------------------------------
(* The steps of one run                                                    *)

(* What a step of run r does to the functions of the runs.                 *)
LEMMA SameSettings ==
  ASSUME UNCHANGED loadingVars, NEW r
  PROVE  /\ SettingsOf(r)' = SettingsOf(r) /\ Rotates(r)' = Rotates(r)
         /\ Out(r)' = Out(r) /\ Err(r)' = Err(r)
         /\ Writable(r)' = Writable(r)
BY DEF loadingVars, SettingsOf, Repo, NamesOf, Rotates, Out, Err, Writable

LEMMA PrepareFailsKeeps ==
  ASSUME LaunchInv, NEW r \in Begun, PrepareFails(r), UNCHANGED loadingVars
  PROVE  LaunchInv'
<1>1. /\ DOMAIN thread' = DOMAIN thread
      /\ \A q \in Begun \ {r} : thread'[q] = thread[q]
      /\ thread[r] = "ready" /\ thread'[r] \in {"panicked", "failed"}
  BY DEF PrepareFails, Begun
<1>2. UNCHANGED <<child, ends>>
  BY DEF PrepareFails
<1>3. RunInv(r)'
  BY <1>1, <1>2, SameSettings DEF LaunchInv, RunInv, FdsAreRight,
     EnvironmentIsComputed, PipeIsHeld, SignalledForAReason, Lives, PipeEnds
<1> QED
  BY <1>1, <1>2, <1>3, OneRun DEF loadingVars

LEMMA CreatePipeKeeps ==
  ASSUME LaunchInv, NEW r \in Begun, CreatePipe(r), UNCHANGED loadingVars
  PROVE  LaunchInv'
<1>1. /\ DOMAIN thread' = DOMAIN thread
      /\ \A q \in Begun \ {r} : thread'[q] = thread[q]
      /\ thread[r] = "ready" /\ thread'[r] = "piped"
  BY DEF CreatePipe, Begun
<1>2. UNCHANGED child /\ ends' = ends \cup PipeEnds(r) /\ Rotates(r)
  BY DEF CreatePipe
<1>3. RunInv(r)'
  BY <1>1, <1>2, SameSettings DEF LaunchInv, RunInv, FdsAreRight,
     EnvironmentIsComputed, PipeIsHeld, SignalledForAReason, Lives, PipeEnds
<1>4. \A q \in Begun \ {r} : PipeEnds(q) \cap ends' = PipeEnds(q) \cap ends
  BY <1>2, EndsOfOneRun
<1> QED
  BY <1>1, <1>2, <1>3, <1>4, OneRun DEF loadingVars

LEMMA SpawnFailsKeeps ==
  ASSUME LaunchInv, NEW r \in Begun, SpawnFails(r), UNCHANGED loadingVars
  PROVE  LaunchInv'
<1>1. /\ DOMAIN thread' = DOMAIN thread
      /\ \A q \in Begun \ {r} : thread'[q] = thread[q]
      /\ thread[r] \in {"ready", "piped"} /\ thread'[r] = "failed"
  BY DEF SpawnFails, Begun
<1>2. UNCHANGED child /\ ends' = ends \ PipeEnds(r)
  BY DEF SpawnFails
<1>3. RunInv(r)'
  BY <1>1, <1>2, SameSettings DEF LaunchInv, RunInv, FdsAreRight,
     EnvironmentIsComputed, PipeIsHeld, SignalledForAReason, Lives, PipeEnds
<1>4. \A q \in Begun \ {r} : PipeEnds(q) \cap ends' = PipeEnds(q) \cap ends
  BY <1>2, EndsOfOneRun
<1> QED
  BY <1>1, <1>2, <1>3, <1>4, OneRun DEF loadingVars

LEMMA ForkChildKeeps ==
  ASSUME LaunchInv, NEW r \in Begun, ForkChild(r), UNCHANGED loadingVars
  PROVE  LaunchInv'
<1>1. /\ DOMAIN thread' = DOMAIN thread
      /\ \A q \in Begun \ {r} : thread'[q] = thread[q]
      /\ thread[r] \in {"ready", "piped"} /\ thread'[r] = "forked"
      /\ thread[r] = "ready" => ~Rotates(r)
  BY DEF ForkChild, Begun
<1>2. /\ DOMAIN child' = DOMAIN child
      /\ \A q \in Begun \ {r} : child'[q] = child[q]
      /\ UNCHANGED ends
  BY DEF ForkChild, LaunchInv
<1>3. /\ DOMAIN child'[r] = DOMAIN child[r]
      /\ child'[r].state = "born" /\ child'[r].ends = ends \ {<<r, "read">>}
      /\ child'[r].fds = child[r].fds /\ child'[r].code = child[r].code
  BY DEF ForkChild, LaunchInv, RunInv, NewChild
<1>4. child[r].state = "unborn"
  BY <1>1 DEF LaunchInv, RunInv, PipeIsHeld
<1>5. FdsAreRight(r)' /\ EnvironmentIsComputed(r)' /\ SignalledForAReason(r)'
  BY <1>3, <1>4, SameSettings DEF LaunchInv, RunInv, FdsAreRight,
     EnvironmentIsComputed, SignalledForAReason
<1>6. PipeIsHeld(r)'
  BY <1>1, <1>2, <1>3, SameSettings
     DEF LaunchInv, RunInv, PipeIsHeld, Lives, PipeEnds
<1>7. RunInv(r)'
  BY <1>3, <1>5, <1>6 DEF LaunchInv, RunInv, NewChild
<1> QED
  BY <1>1, <1>2, <1>7, OneRun DEF loadingVars

LEMMA ParentGoesOnKeeps ==
  ASSUME LaunchInv, NEW r \in Begun, ParentGoesOn(r), UNCHANGED loadingVars
  PROVE  LaunchInv'
<1>1. /\ DOMAIN thread' = DOMAIN thread
      /\ \A q \in Begun \ {r} : thread'[q] = thread[q]
      /\ thread[r] = "forked" /\ thread'[r] = "reported"
  BY DEF ParentGoesOn, Begun
<1>2. UNCHANGED child /\ ends' = ends \ {<<r, "write">>}
  BY DEF ParentGoesOn
<1>3. RunInv(r)'
  BY <1>1, <1>2, SameSettings DEF LaunchInv, RunInv, FdsAreRight,
     EnvironmentIsComputed, PipeIsHeld, SignalledForAReason, Lives, PipeEnds
<1>4. \A q \in Begun \ {r} : PipeEnds(q) \cap ends' = PipeEnds(q) \cap ends
  BY <1>2, EndsOfOneRun DEF PipeEnds
<1> QED
  BY <1>1, <1>2, <1>3, <1>4, OneRun DEF loadingVars

(* A child that goes from one stage to the next, or ends: what is left to  *)
(* show is that its descriptors, its environment and its code are right.   *)
LEMMA ChildMoves ==
  ASSUME LaunchInv, NEW r \in Begun, UNCHANGED loadingVars,
         UNCHANGED <<thread, ends>>,
         DOMAIN child' = DOMAIN child,
         \A q \in Begun \ {r} : child'[q] = child[q],
         DOMAIN child'[r] = DOMAIN child[r],
         Lives(r), Lives(r)' \/ child'[r].state = "exited",
         Lives(r)' => child'[r].ends = child[r].ends,
         FdsAreRight(r)', EnvironmentIsComputed(r)', SignalledForAReason(r)'
  PROVE  LaunchInv'
<1>1. PipeIsHeld(r)'
  BY SameSettings DEF LaunchInv, RunInv, PipeIsHeld, Lives, PipeEnds
<1>2. RunInv(r)'
  BY <1>1 DEF LaunchInv, RunInv, NewChild
<1> QED
  BY <1>2, OneRun DEF loadingVars

(* A child that ends has no descriptors any more, and its code is no 141.  *)
LEMMA PanicKeeps ==
  ASSUME LaunchInv, NEW r \in Begun, UNCHANGED loadingVars,
         UNCHANGED <<thread, ends>>, Lives(r),
         NEW code \in {101, 102, 103}, Panics(r, code)
  PROVE  LaunchInv'
<1>1. /\ DOMAIN child' = DOMAIN child
      /\ \A q \in Begun \ {r} : child'[q] = child[q]
      /\ DOMAIN child'[r] = DOMAIN child[r]
      /\ child'[r].state = "exited" /\ child'[r].code = code
  BY DEF Panics, LaunchInv, RunInv, NewChild
<1>2. FdsAreRight(r)' /\ EnvironmentIsComputed(r)' /\ SignalledForAReason(r)'
  BY <1>1 DEF FdsAreRight, EnvironmentIsComputed, SignalledForAReason
<1>3. ~Lives(r)'
  BY <1>1 DEF Lives
<1> QED
  BY <1>1, <1>2, <1>3, ChildMoves

LEMMA RedirectStdoutKeeps ==
  ASSUME LaunchInv, NEW r \in Begun, RedirectStdout(r), UNCHANGED loadingVars
  PROVE  LaunchInv'
<1> DEFINE target == SettingsOf(r).stdout
<1>1. Lives(r) /\ child[r].state = "born" /\ UNCHANGED <<thread, ends>>
  BY DEF RedirectStdout, Lives
<1>2. child[r].fds = <<"STDOUT", "STDERR">>
  BY <1>1 DEF LaunchInv, RunInv, FdsAreRight
<1>3. CASE target \in Unopenable /\ ~Rotates(r)
  BY <1>1, <1>3, PanicKeeps DEF RedirectStdout
<1>4. CASE ~(target \in Unopenable /\ ~Rotates(r))
  <2> DEFINE fds == IF Rotates(r) THEN [child[r].fds EXCEPT ![1] = "pipe"]
                                  ELSE Redirected(child[r].fds, 1, target)
  <2>1. child' = [child EXCEPT ![r].state = "redirecting", ![r].fds = fds]
    BY <1>4 DEF RedirectStdout, LaunchInv, RunInv, NewChild
  <2>2. fds = <<Out(r), "STDERR">>
    BY <1>2 DEF Redirected, Out
  <2> HIDE DEF fds
  <2>3. /\ DOMAIN child' = DOMAIN child
        /\ \A q \in Begun \ {r} : child'[q] = child[q]
        /\ DOMAIN child'[r] = DOMAIN child[r]
        /\ child'[r].state = "redirecting" /\ child'[r].fds = fds
        /\ child'[r].ends = child[r].ends /\ child'[r].code = child[r].code
    BY <2>1 DEF LaunchInv, RunInv, NewChild
  <2>4. FdsAreRight(r)' /\ EnvironmentIsComputed(r)' /\ SignalledForAReason(r)'
    BY <2>2, <2>3, SameSettings DEF LaunchInv, RunInv, FdsAreRight,
       EnvironmentIsComputed, SignalledForAReason
  <2>5. Lives(r)'
    BY <2>3 DEF Lives
  <2> QED
    BY <1>1, <2>3, <2>4, <2>5, ChildMoves
<1> QED
  BY <1>3, <1>4

LEMMA RedirectStderrKeeps ==
  ASSUME LaunchInv, NEW r \in Begun, RedirectStderr(r), UNCHANGED loadingVars
  PROVE  LaunchInv'
<1> DEFINE target == SettingsOf(r).stderr
<1>1. /\ Lives(r) /\ child[r].state = "redirecting"
      /\ UNCHANGED <<thread, ends>>
  BY DEF RedirectStderr, Lives
<1>2. child[r].fds = <<Out(r), "STDERR">>
  BY <1>1 DEF LaunchInv, RunInv, FdsAreRight
<1>3. CASE target \in Unopenable
  BY <1>1, <1>3, PanicKeeps DEF RedirectStderr
<1>4. CASE target \notin Unopenable
  <2> DEFINE fds == Redirected(child[r].fds, 2, target)
  <2>1. child' = [child EXCEPT ![r].state = "redirected", ![r].fds = fds]
    BY <1>4 DEF RedirectStderr, LaunchInv, RunInv, NewChild
  <2>2. fds = <<Out(r), Err(r)>>
    BY <1>2 DEF Redirected, Err
  <2> HIDE DEF fds
  <2>3. /\ DOMAIN child' = DOMAIN child
        /\ \A q \in Begun \ {r} : child'[q] = child[q]
        /\ DOMAIN child'[r] = DOMAIN child[r]
        /\ child'[r].state = "redirected" /\ child'[r].fds = fds
        /\ child'[r].ends = child[r].ends /\ child'[r].code = child[r].code
    BY <2>1 DEF LaunchInv, RunInv, NewChild
  <2>4. FdsAreRight(r)' /\ EnvironmentIsComputed(r)' /\ SignalledForAReason(r)'
    BY <2>2, <2>3, SameSettings DEF LaunchInv, RunInv, FdsAreRight,
       EnvironmentIsComputed, SignalledForAReason
  <2>5. Lives(r)'
    BY <2>3 DEF Lives
  <2> QED
    BY <1>1, <2>3, <2>4, <2>5, ChildMoves
<1> QED
  BY <1>3, <1>4

LEMMA ExecKeeps ==
  ASSUME LaunchInv, NEW r \in Begun, Exec(r), UNCHANGED loadingVars
  PROVE  LaunchInv'
<1>1. /\ Lives(r) /\ child[r].state = "redirected"
      /\ UNCHANGED <<thread, ends>>
  BY DEF Exec, Lives
<1>2. CASE ~SettingsOf(r).executable
  BY <1>1, <1>2, PanicKeeps DEF Exec
<1>3. CASE SettingsOf(r).executable
  <2> DEFINE env == GetEnvironment(SettingsOf(r).environment)
  <2>1. child' = [child EXCEPT ![r].state = "running", ![r].environment = env]
    BY <1>3 DEF Exec
  <2>2. env' = env
    BY DEF loadingVars, SettingsOf, Repo, NamesOf
  <2> HIDE DEF env
  <2>3. /\ DOMAIN child' = DOMAIN child
        /\ \A q \in Begun \ {r} : child'[q] = child[q]
        /\ DOMAIN child'[r] = DOMAIN child[r]
        /\ child'[r].state = "running" /\ child'[r].environment = env
        /\ child'[r].fds = child[r].fds /\ child'[r].ends = child[r].ends
        /\ child'[r].code = child[r].code
    BY <2>1 DEF LaunchInv, RunInv, NewChild
  <2>4. FdsAreRight(r)' /\ SignalledForAReason(r)'
    BY <1>1, <2>3, SameSettings
       DEF LaunchInv, RunInv, FdsAreRight, SignalledForAReason
  <2>5. EnvironmentIsComputed(r)'
    BY <2>2, <2>3 DEF EnvironmentIsComputed, env
  <2>6. Lives(r)'
    BY <2>3 DEF Lives
  <2> QED
    BY <1>1, <2>3, <2>4, <2>5, <2>6, ChildMoves
<1> QED
  BY <1>2, <1>3

(* Steps that leave threads, children and pipe ends alone.                 *)
LEMMA Untouched ==
  ASSUME LaunchInv, UNCHANGED <<loaded, stage, thread, child, ends>>
  PROVE  LaunchInv'
BY Elsewhere DEF LaunchInv, Begun

(* The broken pipe: as long as the program lives, the read end of its pipe *)
(* is held, unless its log cannot be written.                              *)
LEMMA ProgramWritesKeeps ==
  ASSUME LaunchInv, NEW r \in Begun, SetupsAssumption, ProgramWrites(r),
         UNCHANGED loadingVars
  PROVE  LaunchInv'
<1>1. /\ Lives(r) /\ child[r].state = "running" /\ child[r].fds[1] = "pipe"
      /\ UNCHANGED <<thread, ends>>
  BY DEF ProgramWrites, Lives
<1>2. CASE UNCHANGED child
  BY <1>1, <1>2, Untouched DEF loadingVars
<1>3. CASE /\ ~ReadEndOpen(r)
           /\ child' = [child EXCEPT ![r].state = "exited", ![r].ends = {},
                                     ![r].code = 141]
  <2>1. Out(r) = "pipe"
    BY <1>1 DEF LaunchInv, RunInv, FdsAreRight
  <2>2. <<r, "read">> \notin ends
    BY <1>3 DEF ReadEndOpen
  <2>3. ~Writable(r)
    <3>1. CASE Rotates(r)
      BY <1>1, <2>2, <3>1 DEF LaunchInv, RunInv, PipeIsHeld
    <3>2. CASE ~Rotates(r)
      BY <2>1, <3>2, SetupsAssumption DEF Out, Writable
    <3> QED
      BY <3>1, <3>2
  <2>4. /\ DOMAIN child' = DOMAIN child
        /\ \A q \in Begun \ {r} : child'[q] = child[q]
        /\ DOMAIN child'[r] = DOMAIN child[r]
        /\ child'[r].state = "exited"
    BY <1>3 DEF LaunchInv, RunInv, NewChild
  <2>5. /\ FdsAreRight(r)' /\ EnvironmentIsComputed(r)'
        /\ SignalledForAReason(r)'
    BY <2>3, <2>4, SameSettings
       DEF FdsAreRight, EnvironmentIsComputed, SignalledForAReason
  <2>6. ~Lives(r)'
    BY <2>4 DEF Lives
  <2> QED
    BY <1>1, <2>4, <2>5, <2>6, ChildMoves
<1> QED
  BY <1>2, <1>3 DEF ProgramWrites

LEMMA ProgramExitsKeeps ==
  ASSUME LaunchInv, NEW r \in Begun, ProgramExits(r), UNCHANGED loadingVars
  PROVE  LaunchInv'
<1>1. Lives(r) /\ child[r].state = "running" /\ UNCHANGED <<thread, ends>>
  BY DEF ProgramExits, Lives
<1>2. /\ DOMAIN child' = DOMAIN child
      /\ \A q \in Begun \ {r} : child'[q] = child[q]
      /\ DOMAIN child'[r] = DOMAIN child[r]
      /\ child'[r].state = "exited" /\ child'[r].code = child[r].code
  BY DEF ProgramExits, LaunchInv, RunInv, NewChild
<1>3. FdsAreRight(r)' /\ EnvironmentIsComputed(r)' /\ SignalledForAReason(r)'
  BY <1>2, SameSettings DEF LaunchInv, RunInv, FdsAreRight,
     EnvironmentIsComputed, SignalledForAReason
<1>4. ~Lives(r)'
  BY <1>2 DEF Lives
<1> QED
  BY <1>1, <1>2, <1>3, <1>4, ChildMoves

(* A writer that stops gives the read end back; nobody lives who needs it. *)
LEMMA WriterStopsKeeps ==
  ASSUME LaunchInv, NEW r \in Begun, NEW state, WriterStops(r, state),
         UNCHANGED <<thread, child>>,
         Rotates(r) /\ Writable(r) => ~Lives(r) /\ thread[r] # "piped",
         UNCHANGED loadingVars
  PROVE  LaunchInv'
<1>1. ends' = ends \ {<<r, "read">>}
  BY DEF WriterStops
<1>2. \A q \in Begun \ {r} : PipeEnds(q) \cap ends' = PipeEnds(q) \cap ends
  BY <1>1, EndsOfOneRun DEF PipeEnds
<1>3. RunInv(r)'
  BY <1>1, SameSettings DEF LaunchInv, RunInv, FdsAreRight,
     EnvironmentIsComputed, PipeIsHeld, SignalledForAReason, Lives
<1> QED
  BY <1>2, <1>3, OneRun DEF loadingVars

LEMMA WriterStepKeeps ==
  ASSUME LaunchInv, NEW r \in Begun, WriterStep(r), UNCHANGED loadingVars
  PROVE  LaunchInv'
<1>1. CASE WriterHasNoPath(r)
  BY <1>1, WriterStopsKeeps DEF WriterHasNoPath, Writable
<1>2. CASE WriterStarts(r)
  BY <1>2, Untouched DEF WriterStarts, loadingVars
<1>3. CASE OpenNextChunk(r)
  <2>1. CASE SettingsOf(r).stdout \in Unopenable /\ WriterStops(r, "failed")
    BY <1>3, <2>1, WriterStopsKeeps DEF OpenNextChunk, Writable
  <2>2. CASE UNCHANGED ends
    BY <1>3, <2>2, Untouched DEF OpenNextChunk, loadingVars
  <2> QED
    BY <1>3, <2>1, <2>2 DEF OpenNextChunk
<1>4. CASE FillBuffer(r)
  BY <1>4, Untouched DEF FillBuffer, loadingVars
<1>5. CASE Copy(r)
  BY <1>5, Untouched DEF Copy, loadingVars
<1>6. CASE EndOfFile(r)
  <2>1. /\ <<r, "write">> \notin ends
        /\ \A q \in Begun : <<r, "write">> \notin child[q].ends
    BY <1>6 DEF EndOfFile, WriteEndOpen, Holders
  <2>2. Rotates(r) => ~Lives(r) /\ thread[r] # "piped"
    BY <2>1 DEF LaunchInv, RunInv, PipeIsHeld
  <2> QED
    BY <1>6, <2>2, WriterStopsKeeps DEF EndOfFile
<1> QED
  BY <1>1, <1>2, <1>3, <1>4, <1>5, <1>6 DEF WriterStep

-----------------------------------------------------------------------------
(* All steps                                                               *)

LEMMA BeginRunKeeps ==
  ASSUME LaunchInv, NEW r \in Runs, BeginRun(r), stage = "running",
         UNCHANGED loadingVars
  PROVE  LaunchInv'
<1>1. /\ DOMAIN thread' = Begun \cup {r} /\ DOMAIN child' = Begun \cup {r}
      /\ thread'[r] = "ready" /\ child'[r] = NewChild
      /\ \A q \in Begun : thread'[q] = thread[q] /\ child'[q] = child[q]
      /\ r \notin Begun
  BY DEF BeginRun, Extended, Only, LaunchInv, Begun
<1>2. \A q \in Begun : RunInv(q)'
  BY <1>1, Elsewhere DEF LaunchInv, BeginRun, loadingVars
<1>3. RunInv(r)'
  BY <1>1 DEF RunInv, FdsAreRight, EnvironmentIsComputed, PipeIsHeld,
     SignalledForAReason, Lives, NewChild
<1> QED
  BY <1>1, <1>2, <1>3 DEF LaunchInv, Begun, loadingVars

LEMMA LoadingKeeps ==
  ASSUME LaunchInv, LoadingThread PROVE LaunchInv'
<1>1. stage = "loading" /\ UNCHANGED spawningVars
  BY DEF LoadingThread, LoadingStep, FromCommand, FetchServices, CanFetch,
     LoadService, Validate
<1>2. Begun = {} /\ Begun' = {} /\ DOMAIN child' = {}
  BY <1>1 DEF LaunchInv, Begun, spawningVars
<1> QED
  BY <1>2 DEF LaunchInv

LEMMA LaunchInvInitially ==
  ASSUME LaunchInit PROVE LaunchInv
BY DEF LaunchInit, SpawningInit, LaunchInv, Begun

LEMMA LaunchInvKept ==
  ASSUME SetupsAssumption, LaunchInv, [LaunchNext]_launchVars
  PROVE  LaunchInv'
<1>1. CASE LoadingThread
  BY <1>1, LoadingKeeps
<1>2. ASSUME NEW r \in Runs, stage = "running", BeginsRun(r)
      PROVE  LaunchInv'
  BY <1>2, BeginRunKeeps DEF BeginsRun
<1>3. ASSUME NEW r \in Begun, SpawnThread(r)
      PROVE  LaunchInv'
  BY <1>3, PrepareFailsKeeps, CreatePipeKeeps, SpawnFailsKeeps,
     ForkChildKeeps, ParentGoesOnKeeps DEF SpawnThread, SpawnStep
<1>4. ASSUME NEW r \in Begun, ChildProcess(r)
      PROVE  LaunchInv'
  BY <1>4, RedirectStdoutKeeps, RedirectStderrKeeps, ExecKeeps
     DEF ChildProcess, ChildStep
<1>5. ASSUME NEW r \in Begun, Program(r)
      PROVE  LaunchInv'
  BY <1>5, SetupsAssumption, ProgramWritesKeeps, ProgramExitsKeeps
     DEF Program, ProgramStep
<1>6. ASSUME NEW r \in Begun, WriterThread(r)
      PROVE  LaunchInv'
  BY <1>6, WriterStepKeeps DEF WriterThread
<1>7. CASE UNCHANGED launchVars
  BY <1>7, Untouched DEF launchVars, loadingVars, spawningVars
<1> QED
  BY <1>1, <1>2, <1>3, <1>4, <1>5, <1>6, <1>7 DEF LaunchNext

LEMMA LaunchInvAlways == LaunchSpec => []LaunchInv
<1>1. LaunchInit => LaunchInv
  BY LaunchInvInitially
<1>2. LaunchInv /\ [LaunchNext]_launchVars => LaunchInv'
  BY LaunchInvKept, SetupsAssumption
<1> QED
  BY <1>1, <1>2, PTL DEF LaunchSpec

-----------------------------------------------------------------------------
(* The theorems                                                            *)

(* A program's standard output and error are what its .toml file says,     *)
(* STDERR and STDOUT being resolved in the order of the redirections.      *)
THEOREM Output == LaunchSpec => []OutputGoesWhereToldTo
<1>1. LaunchInv => OutputGoesWhereToldTo
  BY DEF LaunchInv, RunInv, FdsAreRight, OutputGoesWhereToldTo, Out, Err,
     Rotates
<1> QED
  BY <1>1, LaunchInvAlways, PTL

(* A program runs in the environment that the documentation describes,     *)
(* whatever its service keeps, re-exports and adds.                        *)
THEOREM DocumentedEnvironment == LaunchSpec => []EnvironmentIsDocumented
<1>1. LaunchInv => EnvironmentIsDocumented
  BY EnvironmentDocumented
     DEF LaunchInv, RunInv, EnvironmentIsComputed, EnvironmentIsDocumented
<1> QED
  BY <1>1, LaunchInvAlways, PTL

(* A program that logs to a file which can be written never meets a broken *)
(* pipe: end of file is only seen by the log writer when the program has   *)
(* ended, and the writer does not stop before.                             *)
THEOREM NoBrokenPipe == LaunchSpec => []BrokenPipeOnlyWithoutLog
<1>1. LaunchInv => BrokenPipeOnlyWithoutLog
  BY DEF LaunchInv, RunInv, SignalledForAReason, BrokenPipeOnlyWithoutLog,
     Writable
<1> QED
  BY <1>1, LaunchInvAlways, PTL

-----------------------------------------------------------------------------
(* What is loaded                                                          *)

(* The names of the services that load_service makes of some files.        *)
NamesFrom(files) == {Named(f).name : f \in {g \in files : g.toml /\ g.parses}}

(* The files of the first k paths.                                         *)
FilesUpTo(k) == UNION {ToSet(setup.paths[j].files) : j \in 1..k}

DependenciesOf(s) == s.start_after \cup s.shutdown_after

(* The names that are loaded and those that are still to be loaded are the *)
(* names of all paths looked up.                                           *)
NothingLost ==
  setup.command = "none" /\ stage # "refused" =>
    /\ NamesOf(loaded) \cup NamesFrom(ToSet(waiting))
         = NamesFrom(FilesUpTo(fetched))
    /\ NoName \notin NamesOf(loaded)
    /\ stage = "running" => waiting = <<>> /\ fetched = Len(setup.paths)

LoadInv ==
  /\ setup \in Setups
  /\ fetched \in 0..Len(setup.paths)
  /\ waiting \in Seq(ServiceFile)
  /\ loaded \in Seq(Service)
  /\ stage \in {"loading", "running", "refused"}
  /\ NothingLost
  /\ stage = "running" =>
       \A i \in DOMAIN loaded : DependenciesOf(loaded[i]) \subseteq NamesOf(loaded)

LEMMA LoadInvInitially ==
  ASSUME SetupsAssumption, LaunchInit PROVE LoadInv
<1>1. /\ setup \in Setups /\ fetched = 0 /\ waiting = <<>> /\ loaded = <<>>
      /\ stage = "loading"
  BY DEF LaunchInit, LoadingInit
<1>2. setup.paths \in Seq(Path)
  BY <1>1, SetupsAssumption DEF Setup
<1>3. Len(setup.paths) \in Nat
  BY <1>2
<1>4. NamesOf(<<>>) = {} /\ ToSet(<<>>) = {} /\ FilesUpTo(0) = {}
  BY DEF NamesOf, ToSet, FilesUpTo
<1>5. NothingLost
  BY <1>1, <1>4 DEF NothingLost, NamesFrom
<1> QED
  BY <1>1, <1>3, <1>5 DEF LoadInv

LEMMA FromCommandLoads ==
  ASSUME SetupsAssumption, LoadInv, FromCommand
  PROVE  LoadInv'
<1>1. /\ UNCHANGED <<setup, fetched, waiting>> /\ stage' = "running"
      /\ setup.command # "none"
  BY DEF FromCommand
<1>2. setup.command \in {"program", "empty", "unknown"}
  BY <1>1, SetupsAssumption DEF LoadInv, Setup, Commands
<1>3. PICK s : /\ s = [file |-> NoName, toml |-> TRUE, parses |-> TRUE,
                       name |-> setup.command, command |-> setup.command,
                       start_after |-> {}, shutdown_after |-> {},
                       settings |-> DefaultSettings]
               /\ loaded' = <<s>>
  BY DEF FromCommand
<1>4. s \in Service
  <2>1. DefaultSettings \in SpawnSettings
    BY DEF DefaultSettings, SpawnSettings, EnvironmentType, Targets
  <2>2. /\ setup.command \in Names /\ NoName \in Names
        /\ setup.command \in {"program", "empty", "blank", "unparsable", "unknown"}
    BY <1>2, SetupsAssumption DEF Commands
  <2>3. {} \in SUBSET Names
    OBVIOUS
  <2> HIDE DEF DefaultSettings, SpawnSettings
  <2> QED
    BY <1>3, <2>1, <2>2, <2>3 DEF Service
<1>5. loaded' \in Seq(Service)
  BY <1>3, <1>4
<1>6. ASSUME NEW i \in DOMAIN loaded'
      PROVE  DependenciesOf(loaded'[i]) = {}
  <2>1. loaded'[i] = s
    <3>1. loaded' = <<s>>
      BY <1>3
    <3> QED
      BY <3>1
  <2> QED
    BY <1>3, <2>1 DEF DependenciesOf
<1>7. NothingLost'
  BY <1>1 DEF NothingLost
<1> QED
  BY <1>1, <1>5, <1>6, <1>7 DEF LoadInv

(* What another path adds to the files.                                    *)
LEMMA MoreFiles ==
  ASSUME NEW k \in Nat
  PROVE  FilesUpTo(k + 1) = FilesUpTo(k) \cup ToSet(setup.paths[k + 1].files)
<1>1. 1..(k + 1) = 1..k \cup {k + 1}
  OBVIOUS
<1> QED
  BY <1>1 DEF FilesUpTo

LEMMA NamesOfBoth ==
  ASSUME NEW F, NEW G
  PROVE  NamesFrom(F \cup G) = NamesFrom(F) \cup NamesFrom(G)
BY DEF NamesFrom

LEMMA FetchServicesLoads ==
  ASSUME SetupsAssumption, LoadInv, FetchServices
  PROVE  LoadInv'
<1>1. /\ stage = "loading" /\ setup.command = "none" /\ waiting = <<>>
      /\ fetched < Len(setup.paths) /\ fetched' = fetched + 1
      /\ UNCHANGED <<setup, loaded>>
  BY DEF FetchServices, CanFetch
<1>2. setup.paths \in Seq(Path) /\ fetched \in Nat /\ Len(setup.paths) \in Nat
  BY SetupsAssumption DEF LoadInv, Setup
<1>3. /\ fetched' \in 0..Len(setup.paths) /\ fetched' \in DOMAIN setup.paths
  BY <1>1, <1>2
<1> DEFINE path == setup.paths[fetched + 1]
<1>4. PICK files : files = path.files /\ files \in Seq(ServiceFile)
  <2>1. path \in Path
    BY <1>1, <1>2, <1>3
  <2> HIDE DEF path
  <2> QED
    BY <2>1 DEF Path
<1>5. NamesFrom(FilesUpTo(fetched + 1))
        = NamesFrom(FilesUpTo(fetched)) \cup NamesFrom(ToSet(files))
  BY <1>2, <1>4, MoreFiles, NamesOfBoth
<1>6. NamesFrom(ToSet(waiting)) = {}
  BY <1>1 DEF NamesFrom, ToSet
<1>7. CASE waiting' = files /\ UNCHANGED stage
  <2>1. NothingLost'
    BY <1>1, <1>5, <1>6, <1>7 DEF LoadInv, NothingLost, FilesUpTo
  <2> QED
    BY <1>1, <1>3, <1>4, <1>7, <2>1 DEF LoadInv
<1>8. CASE stage' = "refused" /\ UNCHANGED waiting
  BY <1>1, <1>3, <1>8 DEF LoadInv, NothingLost
<1> QED
  BY <1>1, <1>4, <1>7, <1>8 DEF FetchServices

LEMMA LoadServiceLoads ==
  ASSUME SetupsAssumption, LoadInv, LoadService
  PROVE  LoadInv'
<1> DEFINE f == Head(waiting)
           kept == f.toml /\ f.parses
<1>1. /\ stage = "loading" /\ waiting # <<>> /\ waiting' = Tail(waiting)
      /\ loaded' = IF kept THEN Append(loaded, Named(f)) ELSE loaded
      /\ UNCHANGED <<setup, fetched, stage>>
  BY DEF LoadService
<1>2. /\ waiting \in Seq(ServiceFile) /\ loaded \in Seq(Service)
      /\ f \in ServiceFile
  BY <1>1 DEF LoadInv
<1>3. ToSet(waiting) = {f} \cup ToSet(Tail(waiting))
  <2>1. \A i \in DOMAIN waiting : i = 1 \/ (i - 1 \in DOMAIN Tail(waiting)
                                       /\ waiting[i] = Tail(waiting)[i - 1])
    BY <1>1, <1>2
  <2>2. \A i \in DOMAIN Tail(waiting) : /\ i + 1 \in DOMAIN waiting
                                       /\ Tail(waiting)[i] = waiting[i + 1]
    BY <1>1, <1>2
  <2>3. 1 \in DOMAIN waiting /\ f = waiting[1]
    BY <1>1, <1>2
  <2> HIDE DEF f
  <2>4. ASSUME NEW g \in ToSet(waiting)
        PROVE  g = f \/ g \in ToSet(Tail(waiting))
    BY <2>1, <2>3, ZenonT(40) DEF ToSet
  <2>5. ASSUME NEW g \in ToSet(Tail(waiting)) PROVE g \in ToSet(waiting)
    BY <2>2 DEF ToSet
  <2>6. f \in ToSet(waiting)
    BY <2>3 DEF ToSet
  <2> QED
    BY <2>4, <2>5, <2>6
<1> HIDE DEF f
<1>4. Named(f) \in Service /\ Named(f).name # NoName
  BY <1>2 DEF Named, ServiceFile, Service
<1>5. Tail(waiting) \in Seq(ServiceFile) /\ loaded' \in Seq(Service)
  BY <1>1, <1>2, <1>4
<1>6. NamesFrom(ToSet(waiting))
        = NamesFrom(ToSet(Tail(waiting)))
            \cup (IF kept THEN {Named(f).name} ELSE {})
  BY <1>3 DEF NamesFrom
<1>7. NamesOf(loaded')
        = NamesOf(loaded) \cup (IF kept THEN {Named(f).name} ELSE {})
  <2>1. CASE kept
    <3>1. loaded' = Append(loaded, Named(f))
      BY <1>1, <2>1
    <3>2. /\ DOMAIN loaded' = DOMAIN loaded \cup {Len(loaded) + 1}
          /\ loaded'[Len(loaded) + 1] = Named(f)
          /\ \A i \in DOMAIN loaded : loaded'[i] = loaded[i]
      BY <1>2, <1>4, <3>1
    <3> QED
      BY <2>1, <3>2 DEF NamesOf
  <2>2. CASE ~kept
    BY <1>1, <2>2
  <2> QED
    BY <2>1, <2>2
<1>8. FilesUpTo(fetched)' = FilesUpTo(fetched)
  BY <1>1 DEF FilesUpTo
<1>9. NothingLost'
  <2>1. waiting' = Tail(waiting)
    BY <1>1
  <2> QED
    BY <1>1, <1>4, <1>6, <1>7, <1>8, <2>1 DEF LoadInv, NothingLost
<1> QED
  BY <1>1, <1>5, <1>9 DEF LoadInv

LEMMA ValidateLoads ==
  ASSUME SetupsAssumption, LoadInv, Validate
  PROVE  LoadInv'
<1>1. /\ stage = "loading" /\ setup.command = "none" /\ waiting = <<>>
      /\ fetched = Len(setup.paths) /\ stage' \in {"running", "refused"}
      /\ stage' = "running" => Valid(loaded)
      /\ UNCHANGED <<setup, fetched, waiting, loaded>>
  BY DEF Validate
<1>2. NothingLost'
  BY <1>1 DEF LoadInv, NothingLost, FilesUpTo
<1>3. stage' = "running" =>
        \A i \in DOMAIN loaded : DependenciesOf(loaded[i]) \subseteq NamesOf(loaded)
  BY <1>1 DEF Valid, DependenciesOf
<1> QED
  BY <1>1, <1>2, <1>3 DEF LoadInv

LEMMA LoadInvAlways == LaunchSpec => []LoadInv
<1>1. LaunchInit => LoadInv
  BY LoadInvInitially, SetupsAssumption
<1>2. LoadInv /\ [LaunchNext]_launchVars => LoadInv'
  <2> SUFFICES ASSUME LoadInv, [LaunchNext]_launchVars PROVE LoadInv'
    OBVIOUS
  <2>1. CASE LoadingThread
    BY <2>1, SetupsAssumption, FromCommandLoads, FetchServicesLoads,
       LoadServiceLoads, ValidateLoads DEF LoadingThread, LoadingStep
  <2>2. CASE UNCHANGED loadingVars
    BY <2>2 DEF loadingVars, LoadInv, NothingLost, FilesUpTo
  <2> QED
    BY <2>1, <2>2 DEF LaunchNext, launchVars, BeginsRun, SpawnThread,
       ChildProcess, Program, WriterThread
<1> QED
  BY <1>1, <1>2, PTL DEF LaunchSpec

(* The service of a name that the repo keeps is one of those loaded.       *)
LEMMA RepoKeepsOne ==
  ASSUME LoadInv, NEW n \in NamesOf(loaded)
  PROVE  \E i \in DOMAIN loaded : Repo[n] = loaded[i] /\ loaded[i].name = n
<1> DEFINE I == {i \in DOMAIN loaded : loaded[i].name = n}
<1>1. Len(loaded) \in Nat /\ I \in SUBSET (0..Len(loaded)) /\ I # {}
  BY DEF LoadInv, NamesOf
<1>2. Max(I) \in I
  BY <1>1, MaxIsGreatest
<1>3. Repo[n] = loaded[Max(I)]
  BY DEF Repo
<1> HIDE DEF I
<1> QED
  BY <1>2, <1>3 DEF I

(* If there are as many services as names, no two have the same name.      *)
LEMMA NamesAreDistinct ==
  ASSUME LoadInv, Len(loaded) = Cardinality(NamesOf(loaded)),
         NEW i \in DOMAIN loaded, NEW j \in DOMAIN loaded,
         loaded[i].name = loaded[j].name
  PROVE  i = j
<1> DEFINE name == [k \in 1..Len(loaded) |-> loaded[k].name]
<1>1. loaded \in Seq(Service) /\ Len(loaded) \in Nat
      /\ DOMAIN loaded = 1..Len(loaded)
  BY DEF LoadInv
<1>2. name \in Surjection(1..Len(loaded), NamesOf(loaded))
  BY <1>1 DEF Surjection, NamesOf
<1>3. IsFiniteSet(1..Len(loaded)) /\ Cardinality(1..Len(loaded)) = Len(loaded)
  BY <1>1, FS_Interval
<1>4. name \in Injection(1..Len(loaded), NamesOf(loaded))
  BY <1>2, <1>3, FS_Surjection
<1> QED
  BY <1>1, <1>4 DEF Injection, IsInjective

-----------------------------------------------------------------------------
(* Theorems about loading                                                  *)

(* Whatever is in the directories: once services run, the dependencies of  *)
(* every one that the repo keeps are in the repo, and none is nameless.    *)
THEOREM Dependencies == LaunchSpec => []DependenciesExist
<1>1. LoadInv => DependenciesExist
  <2> SUFFICES ASSUME LoadInv, stage = "running", NEW n \in DOMAIN Repo
               PROVE  /\ DependenciesOf(Repo[n]) \subseteq DOMAIN Repo
                      /\ LoadsServices => n # NoName
    BY DEF DependenciesExist, DependenciesOf
  <2>1. DOMAIN Repo = NamesOf(loaded)
    BY DEF Repo
  <2>2. PICK i \in DOMAIN loaded : Repo[n] = loaded[i]
    BY <2>1, RepoKeepsOne
  <2> QED
    BY <2>1, <2>2 DEF LoadInv, NothingLost, LoadsServices
<1> QED
  BY <1>1, LoadInvAlways, PTL

(* However the service files are spread over the paths, the services are   *)
(* those of all files together, and if their names differ the monitor      *)
(* finds the same ones by name as the supervisor.                          *)
THEOREM Together == LaunchSpec => []LoadedTogether
<1>1. LoadInv => LoadedTogether
  <2> SUFFICES ASSUME LoadInv, LoadsServices PROVE LoadedTogether
    BY DEF LoadedTogether
  <2> DEFINE files == UNION {ToSet(setup.paths[k].files) :
                               k \in DOMAIN setup.paths}
             names == NamesFrom(files)
  <2>1. stage = "running" /\ setup.command = "none"
    BY DEF LoadsServices
  <2>2. setup.paths \in Seq(Path)
    BY SetupsAssumption DEF LoadInv, Setup
  <2>3. FilesUpTo(fetched) = files
    BY <2>1, <2>2 DEF LoadInv, NothingLost, FilesUpTo
  <2>4. NamesOf(loaded) = names
    <3>1. NamesFrom(ToSet(<<>>)) = {}
      BY DEF NamesFrom, ToSet
    <3> QED
      BY <2>1, <2>3, <3>1 DEF LoadInv, NothingLost
  <2>5. DOMAIN Repo = names
    BY <2>4 DEF Repo
  <2>6. ASSUME Len(loaded) = Cardinality(names), NEW n \in names
        PROVE  GetService(n) = Repo[n]
    <3> DEFINE I == {i \in DOMAIN loaded : loaded[i].name = n}
    <3>1. /\ Len(loaded) \in Nat /\ I # {}
          /\ I \in SUBSET (0..Len(loaded)) /\ I \in SUBSET Nat
      BY <2>4 DEF LoadInv, NamesOf
    <3>2. ASSUME NEW i \in I, NEW j \in I PROVE i = j
      BY <2>4, <2>6, <3>2, NamesAreDistinct
    <3>3. Max(I) = Min(I)
      <4> HIDE DEF I
      <4>1. Max(I) \in I
        BY <3>1, MaxIsGreatest
      <4>2. Min(I) \in I
        BY <3>1, MinIsLeast
      <4> QED
        BY <3>2, <4>1, <4>2
    <3> QED
      BY <2>4, <3>3 DEF Repo, GetService
  <2> QED
    BY <2>5, <2>6 DEF LoadedTogether, NamesFrom
<1> QED
  BY <1>1, LoadInvAlways, PTL

-----------------------------------------------------------------------------
(* Threads, children and log writers                                       *)

AllEnds == UNION {PipeEnds(q) : q \in Begun}

(* The types of what belongs to a run, but for its log writer.             *)
RunType(r) ==
  /\ r \in Runs
  /\ thread[r] \in {"ready", "piped", "forked", "reported", "failed",
                    "panicked"}
  /\ child[r].state \in {"unborn", "born", "redirecting", "redirected",
                         "running", "exited"}
  /\ child[r].ends \subseteq AllEnds

Writer(size) ==
  [state : {"none", "starting", "copying", "ended", "failed"},
   pipe : 0..PipeSize, buffer : 0..PipeSize, written : Nat, stamp : Nat,
   chunk : Nat, filled : 0..size]

(* How many bytes are in the files of a writer.                            *)
InFiles(w, size) == IF w.chunk = 0 THEN 0 ELSE (w.chunk - 1) * size + w.filled

(* Every byte is in a file, in the buffer or in the pipe.  A writer works  *)
(* for a thread that has reported and rotates, and one that has seen the   *)
(* end of file has left nothing and nobody behind.                         *)
WriterInv(r) ==
  LET w == writer[r] IN
  /\ w \in Writer(SettingsOf(r).rotate)
  /\ w.state # "none" => thread[r] = "reported" /\ Rotates(r)
  /\ w.state \in {"none", "starting"} => w.chunk = 0
  /\ w.chunk = 0 => w.buffer = 0
  /\ w.written = InFiles(w, SettingsOf(r).rotate) + w.buffer + w.pipe
  /\ w.state = "ended" =>
       w.pipe = 0 /\ w.buffer = 0 /\ ChunkOpen(r) /\ ~Lives(r)

StampOf(r) == IF SettingsOf(r).stamped THEN writer[r].stamp ELSE 0

SameFiles(q, r) ==
  SettingsOf(q).stdout = SettingsOf(r).stdout /\ StampOf(q) = StampOf(r)

NthChunk(r, k) ==
  [path |-> SettingsOf(r).stdout, stamp |-> StampOf(r), count |-> k]

(* The chunks of a run that nobody else writes are full but for the last.  *)
FilesAreRight(r) ==
  (\A q \in Begun \ {r} : writer[q].chunk > 0 => ~SameFiles(q, r)) =>
    \A k \in 0..(writer[r].chunk - 1) :
      /\ NthChunk(r, k) \in DOMAIN file
      /\ r \in DOMAIN file[NthChunk(r, k)]
      /\ file[NthChunk(r, k)][r] =
           IF k = writer[r].chunk - 1 THEN writer[r].filled
                                      ELSE SettingsOf(r).rotate

WritingInv ==
  /\ thread = [q \in Begun |-> thread[q]]
  /\ DOMAIN writer = Begun
  /\ ends \subseteq AllEnds
  /\ \A r \in Begun : RunType(r) /\ WriterInv(r) /\ FilesAreRight(r)

LEMMA SettingsType ==
  ASSUME LoadInv, NEW r \in Runs
  PROVE  /\ SettingsOf(r).rotate \in Nat /\ SettingsOf(r).stdout \in Targets
         /\ SettingsOf(r).stamped \in BOOLEAN
<1>1. r[1] \in NamesOf(loaded)
  BY DEF Runs
<1>2. PICK i \in DOMAIN loaded : Repo[r[1]] = loaded[i]
  BY <1>1, RepoKeepsOne
<1>3. PICK service \in Service : Repo[r[1]] = service
  BY <1>2 DEF LoadInv
<1>4. SettingsOf(r) \in SpawnSettings
  BY <1>3 DEF SettingsOf, Service
<1> QED
  BY <1>4 DEF SpawnSettings

(* What a step that leaves the services alone leaves alone.                *)
LEMMA SameServices ==
  ASSUME UNCHANGED loadingVars
  PROVE  /\ Runs' = Runs /\ LoadInv' = LoadInv
         /\ \A r : SettingsOf(r)' = SettingsOf(r) /\ Rotates(r)' = Rotates(r)
BY DEF loadingVars, Runs, LoadInv, NothingLost, FilesUpTo, SettingsOf, Repo,
   NamesOf, Rotates

LEMMA ChunkNames ==
  ASSUME NEW r, NEW k
  PROVE  /\ [ChunkName(r) EXCEPT !.count = k] = NthChunk(r, k)
         /\ ChunkName(r) = NthChunk(r, writer[r].chunk)
         /\ CurrentChunk(r) = NthChunk(r, writer[r].chunk - 1)
BY DEF ChunkName, CurrentChunk, NthChunk, StampOf

(* The writer of another run, and what it does to the files, are no        *)
(* concern of run q, if they have files of their own.                      *)
LEMMA OthersFiles ==
  ASSUME UNCHANGED loadingVars, DOMAIN thread' = DOMAIN thread,
         NEW r \in Begun, NEW q \in Begun, q # r, FilesAreRight(q),
         \A p \in Begun \ {r} : writer'[p] = writer[p],
         writer[r].chunk > 0 => /\ writer'[r].chunk > 0
                                /\ writer'[r].stamp = writer[r].stamp,
         \A f \in DOMAIN file :
           \/ f \in DOMAIN file' /\ file'[f] = file[f]
           \/ writer'[r].chunk > 0 /\ \E k : f = NthChunk(r, k)',
         writer[r].chunk \in Nat, writer'[r].chunk \in Nat
  PROVE  FilesAreRight(q)'
<1> SUFFICES ASSUME (\A p \in Begun \ {q} : writer[p].chunk > 0 => ~SameFiles(p, q))',
                    NEW k \in 0..(writer[q].chunk - 1)
             PROVE  /\ NthChunk(q, k) \in DOMAIN file'
                    /\ q \in DOMAIN file'[NthChunk(q, k)]
                    /\ file'[NthChunk(q, k)][q] =
                         IF k = writer[q].chunk - 1 THEN writer[q].filled
                                                    ELSE SettingsOf(q).rotate
  BY SameServices DEF FilesAreRight, NthChunk, StampOf
<1>1. \A p \in Begun \ {r} : StampOf(p)' = StampOf(p)
  BY SameServices DEF StampOf
<1>2. \A p \in Begun \ {q, r} : writer[p].chunk > 0 => ~SameFiles(p, q)
  BY <1>1, SameServices DEF SameFiles, Begun
<1>3. writer[r].chunk > 0 => ~SameFiles(r, q)
  BY <1>1, SameServices DEF SameFiles, StampOf, Begun
<1>4. \A p \in Begun \ {q} : writer[p].chunk > 0 => ~SameFiles(p, q)
  BY <1>2, <1>3
<1>5. /\ NthChunk(q, k) \in DOMAIN file
      /\ q \in DOMAIN file[NthChunk(q, k)]
      /\ file[NthChunk(q, k)][q] =
           IF k = writer[q].chunk - 1 THEN writer[q].filled
                                      ELSE SettingsOf(q).rotate
  BY <1>4 DEF FilesAreRight
<1>6. ~ (writer'[r].chunk > 0 /\ \E j : NthChunk(q, k) = NthChunk(r, j)')
  <2> SUFFICES ASSUME writer'[r].chunk > 0, NEW j,
                      NthChunk(q, k) = NthChunk(r, j)'
               PROVE  FALSE
    OBVIOUS
  <2>1. /\ SettingsOf(q).stdout = SettingsOf(r)'.stdout
        /\ StampOf(q) = StampOf(r)'
    BY DEF NthChunk
  <2>2. SameFiles(r, q)'
    BY <1>1, <2>1, SameServices DEF SameFiles
  <2> QED
    BY <2>2 DEF Begun
<1> QED
  BY <1>5, <1>6

(* A step of one run that leaves the types of that run right.              *)
LEMMA TypesKept ==
  ASSUME WritingInv, NEW r \in Begun, UNCHANGED loadingVars,
         thread' = [thread EXCEPT ![r] = thread'[r]],
         \A q \in Begun \ {r} : child'[q] = child[q],
         thread'[r] \in {"ready", "piped", "forked", "reported", "failed",
                        "panicked"},
         child'[r].state \in {"unborn", "born", "redirecting", "redirected",
                             "running", "exited"},
         child'[r].ends \subseteq AllEnds, ends' \subseteq AllEnds
  PROVE  /\ thread' = [q \in Begun' |-> thread'[q]]
         /\ ends' \subseteq AllEnds'
         /\ \A q \in Begun' : RunType(q)'
<1>1. Begun' = Begun /\ AllEnds' = AllEnds
  BY DEF WritingInv, Begun, AllEnds, PipeEnds
<1>2. thread' = [q \in Begun |-> thread'[q]]
  BY DEF Begun
<1>3. \A q \in Begun \ {r} : RunType(q)'
  <2>1. \A q \in Begun \ {r} : thread'[q] = thread[q]
    BY DEF Begun
  <2> QED
    BY <1>1, <2>1, SameServices DEF WritingInv, RunType
<1>4. RunType(r)'
  BY <1>1, SameServices DEF WritingInv, RunType
<1> QED
  BY <1>1, <1>2, <1>3, <1>4

(* A step of run r that leaves the writers and the files alone.            *)
LEMMA QuietStep ==
  ASSUME WritingInv, NEW r \in Begun, UNCHANGED loadingVars,
         UNCHANGED <<writer, file>>,
         thread' = [thread EXCEPT ![r] = thread'[r]],
         \A q \in Begun \ {r} : child'[q] = child[q],
         thread'[r] \in {"ready", "piped", "forked", "reported", "failed",
                        "panicked"},
         child'[r].state \in {"unborn", "born", "redirecting", "redirected",
                             "running", "exited"},
         child'[r].ends \subseteq AllEnds, ends' \subseteq AllEnds,
         thread[r] = "reported" => thread'[r] = "reported" /\ (Lives(r)' => Lives(r))
  PROVE  WritingInv'
<1>1. Begun' = Begun
  BY DEF Begun
<1>2. /\ thread' = [q \in Begun' |-> thread'[q]]
      /\ ends' \subseteq AllEnds'
      /\ \A q \in Begun' : RunType(q)'
  BY TypesKept
<1>3. ASSUME NEW q \in Begun PROVE WriterInv(q)'
  <2>1. WriterInv(q)
    BY DEF WritingInv
  <2>2. thread[q] = "reported" =>
          thread'[q] = "reported" /\ (Lives(q)' => Lives(q))
    BY DEF Begun, Lives
  <2>3. writer'[q] = writer[q]
    OBVIOUS
  <2>4. writer[q].state = "ended" => ~Lives(q)'
    BY <2>1, <2>2 DEF WriterInv
  <2>5. ChunkOpen(q)' = ChunkOpen(q)
    BY SameServices DEF ChunkOpen
  <2>6. Writer(SettingsOf(q).rotate)' = Writer(SettingsOf(q).rotate)
    BY SameServices DEF Writer
  <2> QED
    BY <2>1, <2>2, <2>3, <2>4, <2>5, <2>6, SameServices
       DEF WriterInv, InFiles
<1>4. ASSUME NEW q \in Begun PROVE FilesAreRight(q)'
  BY <1>1, SameServices
     DEF WritingInv, FilesAreRight, SameFiles, StampOf, NthChunk
<1> QED
  BY <1>1, <1>2, <1>3, <1>4 DEF WritingInv

(* A step of run r in which its log writer, or what is in its pipe, goes   *)
(* on.                                                                     *)
LEMMA WriterMoves ==
  ASSUME LoadInv, WritingInv, NEW r \in Begun, UNCHANGED loadingVars,
         UNCHANGED child,
         thread' = [thread EXCEPT ![r] = thread'[r]],
         thread'[r] \in {"forked", "reported"}, ends' \subseteq ends,
         DOMAIN writer' = DOMAIN writer,
         \A q \in Begun \ {r} : writer'[q] = writer[q],
         WriterInv(r)', FilesAreRight(r)',
         writer[r].chunk > 0 => /\ writer'[r].chunk > 0
                                /\ writer'[r].stamp = writer[r].stamp,
         \A f \in DOMAIN file :
           \/ f \in DOMAIN file' /\ file'[f] = file[f]
           \/ writer'[r].chunk > 0 /\ \E k : f = NthChunk(r, k)'
  PROVE  WritingInv'
<1>1. Begun' = Begun
  BY DEF Begun
<1>2. /\ thread' = [q \in Begun' |-> thread'[q]]
      /\ ends' \subseteq AllEnds'
      /\ \A q \in Begun' : RunType(q)'
  <2>1. child'[r].ends \subseteq AllEnds /\ ends' \subseteq AllEnds
    BY DEF WritingInv, RunType
  <2>2. child'[r].state \in {"unborn", "born", "redirecting", "redirected",
                             "running", "exited"}
    BY DEF WritingInv, RunType
  <2> QED
    BY <2>1, <2>2, TypesKept
<1>3. ASSUME NEW q \in Begun, q # r PROVE WriterInv(q)'
  <2>1. WriterInv(q)
    BY DEF WritingInv
  <2>2. thread'[q] = thread[q] /\ Lives(q)' = Lives(q) /\ writer'[q] = writer[q]
    BY <1>3 DEF Begun, Lives
  <2>3. ChunkOpen(q)' = ChunkOpen(q)
    BY <2>2, SameServices DEF ChunkOpen
  <2>4. Writer(SettingsOf(q).rotate)' = Writer(SettingsOf(q).rotate)
    BY SameServices DEF Writer
  <2> QED
    BY <2>1, <2>2, <2>3, <2>4, SameServices DEF WriterInv, InFiles
<1>4. writer[r].chunk \in Nat /\ writer'[r].chunk \in Nat
  BY DEF WritingInv, WriterInv, Writer
<1>5. ASSUME NEW q \in Begun, q # r PROVE FilesAreRight(q)'
  <2>1. DOMAIN thread' = DOMAIN thread /\ FilesAreRight(q)
    BY <1>1 DEF Begun, WritingInv
  <2> QED
    BY <1>4, <1>5, <2>1, OthersFiles
<1> QED
  BY <1>1, <1>2, <1>3, <1>5 DEF WritingInv

(* The steps that have nothing to do with writers.                         *)
LEMMA QuietSteps ==
  ASSUME LoadInv, LaunchInv, WritingInv, UNCHANGED loadingVars, NEW r \in Begun,
         \/ PrepareFails(r) \/ CreatePipe(r) \/ SpawnFails(r) \/ ForkChild(r)
         \/ ChildStep(r) \/ ProgramExits(r)
  PROVE  WritingInv'
<1> DEFINE states == {"unborn", "born", "redirecting", "redirected", "running",
                      "exited"}
           stages == {"ready", "piped", "forked", "reported", "failed",
                      "panicked"}
<1>1. /\ thread[r] \in stages /\ child[r].state \in states
      /\ child[r].ends \subseteq AllEnds /\ ends \subseteq AllEnds
      /\ PipeEnds(r) \subseteq AllEnds
      /\ thread = [q \in Begun |-> thread[q]]
      /\ DOMAIN child = Begun /\ DOMAIN child[r] = DOMAIN NewChild
  BY DEF WritingInv, RunType, LaunchInv, RunInv, AllEnds
<1>2. CASE PrepareFails(r)
  <2>1. /\ thread' = [thread EXCEPT ![r] = thread'[r]]
        /\ thread'[r] \in stages /\ thread[r] = "ready"
        /\ UNCHANGED <<child, ends, writer, file>>
    BY <1>1, <1>2 DEF PrepareFails
  <2> QED
    BY <1>1, <2>1, QuietStep
<1>3. CASE CreatePipe(r)
  <2>1. /\ thread' = [thread EXCEPT ![r] = thread'[r]]
        /\ thread'[r] \in stages /\ thread[r] = "ready"
        /\ ends' \subseteq AllEnds
        /\ UNCHANGED <<child, writer, file>>
    BY <1>1, <1>3 DEF CreatePipe
  <2> QED
    BY <1>1, <2>1, QuietStep
<1>4. CASE SpawnFails(r)
  <2>1. /\ thread' = [thread EXCEPT ![r] = thread'[r]]
        /\ thread'[r] \in stages /\ thread[r] \in {"ready", "piped"}
        /\ ends' \subseteq AllEnds
        /\ UNCHANGED <<child, writer, file>>
    BY <1>1, <1>4 DEF SpawnFails
  <2> QED
    BY <1>1, <2>1, QuietStep
<1>5. CASE ForkChild(r)
  <2>1. /\ thread' = [thread EXCEPT ![r] = thread'[r]]
        /\ thread'[r] \in stages /\ thread[r] \in {"ready", "piped"}
        /\ \A q \in Begun \ {r} : child'[q] = child[q]
        /\ child'[r].state \in states /\ child'[r].ends \subseteq AllEnds
        /\ UNCHANGED <<ends, writer, file>>
    BY <1>1, <1>5 DEF ForkChild, NewChild
  <2> QED
    BY <1>1, <2>1, QuietStep
<1>6. CASE ChildStep(r) \/ ProgramExits(r)
  <2>1. UNCHANGED <<thread, ends, writer, file>> /\ Lives(r)
    BY <1>6 DEF ChildStep, RedirectStdout, RedirectStderr, Exec, ProgramExits,
       Lives
  <2>2. /\ \A q \in Begun \ {r} : child'[q] = child[q]
        /\ child'[r].state \in states /\ child'[r].ends \subseteq AllEnds
    <3>0. ASSUME NEW code, Panics(r, code)
          PROVE  /\ \A q \in Begun \ {r} : child'[q] = child[q]
                 /\ child'[r].state \in states
                 /\ child'[r].ends \subseteq AllEnds
      BY <1>1, <3>0 DEF Panics, NewChild
    <3>1. CASE RedirectStdout(r)
      <4>1. CASE Panics(r, 101)
        BY <3>0, <4>1
      <4>2. ASSUME NEW fds, child' = [child EXCEPT ![r].state = "redirecting",
                                                   ![r].fds = fds]
            PROVE  /\ \A q \in Begun \ {r} : child'[q] = child[q]
                   /\ child'[r].state \in states
                   /\ child'[r].ends \subseteq AllEnds
        BY <1>1, <4>2 DEF NewChild
      <4> QED
        BY <3>1, <4>1, <4>2 DEF RedirectStdout
    <3>2. CASE RedirectStderr(r)
      <4>1. CASE Panics(r, 102)
        BY <3>0, <4>1
      <4>2. ASSUME NEW fds, child' = [child EXCEPT ![r].state = "redirected",
                                                   ![r].fds = fds]
            PROVE  /\ \A q \in Begun \ {r} : child'[q] = child[q]
                   /\ child'[r].state \in states
                   /\ child'[r].ends \subseteq AllEnds
        BY <1>1, <4>2 DEF NewChild
      <4> QED
        BY <3>2, <4>1, <4>2 DEF RedirectStderr
    <3>3. CASE Exec(r)
      <4>1. CASE Panics(r, 103)
        BY <3>0, <4>1
      <4>2. ASSUME NEW env, child' = [child EXCEPT ![r].state = "running",
                                                   ![r].environment = env]
            PROVE  /\ \A q \in Begun \ {r} : child'[q] = child[q]
                   /\ child'[r].state \in states
                   /\ child'[r].ends \subseteq AllEnds
        BY <1>1, <4>2 DEF NewChild
      <4> QED
        BY <3>3, <4>1, <4>2 DEF Exec
    <3>4. CASE ProgramExits(r)
      BY <1>1, <3>4 DEF ProgramExits, NewChild
    <3> QED
      BY <1>6, <3>1, <3>2, <3>3, <3>4 DEF ChildStep
  <2>3. thread' = [thread EXCEPT ![r] = thread'[r]]
    BY <1>1, <2>1
  <2> QED
    BY <1>1, <2>1, <2>2, <2>3, QuietStep
<1> QED
  BY <1>2, <1>3, <1>4, <1>5, <1>6

(* What a writer's own steps start from.                                   *)
LEMMA BeforeWriting ==
  ASSUME LoadInv, WritingInv, UNCHANGED loadingVars, NEW r \in Begun
  PROVE  /\ writer[r] \in Writer(SettingsOf(r).rotate)
         /\ SettingsOf(r).rotate \in Nat /\ SettingsOf(r).stdout \in Targets
         /\ WriterInv(r) /\ FilesAreRight(r) /\ DOMAIN writer = Begun
         /\ thread = [thread EXCEPT ![r] = thread[r]]
         /\ Writer(SettingsOf(r).rotate)' = Writer(SettingsOf(r).rotate)
         /\ SettingsOf(r)' = SettingsOf(r) /\ Rotates(r)' = Rotates(r)
<1>1. r \in Runs /\ thread = [q \in Begun |-> thread[q]]
  BY DEF WritingInv, RunType
<1>2. thread = [thread EXCEPT ![r] = thread[r]]
  BY <1>1
<1> QED
  BY <1>1, <1>2, SettingsType, SameServices DEF WritingInv, WriterInv, Writer

(* A step of the writer that leaves the files and its place in them alone. *)
LEMMA FilesLeftAlone ==
  ASSUME LoadInv, WritingInv, NEW r \in Begun, UNCHANGED loadingVars,
         UNCHANGED file, DOMAIN thread' = DOMAIN thread,
         \A q \in Begun \ {r} : writer'[q] = writer[q],
         writer'[r].chunk = writer[r].chunk,
         \/ writer[r].chunk = 0
         \/ /\ writer'[r].stamp = writer[r].stamp
            /\ writer'[r].filled = writer[r].filled
  PROVE  FilesAreRight(r)'
<1>1. CASE writer[r].chunk = 0
  BY <1>1 DEF FilesAreRight
<1>2. CASE /\ writer'[r].stamp = writer[r].stamp
           /\ writer'[r].filled = writer[r].filled
  <2>1. Begun' = Begun /\ FilesAreRight(r)
    BY DEF Begun, WritingInv
  <2>2. \A q \in Begun : /\ StampOf(q)' = StampOf(q)
                          /\ writer'[q].chunk = writer[q].chunk
    BY <1>2, SameServices DEF StampOf
  <2> QED
    BY <1>2, <2>1, <2>2, SameServices DEF FilesAreRight, SameFiles, NthChunk
<1> QED
  BY <1>1, <1>2

LEMMA ParentGoesOnWrites ==
  ASSUME LoadInv, LaunchInv, WritingInv, UNCHANGED loadingVars, NEW r \in Begun,
         ParentGoesOn(r)
  PROVE  WritingInv'
<1> DEFINE size == SettingsOf(r).rotate
<1>1. /\ thread' = [thread EXCEPT ![r] = thread'[r]] /\ thread'[r] = "reported"
      /\ thread[r] = "forked" /\ ends' \subseteq ends
      /\ UNCHANGED <<child, file>>
  BY DEF ParentGoesOn, Begun
<1>2. PICK w : w = writer[r] /\ w \in Writer(size) /\ w.state = "none"
  BY <1>1, BeforeWriting DEF WriterInv
<1>3. /\ DOMAIN writer' = DOMAIN writer
      /\ \A q \in Begun \ {r} : writer'[q] = writer[q]
      /\ writer'[r] = IF Rotates(r) THEN [w EXCEPT !.state = "starting"] ELSE w
  BY <1>2, BeforeWriting DEF ParentGoesOn
<1>4. PICK new : /\ new = writer'[r] /\ new \in Writer(size)
                 /\ new.state = IF Rotates(r) THEN "starting" ELSE "none"
                 /\ new.pipe = w.pipe /\ new.buffer = w.buffer
                 /\ new.written = w.written /\ new.stamp = w.stamp
                 /\ new.chunk = w.chunk /\ new.filled = w.filled
  BY <1>2, <1>3 DEF Writer
<1>5. WriterInv(r)'
  BY <1>1, <1>2, <1>4, BeforeWriting DEF WriterInv, InFiles
<1>6. FilesAreRight(r)'
  BY <1>1, <1>2, <1>3, <1>4, FilesLeftAlone DEF Begun
<1> QED
  BY <1>1, <1>2, <1>3, <1>4, <1>5, <1>6, WriterMoves

LEMMA ProgramWritesIt ==
  ASSUME LoadInv, LaunchInv, WritingInv, UNCHANGED loadingVars, NEW r \in Begun,
         ProgramWrites(r)
  PROVE  WritingInv'
<1> DEFINE size == SettingsOf(r).rotate
<1>1. /\ child[r].state = "running" /\ child[r].fds[1] = "pipe"
      /\ UNCHANGED <<thread, ends, file>>
  BY DEF ProgramWrites
<1>2. thread[r] \in {"forked", "reported"} /\ Lives(r)
  BY <1>1 DEF LaunchInv, RunInv, PipeIsHeld, Lives
<1>3. Rotates(r)
  BY <1>1, BeforeWriting, SetupsAssumption
     DEF LaunchInv, RunInv, FdsAreRight, Out, Targets
<1>4. CASE UNCHANGED writer
  <2>1. child' = [child EXCEPT ![r].state = "exited", ![r].ends = {},
                               ![r].code = 141]
        \/ UNCHANGED child
    BY <1>4 DEF ProgramWrites
  <2>2. /\ \A q \in Begun \ {r} : child'[q] = child[q]
        /\ child'[r].state \in {"running", "exited"}
        /\ child'[r].ends \subseteq child[r].ends
    BY <1>1, <2>1 DEF LaunchInv, RunInv, NewChild
  <2>3. child'[r].ends \subseteq AllEnds /\ ends' \subseteq AllEnds
    BY <1>1, <2>2 DEF WritingInv, RunType
  <2> QED
    BY <1>1, <1>2, <1>4, <2>2, <2>3, BeforeWriting, QuietStep
<1>5. CASE /\ writer[r].pipe < PipeSize /\ UNCHANGED child
           /\ writer' = [writer EXCEPT ![r].written = @ + 1, ![r].pipe = @ + 1]
  <2>1. PICK w : w = writer[r] /\ w \in Writer(size)
    BY BeforeWriting
  <2>2. /\ DOMAIN writer' = DOMAIN writer
        /\ \A q \in Begun \ {r} : writer'[q] = writer[q]
        /\ writer'[r] = [w EXCEPT !.written = @ + 1, !.pipe = @ + 1]
    BY <1>5, <2>1, BeforeWriting DEF Writer
  <2>3. PICK new : /\ new = writer'[r] /\ new \in Writer(size)
                   /\ new.state = w.state
                   /\ new.pipe = w.pipe + 1 /\ new.buffer = w.buffer
                   /\ new.written = w.written + 1 /\ new.stamp = w.stamp
                   /\ new.chunk = w.chunk /\ new.filled = w.filled
    <3>1. w.written + 1 \in Nat /\ w.pipe + 1 \in 0..PipeSize
      BY <1>5, <2>1, SpawningAssumption DEF Writer
    <3> QED
      BY <2>1, <2>2, <3>1 DEF Writer
  <2>4. w.state # "ended"
    BY <1>2, <2>1, BeforeWriting DEF WriterInv
  <2>5. InFiles(new, size) = InFiles(w, size) /\ InFiles(w, size) \in Int
    <3>1. size \in Nat
      BY BeforeWriting
    <3> HIDE DEF size
    <3>2. w.chunk \in Nat /\ w.filled \in Nat
      BY <2>1, <3>1 DEF Writer
    <3> QED
      BY <2>3, <3>1, <3>2 DEF InFiles
  <2>6. WriterInv(r)'
    <3>1. new.written = InFiles(new, size) + new.buffer + new.pipe
      <4>1. w.written = InFiles(w, size) + w.buffer + w.pipe
        BY <2>1, BeforeWriting DEF WriterInv
      <4> QED
        BY <2>1, <2>3, <2>5, <4>1, SpawningAssumption DEF Writer
    <3> QED
      BY <1>1, <2>1, <2>3, <2>4, <3>1, BeforeWriting DEF WriterInv, InFiles
  <2>7. FilesAreRight(r)'
    BY <1>1, <2>1, <2>2, <2>3, FilesLeftAlone
  <2> QED
    BY <1>1, <1>2, <1>5, <2>1, <2>2, <2>3, <2>6, <2>7, BeforeWriting, WriterMoves
<1> QED
  BY <1>4, <1>5 DEF ProgramWrites

(* A writer that stops, for whatever reason.                               *)
LEMMA WriterStopsWriting ==
  ASSUME LoadInv, WritingInv, UNCHANGED loadingVars, NEW r \in Begun,
         writer[r].state \in {"starting", "copying"},
         NEW state \in {"ended", "failed"}, WriterStops(r, state),
         state = "ended" => /\ writer[r].pipe = 0 /\ writer[r].buffer = 0
                            /\ ChunkOpen(r) /\ ~Lives(r),
         UNCHANGED <<thread, child, file>>
  PROVE  WritingInv'
<1> DEFINE size == SettingsOf(r).rotate
<1>1. PICK w : w = writer[r] /\ w \in Writer(size)
  BY BeforeWriting
<1>2. /\ DOMAIN writer' = DOMAIN writer /\ ends' \subseteq ends
      /\ \A q \in Begun \ {r} : writer'[q] = writer[q]
      /\ writer'[r] = [w EXCEPT !.state = state]
  BY <1>1, BeforeWriting DEF WriterStops, Writer
<1>3. PICK new : /\ new = writer'[r] /\ new \in Writer(size)
                 /\ new.state = state
                 /\ new.pipe = w.pipe /\ new.buffer = w.buffer
                 /\ new.written = w.written /\ new.stamp = w.stamp
                 /\ new.chunk = w.chunk /\ new.filled = w.filled
  BY <1>1, <1>2 DEF Writer
<1>4. Lives(r)' = Lives(r) /\ ChunkOpen(r)' = ChunkOpen(r)
  BY <1>1, <1>3, SameServices DEF Lives, ChunkOpen
<1>5. thread[r] = "reported"
  BY BeforeWriting DEF WriterInv
<1>6. WriterInv(r)'
  BY <1>1, <1>3, <1>4, <1>5, BeforeWriting DEF WriterInv, InFiles
<1>7. FilesAreRight(r)'
  BY <1>1, <1>2, <1>3, FilesLeftAlone
<1> QED
  BY <1>1, <1>2, <1>3, <1>5, <1>6, <1>7, BeforeWriting, WriterMoves

LEMMA EndOfFileWrites ==
  ASSUME LoadInv, LaunchInv, WritingInv, UNCHANGED loadingVars, NEW r \in Begun,
         EndOfFile(r)
  PROVE  WritingInv'
<1>1. /\ writer[r].state = "copying" /\ ChunkOpen(r)
      /\ writer[r].pipe = 0 /\ writer[r].buffer = 0 /\ WriterStops(r, "ended")
      /\ UNCHANGED <<thread, child, file>>
  BY DEF EndOfFile
<1>2. <<r, "write">> \notin child[r].ends
  BY DEF EndOfFile, WriteEndOpen, Holders
<1>3. ~Lives(r)
  BY <1>1, <1>2, BeforeWriting DEF WriterInv, LaunchInv, RunInv, PipeIsHeld
<1> QED
  BY <1>1, <1>3, WriterStopsWriting

LEMMA WriterStartsWriting ==
  ASSUME LoadInv, WritingInv, UNCHANGED loadingVars, NEW r \in Begun,
         WriterStarts(r)
  PROVE  WritingInv'
<1> DEFINE size == SettingsOf(r).rotate
<1>1. PICK w : w = writer[r] /\ w \in Writer(size) /\ w.state = "starting"
  BY BeforeWriting DEF WriterStarts
<1>2. PICK now \in 1..MaxRuns :
        writer' = [writer EXCEPT ![r].state = "copying", ![r].stamp = now]
  BY DEF WriterStarts
<1>3. /\ DOMAIN writer' = DOMAIN writer /\ UNCHANGED <<thread, child, ends, file>>
      /\ \A q \in Begun \ {r} : writer'[q] = writer[q]
      /\ writer'[r] = [w EXCEPT !.state = "copying", !.stamp = now]
  BY <1>1, <1>2, BeforeWriting DEF WriterStarts, Writer
<1>4. PICK new : /\ new = writer'[r] /\ new \in Writer(size)
                 /\ new.state = "copying"
                 /\ new.pipe = w.pipe /\ new.buffer = w.buffer
                 /\ new.written = w.written
                 /\ new.chunk = w.chunk /\ new.filled = w.filled
  <2>1. now \in Nat
    BY SpawningAssumption
  <2> QED
    BY <1>1, <1>3, <2>1 DEF Writer
<1>5. w.chunk = 0 /\ thread[r] = "reported"
  BY <1>1, BeforeWriting DEF WriterInv
<1>6. WriterInv(r)'
  BY <1>1, <1>3, <1>4, <1>5, BeforeWriting DEF WriterInv, InFiles
<1>7. FilesAreRight(r)'
  BY <1>1, <1>3, <1>4, <1>5, FilesLeftAlone
<1> QED
  BY <1>1, <1>3, <1>4, <1>5, <1>6, <1>7, BeforeWriting, WriterMoves

LEMMA OpenNextChunkWrites ==
  ASSUME LoadInv, WritingInv, UNCHANGED loadingVars, NEW r \in Begun,
         OpenNextChunk(r)
  PROVE  WritingInv'
<1> DEFINE size == SettingsOf(r).rotate
<1>1. CASE SettingsOf(r).stdout \in Unopenable
  BY <1>1, WriterStopsWriting DEF OpenNextChunk
<1>2. CASE SettingsOf(r).stdout \notin Unopenable
  <2>1. PICK w : w = writer[r] /\ w \in Writer(size) /\ w.state = "copying"
    BY BeforeWriting DEF OpenNextChunk
  <2>2. /\ file' = Extended(file, Only(NthChunk(r, w.chunk), Only(r, 0)))
        /\ writer' = [writer EXCEPT ![r].chunk = @ + 1, ![r].filled = 0]
        /\ UNCHANGED <<thread, child, ends>>
        /\ ~ChunkOpen(r)
    BY <1>2, <2>1, ChunkNames DEF OpenNextChunk
  <2>3. /\ DOMAIN writer' = DOMAIN writer
        /\ \A q \in Begun \ {r} : writer'[q] = writer[q]
        /\ writer'[r] = [w EXCEPT !.chunk = @ + 1, !.filled = 0]
    BY <2>1, <2>2, BeforeWriting DEF Writer
  <2>4. size \in Nat /\ size > 0 /\ thread[r] = "reported"
    BY <2>1, BeforeWriting DEF WriterInv, Rotates
  <2>5. /\ w.chunk \in Nat /\ w.filled \in 0..size
        /\ w.buffer \in Nat /\ w.pipe \in Nat
    <3> HIDE DEF size
    <3> QED
      BY <2>1, <2>4, SpawningAssumption DEF Writer
  <2>6. w.chunk = 0 \/ w.filled = size
    BY <2>1, <2>2, <2>4, <2>5 DEF ChunkOpen
  <2>7. PICK new : /\ new = writer'[r] /\ new \in Writer(size)
                   /\ new.state = "copying"
                   /\ new.pipe = w.pipe /\ new.buffer = w.buffer
                   /\ new.written = w.written /\ new.stamp = w.stamp
                   /\ new.chunk = w.chunk + 1 /\ new.filled = 0
    <3>1. w.chunk + 1 \in Nat /\ 0 \in 0..size
      BY <2>4, <2>5
    <3> QED
      BY <2>1, <2>3, <3>1 DEF Writer
  <2>8. WriterInv(r)'
    <3>1. w.written = InFiles(w, size) + w.buffer + w.pipe
      BY <2>1, BeforeWriting DEF WriterInv
    <3>2. InFiles(new, size) = InFiles(w, size)
      <4>1. InFiles(new, size) = w.chunk * size
        BY <2>4, <2>5, <2>7 DEF InFiles
      <4>2. CASE w.chunk = 0
        BY <2>4, <4>1, <4>2 DEF InFiles
      <4>3. CASE w.chunk # 0 /\ w.filled = size
        <5>1. (w.chunk - 1) * size + size = w.chunk * size
          BY <2>4, <2>5
        <5> QED
          BY <4>1, <4>3, <5>1 DEF InFiles
      <4> QED
        BY <2>6, <4>2, <4>3
    <3>3. new.written = InFiles(new, size) + new.buffer + new.pipe
      BY <2>7, <3>1, <3>2
    <3>4. new.chunk # 0
      BY <2>5, <2>7
    <3> QED
      BY <2>2, <2>4, <2>7, <3>3, <3>4, BeforeWriting DEF WriterInv
  <2>9. Begun' = Begun
    BY <2>2 DEF Begun
  <2>10. \A k : NthChunk(r, k)' = NthChunk(r, k)
    BY <2>1, <2>7, SameServices DEF NthChunk, StampOf
  <2>11. /\ DOMAIN file' = DOMAIN file \cup {NthChunk(r, w.chunk)}
         /\ file'[NthChunk(r, w.chunk)] = Only(r, 0)
         /\ \A f \in DOMAIN file : f # NthChunk(r, w.chunk) => file'[f] = file[f]
    BY <2>2 DEF Extended, Only
  <2>12. FilesAreRight(r)'
    <3> SUFFICES ASSUME (\A q \in Begun \ {r} :
                           writer[q].chunk > 0 => ~SameFiles(q, r))',
                        NEW k \in 0..w.chunk
                 PROVE  /\ NthChunk(r, k) \in DOMAIN file'
                        /\ r \in DOMAIN file'[NthChunk(r, k)]
                        /\ file'[NthChunk(r, k)][r] =
                             IF k = w.chunk THEN 0 ELSE size
      BY <2>5, <2>7, <2>10, SameServices DEF FilesAreRight
    <3>1. CASE k = w.chunk
      BY <2>11, <3>1 DEF Only
    <3>2. CASE k # w.chunk
      <4>1. k \in 0..(w.chunk - 1) /\ NthChunk(r, k) # NthChunk(r, w.chunk)
        BY <2>5, <3>2 DEF NthChunk
      <4>2. \A q \in Begun : StampOf(q)' = StampOf(q)
        <5>1. \A q \in Begun : writer'[q].stamp = writer[q].stamp
          BY <2>1, <2>3, <2>7
        <5> QED
          BY <5>1, SameServices DEF StampOf
      <4>3. \A q \in Begun \ {r} : writer[q].chunk > 0 => ~SameFiles(q, r)
        BY <2>3, <2>9, <4>2, SameServices DEF SameFiles
      <4>4. w.filled = size
        BY <2>5, <2>6, <4>1
      <4> QED
        BY <2>1, <2>11, <3>2, <4>1, <4>3, <4>4, BeforeWriting DEF FilesAreRight
    <3> QED
      BY <3>1, <3>2
  <2>13. \A f \in DOMAIN file :
           \/ f \in DOMAIN file' /\ file'[f] = file[f]
           \/ writer'[r].chunk > 0 /\ \E k : f = NthChunk(r, k)'
    BY <2>5, <2>7, <2>10, <2>11
  <2>14. writer[r].chunk > 0 => /\ writer'[r].chunk > 0
                                /\ writer'[r].stamp = writer[r].stamp
    BY <2>1, <2>5, <2>7
  <2> QED
    BY <2>2, <2>3, <2>4, <2>8, <2>12, <2>13, <2>14, BeforeWriting, WriterMoves
<1> QED
  BY <1>1, <1>2

LEMMA FillBufferWrites ==
  ASSUME LoadInv, WritingInv, UNCHANGED loadingVars, NEW r \in Begun,
         FillBuffer(r)
  PROVE  WritingInv'
<1> DEFINE size == SettingsOf(r).rotate
<1>1. PICK w : /\ w = writer[r] /\ w \in Writer(size)
               /\ w.state = "copying" /\ w.chunk > 0 /\ w.buffer = 0
  BY BeforeWriting DEF FillBuffer, ChunkOpen
<1>2. /\ writer' = [writer EXCEPT ![r].buffer = w.pipe, ![r].pipe = 0]
      /\ UNCHANGED <<thread, child, ends, file>>
  BY <1>1 DEF FillBuffer
<1>3. /\ DOMAIN writer' = DOMAIN writer
      /\ \A q \in Begun \ {r} : writer'[q] = writer[q]
      /\ writer'[r] = [w EXCEPT !.buffer = w.pipe, !.pipe = 0]
  BY <1>1, <1>2, BeforeWriting DEF Writer
<1>4. PICK new : /\ new = writer'[r] /\ new \in Writer(size)
                 /\ new.state = "copying"
                 /\ new.pipe = 0 /\ new.buffer = w.pipe
                 /\ new.written = w.written /\ new.stamp = w.stamp
                 /\ new.chunk = w.chunk /\ new.filled = w.filled
  <2>1. 0 \in 0..PipeSize
    BY SpawningAssumption
  <2> QED
    BY <1>1, <1>3, <2>1 DEF Writer
<1>5. size \in Nat
  BY BeforeWriting
<1>6. WriterInv(r)'
  <2>1. w.written = InFiles(w, size) + w.buffer + w.pipe
    BY <1>1, BeforeWriting DEF WriterInv
  <2>2. InFiles(new, size) = InFiles(w, size) /\ InFiles(w, size) \in Int
    <3> HIDE DEF size
    <3>1. w.chunk \in Nat /\ w.filled \in Nat
      BY <1>1, <1>5 DEF Writer
    <3> QED
      BY <1>4, <1>5, <3>1 DEF InFiles
  <2>3. w.pipe \in Int
    BY <1>1, SpawningAssumption DEF Writer
  <2>4. new.written = InFiles(new, size) + new.buffer + new.pipe
    <3> HIDE DEF size
    <3> QED
      BY <1>1, <1>4, <2>1, <2>2, <2>3
  <2>5. thread[r] = "reported" /\ Rotates(r)
    BY <1>1, BeforeWriting DEF WriterInv
  <2>6. new.chunk # 0
    BY <1>1, <1>4 DEF Writer
  <2> QED
    BY <1>2, <1>4, <2>4, <2>5, <2>6, BeforeWriting DEF WriterInv
<1>7. FilesAreRight(r)'
  BY <1>1, <1>2, <1>3, <1>4, FilesLeftAlone
<1> QED
  <2>1. thread[r] = "reported"
    BY <1>1, BeforeWriting DEF WriterInv
  <2> QED
    BY <1>1, <1>2, <1>3, <1>4, <1>6, <1>7, <2>1, BeforeWriting, WriterMoves

LEMMA SmallerOfTwo ==
  ASSUME NEW a \in Int, NEW b \in Int
  PROVE  Min({a, b}) = IF a <= b THEN a ELSE b
<1> DEFINE m == IF a <= b THEN a ELSE b
<1>1. m \in {a, b} /\ \A y \in {a, b} : m <= y
  OBVIOUS
<1>2. \A x \in {a, b} : (\A y \in {a, b} : x <= y) => x = m
  OBVIOUS
<1> HIDE DEF m
<1>3. Min({a, b}) = m
  BY <1>1, <1>2 DEF Min
<1> QED
  BY <1>3 DEF m

LEMMA CopyWrites ==
  ASSUME LoadInv, WritingInv, UNCHANGED loadingVars, NEW r \in Begun, Copy(r)
  PROVE  WritingInv'
<1> DEFINE size == SettingsOf(r).rotate
<1>1. PICK w : w = writer[r] /\ w \in Writer(size) /\ w.state = "copying"
  BY BeforeWriting DEF Copy
<1>2. size \in Nat /\ thread[r] = "reported"
  BY <1>1, BeforeWriting DEF WriterInv
<1>3. /\ w.chunk \in Nat /\ w.filled \in 0..size /\ w.buffer \in 0..PipeSize
      /\ w.pipe \in 0..PipeSize
  <2> HIDE DEF size
  <2> QED
    BY <1>1, <1>2 DEF Writer
<1>4. w.chunk > 0 /\ w.filled < size /\ w.buffer > 0
  BY <1>1 DEF Copy, ChunkOpen
<1>5. PICK n \in Nat :
        /\ n <= size - w.filled /\ n <= w.buffer
        /\ writer' = [writer EXCEPT ![r].buffer = @ - n, ![r].filled = @ + n]
        /\ file' = [file EXCEPT ![NthChunk(r, w.chunk - 1)] =
                      Extended(@, Only(r, n + BytesOf(r, @)))]
        /\ UNCHANGED <<thread, child, ends>>
  <2> DEFINE n == Min({size - w.filled, w.buffer})
  <2>1. n = IF size - w.filled <= w.buffer THEN size - w.filled ELSE w.buffer
    <3>1. size - w.filled \in Int /\ w.buffer \in Int
      BY <1>2, <1>3, SpawningAssumption
    <3> QED
      BY <3>1, SmallerOfTwo
  <2>2. n \in Nat /\ n <= size - w.filled /\ n <= w.buffer
    BY <1>2, <1>3, <1>4, <2>1, SpawningAssumption
  <2>3. CurrentChunk(r) = NthChunk(r, w.chunk - 1)
    BY <1>1, ChunkNames
  <2>4. /\ writer' = [writer EXCEPT ![r].buffer = @ - n, ![r].filled = @ + n]
        /\ file' = [file EXCEPT ![NthChunk(r, w.chunk - 1)] =
                      Extended(@, Only(r, n + BytesOf(r, @)))]
        /\ UNCHANGED <<thread, child, ends>>
    BY <1>1, <2>3 DEF Copy
  <2> HIDE DEF n
  <2> QED
    BY <2>2, <2>4
<1>6. /\ DOMAIN writer' = DOMAIN writer
      /\ \A q \in Begun \ {r} : writer'[q] = writer[q]
      /\ writer'[r] = [w EXCEPT !.buffer = @ - n, !.filled = @ + n]
  BY <1>1, <1>5, BeforeWriting DEF Writer
<1>7. PICK new : /\ new = writer'[r] /\ new \in Writer(size)
                 /\ new.state = "copying"
                 /\ new.pipe = w.pipe /\ new.buffer = w.buffer - n
                 /\ new.written = w.written /\ new.stamp = w.stamp
                 /\ new.chunk = w.chunk /\ new.filled = w.filled + n
  <2>1. w.buffer - n \in 0..PipeSize /\ w.filled + n \in 0..size
    <3> HIDE DEF size
    <3> QED
      BY <1>2, <1>3, <1>5, SpawningAssumption
  <2> QED
    BY <1>1, <1>6, <2>1 DEF Writer
<1>8. WriterInv(r)'
  <2>1. w.written = InFiles(w, size) + w.buffer + w.pipe
    BY <1>1, BeforeWriting DEF WriterInv
  <2>2. InFiles(new, size) = InFiles(w, size) + n /\ InFiles(w, size) \in Int
    <3> HIDE DEF size
    <3> QED
      BY <1>2, <1>3, <1>4, <1>5, <1>7 DEF InFiles
  <2>3. new.written = InFiles(new, size) + new.buffer + new.pipe
    <3> HIDE DEF size
    <3> QED
      BY <1>3, <1>5, <1>7, <2>1, <2>2, SpawningAssumption
  <2>4. Rotates(r) /\ new.chunk # 0
    BY <1>1, <1>4, <1>7, BeforeWriting DEF WriterInv
  <2> QED
    BY <1>2, <1>5, <1>7, <2>3, <2>4, BeforeWriting DEF WriterInv
<1>9. Begun' = Begun
  BY <1>5 DEF Begun
<1>10. \A k : NthChunk(r, k)' = NthChunk(r, k)
  BY <1>1, <1>7, SameServices DEF NthChunk, StampOf
<1>11. /\ DOMAIN file' = DOMAIN file
       /\ \A f \in DOMAIN file :
            f # NthChunk(r, w.chunk - 1) => file'[f] = file[f]
  BY <1>5
<1>12. FilesAreRight(r)'
  <2> SUFFICES ASSUME (\A q \in Begun \ {r} :
                         writer[q].chunk > 0 => ~SameFiles(q, r))',
                      NEW k \in 0..(w.chunk - 1)
               PROVE  /\ NthChunk(r, k) \in DOMAIN file'
                      /\ r \in DOMAIN file'[NthChunk(r, k)]
                      /\ file'[NthChunk(r, k)][r] =
                           IF k = w.chunk - 1 THEN w.filled + n ELSE size
    BY <1>7, <1>10, SameServices DEF FilesAreRight
  <2>1. \A q \in Begun : StampOf(q)' = StampOf(q)
    <3>1. \A q \in Begun : writer'[q].stamp = writer[q].stamp
      BY <1>1, <1>6, <1>7
    <3> QED
      BY <3>1, SameServices DEF StampOf
  <2>2. \A q \in Begun \ {r} : writer[q].chunk > 0 => ~SameFiles(q, r)
    BY <1>6, <1>9, <2>1, SameServices DEF SameFiles
  <2>3. /\ NthChunk(r, k) \in DOMAIN file
        /\ r \in DOMAIN file[NthChunk(r, k)]
        /\ file[NthChunk(r, k)][r] =
             IF k = w.chunk - 1 THEN w.filled ELSE size
    BY <1>1, <2>2, BeforeWriting DEF FilesAreRight
  <2>4. CASE k = w.chunk - 1
    <3>1. file'[NthChunk(r, k)] =
            Extended(file[NthChunk(r, k)],
                     Only(r, n + BytesOf(r, file[NthChunk(r, k)])))
      BY <1>5, <2>3, <2>4
    <3>2. BytesOf(r, file[NthChunk(r, k)]) = w.filled
      BY <2>3, <2>4 DEF BytesOf
    <3>3. n + w.filled = w.filled + n
      BY <1>2, <1>3
    <3> QED
      BY <1>11, <2>3, <2>4, <3>1, <3>2, <3>3 DEF Extended, Only
  <2>5. CASE k # w.chunk - 1
    <3>1. NthChunk(r, k) # NthChunk(r, w.chunk - 1)
      BY <2>5 DEF NthChunk
    <3> QED
      BY <1>11, <2>3, <2>5, <3>1
  <2> QED
    BY <2>4, <2>5
<1>13. \A f \in DOMAIN file :
         \/ f \in DOMAIN file' /\ file'[f] = file[f]
         \/ writer'[r].chunk > 0 /\ \E k : f = NthChunk(r, k)'
  BY <1>4, <1>7, <1>10, <1>11
<1> QED
  BY <1>1, <1>2, <1>5, <1>6, <1>7, <1>8, <1>12, <1>13, BeforeWriting, WriterMoves

LEMMA BeginRunWrites ==
  ASSUME LoadInv, LaunchInv, WritingInv, UNCHANGED loadingVars, NEW r \in Runs,
         BeginRun(r)
  PROVE  WritingInv'
<1>1. /\ r \notin Begun /\ UNCHANGED <<ends, file>>
      /\ thread' = Extended(thread, Only(r, "ready"))
      /\ child' = Extended(child, Only(r, NewChild))
      /\ writer' = Extended(writer, Only(r, NewWriter))
      /\ DOMAIN thread = Begun /\ DOMAIN child = Begun /\ DOMAIN writer = Begun
  BY DEF BeginRun, LaunchInv, WritingInv, Begun
<1>2. /\ Begun' = Begun \cup {r} /\ DOMAIN writer' = Begun'
      /\ thread'[r] = "ready" /\ child'[r] = NewChild /\ writer'[r] = NewWriter
      /\ thread' = [q \in Begun' |-> thread'[q]]
      /\ \A q \in Begun : /\ thread'[q] = thread[q] /\ child'[q] = child[q]
                         /\ writer'[q] = writer[q]
  BY <1>1 DEF Extended, Only, Begun
<1>3. AllEnds \subseteq AllEnds'
  BY <1>2 DEF AllEnds, PipeEnds
<1>4. \A q \in Begun : RunType(q)'
  BY <1>2, <1>3, SameServices DEF WritingInv, RunType
<1>5. RunType(r)'
  BY <1>2, SameServices DEF RunType, NewChild
<1>6. ASSUME NEW q \in Begun PROVE WriterInv(q)'
  <2>1. WriterInv(q)
    BY DEF WritingInv
  <2>2. ChunkOpen(q)' = ChunkOpen(q) /\ Lives(q)' = Lives(q)
    BY <1>2, SameServices DEF ChunkOpen, Lives
  <2>3. Writer(SettingsOf(q).rotate)' = Writer(SettingsOf(q).rotate)
    BY SameServices DEF Writer
  <2> QED
    BY <1>2, <2>1, <2>2, <2>3, SameServices DEF WriterInv, InFiles
<1>7. WriterInv(r)'
  <2>1. NewWriter \in Writer(SettingsOf(r).rotate)
    <3>1. SettingsOf(r).rotate \in Nat
      BY SettingsType
    <3>2. 0 \in 0..SettingsOf(r).rotate /\ 0 \in 0..PipeSize
      BY <3>1, SpawningAssumption
    <3> QED
      BY <3>2 DEF NewWriter, Writer
  <2>2. Writer(SettingsOf(r).rotate)' = Writer(SettingsOf(r).rotate)
    BY SameServices DEF Writer
  <2> QED
    BY <1>2, <2>1, <2>2 DEF WriterInv, InFiles, NewWriter
<1>8. ASSUME NEW q \in Begun PROVE FilesAreRight(q)'
  <2>1. \A p \in Begun : StampOf(p)' = StampOf(p)
    BY <1>2, SameServices DEF StampOf
  <2>2. FilesAreRight(q)
    BY DEF WritingInv
  <2>3. (\A p \in Begun \ {q} : writer[p].chunk > 0 => ~SameFiles(p, q))'
          => \A p \in Begun \ {q} : writer[p].chunk > 0 => ~SameFiles(p, q)
    BY <1>2, <2>1, SameServices DEF SameFiles
  <2>4. \A k : NthChunk(q, k)' = NthChunk(q, k)
    BY <2>1, SameServices DEF NthChunk
  <2> QED
    BY <1>1, <1>2, <2>2, <2>3, <2>4, SameServices DEF FilesAreRight
<1>9. FilesAreRight(r)'
  BY <1>2 DEF FilesAreRight, NewWriter
<1> QED
  BY <1>1, <1>2, <1>3, <1>4, <1>5, <1>6, <1>7, <1>8, <1>9 DEF WritingInv

LEMMA WriterStepWrites ==
  ASSUME LoadInv, LaunchInv, WritingInv, UNCHANGED loadingVars, NEW r \in Begun,
         WriterStep(r)
  PROVE  WritingInv'
<1>1. CASE WriterHasNoPath(r)
  BY <1>1, WriterStopsWriting DEF WriterHasNoPath
<1> QED
  BY <1>1, WriterStartsWriting, OpenNextChunkWrites, FillBufferWrites, CopyWrites,
     EndOfFileWrites DEF WriterStep

LEMMA WritingInvAlways == LaunchSpec => []WritingInv
<1>1. LaunchInit => WritingInv
  BY DEF LaunchInit, SpawningInit, WritingInv, Begun, AllEnds
<1>2. LoadInv /\ LaunchInv /\ WritingInv /\ [LaunchNext]_launchVars => WritingInv'
  <2> SUFFICES ASSUME LoadInv, LaunchInv, WritingInv, [LaunchNext]_launchVars
               PROVE  WritingInv'
    OBVIOUS
  <2>1. CASE LoadingThread
    <3>1. stage = "loading" /\ UNCHANGED spawningVars
      BY <2>1 DEF LoadingThread, LoadingStep, FromCommand, FetchServices,
         CanFetch, LoadService, Validate
    <3>2. Begun = {} /\ Begun' = {}
      BY <3>1 DEF LaunchInv, Begun, spawningVars
    <3> QED
      BY <3>1, <3>2 DEF WritingInv, AllEnds, spawningVars
  <2>2. ASSUME NEW r \in Runs, BeginsRun(r) PROVE WritingInv'
    BY <2>2, BeginRunWrites DEF BeginsRun
  <2>3. ASSUME NEW r \in Begun, SpawnThread(r) PROVE WritingInv'
    BY <2>3, QuietSteps, ParentGoesOnWrites DEF SpawnThread, SpawnStep
  <2>4. ASSUME NEW r \in Begun, ChildProcess(r) PROVE WritingInv'
    BY <2>4, QuietSteps DEF ChildProcess
  <2>5. ASSUME NEW r \in Begun, Program(r) PROVE WritingInv'
    BY <2>5, QuietSteps, ProgramWritesIt DEF Program, ProgramStep
  <2>6. ASSUME NEW r \in Begun, WriterThread(r) PROVE WritingInv'
    BY <2>6, WriterStepWrites DEF WriterThread
  <2>7. CASE UNCHANGED launchVars
    <3>1. UNCHANGED loadingVars /\ UNCHANGED spawningVars
      BY <2>7 DEF launchVars
    <3>2. Begun' = Begun /\ AllEnds' = AllEnds
      BY <3>1 DEF Begun, AllEnds, PipeEnds, spawningVars
    <3>3. \A r \in Begun : RunType(r)' /\ FilesAreRight(r)'
      BY <3>1, <3>2, SameServices DEF WritingInv, RunType, spawningVars,
         FilesAreRight, NthChunk, SameFiles, StampOf
    <3>4. \A r \in Begun : WriterInv(r)'
      BY <3>1, SameServices DEF WritingInv, WriterInv, Writer, InFiles, ChunkOpen,
         Lives, spawningVars
    <3> QED
      BY <3>1, <3>2, <3>3, <3>4 DEF WritingInv, spawningVars
  <2> QED
    BY <2>1, <2>2, <2>3, <2>4, <2>5, <2>6, <2>7 DEF LaunchNext
<1> QED
  BY <1>1, <1>2, LoadInvAlways, LaunchInvAlways, PTL DEF LaunchSpec

-----------------------------------------------------------------------------
(* Theorems about writing                                                  *)

(* Every variable of Launch keeps its type: in particular a writer never   *)
(* puts more into a chunk than its size.                                   *)
THEOREM LaunchTyping == LaunchSpec => []LaunchTypeOK
<1>1. LoadInv /\ WritingInv => LaunchTypeOK
  <2> SUFFICES ASSUME LoadInv, WritingInv PROVE LaunchTypeOK
    OBVIOUS
  <2>1. thread \in [Begun -> {"ready", "piped", "forked", "reported", "failed",
                             "panicked"}]
    BY DEF WritingInv, RunType
  <2>2. ASSUME NEW r \in Begun
        PROVE  /\ child[r].state \in {"unborn", "born", "redirecting",
                                      "redirected", "running", "exited"}
               /\ child[r].ends \subseteq AllEnds
    BY DEF WritingInv, RunType
  <2>3. ASSUME NEW r \in Begun
        PROVE  /\ writer[r].state \in {"none", "starting", "copying", "ended",
                                       "failed"}
               /\ writer[r].pipe \in 0..PipeSize
               /\ writer[r].buffer \in 0..PipeSize
               /\ writer[r].filled \in 0..SettingsOf(r).rotate
    <3>1. writer[r] \in Writer(SettingsOf(r).rotate)
      BY DEF WritingInv, WriterInv
    <3> QED
      BY <3>1 DEF Writer
  <2>4. SpawningTypeOK
    BY <2>1, <2>2, <2>3 DEF SpawningTypeOK, WritingInv, AllEnds
  <2> QED
    BY <2>4 DEF LoadInv, LaunchTypeOK
<1> QED
  BY <1>1, LoadInvAlways, WritingInvAlways, PTL

(* So many bytes are c full chunks and one of f bytes.                     *)
InChunks(bytes, size, c, f) ==
  /\ bytes \div size = c
  /\ \A k \in 0..c : Min({size, bytes - k * size}) = IF k = c THEN f ELSE size

LEMMA Chunks ==
  ASSUME NEW size \in Nat, NEW c \in Nat, NEW f \in Nat, f < size,
         NEW bytes, bytes = c * size + f
  PROVE  InChunks(bytes, size, c, f)
<1>1. bytes \div size = c
  OBVIOUS
<1>2. ASSUME NEW k \in 0..c
      PROVE  Min({size, bytes - k * size}) = IF k = c THEN f ELSE size
  <2> DEFINE rest == bytes - k * size
  <2>1. rest \in Int /\ rest = (c - k) * size + f
    OBVIOUS
  <2>2. IF k = c THEN rest = f ELSE rest >= size
    <3>1. CASE k = c
      BY <2>1, <3>1
    <3>2. CASE k # c
      <4>1. c - k >= 1 /\ c - k \in Nat
        BY <3>2
      <4>2. (c - k) * size >= size
        BY <4>1
      <4> QED
        BY <2>1, <3>2, <4>2
    <3> QED
      BY <3>1, <3>2
  <2> HIDE DEF rest
  <2>3. Min({size, rest}) = IF size <= rest THEN size ELSE rest
    BY <2>1, SmallerOfTwo
  <2>4. Min({size, rest}) = IF k = c THEN f ELSE size
    BY <2>1, <2>2, <2>3
  <2> QED
    BY <2>4 DEF rest
<1> QED
  BY <1>1, <1>2 DEF InChunks

(* However the program, its pipe, the buffer and the files are sized and   *)
(* interleaved, a log whose files are not used by another run is complete  *)
(* when its writer has ended.                                              *)
THEOREM CompleteLogs == LaunchSpec => []LogsAreComplete
<1>1. LoadInv /\ WritingInv => LogsAreComplete
  <2> SUFFICES ASSUME LoadInv, WritingInv, NEW r \in Begun,
                      writer[r].state = "ended", HasItsOwnFiles(r)
               PROVE  LET size == SettingsOf(r).rotate
                          bytes == writer[r].written
                      IN /\ writer[r].chunk = (bytes \div size) + 1
                         /\ \A k \in 0..(bytes \div size) :
                              file[[ChunkName(r) EXCEPT !.count = k]][r] =
                                Min({size, bytes - k * size})
    BY DEF LogsAreComplete
  <2> DEFINE size == SettingsOf(r).rotate
             bytes == writer[r].written
             c == writer[r].chunk - 1
             f == writer[r].filled
  <2>1. r \in Runs /\ WriterInv(r) /\ FilesAreRight(r)
    BY DEF WritingInv, RunType
  <2>2. size \in Nat
    BY <2>1, SettingsType
  <2>3. /\ writer[r].chunk \in Nat /\ writer[r].chunk > 0
        /\ f \in Nat /\ f < size
    BY <2>1, <2>2 DEF WriterInv, Writer, ChunkOpen
  <2>4. c \in Nat
    BY <2>3
  <2>5. bytes = c * size + f
    BY <2>1, <2>2, <2>3 DEF WriterInv, InFiles
  <2>6. \A q \in Begun \ {r} : writer[q].chunk > 0 => ~SameFiles(q, r)
    <3> SUFFICES ASSUME NEW q \in Begun \ {r}, writer[q].chunk > 0,
                        SameFiles(q, r)
                 PROVE  FALSE
      OBVIOUS
    <3>1. NthChunk(q, writer[r].chunk) = NthChunk(r, writer[r].chunk)
      BY DEF SameFiles, NthChunk
    <3> QED
      BY <3>1, ChunkNames DEF HasItsOwnFiles
  <2>7. \A k \in 0..c : file[NthChunk(r, k)][r] = IF k = c THEN f ELSE size
    BY <2>1, <2>6 DEF FilesAreRight
  <2> HIDE DEF size, bytes, c, f
  <2>8. InChunks(bytes, size, c, f)
    BY <2>2, <2>3, <2>4, <2>5, Chunks
  <2>9. writer[r].chunk = c + 1
    BY <2>3 DEF c
  <2> QED
    BY <2>7, <2>8, <2>9, ChunkNames DEF InChunks, size, bytes
<1> QED
  BY <1>1, LoadInvAlways, WritingInvAlways, PTL

-----------------------------------------------------------------------------
(* Reading digits from the left                                            *)
(*                                                                         *)
(* FoldLeft is a recursive function of the sets of places that are still   *)
(* to be read.  That there is such a function, and what it gives for the   *)
(* first k places, is shown by looking at the least k without one.         *)

(* f adds up the digits of q at the places of each subset of D, in order.  *)
AddsUp(f, q, D) ==
  f = [s \in SUBSET D |->
         IF s = {} THEN 0 ELSE 10 * f[s \ {Max(s)}] + q[Max(s)]]

(* There is such a function.                                               *)
LEMMA SomethingAddsUp ==
  ASSUME NEW q \in Seq(Int), NEW n \in 0..Len(q)
  PROVE  \E f : AddsUp(f, q, 1..n) /\ f \in [SUBSET (1..n) -> Int]
<1> DEFINE E(k) == \E f : AddsUp(f, q, 1..k) /\ f \in [SUBSET (1..k) -> Int]
           Bad == {k \in 0..Len(q) : ~E(k)}
<1> SUFFICES ASSUME Bad # {}
             PROVE  FALSE
  OBVIOUS
<1>1. Bad \in SUBSET Nat
  OBVIOUS
<1>2. PICK k \in Bad : \A l \in Bad : k <= l
  BY <1>1, Least
<1>3. k # 0
  <2> DEFINE f == [s \in SUBSET {} |-> 0]
  <2>1. 1..0 = {} /\ \A s \in SUBSET {} : s = {}
    OBVIOUS
  <2>2. AddsUp(f, q, {}) /\ f \in [SUBSET {} -> Int]
    BY <2>1 DEF AddsUp
  <2>3. E(0)
    BY <2>1, <2>2
  <2> QED BY <2>3
<1>4. k \in 1..Len(q) /\ k - 1 \in 0..Len(q) /\ k - 1 \notin Bad
  <2>1. k \in 0..Len(q) /\ Len(q) \in Nat
    BY <1>2
  <2>2. \A l \in Bad : k <= l
    BY <1>2
  <2> HIDE DEF Bad
  <2> QED BY <1>3, <2>1, <2>2
<1>5. PICK f : AddsUp(f, q, 1..(k - 1)) /\ f \in [SUBSET (1..(k - 1)) -> Int]
  BY <1>4
<1> DEFINE g == [s \in SUBSET (1..k) |->
                   IF k \in s THEN 10 * f[s \ {k}] + q[k] ELSE f[s]]
<1>6. ASSUME NEW s \in SUBSET (1..k)
      PROVE  /\ k \in s => s \ {k} \in SUBSET (1..(k - 1)) /\ Max(s) = k
             /\ k \notin s => s \in SUBSET (1..(k - 1))
             /\ k \notin s /\ s # {} =>
                  /\ Max(s) \in 1..(k - 1)
                  /\ s \ {Max(s)} \in SUBSET (1..(k - 1))
  <2>1. k \in Nat /\ \A i \in s : i \in 1..k /\ (i # k => i \in 1..(k - 1))
    BY <1>4
  <2>2. s # {} => Max(s) \in s /\ \A i \in s : Max(s) >= i
    <3>1. s \in SUBSET (0..k)
      BY <2>1
    <3> QED BY <2>1, <3>1, MaxIsGreatest
  <2>3. ASSUME k \in s
        PROVE  Max(s) = k
    <3>1. Max(s) \in 1..k /\ Max(s) >= k
      BY <2>2, <2>3
    <3> QED BY <2>1, <3>1
  <2> QED BY <2>1, <2>2, <2>3
<1>7. q[k] \in Int
  BY <1>4
<1>8. ASSUME NEW s \in SUBSET (1..k)
      PROVE  /\ g[s] \in Int
             /\ g[s] = IF s = {} THEN 0 ELSE 10 * g[s \ {Max(s)}] + q[Max(s)]
  <2>1. CASE k \in s
    <3>1. s \ {k} \in SUBSET (1..k) /\ k \notin s \ {k} /\ s # {}
      BY <2>1
    <3>2. g[s \ {k}] = f[s \ {k}] /\ g[s] = 10 * f[s \ {k}] + q[k]
      BY <2>1, <3>1
    <3>3. f[s \ {k}] \in Int
      BY <1>5, <1>6, <2>1
    <3>4. Max(s) = k
      BY <1>6, <2>1
    <3>5. 10 * f[s \ {k}] + q[k] \in Int
      BY <1>7, <3>3
    <3> HIDE DEF g
    <3> QED BY <3>1, <3>2, <3>4, <3>5
  <2>2. CASE k \notin s
    <3>1. g[s] = f[s] /\ f[s] \in Int
      BY <1>5, <1>6, <2>2
    <3>2. f[s] = IF s = {} THEN 0 ELSE 10 * f[s \ {Max(s)}] + q[Max(s)]
      BY <1>5, <1>6, <2>2 DEF AddsUp
    <3>3. s # {} => g[s \ {Max(s)}] = f[s \ {Max(s)}]
      BY <1>6, <2>2
    <3> HIDE DEF g
    <3> QED BY <3>1, <3>2, <3>3
  <2> QED BY <2>1, <2>2
<1>9. AddsUp(g, q, 1..k) /\ g \in [SUBSET (1..k) -> Int]
  <2>1. g = [s \in SUBSET (1..k) |-> g[s]]
    OBVIOUS
  <2> HIDE DEF g
  <2> QED BY <1>8, <2>1 DEF AddsUp
<1> QED BY <1>2, <1>9

(* What is read from the left: ten times what came before and the digit.   *)
LEMMA ReadFromTheLeft ==
  ASSUME NEW q \in Seq(Int), NEW m \in [0..Len(q) -> Int], m[0] = 0,
         \A k \in 1..Len(q) : m[k] = 10 * m[k - 1] + q[k]
  PROVE  FoldLeft(LAMBDA v, d : 10 * v + d, 0, q) = m[Len(q)]
<1> DEFINE f == CHOOSE f : AddsUp(f, q, DOMAIN q)
           n == Len(q)
<1>1. FoldLeft(LAMBDA v, d : 10 * v + d, 0, q) = f[DOMAIN q]
  BY DEF FoldLeft, MapThenFoldSet, AddsUp
<1>2. n \in Nat /\ DOMAIN q = 1..n
  OBVIOUS
<1>3. AddsUp(f, q, 1..n)
  <2>1. n \in 0..Len(q)
    BY <1>2
  <2>2. \E g : AddsUp(g, q, 1..n)
    BY <2>1, SomethingAddsUp
  <2> QED BY <1>2, <2>2
<1> HIDE DEF f, n
<1> DEFINE Bad == {k \in 0..n : f[1..k] # m[k]}
<1>4. Bad = {}
  <2> SUFFICES ASSUME Bad # {}
               PROVE  FALSE
    OBVIOUS
  <2>0. Bad \in SUBSET Nat
    OBVIOUS
  <2>1. PICK k \in Bad : \A l \in Bad : k <= l
    BY <2>0, Least
  <2>2. k # 0
    <3>1. f[{}] = 0 /\ 1..0 = {}
      BY <1>3 DEF AddsUp
    <3> QED BY <2>1, <3>1
  <2>3. k \in 1..n /\ k - 1 \in 0..n /\ f[1..(k - 1)] = m[k - 1]
    BY <1>2, <2>1, <2>2
  <2>4. Max(1..k) = k
    <3>0. k \in Nat /\ k >= 1
      BY <1>2, <2>3
    <3>1. k \in 1..k /\ \A i \in 1..k : i \in 0..k
      BY <3>0
    <3>2. Max(1..k) \in 1..k /\ \A i \in 1..k : Max(1..k) >= i
      BY <3>0, <3>1, MaxIsGreatest
    <3> QED BY <3>0, <3>1, <3>2
  <2>5. 1..k \in SUBSET (1..n) /\ 1..k # {} /\ (1..k) \ {k} = 1..(k - 1)
    <3>1. k \in Nat /\ k >= 1 /\ k <= n
      BY <1>2, <2>3
    <3>2. k \in 1..k /\ \A i \in 1..k : i \in 1..n
      BY <1>2, <3>1
    <3>3. \A i : i \in (1..k) \ {k} <=> i \in 1..(k - 1)
      BY <3>1
    <3> QED BY <3>2, <3>3
  <2>6. f[1..k] = 10 * f[1..(k - 1)] + q[k]
    <3>1. f[1..k] = IF 1..k = {} THEN 0
                    ELSE 10 * f[(1..k) \ {Max(1..k)}] + q[Max(1..k)]
      BY <1>3, <2>5 DEF AddsUp
    <3> QED BY <2>4, <2>5, <3>1
  <2> QED BY <2>1, <2>3, <2>6 DEF n
<1>5. f[1..n] = m[n]
  BY <1>2, <1>4
<1> QED BY <1>1, <1>2, <1>5 DEF n
-----------------------------------------------------------------------------
(* The digits of a number                                                  *)

Tenth(n) == (n - (n % 10)) \div 10

(* Without its last digit a number is less.                                *)
LEMMA TenthIsLess ==
  ASSUME NEW n \in Nat
  PROVE  /\ Tenth(n) \in Nat /\ n % 10 \in 0..9
         /\ n = 10 * Tenth(n) + (n % 10)
         /\ n # 0 => Tenth(n) < n
<1> DEFINE d == n % 10
           t == n \div 10
<1>1. t \in Nat /\ d \in 0..9 /\ n = 10 * t + d
  OBVIOUS
<1>2. (n - d) \div 10 = t
  OBVIOUS
<1>3. Tenth(n) = t /\ n % 10 = d
  BY <1>2 DEF Tenth
<1> HIDE DEF d, t
<1>4. n # 0 => t < n
  BY <1>1
<1> QED BY <1>1, <1>3, <1>4

(* f gives the digits of the numbers up to n.                              *)
Spells(f, n) ==
  f = [k \in 0..n |-> IF k = 0 THEN <<>> ELSE <<k % 10>> \o f[Tenth(k)]]

(* Some function does, for every n.                                        *)
LEMMA SomethingSpells ==
  ASSUME NEW n \in Nat
  PROVE  \E f : Spells(f, n)
<1> DEFINE Bad == {k \in Nat : ~\E f : Spells(f, k)}
<1> SUFFICES ASSUME Bad # {}
             PROVE  FALSE
  OBVIOUS
<1>1. PICK k \in Bad : \A l \in Bad : k <= l
  <2>1. Bad \in SUBSET Nat
    OBVIOUS
  <2> QED BY <2>1, Least
<1>2. k # 0
  <2> DEFINE f == [j \in 0..0 |-> <<>>]
  <2>1. Spells(f, 0)
    BY DEF Spells
  <2> QED BY <1>1, <2>1
<1>3. k \in Nat /\ k - 1 \in Nat /\ k - 1 \notin Bad
  <2>1. k \in Nat /\ \A l \in Bad : k <= l
    BY <1>1
  <2> HIDE DEF Bad
  <2> QED BY <1>2, <2>1
<1>4. PICK f : Spells(f, k - 1)
  BY <1>3
<1> DEFINE g == [j \in 0..k |->
                   IF j = k THEN <<k % 10>> \o f[Tenth(k)] ELSE f[j]]
<1>5. ASSUME NEW j \in 0..k
      PROVE  g[j] = IF j = 0 THEN <<>> ELSE <<j % 10>> \o g[Tenth(j)]
  <2>1. j # 0 => Tenth(j) \in 0..(k - 1) /\ g[Tenth(j)] = f[Tenth(j)]
    <3>1. j # 0 => Tenth(j) \in 0..(k - 1)
      <4>1. j \in Nat /\ j <= k /\ k - 1 \in Nat
        BY <1>3
      <4>2. j # 0 => Tenth(j) \in Nat /\ Tenth(j) < j
        BY <4>1, TenthIsLess
      <4> HIDE DEF g
      <4> QED BY <1>3, <4>1, <4>2
    <3>2. \A i \in 0..(k - 1) : i \in 0..k /\ i # k
      BY <1>3
    <3> QED BY <3>1, <3>2
  <2>2. CASE j = k
    BY <1>2, <2>1, <2>2
  <2>3. CASE j # k
    <3>1. j \in 0..(k - 1)
      BY <1>3, <2>3
    <3>2. g[j] = f[j]
      BY <2>3
    <3>3. f[j] = IF j = 0 THEN <<>> ELSE <<j % 10>> \o f[Tenth(j)]
      BY <1>4, <3>1 DEF Spells
    <3> HIDE DEF g
    <3> QED BY <2>1, <3>2, <3>3
  <2> QED BY <2>2, <2>3
<1>6. Spells(g, k)
  <2>1. g = [j \in 0..k |-> g[j]]
    OBVIOUS
  <2> HIDE DEF g
  <2> QED BY <1>5, <2>1 DEF Spells
<1> QED BY <1>1, <1>6

(* All that do so agree.                                                   *)
LEMMA SpellsAlike ==
  ASSUME NEW m \in Nat, NEW n \in Nat, NEW f, NEW g, Spells(f, m), Spells(g, n),
         NEW k \in 0..m, k \in 0..n
  PROVE  f[k] = g[k]
<1> DEFINE Bad == {j \in 0..m : j <= n /\ f[j] # g[j]}
<1> SUFFICES ASSUME Bad # {}
             PROVE  FALSE
  OBVIOUS
<1>1. PICK j \in Bad : \A l \in Bad : j <= l
  <2>1. Bad \in SUBSET Nat
    OBVIOUS
  <2> QED BY <2>1, Least
<1>2. j \in 0..m /\ j \in 0..n
  OBVIOUS
<1>3. /\ f[j] = IF j = 0 THEN <<>> ELSE <<j % 10>> \o f[Tenth(j)]
      /\ g[j] = IF j = 0 THEN <<>> ELSE <<j % 10>> \o g[Tenth(j)]
  BY <1>2 DEF Spells
<1>4. j # 0 => /\ Tenth(j) \in 0..m /\ Tenth(j) <= n /\ ~(j <= Tenth(j))
  <2>1. j \in Nat /\ j <= m /\ j <= n
    BY <1>2
  <2>2. j # 0 => Tenth(j) \in Nat /\ Tenth(j) < j
    BY <2>1, TenthIsLess
  <2> QED BY <2>1, <2>2
<1>5. j # 0 => Tenth(j) \notin Bad
  BY <1>1, <1>4
<1>6. j # 0 => f[Tenth(j)] = g[Tenth(j)]
  BY <1>4, <1>5
<1> QED BY <1>1, <1>3, <1>6

(* DigitsOf is what its recursive equation says.                           *)
LEMMA DigitsUnfold ==
  ASSUME NEW n \in Nat
  PROVE  DigitsOf[n] = IF n = 0 THEN <<>> ELSE <<n % 10>> \o DigitsOf[Tenth(n)]
<1> DEFINE Upto(k) == CHOOSE f : Spells(f, k)
           F == [k \in Nat |-> Upto(k)[k]]
           Good(f) == f = [k \in Nat |-> IF k = 0 THEN <<>>
                                         ELSE <<k % 10>> \o f[Tenth(k)]]
<1>1. \A k \in Nat : Spells(Upto(k), k)
  BY SomethingSpells
<1> HIDE DEF Upto
<1>2. ASSUME NEW k \in Nat
      PROVE  F[k] = IF k = 0 THEN <<>> ELSE <<k % 10>> \o F[Tenth(k)]
  <2>1. k \in 0..k /\ F[k] = Upto(k)[k]
    OBVIOUS
  <2>2. Upto(k)[k] = IF k = 0 THEN <<>> ELSE <<k % 10>> \o Upto(k)[Tenth(k)]
    BY <1>1, <2>1 DEF Spells
  <2>3. k # 0 => Upto(k)[Tenth(k)] = F[Tenth(k)]
    <3>1. k # 0 => /\ Tenth(k) \in Nat /\ Tenth(k) \in 0..k
                   /\ Tenth(k) \in 0..Tenth(k)
      BY TenthIsLess
    <3> QED BY <1>1, <3>1, SpellsAlike
  <2> HIDE DEF F
  <2> QED BY <2>1, <2>2, <2>3
<1>3. Good(F)
  <2>1. F = [k \in Nat |-> F[k]]
    OBVIOUS
  <2> HIDE DEF F
  <2> QED BY <1>2, <2>1
<1>4. DigitsOf = CHOOSE f : Good(f)
  BY DEF DigitsOf, Tenth
<1>5. Good(DigitsOf)
  <2> HIDE DEF Good, F
  <2> QED BY <1>3, <1>4
<1> HIDE DEF F
<1>6. DigitsOf = [k \in Nat |-> IF k = 0 THEN <<>>
                                ELSE <<k % 10>> \o DigitsOf[Tenth(k)]]
  BY <1>5
<1> QED BY <1>6
(* The digits are what is left over when the number is divided by 10 again *)
(* and again, and the last one that is left over is not 0.                 *)
Divided(n, m) ==
  /\ m \in [0..Len(DigitsOf[n]) -> Nat]
  /\ m[0] = n /\ m[Len(DigitsOf[n])] = 0
  /\ \A i \in 1..Len(DigitsOf[n]) : m[i - 1] = 10 * m[i] + DigitsOf[n][i]

WellSpelled(n) ==
  /\ DigitsOf[n] \in Seq(0..9)
  /\ n # 0 => /\ Len(DigitsOf[n]) > 0
              /\ DigitsOf[n][Len(DigitsOf[n])] # 0
  /\ \E m : Divided(n, m)

(* All numbers are: the least that is not would have a tenth that is.      *)
LEMMA AllWellSpelled ==
  ASSUME NEW n \in Nat
  PROVE  WellSpelled(n)
<1> DEFINE Bad == {k \in Nat : ~WellSpelled(k)}
<1> SUFFICES ASSUME Bad # {}
             PROVE  FALSE
  OBVIOUS
<1>1. PICK k \in Bad : \A l \in Bad : k <= l
  <2>1. Bad \in SUBSET Nat
    OBVIOUS
  <2> QED BY <2>1, Least
<1>2. k # 0
  <2>1. DigitsOf[0] = <<>>
    BY DigitsUnfold
  <2>2. Divided(0, [i \in 0..0 |-> 0])
    BY <2>1 DEF Divided
  <2>3. WellSpelled(0)
    BY <2>1, <2>2 DEF WellSpelled
  <2> QED BY <1>1, <2>3
<1> DEFINE h == Tenth(k)
           e == DigitsOf[h]
           d == DigitsOf[k]
<1>3. /\ k \in Nat /\ h \in Nat /\ k % 10 \in 0..9
      /\ k = 10 * h + (k % 10) /\ ~(k <= h)
  BY <1>2, TenthIsLess
<1>4. WellSpelled(h)
  BY <1>1, <1>3
<1>5. e \in Seq(0..9) /\ d = <<k % 10>> \o e
  BY <1>2, <1>3, <1>4, DigitsUnfold DEF WellSpelled
<1>6. PICK m : Divided(h, m)
  BY <1>4 DEF WellSpelled
<1>7. /\ m \in [0..Len(e) -> Nat] /\ m[0] = h /\ m[Len(e)] = 0
      /\ \A i \in 1..Len(e) : m[i - 1] = 10 * m[i] + e[i]
  BY <1>6 DEF Divided
<1>8. h # 0 => Len(e) > 0 /\ e[Len(e)] # 0
  BY <1>4 DEF WellSpelled
<1>9. h = 0 => e = <<>>
  BY DigitsUnfold
<1> HIDE DEF h, e, d
<1>10. /\ d \in Seq(0..9) /\ Len(e) \in Nat /\ Len(d) = Len(e) + 1
       /\ d[1] = k % 10 /\ \A i \in 1..Len(e) : d[i + 1] = e[i]
  <2>1. <<k % 10>> \in Seq(0..9) /\ Len(<<k % 10>>) = 1
    BY <1>3
  <2> QED BY <1>5, <2>1
<1>11. d[Len(d)] # 0
  <2>1. CASE h = 0
    BY <1>2, <1>3, <1>9, <1>10, <2>1
  <2>2. CASE h # 0
    BY <1>8, <1>10, <2>2
  <2> QED BY <2>1, <2>2
<1> DEFINE r == [i \in 0..Len(d) |-> IF i = 0 THEN k ELSE m[i - 1]]
<1>12. r \in [0..Len(d) -> Nat] /\ r[0] = k /\ r[Len(d)] = 0
  BY <1>3, <1>7, <1>10
<1>13. ASSUME NEW i \in 1..Len(d)
       PROVE  r[i - 1] = 10 * r[i] + d[i]
  <2>1. i \in 0..Len(d) /\ i - 1 \in 0..Len(d) /\ i # 0 /\ r[i] = m[i - 1]
    BY <1>10
  <2>2. CASE i = 1
    <3>1. r[i - 1] = k /\ r[i] = h /\ d[i] = k % 10
      BY <1>7, <1>10, <1>12, <2>1, <2>2
    <3> HIDE DEF r
    <3> QED BY <1>3, <3>1
  <2>3. CASE i # 1
    <3>1. i - 1 \in 1..Len(e) /\ r[i - 1] = m[i - 2] /\ d[i] = e[i - 1]
      <4>1. i - 1 \in 1..Len(e) /\ i - 1 # 0
        BY <1>10, <2>3
      <4>2. r[i - 1] = m[(i - 1) - 1]
        BY <2>1, <4>1
      <4>3. d[(i - 1) + 1] = e[i - 1]
        BY <1>10, <4>1
      <4> QED BY <4>1, <4>2, <4>3
    <3>2. m[(i - 1) - 1] = 10 * m[i - 1] + e[i - 1]
      BY <1>7, <3>1
    <3> HIDE DEF r
    <3> QED BY <2>1, <3>1, <3>2
  <2> QED BY <2>2, <2>3
<1> HIDE DEF r
<1>14. Divided(k, r)
  BY <1>12, <1>13 DEF Divided, d
<1>15. WellSpelled(k)
  BY <1>10, <1>11, <1>14 DEF WellSpelled, d
<1> QED BY <1>1, <1>15

(* Read in the other direction they give the number back.                  *)
LEMMA DigitsGiveNumber ==
  ASSUME NEW n \in Nat
  PROVE  /\ Reverse(DigitsOf[n]) \in Seq(0..9)
         /\ n # 0 => /\ Len(Reverse(DigitsOf[n])) > 0
                     /\ Reverse(DigitsOf[n])[1] # 0
         /\ FoldLeft(LAMBDA v, d : 10 * v + d, 0, Reverse(DigitsOf[n])) = n
<1> DEFINE e == DigitsOf[n]
           q == Reverse(e)
           L == Len(e)
<1>1. e \in Seq(0..9) /\ (n # 0 => L > 0 /\ e[L] # 0)
  BY AllWellSpelled DEF WellSpelled
<1>2. PICK m : Divided(n, m)
  BY AllWellSpelled DEF WellSpelled
<1>3. /\ m \in [0..L -> Nat] /\ m[0] = n /\ m[L] = 0
      /\ \A i \in 1..L : m[i - 1] = 10 * m[i] + e[i]
  BY <1>2 DEF Divided
<1> HIDE DEF e
<1>4. /\ L \in Nat /\ q \in Seq(0..9) /\ Len(q) = L
      /\ \A k \in 1..L : q[k] = e[(L - k) + 1]
  BY <1>1 DEF Reverse
<1> HIDE DEF q, L
<1> DEFINE r == [k \in 0..L |-> m[L - k]]
<1>5. \A k \in 0..L : L - k \in 0..L /\ r[k] = m[L - k]
  BY <1>4
<1>6. r \in [0..L -> Int] /\ r[0] = 0 /\ r[L] = n
  BY <1>3, <1>4, <1>5
<1>7. ASSUME NEW k \in 1..L
      PROVE  r[k] = 10 * r[k - 1] + q[k]
  <2>1. /\ k \in 0..L /\ k - 1 \in 0..L /\ (L - k) + 1 \in 1..L
        /\ L - (k - 1) = (L - k) + 1 /\ ((L - k) + 1) - 1 = L - k
    BY <1>4
  <2>2. r[k] = m[L - k] /\ r[k - 1] = m[(L - k) + 1]
    BY <1>5, <2>1
  <2>3. m[L - k] = 10 * m[(L - k) + 1] + e[(L - k) + 1]
    BY <1>3, <2>1
  <2> HIDE DEF r
  <2> QED BY <1>4, <2>2, <2>3
<1> HIDE DEF r
<1>8. q \in Seq(Int)
  BY <1>4
<1>9. FoldLeft(LAMBDA v, d : 10 * v + d, 0, q) = r[Len(q)]
  BY <1>4, <1>6, <1>7, <1>8, ReadFromTheLeft
<1>10. n # 0 => Len(q) > 0 /\ q[1] # 0
  BY <1>1, <1>4 DEF L
<1> QED BY <1>4, <1>6, <1>9, <1>10 DEF q, e

(* A sign before digits.                                                   *)
LEMMA WithASign ==
  ASSUME NEW T, NEW q \in Seq(T), NEW sign
  PROVE  (<<sign>> \o q)[1] = sign /\ Tail(<<sign>> \o q) = q
<1> DEFINE S == T \cup {sign}
<1>1. <<sign>> \in Seq(S)
  <2>1. sign \in S
    OBVIOUS
  <2> HIDE DEF S
  <2> QED BY <2>1
<1>2. q \in Seq(S)
  <2>1. T \subseteq S
    OBVIOUS
  <2> HIDE DEF S
  <2> QED BY <2>1
<1>3. Len(<<sign>>) = 1 /\ <<sign>>[1] = sign
  OBVIOUS
<1> DEFINE one == <<sign>>
<1> HIDE DEF S, one
<1>4. one \in Seq(S) /\ Len(one) = 1 /\ one[1] = sign
  BY <1>1, <1>3 DEF one
<1> DEFINE both == one \o q
<1>5. /\ both \in Seq(S) /\ Len(both) = Len(q) + 1 /\ both[1] = sign
      /\ \A i \in 1..Len(q) : both[i + 1] = q[i]
      /\ Len(q) \in Nat
  <2>1. Len(q) \in Nat
    BY <1>2
  <2>2. /\ both \in Seq(S) /\ Len(both) = Len(one) + Len(q)
        /\ \A i \in 1..(Len(one) + Len(q)) :
             both[i] = IF i <= Len(one) THEN one[i] ELSE q[i - Len(one)]
    BY <1>2, <1>4, ConcatProperties
  <2> HIDE DEF both
  <2>3. Len(both) = Len(q) + 1
    BY <1>4, <2>1, <2>2
  <2>4. both[1] = sign
    <3>1. 1 \in 1..(Len(one) + Len(q)) /\ 1 <= Len(one)
      BY <1>4, <2>1
    <3> QED BY <1>4, <2>2, <3>1
  <2>5. ASSUME NEW i \in 1..Len(q)
        PROVE  both[i + 1] = q[i]
    <3>1. /\ i + 1 \in 1..(Len(one) + Len(q)) /\ ~(i + 1 <= Len(one))
          /\ (i + 1) - Len(one) = i
      BY <1>4, <2>1
    <3> QED BY <2>2, <3>1
  <2> QED BY <2>1, <2>2, <2>3, <2>4, <2>5
<1> HIDE DEF both
<1>6. /\ Tail(both) \in Seq(S) /\ Len(Tail(both)) = Len(q)
      /\ \A i \in 1..Len(q) : Tail(both)[i] = both[i + 1]
  BY <1>5
<1> DEFINE rest == Tail(both)
<1>7. rest \in Seq(S) /\ Len(rest) = Len(q)
      /\ \A i \in 1..Len(q) : rest[i] = q[i]
  BY <1>5, <1>6
<1> HIDE DEF rest
<1>8. rest = q
  BY <1>2, <1>7
<1> QED BY <1>5, <1>8 DEF rest, both, one

(* A number is written with a sign if it has one, in digits that give its  *)
(* size, and without a leading zero.                                       *)
LEMMA Written ==
  ASSUME NEW n \in Int
  PROVE  LET text == I32ToStrBytes(n)
             digits == IF n < 0 THEN Tail(text) ELSE text
             size == FoldLeft(LAMBDA v, d : 10 * v + d, 0, digits)
         IN /\ Len(digits) > 0
            /\ digits[1] = 0 => n = 0
            /\ n = IF n < 0 /\ text[1] = "-" THEN -size ELSE size
<1> DEFINE abs == IF n < 0 THEN -n ELSE n
           spelled == IF n = 0 THEN <<0>> ELSE DigitsOf[abs]
           q == Reverse(spelled)
           text == I32ToStrBytes(n)
           digits == IF n < 0 THEN Tail(text) ELSE text
           size == FoldLeft(LAMBDA v, d : 10 * v + d, 0, digits)
<1>1. text = (IF n < 0 THEN <<"-">> ELSE <<>>) \o q
  BY DEF I32ToStrBytes
<1>2. abs \in Nat /\ (n = 0 <=> abs = 0)
  OBVIOUS
<1>3. /\ q \in Seq(0..9) /\ Len(q) > 0
      /\ q[1] = 0 => n = 0
      /\ FoldLeft(LAMBDA v, d : 10 * v + d, 0, q) = abs
  <2>1. CASE n = 0
    <3>1. q = <<0>>
      BY <2>1 DEF Reverse
    <3>2. <<0>> \in Seq(Int) /\ Len(<<0>>) = 1 /\ <<0>>[1] = 0
      OBVIOUS
    <3> DEFINE m == [k \in 0..1 |-> 0]
    <3>3. m \in [0..1 -> Int] /\ m[0] = 0 /\ m[1] = 0
      OBVIOUS
    <3>4. \A k \in 1..1 : m[k] = 10 * m[k - 1] + <<0>>[k]
      OBVIOUS
    <3> HIDE DEF m
    <3>5. FoldLeft(LAMBDA v, d : 10 * v + d, 0, <<0>>) = m[1]
      BY <3>2, <3>3, <3>4, ReadFromTheLeft
    <3> HIDE DEF q
    <3>6. <<0>> \in Seq(0..9) /\ Len(<<0>>) > 0 /\ abs = 0
      BY <2>1
    <3>7. FoldLeft(LAMBDA v, d : 10 * v + d, 0, <<0>>) = abs
      BY <3>3, <3>5, <3>6
    <3>8. FoldLeft(LAMBDA v, d : 10 * v + d, 0, q) = abs
      BY <3>1, <3>7
    <3>9. q \in Seq(0..9) /\ Len(q) > 0
      BY <3>1, <3>6
    <3> QED BY <2>1, <3>8, <3>9
  <2>2. CASE n # 0
    <3>1. q = Reverse(DigitsOf[abs])
      BY <2>2
    <3> HIDE DEF q, abs
    <3>2. /\ Reverse(DigitsOf[abs]) \in Seq(0..9)
          /\ Len(Reverse(DigitsOf[abs])) > 0
          /\ Reverse(DigitsOf[abs])[1] # 0
      BY <1>2, <2>2, DigitsGiveNumber
    <3>3. FoldLeft(LAMBDA v, d : 10 * v + d, 0, Reverse(DigitsOf[abs])) = abs
      BY <1>2, DigitsGiveNumber
    <3>4. FoldLeft(LAMBDA v, d : 10 * v + d, 0, q) = abs
      BY <3>1, <3>3
    <3> QED BY <3>1, <3>2, <3>4
  <2> QED BY <2>1, <2>2
<1> HIDE DEF q
<1>4. CASE n < 0
  <2>1. text = <<"-">> \o q
    BY <1>1, <1>4
  <2> HIDE DEF text
  <2>2. text[1] = "-" /\ Tail(text) = q
    BY <1>3, <2>1, WithASign
  <2>3. digits = q
    BY <1>4, <2>2
  <2>4. size = abs /\ abs = -n
    BY <1>3, <1>4, <2>3
  <2> HIDE DEF digits, size, abs
  <2>5. n = -size
    BY <2>4
  <2>6. /\ Len(digits) > 0
        /\ digits[1] = 0 => n = 0
        /\ n = IF n < 0 /\ text[1] = "-" THEN -size ELSE size
    BY <1>3, <1>4, <2>2, <2>3, <2>5
  <2> QED BY <2>6 DEF digits, size, text
<1>5. CASE ~(n < 0)
  <2>1. text = q
    <3>1. text = <<>> \o q
      BY <1>1, <1>5
    <3>2. q \in Seq(0..9)
      BY <1>3
    <3>3. <<>> \o q = q
      BY <3>2
    <3> HIDE DEF text
    <3> QED BY <3>1, <3>3
  <2>2. digits = q
    BY <1>5, <2>1
  <2>3. size = abs /\ abs = n
    BY <1>3, <1>5, <2>2
  <2> HIDE DEF digits, size, abs, text
  <2>4. /\ Len(digits) > 0
        /\ digits[1] = 0 => n = 0
        /\ n = IF n < 0 /\ text[1] = "-" THEN -size ELSE size
    BY <1>3, <1>5, <2>2, <2>3
  <2> QED BY <2>4 DEF digits, size, text
<1> QED BY <1>4, <1>5

-----------------------------------------------------------------------------
(* The error numbers of the children                                       *)

(* What a child has failed with is a number.                               *)
ErrnoInv == \A r \in Begun : child[r].errno \in Int

(* A step that leaves all error numbers alone, but for one of those that   *)
(* a system call may return.                                               *)
LEMMA ErrnosAre ==
  ASSUME ErrnoInv, Begun' = Begun,
         \A q \in Begun : \/ child'[q].errno = child[q].errno
                          \/ child'[q].errno \in Errnos
  PROVE  ErrnoInv'
BY SpawningAssumption DEF ErrnoInv

(* A child panics with one of these numbers; nothing else sets them.       *)
LEMMA ErrnoOfChild ==
  ASSUME LaunchInv, ErrnoInv, NEW r \in Begun,
         \/ ForkChild(r) \/ ChildStep(r) \/ ProgramStep(r)
  PROVE  ErrnoInv'
<1>1. /\ DOMAIN child = Begun
      /\ "errno" \in DOMAIN child[r]
  BY DEF LaunchInv, RunInv, NewChild
<1>2. ASSUME NEW code, Panics(r, code)
      PROVE  \A q \in Begun : \/ child'[q].errno = child[q].errno
                              \/ child'[q].errno \in Errnos
  <2>1. PICK errno \in Errnos :
          child' = [child EXCEPT
                      ![r].state = "exited", ![r].ends = {},
                      ![r].code = code, ![r].errno = errno,
                      ![r].text = PanicText(r[1], Message(code), errno)]
    BY <1>2 DEF Panics
  <2>2. child'[r].errno = errno /\ \A q \in Begun \ {r} : child'[q] = child[q]
    BY <1>1, <2>1
  <2> QED BY <2>2
<1>3. Begun' = Begun
  BY DEF ForkChild, ChildStep, RedirectStdout, RedirectStderr, Exec,
         ProgramStep, ProgramWrites, ProgramExits, Begun
<1>4. CASE ForkChild(r)
  <2>1. \A q \in Begun : child'[q].errno = child[q].errno
    BY <1>1, <1>4 DEF ForkChild
  <2> QED BY <1>3, <2>1, ErrnosAre
<1>5. CASE RedirectStdout(r)
  <2>1. \/ Panics(r, 101)
        \/ \E fds : child' = [child EXCEPT ![r].state = "redirecting",
                                           ![r].fds = fds]
    BY <1>5 DEF RedirectStdout
  <2>2. ASSUME NEW fds, child' = [child EXCEPT ![r].state = "redirecting",
                                               ![r].fds = fds]
        PROVE  \A q \in Begun : child'[q].errno = child[q].errno
    BY <1>1, <2>2
  <2> QED BY <1>2, <1>3, <2>1, <2>2, ErrnosAre
<1>6. CASE RedirectStderr(r)
  <2>1. \/ Panics(r, 102)
        \/ \E fds : child' = [child EXCEPT ![r].state = "redirected",
                                           ![r].fds = fds]
    BY <1>6 DEF RedirectStderr
  <2>2. ASSUME NEW fds, child' = [child EXCEPT ![r].state = "redirected",
                                               ![r].fds = fds]
        PROVE  \A q \in Begun : child'[q].errno = child[q].errno
    BY <1>1, <2>2
  <2> QED BY <1>2, <1>3, <2>1, <2>2, ErrnosAre
<1>7. CASE Exec(r)
  <2>1. \/ Panics(r, 103)
        \/ \E env : child' = [child EXCEPT ![r].state = "running",
                                           ![r].environment = env]
    BY <1>7 DEF Exec
  <2>2. ASSUME NEW env, child' = [child EXCEPT ![r].state = "running",
                                               ![r].environment = env]
        PROVE  \A q \in Begun : child'[q].errno = child[q].errno
    BY <1>1, <2>2
  <2> QED BY <1>2, <1>3, <2>1, <2>2, ErrnosAre
<1>8. CASE ProgramStep(r)
  <2>1. \A q \in Begun : child'[q].errno = child[q].errno
    BY <1>1, <1>8 DEF ProgramStep, ProgramWrites, ProgramExits
  <2> QED BY <1>3, <2>1, ErrnosAre
<1> QED BY <1>4, <1>5, <1>6, <1>7, <1>8 DEF ChildStep

(* All steps keep them numbers.                                            *)
LEMMA ErrnoKept ==
  ASSUME LaunchInv, ErrnoInv, [LaunchNext]_launchVars
  PROVE  ErrnoInv'
<1>1. CASE UNCHANGED <<thread, child>>
  BY <1>1 DEF ErrnoInv, Begun
<1>2. CASE LoadingThread \/ UNCHANGED launchVars
  BY <1>1, <1>2 DEF LoadingThread, launchVars, spawningVars
<1>3. ASSUME NEW r \in Runs, BeginsRun(r)
      PROVE  ErrnoInv'
  <2>1. /\ Begun' = Begun \cup {r} /\ child'[r] = NewChild /\ r \notin Begun
        /\ \A q \in Begun : child'[q] = child[q]
    BY <1>3 DEF BeginsRun, BeginRun, Extended, Only, LaunchInv, Begun
  <2>2. NewChild.errno \in Int
    BY DEF NewChild
  <2> QED BY <2>1, <2>2 DEF ErrnoInv
<1>4. ASSUME NEW r \in Begun, SpawnThread(r), ~ForkChild(r)
      PROVE  ErrnoInv'
  <2>1. UNCHANGED child /\ Begun' = Begun
    BY <1>4 DEF SpawnThread, SpawnStep, PrepareFails, CreatePipe, SpawnFails,
                ParentGoesOn, Begun
  <2> QED BY <2>1 DEF ErrnoInv
<1>5. ASSUME NEW r \in Begun,
             ForkChild(r) \/ ChildProcess(r) \/ Program(r)
      PROVE  ErrnoInv'
  BY <1>5, ErrnoOfChild DEF ChildProcess, Program
<1>6. ASSUME NEW r \in Begun, WriterThread(r)
      PROVE  ErrnoInv'
  <2>1. UNCHANGED <<thread, child>>
    BY <1>6 DEF WriterThread, WriterStep, WriterHasNoPath, WriterStarts,
                OpenNextChunk, FillBuffer, Copy, EndOfFile
  <2> QED BY <1>1, <2>1
<1> QED BY <1>2, <1>3, <1>4, <1>5, <1>6 DEF LaunchNext, SpawnThread

(* The error number that a child reports is written in decimal, whatever   *)
(* number the system call has returned: with a sign if it is negative, in  *)
(* digits that amount to it, and without leading zeros.                    *)
THEOREM DecimalErrno == LaunchSpec => []ErrnoIsDecimal
<1>1. LaunchInit => ErrnoInv
  BY DEF LaunchInit, SpawningInit, ErrnoInv, Begun
<1>2. LaunchInv /\ ErrnoInv /\ [LaunchNext]_launchVars => ErrnoInv'
  BY ErrnoKept
<1>3. ErrnoInv => ErrnoIsDecimal
  BY Written DEF ErrnoInv, ErrnoIsDecimal
<1> QED
  BY <1>1, <1>2, <1>3, LaunchInvAlways, PTL DEF LaunchSpec

=============================================================================

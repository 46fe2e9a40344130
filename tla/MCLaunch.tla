------------------------------ MODULE MCLaunch ------------------------------
(***************************************************************************)
(* Instances of Launch for TLC: command lines and directories of services. *)
(***************************************************************************)
EXTENDS Launch

SomeVariables == Predefined \cup {"TERM", "X", "Y"}
SomeHorustEnv == {"HOSTNAME", "PATH", "HOME", "TERM", "X"}
SomeErrnos == {-2147483647, -10, 0, 1, 9, 10, 13, 100, 2147483647}

SomeNames == Commands \cup {"a", "b", "c", "e", "n", "x", NoName}
Logs == {"log", "own", "nowhere"}
NoWhere == {"nowhere"}

File(name, settings) ==
  [file |-> name, toml |-> TRUE, parses |-> TRUE, name |-> name,
   command |-> "program", start_after |-> {}, shutdown_after |-> {},
   settings |-> settings]

Plain(name) == File(name, DefaultSettings)
WithCommand(name, command) == [Plain(name) EXCEPT !.command = command]

Directory(files) == [readable |-> TRUE, files |-> files]
From(paths) == [command |-> "none", paths |-> paths]
OneFile(f) == From(<<Directory(<<f>>)>>)
OneFileWith(settings) == OneFile(File("a", settings))

(* No service file but a command; files and directories that are refused,  *)
(* passed over or accepted; dependencies within, across and out of them;   *)
(* one name for two services, and no name.                                 *)
LoadingSetups ==
  {[command |-> c, paths |-> <<>>] : c \in {"program", "empty", "unknown"}}
    \cup {OneFile(WithCommand("a", c)) :
            c \in {"empty", "blank", "unparsable", "unknown"}}
    \cup {From(<<Directory(<<Plain("a"), [Plain("b") EXCEPT !.name = NoName]>>),
                 Directory(<<[Plain("c") EXCEPT
                                !.start_after = after,
                                !.shutdown_after = {"b"}]>>)>>) :
            after \in {{"a"}, {"x"}}}
    \cup {From(<<Directory(<<[Plain("a") EXCEPT !.shutdown_after = after],
                             [Plain("n") EXCEPT !.toml = FALSE],
                             [Plain("e") EXCEPT !.parses = FALSE]>>),
                 [readable |-> readable, files |-> <<Plain("b")>>]>>) :
            readable \in BOOLEAN, after \in {{"b"}, {"n"}}}
    \cup {From(<<Directory(<<Plain("a")>>),
                 Directory(<<[WithCommand("a", "unknown")
                                EXCEPT !.start_after = {"a"}]>>)>>)}

(* Every kind of output, not rotated, or for paths rotated; other failures *)
(* of the child.                                                           *)
OutputSetups ==
  {OneFileWith([DefaultSettings EXCEPT !.stdout = out, !.stderr = err]) :
     out \in Targets, err \in Targets}
    \cup {OneFileWith([DefaultSettings EXCEPT !.stdout = "STDERR",
                                              !.stderr = "STDOUT",
                                              !.rotate = 1])}
    \cup {OneFileWith([DefaultSettings EXCEPT !.user_known = FALSE])}
    \cup {OneFileWith([DefaultSettings EXCEPT !.executable = FALSE])}

EnvironmentSetups ==
  {OneFileWith([DefaultSettings EXCEPT !.environment =
      [keep_env |-> keep, re_export |-> exported, additional |-> more]]) :
     keep \in BOOLEAN, exported \in SUBSET {"HOSTNAME", "HOME", "X", "Y"},
     more \in SUBSET {"HOME", "X"}}

Rotated(path, size) ==
  [DefaultSettings EXCEPT !.stdout = path, !.rotate = size]

(* One log restarted, with timestamps or without; one that cannot be       *)
(* written; two services at once with a log each.                          *)
LogSetups ==
  {OneFileWith([Rotated("log", size) EXCEPT !.stamped = stamped]) :
     size \in {1, 2}, stamped \in BOOLEAN}
    \cup {OneFileWith(Rotated("nowhere", 1))}
    \cup {From(<<Directory(<<File("a", Rotated("log", 2)),
                             File("b", Rotated("own", 1))>>)>>)}

AllSetups ==
  LoadingSetups \cup OutputSetups \cup EnvironmentSetups \cup LogSetups

=============================================================================

------------------------------ MODULE Loading ------------------------------
(***************************************************************************)
(* From the command line to the services the supervisor works with:        *)
(* main.rs, fetch_services and load_service in mod.rs, validate in         *)
(* formats/service.rs, and the two ways the threads look a service up by   *)
(* its name (supervisor/repo.rs, healthcheck/mod.rs).                      *)
(***************************************************************************)
EXTENDS Environment, Integers, FiniteSets, Sequences, SequencesExt

CONSTANTS Setups,   \* command lines and file systems Horust may start from
          Names,    \* names of services and files
          NoName,   \* the empty one
          LogPaths  \* files a service may be told to write its output to

Targets == {"STDOUT", "STDERR"} \cup LogPaths

(* What the spawner looks at: where the output goes, after how many bytes  *)
(* it is rotated (0: never) and whether the names of its chunks bear a     *)
(* timestamp; whether the user and the program exist.                      *)
SpawnSettings ==
  [stdout : Targets, stderr : Targets, rotate : Nat, stamped : BOOLEAN,
   environment : EnvironmentType, user_known : BOOLEAN, executable : BOOLEAN]

DefaultSettings ==
  [stdout |-> "STDOUT", stderr |-> "STDERR", rotate |-> 0, stamped |-> FALSE,
   environment |-> [keep_env |-> FALSE, re_export |-> {}, additional |-> {}],
   user_known |-> TRUE, executable |-> TRUE]

(* A service, with what load_service and validate look at.  A command is   *)
(* empty, or of blanks only, or cannot be split into words, or names a     *)
(* program that is not on the PATH.                                        *)
Service ==
  [file : Names, toml : BOOLEAN, parses : BOOLEAN, name : Names,
   command : {"program", "empty", "blank", "unparsable", "unknown"},
   start_after : SUBSET Names, shutdown_after : SUBSET Names,
   settings : SpawnSettings]

(* A file always has a name.                                               *)
ServiceFile == {f \in Service : f.file # NoName}

(* A path of --services-path: the files it stands for, unless it cannot be *)
(* read; command is the command after "--", if there is one, which is also *)
(* the name of its service.                                                *)
Path == [readable : BOOLEAN, files : Seq(ServiceFile)]
Commands == {"program", "empty", "unknown"}
Setup == [command : Commands \cup {"none"}, paths : Seq(Path)]

ASSUME SetupsAssumption ==
  /\ \A s \in Setups : s \in Setup
  /\ Commands \subseteq Names /\ NoName \in Names
  /\ {"STDOUT", "STDERR", "pipe"} \cap LogPaths = {}

VARIABLES setup,   \* the setup Horust was started with
          fetched, \* how many paths have been looked up
          waiting, \* the files of the last one that are still to be loaded
          loaded,  \* the services loaded so far
          stage    \* "loading", "running", or "refused" with an error

loadingVars == <<setup, fetched, waiting, loaded, stage>>

LoadingInit ==
  /\ setup \in Setups
  /\ fetched = 0
  /\ waiting = <<>>
  /\ loaded = <<>>
  /\ stage = "loading"

(* A command takes precedence over the paths, and is not validated.        *)
FromCommand ==
  /\ stage = "loading" /\ setup.command # "none"
  /\ loaded' = <<[file |-> NoName, toml |-> TRUE, parses |-> TRUE,
                  name |-> setup.command, command |-> setup.command,
                  start_after |-> {}, shutdown_after |-> {},
                  settings |-> DefaultSettings]>>
  /\ stage' = "running"
  /\ UNCHANGED <<setup, fetched, waiting>>

CanFetch ==
  /\ stage = "loading" /\ setup.command = "none"
  /\ waiting = <<>> /\ fetched < Len(setup.paths)

(* Variation: the services of a path replace those of the paths before.    *)
LastPathOnly ==
  /\ CanFetch
  /\ fetched' = fetched + 1
  /\ waiting' = setup.paths[fetched'].files
  /\ loaded' = <<>>
  /\ UNCHANGED <<setup, stage>>

(* A path that cannot be read makes the whole of loading fail.             *)
FetchServices ==
  /\ CanFetch
  /\ fetched' = fetched + 1
  /\ LET path == setup.paths[fetched']
     IN IF path.readable
          THEN /\ waiting' = path.files
               /\ UNCHANGED stage
          ELSE /\ stage' = "refused"
               /\ UNCHANGED waiting
  /\ UNCHANGED <<setup, loaded>>

(* load_service, for a file that parses.                                   *)
Named(f) == IF f.name = NoName THEN [f EXCEPT !.name = f.file] ELSE f

(* Files without the extension toml are passed over, and so are, with a    *)
(* message, those that do not parse.                                       *)
LoadService ==
  /\ stage = "loading" /\ waiting # <<>>
  /\ LET f == Head(waiting)
     IN loaded' = IF f.toml /\ f.parses THEN Append(loaded, Named(f))
                                       ELSE loaded
  /\ waiting' = Tail(waiting)
  /\ UNCHANGED <<setup, fetched, stage>>

NamesOf(services) == {services[i].name : i \in DOMAIN services}

(* Variation: only the dependencies for starting are looked at.            *)
ValidStart(services) ==
  \A i \in DOMAIN services :
    /\ services[i].command # "empty"
    /\ services[i].start_after \subseteq NamesOf(services)

(* The checks of validate, none of which fails.                            *)
Valid(services) ==
  \A i \in DOMAIN services :
    /\ services[i].command # "empty"
    /\ services[i].start_after \subseteq NamesOf(services)
    /\ services[i].shutdown_after \subseteq NamesOf(services)

Validate ==
  /\ stage = "loading" /\ setup.command = "none"
  /\ waiting = <<>> /\ fetched = Len(setup.paths)
  /\ stage' = IF Valid(loaded) THEN "running" ELSE "refused"
  /\ UNCHANGED <<setup, fetched, waiting, loaded>>

LoadingStep == FromCommand \/ FetchServices \/ LoadService \/ Validate

(* Repo::new collects the services by name: the last of a name stays.      *)
Repo ==
  [n \in NamesOf(loaded) |->
     loaded[Max({i \in DOMAIN loaded : loaded[i].name = n})]]

(* get_service of the monitor takes the first of a name.                   *)
GetService(n) == loaded[Min({i \in DOMAIN loaded : loaded[i].name = n})]

=============================================================================

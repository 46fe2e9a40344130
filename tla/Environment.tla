---------------------------- MODULE Environment ----------------------------
(***************************************************************************)
(* Environment::get_environment (horust/src/horust/formats/service.rs):    *)
(* the environment a service is executed with.  The value of a variable is *)
(* abstracted to where it comes from: "additional" (the .toml file),       *)
(* "horust" (the environment of Horust) or "computed" (the password        *)
(* database, /etc/hostname, the default PATH).                             *)
(***************************************************************************)
CONSTANTS Variables,   \* names of environment variables
          HorustEnv,   \* those in the environment of Horust
          HostnameFile \* is there a file /etc/hostname?

Predefined == {"HOSTNAME", "PATH", "USER", "HOME"}

ASSUME EnvironmentAssumption ==
  /\ HorustEnv \subseteq Variables
  /\ Predefined \cup {"TERM"} \subseteq Variables
  /\ HostnameFile \in BOOLEAN

EnvironmentType ==
  [keep_env   : BOOLEAN,
   re_export  : SUBSET Variables,
   additional : SUBSET Variables]

Origins == {"additional", "horust", "computed"}

(* HashMap::extend: g has precedence over f.                               *)
Extended(f, g) ==
  [v \in DOMAIN f \cup DOMAIN g |-> IF v \in DOMAIN g THEN g[v] ELSE f[v]]

FromHorust(S) == [v \in S \cap HorustEnv |-> "horust"]

(* Where Horust's own value is looked at before a default.                 *)
Inherited == (IF HostnameFile THEN {} ELSE {"HOSTNAME"}) \cup {"PATH"}

Computed ==
  [v \in Predefined |->
     IF v \in Inherited \cap HorustEnv THEN "horust" ELSE "computed"]

(* Variation: what is re-exported has the last word.                       *)
ExportWins(e) ==
  LET initial == Extended(FromHorust(IF e.keep_env THEN Variables ELSE {}),
                          Computed)
      with_term == Extended(FromHorust({"TERM"}), initial)
  IN Extended(Extended(with_term, [v \in e.additional |-> "additional"]),
              FromHorust(e.re_export))

GetEnvironment(e) ==
  LET initial == Extended(FromHorust(IF e.keep_env THEN Variables ELSE {}),
                          Computed)
      with_term == Extended(FromHorust({"TERM"}), initial)
      exported == Extended(with_term, FromHorust(e.re_export))
  IN Extended(exported, [v \in e.additional |-> "additional"])

-----------------------------------------------------------------------------
(* docs/README.md:193-205, "Environment section", as a relation between    *)
(* the section e of a .toml file and the environment env of its process:   *)
(* what the section defines comes first, then what it re-exports; USER,    *)
(* HOSTNAME, HOME and PATH are there in any case, and Horust's own values  *)
(* of the first three only when re-exported (or for want of a better       *)
(* hostname); the rest is there with keep-env (TERM always), and nothing   *)
(* else is.                                                                *)
Documented(e, env) ==
  /\ \A v \in e.additional : v \in DOMAIN env /\ env[v] = "additional"
  /\ \A v \in (e.re_export \cap HorustEnv) \ e.additional :
       v \in DOMAIN env /\ env[v] = "horust"
  /\ Predefined \subseteq DOMAIN env
  /\ \A v \in (Predefined \ Inherited) \ e.re_export : env[v] # "horust"
  /\ e.keep_env => HorustEnv \subseteq DOMAIN env
  /\ \A v \in DOMAIN env \ e.additional :
       \/ v \in Predefined
       \/ v \in HorustEnv /\ (e.keep_env \/ v = "TERM" \/ v \in e.re_export)

=============================================================================

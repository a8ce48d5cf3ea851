---------------------------- MODULE ConfigSession ----------------------------
(***************************************************************************)
(* The files of a build directory, the commands that write them and what a *)
(* command that dies leaves behind: config, reconfig and menuconfig        *)
(* (config_system/update_config.py, menuconfig.py) write the .config, its  *)
(* JSON form and an error marker one after the other; bob (bob.bash) looks *)
(* at the marker, makes the JSON again and builds from it.                 *)
(*                                                                         *)
(* What the options evaluate to is ConfigSystem's business.  Here the      *)
(* contents of a .config are what the user asked for and the Mconfig it    *)
(* was written with, and those of the JSON a .config and the Mconfig it    *)
(* was read with.  That the JSON of a session is the one its .config reads *)
(* back to is RoundTrip of ConfigSystem.  Left out: the depfile, the       *)
(* environment hash and the version check.  A build directory is used by   *)
(* one command at a time, and the Mconfig edited between commands.         *)
(***************************************************************************)

CONSTANTS
  Wish, NoWish,     \* what users ask for on a command line or in the menus
  Mconfig,          \* the option databases
  Faulty,           \* Mconfigs on which validate_configs logs errors
  Rejected,         \* wishes and Mconfigs: arguments that are not honoured
  Inconsistent,     \* the same: selects whose dependencies are not met
  Raising,          \* the same: enforce_dependent_values raises
  Missing, Empty    \* no file, and one truncated but not yet written

ASSUME SessionAssumption ==
  /\ NoWish \notin Wish /\ Faulty \subseteq Mconfig
  /\ Rejected \cup Inconsistent \cup Raising \subseteq Wish \X Mconfig

VARIABLES
  mconfig,          \* the Mconfig on disk
  config,           \* bob.config
  json,             \* .bob.config.json
  marker,           \* bob.config.error exists
  pc,               \* what the running command does next
  mem,              \* the configuration it holds
  errors,           \* it has logged an error
  outcome           \* history: how the last session that was not killed ended

vars == <<mconfig, config, json, marker, pc, mem, errors, outcome>>

Config == [wish : Wish \cup {NoWish}, mconfig : Mconfig]
Json == [config : Config \cup {Missing, Empty}, mconfig : Mconfig]

(* A .config that is missing or empty leaves every option at its default.  *)
WishOf(file) == IF file \in {Missing, Empty} THEN NoWish ELSE file.wish
JsonOf(file, m) == [config |-> file, mconfig |-> m]

Init ==
  /\ mconfig \in Mconfig
  /\ config = Missing /\ json = Missing /\ marker = FALSE
  /\ pc = "idle" /\ mem = Missing /\ errors = FALSE /\ outcome = "none"

-----------------------------------------------------------------------------
(* All options are computed before anything is written; this may raise.    *)
Start(w, rejected) ==
  /\ pc = "idle"
  /\ IF <<w, mconfig>> \in Raising
     THEN /\ outcome' = "raised"
          /\ UNCHANGED <<pc, mem, errors>>
     ELSE /\ pc' = "write config"
          /\ mem' = [wish |-> w, mconfig |-> mconfig]
          /\ errors' = (rejected \/ <<w, mconfig>> \in Inconsistent \/ mconfig \in Faulty)
          /\ UNCHANGED outcome
  /\ UNCHANGED <<mconfig, config, json, marker>>

(* config starts from the defaults and checks its arguments in the end.    *)
Configure(w) == Start(w, <<w, mconfig>> \in Rejected)

(* reconfig and menuconfig start from the file, and the menus can change   *)
(* it.  Neither has arguments to check.                                    *)
Reconfigure == Start(WishOf(config), FALSE)
Menuconfig(w) == Start(w, FALSE)

(* open_and_write_if_changed: nothing when the contents are the same, else *)
(* the file is truncated and then written.                                 *)
Store(file, contents, then) ==
  IF file = contents THEN pc' = then /\ file' = file
  ELSE IF file = Empty THEN pc' = then /\ file' = contents
  ELSE pc' = pc /\ file' = Empty

(* Mutant: the error marker is cleared before anything is written.         *)
WriteConfigUnmarked ==
  /\ pc = "write config"
  /\ Store(config, mem, "write json")
  /\ marker' = FALSE
  /\ UNCHANGED <<mconfig, json, mem, errors, outcome>>

WriteConfig ==
  /\ pc = "write config"
  /\ Store(config, mem, "write json")
  /\ UNCHANGED <<mconfig, json, marker, mem, errors, outcome>>

(* Mutant: the JSON is left to the next build when there is one already.   *)
WriteJsonOnce ==
  /\ pc = "write json"
  /\ IF json \in {Missing, Empty} THEN Store(json, JsonOf(mem, mem.mconfig), "mark")
     ELSE pc' = "mark" /\ json' = json
  /\ UNCHANGED <<mconfig, config, marker, mem, errors, outcome>>

WriteJson ==
  /\ pc = "write json"
  /\ Store(json, JsonOf(mem, mem.mconfig), "mark")
  /\ UNCHANGED <<mconfig, config, marker, mem, errors, outcome>>

(* Last, the marker goes if no error was logged, and comes if one was.     *)
Mark ==
  /\ pc = "mark"
  /\ marker' = errors
  /\ outcome' = IF errors THEN "errors" ELSE "ok"
  /\ pc' = IF errors THEN "drop json" ELSE "idle"
  /\ UNCHANGED <<mconfig, config, json, mem, errors>>

DropJson ==
  /\ pc = "drop json"
  /\ json' = Missing
  /\ pc' = "idle"
  /\ UNCHANGED <<mconfig, config, marker, mem, errors, outcome>>

-----------------------------------------------------------------------------
(* bob stops at the marker.                                                *)
StartBob ==
  /\ pc = "idle" /\ ~marker
  /\ pc' = "generate"
  /\ UNCHANGED <<mconfig, config, json, marker, mem, errors, outcome>>

(* Mutant: the JSON of the last session is taken for granted.              *)
GenerateIfMissing ==
  /\ pc = "generate"
  /\ IF json \in {Missing, Empty} THEN Store(json, JsonOf(config, mconfig), "build")
     ELSE pc' = "build" /\ json' = json
  /\ UNCHANGED <<mconfig, config, marker, mem, errors, outcome>>

(* generate_config_json: reading raises or gives the JSON to be written,   *)
(* and the errors of a faulty Mconfig stop bob after that.                 *)
Generate ==
  /\ pc = "generate"
  /\ IF <<WishOf(config), mconfig>> \in Raising
     THEN pc' = "idle" /\ UNCHANGED json
     ELSE Store(json, JsonOf(config, mconfig), IF mconfig \in Faulty THEN "idle" ELSE "build")
  /\ UNCHANGED <<mconfig, config, marker, mem, errors, outcome>>

EndBuild ==
  /\ pc = "build"
  /\ pc' = "idle"
  /\ UNCHANGED <<mconfig, config, json, marker, mem, errors, outcome>>

-----------------------------------------------------------------------------
(* A command is interrupted, or the machine stops.                         *)
Kill ==
  /\ pc # "idle"
  /\ pc' = "idle"
  /\ UNCHANGED <<mconfig, config, json, marker, mem, errors, outcome>>

EditMconfig ==
  /\ pc = "idle"
  /\ mconfig' \in Mconfig \ {mconfig}
  /\ UNCHANGED <<config, json, marker, pc, mem, errors, outcome>>

Next ==
  \/ \E w \in Wish : Configure(w) \/ Menuconfig(w)
  \/ Reconfigure \/ WriteConfig \/ WriteJson \/ Mark \/ DropJson
  \/ StartBob \/ Generate \/ EndBuild \/ Kill \/ EditMconfig

Spec == Init /\ [][Next]_vars

-----------------------------------------------------------------------------
Session == {"write config", "write json", "mark", "drop json"}
Bob == {"generate", "build"}

(* Files hold contents of their kind, missing and truncated ones included. *)
TypeOK ==
  /\ mconfig \in Mconfig
  /\ config \in Config \cup {Missing, Empty}
  /\ json \in Json \cup {Missing, Empty}
  /\ marker \in BOOLEAN /\ errors \in BOOLEAN
  /\ pc \in {"idle"} \cup Session \cup Bob
  /\ mem \in Config \cup {Missing} /\ (pc \in Session => mem \in Config)
  /\ outcome \in {"none", "ok", "errors", "raised"}

(* Whatever commands died between which writes, and whatever Mconfig the   *)
(* .config was written for, bob builds from the JSON of the .config and    *)
(* the Mconfig that are on disk.                                           *)
BuildUsesConfig == pc = "build" => json = JsonOf(config, mconfig)

(* Once a session has ended with errors, bob does not get past its check   *)
(* until a later one has ended without, however many are killed in between.*)
ErrorsStopBob == outcome = "errors" => pc \notin Bob

(* The marker goes only when the .config and the JSON on disk are both     *)
(* complete and those of the session that ends without errors.             *)
MarkerGuardsFiles ==
  [][marker /\ ~marker' => /\ ~errors
                           /\ config' = mem /\ json' = JsonOf(mem, mconfig)]_vars

(* "Stop the build if menuconfig.py or update_config.py failed": bob does  *)
(* not run after a session that ended with errors or raised.               *)
FailureStopsBob == outcome \in {"errors", "raised"} => pc \notin Bob
=============================================================================

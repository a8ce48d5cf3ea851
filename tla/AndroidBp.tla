------------------------------- MODULE AndroidBp -------------------------------
(***************************************************************************)
(* The androidbp back end at work: bob reads the tree, each module adds    *)
(* what it becomes to one shared file, a check is added with the hash of   *)
(* the files that were read, and the text replaces Android.bp if it        *)
(* differs.  Soong reads Android.bp later, and the check compares the hash *)
(* with the files as they are by then; all it can do is warn.  Trees are   *)
(* sets of modules; the user edits, and bob can be killed anywhere.        *)
(***************************************************************************)
EXTENDS AndroidBpModules

CONSTANTS Trees,      \* the sets of modules a tree can hold
          EditsTo,    \* tree -> the trees an edit can turn it into
          Results,    \* what the handlers of the back end do with each module
          MaxEdits, MaxKills

ASSUME TreeAssumption ==
    /\ Trees \subseteq SUBSET Modules /\ (\A t \in Trees : EditsTo[t] \subseteq Trees)
    /\ MaxEdits \in Nat /\ MaxKills \in Nat

(* What the linux back end does with a module that is compiled             *)
LinuxIncludes(m) == {Dir(f) : f \in {g \in Range(FlagsInTransitive[m]) : "include" \in g.types}}
LinuxCflags(m) ==
    {FlagString(f) : f \in {g \in Range(FlagsInTransitive[m]) :
        "include" \notin g.types /\ Variable(g) \in {"cflags", "conlyflags", "cxxflags"}}}
OnLinux(m) ==
    [srcs |-> BuildPaths(Compiled(m)), includes |-> LinuxIncludes(m), cflags |-> LinuxCflags(m),
     static_libs |-> GetStaticLibs(m), whole_static_libs |-> GetWholeStaticLibs(m),
     shared_libs |-> getSharedLibLinkPaths(m)]

Built(m) ==
    [outs |-> Outs[m], archives |-> Archives({m}), link_path |-> getSharedLibLinkPath(m),
     installs |-> IF Installs(m) THEN InstallDeps(m) ELSE {}, needed |-> enabledAndRequired(m)]
CModules == Libraries \cup StrictLibraries

(* GenerateBuildActions of every module: what it adds to the file, and     *)
(* whether it ends the run; and, for the properties, what is made of it.   *)
(* A parameter, so that all is computed once; its value is always this.    *)
HandlerResults ==
    LET added == Table([m \in Modules |-> BpModules(m)])
        ends == Table([m \in Modules |-> Dies(m)])
        below == Table([m \in Modules |-> {e[2] : e \in AndroidEdges(m)}])
        linux == Table([m \in CModules |-> OnLinux(m)])
        built == Table([m \in Modules |-> Built(m)])
    IN [added |-> added, ends |-> ends, below |-> below, linux |-> linux, built |-> built]
ASSUME ResultsAssumption == Results = HandlerResults
Handled == Results

VARIABLES tree,       \* what the build files say
          phase,      \* "idle", "generating", "checked", "writing"
          outcome,    \* how the last run ended
          parsed,     \* the tree as this run read it
          pending,    \* its modules that have not written theirs yet
          bpfile,     \* name -> Soong module, in memory
          hashed,     \* the files whose hash the check holds
          androidbp,  \* Android.bp on disk
          warned,     \* what the check last said, "unknown" before it ran
          racing,     \* a file was edited after this run parsed it, before it hashed it
          raced,      \* it was so in the run that made the file on disk
          edits, kills
vars == <<tree, phase, outcome, parsed, pending, bpfile, hashed, androidbp, warned, racing, raced, edits, kills>>

NoFile == [mods |-> <<>>, hash |-> {}]
checkName == <<"_check_buildbp_updates_">>

Init ==
    /\ tree \in Trees /\ phase = "idle" /\ outcome = "none" /\ parsed = {} /\ pending = {} /\ bpfile = <<>>
    /\ hashed = {} /\ androidbp = NoFile /\ warned = "unknown" /\ edits = 0 /\ kills = 0
    /\ racing = FALSE /\ raced = FALSE

-----------------------------------------------------------------------------
(* bob *)

collectBuildBpFiles ==
    /\ phase = "idle" /\ ~(outcome = "dead" /\ parsed = tree)
    /\ phase' = "generating" /\ outcome' = "none" /\ parsed' = tree /\ pending' = tree /\ bpfile' = <<>> /\ racing' = FALSE
    /\ UNCHANGED <<tree, hashed, androidbp, warned, raced, edits, kills>>

Die == phase' = "idle" /\ outcome' = "dead" /\ UNCHANGED <<pending, bpfile>>

(* Mutant: the modules are filed under the name in the build.bp.           *)
NewModulesByBase(new) ==
    bpfile' = [n \in DOMAIN bpfile \cup {<<r.name[1]>> : r \in new} |->
                  IF n \in DOMAIN bpfile THEN bpfile[n] ELSE CHOOSE r \in new : r.name[1] = n[1]]
NewModules(new) ==
    bpfile' = [n \in DOMAIN bpfile \cup {r.name : r \in new} |->
                  IF n \in DOMAIN bpfile THEN bpfile[n] ELSE CHOOSE r \in new : r.name = n]
Duplicate(new) ==
    \/ {r.name : r \in new} \cap DOMAIN bpfile # {}
    \/ \E r1, r2 \in new : r1 # r2 /\ r1.name = r2.name

(* In parallel; a module after all those it depends on *)
Written == Handled.added
EndsRun == Handled.ends
GenerateBuildActions(m) ==
    /\ phase = "generating" /\ m \in pending /\ Handled.below[m] \cap pending = {}
    /\ IF EndsRun[m] \/ Duplicate(Written[m]) THEN Die
       ELSE pending' = pending \ {m} /\ NewModules(Written[m]) /\ UNCHANGED <<phase, outcome>>
    /\ UNCHANGED <<tree, parsed, hashed, androidbp, warned, edits, kills, racing, raced>>

hashBuildConfig == tree
generateBuildbpCheck ==
    /\ phase = "generating" /\ pending = {}
    /\ phase' = "checked" /\ hashed' = hashBuildConfig
    /\ UNCHANGED <<tree, outcome, parsed, pending, bpfile, androidbp, warned, edits, kills, racing, raced>>

Content == [mods |-> bpfile, hash |-> hashed]
Done == phase' = "idle" /\ outcome' = "ok"
(* Mutant: only the sizes are compared.                                    *)
DiffersInSize == Cardinality(DOMAIN androidbp.mods) # Cardinality(DOMAIN bpfile)
Differs == androidbp # Content
(* The file is emptied before it is written *)
Truncate ==
    /\ phase = "checked" /\ Differs
    /\ phase' = "writing" /\ androidbp' = NoFile /\ warned' = "unknown" /\ UNCHANGED outcome
    /\ UNCHANGED <<tree, parsed, pending, bpfile, hashed, edits, kills, racing, raced>>
LeaveAlone ==
    /\ phase = "checked" /\ ~Differs /\ Done /\ raced' = racing
    /\ UNCHANGED <<tree, parsed, pending, bpfile, hashed, androidbp, warned, edits, kills, racing>>
WriteText ==
    /\ phase = "writing" /\ androidbp' = Content /\ Done /\ raced' = racing
    /\ UNCHANGED <<tree, parsed, pending, bpfile, hashed, warned, edits, kills, racing>>
WriteIfChanged == Truncate \/ LeaveAlone \/ WriteText

-----------------------------------------------------------------------------
(* The rest of the world *)

Kill ==
    /\ phase # "idle" /\ kills < MaxKills
    /\ kills' = kills + 1 /\ phase' = "idle" /\ outcome' = "killed"
    /\ UNCHANGED <<tree, parsed, pending, bpfile, hashed, androidbp, warned, edits, racing, raced>>
Edit ==
    /\ edits < MaxEdits /\ edits' = edits + 1
    /\ tree' \in EditsTo[tree] /\ warned' = "unknown"
    /\ racing' = (racing \/ phase = "generating")
    /\ UNCHANGED <<phase, outcome, parsed, pending, bpfile, hashed, androidbp, kills, raced>>
(* Mutant: what was added to the files is not noticed.                     *)
upToDateIfKept == androidbp.hash \subseteq tree
upToDate == androidbp.hash = tree
(* verify_hash.py, when Soong finds the check's output older than the      *)
(* files it lists                                                          *)
verify_hash ==
    /\ phase = "idle" /\ androidbp # NoFile /\ warned = "unknown"
    /\ warned' = IF upToDate THEN "no" ELSE "yes"
    /\ UNCHANGED <<tree, phase, outcome, parsed, pending, bpfile, hashed, androidbp, edits, kills, racing, raced>>

(* The user runs bob when it has not made an Android.bp of the tree, as    *)
(* far as he is told                                                       *)
Regenerate == (outcome # "ok" \/ warned = "yes") /\ collectBuildBpFiles
Next ==
    \/ Regenerate \/ (\E m \in Modules : GenerateBuildActions(m)) \/ generateBuildbpCheck \/ WriteIfChanged
    \/ Kill \/ Edit \/ verify_hash
Bob == (\E m \in Modules : GenerateBuildActions(m)) \/ generateBuildbpCheck \/ WriteIfChanged
Spec == Init /\ [][Next]_vars /\ WF_vars(Bob) /\ WF_vars(Regenerate) /\ WF_vars(verify_hash)

-----------------------------------------------------------------------------
(* What Soong makes of the file.  It exports directories on its own: those *)
(* a library exports, those of the libraries it passes on or is made of,   *)
(* and those of the generators whose headers it passes on.                 *)
Field(n, p) == IF n \in DOMAIN bpfile THEN bpfile[n][p] ELSE {}
PassingOn(n) == Closure({n}, UNION {{k} \X (bpfile[k].reexported \cup bpfile[k].whole_static_libs) : k \in DOMAIN bpfile})
SoongExports(n) ==
    UNION {Field(k, "export_includes")
           \cup UNION {Field(g, "export_includes") : g \in Field(k, "export_generated_headers")} : k \in PassingOn(n)}
SoongLinks(r) == r.static_libs \cup r.whole_static_libs \cup r.shared_libs
SoongIncludes(r) ==
    r.includes \cup r.export_includes
    \cup (UNION {SoongExports(n) : n \in SoongLinks(r) \cup r.header_libs})
    \cup UNION {Field(g, "export_includes") : g \in r.generated_headers}

-----------------------------------------------------------------------------
(* Properties *)

Complete == phase = "checked"
Compiling == {m \in parsed \cap CModules : Handled.built[m].needed}
Entry(m) == bpfile[shortName(m)]
NamedIn(names) == {x \in parsed : shortName(x) \in names}
Linux(m) == Handled.linux[m]
ArchivesOf(S) == UNION {Handled.built[x].archives : x \in S}
LinkPathsOf(S) == {Handled.built[x].link_path : x \in S}

(* Type correctness of the back end's state. *)
TypeOK ==
    /\ tree \in Trees /\ parsed \in Trees \cup {{}} /\ pending \subseteq parsed /\ hashed \in Trees \cup {{}}
    /\ phase \in {"idle", "generating", "checked", "writing"} /\ outcome \in {"none", "ok", "dead", "killed"}
    /\ warned \in {"unknown", "yes", "no"} /\ edits \in 0..MaxEdits /\ kills \in 0..MaxKills /\ racing \in BOOLEAN /\ raced \in BOOLEAN
    /\ \A n \in DOMAIN bpfile : bpfile[n].name = n

(* Modules add to one file in parallel, under names they make up from      *)
(* their own, a variant, a path: what each has added is in the file when   *)
(* it is written, whatever the others added after it.                      *)
NothingLost == Complete => \A m \in parsed : Written[m] \subseteq Range(bpfile)

(* Every name a needed module mentions is a module of the file, or of      *)
(* Android itself: findRequiredModulesMutator has left out nothing that    *)
(* is mentioned, and both sides of a reference spell the variant alike.    *)
Mentioned(r) ==
    SoongLinks(r) \cup r.header_libs \cup r.reexported \cup r.generated_sources \cup r.generated_headers
    \cup r.required \cup r.uses
ReferencesResolve ==
    Complete => \A m \in {x \in parsed : Handled.built[x].needed} : \A r \in Written[m] :
        Mentioned(r) \subseteq DOMAIN bpfile \cup {NameOf(x) : x \in External \cup Imported}

(* Nothing is missing from a finished file.                                *)
FileIsComplete == NothingLost /\ ReferencesResolve

(* A library compiles the sources it compiles on linux, each of them once: *)
(* generated ones come through the module that makes them.                 *)
GeneratedFor(r) ==
    BuildPaths({f \in UNION {Handled.built[x].outs : x \in NamedIn(r.generated_sources)} :
        Ext(f.path.name) \in {".s", ".S", ".c", ".cc", ".cpp"}})
SourcesAsLinux ==
    Complete => \A m \in Compiling :
        /\ Entry(m).srcs \cup GeneratedFor(Entry(m)) = Linux(m).srcs
        /\ Entry(m).srcs \cap GeneratedFor(Entry(m)) = {}

(* The directories the ninja back ends search for a module's headers are   *)
(* searched by Soong too, which is told them in another way: what each     *)
(* library exports and passes on, not what reaches each one.               *)
IncludesAsLinux == Complete => \A m \in Compiling : Linux(m).includes \subseteq SoongIncludes(Entry(m))

(* Soong does not pass on compiler flags, so the back end adds those that  *)
(* reach a module to its own: the same as on linux, but for what selects   *)
(* the machine and the standard.                                           *)
CflagsAsLinux ==
    Complete => \A m \in Compiling : Entry(m).cflags = AndroidCompileFlags(Linux(m).cflags)

(* A module links the libraries it links on linux, in the variant it links *)
(* there; and what it links for both architectures exists for both.        *)
LinksAsLinux ==
    Complete => \A m \in Compiling \ {x \in Modules : Kind(x) = "static"} :
        /\ ArchivesOf(NamedIn(Entry(m).static_libs)) = Linux(m).static_libs
        /\ ArchivesOf(NamedIn(Entry(m).whole_static_libs)) = Linux(m).whole_static_libs
        /\ LinkPathsOf(NamedIn(Entry(m).shared_libs) \ (External \cup Imported)) = Linux(m).shared_libs
        /\ Entry(m).multilib => \A n \in SoongLinks(Entry(m)) \cap DOMAIN bpfile : bpfile[n].multilib

(* Soong, told in its own terms, builds what the ninja back ends build.    *)
CompilesAsLinux == SourcesAsLinux /\ IncludesAsLinux /\ CflagsAsLinux /\ LinksAsLinux

(* Installing a module installs all that the ninja back ends install with  *)
(* it, through any number of libraries.                                    *)
LinuxInstalled(m) ==
    Closure({m}, UNION {{x} \X Handled.built[x].installs : x \in CModules})
SoongInstalled(m) ==
    Closure({shortName(m)}, UNION {{n} \X bpfile[n].required : n \in DOMAIN bpfile})
InstalledTogether ==
    Complete => \A m \in {x \in Compiling \cap Libraries : Installs(x)} :
        \A x \in LinuxInstalled(m) : {r.name : r \in Written[x]} \subseteq SoongInstalled(m)

(* When the check is silent, Android.bp is what the tree generates; unless *)
(* a file was edited after it was parsed and before it was hashed.         *)
Generated(S) == UNION {Written[m] : m \in S}
StaleIsWarned ==
    warned = "no" /\ ~raced => Range(androidbp.mods) = Generated(tree)

(* Once the user stops editing and nothing kills bob, either bob cannot    *)
(* make an Android.bp of the tree, or it has, and the check is silent.     *)
Settled == (outcome = "dead" /\ parsed = tree) \/ (warned = "no" /\ Range(androidbp.mods) = Generated(tree))
Settles == <>[](Settled \/ raced)
=============================================================================

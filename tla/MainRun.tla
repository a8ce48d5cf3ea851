---- MODULE MainRun ----
(***************************************************************************)
(* One run of the standalone primary builder (core/standalone.go), from its *)
(* toolchains to its exit code: the passes that share something between     *)
(* visits that run at the same time.  The visits share the cache of feature *)
(* types, the map of toolchain modules, the metadata, a cache of compiler   *)
(* answers for each toolchain and the logger of warnings.  A pass begins    *)
(* when every visit of the one before has ended.                            *)
(* Passes that share nothing of this are left out; other modules have them. *)
(***************************************************************************)
EXTENDS Toolchains

CONSTANTS
    Worlds,          \* the configurations and trees a run may start from
    None,            \* nothing there
    MaxStartFailures \* how many compilers may fail to start in one run

ASSUME StartFailuresAssumption == MaxStartFailures \in Nat
ASSUME NoneAssumption == None \notin {0, 1, 2}
ASSUME WorldAssumption ==
    \A w \in Worlds :
        /\ IsFiniteSet(DOMAIN w.tree.modules)
        /\ \A m \in DOMAIN w.tree.modules :
              /\ w.tree.modules[m].variants \subseteq TgtTypes
              /\ w.tree.modules[m].checks \in Seq({"Cflags", "Cxxflags", "Conlyflags"} \X STRING)
              /\ w.tree.modules[m].dir \in Seq(STRING)

VARIABLES
    world,     \* the configuration, the tree and the filters of the run
    tcs,       \* backend: the toolchain of each target type
    pass,      \* the place in Passes
    done,      \* the visitors that have ended in this pass
    raised,    \* the warnings each visitor has raised in this pass
    at,        \* where a visitor is between two steps of one visit
    asking,    \* which flag, and of which compiler, a late template asks
    types,     \* featureTypeCache: the type built for a list of structs
    builds,    \* how many types have been built
    typeOf,    \* the type each module was created with
    mapped,    \* mapper.Mapper: the toolchain modules of each directory
    machineOf, \* the toolchain module each strict module depends on
    metaData,  \* metaData: which variant the record of a name is from
    cache,     \* flagSupportedCache of each toolchain
    kept,      \* the add_if_supported flags left in each variant
    log,       \* the lines of the warnings file, and how often each is there
    errors,    \* WarningLogger.errors
    failedFor, \* what was asked when a compiler failed to start
    written,   \* the files the run has written
    code       \* exit code, None while it runs

vars == <<world, tcs, pass, done, raised, at, asking, types, builds, typeOf, mapped, machineOf,
          metaData, cache, kept, log, errors, failedFor, written, code>>

\* A map with one entry written.
Put(f, x, y) == [z \in DOMAIN f \cup {x} |-> IF z = x THEN y ELSE f[z]]

conf == world.conf
tree == world.tree

Passes == <<"configure", "parse", "register_toolchains", "process_paths", "depender",
            "generated", "collect_metadata", "late_template", "generate",
            "metadata_file", "teardown", "end">>

PassIs(name) == Passes[pass] = name /\ code = None

Names    == DOMAIN tree.modules
Variants == {v \in Names \X TgtTypes : v[2] \in tree.modules[v[1]].variants}

\* Before the splitter a module is one; afterwards its variants are visited.
Visitors == IF Passes[pass] \in {"parse", "register_toolchains"} THEN Names
            ELSE IF Passes[pass] \in {"configure", "metadata_file", "teardown", "end"} THEN {}
            ELSE Variants

(***************************************************************************)
(* The warnings logger.  A line names the module, not the variant.          *)
(***************************************************************************)
\* parseFilters and Warn: the first filter of a category, the first wildcard,
\* or ignore.
ActionFor(category) ==
    LET of(c)    == {i \in DOMAIN world.filters : world.filters[i][1] = c}
        first(c) == world.filters[CHOOSE i \in of(c) : \A j \in of(c) : i <= j][2]
    IN  IF of(category) # {} THEN first(category)
        ELSE IF of("*") # {} THEN first("*")
        ELSE "ignore"

\* What a visit of a pass has to say about the variant.
DueIn(v, name) ==
    {c \in tree.modules[v[1]].warns :
        \/ c = "RelativeUpLinkWarning" /\ name = "process_paths"
        \/ c = "GenerateRuleWarning" /\ name = "generated"
        \/ c = "UnmatchedNonCompileSrcsWarning" /\ name = "late_template"
        \/ c = "AndroidOutOfTreeUnsupportedModule" /\ name = "generate"
             /\ conf.builder = "android_ninja"}

Due(v) == DueIn(v, Passes[pass])

Count(line) == IF line \in DOMAIN log THEN log[line] ELSE 0

\* Everything is done with the logger's mutex held.
(* Mutant: the line is written as if it were the first of its kind. *)
WarnOnce(v, category) ==
    /\ category \in Due(v) \ raised[v]
    /\ raised' = [raised EXCEPT ![v] = @ \cup {category}]
    /\ errors' = IF ActionFor(category) = "error" THEN errors + 1 ELSE errors
    /\ log' = Put(log, <<v[1], ActionFor(category), category>>, 1)

Warn(v, category) ==
    /\ category \in Due(v) \ raised[v]
    /\ raised' = [raised EXCEPT ![v] = @ \cup {category}]
    /\ errors' = IF ActionFor(category) = "error" THEN errors + 1 ELSE errors
    /\ LET line == <<v[1], ActionFor(category), category>>
       IN  log' = Put(log, line, Count(line) + 1)

RaiseWarning(v) ==
    /\ code = None
    /\ v \in Variants \ done
    /\ at[v] = "ready"
    /\ \E category \in Due(v) : Warn(v, category)
    /\ UNCHANGED <<world, tcs, pass, done, at, asking, types, builds, typeOf, mapped, machineOf,
                   metaData, cache, kept, failedFor, written, code>>

\* A visit that has said all it has to say ends.
Ends(v) ==
    /\ Due(v) \subseteq raised[v]
    /\ done' = done \cup {v}

(***************************************************************************)
(* backend.Setup: Configure makes the target's toolchain, then the host's.  *)
(* A panic in it runs what Main deferred.                                   *)
(***************************************************************************)
Configure ==
    /\ PassIs("configure")
    /\ LET built == [tgt \in TgtTypes |-> ToolchainOf(conf, tgt)] IN
       IF \E tgt \in TgtTypes : built[tgt] = NoToolchain
       THEN /\ pass' = CHOOSE i \in DOMAIN Passes : Passes[i] = "metadata_file"
            /\ UNCHANGED tcs
       ELSE /\ tcs' = built
            /\ pass' = pass + 1
    /\ UNCHANGED <<world, done, raised, at, asking, types, builds, typeOf, mapped, machineOf,
                   metaData, cache, kept, log, errors, failedFor, written, code>>

(***************************************************************************)
(* Parsing: each module is created with the type of its features.           *)
(* featureStructType and coalesceTypes look under the read lock, and again  *)
(* under the write lock before they build.                                  *)
(***************************************************************************)
LookUpType(m) ==
    /\ PassIs("parse")
    /\ m \in Names \ done
    /\ at[m] = "ready"
    /\ LET key == tree.modules[m].structs IN
       IF key \in DOMAIN types
       THEN /\ typeOf' = Put(typeOf, m, types[key])
            /\ done' = done \cup {m}
            /\ UNCHANGED at
       ELSE /\ at' = [at EXCEPT ![m] = "missed"]
            /\ UNCHANGED <<typeOf, done>>
    /\ UNCHANGED <<world, tcs, pass, raised, asking, types, builds, mapped, machineOf, metaData,
                   cache, kept, log, errors, failedFor, written, code>>

(* Mutant: no second look-up under the write lock. *)
BuildTypeAlways(m) ==
    /\ PassIs("parse")
    /\ at[m] = "missed"
    /\ LET key == tree.modules[m].structs IN
       IF key \in tree.collisions
       THEN /\ code' = 1
            /\ UNCHANGED <<types, builds, typeOf>>
       ELSE /\ builds' = builds + 1
            /\ types' = Put(types, key, builds + 1)
            /\ typeOf' = Put(typeOf, m, builds + 1)
            /\ UNCHANGED code
    /\ at' = [at EXCEPT ![m] = "ready"]
    /\ done' = done \cup {m}
    /\ UNCHANGED <<world, tcs, pass, raised, asking, mapped, machineOf, metaData, cache, kept, log,
                   errors, failedFor, written>>

\* Two fields of one name end the process there and then.
BuildType(m) ==
    /\ PassIs("parse")
    /\ at[m] = "missed"
    /\ LET key == tree.modules[m].structs IN
       IF key \in DOMAIN types
       THEN /\ typeOf' = Put(typeOf, m, types[key])
            /\ UNCHANGED <<types, builds, code>>
       ELSE IF key \in tree.collisions
       THEN /\ code' = 1
            /\ UNCHANGED <<types, builds, typeOf>>
       ELSE /\ builds' = builds + 1
            /\ types' = Put(types, key, builds + 1)
            /\ typeOf' = Put(typeOf, m, builds + 1)
            /\ UNCHANGED code
    /\ at' = [at EXCEPT ![m] = "ready"]
    /\ done' = done \cup {m}
    /\ UNCHANGED <<world, tcs, pass, raised, asking, mapped, machineOf, metaData, cache, kept, log,
                   errors, failedFor, written>>

(***************************************************************************)
(* The toolchain modules: each is added to the list of its directory, and a *)
(* strict module depends on the first of the nearest directory above it.    *)
(***************************************************************************)
Register(m) ==
    /\ PassIs("register_toolchains")
    /\ m \in Names \ done
    /\ LET module == tree.modules[m]
           there  == IF module.dir \in DOMAIN mapped THEN mapped[module.dir] ELSE <<>>
       IN  mapped' = IF module.kind = "toolchain"
                     THEN Put(mapped, module.dir, Append(there, m)) ELSE mapped
    /\ done' = done \cup {m}
    /\ UNCHANGED <<world, tcs, pass, raised, at, asking, types, builds, typeOf, machineOf, metaData,
                   cache, kept, log, errors, failedFor, written, code>>

(* Mutant: the root directory is not looked at. *)
GetBelowRoot(path) ==
    LET up[n \in 0 .. Len(path)] ==
            LET p == SubSeq(path, 1, n) IN
            IF n = 0 THEN None
            ELSE IF p \in DOMAIN mapped THEN mapped[p][1]
            ELSE up[n - 1]
    IN  up[Len(path)]

\* Get: path is the sequence of its components, and the root is the empty one.
Get(path) ==
    LET up[n \in 0 .. Len(path)] ==
            LET p == SubSeq(path, 1, n) IN
            IF p \in DOMAIN mapped THEN mapped[p][1]
            ELSE IF n = 0 THEN None
            ELSE up[n - 1]
    IN  up[Len(path)]

DependOnToolchain(v) ==
    /\ PassIs("depender")
    /\ v \in Variants \ done
    /\ LET module == tree.modules[v[1]] IN
       machineOf' = IF module.kind # "strict" THEN machineOf
                    ELSE Put(machineOf, v, IF module.toolchain # None THEN module.toolchain
                                           ELSE Get(module.dir))
    /\ Ends(v)
    /\ UNCHANGED <<world, tcs, pass, raised, at, asking, types, builds, typeOf, mapped, metaData,
                   cache, kept, log, errors, failedFor, written, code>>

\* Passes of which only the warnings are shown here.
OnlyWarns(v) ==
    /\ code = None
    /\ Passes[pass] \in {"process_paths", "generated", "generate"}
    /\ v \in Variants \ done
    /\ Ends(v)
    /\ UNCHANGED <<world, tcs, pass, raised, at, asking, types, builds, typeOf, mapped, machineOf,
                   metaData, cache, kept, log, errors, failedFor, written, code>>

(***************************************************************************)
(* metaDataCollector: the record of a name is that of the last variant.     *)
(***************************************************************************)
Collect(v) ==
    /\ PassIs("collect_metadata")
    /\ v \in Variants \ done
    /\ metaData' = IF tree.modules[v[1]].kind \in {"alias", "defaults"} THEN metaData
                   ELSE Put(metaData, v[1], v)
    /\ Ends(v)
    /\ UNCHANGED <<world, tcs, pass, raised, at, asking, types, builds, typeOf, mapped, machineOf,
                   cache, kept, log, errors, failedFor, written, code>>

(***************************************************************************)
(* Late templates: each add_if_supported flag of a variant is asked of the  *)
(* compilers of its property in turn, until one takes it.                   *)
(***************************************************************************)
Languages(property) ==
    CASE property = "Cflags"     -> <<"c++", "c">>
      [] property = "Cxxflags"   -> <<"c++">>
      [] property = "Conlyflags" -> <<"c">>

Checks(v) == tree.modules[v[1]].checks

\* The flag, its property and the language that are asked for next.
Item(v)  == Checks(v)[asking[v].item]
Key(v)   == <<Item(v)[2], Languages(Item(v)[1])[asking[v].lang]>>

(* Mutant: the target's compiler is asked, whatever the variant. *)
AcceptsOnTarget(tgt, key) == <<tcs["target"].kind, key[2], key[1]>> \in conf.machine.accepts

\* What the compiler of a target type says of a flag in a language.
Accepts(tgt, key) == <<tcs[tgt].kind, key[2], key[1]>> \in conf.machine.accepts

(* Mutant: a flag that no compiler takes is asked for again. *)
AnsweredYes(v, yes) ==
    /\ at' = [at EXCEPT ![v] = "ready"]
    /\ kept' = IF yes THEN [kept EXCEPT ![v] = @ \cup {Item(v)}] ELSE kept
    /\ asking' = IF yes THEN [asking EXCEPT ![v] = [item |-> @.item + 1, lang |-> 1]]
                 ELSE IF asking[v].lang = Len(Languages(Item(v)[1])) THEN asking
                 ELSE [asking EXCEPT ![v].lang = @ + 1]

(* Mutant: a language after the last is asked. *)
AnsweredPast(v, yes) ==
    /\ at' = [at EXCEPT ![v] = "ready"]
    /\ kept' = IF yes THEN [kept EXCEPT ![v] = @ \cup {Item(v)}] ELSE kept
    /\ asking' = IF yes \/ asking[v].lang > Len(Languages(Item(v)[1]))
                 THEN [asking EXCEPT ![v] = [item |-> @.item + 1, lang |-> 1]]
                 ELSE [asking EXCEPT ![v].lang = @ + 1]

\* checkCompilerFlag has an answer: the flag stays, the next language is
\* asked, or the flag goes.
Answered(v, yes) ==
    /\ at' = [at EXCEPT ![v] = "ready"]
    /\ kept' = IF yes THEN [kept EXCEPT ![v] = @ \cup {Item(v)}] ELSE kept
    /\ asking' = IF yes \/ asking[v].lang = Len(Languages(Item(v)[1]))
                 THEN [asking EXCEPT ![v] = [item |-> @.item + 1, lang |-> 1]]
                 ELSE [asking EXCEPT ![v].lang = @ + 1]

Asks(v) ==
    /\ PassIs("late_template")
    /\ v \in Variants \ done
    /\ asking[v].item \in DOMAIN Checks(v)

\* checkFlag looks for an answer with the read lock held, and lets it go.
LookUpFlag(v) ==
    /\ Asks(v)
    /\ at[v] = "ready"
    /\ IF Key(v) \in DOMAIN cache[v[2]]
       THEN Answered(v, cache[v[2]][Key(v)] = "yes")
       ELSE /\ at' = [at EXCEPT ![v] = "missed"]
            /\ UNCHANGED <<asking, kept>>
    /\ UNCHANGED <<world, tcs, pass, done, raised, types, builds, typeOf, mapped, machineOf,
                   metaData, cache, log, errors, failedFor, written, code>>

\* The compiler is run with no lock held.  One that cannot be started is
\* taken to say no.
RunCompiler(v) ==
    /\ Asks(v)
    /\ at[v] = "missed"
    /\ \/ /\ at' = [at EXCEPT ![v] = IF Accepts(v[2], Key(v)) THEN "yes" ELSE "no"]
          /\ UNCHANGED failedFor
       \/ /\ Cardinality(failedFor) < MaxStartFailures
          /\ at' = [at EXCEPT ![v] = "no"]
          /\ failedFor' = failedFor \cup {<<v[2], Key(v)>>}
    /\ UNCHANGED <<world, tcs, pass, done, raised, asking, types, builds, typeOf, mapped,
                   machineOf, metaData, cache, kept, log, errors, written, code>>

\* The answer is stored under the write lock, whatever is there by now.
StoreAnswer(v) ==
    /\ Asks(v)
    /\ at[v] \in {"yes", "no"}
    /\ cache' = [cache EXCEPT ![v[2]] = Put(@, Key(v), at[v])]
    /\ Answered(v, at[v] = "yes")
    /\ UNCHANGED <<world, tcs, pass, done, raised, types, builds, typeOf, mapped, machineOf,
                   metaData, log, errors, failedFor, written, code>>

EndLateTemplates(v) ==
    /\ PassIs("late_template")
    /\ v \in Variants \ done
    /\ asking[v].item = Len(Checks(v)) + 1
    /\ Ends(v)
    /\ UNCHANGED <<world, tcs, pass, raised, at, asking, types, builds, typeOf, mapped,
                   machineOf, metaData, cache, kept, log, errors, failedFor, written, code>>

(***************************************************************************)
(* From pass to pass, and the end: build.ninja is written when every module *)
(* has been generated, then what Main deferred runs, last deferred first.   *)
(***************************************************************************)
NextPass ==
    /\ code = None
    /\ Passes[pass] \in {"parse", "register_toolchains", "process_paths", "depender",
                         "generated", "collect_metadata", "late_template", "generate"}
    /\ done = Visitors
    /\ pass' = pass + 1
    /\ done' = {}
    /\ raised' = [v \in DOMAIN raised |-> {}]
    /\ written' = IF Passes[pass] = "generate" THEN written \cup {"build.ninja"} ELSE written
    /\ UNCHANGED <<world, tcs, at, asking, types, builds, typeOf, mapped, machineOf,
                   metaData, cache, kept, log, errors, failedFor, code>>

\* A file that cannot be written ends the process before the logger's turn.
MetaDataWriteToFile ==
    /\ PassIs("metadata_file")
    /\ \/ /\ pass' = pass + 1
          /\ written' = IF world.metaFile THEN written \cup {"metadata"} ELSE written
          /\ UNCHANGED code
       \/ /\ world.metaFile
          /\ code' = 1
          /\ UNCHANGED <<pass, written>>
    /\ UNCHANGED <<world, tcs, done, raised, at, asking, types, builds, typeOf, mapped,
                   machineOf, metaData, cache, kept, log, errors, failedFor>>

\* Warnings that count as errors end the process now, and not before; a
\* panic goes on when nothing else has ended it.
TearDownLogger ==
    /\ PassIs("teardown")
    /\ pass' = pass + 1
    /\ code' = IF errors > 0 THEN 1
               ELSE IF DOMAIN tcs = {} THEN 2
               ELSE 0
    /\ UNCHANGED <<world, tcs, done, raised, at, asking, types, builds, typeOf, mapped,
                   machineOf, metaData, cache, kept, log, errors, failedFor, written>>

Init ==
    /\ world \in Worlds
    /\ tcs = <<>>
    /\ pass = 1
    /\ done = {}
    /\ raised = [v \in Variants |-> {}]
    /\ at = [v \in Names \cup Variants |-> "ready"]
    /\ asking = [v \in Variants |-> [item |-> 1, lang |-> 1]]
    /\ types = <<>>
    /\ builds = 0
    /\ typeOf = <<>>
    /\ mapped = <<>>
    /\ machineOf = <<>>
    /\ metaData = <<>>
    /\ cache = [tgt \in TgtTypes |-> <<>>]
    /\ kept = [v \in Variants |-> {}]
    /\ log = <<>>
    /\ errors = 0
    /\ failedFor = {}
    /\ written = {}
    /\ code = None

Next ==
    \/ Configure
    \/ \E m \in Names : LookUpType(m) \/ BuildType(m) \/ Register(m)
    \/ \E v \in Variants :
          \/ RaiseWarning(v) \/ OnlyWarns(v) \/ DependOnToolchain(v) \/ Collect(v)
          \/ LookUpFlag(v) \/ RunCompiler(v) \/ StoreAnswer(v) \/ EndLateTemplates(v)
    \/ NextPass
    \/ MetaDataWriteToFile
    \/ TearDownLogger

\* Go runs every visit that is ready, and Main goes on when a pass has ended.
Spec == Init /\ [][Next]_vars /\ WF_vars(Next)

----------------------------------------------------------------------------
(***************************************************************************)
(* Properties                                                              *)
(***************************************************************************)

\* Types: a look-up never leaves more than a place in a visit, an answer or
\* a number behind, whatever the tree.
TypeOK ==
    /\ world \in Worlds
    /\ DOMAIN tcs \in {{}, TgtTypes}
    /\ pass \in DOMAIN Passes
    /\ done \subseteq Names \cup Variants
    /\ at \in [Names \cup Variants -> {"ready", "missed", "yes", "no"}]
    /\ \A v \in Variants :
          /\ asking[v].item \in 1 .. Len(Checks(v)) + 1
          /\ asking[v].item \in DOMAIN Checks(v) =>
                asking[v].lang \in DOMAIN Languages(Item(v)[1])
          /\ kept[v] \subseteq ToSet(Checks(v))
    /\ builds \in Nat
    /\ DOMAIN typeOf \subseteq Names
    /\ \A tgt \in TgtTypes : \A key \in DOMAIN cache[tgt] : cache[tgt][key] \in {"yes", "no"}
    /\ errors \in Nat
    /\ Cardinality(failedFor) <= MaxStartFailures
    /\ written \subseteq {"build.ninja", "metadata"}
    /\ code \in {None, 0, 1, 2}

\* setupAddIfSupported and checkFlag: whoever filled the cache, and in which
\* order, a flag is left in a variant exactly when one of the compilers of
\* its property, of the variant's own toolchain, takes it; but a compiler
\* that failed to start once may have taken it away from everybody.
KeptIsSupported ==
    \A v \in Variants : \A n \in 1 .. asking[v].item - 1 :
        LET check == Checks(v)[n]
            keys  == {<<check[2], lang>> : lang \in ToSet(Languages(check[1]))}
            taken == {key \in keys : <<tcs[v[2]].kind, key[2], key[1]>> \in conf.machine.accepts}
        IN  /\ check \in kept[v] => taken # {}
            /\ (\E key \in taken : <<v[2], key>> \notin failedFor) => check \in kept[v]

\* getSharedLibFlags, the toolchains and CompileObjs on linux: the flags that
\* choose the machine and the run time are the same when C is compiled, when
\* C++ is and when either is linked; and a library that forwards its own is
\* linked by a linker that knows --copy-dt-needed-entries: not by lld.
CommandsAgree ==
    LET plain   == [cflags |-> <<>>, conlyflags |-> <<>>, cxxflags |-> <<>>]
        machine == {"-target", "--sysroot", "gnu_flags", "--rtlib", "--gcc-toolchain"}
        fuses   == {"-fuse-ld=bfd", "-fuse-ld=lld", "-fuse-ld=gold"}
    IN  \A tgt \in DOMAIN tcs :
            LET c      == ToSet(CompileC("linux", tcs[tgt], plain))
                cxx    == ToSet(CompileCXX("linux", tcs[tgt], plain))
                linked == Link(tcs[tgt], TRUE)
            IN  /\ conf.builder = "linux" =>
                      /\ c \cap machine = ToSet(linked) \cap machine
                      /\ c \cap machine = cxx \cap machine
                      /\ "--stdlib" \in cxx <=> "--stdlib" \in ToSet(linked)
                /\ "--copy-dt-needed-entries" \in ToSet(linked) =>
                      \E i \in DOMAIN linked :
                          /\ linked[i] = "-fuse-ld=bfd"
                          /\ \A j \in i + 1 .. Len(linked) : linked[j] \notin fuses

\* featureStructType: for one list of structs one type is built, whichever
\* modules ask for it at one time, and every module with that list has it.
OneTypePerList ==
    /\ builds = Cardinality(DOMAIN types)
    /\ \A m \in DOMAIN typeOf : typeOf[m] = types[tree.modules[m].structs]

\* Mapper.Get: a strict module is compiled by the toolchain it names, or by
\* one of the nearest directory above it that has any, whatever the order in
\* which they were registered; two modules of a directory by the same one.
NearestToolchain ==
    LET machines == {t \in Names : tree.modules[t].kind = "toolchain"}
        Above(t, v) == IsPrefix(tree.modules[t].dir, tree.modules[v[1]].dir)
        Nearer(a, b) == Len(tree.modules[a].dir) > Len(tree.modules[b].dir)
    IN  \A v \in DOMAIN machineOf :
            LET named == tree.modules[v[1]].toolchain
                above == {t \in machines : Above(t, v)}
            IN  IF named # None THEN machineOf[v] = named
                ELSE IF above = {} THEN machineOf[v] = None
                ELSE /\ machineOf[v] \in above
                     /\ ~ \E t \in above : Nearer(t, machineOf[v])
                     /\ \A u \in DOMAIN machineOf :
                           /\ tree.modules[u[1]].dir = tree.modules[v[1]].dir
                           /\ tree.modules[u[1]].toolchain = None
                           => machineOf[u] = machineOf[v]

\* TearDownLogger, MetaDataWriteToFile and Warn: exit code 0 says that no
\* warning counts as an error, that build.ninja is there, and the metadata
\* with every module; and the log the last step counts has each warning of
\* each variant, though the variants write it all at one time.
ExitTells ==
    LET recorded == {m \in Names : tree.modules[m].variants # {}
                                    /\ tree.modules[m].kind \notin {"alias", "defaults"}}
        said(m, c) == {v \in Variants : v[1] = m /\ \E name \in ToSet(Passes) : c \in DueIn(v, name)}
        ended    == DOMAIN tcs # {} /\ PassIs("teardown")
    IN  /\ code = 0 => /\ \A line \in DOMAIN log : line[2] # "error"
                       /\ "build.ninja" \in written
                       /\ world.metaFile => "metadata" \in written /\ DOMAIN metaData = recorded
        /\ ended => \A m \in Names : \A c \in tree.modules[m].warns :
                        Count(<<m, ActionFor(c), c>>) = Cardinality(said(m, c))
        /\ errors > 0 /\ Passes[pass] = "end" => code = 1

\* Main: the run comes to an exit code, whatever the visits find missing,
\* the compilers refuse or the configuration lacks.
MainEnds == <>(code # None)
=============================================================================

----------------------------- MODULE Enablement -----------------------------
(***************************************************************************)
(* Which modules get build rules.  Two passes over the module graph decide *)
(* it (core/standalone.go registers them one after the other):             *)
(*                                                                         *)
(*   find_required_modules   top down, parallel.  Every module that is     *)
(*       enabled and built by default marks itself required and walks its  *)
(*       dependencies, marking the enabled ones.  Walkers of different     *)
(*       modules run at the same time and read and write the Required flag *)
(*       of each other's dependencies without a lock.                      *)
(*   check_disabled_modules  bottom up, parallel.  A module with a         *)
(*       disabled direct dependency is disabled too, or, when it is        *)
(*       required, the whole run dies.                                     *)
(*                                                                         *)
(* Blueprint is external: it runs the mutator of a module once its parents *)
(* (top down) or its dependencies (bottom up) have been visited, visits    *)
(* unrelated modules concurrently, and starts a pass when the previous one *)
(* has ended.                                                              *)
(***************************************************************************)

CONSTANTS
  Module,           \* the module variants, after the host/target split
  Enableable,       \* those whose type embeds EnableableProps and its getter
  Ignored,          \* the ModuleDefaults and ModuleAlias among the others
  Type,             \* Type[m]: what isBuiltByDefault tells apart
  Target,           \* Target[m]: the variant the splitter gave the module
  Graphs,           \* the dependency graphs the build definitions may declare
  DefaultSettings   \* values of Build_by_default to consider; "nil" is unset

ASSUME ModuleAssumption ==
  /\ Enableable \subseteq Module
  /\ Ignored \subseteq Module \ Enableable
  /\ Graphs \subseteq [Module -> SUBSET Module]
  /\ DefaultSettings \subseteq {"nil", "true", "false"}

VARIABLES
  deps,             \* deps[m]: the direct dependencies blueprint holds for m
  buildByDefault,   \* EnableableProps.Build_by_default
  configured,       \* history: the modules enabled when the passes start
  enabled,          \* the modules for which isEnabled() is true
  required,         \* the modules whose Required flag is set
  phase,            \* "find", "check", "done", or "died" after utils.Die
  pc,               \* pc[m]: how far the current pass is with module m
  frontier,         \* frontier[m]: dependencies m's WalkDeps has yet to visit
  claimed,          \* claimed[m]: dependency read as enabled and not required,
                    \*   whose flag m's walker is about to set
  disabledDeps,     \* disabledDeps[m]: the local of checkDisabledMutator
  passed            \* history: non-enableable modules a walk went through

config == <<deps, buildByDefault, configured>>
walk == <<frontier, claimed, passed>>
vars == <<deps, buildByDefault, configured, enabled, required, phase, pc,
          frontier, claimed, disabledDeps, passed>>

-----------------------------------------------------------------------------
(* A module that is disabled when dependerMutator and                      *)
(* generatedDependerMutator run returns early and gets no dependencies.    *)
LinkedDeps(declared, on) ==
  [m \in Module |-> IF m \in Enableable \ on THEN {} ELSE declared[m]]

IsBuiltByDefault(m) ==
  IF buildByDefault[m] # "nil" THEN buildByDefault[m] = "true"
  ELSE \/ Type[m] = "binary" /\ Target[m] = "target"
       \/ Type[m] = "kernel_module"

IsTopLevel(m) == m \in enabled /\ IsBuiltByDefault(m)

(* The order in which blueprint visits: RegisterTopDownMutator,            *)
(* RegisterBottomUpMutator.                                                *)
ParentsVisited(m) == \A p \in Module : m \in deps[p] => pc[p] = "done"

DepsVisited(m) == \A d \in deps[m] : pc[d] = "done"

Finished(m) == pc' = [pc EXCEPT ![m] = "done"]

-----------------------------------------------------------------------------
Init ==
  /\ \E declared \in Graphs, on \in SUBSET Enableable :
       /\ configured = on
       /\ enabled = on
       /\ deps = LinkedDeps(declared, on)
  /\ buildByDefault \in [Enableable -> DefaultSettings]
  /\ required = {}
  /\ phase = "find"
  /\ pc = [m \in Module |-> "waiting"]
  /\ frontier = [m \in Module |-> {}]
  /\ claimed = [m \in Module |-> {}]
  /\ disabledDeps = [m \in Module |-> {}]
  /\ passed = {}

(* findRequiredModulesMutator on a module.                                 *)
Visit(m) == phase = "find" /\ pc[m] = "waiting" /\ ParentsVisited(m)

StartWalk(m) ==
  /\ pc' = [pc EXCEPT ![m] = "walking"]
  /\ frontier' = [frontier EXCEPT ![m] = deps[m]]
  /\ UNCHANGED <<config, enabled, phase, claimed, disabledDeps>>

VisitTopLevel(m) ==
  /\ Visit(m)
  /\ m \in Enableable /\ IsTopLevel(m)
  /\ required' = required \cup {m}
  /\ StartWalk(m)
  /\ UNCHANGED passed

(* Mutant: modules without an Enabled property are marked as well.         *)
VisitOtherMarked(m) ==
  /\ Visit(m)
  /\ m \notin Enableable \cup Ignored
  /\ required' = required \cup {m}
  /\ passed' = passed \cup {m}
  /\ StartWalk(m)

VisitOther(m) ==
  /\ Visit(m)
  /\ m \notin Enableable \cup Ignored
  /\ passed' = passed \cup {m}
  /\ StartWalk(m)
  /\ UNCHANGED required

VisitSkipped(m) ==
  /\ Visit(m)
  /\ \/ m \in Enableable /\ ~IsTopLevel(m)
     \/ m \in Ignored
  /\ Finished(m)
  /\ UNCHANGED <<config, enabled, required, phase, walk, disabledDeps>>

(* The WalkDeps callback on dependency d.  isRequired reads the flag here; *)
(* markAsRequired writes it in a later step, and other walkers may come in *)
(* between.  Blueprint walks depth first; any order is allowed here.       *)
Walking(m, d) ==
  /\ phase = "find" /\ pc[m] = "walking" /\ claimed[m] = {}
  /\ d \in frontier[m]
  /\ UNCHANGED <<config, enabled, phase, pc, disabledDeps>>

(* Mutant: the walk comes back to a dependency it has decided to skip.     *)
StopAtAndRetry(m, d) ==
  /\ Walking(m, d)
  /\ d \in Enableable
  /\ d \in required \/ d \notin enabled
  /\ UNCHANGED <<required, walk>>

StopAt(m, d) ==
  /\ Walking(m, d)
  /\ d \in Enableable
  /\ d \in required \/ d \notin enabled
  /\ frontier' = [frontier EXCEPT ![m] = @ \ {d}]
  /\ UNCHANGED <<required, claimed, passed>>

Claim(m, d) ==
  /\ Walking(m, d)
  /\ d \in Enableable
  /\ d \notin required /\ d \in enabled
  /\ frontier' = [frontier EXCEPT ![m] = @ \ {d}]
  /\ claimed' = [claimed EXCEPT ![m] = {d}]
  /\ UNCHANGED <<required, passed>>

WalkThrough(m, d) ==
  /\ Walking(m, d)
  /\ d \notin Enableable
  /\ frontier' = [frontier EXCEPT ![m] = (@ \ {d}) \cup deps[d]]
  /\ passed' = passed \cup {d}
  /\ UNCHANGED <<required, claimed>>

(* Mutant: the callback returns false after marking, so WalkDeps does not  *)
(* descend.                                                                *)
MarkWithoutDescending(m, d) ==
  /\ phase = "find" /\ pc[m] = "walking"
  /\ d \in claimed[m]
  /\ required' = required \cup {d}
  /\ claimed' = [claimed EXCEPT ![m] = {}]
  /\ UNCHANGED <<config, enabled, phase, pc, disabledDeps, frontier, passed>>

MarkAsRequired(m, d) ==
  /\ phase = "find" /\ pc[m] = "walking"
  /\ d \in claimed[m]
  /\ required' = required \cup {d}
  /\ frontier' = [frontier EXCEPT ![m] = @ \cup deps[d]]
  /\ claimed' = [claimed EXCEPT ![m] = {}]
  /\ UNCHANGED <<config, enabled, phase, pc, disabledDeps, passed>>

EndWalk(m) ==
  /\ phase = "find" /\ pc[m] = "walking"
  /\ frontier[m] = {} /\ claimed[m] = {}
  /\ Finished(m)
  /\ UNCHANGED <<config, enabled, required, phase, walk, disabledDeps>>

(* Mutant: the second pass starts while the first is still running.        *)
NextPassEarly ==
  /\ phase = "find"
  /\ phase' = "check"
  /\ pc' = [m \in Module |-> "waiting"]
  /\ UNCHANGED <<config, enabled, required, walk, disabledDeps>>

(* Blueprint starts the next mutator when every module has been visited.   *)
NextPass ==
  /\ phase = "find"
  /\ \A m \in Module : pc[m] = "done"
  /\ phase' = "check"
  /\ pc' = [m \in Module |-> "waiting"]
  /\ UNCHANGED <<config, enabled, required, walk, disabledDeps>>

-----------------------------------------------------------------------------
(* checkDisabledMutator on a module: collect the disabled direct           *)
(* dependencies, then act on them.                                         *)
CheckSkipped(m) ==
  /\ phase = "check" /\ pc[m] = "waiting" /\ DepsVisited(m)
  /\ m \notin enabled
  /\ Finished(m)
  /\ UNCHANGED <<config, enabled, required, phase, walk, disabledDeps>>

CollectDisabledDeps(m) ==
  /\ phase = "check" /\ pc[m] = "waiting" /\ DepsVisited(m)
  /\ m \in enabled
  /\ disabledDeps' = [disabledDeps EXCEPT ![m] = (deps[m] \cap Enableable) \ enabled]
  /\ pc' = [pc EXCEPT ![m] = "collected"]
  /\ UNCHANGED <<config, enabled, required, phase, walk>>

KeepEnabled(m) ==
  /\ phase = "check" /\ pc[m] = "collected"
  /\ disabledDeps[m] = {}
  /\ Finished(m)
  /\ UNCHANGED <<config, enabled, required, phase, walk, disabledDeps>>

Disable(m) ==
  /\ phase = "check" /\ pc[m] = "collected"
  /\ disabledDeps[m] # {} /\ m \notin required
  /\ enabled' = enabled \ {m}
  /\ Finished(m)
  /\ UNCHANGED <<config, required, phase, walk, disabledDeps>>

(* utils.Die prints and calls os.Exit: every other visit stops with it.    *)
Die(m) ==
  /\ phase = "check" /\ pc[m] = "collected"
  /\ disabledDeps[m] # {} /\ m \in required
  /\ phase' = "died"
  /\ UNCHANGED <<config, enabled, required, pc, walk, disabledDeps>>

EndPass ==
  /\ phase = "check"
  /\ \A m \in Module : pc[m] = "done"
  /\ phase' = "done"
  /\ UNCHANGED <<config, enabled, required, pc, walk, disabledDeps>>

Ended == phase \in {"done", "died"} /\ UNCHANGED vars

-----------------------------------------------------------------------------
WalkStep(m) ==
  \/ \E d \in Module :
       StopAt(m, d) \/ Claim(m, d) \/ WalkThrough(m, d) \/ MarkAsRequired(m, d)
  \/ EndWalk(m)

FindRequired(m) ==
  VisitTopLevel(m) \/ VisitOther(m) \/ VisitSkipped(m) \/ WalkStep(m)

CheckDisabled(m) ==
  \/ CheckSkipped(m) \/ CollectDisabledDeps(m)
  \/ KeepEnabled(m) \/ Disable(m) \/ Die(m)

Next ==
  \/ \E m \in Module : FindRequired(m) \/ CheckDisabled(m)
  \/ NextPass
  \/ EndPass
  \/ Ended

(* Every goroutine of a pass keeps being scheduled by the Go runtime, and  *)
(* blueprint goes on to the next pass when they are done.                  *)
Fairness ==
  /\ \A m \in Module : WF_vars(FindRequired(m)) /\ WF_vars(CheckDisabled(m))
  /\ WF_vars(NextPass) /\ WF_vars(EndPass)

Spec == Init /\ [][Next]_vars
FairSpec == Spec /\ Fairness

-----------------------------------------------------------------------------
(* The walkers have at most one dependency in hand, and what they have in  *)
(* hand or have yet to visit are modules of the graph.                     *)
TypeOK ==
  /\ deps \in [Module -> SUBSET Module]
  /\ buildByDefault \in [Enableable -> DefaultSettings]
  /\ configured \subseteq Enableable
  /\ enabled \subseteq configured
  /\ required \subseteq Enableable
  /\ phase \in {"find", "check", "done", "died"}
  /\ pc \in [Module -> {"waiting", "walking", "collected", "done"}]
  /\ frontier \in [Module -> SUBSET Module]
  /\ claimed \in [Module -> SUBSET Enableable]
  /\ disabledDeps \in [Module -> SUBSET Enableable]
  /\ passed \subseteq Module \ Enableable

(* The promise: modules and dependency closure, with no passes.            *)
Promise == INSTANCE BuildSet WITH
  topLevel <- {m \in Enableable : IsBuiltByDefault(m)},
  enabled  <- IF phase = "done" THEN enabled ELSE configured,
  required <- IF phase = "find" THEN {} ELSE required

(* Whatever the order in which the parallel walkers and checkers run, the  *)
(* two passes together compute the one result the graph determines         *)
(* (findRequiredModulesMutator, checkDisabledMutator).                     *)
ImplementsPromise == Promise!Spec

(* No walker ever marks a module that no top-level module needs: Required  *)
(* stays inside every set that is closed under the enabled dependencies.   *)
RequiredIsNeeded ==
  \A S \in SUBSET Module : Promise!Closed(configured, S) => required \subseteq S

(* isRequired makes a walker stop at a module another walker marked, which *)
(* is right only if that walker goes on: when the pass ends, the marked    *)
(* modules, with the non-enableable ones passed on the way, are closed.    *)
RequiredIsComplete ==
  phase # "find" =>
    \E T \in SUBSET (Module \ Enableable) : Promise!Closed(configured, required \cup T)

(* A required module is never disabled: checkDisabledMutator would rather  *)
(* end the run.                                                            *)
RequiredStaysEnabled == required \subseteq enabled

(* When both passes have succeeded no enabled module has a disabled direct *)
(* dependency, so no build rule names an output that nothing generates.    *)
NoDanglingRule ==
  phase = "done" =>
    \A m \in enabled : deps[m] \cap Enableable \subseteq enabled

(* check_disabled_modules never drops silently what a plain build is to    *)
(* build: a module that loses Enabled is not built by default.             *)
NoSilentDrop == \A m \in configured \ enabled : ~IsBuiltByDefault(m)

(* Both passes do what they are for: the marks are right, and what is      *)
(* disabled leaves no enabled module without its dependencies, drops no    *)
(* required module, and nothing that a plain build is to build.            *)
PassesSound ==
  /\ RequiredIsNeeded
  /\ RequiredIsComplete
  /\ RequiredStaysEnabled
  /\ NoDanglingRule
  /\ NoSilentDrop

(* Neither pass gets stuck on its visiting order.                          *)
PassesEnd == <>(phase \in {"done", "died"})

=============================================================================

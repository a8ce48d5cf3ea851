------------------------------ MODULE NinjaBuild ------------------------------
(***************************************************************************)
(* A build directory over its life: bob writes the ninja statements of     *)
(* its modules with one of the two ninja back ends, and ninja runs them,   *)
(* over and over, while sources are edited, outputs are deleted and builds *)
(* are interrupted.  Ninja itself is not part of the repository; it is     *)
(* modelled from the statements, the restat and depfile settings and the   *)
(* comments in the back ends.                                              *)
(*                                                                         *)
(* The content of a file is the set of source versions it was made from.   *)
(* A source has an interface part and a body part, so that the model can   *)
(* say what an edit of either should make ninja run again.                 *)
(***************************************************************************)
EXTENDS AndroidNinjaBackend, Integers, FiniteSetsExt

CONSTANTS Confs,        \* the configurations: the modules configured together, the
                        \* back end, and whether users of a shared library wait for
                        \* its table of contents (BOB_ALWAYS_LINK_SHARED_LIBS unset);
                        \* events bounds the edits, losses and interruptions
          Results,      \* what the handlers of each back end write, and ninja's plans
          Lost(_),      \* whether the user may delete a built file
          Asked(_)      \* whether the user may ask for a phony target by name

(* GenerateBuildActions of every module, by the generator of the back end *)
Dies(c) == \E m \in c.scene : IF c.backend = "linux" THEN LinuxDies(m) ELSE AndroidNinjaDies(m)
Linux == Table([m \in Modules |-> Table([toc \in BOOLEAN |-> LinuxActions(m, toc)])])
AndroidNinja == Table([m \in Modules |-> Table([toc \in BOOLEAN |-> AndroidNinjaActions(m, toc)])])
Statements(c) ==
    UNION {IF c.backend = "linux" THEN Linux[m][c.toc] ELSE AndroidNinja[m][c.toc] : m \in c.scene}

-----------------------------------------------------------------------------
(* What follows from the statements alone *)

Discovers(s) == s.rule \in {"compile", "gen_split", "gen_dep"}    \* has a depfile
InSharedDir(p) == \E tgt \in {"host", "target"} : IsPrefix(SharedLibsDir(tgt), p.dir)
(* A depfile names the files a command read, not the libraries it was loaded with *)
Discovered(s) == IF Discovers(s) THEN {p \in s.reads : ~InSharedDir(p)} ELSE {}
(* A link takes the symbols of its shared libraries *)
TakesInterface(s, p) == s.rule \in {"link_shared", "link_binary"} /\ InSharedDir(p)
Needs(s) == s.in \cup s.imp \cup s.ord
Follow(edges) ==      \* transitive closure of a function from ids to sets of ids
    LET pairs == UNION {{i} \X edges[i] : i \in DOMAIN edges}
    IN Table([i \in DOMAIN edges |-> Closure(edges[i], pairs)])

(* Statements by number, with who makes what, who must come before whom,   *)
(* and whom a newer file makes run again.  A phony statement passes its    *)
(* inputs on.                                                              *)
PlanOf(c) ==
    LET stmt == FoldSet(LAMBDA s, list : Append(list, s), <<>>, Statements(c))
        ids == DOMAIN stmt
        made == UNION {stmt[i].outs : i \in ids}
        consumed == UNION {Needs(stmt[i]) \cup stmt[i].reads : i \in ids}
        producers == Table([p \in made |-> {i \in ids : p \in stmt[i].outs}])
        makers(paths) == UNION {producers[p] : p \in paths \cap made}
        upstream == Follow(Table([i \in ids |-> makers(Needs(stmt[i]))]))
        found == Follow(Table([i \in ids |-> makers(Needs(stmt[i]) \cup Discovered(stmt[i]))]))
        through == Follow(Table([i \in ids |-> {j \in makers(stmt[i].in \cup stmt[i].imp) : stmt[j].rule = "phony"}]))
        watched(i) == (UNION {stmt[j].in \cup stmt[j].imp : j \in {i} \cup through[i]})
                      \cup Discovered(stmt[i])
        extras(i) == IF stmt[i].rule # "gen_split" THEN {}
                     ELSE UNION {stmt[j].outs : j \in {k \in ids : stmt[k].rule = "touch" /\ stmt[k].in = stmt[i].outs}}
        watching == Table([i \in ids |-> watched(i)])
        files == {p \in made : \A i \in producers[p] : stmt[i].rule # "phony"}
        maker(p) == LET i == CHOOSE j \in producers[p] : TRUE
                    IN IF stmt[i].rule = "touch" THEN CHOOSE j \in ids : p \in extras(j) ELSE i
    IN [stmt |-> stmt, maker |-> Table([p \in files |-> maker(p)]), commands |-> {i \in ids : stmt[i].rule # "phony"}, files |-> files,
        sources |-> consumed \ made, producers |-> producers, upstream |-> upstream, found |-> found,
        extras |-> Table([i \in ids |-> extras(i)]),
        watchers |-> Table([p \in made \cup consumed |-> {i \in ids : stmt[i].rule # "phony" /\ p \in watching[i]}]),
        names |-> {p \in made : \E i \in producers[p] : stmt[i].rule = "phony"},
        default |-> {i \in ids : stmt[i].default}]

NoPlan == [stmt |-> <<>>, commands |-> {}, files |-> {}, sources |-> {}]

(* For the properties: what a module loads or is made of, and what is      *)
(* installed of it; the kinds of which androidninja makes something else   *)
LoadEdges ==
    UNION {{x} \X {y \in Props[x].shared_libs \cup Props[x].extra_symbols \cup Props[x].install_deps
                              \cup Props[x].static_libs \cup Props[x].whole_static_libs : y \notin External} :
                    x \in Modules}
Installed(m) ==
    IF ~Enabled(m) \/ ~Installs(m) THEN {}
    ELSE {At(InstallPath(m), BuildPath(f).name) : f \in Tagged(Outs[m], "installable")}
WarnedOf == {"test", "import_library", "import_binary", "kernel_module"}

(* What the statements of a build must say for ninja to get it right.      *)
(* Each path has one maker; what a statement asks for is in the source     *)
(* tree or is made; no statement comes before itself.                      *)
InSourceTree(p) == p.dir # <<>> /\ Head(p.dir) \in {"$SrcDir", "$BobScriptsDir"}
OneMaker(P) == \A p \in DOMAIN P.producers : Cardinality(P.producers[p]) = 1
NoCycle(P) == IsFiniteSet(DOMAIN P.stmt) /\ \A i \in DOMAIN P.upstream : i \notin P.upstream[i]

(* A command opens files of the source tree and files ninja made before it *)
(* started, and runs again when one of them changes: it watches the file,  *)
(* or it links a shared library and watches its table of contents; or the  *)
(* file is a link and holds nothing of its own.  It also watches what the  *)
(* commands watch whose outputs it watches, when these move at every run.  *)
Carriers(P, i) ==
    LET moves == {k \in P.commands : ~P.stmt[k].restat /\ P.stmt[k].rule # "touch"}
        followers(k) == UNION {P.watchers[p] : p \in P.stmt[k].outs}
    IN Closure({i}, UNION {followers(k) \X {k} : k \in moves})
TocsOf(P, p) == {t \in P.files : P.stmt[P.maker[t]].rule = "toc" /\ P.stmt[P.maker[t]].reads = {p}}
Told(P, i, p) ==
    \/ Carriers(P, i) \cap P.watchers[p] # {}
    \/ p \in P.files /\ P.stmt[P.maker[p]].reads = {}
    \/ TakesInterface(P.stmt[i], p) /\ \E t \in TocsOf(P, p) : Carriers(P, i) \cap P.watchers[t] # {}
ReadsDeclared(P) ==
    \A i \in P.commands : \A p \in P.stmt[i].reads :
        /\ p \in P.sources \cup P.files
        /\ p \in P.files => P.producers[p] \subseteq P.upstream[i]
        /\ Told(P, i, p)

(* The extra outputs of a command with a depfile are touched after it.     *)
(* They are seen to change only when its first output does, and nothing    *)
(* makes them again once they are lost.                                    *)
ExtrasFollow(P) ==
    /\ \A k \in {j \in P.commands : P.stmt[j].rule = "touch"} :
           /\ ~P.stmt[k].restat /\ P.stmt[k].reads = {} /\ \A p \in P.stmt[k].outs : ~Lost(p)
           /\ \E g \in P.commands : P.stmt[g].rule = "gen_split" /\ P.stmt[k].in = P.stmt[g].outs
    /\ \A g \in {j \in P.commands : P.stmt[j].rule = "gen_split"} :
           /\ P.stmt[g].outs # {}
           /\ \A p \in P.stmt[g].outs : Ext(p.name) = ".h" => \A e \in P.extras[g] : Ext(e.name) = ".h"

Fits(P) ==
    /\ OneMaker(P) /\ NoCycle(P)
    /\ \A p \in P.sources : InSourceTree(p)
    /\ ReadsDeclared(P) /\ ExtrasFollow(P)

(* What follows from the modules alone is a parameter, so that it is       *)
(* computed once; its value is always this one.                            *)
HandlerResults ==
    LET died == {c \in Confs : Dies(c)}
        plans == Table([c \in Confs |-> IF c \in died THEN NoPlan ELSE PlanOf(c)])
        comparable == {m \in Modules : ~LinuxDies(m) /\ ~AndroidNinjaDies(m) /\ Kind(m) \notin WarnedOf}
        loaded == Table([m \in Modules |-> Closure({m}, LoadEdges)])
        installed == Table([m \in Modules |-> Installed(m)])
        outputs == Table([m \in Modules |-> GetOutputs(Outs[m])])
        fitting == {c \in Confs \ died : Fits(plans[c])}
    IN [died |-> died, plans |-> plans, fitting |-> fitting, linux |-> Linux, androidninja |-> AndroidNinja,
        comparable |-> comparable, loaded |-> loaded, installed |-> installed, outputs |-> outputs]
ASSUME ResultsAssumption == Results = HandlerResults
Handled == Results
Plans == Handled.plans

(* ninja's targets: no argument, or the name of a phony statement *)
Requests(plan) == {i \in DOMAIN plan.stmt : plan.stmt[i].rule = "phony" /\ (\A p \in plan.stmt[i].outs : Asked(p))}
                  \cup {0}
Goal(plan, r) ==
    LET roots == IF r = 0 THEN plan.default ELSE {r} IN roots \cup UNION {plan.upstream[i] : i \in roots}

-----------------------------------------------------------------------------
(* What a command makes of what it reads *)

Part(src, part, versions) == <<src, part, versions[src][part]>>
OfSource(src, versions) == {Part(src, "iface", versions), Part(src, "body", versions)}
Interface(content) == {x \in content : x[2] = "iface"}

(* A link takes the symbols of its shared libraries; a table of contents   *)
(* and a generated header hold nothing else.                               *)
Seen(s, p, content) == IF TakesInterface(s, p) THEN Interface(content) ELSE content
Made(s, out, content) == IF s.rule = "toc" \/ Ext(out.name) = ".h" THEN Interface(content) ELSE content

(* The contents the files would have after a build from nothing *)
Clean(plan, versions) ==
    LET made[p \in plan.files \cup plan.sources] ==
            IF p \in plan.sources THEN OfSource(p, versions)
            ELSE LET s == plan.stmt[plan.maker[p]]
                 IN Made(s, p, UNION {Seen(s, q, made[q]) : q \in s.reads})
    IN made

-----------------------------------------------------------------------------
VARIABLES conf,      \* the configuration
          phase,     \* new, idle, building, built, or died (bob gave up)
          ver,       \* versions of the sources
          disk,     \* built files that exist, with their contents
          stale,     \* statements ninja would find out of date
          unseen,    \* files written behind ninja's back since it last looked
          logged,    \* statements whose depfile ninja has read
          request,   \* what the current or last build was asked for
          want,      \* statements of the request not yet run or passed over
          mishaps    \* files lost and builds interrupted so far
vars == <<conf, phase, ver, disk, stale, unseen, logged, request, want, mishaps>>

plan == Plans[conf]
Edits == MapThenSumSet(LAMBDA s : ver[s].iface + ver[s].body, DOMAIN ver)

Init ==
    /\ conf \in Confs
    /\ phase = "new"
    /\ ver = [s \in Plans[conf].sources |-> [iface |-> 0, body |-> 0]]
    /\ disk = <<>>
    /\ stale = {} /\ unseen = {} /\ logged = {} /\ want = {}
    /\ request = 0 /\ mishaps = 0

(* bob: write every statement, or die and leave no build *)
Generate ==
    /\ phase = "new"
    /\ phase' = IF conf \in Handled.died THEN "died" ELSE "idle"
    /\ stale' = plan.commands
    /\ UNCHANGED <<conf, ver, disk, unseen, logged, request, want, mishaps>>

AtRest == phase \in {"idle", "built"}

Edit(s, part) ==
    /\ AtRest /\ Edits + mishaps < conf.events
    /\ ver' = [ver EXCEPT ![s][part] = @ + 1]
    /\ stale' = stale \cup plan.watchers[s]
    /\ phase' = "idle"
    /\ UNCHANGED <<conf, disk, unseen, logged, request, want, mishaps>>

Without(p) == [q \in DOMAIN disk \ p |-> disk[q]]
Lose(p) ==
    /\ AtRest /\ Edits + mishaps < conf.events /\ Lost(p)
    /\ disk' = Without({p})
    /\ stale' = stale \cup plan.producers[p]
    /\ mishaps' = mishaps + 1
    /\ phase' = "idle"
    /\ UNCHANGED <<conf, ver, unseen, logged, request, want>>

(* Mutant: phony statements are run like commands.                         *)
StartBuildAll(r) ==
    /\ AtRest
    /\ request' = r
    /\ want' = Goal(plan, r)
    /\ phase' = "building"
    /\ UNCHANGED <<conf, ver, disk, stale, unseen, logged, mishaps>>

(* ninja looks at every file once, when it starts *)
StartBuild(r) ==
    /\ AtRest
    /\ request' = r
    /\ want' = Goal(plan, r) \cap plan.commands
    /\ stale' = stale \cup UNION {plan.watchers[p] : p \in unseen}
    /\ unseen' = {}
    /\ phase' = "building"
    /\ UNCHANGED <<conf, ver, disk, logged, mishaps>>

Before(i) == IF i \in logged THEN plan.found[i] ELSE plan.upstream[i]
Pending == want \cap stale
CanRun(i) == phase = "building" /\ i \in Pending /\ Before(i) \cap Pending = {}

ContentOf(p) == IF p \in plan.sources THEN OfSource(p, ver) ELSE IF p \in DOMAIN disk THEN disk[p] ELSE {}
Result(s, out) == Made(s, out, UNION {Seen(s, p, ContentOf(p)) : p \in s.reads})
Changed(outs, new) == {p \in outs : p \notin DOMAIN disk \/ disk[p] # new[p]}

(* A command runs to its end.  Restat commands leave an output alone that  *)
(* would not change.  touch -c only moves the time of files that exist.    *)
Run(i) ==
    LET s == plan.stmt[i]
        outs == s.outs \cup plan.extras[i]
        new == [p \in outs |-> Result(s, p)]
        moved == IF s.restat THEN Changed(s.outs, new)
                 ELSE IF s.rule = "touch" THEN s.outs \cap DOMAIN disk ELSE s.outs IN
    /\ CanRun(i)
    /\ disk' = IF s.rule = "touch" THEN disk
             ELSE [p \in outs \cup DOMAIN disk |-> IF p \in outs THEN new[p] ELSE disk[p]]
    /\ stale' = (stale \cup UNION {plan.watchers[p] : p \in moved}) \ {i}
    /\ unseen' = (unseen \cup (Changed(plan.extras[i], new))) \ moved
    /\ want' = want \ {i}
    /\ logged' = IF Discovers(s) THEN logged \cup {i} ELSE logged
    /\ UNCHANGED <<conf, phase, ver, request, mishaps>>

(* Interrupted: ninja removes what the running command was making.  A      *)
(* touch is over at once; its outputs, once lost, nothing would make again *)
(* while the main output of the command that wrote them is there.          *)
Interrupt(i) ==
    /\ CanRun(i) /\ Edits + mishaps < conf.events /\ plan.stmt[i].rule # "touch"
    /\ disk' = Without(plan.stmt[i].outs)
    /\ mishaps' = mishaps + 1
    /\ want' = {}
    /\ phase' = "idle"
    /\ UNCHANGED <<conf, ver, stale, unseen, logged, request>>

Finish ==
    /\ phase = "building" /\ Pending = {}
    /\ want' = {}
    /\ phase' = "built"
    /\ UNCHANGED <<conf, ver, disk, stale, unseen, logged, request, mishaps>>

Next ==
    \/ Generate
    \/ \E s \in DOMAIN ver, part \in {"iface", "body"} : Edit(s, part)
    \/ \E p \in DOMAIN disk : Lose(p)
    \/ \E r \in Requests(plan) : StartBuild(r)
    \/ \E i \in plan.commands : Run(i) \/ Interrupt(i)
    \/ Finish

(* ninja does not stop while it has a command it may run *)
Spec == Init /\ [][Next]_vars /\ WF_vars((\E i \in plan.commands : Run(i)) \/ Finish)

-----------------------------------------------------------------------------
(* Properties *)

TypeOK ==
    /\ conf \in Confs /\ phase \in {"new", "idle", "building", "built", "died"}
    /\ DOMAIN disk \subseteq plan.files
    /\ stale \subseteq plan.commands /\ want \subseteq plan.commands /\ logged \subseteq plan.commands
    /\ unseen \subseteq plan.files
    /\ request \in Requests(plan)

Commands == {plan.stmt[i] : i \in plan.commands}

(* No two statements make one path (ninja refuses the file if they do),    *)
(* none waits for itself, every path one asks for is in the source tree or *)
(* is made by one, and a command has declared, itself or through others,   *)
(* what it opens: for how much of it ninja has to know, see Fits.          *)
StatementsFit == phase = "idle" => conf \in Handled.fitting

(* Whenever ninja may start a command, every file the command opens is     *)
(* there, and no command of this build is still going to write it: what a  *)
(* command reads follows from its arguments, what ninja waits for from the *)
(* inputs, implicit and order-only inputs the back end declared.           *)
ReadsAreReady ==
    \A i \in {j \in plan.commands : CanRun(j)} :
        \A p \in plan.stmt[i].reads \ plan.sources :
            p \in DOMAIN disk /\ plan.producers[p] \cap Pending = {}

(* A finished build leaves what a build from nothing would have made,      *)
(* whatever was edited, deleted or interrupted before.                     *)
Outputs(i) == plan.stmt[i].outs
FreshAfterBuild ==
    phase = "built" =>
        \A i \in Goal(plan, request) \cap plan.commands : \A p \in Outputs(i) :
            p \in DOMAIN disk /\ disk[p] = Clean(plan, ver)[p]

(* Dependencies are complete: in any legal order every command finds what  *)
(* it reads, and nothing that changed is left as it was.                   *)
BuildsRight == ReadsAreReady /\ FreshAfterBuild

(* Asking for an alias builds every enabled module under it, and asking    *)
(* for a module that is installed installs the shared libraries it loads.  *)
RequestedModules ==
    IF request = 0 THEN {}
    ELSE {m \in conf.scene : Enabled(m) /\ (\E p \in Outputs(request) :
              \/ m \in Phonies /\ p = At(<<>>, shortName(m))
              \/ \E a \in conf.scene : Kind(a) = "alias" /\ p = PhonyPath(Props[a].name)
                                       /\ (m \in Props[a].targets \/ a \in Props[m].add_to_alias))}
InstalledTogether ==
    phase = "built" =>
        \A m \in RequestedModules : Installs(m) =>
            \A x \in Handled.loaded[m] : Handled.installed[x] \subseteq DOMAIN disk
AliasBuildsAll ==
    phase = "built" =>
        \A m \in {x \in RequestedModules : Kind(x) # "test" \/ conf.backend = "linux"} :
            Handled.outputs[m] \subseteq DOMAIN disk \cup plan.sources

(* A name one can ask for brings all that its users may expect.            *)
GoalsComplete == InstalledTogether /\ AliasBuildsAll

(* With tables of contents, and nothing lost or interrupted, a program or  *)
(* a library is linked again only when the result differs.                 *)
NoIdleRelink ==
    [][ conf.toc /\ mishaps = 0 =>
          \A i \in plan.commands :
              plan.stmt[i].rule \in {"link_binary", "link_shared"} /\ i \in want \ want' /\ phase' = "building"
                  /\ Outputs(i) \subseteq DOMAIN disk
              => \E p \in Outputs(i) : disk'[p] # disk[p] ]_vars

(* The two back ends, written twice, say the same of the modules both take *)
BackendsAgree ==
    phase = "idle" =>
        \A m \in Handled.comparable \cap conf.scene :
            Handled.linux[m][conf.toc] = Handled.androidninja[m][conf.toc]

(* Every build comes to an end: no command waits for itself or forever *)
BuildEnds == phase = "building" ~> phase # "building"
=============================================================================

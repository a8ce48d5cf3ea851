------------------------------ MODULE Defaults ------------------------------
(***************************************************************************)
(* How the properties of a module come together (core/defaults.go,         *)
(* properties.go, feature.go, splitter.go).  A build definition sets a     *)
(* property on a module or in a bob_defaults it names, there under host,   *)
(* target or neither, and there in a feature or not.  Eight passes of      *)
(* core/standalone.go flatten this into one value per module and variant:  *)
(*                                                                         *)
(*   default_deps1       note the defaults each module names, in a map     *)
(*   default_deps2       expand nested defaults into one list per module   *)
(*   features_applier    what enabled features set goes one level up       *)
(*   supported_variants  host_supported, target_supported from defaults    *)
(*   bob_splitter        one copy of the module for each variant           *)
(*   target              what host or target sets goes one level up        *)
(*   process_paths       local paths become relative to the project        *)
(*   default_applier     the defaults' properties go below the module's    *)
(*                                                                         *)
(* All are parallel: blueprint (external) visits modules in any order that *)
(* respects the direction of the pass, and starts a pass when the previous *)
(* one has ended.  Visits that do nothing (those of bob_defaults in three  *)
(* passes) are left out, and so are templates, toolchains and generated    *)
(* modules, whose variant is fixed.                                        *)
(***************************************************************************)
EXTENDS Naturals, FiniteSets, SequencesExt

CONSTANTS
  User,             \* modules that may name defaults and are split: libraries
  Default,          \* the bob_defaults
  FeatureList,      \* the features of the configuration, in its order
  Declarations      \* what build definitions may hold, see below

Module == User \cup Default
Variant == {"host", "target"}
Place == Variant \cup {"core"}
Part == Range(FeatureList) \cup {"plain"}
Unset == "nil"
Tri == {"true", "false", Unset}     \* a *bool

(* What expanding gives when it ends the run.                              *)
Cyclic == <<"depends upon itself">>

(* modules: those there are; features: those enabled; defaults: the list a *)
(* module names; sets: where it sets the property; supported:              *)
(* host_supported and target_supported, where it sets them.                *)
ASSUME DeclarationAssumption ==
  /\ FeatureList \in Seq(Range(FeatureList))
  /\ IsFiniteSet(Module) /\ User \cap Default = {} /\ Cyclic \notin Seq(Module)
  /\ \A d \in Declarations :
       /\ d.modules \subseteq Module /\ d.features \subseteq Range(FeatureList)
       /\ d.defaults \in [Module -> Seq(Default)]
       /\ \A m \in Module : Range(d.defaults[m]) \subseteq d.modules
       /\ \A m \in Module \ d.modules : d.defaults[m] = <<>>
       /\ d.sets \in [Module -> SUBSET (Place \X Part)]
       /\ d.supported \in [Module -> [Part -> [Variant -> Tri]]]

VARIABLES
  declared,         \* the build definitions and the configuration
  pass,             \* the pass in progress, 9 when all have ended; 0 after utils.Die
  visited,          \* what it has visited: modules, or modules and variants
  defaultsMap,      \* shared map from module names to the defaults they name
  deps,             \* deps[m]: dependencies with DefaultTag, in order
  supported,        \* supported[m]: SplittableProps
  variants,         \* variants[m]: the copies of m
  disabled,         \* modules without a variant
  props             \* props[m][v][p]: the properties of a copy; all of them are
                    \*   the same until m is split
vars == <<declared, pass, visited, defaultsMap, deps, supported, variants, disabled, props>>

-----------------------------------------------------------------------------
(* A property of each kind: flags, a list in which later values override;  *)
(* dirs, a list tagged first_overrides, of local paths with the prefixes   *)
(* they have been given; and enable, a *bool.  Values are the places they  *)
(* were set.                                                               *)
Nothing == [flags |-> <<>>, dirs |-> <<>>, enable |-> <<>>]

Given(m, place, part) ==
  LET value == <<m, place, part>>
  IN  IF <<place, part>> \notin declared.sets[m] THEN Nothing
      ELSE [ flags |-> <<value>>, dirs |-> <<[value |-> value, prefix |-> <<>>]>>,
             enable |-> <<value>> ]

(* Mutant: first_overrides is not looked at.                               *)
AppendIgnoringTag(dst, src) ==
  [ flags  |-> dst.flags \o src.flags,
    dirs   |-> dst.dirs \o src.dirs,
    enable |-> IF src.enable # <<>> THEN src.enable ELSE dst.enable ]

(* Src overrides dst, or dst overrides src.                                *)
AppendProperties(dst, src) ==
  [ flags  |-> dst.flags \o src.flags,
    dirs   |-> src.dirs \o dst.dirs,
    enable |-> IF src.enable # <<>> THEN src.enable ELSE dst.enable ]

PrependProperties(dst, src) ==
  [ flags  |-> src.flags \o dst.flags,
    dirs   |-> dst.dirs \o src.dirs,
    enable |-> IF dst.enable # <<>> THEN dst.enable ELSE src.enable ]

AppendBool(dst, src) == IF src # Unset THEN src ELSE dst

(* One after the other.                                                    *)
AppendAll(base, srcs) ==
  LET after[i \in 0..Len(srcs)] ==
        IF i = 0 THEN base ELSE AppendProperties(after[i - 1], srcs[i])
  IN  after[Len(srcs)]

AppendBools(base, srcs) ==
  LET after[i \in 0..Len(srcs)] == IF i = 0 THEN base ELSE AppendBool(after[i - 1], srcs[i])
  IN  after[Len(srcs)]

(* What of a list is in S.                                                 *)
Only(list, S) ==
  LET kept[i \in 0..Len(list)] ==
        IF i = 0 THEN <<>>
        ELSE IF list[i] \in S THEN Append(kept[i - 1], list[i]) ELSE kept[i - 1]
  IN  kept[Len(list)]

EnabledFeatures == Only(FeatureList, declared.features)

-----------------------------------------------------------------------------
(* Expansion: of a module, below those seen on the way.                    *)
Call(d, seen) == [of |-> d, seen |-> seen]
Calls == [of : Module, seen : SUBSET Module]

(* Mutant: what one branch has seen is remembered in the next.             *)
JoinedSharingSeen(expand, names, seen) ==
  LET list[i \in 0..Len(names)] ==
        IF i = 0 THEN <<>>
        ELSE IF list[i - 1] = Cyclic \/ names[i] \in seen \cup Range(list[i - 1]) THEN Cyclic
        ELSE LET below == expand[Call(names[i], seen \cup Range(list[i - 1]) \cup {names[i]})]
             IN  IF below = Cyclic THEN Cyclic ELSE Append(list[i - 1] \o below, names[i])
  IN  list[Len(names)]

(* The loop of expandDefault: each name, after what is below it.           *)
Joined(expand, names, seen) ==
  LET list[i \in 0..Len(names)] ==
        IF i = 0 THEN <<>>
        ELSE IF list[i - 1] = Cyclic \/ names[i] \in seen THEN Cyclic
        ELSE LET below == expand[Call(names[i], seen \cup {names[i]})]
             IN  IF below = Cyclic THEN Cyclic ELSE Append(list[i - 1] \o below, names[i])
  IN  list[Len(names)]

(* expandDefault: what m names and what that names, innermost first.       *)
ExpandDefault(map, m) ==
  LET expand[c \in Calls] == Joined(expand, map[c.of], c.seen)
  IN  expand[Call(m, {})]

(* Mutant: the first occurrence of each is kept.                           *)
FirstOccurrences(list) ==
  FoldLeft(LAMBDA s, d : IF d \in Range(s) THEN s ELSE Append(s, d), <<>>, list)

LastOccurrences(list) ==
  LET kept[i \in 0..Len(list)] ==
        IF i = 0 THEN <<>>
        ELSE IF \E j \in i + 1..Len(list) : list[j] = list[i] THEN kept[i - 1]
        ELSE Append(kept[i - 1], list[i])
  IN  kept[Len(list)]

-----------------------------------------------------------------------------
(* Visiting order: bottom up and top down.  Before default_deps2 has ended *)
(* there are no dependencies.                                              *)
DepsVisited(m, v) == \A d \in Range(deps[m]) : <<d, v>> \in visited
ParentsVisited(d, v) ==
  \A u \in User : d \in Range(deps[u]) /\ v \in variants[u] => <<u, v>> \in visited

ToVisit(p) ==
  LET among == declared.modules \cap (IF p \in {2, 4, 8} THEN User ELSE Module)
  IN  IF p <= 5 THEN among \X {"all"}
      ELSE {i \in among \X Variant : i[2] \in variants[i[1]]}

Visiting(p, m, v) ==
  /\ pass = p
  /\ <<m, v>> \in ToVisit(p) \ visited
  /\ visited' = visited \cup {<<m, v>>}

Init ==
  /\ declared \in Declarations
  /\ pass = 1 /\ visited = {} /\ disabled = {}
  /\ defaultsMap = [m \in Module |-> <<>>]
  /\ deps = [m \in Module |-> <<>>]
  /\ supported = [m \in Module |-> declared.supported[m]["plain"]]
  /\ variants = [m \in Module |-> {"all"}]
  /\ props = [m \in Module |-> [v \in Variant |-> [p \in Place |-> Given(m, p, "plain")]]]

(* The write is under defaultsMapLock.                                     *)
DefaultDepsStage1(m) ==
  /\ Visiting(1, m, "all")
  /\ defaultsMap' = [defaultsMap EXCEPT ![m] = declared.defaults[m]]
  /\ UNCHANGED <<declared, pass, deps, supported, variants, disabled, props>>

(* The reads are not.                                                      *)
DefaultDepsStage2(m) ==
  /\ Visiting(2, m, "all")
  /\ LET list == ExpandDefault(defaultsMap, m)
     IN  IF list = Cyclic THEN pass' = 0 /\ UNCHANGED deps
         ELSE /\ deps' = [deps EXCEPT ![m] = LastOccurrences(list)]
              /\ UNCHANGED pass
  /\ UNCHANGED <<declared, defaultsMap, supported, variants, disabled, props>>

(* Features.AppendProps: enabled features in the order of the list.        *)
AppendProps(m, v, p) ==
  AppendAll(props[m][v][p], [i \in DOMAIN EnabledFeatures |-> Given(m, p, EnabledFeatures[i])])

AppendSupported(m, v) ==
  AppendBools(supported[m][v],
              [i \in DOMAIN EnabledFeatures |-> declared.supported[m][EnabledFeatures[i]][v]])

FeatureApplier(m) ==
  /\ Visiting(3, m, "all") /\ ParentsVisited(m, "all")
  /\ props' = [props EXCEPT ![m] = [v \in Variant |-> [p \in Place |-> AppendProps(m, v, p)]]]
  /\ supported' = [supported EXCEPT ![m] = [v \in Variant |-> AppendSupported(m, v)]]
  /\ UNCHANGED <<declared, pass, defaultsMap, deps, variants, disabled>>

(* What the defaults say together, of two the later.                       *)
AccumulatedSupported(m, v) ==
  AppendBools(Unset, [i \in DOMAIN deps[m] |-> supported[deps[m][i]][v]])

SupportedVariants(m) ==
  /\ Visiting(4, m, "all")
  /\ supported' = [supported EXCEPT ![m] =
       [v \in Variant |-> AppendBool(AccumulatedSupported(m, v), @[v])]]
  /\ UNCHANGED <<declared, pass, defaultsMap, deps, variants, disabled, props>>

(* isHostSupported is false when nothing is set, isTargetSupported true.   *)
IsSupported(m, v) ==
  supported[m][v] = "true" \/ (v = "target" /\ supported[m][v] = Unset)

(* bob_defaults have both variants always, and a copy of a module depends  *)
(* on the copies of its defaults for the same variant.  A module without   *)
(* any is disabled, and what later passes do with it does not matter.      *)
Splitter(m) ==
  /\ Visiting(5, m, "all") /\ DepsVisited(m, "all")
  /\ variants' = [variants EXCEPT ![m] =
       IF m \in Default THEN Variant ELSE {v \in Variant : IsSupported(m, v)}]
  /\ disabled' = IF variants'[m] = {} THEN disabled \cup {m} ELSE disabled
  /\ UNCHANGED <<declared, pass, defaultsMap, deps, supported, props>>

TargetApplier(m, v) ==
  /\ Visiting(6, m, v) /\ ParentsVisited(m, v)
  /\ props' = [props EXCEPT ![m][v]["core"] = AppendProperties(@, props[m][v][v])]
  /\ UNCHANGED <<declared, pass, defaultsMap, deps, supported, variants, disabled>>

PathMutator(m, v) ==
  /\ Visiting(7, m, v) /\ DepsVisited(m, v)
  /\ LET prefixed(dir) == [dir EXCEPT !.prefix = <<m>> \o dir.prefix]
     IN  props' = [props EXCEPT ![m][v]["core"].dirs = [i \in DOMAIN @ |-> prefixed(@[i])]]
  /\ UNCHANGED <<declared, pass, defaultsMap, deps, supported, variants, disabled>>

AccumulatedProps(m, v) ==
  AppendAll(Nothing, [i \in DOMAIN deps[m] |-> props[deps[m][i]][v]["core"]])

DefaultApplier(m, v) ==
  /\ Visiting(8, m, v)
  /\ props' = [props EXCEPT ![m][v]["core"] = PrependProperties(@, AccumulatedProps(m, v))]
  /\ UNCHANGED <<declared, pass, defaultsMap, deps, supported, variants, disabled>>

(* Mutant: a pass begins while the previous one is running.                *)
NextPassEarly ==
  /\ pass \in 1..8
  /\ pass' = pass + 1
  /\ visited' = {}
  /\ UNCHANGED <<declared, defaultsMap, deps, supported, variants, disabled, props>>

NextPass ==
  /\ pass \in 1..8 /\ visited = ToVisit(pass)
  /\ pass' = pass + 1
  /\ visited' = {}
  /\ UNCHANGED <<declared, defaultsMap, deps, supported, variants, disabled, props>>

Ended == pass \in {0, 9} /\ UNCHANGED vars

Next ==
  \/ \E m \in Module :
       \/ DefaultDepsStage1(m) \/ DefaultDepsStage2(m) \/ FeatureApplier(m)
       \/ SupportedVariants(m) \/ Splitter(m)
       \/ \E v \in Variant : TargetApplier(m, v) \/ PathMutator(m, v) \/ DefaultApplier(m, v)
  \/ NextPass \/ Ended

Spec == Init /\ [][Next]_vars
-----------------------------------------------------------------------------
(* All that m names, directly or through other defaults.                   *)
Below(m) ==
  LET grow[S \in SUBSET Module] ==
        LET T == S \cup UNION {Range(declared.defaults[d]) : d \in S}
        IN  IF T = S THEN S ELSE grow[T]
  IN  grow[Range(declared.defaults[m])]

Expanded(m) == m \in User \cap declared.modules /\ (pass > 2 \/ (pass = 2 /\ <<m, "all">> \in visited))

Precedes(x, y, list) == \E i, j \in DOMAIN list : i < j /\ list[i] = x /\ list[j] = y

(* The second pass reads a map the first fills, with no lock: each module  *)
(* must still get the list the build definitions determine, whatever the   *)
(* order of the visits.                                                    *)
DepsAreDeclared ==
  \A m \in Module : Expanded(m) =>
    deps[m] = LastOccurrences(ExpandDefault(declared.defaults, m))

(* Every default a module reaches is applied, once.                        *)
EachOnce ==
  \A m \in Module : Expanded(m) =>
    Range(deps[m]) = Below(m) /\ Len(deps[m]) = Cardinality(Below(m))

(* "Defaults that are later in the list override those earlier": of two    *)
(* defaults a module names the later is applied later, unless it or one    *)
(* that comes after it names the earlier as well.                          *)
LaterOverrides ==
  \A m \in Module : Expanded(m) =>
    LET names == declared.defaults[m]
    IN  \A i, j \in DOMAIN names :
          /\ i < j
          /\ \A k \in DOMAIN names : k > i => names[i] \notin Below(names[k]) \cup {names[k]}
          => Precedes(names[i], names[j], deps[m])

(* A default that only one other names is applied before that one, which   *)
(* overrides it.                                                           *)
NamedBeforeNaming ==
  \A m \in Module : Expanded(m) =>
    \A y \in Below(m), x \in Below(m) :
      /\ x \in Range(declared.defaults[y])
      /\ \A z \in (Below(m) \cup {m}) \ {y} : x \notin Range(declared.defaults[z])
      => Precedes(x, y, deps[m])

(* The flattened list has what the nested lists say, in an order in which  *)
(* applying one after the other gives the later precedence.                *)
FlattenedInOrder == EachOnce /\ LaterOverrides /\ NamedBeforeNaming

(* "Defaults module %s depends upon itself": the run ends if and only if   *)
(* some module reaches defaults that do.                                   *)
CycleDies ==
  LET cyclic == \E m \in User : \E d \in Below(m) : d \in Below(d)
  IN  /\ pass = 0 => cyclic
      /\ pass > 2 => ~cyclic

-----------------------------------------------------------------------------
(* What the comment on the order of the mutators in core/standalone.go     *)
(* asks for, without passes: the places that count for a copy of a module, *)
(* each overriding those before it.                                        *)
Parts == <<"plain">> \o EnabledFeatures

Places(d, p) == [i \in DOMAIN Parts |-> <<d, p, Parts[i]>>]

Set == {place \in Module \X Place \X Part : <<place[2], place[3]>> \in declared.sets[place[1]]}

Joint(lists) ==
  LET joint[i \in 0..Len(lists)] == IF i = 0 THEN <<>> ELSE joint[i - 1] \o lists[i]
  IN  joint[Len(lists)]

Levels(m, v) ==
  LET all == Append(deps[m], m)
  IN  Only(Joint([i \in DOMAIN all |-> Places(all[i], "core") \o Places(all[i], v)]), Set)

Final(m, v) == pass = 9 /\ m \in User \cap declared.modules /\ v \in variants[m]

(* Whatever the order of the visits, each value of a module overrides those*)
(* of its defaults, host and target those for both, and features those     *)
(* without: in flags, where the last counts, and in single values.         *)
SpecificOverrides ==
  \A m \in Module, v \in Variant : Final(m, v) =>
    LET levels == Levels(m, v)
        core == props[m][v]["core"]
    IN  /\ core.flags = levels
        /\ core.enable = IF levels = <<>> THEN <<>> ELSE <<Last(levels)>>

(* In include paths the first counts; and a local path is relative to the  *)
(* module or the defaults that set it, whoever uses it, and is so once.    *)
DirsOfTheirOwners ==
  \A m \in Module, v \in Variant : Final(m, v) =>
    props[m][v]["core"].dirs =
      Reverse([i \in DOMAIN Levels(m, v) |->
                 [value |-> Levels(m, v)[i], prefix |-> <<Levels(m, v)[i][1]>>]])

(* The nearest of the module and its defaults that says whether a variant  *)
(* is supported decides, in a feature before without one; host is not and  *)
(* target is supported where none does.                                    *)
Said(d, v) ==
  LET parts == Only(Parts, {f \in Part : declared.supported[d][f][v] # Unset})
  IN  IF parts = <<>> THEN Unset ELSE declared.supported[d][Last(parts)][v]

VariantsAsDeclared ==
  \A m \in User \cap declared.modules : pass > 5 =>
    variants[m] =
      {v \in Variant :
         LET all == Append(deps[m], m)
             said == Only([i \in DOMAIN all |-> Said(all[i], v)], Tri \ {Unset})
         IN  IF said = <<>> THEN v = "target" ELSE Last(said) = "true"}

(* Three passes fold features, targets and defaults into each variant, in  *)
(* either direction: every value, path and variant is that of the nearest. *)
NearestDecides == SpecificOverrides /\ DirsOfTheirOwners /\ VariantsAsDeclared
=============================================================================

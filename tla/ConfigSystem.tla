---------------------------- MODULE ConfigSystem ----------------------------
(***************************************************************************)
(* The option database behind config and menuconfig                        *)
(* (config_system/config_system/general.py, expr.py).  Setting one option  *)
(* makes the code recompute, call by call, what depends on it: choice      *)
(* siblings, selected options, dependents, defaults and conditional        *)
(* selects.  One call from outside (the command line, a profile, a plugin, *)
(* the menus, reading a .config) is one action; the calls it makes are the *)
(* recursive operators below, named as in the source, each of which takes  *)
(* the state of the options and returns the new one.                       *)
(*                                                                         *)
(* Values are strings, "y" and "n" for a bool.  Expressions are the tuples *)
(* the parser makes.  Left out: int arithmetic, mixed-type expressions,    *)
(* unknown option names (ignored by the code), titles and warnings.        *)
(***************************************************************************)
EXTENDS Naturals, SequencesExt

CONSTANTS
  Databases,        \* the Mconfigs considered
  EditsOf(_),       \* the Mconfigs one may be edited into between sessions
  Strings,          \* values a user may give to a string option
  NoGroup           \* choice_group of an option outside any choice

(* An Mconfig: its options in order, which have a prompt, which are        *)
(* strings (the others are bools), and the statements under each.          *)
ASSUME DatabaseAssumption ==
  \A d \in Databases :
    /\ d.prompt \cup d.strings \subseteq ToSet(d.order)
    /\ \A k \in d.strings : d.group[k] = NoGroup
    /\ EditsOf(d) \subseteq Databases

VARIABLES
  db,               \* the Mconfig
  opts,             \* the state of the options, see NewOptions
  file,             \* lines of the .config on disk
  saved,            \* history: the values it was written from; none once the Mconfig is edited
  phase             \* "running", "loaded" (nothing set since), "plugins", "exited", "raised"

vars == <<db, opts, file, saved, phase>>

Yes == <<"boolean", "y">>
No == <<"boolean", "n">>
Id(k) == <<"identifier", k>>
None == "none"      \* no requested_value, no selected entry, no default

-----------------------------------------------------------------------------
(* expr.py                                                                 *)
RECURSIVE Value(_, _), Identifiers(_)

Bool(b) == IF b THEN "y" ELSE "n"

(* condexpr_value and expr_value.                                          *)
Value(st, e) ==
  CASE e[1] \in {"boolean", "string"} -> e[2]
    [] e[1] = "identifier" -> st.value[e[2]]
    [] e[1] = "not" -> Bool(Value(st, e[2]) = "n")
    [] e[1] = "and" -> Bool(Value(st, e[2]) = "y" /\ Value(st, e[3]) = "y")
    [] e[1] = "or" -> Bool(Value(st, e[2]) = "y" \/ Value(st, e[3]) = "y")
    [] e[1] = "=" -> Bool(Value(st, e[2]) = Value(st, e[3]))
    [] e[1] = "!=" -> Bool(Value(st, e[2]) # Value(st, e[3]))

Holds(st, e) == Value(st, e) = "y"

(* dependency_list                                                         *)
Identifiers(e) ==
  CASE e[1] \in {"boolean", "string"} -> {}
    [] e[1] = "identifier" -> {e[2]}
    [] e[1] = "not" -> Identifiers(e[2])
    [] OTHER -> Identifiers(e[2]) \cup Identifiers(e[3])

-----------------------------------------------------------------------------
Order == db.order
Option == ToSet(Order)

IsBool(k) == k \notin db.strings
Unset(k) == IF IsBool(k) THEN "n" ELSE ""

InChoice(k) == db.group[k] # NoGroup
Members(g) == SelectSeq(Order, LAMBDA k : db.group[k] = g)
Groups == {db.group[k] : k \in Option} \ {NoGroup}

CanEnable(st, k) == Holds(st, db.depends[k])

(* The reverse lists set_initial_values builds: who looks at k.            *)
RDepends(k) == SelectSeq(Order, LAMBDA j : j # k /\ k \in Identifiers(db.depends[j]))

DefaultIdentifiers(j) ==
  (UNION {Identifiers(d[1]) \cup Identifiers(d[2]) : d \in ToSet(db.defaultIf[j])})
    \cup IF db.default[j] = <<None>> THEN {} ELSE Identifiers(db.default[j])

RDefault(k) == SelectSeq(Order, LAMBDA j : j # k /\ k \in DefaultIdentifiers(j))

RSelectIf(k) ==
  SelectSeq(Order, LAMBDA j : \E s \in ToSet(db.selectIf[j]) : k \in Identifiers(s[2]))

(* All options before anything is computed; requested_value is kept for an *)
(* option, or for the group when the option is in one.                     *)
NewOptions ==
  [ value      |-> [k \in Option |-> Unset(k)],
    selectedBy |-> [k \in Option |-> {}],
    userSet    |-> {},
    requested  |-> [k \in Option |-> None],
    selected   |-> [g \in Groups |-> None],
    wanted     |-> [g \in Groups |-> None] ]

RECURSIVE SetConfigInternal(_, _, _, _)

(* choice_rank                                                             *)
HasDefaultIf(st, k) ==
  \E d \in ToSet(db.defaultIf[k]) : Holds(st, d[1]) /\ Value(st, d[2]) = "y"

ChoiceRank(st, k) ==
  IF ~CanEnable(st, k) THEN 6
  ELSE IF k \in st.userSet
       THEN IF k = st.wanted[db.group[k]] THEN 2
            ELSE IF st.selectedBy[k] # {} THEN 1 ELSE 5
       ELSE IF HasDefaultIf(st, k) THEN 3
            ELSE IF db.default[k] # <<None>> /\ Value(st, db.default[k]) = "y" THEN 4
            ELSE IF st.selectedBy[k] # {} THEN 1 ELSE 5

TakeBest(st, g, best) ==
  IF best = st.selected[g] THEN st ELSE SetConfigInternal(st, best, "y", FALSE)

(* The first entry with the lowest rank.                                   *)
UpdateChoiceDefault(st, g) ==
  TakeBest(st, g, FoldLeft(LAMBDA best, j : IF ChoiceRank(st, j) < ChoiceRank(st, best) THEN j ELSE best,
                           Members(g)[1], Members(g)))

UpdateDefaults(st, k) ==
  LET met == SelectSeq(db.defaultIf[k], LAMBDA d : Holds(st, d[1]))
      default == IF met # <<>> THEN Value(st, met[1][2])
                 ELSE IF db.default[k] # <<None>> THEN Value(st, db.default[k])
                 ELSE Unset(k)
  IN  IF k \in st.userSet THEN st
      ELSE IF InChoice(k) THEN UpdateChoiceDefault(st, db.group[k])
      ELSE SetConfigInternal(st, k, default, FALSE)

(* force_config: source starts or stops selecting k.                       *)
ForceConfig(st, k, v, source) ==
  LET forced == [st EXCEPT !.selectedBy[k] =
                   IF v = "y" THEN @ \cup {source} ELSE @ \ {source}]
  IN  IF forced = st THEN st
      ELSE IF forced.selectedBy[k] # {} THEN SetConfigInternal(forced, k, "y", FALSE)
      ELSE IF st.requested[k] # None THEN SetConfigInternal(forced, k, st.requested[k], TRUE)
      ELSE UpdateDefaults(forced, k)

(* Mutant: a condition that no longer holds releases nothing.              *)
SelectIfsNeverRelease(st, k) ==
  FoldLeft(LAMBDA s, c : IF Holds(s, c[2]) THEN ForceConfig(s, c[1], s.value[k], k) ELSE s,
           st, db.selectIf[k])

(* set_config_selectifs                                                    *)
SelectIfs(st, k) ==
  LET v == st.value[k]
  IN  FoldLeft(LAMBDA s, c : ForceConfig(s, c[1], IF Holds(s, c[2]) THEN v ELSE "n", k),
               st, db.selectIf[k])

(* The parts of __set_config.  What the user asks for is recorded even if  *)
(* it cannot be had now.                                                   *)
RecordRequest(st, k, v, user) ==
  IF ~user THEN st
  ELSE LET s == [st EXCEPT !.userSet = @ \cup {k}]
       IN  IF ~InChoice(k) THEN [s EXCEPT !.requested[k] = v]
           ELSE IF v = "y" THEN [s EXCEPT !.wanted[db.group[k]] = k]
           ELSE s

Refused(st, k, v) ==
  /\ IsBool(k)
  /\ \/ v = "n" /\ st.selectedBy[k] # {}
     \/ v = "y" /\ ~CanEnable(st, k) /\ st.selectedBy[k] = {}

Siblings(k) == SelectSeq(Members(db.group[k]), LAMBDA j : j # k)

(* Entry k of a choice is switched on: the others go off, or, when one of  *)
(* them stays on, k goes off again and nothing more is done.               *)
TakeChoice(st, k, user) ==
  LET switchOff(acc, j) ==
        IF acc.failed THEN acc
        ELSE LET s == SetConfigInternal(acc.st, j, "n", user)
             IN  IF s.value[j] = "y"
                 THEN [st |-> [s EXCEPT !.value[k] = "n"], failed |-> TRUE]
                 ELSE [st |-> s, failed |-> FALSE]
  IN  FoldLeft(switchOff,
               [st |-> [st EXCEPT !.selected[db.group[k]] = k], failed |-> FALSE],
               Siblings(k))

(* Mutant: the choice is left empty.                                       *)
LeaveChoiceEmpty(st, k) == [st EXCEPT !.selected[db.group[k]] = None]

(* Entry k of a choice is switched off: the last one on comes back on, or  *)
(* the best other one is taken.                                            *)
LeaveChoice(st, k) ==
  LET g == db.group[k]
  IN  IF \E j \in ToSet(Siblings(k)) : st.value[j] = "y" THEN st
      ELSE IF CanEnable(st, k) THEN [st EXCEPT !.selected[g] = k, !.value[k] = "y"]
      ELSE UpdateChoiceDefault([st EXCEPT !.selected[g] = None], g)

(* Mutant: only options nobody set are looked at again.                    *)
UpdateUnsetDependent(st, j) ==
  IF st.value[j] = "y" /\ IsBool(j) /\ ~CanEnable(st, j) THEN SetConfigInternal(st, j, "n", FALSE)
  ELSE IF j \notin st.userSet THEN UpdateDefaults(st, j) ELSE st

(* An option that depends on the one just set.                             *)
UpdateDependent(st, j) ==
  IF st.value[j] = "y" /\ IsBool(j) /\ ~CanEnable(st, j) THEN SetConfigInternal(st, j, "n", FALSE)
  ELSE IF j \notin st.userSet THEN UpdateDefaults(st, j)
  ELSE IF InChoice(j) THEN UpdateChoiceDefault(st, db.group[j])
  ELSE IF st.requested[j] \notin {None, st.value[j]}
       THEN SetConfigInternal(st, j, st.requested[j], TRUE)
  ELSE st

(* The tail of __set_config, for the value it was called with.             *)
Propagate(st, k, v) ==
  LET selects == FoldLeft(LAMBDA s, j : ForceConfig(s, j, v, k), st, db.select[k])
      selectIfs == SelectIfs(selects, k)
      depends == FoldLeft(UpdateDependent, selectIfs, RDepends(k))
      defaults == FoldLeft(UpdateDefaults, depends, RDefault(k))
  IN  FoldLeft(SelectIfs, defaults, RSelectIf(k))

(* __set_config                                                            *)
Finish(result, k, v) == IF result.failed THEN result.st ELSE Propagate(result.st, k, v)

SetConfigInternal(st, k, v, user) ==
  LET asked == RecordRequest(st, k, v, user)
      set == [asked EXCEPT !.value[k] = v]
  IN  IF Refused(asked, k, v) THEN asked
      ELSE Finish(IF InChoice(k) /\ v = "y" THEN TakeChoice(set, k, user)
                  ELSE [st |-> IF InChoice(k) THEN LeaveChoice(set, k) ELSE set, failed |-> FALSE],
                  k, v)

SetInitialValues == FoldLeft(UpdateDefaults, NewOptions, Order)

-----------------------------------------------------------------------------
(* enforce_dependent_values.  It raises on a bool that is on although its  *)
(* dependencies are not met and nothing selects it.                        *)
Unmet(st, k) == ~CanEnable(st, k) /\ IsBool(k) /\ st.value[k] = "y"

EnforceDependentValues(st, fixBools) ==
  LET visit(acc, k) ==
        IF acc.raised \/ CanEnable(acc.st, k) THEN acc
        ELSE IF Unmet(acc.st, k) /\ acc.st.selectedBy[k] = {} THEN [acc EXCEPT !.raised = TRUE]
        ELSE IF Unmet(acc.st, k)
             THEN IF fixBools THEN [acc EXCEPT !.st = SetConfigInternal(@, k, "n", FALSE)] ELSE acc
        ELSE IF IsBool(k) THEN acc
        ELSE [acc EXCEPT !.st = SetConfigInternal(@, k, "", FALSE)]
  IN  FoldLeft(visit, [st |-> st, raised |-> FALSE], Order)

(* Mutant: nothing is written for a bool that is off.                      *)
LinesThatAreOn(st) ==
  LET shown == SelectSeq(Order, LAMBDA k : CanEnable(st, k) /\ st.value[k] # "n")
  IN  [i \in DOMAIN shown |->
         [key |-> shown[i], value |-> st.value[shown[i]], user |-> shown[i] \in st.userSet]]

(* What write_config puts in the file: nothing for an option that cannot   *)
(* be enabled; "is not set" for a bool that is off.                        *)
Lines(st) ==
  LET shown == SelectSeq(Order, LAMBDA k : CanEnable(st, k))
  IN  [i \in DOMAIN shown |->
         [key |-> shown[i], value |-> st.value[shown[i]], user |-> shown[i] \in st.userSet]]

(* read_config_file: set_config for every line; no prompt, no effect.      *)
ReadLines(st, lines) ==
  FoldLeft(LAMBDA s, l : IF l.key \in db.prompt
                         THEN SetConfigInternal(s, l.key, l.value, l.user) ELSE s,
           st, lines)

-----------------------------------------------------------------------------
Init ==
  /\ db \in Databases
  /\ opts = SetInitialValues
  /\ file = <<>>
  /\ saved = <<None>>
  /\ phase = "running"

(* set_config, from the command line, a profile, a plugin or a menu.       *)
SetConfig(k, v) ==
  /\ phase \in {"running", "loaded", "plugins"}
  /\ k \in db.prompt
  /\ v \in IF IsBool(k) THEN {"y", "n"} ELSE Strings
  /\ opts' = SetConfigInternal(opts, k, v, TRUE)
  /\ phase' = IF phase = "plugins" THEN phase ELSE "running"
  /\ UNCHANGED <<db, file, saved>>

(* MenuItem.reset                                                          *)
Reset(k) ==
  /\ phase \in {"running", "loaded"}
  /\ k \in db.prompt /\ k \in opts.userSet
  /\ LET forgotten ==
           IF InChoice(k)
           THEN [opts EXCEPT !.userSet = @ \ ToSet(Members(db.group[k])),
                             !.wanted[db.group[k]] = None]
           ELSE [opts EXCEPT !.userSet = @ \ {k}, !.requested[k] = None]
     IN  opts' = UpdateDefaults(forgotten, k)
  /\ phase' = "running"
  /\ UNCHANGED <<db, file, saved>>

(* The end of update_config.main and of menuconfig: values are made        *)
(* consistent before the plugins, which may set options, and again before  *)
(* they are written.                                                       *)
RunPlugins ==
  /\ phase \in {"running", "loaded"}
  /\ \E made \in {EnforceDependentValues(opts, FALSE)} :
       /\ opts' = made.st
       /\ phase' = IF made.raised THEN "raised" ELSE "plugins"
  /\ UNCHANGED <<db, file, saved>>

Save ==
  /\ phase = "plugins"
  /\ \E made \in {EnforceDependentValues(opts, FALSE)} :
       IF made.raised
       THEN /\ phase' = "raised"
            /\ UNCHANGED <<opts, file, saved>>
       ELSE /\ phase' = "exited"
            /\ file' = Lines(made.st)
            /\ saved' = made.st.value
            /\ opts' = NewOptions
  /\ UNCHANGED db

(* The project's Mconfig changes between two sessions.                     *)
EditMconfig ==
  /\ phase = "exited"
  /\ db' \in EditsOf(db)
  /\ saved' = <<None>>
  /\ UNCHANGED <<opts, file, phase>>

(* The command ends without writing: the menus are left, or main raised or *)
(* was killed.                                                             *)
Quit ==
  /\ phase # "exited"
  /\ phase' = "exited"
  /\ opts' = NewOptions
  /\ UNCHANGED <<db, file, saved>>

(* A command that starts afresh: init_config.                              *)
StartNew ==
  /\ phase = "exited"
  /\ opts' = SetInitialValues
  /\ phase' = "running"
  /\ UNCHANGED <<db, file, saved>>

(* A command that goes on from the .config: read_config.                   *)
Load ==
  /\ phase = "exited"
  /\ \E read \in {EnforceDependentValues(ReadLines(SetInitialValues, file), TRUE)} :
         /\ opts' = read.st
         /\ phase' = IF read.raised THEN "raised" ELSE "loaded"
  /\ UNCHANGED <<db, file, saved>>

Next ==
  \/ \E k \in Option : Reset(k) \/ \E v \in {"y", "n"} \cup Strings : SetConfig(k, v)
  \/ RunPlugins \/ Save \/ Quit \/ EditMconfig \/ StartNew \/ Load

Spec == Init /\ [][Next]_vars

-----------------------------------------------------------------------------
Live == phase \in {"running", "loaded", "plugins"}

Selects(k) ==
  ToSet(db.select[k]) \cup {s[1] : s \in {t \in ToSet(db.selectIf[k]) : Holds(opts, t[2])}}

(* Whatever is set in whatever order, an option that is on keeps on what   *)
(* it selects, with or without a condition: "when a given option is        *)
(* enabled, it will also enable other option(s)".                          *)
SelectsHold ==
  Live => \A k \in Option : opts.value[k] = "y" =>
            \A j \in Selects(k) : k \in opts.selectedBy[j] /\ opts.value[j] = "y"

(* force_config's count of selectors never keeps one that is off or whose  *)
(* condition is false: no option stays forced for a reason that has gone.  *)
OnlyTheSelected ==
  Live => \A j \in Option : \A k \in opts.selectedBy[j] :
            opts.value[k] = "y" /\ j \in Selects(k)

(* The call-by-call propagation through selects and conditional selects    *)
(* leaves exactly the pairs of options that the present values call for.   *)
SelectsExact == SelectsHold /\ OnlyTheSelected

(* "Record user specified value even if it is (currently) impossible": an  *)
(* option has the value last asked for whenever nothing forces it and its  *)
(* dependencies allow it, also when they come back long after the request  *)
(* and after enforce_dependent_values has cleared a string.                *)
Wishes(k) ==
  IF CanEnable(opts, k) THEN {opts.requested[k]}
  ELSE IF IsBool(k) THEN {"n"} ELSE {"", opts.requested[k]}

UserWishHonoured ==
  Live => \A k \in opts.userSet :
    ~InChoice(k) /\ opts.selectedBy[k] = {} => opts.value[k] \in Wishes(k)

DefaultOf(k) ==
  LET met == SelectSeq(db.defaultIf[k], LAMBDA d : Holds(opts, d[1]))
  IN  IF IsBool(k) /\ ~CanEnable(opts, k) THEN "n"
      ELSE IF met # <<>> THEN Value(opts, met[1][2])
      ELSE IF db.default[k] # <<None>> THEN Value(opts, db.default[k])
      ELSE Unset(k)

(* The call-by-call propagation reaches a fixed point: every option nobody *)
(* set has the default its Mconfig gives it for the present values, unless *)
(* a .config written for another Mconfig gave it a value.                  *)
DefaultsFollow ==
  Live /\ EditsOf(db) = {} => \A k \in Option \ opts.userSet :
    ~InChoice(k) /\ opts.selectedBy[k] = {} => opts.value[k] = DefaultOf(k)

(* Hidden options "are always given their default value", even after a     *)
(* .config written for another Mconfig was read.                           *)
HiddenAreDefault ==
  Live => \A k \in Option \ db.prompt :
    ~InChoice(k) /\ opts.selectedBy[k] = {} => opts.value[k] = DefaultOf(k)

(* Each value is what its user or its Mconfig asks for, at any time.       *)
ValuesJustified == UserWishHonoured /\ DefaultsFollow /\ HiddenAreDefault

(* Exactly one entry of a choice is on, if any can be; never two.          *)
ChoiceHasOne ==
  Live => \A g \in Groups :
    LET on == {k \in ToSet(Members(g)) : opts.value[k] = "y"}
    IN  /\ Cardinality(on) <= 1
        /\ (\E k \in ToSet(Members(g)) : CanEnable(opts, k)) => on # {}

(* The entry the user last asked for is the one that is on whenever it can *)
(* be and no other entry is forced.                                        *)
ChoiceWish ==
  Live => \A g \in Groups :
    LET k == opts.wanted[g]
    IN  /\ k # None
        /\ CanEnable(opts, k)
        /\ \A j \in ToSet(Siblings(k)) : opts.selectedBy[j] = {}
        => opts.value[k] = "y"

(* Nested switching of siblings leaves a choice with one entry on, the     *)
(* wished one where that can be.                                           *)
ChoicesHold == ChoiceHasOne /\ ChoiceWish

(* Writing the .config and reading it back changes no value, whatever the  *)
(* order in which the lines trigger each other.                            *)
RoundTrip == phase = "loaded" /\ saved # <<None>> => opts.value = saved

(* "Normally they will be kept in a consistent state (wrt dependencies) by *)
(* set_config()": enforce_dependent_values never meets a bool that is on   *)
(* with unmet dependencies and no selector, on which it raises.            *)
NeverRaised == phase # "raised"

=============================================================================

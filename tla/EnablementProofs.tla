-------------------------- MODULE EnablementProofs --------------------------
(***************************************************************************)
(* Proofs about Enablement, for every set of modules, every dependency     *)
(* graph and every configuration.                                          *)
(***************************************************************************)
EXTENDS Enablement, TLAPS

(* The modules whose dependencies some walk has been given to visit.       *)
Opened == required \cup passed

InHand(d) == \E w \in Module : d \in frontier[w] \/ d \in claimed[w]

(* Whatever a walk holds is in every closed set.                           *)
HeldIsNeeded ==
  \A S \in SUBSET Module : Promise!Closed(configured, S) =>
    /\ Opened \subseteq S
    /\ \A w \in Module : /\ claimed[w] \subseteq S
                         /\ frontier[w] \subseteq S \cup (Enableable \ configured)

(* A dependency of an opened module is settled or in some walker's hand.   *)
NothingForgotten ==
  \A m \in Opened : \A d \in deps[m] :
    d \in Opened \/ d \in Enableable \ configured \/ InHand(d)

(* Only a walking module holds anything, and a root that has been visited  *)
(* is opened.                                                              *)
WalkersInOrder ==
  /\ \A w \in Module : (phase # "find" \/ pc[w] # "walking") =>
                         frontier[w] = {} /\ claimed[w] = {}
  /\ \A m \in Promise!Roots(configured) :
       (phase # "find" \/ pc[m] # "waiting") => m \in Opened
  /\ \A w \in Module : /\ claimed[w] \subseteq configured
                       /\ \A c, d \in claimed[w] : c = d
  /\ phase = "find" => enabled = configured
  /\ required \subseteq enabled

(* A module that has been checked is settled, with its dependencies.       *)
CheckersInOrder ==
  /\ phase \in {"check", "done"} => \A m \in Module :
       /\ pc[m] # "waiting" => \A d \in deps[m] : pc[d] = "done"
       /\ pc[m] = "done" /\ m \in enabled => deps[m] \cap Enableable \subseteq enabled
       /\ pc[m] = "collected" =>
            /\ m \in enabled
            /\ disabledDeps[m] = (deps[m] \cap Enableable) \ enabled
  /\ phase = "done" => \A m \in Module : pc[m] = "done"

(* Nothing that could have been built has been disabled.                   *)
KeepsBuildable ==
  \A S \in SUBSET configured : Promise!Buildable(S) => S \subseteq enabled

IInv ==
  /\ TypeOK
  /\ HeldIsNeeded
  /\ NothingForgotten
  /\ WalkersInOrder
  /\ CheckersInOrder
  /\ KeepsBuildable

-----------------------------------------------------------------------------
LEMMA InitIInv == Init => IInv
<1> SUFFICES ASSUME Init PROVE IInv
  OBVIOUS
<1>1. TypeOK
  BY ModuleAssumption DEF Init, TypeOK, LinkedDeps
<1>2. HeldIsNeeded
  BY DEF Init, HeldIsNeeded, Opened
<1>3. NothingForgotten
  BY DEF Init, NothingForgotten, Opened
<1>4. WalkersInOrder
  BY ModuleAssumption DEF Init, WalkersInOrder, Opened, Promise!Roots
<1>5. CheckersInOrder
  BY DEF Init, CheckersInOrder
<1>6. KeepsBuildable
  BY DEF Init, KeepsBuildable
<1>7. QED
  BY <1>1, <1>2, <1>3, <1>4, <1>5, <1>6 DEF IInv

-----------------------------------------------------------------------------
(* The steps of find_required_modules leave alone what check_disabled_     *)
(* modules works on.                                                       *)
LEMMA FindFrame ==
  ASSUME IInv, phase = "find", phase' = "find",
         UNCHANGED <<config, enabled, disabledDeps>>
  PROVE  CheckersInOrder' /\ KeepsBuildable'
BY DEF IInv, CheckersInOrder, KeepsBuildable, Promise!Buildable, config

LEMMA StepVisitTopLevel ==
  ASSUME IInv, NEW m \in Module, VisitTopLevel(m)
  PROVE  IInv'
<1> USE DEF VisitTopLevel, Visit, StartWalk, config
<1>1. TypeOK'
  BY DEF IInv, TypeOK
<1>2. enabled = configured /\ m \in Promise!Roots(configured)
  BY DEF IInv, WalkersInOrder, TypeOK, IsTopLevel, Promise!Roots
<1>3. frontier[m] = {} /\ claimed[m] = {}
  BY DEF IInv, WalkersInOrder
<1>4. HeldIsNeeded'
  <2> SUFFICES ASSUME NEW S \in SUBSET Module, Promise!Closed(configured, S)
               PROVE  /\ Opened' \subseteq S
                      /\ \A w \in Module :
                           /\ claimed'[w] \subseteq S
                           /\ frontier'[w] \subseteq S \cup (Enableable \ configured)
    BY DEF HeldIsNeeded, Promise!Closed, Promise!Roots, IsBuiltByDefault
  <2>1. m \in S /\ deps[m] \subseteq S \cup (Enableable \ configured)
    BY <1>2 DEF Promise!Closed, IInv, TypeOK
  <2>2. QED
    BY <2>1 DEF IInv, HeldIsNeeded, Opened, TypeOK
<1>5. NothingForgotten'
  BY <1>3 DEF IInv, NothingForgotten, Opened, InHand, TypeOK
<1>6. WalkersInOrder'
  BY <1>2 DEF IInv, WalkersInOrder, Opened, TypeOK, Promise!Roots, IsBuiltByDefault
<1>7. QED
  BY <1>1, <1>4, <1>5, <1>6, FindFrame DEF IInv

LEMMA StepVisitOther ==
  ASSUME IInv, NEW m \in Module, VisitOther(m)
  PROVE  IInv'
<1> USE DEF VisitOther, Visit, StartWalk, config
<1>1. TypeOK'
  BY ModuleAssumption DEF IInv, TypeOK
<1>2. m \in Promise!Roots(configured)
  BY DEF Promise!Roots
<1>3. frontier[m] = {} /\ claimed[m] = {}
  BY DEF IInv, WalkersInOrder
<1>4. HeldIsNeeded'
  <2> SUFFICES ASSUME NEW S \in SUBSET Module, Promise!Closed(configured, S)
               PROVE  /\ Opened' \subseteq S
                      /\ \A w \in Module :
                           /\ claimed'[w] \subseteq S
                           /\ frontier'[w] \subseteq S \cup (Enableable \ configured)
    BY DEF HeldIsNeeded, Promise!Closed, Promise!Roots, IsBuiltByDefault
  <2>1. m \in S /\ deps[m] \subseteq S \cup (Enableable \ configured)
    BY <1>2 DEF Promise!Closed, IInv, TypeOK
  <2>2. QED
    BY <2>1 DEF IInv, HeldIsNeeded, Opened, TypeOK
<1>5. NothingForgotten'
  BY <1>3 DEF IInv, NothingForgotten, Opened, InHand, TypeOK
<1>6. WalkersInOrder'
  BY <1>2 DEF IInv, WalkersInOrder, Opened, TypeOK, Promise!Roots, IsBuiltByDefault
<1>7. QED
  BY <1>1, <1>4, <1>5, <1>6, FindFrame DEF IInv

LEMMA StepVisitSkipped ==
  ASSUME IInv, NEW m \in Module, VisitSkipped(m)
  PROVE  IInv'
<1> USE DEF VisitSkipped, Visit, Finished, config, walk
<1>1. TypeOK'
  BY DEF IInv, TypeOK
<1>2. m \notin Promise!Roots(configured)
  BY ModuleAssumption
  DEF IInv, WalkersInOrder, TypeOK, IsTopLevel, Promise!Roots
<1>3. HeldIsNeeded'
  BY DEF IInv, HeldIsNeeded, Opened, Promise!Closed, Promise!Roots, IsBuiltByDefault
<1>4. NothingForgotten'
  BY DEF IInv, NothingForgotten, Opened, InHand
<1>5. WalkersInOrder'
  BY <1>2 DEF IInv, WalkersInOrder, Opened, TypeOK, Promise!Roots, IsBuiltByDefault
<1>6. QED
  BY <1>1, <1>3, <1>4, <1>5, FindFrame DEF IInv

LEMMA StepStopAt ==
  ASSUME IInv, NEW m \in Module, NEW d \in Module, StopAt(m, d)
  PROVE  IInv'
<1> USE DEF StopAt, Walking, config
<1>1. TypeOK'
  BY DEF IInv, TypeOK
<1>2. d \in Opened \/ d \in Enableable \ configured
  BY DEF IInv, WalkersInOrder, Opened
<1>3. HeldIsNeeded'
  <2> SUFFICES ASSUME NEW S \in SUBSET Module, Promise!Closed(configured, S)
               PROVE  /\ Opened' \subseteq S
                      /\ \A w \in Module :
                           /\ claimed'[w] \subseteq S
                           /\ frontier'[w] \subseteq S \cup (Enableable \ configured)
    BY DEF HeldIsNeeded, Promise!Closed, Promise!Roots, IsBuiltByDefault
  <2> QED
    BY DEF IInv, HeldIsNeeded, Opened, TypeOK
<1>4. NothingForgotten'
  BY <1>2 DEF IInv, NothingForgotten, Opened, InHand, TypeOK
<1>5. WalkersInOrder'
  BY DEF IInv, WalkersInOrder, Opened, TypeOK, Promise!Roots, IsBuiltByDefault
<1>6. QED
  BY <1>1, <1>3, <1>4, <1>5, FindFrame DEF IInv

LEMMA StepClaim ==
  ASSUME IInv, NEW m \in Module, NEW d \in Module, Claim(m, d)
  PROVE  IInv'
<1> USE DEF Claim, Walking, config
<1>1. TypeOK'
  BY DEF IInv, TypeOK
<1>2. d \in configured
  BY DEF IInv, WalkersInOrder
<1>3. HeldIsNeeded'
  <2> SUFFICES ASSUME NEW S \in SUBSET Module, Promise!Closed(configured, S)
               PROVE  /\ Opened' \subseteq S
                      /\ \A w \in Module :
                           /\ claimed'[w] \subseteq S
                           /\ frontier'[w] \subseteq S \cup (Enableable \ configured)
    BY DEF HeldIsNeeded, Promise!Closed, Promise!Roots, IsBuiltByDefault
  <2> QED
    BY <1>2 DEF IInv, HeldIsNeeded, Opened, TypeOK
<1>4. NothingForgotten'
  BY DEF IInv, NothingForgotten, Opened, InHand, TypeOK
<1>5. WalkersInOrder'
  BY <1>2 DEF IInv, WalkersInOrder, Opened, TypeOK, Promise!Roots, IsBuiltByDefault
<1>6. QED
  BY <1>1, <1>3, <1>4, <1>5, FindFrame DEF IInv

LEMMA StepWalkThrough ==
  ASSUME IInv, NEW m \in Module, NEW d \in Module, WalkThrough(m, d)
  PROVE  IInv'
<1> USE DEF WalkThrough, Walking, config
<1>1. TypeOK'
  BY DEF IInv, TypeOK
<1>2. HeldIsNeeded'
  <2> SUFFICES ASSUME NEW S \in SUBSET Module, Promise!Closed(configured, S)
               PROVE  /\ Opened' \subseteq S
                      /\ \A w \in Module :
                           /\ claimed'[w] \subseteq S
                           /\ frontier'[w] \subseteq S \cup (Enableable \ configured)
    BY DEF HeldIsNeeded, Promise!Closed, Promise!Roots, IsBuiltByDefault
  <2>1. d \in S /\ deps[d] \subseteq S \cup (Enableable \ configured)
    BY DEF IInv, HeldIsNeeded, Promise!Closed, TypeOK
  <2>2. QED
    BY <2>1 DEF IInv, HeldIsNeeded, Opened, TypeOK
<1>3. NothingForgotten'
  BY DEF IInv, NothingForgotten, Opened, InHand, TypeOK
<1>4. WalkersInOrder'
  BY DEF IInv, WalkersInOrder, Opened, TypeOK, Promise!Roots, IsBuiltByDefault
<1>5. QED
  BY <1>1, <1>2, <1>3, <1>4, FindFrame DEF IInv

LEMMA StepMarkAsRequired ==
  ASSUME IInv, NEW m \in Module, NEW d \in Module, MarkAsRequired(m, d)
  PROVE  IInv'
<1> USE DEF MarkAsRequired, config
<1>1. TypeOK'
  BY DEF IInv, TypeOK
<1>2. d \in configured /\ enabled = configured
  BY DEF IInv, WalkersInOrder
<1>3. HeldIsNeeded'
  <2> SUFFICES ASSUME NEW S \in SUBSET Module, Promise!Closed(configured, S)
               PROVE  /\ Opened' \subseteq S
                      /\ \A w \in Module :
                           /\ claimed'[w] \subseteq S
                           /\ frontier'[w] \subseteq S \cup (Enableable \ configured)
    BY DEF HeldIsNeeded, Promise!Closed, Promise!Roots, IsBuiltByDefault
  <2>1. d \in S /\ deps[d] \subseteq S \cup (Enableable \ configured)
    BY DEF IInv, HeldIsNeeded, Promise!Closed, TypeOK
  <2>2. QED
    BY <2>1 DEF IInv, HeldIsNeeded, Opened, TypeOK
<1>4. NothingForgotten'
  <2> SUFFICES ASSUME NEW x \in Opened', NEW y \in deps[x]
               PROVE  y \in Opened' \/ y \in Enableable \ configured \/ InHand(y)'
    BY DEF NothingForgotten
  <2>1. CASE x = d
    BY <2>1 DEF InHand, IInv, TypeOK
  <2>2. CASE x # d
    <3>1. y \in Opened \/ y \in Enableable \ configured \/ InHand(y)
      BY <2>2 DEF IInv, NothingForgotten, Opened
    <3>2. CASE InHand(y)
      <4>1. PICK w \in Module : y \in frontier[w] \/ y \in claimed[w]
        BY <3>2 DEF InHand
      <4>2. frontier[w] \subseteq frontier'[w]
        BY DEF IInv, TypeOK
      <4>3. y \in claimed[w] => y \in claimed'[w] \/ y = d
        BY DEF IInv, TypeOK, WalkersInOrder
      <4>4. QED
        BY <4>1, <4>2, <4>3 DEF InHand, Opened
    <3>3. QED
      BY <3>1, <3>2 DEF Opened
  <2>3. QED
    BY <2>1, <2>2
<1>5. WalkersInOrder'
  BY <1>2 DEF IInv, WalkersInOrder, Opened, TypeOK, Promise!Roots, IsBuiltByDefault
<1>6. QED
  BY <1>1, <1>3, <1>4, <1>5, FindFrame DEF IInv

LEMMA StepEndWalk ==
  ASSUME IInv, NEW m \in Module, EndWalk(m)
  PROVE  IInv'
<1> USE DEF EndWalk, Finished, config, walk
<1>1. TypeOK'
  BY DEF IInv, TypeOK
<1>2. HeldIsNeeded'
  BY DEF IInv, HeldIsNeeded, Opened, Promise!Closed, Promise!Roots, IsBuiltByDefault
<1>3. NothingForgotten'
  BY DEF IInv, NothingForgotten, Opened, InHand
<1>4. WalkersInOrder'
  BY DEF IInv, WalkersInOrder, Opened, TypeOK, Promise!Roots, IsBuiltByDefault
<1>5. QED
  BY <1>1, <1>2, <1>3, <1>4, FindFrame DEF IInv

(* When the walks have ended nothing is in hand any more.                  *)
LEMMA StepNextPass ==
  ASSUME IInv, NextPass
  PROVE  IInv'
<1> USE DEF NextPass, config, walk
<1>1. TypeOK'
  BY DEF IInv, TypeOK
<1>2. HeldIsNeeded'
  BY DEF IInv, HeldIsNeeded, Opened, Promise!Closed, Promise!Roots, IsBuiltByDefault
<1>3. NothingForgotten'
  BY DEF IInv, NothingForgotten, Opened, InHand
<1>4. WalkersInOrder'
  BY ModuleAssumption
  DEF IInv, WalkersInOrder, Opened, TypeOK, Promise!Roots, IsBuiltByDefault
<1>5. CheckersInOrder'
  BY DEF IInv, CheckersInOrder, TypeOK
<1>6. KeepsBuildable'
  BY DEF IInv, KeepsBuildable, Promise!Buildable
<1>7. QED
  BY <1>1, <1>2, <1>3, <1>4, <1>5, <1>6 DEF IInv

(* The steps of check_disabled_modules leave alone what the walks found.   *)
LEMMA CheckFrame ==
  ASSUME IInv, phase # "find", phase' # "find", required \subseteq enabled',
         UNCHANGED <<config, required, walk>>
  PROVE  HeldIsNeeded' /\ NothingForgotten' /\ WalkersInOrder'
<1> USE DEF config, walk
<1>1. HeldIsNeeded'
  BY DEF IInv, HeldIsNeeded, Opened, Promise!Closed, Promise!Roots, IsBuiltByDefault
<1>2. NothingForgotten'
  BY DEF IInv, NothingForgotten, Opened, InHand
<1>3. WalkersInOrder'
  BY DEF IInv, WalkersInOrder, Opened, Promise!Roots, IsBuiltByDefault
<1>4. QED
  BY <1>1, <1>2, <1>3

LEMMA StepKeep ==
  ASSUME IInv, NEW m \in Module,
         CheckSkipped(m) \/ CollectDisabledDeps(m) \/ KeepEnabled(m)
  PROVE  IInv'
<1> USE DEF CheckSkipped, CollectDisabledDeps, KeepEnabled, Finished, config, walk
<1>1. TypeOK'
  BY DEF IInv, TypeOK
<1>2. HeldIsNeeded' /\ NothingForgotten' /\ WalkersInOrder'
  BY CheckFrame DEF IInv, WalkersInOrder
<1>3. CheckersInOrder'
  <2> SUFFICES ASSUME NEW x \in Module
               PROVE  /\ pc'[x] # "waiting" => \A d \in deps[x] : pc'[d] = "done"
                      /\ pc'[x] = "done" /\ x \in enabled
                           => deps[x] \cap Enableable \subseteq enabled
                      /\ pc'[x] = "collected" =>
                           /\ x \in enabled
                           /\ disabledDeps'[x] = (deps[x] \cap Enableable) \ enabled
    BY DEF CheckersInOrder
  <2>1. CASE x = m
    BY <2>1 DEF IInv, CheckersInOrder, TypeOK, DepsVisited
  <2>2. CASE x # m
    BY <2>2 DEF IInv, CheckersInOrder, TypeOK
  <2>3. QED
    BY <2>1, <2>2
<1>4. KeepsBuildable'
  BY DEF IInv, KeepsBuildable, Promise!Buildable
<1>5. QED
  BY <1>1, <1>2, <1>3, <1>4 DEF IInv

(* A module is disabled while no module that depends on it has been        *)
(* checked, and only if one of its own dependencies cannot be built.       *)
LEMMA StepDisable ==
  ASSUME IInv, NEW m \in Module, Disable(m)
  PROVE  IInv'
<1> USE DEF Disable, Finished, config, walk
<1>1. TypeOK'
  BY DEF IInv, TypeOK
<1>2. HeldIsNeeded' /\ NothingForgotten' /\ WalkersInOrder'
  BY CheckFrame DEF IInv, WalkersInOrder
<1>3. CheckersInOrder'
  <2> SUFFICES ASSUME NEW x \in Module
               PROVE  /\ pc'[x] # "waiting" => \A d \in deps[x] : pc'[d] = "done"
                      /\ pc'[x] = "done" /\ x \in enabled'
                           => deps[x] \cap Enableable \subseteq enabled'
                      /\ pc'[x] = "collected" =>
                           /\ x \in enabled'
                           /\ disabledDeps[x] = (deps[x] \cap Enableable) \ enabled'
    BY DEF CheckersInOrder
  <2>1. CASE x = m
    BY <2>1 DEF IInv, CheckersInOrder, TypeOK
  <2>2. CASE x # m
    <3>1. pc'[x] # "waiting" => m \notin deps[x]
      BY <2>2 DEF IInv, CheckersInOrder, TypeOK
    <3>2. QED
      BY <2>2, <3>1 DEF IInv, CheckersInOrder, TypeOK
  <2>3. QED
    BY <2>1, <2>2
<1>4. KeepsBuildable'
  <2> SUFFICES ASSUME NEW S \in SUBSET configured, Promise!Buildable(S)
               PROVE  m \notin S /\ S \subseteq enabled
    BY DEF KeepsBuildable, Promise!Buildable
  <2>1. S \subseteq enabled
    BY DEF IInv, KeepsBuildable
  <2>2. PICK d \in deps[m] \cap Enableable : d \notin enabled
    BY DEF IInv, CheckersInOrder
  <2>3. QED
    BY <2>1, <2>2 DEF Promise!Buildable
<1>5. QED
  BY <1>1, <1>2, <1>3, <1>4 DEF IInv

LEMMA StepEnd ==
  ASSUME IInv, EndPass \/ \E m \in Module : Die(m)
  PROVE  IInv'
<1> USE DEF EndPass, Die, config, walk
<1>1. TypeOK'
  BY DEF IInv, TypeOK
<1>2. HeldIsNeeded' /\ NothingForgotten' /\ WalkersInOrder'
  BY CheckFrame DEF IInv, WalkersInOrder
<1>3. CheckersInOrder' /\ KeepsBuildable'
  BY DEF IInv, CheckersInOrder, KeepsBuildable, Promise!Buildable
<1>4. QED
  BY <1>1, <1>2, <1>3 DEF IInv

LEMMA NextIInv == IInv /\ [Next]_vars => IInv'
<1> SUFFICES ASSUME IInv, [Next]_vars PROVE IInv'
  OBVIOUS
<1>1. ASSUME NEW m \in Module, FindRequired(m) PROVE IInv'
  BY <1>1, StepVisitTopLevel, StepVisitOther, StepVisitSkipped, StepStopAt, StepClaim,
     StepWalkThrough, StepMarkAsRequired, StepEndWalk
  DEF FindRequired, WalkStep
<1>2. ASSUME NEW m \in Module, CheckDisabled(m) PROVE IInv'
  BY <1>2, StepKeep, StepDisable, StepEnd DEF CheckDisabled
<1>3. CASE NextPass
  BY <1>3, StepNextPass
<1>4. CASE EndPass
  BY <1>4, StepEnd
<1>5. CASE UNCHANGED vars
  <2>1. TypeOK'
    BY <1>5 DEF IInv, TypeOK, vars
  <2>2. HeldIsNeeded'
    BY <1>5 DEF IInv, HeldIsNeeded, Opened, Promise!Closed, Promise!Roots,
                IsBuiltByDefault, vars
  <2>3. NothingForgotten' /\ CheckersInOrder' /\ KeepsBuildable'
    BY <1>5 DEF IInv, NothingForgotten, Opened, InHand, CheckersInOrder,
                KeepsBuildable, Promise!Buildable, vars
  <2>4. WalkersInOrder'
    BY <1>5 DEF IInv, WalkersInOrder, Opened, Promise!Roots, IsBuiltByDefault, vars
  <2>5. QED
    BY <2>1, <2>2, <2>3, <2>4 DEF IInv
<1>6. QED
  BY <1>1, <1>2, <1>3, <1>4, <1>5 DEF Next, Ended

LEMMA Invariance == Spec => []IInv
BY InitIInv, NextIInv, PTL DEF Spec

-----------------------------------------------------------------------------
(* TypeOK holds in every reachable state of the two passes.                *)
THEOREM TypeCorrect == Spec => []TypeOK
<1>1. IInv => TypeOK
  BY DEF IInv
<1>2. QED
  BY <1>1, Invariance, PTL

(* findRequiredModulesMutator marks no module that no top-level module     *)
(* needs, however its walkers interleave.                                  *)
THEOREM OnlyNeeded == Spec => []RequiredIsNeeded
<1>1. IInv => RequiredIsNeeded
  BY DEF IInv, HeldIsNeeded, RequiredIsNeeded, Opened
<1>2. QED
  BY <1>1, Invariance, PTL

(* It marks all that they need, although a walker stops wherever another   *)
(* one has been.                                                           *)
LEMMA OpenedIsClosed ==
  ASSUME IInv, phase # "find"
  PROVE  Promise!Closed(configured, Opened)
BY DEF IInv, NothingForgotten, WalkersInOrder, InHand, Promise!Closed

THEOREM AllNeeded == Spec => []RequiredIsComplete
<1>1. IInv => RequiredIsComplete
  BY OpenedIsClosed DEF IInv, TypeOK, RequiredIsComplete, Opened
<1>2. QED
  BY <1>1, Invariance, PTL

(* checkDisabledMutator never disables a module marked as required.        *)
THEOREM RequiredSurvives == Spec => []RequiredStaysEnabled
<1>1. IInv => RequiredStaysEnabled
  BY DEF IInv, WalkersInOrder, RequiredStaysEnabled
<1>2. QED
  BY <1>1, Invariance, PTL

(* After a successful checkDisabledMutator pass every dependency of an     *)
(* enabled module is enabled.                                              *)
THEOREM RulesAreClosed == Spec => []NoDanglingRule
<1>1. IInv => NoDanglingRule
  BY ModuleAssumption DEF IInv, TypeOK, CheckersInOrder, NoDanglingRule
<1>2. QED
  BY <1>1, Invariance, PTL

(* checkDisabledMutator disables no module that is built by default.       *)
THEOREM DefaultsSurvive == Spec => []NoSilentDrop
<1>1. ASSUME IInv PROVE NoSilentDrop
  <2> SUFFICES ASSUME NEW m \in configured, m \notin enabled, IsBuiltByDefault(m)
               PROVE  FALSE
    BY DEF NoSilentDrop
  <2>1. phase # "find" /\ m \in Enableable
    BY <1>1 DEF IInv, WalkersInOrder, TypeOK
  <2>2. m \in Opened
    BY <1>1, <2>1 DEF IInv, WalkersInOrder, Promise!Roots
  <2>3. QED
    BY <1>1, <2>1, <2>2 DEF IInv, WalkersInOrder, TypeOK, Opened
<1>2. QED
  BY <1>1, Invariance, PTL

(* findRequiredModulesMutator marks what is needed and nothing else, and    *)
(* checkDisabledMutator leaves no rule without its inputs, drops nothing    *)
(* that is required and nothing that is built by default.                  *)
THEOREM PassesAreSound == Spec => []PassesSound
<1>1. /\ RequiredIsNeeded /\ RequiredIsComplete /\ RequiredStaysEnabled
      /\ NoDanglingRule /\ NoSilentDrop
      => PassesSound
  BY DEF PassesSound
<1>2. QED
  BY <1>1, OnlyNeeded, AllNeeded, RequiredSurvives, RulesAreClosed, DefaultsSurvive, PTL

-----------------------------------------------------------------------------
(* The passes implement their promise: the steps inside a pass stutter,    *)
(* the barrier between the passes delivers the needed modules, and the end *)
(* of the second one the largest buildable set.                            *)
LEMMA BarrierDelivers ==
  ASSUME IInv, NextPass
  PROVE  Promise!FindRequired
<1> USE DEF NextPass, config, walk
<1>1. Promise!Closed(configured, Opened)
  <2>1. IInv' /\ phase' # "find"
    BY StepNextPass
  <2>2. Opened' = Opened /\ configured' = configured /\ deps' = deps
    BY DEF Opened
  <2>3. \A w \in Module : frontier[w] = {} /\ claimed[w] = {}
    BY <2>1 DEF IInv, WalkersInOrder
  <2>4. Promise!Roots(configured) \subseteq Opened
    BY <2>1, <2>2 DEF IInv, WalkersInOrder, Promise!Roots, IsBuiltByDefault
  <2>5. QED
    BY <2>3, <2>4 DEF IInv, NothingForgotten, InHand, Promise!Closed
<1>2. Opened \in SUBSET Module /\ required = Opened \cap Enableable
  BY ModuleAssumption DEF IInv, TypeOK, Opened
<1>3. required = Promise!Needed(configured)
  BY <1>1, <1>2 DEF IInv, HeldIsNeeded, Promise!Needed
<1>4. QED
  BY <1>3 DEF Promise!FindRequired, Promise!fixed, IsBuiltByDefault

LEMMA EndSettles ==
  ASSUME IInv, EndPass
  PROVE  Promise!Settle
<1> USE DEF EndPass, config, walk
<1>1. enabled \in SUBSET configured /\ required \subseteq enabled
  BY DEF IInv, TypeOK, WalkersInOrder
<1>2. Promise!Buildable(enabled)
  BY <1>1, ModuleAssumption DEF IInv, TypeOK, CheckersInOrder, Promise!Buildable
<1>3. \A S \in SUBSET configured : Promise!Buildable(S) => S \subseteq enabled
  BY DEF IInv, KeepsBuildable
<1>4. QED
  BY <1>1, <1>2, <1>3 DEF Promise!Settle, Promise!Buildable, Promise!fixed, IsBuiltByDefault

LEMMA DieFails ==
  ASSUME IInv, NEW m \in Module, Die(m)
  PROVE  Promise!Fail
<1> USE DEF Die, config, walk
<1>1. ASSUME NEW S \in SUBSET configured, Promise!Buildable(S), required \subseteq S
      PROVE  FALSE
  <2>1. PICK d \in deps[m] \cap Enableable : d \notin enabled
    BY DEF IInv, CheckersInOrder
  <2>2. S \subseteq enabled
    BY <1>1 DEF IInv, KeepsBuildable
  <2>3. QED
    BY <1>1, <2>1, <2>2 DEF Promise!Buildable
<1>2. QED
  BY <1>1 DEF Promise!Fail, Promise!Buildable, Promise!fixed, IsBuiltByDefault

THEOREM Implementation == Spec => ImplementsPromise
<1>1. Init => Promise!Init
  BY DEF Init, Promise!Init
<1>2. IInv /\ [Next]_vars => [Promise!Next]_(Promise!vars)
  <2> SUFFICES ASSUME IInv, [Next]_vars
               PROVE  Promise!Next \/ UNCHANGED Promise!vars
    OBVIOUS
  <2> USE DEF Promise!vars, config, IsBuiltByDefault
  <2>1. ASSUME NEW m \in Module, FindRequired(m)
        PROVE  UNCHANGED Promise!vars
    <3>1. phase = "find" /\ phase' = "find" /\ UNCHANGED config
      BY <2>1 DEF FindRequired, WalkStep, VisitTopLevel, VisitOther, VisitSkipped, Visit,
                  StartWalk, StopAt, Claim, WalkThrough, Walking, MarkAsRequired, EndWalk
    <3>2. QED
      BY <3>1
  <2>2. ASSUME NEW m \in Module, CheckDisabled(m), ~Die(m)
        PROVE  UNCHANGED Promise!vars
    <3>1. phase = "check" /\ phase' = "check" /\ UNCHANGED <<config, required>>
      BY <2>2 DEF CheckDisabled, CheckSkipped, CollectDisabledDeps, KeepEnabled, Disable
    <3>2. QED
      BY <3>1
  <2>3. CASE UNCHANGED vars
    BY <2>3 DEF vars
  <2>4. QED
    BY <2>1, <2>2, <2>3, BarrierDelivers, EndSettles, DieFails
    DEF Next, Ended, Promise!Next
<1>3. QED
  BY <1>1, <1>2, Invariance, PTL DEF Spec, ImplementsPromise, Promise!Spec
=============================================================================

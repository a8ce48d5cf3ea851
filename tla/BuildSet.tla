------------------------------ MODULE BuildSet ------------------------------
(***************************************************************************)
(* What the two enablement passes promise, with no passes, walks or        *)
(* workers: the required modules are the ones some top-level module needs, *)
(* and the modules that stay enabled are those all of whose dependencies   *)
(* stay enabled.  The run fails when the first do not fit in the second.   *)
(***************************************************************************)

CONSTANTS Module, Enableable, Ignored

VARIABLES deps, topLevel, configured, enabled, required, phase

fixed == <<deps, topLevel, configured>>
vars == <<deps, topLevel, configured, enabled, required, phase>>

(* What is needed regardless of any dependency: enabled top-level modules, *)
(* and the modules that have no Enabled property at all.                   *)
Roots(on) == (topLevel \cap on) \cup (Module \ (Enableable \cup Ignored))

(* S holds the roots and every dependency of its members that is not       *)
(* disabled.                                                               *)
Closed(on, S) ==
  /\ Roots(on) \subseteq S
  /\ \A m \in S : \A d \in deps[m] : d \in S \/ d \in Enableable \ on

Needed(on) == {m \in Enableable :
                 \A S \in SUBSET Module : Closed(on, S) => m \in S}

(* S can be built: nothing in it depends on a disabled module.             *)
Buildable(S) ==
  /\ S \subseteq configured
  /\ \A m \in S : deps[m] \cap Enableable \subseteq S

Init ==
  /\ enabled = configured
  /\ required = {}
  /\ phase = "find"

FindRequired ==
  /\ phase = "find"
  /\ required' = Needed(configured)
  /\ phase' = "check"
  /\ UNCHANGED <<fixed, enabled>>

Settle ==
  /\ phase = "check"
  /\ required \subseteq enabled'
  /\ enabled' \in SUBSET configured
  /\ Buildable(enabled')
  /\ \A S \in SUBSET configured : Buildable(S) => S \subseteq enabled'
  /\ phase' = "done"
  /\ UNCHANGED <<fixed, required>>

Fail ==
  /\ phase = "check"
  /\ \A S \in SUBSET configured : Buildable(S) => ~(required \subseteq S)
  /\ phase' = "died"
  /\ UNCHANGED <<fixed, enabled, required>>

Next == FindRequired \/ Settle \/ Fail

Spec == Init /\ [][Next]_vars
=============================================================================

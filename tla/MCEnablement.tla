---------------------------- MODULE MCEnablement ----------------------------
(***************************************************************************)
(* TLC instances of Enablement.  The modules are numbered so that every    *)
(* declared dependency goes to a higher one: all small acyclic graphs.     *)
(***************************************************************************)
EXTENDS Enablement, Naturals

GraphOf(edges) == [m \in Module |-> {d \in Module : <<m, d>> \in edges}]

(* 0 is an alias, 1 a target binary, 2 a host binary, 4 a library, and 5   *)
(* an external library, which has no Enabled property.                     *)
AliasType == [m \in {0, 1, 2, 4, 5} |->
  CASE m = 0 -> "alias" [] m \in {1, 2} -> "binary" [] m = 4 -> "library"
    [] m = 5 -> "external_library"]

MCTarget == [m \in 0..5 |-> IF m = 2 THEN "host" ELSE "target"]

(* An alias, one binary of each target and a library, any acyclic way     *)
(* they may depend on each other, and an external library under the last.  *)
AliasGraphs ==
  {GraphOf(E \cup {<<4, 5>>}) :
     E \in SUBSET {<<0, 1>>, <<0, 2>>, <<0, 4>>, <<1, 2>>, <<1, 4>>, <<2, 4>>}}
=============================================================================

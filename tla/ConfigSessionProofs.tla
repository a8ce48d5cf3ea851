------------------------- MODULE ConfigSessionProofs -------------------------
(***************************************************************************)
(* ConfigSession, proved for all wishes, Mconfigs and failures.            *)
(*                                                                         *)
(* The properties are not inductive: that bob builds from the right JSON,  *)
(* and that the marker goes only for complete files, rests on which file   *)
(* already holds what the running command computed (Stored) and on the     *)
(* marker being there since the last failed session (Marked).              *)
(***************************************************************************)
EXTENDS ConfigSession, TLAPS

(* What each step of a session may count on.                               *)
Stored ==
  /\ pc \in Session => mem.mconfig = mconfig
  /\ pc \in {"write json", "mark"} => config = mem
  /\ pc = "mark" => json = JsonOf(mem, mconfig)

(* The marker tells the truth about the last session that ended.           *)
Marked ==
  /\ outcome = "errors" => marker
  /\ pc \in Bob => ~marker

IInv == TypeOK /\ Stored /\ Marked /\ BuildUsesConfig

(* The wish read from any file is one, and the contents computed have the  *)
(* right type.                                                             *)
LEMMA ReadTypes ==
  ASSUME TypeOK
  PROVE  /\ WishOf(config) \in Wish \cup {NoWish}
         /\ JsonOf(config, mconfig) \in Json
         /\ pc \in Session => JsonOf(mem, mem.mconfig) \in Json
BY DEF TypeOK, WishOf, JsonOf, Config, Json


(* Starting a session, whatever the command.                               *)
LEMMA StartKeeps ==
  ASSUME IInv, NEW w \in Wish \cup {NoWish}, NEW r, Start(w, r)
  PROVE  IInv'
<1>1. CASE <<w, mconfig>> \in Raising
  BY <1>1 DEF IInv, TypeOK, Stored, Marked, BuildUsesConfig, Start, Session, Bob
<1>2. CASE <<w, mconfig>> \notin Raising
  <2>1. /\ pc' = "write config" /\ mem' = [wish |-> w, mconfig |-> mconfig]
        /\ UNCHANGED <<mconfig, config, json, marker, outcome>>
    BY <1>2 DEF Start
  <2>2. errors' \in BOOLEAN
    BY <1>2 DEF Start
  <2>3. mem' \in Config /\ mem'.mconfig = mconfig'
    BY <2>1 DEF IInv, TypeOK, Config
  <2> QED BY <2>1, <2>2, <2>3 DEF IInv, TypeOK, Stored, Marked, BuildUsesConfig, Session, Bob
<1> QED BY <1>1, <1>2

LEMMA Initially == Init => IInv
BY DEF Init, IInv, TypeOK, Stored, Marked, BuildUsesConfig, Session, Bob

LEMMA Inductive == IInv /\ [Next]_vars => IInv'
<1> SUFFICES ASSUME IInv, [Next]_vars PROVE IInv'
  OBVIOUS
<1>1. CASE UNCHANGED vars
  <2>1. TypeOK'
    BY <1>1 DEF IInv, TypeOK, vars
  <2>2. Stored' /\ Marked' /\ BuildUsesConfig'
    BY <1>1 DEF IInv, Stored, Marked, BuildUsesConfig, JsonOf, vars
  <2> QED BY <2>1, <2>2 DEF IInv
<1>2. ASSUME NEW w \in Wish, Configure(w) PROVE IInv'
  <2>1. Start(w, <<w, mconfig>> \in Rejected)
    BY <1>2 DEF Configure
  <2> QED BY <2>1, StartKeeps
<1>3. ASSUME NEW w \in Wish, Menuconfig(w) PROVE IInv'
  BY <1>3, StartKeeps DEF Menuconfig
<1>4. CASE Reconfigure
  BY <1>4, StartKeeps, ReadTypes DEF IInv, Reconfigure
<1>5. CASE WriteConfig
  <2>1. TypeOK'
    BY <1>5 DEF IInv, WriteConfig, Store, TypeOK, Session, Bob
  <2>2. Stored' /\ Marked' /\ BuildUsesConfig'
    BY <1>5 DEF IInv, WriteConfig, Store, TypeOK, Stored, Marked, BuildUsesConfig, JsonOf, Session, Bob
  <2> QED BY <2>1, <2>2 DEF IInv
<1>6. CASE WriteJson
  <2>1. TypeOK'
    BY <1>6, ReadTypes DEF IInv, WriteJson, Store, TypeOK, Session, Bob
  <2>2. Stored' /\ Marked' /\ BuildUsesConfig'
    BY <1>6 DEF IInv, WriteJson, Store, TypeOK, Stored, Marked, BuildUsesConfig, JsonOf, Session, Bob
  <2> QED BY <2>1, <2>2 DEF IInv
<1>7. CASE Mark
  <2>1. TypeOK'
    BY <1>7 DEF IInv, Mark, TypeOK, Session, Bob
  <2>2. Stored' /\ Marked' /\ BuildUsesConfig'
    BY <1>7 DEF IInv, Mark, TypeOK, Stored, Marked, BuildUsesConfig, JsonOf, Session, Bob
  <2> QED BY <2>1, <2>2 DEF IInv
<1>8. CASE DropJson
  <2>1. TypeOK'
    BY <1>8 DEF IInv, DropJson, TypeOK, Session, Bob
  <2>2. Stored' /\ Marked' /\ BuildUsesConfig'
    BY <1>8 DEF IInv, DropJson, TypeOK, Stored, Marked, BuildUsesConfig, JsonOf, Session, Bob
  <2> QED BY <2>1, <2>2 DEF IInv
<1>9. CASE StartBob
  <2>1. TypeOK'
    BY <1>9 DEF IInv, StartBob, TypeOK, Session, Bob
  <2>2. Stored' /\ Marked' /\ BuildUsesConfig'
    BY <1>9 DEF IInv, StartBob, TypeOK, Stored, Marked, BuildUsesConfig, JsonOf, Session, Bob
  <2> QED BY <2>1, <2>2 DEF IInv
<1>10. CASE Generate
  <2>1. TypeOK'
    BY <1>10, ReadTypes DEF IInv, Generate, Store, TypeOK, Session, Bob
  <2>2. Stored' /\ Marked' /\ BuildUsesConfig'
    BY <1>10 DEF IInv, Generate, Store, TypeOK, Stored, Marked, BuildUsesConfig, JsonOf, Session, Bob
  <2> QED BY <2>1, <2>2 DEF IInv
<1>11. CASE EndBuild
  <2>1. TypeOK'
    BY <1>11 DEF IInv, EndBuild, TypeOK, Session, Bob
  <2>2. Stored' /\ Marked' /\ BuildUsesConfig'
    BY <1>11 DEF IInv, EndBuild, TypeOK, Stored, Marked, BuildUsesConfig, JsonOf, Session, Bob
  <2> QED BY <2>1, <2>2 DEF IInv
<1>12. CASE Kill
  <2>1. TypeOK'
    BY <1>12 DEF IInv, Kill, TypeOK, Session, Bob
  <2>2. Stored' /\ Marked' /\ BuildUsesConfig'
    BY <1>12 DEF IInv, Kill, TypeOK, Stored, Marked, BuildUsesConfig, JsonOf, Session, Bob
  <2> QED BY <2>1, <2>2 DEF IInv
<1>13. CASE EditMconfig
  <2>1. TypeOK'
    BY <1>13 DEF IInv, EditMconfig, TypeOK, Session, Bob
  <2>2. Stored' /\ Marked' /\ BuildUsesConfig'
    BY <1>13 DEF IInv, EditMconfig, TypeOK, Stored, Marked, BuildUsesConfig, JsonOf, Session, Bob
  <2> QED BY <2>1, <2>2 DEF IInv
<1> QED
  BY <1>1, <1>2, <1>3, <1>4, <1>5, <1>6, <1>7, <1>8, <1>9, <1>10, <1>11, <1>12, <1>13 DEF Next

THEOREM Invariance == Spec => []IInv
BY Initially, Inductive, PTL DEF Spec

(* The files and the state of the commands keep their types.               *)
THEOREM SessionTypes == Spec => []TypeOK
BY Invariance, PTL DEF IInv

(* Killed commands never make bob build from anything but the .config and  *)
(* the Mconfig that are on disk.                                           *)
THEOREM BobIsCurrent == Spec => []BuildUsesConfig
BY Invariance, PTL DEF IInv

(* Errors of the last session that ended keep bob from running.            *)
THEOREM BobIsStopped == Spec => []ErrorsStopBob
<1>1. IInv => ErrorsStopBob
  BY DEF IInv, Marked, ErrorsStopBob
<1> QED BY <1>1, Invariance, PTL

(* The marker goes only for complete files of a session without errors.    *)
THEOREM MarkerIsLast == Spec => MarkerGuardsFiles
<1>1. ASSUME IInv, [Next]_vars
      PROVE  [marker /\ ~marker' => /\ ~errors
                                    /\ config' = mem /\ json' = JsonOf(mem, mconfig)]_vars
  <2>1. CASE Mark
    BY <2>1, <1>1 DEF Mark, IInv, Stored
  <2>2. CASE UNCHANGED vars
    BY <2>2
  <2>3. CASE ~Mark /\ Next
    <3>1. marker' = marker
      BY <2>3 DEF Next, Configure, Menuconfig, Reconfigure, Start, WriteConfig, WriteJson,
                  DropJson, StartBob, Generate, EndBuild, Kill, EditMconfig
    <3> QED BY <3>1, <1>1 DEF IInv, TypeOK
  <2> QED BY <1>1, <2>1, <2>2, <2>3
<1> QED BY <1>1, Invariance, PTL DEF Spec, MarkerGuardsFiles
=============================================================================

---------------------------- MODULE AndroidBpProofs ----------------------------
(***************************************************************************)
(* The life of Android.bp, proved for every tree, whatever the handlers of *)
(* the back end add for a module, and for any number of edits and kills.   *)
(*                                                                         *)
(* That a silent check means a current file is not inductive: the check    *)
(* compares hashes, and what the file holds follows from them only because *)
(* the run that wrote it held what its modules add (FileIsWritten) and the *)
(* hash of what it parsed (HashIsParsed).                                  *)
(***************************************************************************)
EXTENDS AndroidBp, TLAPS

(* The file in memory is what the modules done so far have added.          *)
FileIsWritten ==
  /\ phase = "generating" => Range(bpfile) = Generated(parsed \ pending)
  /\ phase \in {"checked", "writing"} => Range(bpfile) = Generated(parsed)

(* A run that is not overtaken by an edit hashes what it parsed.           *)
HashIsParsed ==
  ~racing => /\ phase = "generating" => tree = parsed
             /\ phase \in {"checked", "writing"} => hashed = parsed

(* The file on disk is what the files of its hash generate.                *)
DiskIsHashed == ~raced => Range(androidbp.mods) = Generated(androidbp.hash)

(* The last word of the check is about the file and the tree as they are.  *)
CheckIsCurrent ==
  /\ warned = "no" => androidbp.hash = tree
  /\ phase = "writing" => warned = "unknown"

IInv == TypeOK /\ FileIsWritten /\ HashIsParsed /\ DiskIsHashed /\ CheckIsCurrent

-----------------------------------------------------------------------------
LEMMA EmptyFile == DOMAIN <<>> = {} /\ Range(<<>>) = {} /\ Generated({}) = {}
<1>1. DOMAIN <<>> = {}
  OBVIOUS
<1> QED
  BY <1>1 DEF Range, Generated

(* Modules with names of their own join the file, and displace nothing.    *)
LEMMA NamesJoin ==
  ASSUME NEW new, ~Duplicate(new), NewModules(new), \A n \in DOMAIN bpfile : bpfile[n].name = n
  PROVE  /\ Range(bpfile') = Range(bpfile) \cup new
         /\ \A n \in DOMAIN bpfile' : bpfile'[n].name = n
<1> DEFINE names == {r.name : r \in new}
<1>1. \A r \in new : (CHOOSE x \in new : x.name = r.name) = r
  BY DEF Duplicate
<1>2. /\ DOMAIN bpfile' = DOMAIN bpfile \cup names
      /\ \A n \in DOMAIN bpfile : bpfile'[n] = bpfile[n]
  BY DEF NewModules
<1>3. \A r \in new : r.name \in DOMAIN bpfile' /\ bpfile'[r.name] = r
  BY <1>1, <1>2 DEF NewModules, Duplicate
<1>4. \A n \in names : bpfile'[n] \in new /\ bpfile'[n].name = n
  BY <1>3
<1> QED
  BY <1>2, <1>3, <1>4 DEF Range

LEMMA InitIInv == Init => IInv
<1> SUFFICES ASSUME Init PROVE IInv
  OBVIOUS
<1>1. TypeOK
  <2>1. 0 \in 0..MaxEdits /\ 0 \in 0..MaxKills
    BY TreeAssumption
  <2>2. DOMAIN bpfile = {}
    BY EmptyFile DEF Init
  <2> QED
    BY <2>1, <2>2 DEF Init, TypeOK
<1>2. DiskIsHashed
  <2>1. androidbp.mods = <<>> /\ androidbp.hash = {}
    BY DEF Init, NoFile
  <2> QED
    BY <2>1, EmptyFile DEF DiskIsHashed
<1> QED
  BY <1>1, <1>2 DEF Init, IInv, FileIsWritten, HashIsParsed, CheckIsCurrent

LEMMA NextIInv == IInv /\ [Next]_vars => IInv'
<1> SUFFICES ASSUME IInv, [Next]_vars PROVE IInv'
  OBVIOUS
<1> USE DEF IInv
<1>1. CASE Regenerate
  <2> USE <1>1 DEF Regenerate, collectBuildBpFiles
  <2>1. TypeOK'
    BY EmptyFile DEF TypeOK
  <2>2. FileIsWritten'
    <3>1. parsed' \ pending' = {}
      OBVIOUS
    <3> QED
      BY <3>1, EmptyFile DEF FileIsWritten, Generated
  <2> QED
    BY <2>1, <2>2 DEF HashIsParsed, DiskIsHashed, CheckIsCurrent, Generated
<1>2. ASSUME NEW m \in Modules, GenerateBuildActions(m) PROVE IInv'
  <2>1. /\ phase = "generating" /\ m \in pending
        /\ UNCHANGED <<tree, parsed, hashed, androidbp, warned, edits, kills, racing, raced>>
    BY <1>2 DEF GenerateBuildActions
  <2>2. CASE Die
    BY <2>1, <2>2 DEF Die, TypeOK, FileIsWritten, HashIsParsed, DiskIsHashed, CheckIsCurrent, Generated
  <2>3. CASE ~Duplicate(Written[m]) /\ pending' = pending \ {m} /\ NewModules(Written[m])
             /\ UNCHANGED <<phase, outcome>>
    <3>1. /\ Range(bpfile') = Range(bpfile) \cup Written[m]
          /\ \A n \in DOMAIN bpfile' : bpfile'[n].name = n
      BY <2>3, NamesJoin DEF TypeOK
    <3>2. TypeOK'
      BY <2>1, <2>3, <3>1 DEF TypeOK
    <3>3. parsed' \ pending' = (parsed \ pending) \cup {m}
      BY <2>1, <2>3 DEF TypeOK
    <3>4. Generated((parsed \ pending) \cup {m}) = Generated(parsed \ pending) \cup Written[m]
      BY DEF Generated
    <3>5. FileIsWritten'
      BY <2>1, <2>3, <3>1, <3>3, <3>4 DEF FileIsWritten, Generated
    <3> QED
      BY <2>1, <2>3, <3>2, <3>5 DEF HashIsParsed, DiskIsHashed, CheckIsCurrent, Generated
  <2> QED
    BY <1>2, <2>2, <2>3 DEF GenerateBuildActions
<1>3. CASE generateBuildbpCheck
  <2> USE <1>3 DEF generateBuildbpCheck, hashBuildConfig
  <2>1. parsed \ pending = parsed
    OBVIOUS
  <2> QED
    BY <2>1 DEF TypeOK, FileIsWritten, HashIsParsed, DiskIsHashed, CheckIsCurrent, Generated
<1>4. CASE Truncate
  BY <1>4, EmptyFile DEF Truncate, TypeOK, FileIsWritten, HashIsParsed, DiskIsHashed, CheckIsCurrent, Generated,
     NoFile
<1>5. CASE LeaveAlone
  <2> USE <1>5 DEF LeaveAlone, Done
  <2>1. androidbp.mods = bpfile /\ androidbp.hash = hashed
    BY DEF Differs, Content
  <2> QED
    BY <2>1 DEF TypeOK, FileIsWritten, HashIsParsed, DiskIsHashed, CheckIsCurrent, Generated
<1>6. CASE WriteText
  BY <1>6 DEF WriteText, Done, Content, TypeOK, FileIsWritten, HashIsParsed, DiskIsHashed, CheckIsCurrent, Generated
<1>7. CASE Kill
  BY <1>7, TreeAssumption DEF Kill, TypeOK, FileIsWritten, HashIsParsed, DiskIsHashed, CheckIsCurrent, Generated
<1>8. CASE Edit
  <2>1. tree' \in Trees /\ edits' \in 0..MaxEdits
    BY <1>8, TreeAssumption DEF Edit, TypeOK
  <2> QED
    BY <1>8, <2>1 DEF Edit, TypeOK, FileIsWritten, HashIsParsed, DiskIsHashed, CheckIsCurrent, Generated
<1>9. CASE verify_hash
  BY <1>9 DEF verify_hash, upToDate, TypeOK, FileIsWritten, HashIsParsed, DiskIsHashed, CheckIsCurrent, Generated
<1>10. CASE UNCHANGED vars
  BY <1>10 DEF vars, TypeOK, FileIsWritten, HashIsParsed, DiskIsHashed, CheckIsCurrent, Generated
<1> QED
  BY <1>1, <1>2, <1>3, <1>4, <1>5, <1>6, <1>7, <1>8, <1>9, <1>10 DEF Next, WriteIfChanged

LEMMA Inductive == Spec => []IInv
<1>1. Init => IInv
  BY InitIInv
<1>2. IInv /\ [Next]_vars => IInv'
  BY NextIInv
<1> QED
  BY <1>1, <1>2, PTL DEF Spec

-----------------------------------------------------------------------------
(* Every variable keeps its type, and modules stay under their names.      *)
THEOREM BpTypes == Spec => []TypeOK
<1>1. IInv => TypeOK
  BY DEF IInv
<1> QED
  BY <1>1, Inductive, PTL

(* What modules add in parallel is all in the file when it is written, for *)
(* every order: two modules under one name end the run instead.            *)
THEOREM NothingIsLost == Spec => []NothingLost
<1>1. IInv => NothingLost
  BY DEF IInv, FileIsWritten, NothingLost, Complete, Generated
<1> QED
  BY <1>1, Inductive, PTL

(* A silent check means that Android.bp is what the tree generates, unless *)
(* the run that wrote it was overtaken by an edit before it hashed.        *)
THEOREM StaleFilesAreNoticed == Spec => []StaleIsWarned
<1>1. IInv => StaleIsWarned
  BY DEF IInv, DiskIsHashed, CheckIsCurrent, StaleIsWarned
<1> QED
  BY <1>1, Inductive, PTL
=============================================================================

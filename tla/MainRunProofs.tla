----------------------------- MODULE MainRunProofs -----------------------------
(***************************************************************************)
(* The properties of a run, proved for all trees, configurations, filters   *)
(* and compilers, and any number of visits: the feature types, looked up    *)
(* again under the write lock, and the answers of the compilers, which are  *)
(* not; the machine of every command line; the nearest toolchain module;    *)
(* and what an exit code says of the log and of the files.                  *)
(***************************************************************************)
EXTENDS MainRun, FiniteSetTheorems, SequenceTheorems, RecursionLemmas, TLAPS

(***************************************************************************)
(* Feature types.  A second build of a list of structs cannot happen, since *)
(* the look-up and the build are one step under the write lock.             *)
(***************************************************************************)
TypesAreBuilt ==
    /\ IsFiniteSet(DOMAIN types)
    /\ builds = Cardinality(DOMAIN types)
    /\ \A m \in DOMAIN typeOf : /\ tree.modules[m].structs \in DOMAIN types
                                /\ typeOf[m] = types[tree.modules[m].structs]

LEMMA InitTypes == Init => TypesAreBuilt
<1> SUFFICES ASSUME Init PROVE TypesAreBuilt
  OBVIOUS
<1>1. DOMAIN types = {} /\ DOMAIN typeOf = {} /\ builds = 0
  BY DEF Init
<1> QED
  BY <1>1, FS_EmptySet DEF TypesAreBuilt

\* A module takes the type that is there.
LEMMA TypeTaken ==
  ASSUME TypesAreBuilt, NEW m, tree.modules[m].structs \in DOMAIN types,
         typeOf' = Put(typeOf, m, types[tree.modules[m].structs]), UNCHANGED <<world, types, builds>>
  PROVE  TypesAreBuilt'
  BY DEF TypesAreBuilt, Put, tree

\* A module builds the one that is not.
LEMMA TypeBuilt ==
  ASSUME TypesAreBuilt, NEW m, tree.modules[m].structs \notin DOMAIN types,
         types' = Put(types, tree.modules[m].structs, builds + 1), builds' = builds + 1,
         typeOf' = Put(typeOf, m, builds + 1), UNCHANGED world
  PROVE  TypesAreBuilt'
<1> DEFINE key == tree.modules[m].structs
<1>1. DOMAIN types' = DOMAIN types \cup {key} /\ key \notin DOMAIN types
  BY DEF Put
<1>2. IsFiniteSet(DOMAIN types') /\ Cardinality(DOMAIN types') = Cardinality(DOMAIN types) + 1
  BY <1>1, FS_AddElement DEF TypesAreBuilt
<1>3. \A n \in DOMAIN typeOf' : /\ tree'.modules[n].structs \in DOMAIN types'
                                /\ typeOf'[n] = types'[tree'.modules[n].structs]
  BY <1>1 DEF TypesAreBuilt, Put, tree
<1> QED
  BY <1>2, <1>3 DEF TypesAreBuilt

LEMMA NextTypes == TypesAreBuilt /\ [Next]_vars => TypesAreBuilt'
<1> SUFFICES ASSUME TypesAreBuilt, [Next]_vars PROVE TypesAreBuilt'
  OBVIOUS
<1>u. ASSUME UNCHANGED <<world, types, builds, typeOf>> PROVE TypesAreBuilt'
  BY <1>u DEF TypesAreBuilt, tree
<1>1. ASSUME NEW m \in Names, LookUpType(m) PROVE TypesAreBuilt'
  <2>1. CASE tree.modules[m].structs \in DOMAIN types
    BY <1>1, <2>1, TypeTaken DEF LookUpType
  <2>2. CASE tree.modules[m].structs \notin DOMAIN types
    BY <1>1, <1>u, <2>2 DEF LookUpType
  <2> QED
    BY <2>1, <2>2
<1>2. ASSUME NEW m \in Names, BuildType(m) PROVE TypesAreBuilt'
  <2>1. CASE tree.modules[m].structs \in DOMAIN types
    BY <1>2, <2>1, TypeTaken DEF BuildType
  <2>2. CASE tree.modules[m].structs \notin DOMAIN types /\ tree.modules[m].structs \in tree.collisions
    BY <1>2, <1>u, <2>2 DEF BuildType
  <2>3. CASE tree.modules[m].structs \notin DOMAIN types /\ tree.modules[m].structs \notin tree.collisions
    BY <1>2, <2>3, TypeBuilt DEF BuildType
  <2> QED
    BY <2>1, <2>2, <2>3
<1>3. ASSUME NEW v \in Variants,
             \/ RaiseWarning(v) \/ OnlyWarns(v) \/ DependOnToolchain(v) \/ Collect(v)
             \/ LookUpFlag(v) \/ RunCompiler(v) \/ StoreAnswer(v) \/ EndLateTemplates(v)
      PROVE  TypesAreBuilt'
  BY <1>3, <1>u DEF RaiseWarning, OnlyWarns, DependOnToolchain, Collect, LookUpFlag, RunCompiler,
     StoreAnswer, EndLateTemplates
<1>4. CASE Configure \/ NextPass \/ MetaDataWriteToFile \/ TearDownLogger \/ \E m \in Names : Register(m)
  BY <1>4, <1>u DEF Configure, NextPass, MetaDataWriteToFile, TearDownLogger, Register
<1>5. CASE UNCHANGED vars
  BY <1>5, <1>u DEF vars
<1> QED
  BY <1>1, <1>2, <1>3, <1>4, <1>5 DEF Next

(* One list of structs has one type, whichever modules miss the cache       *)
(* together, and each module is made with the type of its list.             *)
THEOREM OneType == Spec => []OneTypePerList
<1>1. TypesAreBuilt => OneTypePerList
  BY DEF TypesAreBuilt, OneTypePerList
<1> QED
  BY <1>1, InitTypes, NextTypes, PTL DEF Spec

(***************************************************************************)
(* Answers of the compilers.  Two visits may miss together, and both write, *)
(* but whatever is written was said by the compiler of that toolchain, or   *)
(* stands for one that did not start: Refused.                              *)
(***************************************************************************)
Property == {"Cflags", "Cxxflags", "Conlyflags"}

Refused(tgt, key) == ~Accepts(tgt, key) \/ <<tgt, key>> \in failedFor

Asked(check, l) == <<check[2], Languages(check[1])[l]>>

\* Where each visit is in its list of flags, and in the languages of one.
AskingInRange ==
    /\ asking \in [Variants -> [item : Nat \ {0}, lang : Nat \ {0}]]
    /\ \A v \in Variants : asking[v].item \in DOMAIN Checks(v) =>
                                asking[v].lang \in DOMAIN Languages(Item(v)[1])

\* No flag has been asked for before the toolchains are there.
NothingAskedYet ==
    /\ pass \in DOMAIN Passes
    /\ pass = 1 => /\ \A v \in Variants : /\ asking[v].item = 1 /\ asking[v].lang = 1
                                          /\ at[v] \notin {"yes", "no"} /\ kept[v] = {}
                   /\ \A tgt \in TgtTypes : DOMAIN cache[tgt] = {}

\* A visit holds, and the cache keeps, what a compiler said.
AnswersAreTrue ==
    /\ DOMAIN at = Names \cup Variants
    /\ \A v \in Variants : /\ at[v] = "yes" => Accepts(v[2], Key(v))
                           /\ at[v] = "no" => Refused(v[2], Key(v))
CacheIsTrue ==
    /\ DOMAIN cache = TgtTypes
    /\ \A tgt \in TgtTypes : \A key \in DOMAIN cache[tgt] :
          \/ cache[tgt][key] = "yes" /\ Accepts(tgt, key)
          \/ cache[tgt][key] = "no" /\ Refused(tgt, key)

\* The languages a visit has passed were refused.
PassedRefused ==
    \A v \in Variants : asking[v].item \in DOMAIN Checks(v) =>
        \A l \in 1 .. asking[v].lang - 1 : Refused(v[2], Asked(Item(v), l))

\* A flag that stays was taken, and one that went was refused by all.
KeptWasTaken ==
    /\ DOMAIN kept = Variants
    /\ \A v \in Variants : \A check \in kept[v] :
          \E l \in DOMAIN Languages(check[1]) : Accepts(v[2], Asked(check, l))
GoneWasRefused ==
    \A v \in Variants : \A n \in 1 .. asking[v].item - 1 :
        \/ Checks(v)[n] \in kept[v]
        \/ \A l \in DOMAIN Languages(Checks(v)[n][1]) : Refused(v[2], Asked(Checks(v)[n], l))

KInv ==
    /\ world \in Worlds
    /\ AskingInRange
    /\ NothingAskedYet
    /\ AnswersAreTrue
    /\ CacheIsTrue
    /\ PassedRefused
    /\ KeptWasTaken
    /\ GoneWasRefused

-----------------------------------------------------------------------------
LEMMA VariantTypes ==
  ASSUME world \in Worlds, NEW v \in Variants
  PROVE  /\ v[2] \in TgtTypes
         /\ Checks(v) \in Seq(Property \X STRING)
  BY WorldAssumption DEF Variants, Names, Checks, tree, Property

LEMMA LanguagesOf ==
  ASSUME NEW property \in Property
  PROVE  /\ Len(Languages(property)) \in {1, 2}
         /\ DOMAIN Languages(property) = 1 .. Len(Languages(property))
         /\ ToSet(Languages(property)) = {Languages(property)[l] : l \in 1 .. Len(Languages(property))}
<1>1. \/ Languages(property) = <<"c++", "c">>
      \/ Languages(property) = <<"c++">>
      \/ Languages(property) = <<"c">>
  BY DEF Languages, Property
<1>2. Len(Languages(property)) \in {1, 2} /\ DOMAIN Languages(property) = 1 .. Len(Languages(property))
  BY <1>1
<1>3. ToSet(Languages(property)) = {Languages(property)[l] : l \in DOMAIN Languages(property)}
  BY DEF ToSet
<1> QED
  BY <1>2, <1>3

LEMMA FirstLanguage ==
  ASSUME world \in Worlds, NEW v \in Variants, NEW n \in DOMAIN Checks(v)
  PROVE  /\ 1 \in DOMAIN Languages(Checks(v)[n][1])
         /\ DOMAIN Languages(Checks(v)[n][1]) = 1 .. Len(Languages(Checks(v)[n][1]))
         /\ Len(Languages(Checks(v)[n][1])) \in {1, 2}
<1>1. Checks(v)[n][1] \in Property
  BY VariantTypes
<1> QED
  BY <1>1, LanguagesOf

\* The place of each pass.
LEMMA PassNumbers ==
  /\ DOMAIN Passes = 1 .. 12
  /\ \A i \in 1 .. 12 :
        /\ Passes[i] = "configure" <=> i = 1
        /\ Passes[i] = "parse" <=> i = 2
        /\ Passes[i] = "register_toolchains" <=> i = 3
        /\ Passes[i] = "process_paths" <=> i = 4
        /\ Passes[i] = "depender" <=> i = 5
        /\ Passes[i] = "generated" <=> i = 6
        /\ Passes[i] = "collect_metadata" <=> i = 7
        /\ Passes[i] = "late_template" <=> i = 8
        /\ Passes[i] = "generate" <=> i = 9
        /\ Passes[i] = "metadata_file" <=> i = 10
        /\ Passes[i] = "teardown" <=> i = 11
        /\ Passes[i] = "end" <=> i = 12
  BY DEF Passes

LEMMA InitKept == Init => KInv
<1> SUFFICES ASSUME Init PROVE KInv
  OBVIOUS
<1>1. /\ world \in Worlds
      /\ asking = [v \in Variants |-> [item |-> 1, lang |-> 1]]
      /\ at = [v \in Names \cup Variants |-> "ready"]
      /\ cache = [tgt \in TgtTypes |-> <<>>]
      /\ kept = [v \in Variants |-> {}]
      /\ pass = 1
  BY DEF Init
<1>2. AskingInRange
  <2> SUFFICES ASSUME NEW v \in Variants, 1 \in DOMAIN Checks(v)
               PROVE  1 \in DOMAIN Languages(Checks(v)[1][1])
    BY <1>1 DEF AskingInRange, Item
  <2> QED
    BY <1>1, FirstLanguage
<1>3. NothingAskedYet /\ AnswersAreTrue
  BY <1>1, PassNumbers DEF NothingAskedYet, AnswersAreTrue
<1>4. PassedRefused /\ KeptWasTaken /\ GoneWasRefused
  BY <1>1 DEF PassedRefused, KeptWasTaken, GoneWasRefused
<1>5. CacheIsTrue
  BY <1>1 DEF CacheIsTrue
<1> QED
  BY <1>1, <1>2, <1>3, <1>4, <1>5 DEF KInv

\* What is read from the world alone.
LEMMA WorldStays ==
  ASSUME world' = world
  PROVE  /\ Variants' = Variants /\ Names' = Names
         /\ \A v : Checks(v)' = Checks(v)
  BY DEF Variants, Names, Checks, tree

\* A compiler does not change its mind; one more that fails to start refuses more.
LEMMA RefusedStays ==
  ASSUME UNCHANGED <<world, tcs>>, failedFor \subseteq failedFor', NEW tgt, NEW key
  PROVE  /\ Accepts(tgt, key)' = Accepts(tgt, key)
         /\ Refused(tgt, key) => Refused(tgt, key)'
  BY DEF Accepts, Refused, conf

LEMMA KeyStays ==
  ASSUME UNCHANGED <<world>>, NEW v, asking'[v] = asking[v]
  PROVE  Item(v)' = Item(v) /\ Key(v)' = Key(v)
  BY WorldStays DEF Item, Key

\* A step that neither asks nor takes an answer.
LEMMA NothingAsked ==
  ASSUME KInv, UNCHANGED <<world, tcs, asking, cache, kept>>, failedFor \subseteq failedFor',
         AnswersAreTrue', NothingAskedYet'
  PROVE  KInv'
<1>1. AskingInRange'
  BY WorldStays, KeyStays DEF KInv, AskingInRange
<1>2. CacheIsTrue'
  BY RefusedStays DEF KInv, CacheIsTrue
<1>3. PassedRefused'
  BY WorldStays, KeyStays, RefusedStays DEF KInv, PassedRefused, Asked
<1>4. KeptWasTaken'
  BY WorldStays, RefusedStays DEF KInv, KeptWasTaken, Asked
<1>5. GoneWasRefused'
  BY WorldStays, RefusedStays DEF KInv, GoneWasRefused, Asked
<1> QED
  BY <1>1, <1>2, <1>3, <1>4, <1>5 DEF KInv

LEMMA QuietStep ==
  ASSUME KInv, UNCHANGED <<world, tcs, asking, cache, kept, failedFor>>,
         DOMAIN at' = DOMAIN at,
         \A v \in Variants : at'[v] \in {"yes", "no"} => at'[v] = at[v],
         pass' \in DOMAIN Passes, pass' = 1 => pass = 1
  PROVE  KInv'
<1>1. AnswersAreTrue'
  BY WorldStays, KeyStays, RefusedStays DEF KInv, AnswersAreTrue
<1>2. NothingAskedYet'
  BY WorldStays DEF KInv, NothingAskedYet
<1> QED
  BY <1>1, <1>2, NothingAsked

LEMMA ConfigureStep ==
  ASSUME KInv, Configure
  PROVE  KInv'
<1>1. pass = 1
  BY PassNumbers DEF KInv, NothingAskedYet, Configure, PassIs
<1>2. pass' \in 1 .. 12 /\ pass' # 1
  <2>1. CASE pass' = pass + 1
    BY <1>1, <2>1
  <2>2. CASE pass' = CHOOSE i \in DOMAIN Passes : Passes[i] = "metadata_file"
    BY <2>2, PassNumbers
  <2> QED
    BY <2>1, <2>2 DEF Configure
<1>3. UNCHANGED <<world, asking, at, cache, kept>>
  BY DEF Configure
<1>4. /\ \A v \in Variants : /\ asking[v].item = 1 /\ asking[v].lang = 1
                             /\ at[v] \notin {"yes", "no"} /\ kept[v] = {}
      /\ \A tgt \in TgtTypes : DOMAIN cache[tgt] = {}
  BY <1>1 DEF KInv, NothingAskedYet
<1>5. AskingInRange'
  BY <1>3, WorldStays, KeyStays DEF KInv, AskingInRange
<1>6. NothingAskedYet' /\ AnswersAreTrue'
  BY <1>2, <1>3, <1>4, PassNumbers, WorldStays DEF KInv, NothingAskedYet, AnswersAreTrue
<1>7. CacheIsTrue'
  BY <1>3, <1>4 DEF KInv, CacheIsTrue
<1>8. PassedRefused' /\ KeptWasTaken' /\ GoneWasRefused'
  BY <1>3, <1>4, WorldStays DEF KInv, PassedRefused, KeptWasTaken, GoneWasRefused
<1> QED
  BY <1>3, <1>5, <1>6, <1>7, <1>8 DEF KInv

LEMMA AnsweredStep ==
  ASSUME KInv, NEW v \in Variants, Asks(v), NEW yes \in BOOLEAN, Answered(v, yes),
         yes => Accepts(v[2], Key(v)), ~yes => Refused(v[2], Key(v)),
         UNCHANGED <<world, tcs, failedFor, pass>>, CacheIsTrue'
  PROVE  KInv'
<1> DEFINE item == asking[v].item
           lang == asking[v].lang
           last == Len(Languages(Item(v)[1]))
<1>1. /\ item \in Nat \ {0} /\ lang \in Nat \ {0}
      /\ item \in DOMAIN Checks(v) /\ lang \in DOMAIN Languages(Item(v)[1])
  BY DEF KInv, AskingInRange, Asks
<1>2. DOMAIN Languages(Item(v)[1]) = 1 .. last /\ last \in {1, 2}
  BY <1>1, FirstLanguage DEF KInv, Item
<1>3. Key(v) = Asked(Item(v), lang) /\ Item(v) = Checks(v)[item]
  BY DEF Key, Asked, Item
<1>4. asking' \in [Variants -> [item : Nat \ {0}, lang : Nat \ {0}]]
  BY <1>1 DEF KInv, AskingInRange, Answered
<1>5. /\ \A u \in Variants \ {v} : asking'[u] = asking[u] /\ kept'[u] = kept[u] /\ at'[u] = at[u]
      /\ DOMAIN kept' = Variants /\ DOMAIN at' = DOMAIN at /\ at'[v] = "ready"
      /\ kept'[v] = IF yes THEN kept[v] \cup {Item(v)} ELSE kept[v]
  BY DEF KInv, AskingInRange, AnswersAreTrue, KeptWasTaken, Answered
<1>6. \/ (yes \/ lang = last) /\ asking'[v].item = item + 1 /\ asking'[v].lang = 1
      \/ ~yes /\ lang # last /\ asking'[v].item = item /\ asking'[v].lang = lang + 1
  BY DEF KInv, AskingInRange, Answered
<1>7. AskingInRange'
  <2>1. ASSUME NEW u \in Variants, asking'[u].item \in DOMAIN Checks(u)
        PROVE  asking'[u].lang \in DOMAIN Languages(Checks(u)[asking'[u].item][1])
    <3>1. CASE u # v
      BY <2>1, <3>1, <1>5 DEF KInv, AskingInRange, Item
    <3>2. CASE u = v /\ asking'[v].lang = 1
      BY <2>1, <3>2, FirstLanguage DEF KInv
    <3>3. CASE u = v /\ ~yes /\ lang # last /\ asking'[v].item = item /\ asking'[v].lang = lang + 1
      BY <3>3, <1>1, <1>2, <1>3
    <3> QED
      BY <3>1, <3>2, <3>3, <1>6
  <2> QED
    BY <2>1, <1>4, WorldStays DEF AskingInRange, Item
<1>8. NothingAskedYet'
  <2>1. pass # 1
    BY PassNumbers DEF Asks, PassIs
  <2> QED
    BY <2>1 DEF KInv, NothingAskedYet
<1>9. AnswersAreTrue'
  BY <1>5, WorldStays, KeyStays, RefusedStays DEF KInv, AnswersAreTrue
<1>10. PassedRefused'
  <2>1. ASSUME NEW u \in Variants, asking'[u].item \in DOMAIN Checks(u), NEW l \in 1 .. asking'[u].lang - 1
        PROVE  Refused(u[2], Asked(Checks(u)[asking'[u].item], l))
    <3>1. CASE u # v
      BY <2>1, <3>1, <1>5 DEF KInv, PassedRefused, Item
    <3>2. CASE u = v /\ asking'[v].lang = 1
      BY <3>2
    <3>3. CASE u = v /\ ~yes /\ asking'[v].item = item /\ asking'[v].lang = lang + 1
      <4>1. l = lang \/ l \in 1 .. lang - 1
        BY <3>3, <1>1
      <4> QED
        BY <3>3, <4>1, <1>1, <1>3 DEF KInv, PassedRefused
    <3> QED
      BY <3>1, <3>2, <3>3, <1>6
  <2> QED
    BY <2>1, WorldStays, RefusedStays DEF PassedRefused, Item, Asked
<1>11. KeptWasTaken'
  <2>1. ASSUME NEW u \in Variants, NEW check \in kept'[u]
        PROVE  \E l \in DOMAIN Languages(check[1]) : Accepts(u[2], Asked(check, l))
    <3>1. CASE check \in kept[u]
      BY <3>1 DEF KInv, KeptWasTaken
    <3>2. CASE u = v /\ yes /\ check = Item(v)
      BY <3>2, <1>1, <1>3
    <3> QED
      BY <3>1, <3>2, <1>5
  <2> QED
    BY <2>1, <1>5, WorldStays, RefusedStays DEF KeptWasTaken, Asked
<1>12. GoneWasRefused'
  <2>1. ASSUME NEW u \in Variants, NEW n \in 1 .. asking'[u].item - 1
        PROVE  \/ Checks(u)[n] \in kept'[u]
               \/ \A l \in DOMAIN Languages(Checks(u)[n][1]) : Refused(u[2], Asked(Checks(u)[n], l))
    <3>1. CASE n \in 1 .. asking[u].item - 1
      BY <3>1, <1>5 DEF KInv, GoneWasRefused
    <3>2. CASE u = v /\ n = item /\ yes
      BY <3>2, <1>3, <1>5
    <3>3. CASE u = v /\ n = item /\ ~yes /\ lang = last
      <4>1. ASSUME NEW l \in 1 .. last PROVE Refused(v[2], Asked(Item(v), l))
        <5>1. l = lang \/ l \in 1 .. lang - 1
          BY <3>3, <1>2
        <5> QED
          BY <3>3, <5>1, <1>1, <1>3 DEF KInv, PassedRefused
      <4> QED
        BY <3>3, <4>1, <1>2, <1>3
    <3>4. \/ n \in 1 .. asking[u].item - 1
          \/ u = v /\ n = item /\ (yes \/ lang = last)
      BY <1>1, <1>5, <1>6
    <3> QED
      BY <3>1, <3>2, <3>3, <3>4
  <2> QED
    BY <2>1, WorldStays, RefusedStays DEF GoneWasRefused, Asked
<1> QED
  BY <1>7, <1>8, <1>9, <1>10, <1>11, <1>12 DEF KInv

\* The write that races with another visit's: both put what the compiler said.
LEMMA StoreAnswerStep ==
  ASSUME KInv, NEW v \in Variants, StoreAnswer(v)
  PROVE  KInv'
<1>1. /\ cache' = [cache EXCEPT ![v[2]] = Put(@, Key(v), at[v])]
      /\ at[v] \in {"yes", "no"}
      /\ Asks(v) /\ Answered(v, at[v] = "yes")
      /\ UNCHANGED <<world, tcs, failedFor, pass>>
  BY DEF StoreAnswer
<1>2. /\ at[v] = "yes" => Accepts(v[2], Key(v))
      /\ at[v] = "no" => Refused(v[2], Key(v))
  BY DEF KInv, AnswersAreTrue, Accepts, Refused
<1>3. CacheIsTrue'
  <2>1. DOMAIN cache = TgtTypes /\ v[2] \in TgtTypes
    BY VariantTypes DEF KInv, CacheIsTrue
  <2>2. ASSUME NEW tgt \in TgtTypes, NEW key \in DOMAIN cache'[tgt]
        PROVE  \/ cache'[tgt][key] = "yes" /\ Accepts(tgt, key)
               \/ cache'[tgt][key] = "no" /\ Refused(tgt, key)
    <3>1. CASE tgt = v[2] /\ key = Key(v)
      BY <3>1, <2>1, <1>1, <1>2 DEF Put
    <3>2. CASE ~(tgt = v[2] /\ key = Key(v))
      <4>1. key \in DOMAIN cache[tgt] /\ cache'[tgt][key] = cache[tgt][key]
        BY <3>2, <2>1, <2>2, <1>1 DEF Put
      <4> QED
        BY <4>1 DEF KInv, CacheIsTrue
    <3> QED
      BY <3>1, <3>2
  <2> QED
    BY <2>1, <2>2, <1>1, RefusedStays DEF CacheIsTrue
<1> QED
  BY <1>1, <1>2, <1>3, AnsweredStep

LEMMA LookUpFlagStep ==
  ASSUME KInv, NEW v \in Variants, LookUpFlag(v)
  PROVE  KInv'
<1>1. /\ Asks(v) /\ pass' = pass
      /\ UNCHANGED <<world, tcs, cache, failedFor>>
  BY DEF LookUpFlag
<1>2. CASE Key(v) \in DOMAIN cache[v[2]]
  <2>1. Answered(v, cache[v[2]][Key(v)] = "yes")
    BY <1>2 DEF LookUpFlag
  <2>2. \/ cache[v[2]][Key(v)] = "yes" /\ Accepts(v[2], Key(v))
        \/ cache[v[2]][Key(v)] = "no" /\ Refused(v[2], Key(v))
    BY <1>2, VariantTypes DEF KInv, CacheIsTrue
  <2>3. CacheIsTrue'
    BY <1>1, RefusedStays DEF KInv, CacheIsTrue
  <2> QED
    BY <1>1, <2>1, <2>2, <2>3, AnsweredStep
<1>3. CASE Key(v) \notin DOMAIN cache[v[2]]
  <2>1. at' = [at EXCEPT ![v] = "missed"] /\ UNCHANGED <<asking, kept>>
    BY <1>3 DEF LookUpFlag
  <2> QED
    BY <1>1, <2>1, QuietStep DEF KInv, NothingAskedYet
<1> QED
  BY <1>2, <1>3

LEMMA RunCompilerStep ==
  ASSUME KInv, NEW v \in Variants, RunCompiler(v)
  PROVE  KInv'
<1>1. /\ UNCHANGED <<world, tcs, pass, asking, cache, kept>>
      /\ failedFor \subseteq failedFor'
      /\ pass # 1
  BY PassNumbers DEF RunCompiler, Asks, PassIs
<1>2. /\ \A u \in Variants \ {v} : at'[u] = at[u]
      /\ DOMAIN at' = DOMAIN at
      /\ \/ at'[v] = "yes" /\ Accepts(v[2], Key(v))
         \/ at'[v] = "no" /\ ~Accepts(v[2], Key(v))
         \/ at'[v] = "no" /\ <<v[2], Key(v)>> \in failedFor'
  BY DEF RunCompiler, KInv, AnswersAreTrue
<1>3. AnswersAreTrue'
  <2>1. ASSUME NEW u \in Variants
        PROVE  /\ at'[u] = "yes" => Accepts(u[2], Key(u))'
               /\ at'[u] = "no" => Refused(u[2], Key(u))'
    <3>1. Key(u)' = Key(u) /\ Accepts(u[2], Key(u))' = Accepts(u[2], Key(u))
      BY <1>1, KeyStays, RefusedStays
    <3>2. CASE u = v
      BY <3>1, <3>2, <1>2 DEF Refused
    <3>3. CASE u # v
      BY <3>1, <3>3, <1>1, <1>2, RefusedStays DEF KInv, AnswersAreTrue
    <3> QED
      BY <3>2, <3>3
  <2> QED
    BY <2>1, <1>1, <1>2, WorldStays DEF KInv, AnswersAreTrue
<1>4. NothingAskedYet'
  BY <1>1 DEF KInv, NothingAskedYet
<1> QED
  BY <1>1, <1>3, <1>4, NothingAsked

LEMMA NextKept == KInv /\ [Next]_vars => KInv'
<1> SUFFICES ASSUME KInv, [Next]_vars PROVE KInv'
  OBVIOUS
<1>0. pass \in 1 .. 12
  BY PassNumbers DEF KInv, NothingAskedYet
<1>1. ASSUME NEW m \in Names, LookUpType(m) \/ BuildType(m) PROVE KInv'
  <2>1. /\ UNCHANGED <<world, tcs, pass, asking, cache, kept, failedFor>>
        /\ \/ UNCHANGED at
           \/ at' = [at EXCEPT ![m] = "missed"]
           \/ at' = [at EXCEPT ![m] = "ready"]
    BY <1>1 DEF LookUpType, BuildType
  <2>2. DOMAIN at = Names \cup Variants
    BY DEF KInv, AnswersAreTrue
  <2>3. \A v \in Variants : at'[v] \in {"yes", "no"} => at'[v] = at[v]
    BY <2>1, <2>2
  <2> QED
    BY <2>1, <2>2, <2>3, <1>0, PassNumbers, QuietStep
<1>2. ASSUME NEW v \in Variants,
             \/ RaiseWarning(v) \/ OnlyWarns(v) \/ DependOnToolchain(v) \/ Collect(v)
             \/ EndLateTemplates(v)
      PROVE  KInv'
  BY <1>2, <1>0, PassNumbers, QuietStep
     DEF RaiseWarning, OnlyWarns, DependOnToolchain, Collect, EndLateTemplates
<1>3. ASSUME NEW m \in Names, Register(m) PROVE KInv'
  BY <1>3, <1>0, PassNumbers, QuietStep DEF Register
<1>4. CASE NextPass \/ MetaDataWriteToFile \/ TearDownLogger
  <2>1. /\ UNCHANGED <<world, tcs, at, asking, cache, kept, failedFor>>
        /\ pass' = pass \/ pass' = pass + 1
        /\ pass' = pass + 1 => pass # 12
    BY <1>4, <1>0, PassNumbers DEF NextPass, MetaDataWriteToFile, TearDownLogger, PassIs
  <2> QED
    BY <2>1, <1>0, PassNumbers, QuietStep
<1>5. CASE UNCHANGED vars
  BY <1>5, <1>0, PassNumbers, QuietStep DEF vars
<1> QED
  BY <1>1, <1>2, <1>3, <1>4, <1>5, ConfigureStep, LookUpFlagStep, RunCompilerStep, StoreAnswerStep
     DEF Next

(* Whichever visits ask a compiler together and overwrite one another's      *)
(* answers, a flag stays in a variant when a compiler of its own toolchain   *)
(* takes it, and goes when none does or the one that would did not start.    *)
THEOREM KeptFlags == Spec => []KeptIsSupported
<1>1. KInv => KeptIsSupported
  <2> SUFFICES ASSUME KInv, NEW v \in Variants, NEW n \in 1 .. asking[v].item - 1
               PROVE  LET check == Checks(v)[n]
                          keys  == {<<check[2], lang>> : lang \in ToSet(Languages(check[1]))}
                          taken == {key \in keys :
                                      <<tcs[v[2]].kind, key[2], key[1]>> \in conf.machine.accepts}
                      IN  /\ check \in kept[v] => taken # {}
                          /\ (\E key \in taken : <<v[2], key>> \notin failedFor) => check \in kept[v]
    BY DEF KeptIsSupported
  <2> DEFINE check == Checks(v)[n]
             keys  == {Asked(check, l) : l \in DOMAIN Languages(check[1])}
             taken == {key \in keys : Accepts(v[2], key)}
  <2>1. {<<check[2], lang>> : lang \in ToSet(Languages(check[1]))} = keys
    BY DEF ToSet, Asked
  <2>2. check \in kept[v] => taken # {}
    BY DEF KInv, KeptWasTaken
  <2>3. (\E key \in taken : <<v[2], key>> \notin failedFor) => check \in kept[v]
    BY DEF KInv, GoneWasRefused, Refused
  <2> QED
    BY <2>1, <2>2, <2>3 DEF Accepts
<1> QED
  BY <1>1, InitKept, NextKept, PTL DEF Spec

(***************************************************************************)
(* Types.                                                                  *)
(***************************************************************************)
TInv == KInv /\ TypeOK /\ IsFiniteSet(failedFor)

LEMMA InitTyped == Init => TInv
<1> SUFFICES ASSUME Init PROVE TInv
  OBVIOUS
<1>1. KInv
  BY InitKept
<1>2. IsFiniteSet(failedFor) /\ Cardinality(failedFor) = 0
  BY FS_EmptySet DEF Init
<1>3. /\ world \in Worlds /\ DOMAIN tcs \in {{}, TgtTypes} /\ pass \in DOMAIN Passes
      /\ done \subseteq Names \cup Variants
      /\ at \in [Names \cup Variants -> {"ready", "missed", "yes", "no"}]
      /\ builds \in Nat /\ DOMAIN typeOf \subseteq Names /\ errors \in Nat
      /\ written \subseteq {"build.ninja", "metadata"} /\ code \in {None, 0, 1, 2}
  BY PassNumbers DEF Init
<1>4. \A tgt \in TgtTypes : \A key \in DOMAIN cache[tgt] : cache[tgt][key] \in {"yes", "no"}
  BY DEF Init
<1>5. ASSUME NEW v \in Variants
      PROVE  /\ asking[v].item \in 1 .. Len(Checks(v)) + 1
             /\ asking[v].item \in DOMAIN Checks(v) =>
                   asking[v].lang \in DOMAIN Languages(Item(v)[1])
             /\ kept[v] \subseteq ToSet(Checks(v))
  <2>1. Len(Checks(v)) \in Nat
    BY <1>3, VariantTypes
  <2>2. asking[v].item = 1 /\ kept[v] = {}
    BY DEF Init
  <2> QED
    BY <1>1, <2>1, <2>2 DEF KInv, AskingInRange
<1>6. Cardinality(failedFor) <= MaxStartFailures
  BY <1>2, StartFailuresAssumption
<1> QED
  BY <1>1, <1>2, <1>3, <1>4, <1>5, <1>6 DEF TInv, TypeOK

\* What a visit may have asked and kept, in a step that does neither.
LEMMA AskedStays ==
  ASSUME TInv, UNCHANGED <<world, asking, kept, cache, failedFor>>, KInv',
         DOMAIN tcs' \in {{}, TgtTypes}, pass' \in DOMAIN Passes,
         done' \subseteq Names \cup Variants,
         at' \in [Names \cup Variants -> {"ready", "missed", "yes", "no"}],
         builds' \in Nat, DOMAIN typeOf' \subseteq Names, errors' \in Nat,
         written' \subseteq {"build.ninja", "metadata"}, code' \in {None, 0, 1, 2}
  PROVE  TInv'
<1>1. \A v \in Variants : /\ asking'[v].item \in 1 .. Len(Checks(v)') + 1
                          /\ asking'[v].item \in DOMAIN Checks(v)' =>
                                asking'[v].lang \in DOMAIN Languages(Item(v)'[1])
                          /\ kept'[v] \subseteq ToSet(Checks(v)')
  BY WorldStays, KeyStays DEF TInv, TypeOK
<1>2. Cardinality(failedFor') <= MaxStartFailures /\ IsFiniteSet(failedFor')
  BY DEF TInv, TypeOK
<1>3. \A tgt \in TgtTypes : \A key \in DOMAIN cache'[tgt] : cache'[tgt][key] \in {"yes", "no"}
  BY DEF TInv, TypeOK
<1>4. world' \in Worlds
  BY DEF TInv, TypeOK
<1> QED
  BY <1>1, <1>2, <1>3, <1>4, WorldStays DEF TInv, TypeOK

LEMMA AnsweredTyped ==
  ASSUME TInv, NEW v \in Variants, Asks(v), NEW yes \in BOOLEAN, Answered(v, yes), KInv',
         UNCHANGED <<world, tcs, pass, done, builds, typeOf, errors, failedFor, written, code>>
  PROVE  TInv'
<1>1. asking[v].item \in DOMAIN Checks(v) /\ Item(v) = Checks(v)[asking[v].item]
  BY DEF Asks, Item
<1>2. Checks(v) \in Seq(Property \X STRING)
  BY VariantTypes DEF TInv, TypeOK
<1>3. /\ asking'[v].item \in {asking[v].item, asking[v].item + 1}
      /\ \A u \in Variants \ {v} : asking'[u] = asking[u] /\ kept'[u] = kept[u]
      /\ kept'[v] \subseteq kept[v] \cup {Item(v)}
  BY DEF TInv, KInv, AskingInRange, KeptWasTaken, Answered
<1>4. asking'[v].item \in 1 .. Len(Checks(v)) + 1 /\ kept'[v] \subseteq ToSet(Checks(v))
  <2>1. asking[v].item \in 1 .. Len(Checks(v))
    BY <1>1, <1>2
  <2>2. Len(Checks(v)) \in Nat
    BY <1>2
  <2>3. kept[v] \subseteq ToSet(Checks(v)) /\ Item(v) \in ToSet(Checks(v))
    BY <1>1 DEF ToSet, TInv, TypeOK
  <2> QED
    BY <1>3, <2>1, <2>2, <2>3
<1>5. \A u \in Variants : /\ asking'[u].item \in 1 .. Len(Checks(u)) + 1
                          /\ kept'[u] \subseteq ToSet(Checks(u))
  BY <1>3, <1>4 DEF TInv, TypeOK
<1>6. at' \in [Names \cup Variants -> {"ready", "missed", "yes", "no"}]
  BY DEF Answered, TInv, TypeOK
<1>7. world' = world
  OBVIOUS
<1>8. \A tgt \in TgtTypes : \A key \in DOMAIN cache'[tgt] : cache'[tgt][key] \in {"yes", "no"}
  BY DEF KInv, CacheIsTrue
<1>9. \A u \in Variants' : asking'[u].item \in DOMAIN Checks(u)' =>
                               asking'[u].lang \in DOMAIN Languages(Item(u)'[1])
  BY DEF KInv, AskingInRange
<1>10. /\ world' \in Worlds /\ DOMAIN tcs' \in {{}, TgtTypes} /\ pass' \in DOMAIN Passes
       /\ done' \subseteq Names \cup Variants /\ builds' \in Nat /\ DOMAIN typeOf' \subseteq Names
       /\ errors' \in Nat /\ Cardinality(failedFor') <= MaxStartFailures /\ IsFiniteSet(failedFor')
       /\ written' \subseteq {"build.ninja", "metadata"} /\ code' \in {None, 0, 1, 2}
  BY DEF TInv, TypeOK
<1> QED
  BY <1>5, <1>6, <1>7, <1>8, <1>9, <1>10, WorldStays DEF TInv, TypeOK

LEMMA RunCompilerTyped ==
  ASSUME TInv, NEW v \in Variants, RunCompiler(v), KInv'
  PROVE  TInv'
<1>1. UNCHANGED <<world, asking, kept, cache, tcs, pass, done, builds, typeOf, errors, written, code>>
  BY DEF RunCompiler
<1>2. at' \in [Names \cup Variants -> {"ready", "missed", "yes", "no"}]
  BY DEF RunCompiler, TInv, TypeOK
<1>3. IsFiniteSet(failedFor') /\ Cardinality(failedFor') <= MaxStartFailures
  <2>1. CASE failedFor' = failedFor
    BY <2>1 DEF TInv, TypeOK
  <2>2. CASE /\ Cardinality(failedFor) < MaxStartFailures
             /\ failedFor' = failedFor \cup {<<v[2], Key(v)>>}
    <3>1. /\ IsFiniteSet(failedFor')
          /\ Cardinality(failedFor') \in {Cardinality(failedFor), Cardinality(failedFor) + 1}
      BY <2>2, FS_AddElement DEF TInv
    <3>2. Cardinality(failedFor) \in Nat
      BY FS_CardinalityType DEF TInv
    <3> QED
      BY <2>2, <3>1, <3>2, StartFailuresAssumption
  <2> QED
    BY <2>1, <2>2 DEF RunCompiler
<1>4. \A u \in Variants : /\ asking'[u].item \in 1 .. Len(Checks(u)') + 1
                          /\ asking'[u].item \in DOMAIN Checks(u)' =>
                                asking'[u].lang \in DOMAIN Languages(Item(u)'[1])
                          /\ kept'[u] \subseteq ToSet(Checks(u)')
  BY <1>1, WorldStays, KeyStays DEF TInv, TypeOK
<1>5. \A tgt \in TgtTypes : \A key \in DOMAIN cache'[tgt] : cache'[tgt][key] \in {"yes", "no"}
  BY <1>1 DEF TInv, TypeOK
<1>6. /\ world' \in Worlds /\ DOMAIN tcs' \in {{}, TgtTypes} /\ pass' \in DOMAIN Passes
      /\ done' \subseteq Names \cup Variants /\ builds' \in Nat /\ DOMAIN typeOf' \subseteq Names
      /\ errors' \in Nat /\ written' \subseteq {"build.ninja", "metadata"} /\ code' \in {None, 0, 1, 2}
  BY <1>1 DEF TInv, TypeOK
<1> QED
  BY <1>1, <1>2, <1>3, <1>4, <1>5, <1>6, WorldStays DEF TInv, TypeOK

LEMMA ParseTyped ==
  ASSUME TInv, NEW m \in Names, LookUpType(m) \/ BuildType(m), KInv'
  PROVE  TInv'
<1>1. /\ UNCHANGED <<world, asking, kept, cache, failedFor, tcs, pass, errors, written>>
      /\ done' \in {done, done \cup {m}}
      /\ builds' \in {builds, builds + 1}
      /\ code' \in {code, 1}
  BY DEF LookUpType, BuildType
<1>2. DOMAIN typeOf' \subseteq DOMAIN typeOf \cup {m}
  BY DEF LookUpType, BuildType, Put
<1>3. at' \in [Names \cup Variants -> {"ready", "missed", "yes", "no"}]
  BY DEF LookUpType, BuildType, TInv, TypeOK
<1>4. /\ DOMAIN tcs' \in {{}, TgtTypes} /\ pass' \in DOMAIN Passes
      /\ done' \subseteq Names \cup Variants /\ builds' \in Nat /\ DOMAIN typeOf' \subseteq Names
      /\ errors' \in Nat /\ written' \subseteq {"build.ninja", "metadata"} /\ code' \in {None, 0, 1, 2}
  BY <1>1, <1>2 DEF TInv, TypeOK
<1> QED
  BY <1>1, <1>3, <1>4, AskedStays

LEMMA NextTyped == TInv /\ [Next]_vars => TInv'
<1> SUFFICES ASSUME TInv, [Next]_vars PROVE TInv'
  OBVIOUS
<1>0. /\ DOMAIN tcs \in {{}, TgtTypes} /\ pass \in 1 .. 12
      /\ done \subseteq Names \cup Variants
      /\ at \in [Names \cup Variants -> {"ready", "missed", "yes", "no"}]
      /\ builds \in Nat /\ DOMAIN typeOf \subseteq Names /\ errors \in Nat
      /\ written \subseteq {"build.ninja", "metadata"} /\ code \in {None, 0, 1, 2}
  BY PassNumbers DEF TInv, TypeOK
<1>k. KInv'
  BY NextKept DEF TInv
<1>1. ASSUME NEW v \in Variants,
             \/ RaiseWarning(v) \/ OnlyWarns(v) \/ DependOnToolchain(v) \/ Collect(v)
             \/ EndLateTemplates(v)
      PROVE  TInv'
  <2>1. /\ UNCHANGED <<world, asking, kept, cache, failedFor, tcs, pass, at, builds, typeOf, written, code>>
        /\ done' \in {done, done \cup {v}}
        /\ errors' \in {errors, errors + 1}
    BY <1>1 DEF RaiseWarning, Warn, OnlyWarns, DependOnToolchain, Collect, EndLateTemplates, Ends
  <2> QED
    BY <1>0, <1>k, <2>1, AskedStays, PassNumbers
<1>2. ASSUME NEW m \in Names, Register(m) PROVE TInv'
  BY <1>0, <1>k, <1>2, AskedStays, PassNumbers DEF Register
<1>3. CASE Configure
  <2>1. pass' \in 1 .. 12
    BY <1>k, PassNumbers DEF KInv, NothingAskedYet
  <2>2. DOMAIN tcs' \in {{}, TgtTypes}
    BY <1>0, <1>3 DEF Configure
  <2> QED
    BY <1>0, <1>k, <1>3, <2>1, <2>2, AskedStays, PassNumbers DEF Configure
<1>4. CASE NextPass \/ MetaDataWriteToFile \/ TearDownLogger
  <2>1. /\ UNCHANGED <<world, asking, kept, cache, failedFor, tcs, at, builds, typeOf, errors>>
        /\ done' \in {done, {}}
        /\ written' \subseteq written \cup {"build.ninja", "metadata"}
        /\ code' \in {code, 0, 1, 2}
    BY <1>4 DEF NextPass, MetaDataWriteToFile, TearDownLogger
  <2>2. pass' \in DOMAIN Passes
    BY <1>k DEF KInv, NothingAskedYet
  <2>3. done' \subseteq Names \cup Variants /\ written' \subseteq {"build.ninja", "metadata"}
        /\ code' \in {None, 0, 1, 2}
    BY <1>0, <2>1
  <2> QED
    BY <1>0, <1>k, <2>1, <2>2, <2>3, AskedStays
<1>5. ASSUME NEW v \in Variants, LookUpFlag(v) PROVE TInv'
  <2>1. CASE Key(v) \in DOMAIN cache[v[2]]
    BY <1>k, <1>5, <2>1, AnsweredTyped DEF LookUpFlag
  <2>2. CASE Key(v) \notin DOMAIN cache[v[2]]
    <3>1. at' \in [Names \cup Variants -> {"ready", "missed", "yes", "no"}]
      BY <1>0, <1>5, <2>2 DEF LookUpFlag
    <3> QED
      BY <1>0, <1>k, <1>5, <2>2, <3>1, AskedStays, PassNumbers DEF LookUpFlag
  <2> QED
    BY <2>1, <2>2
<1>6. ASSUME NEW v \in Variants, StoreAnswer(v) PROVE TInv'
  BY <1>k, <1>6, AnsweredTyped DEF StoreAnswer
<1>7. CASE UNCHANGED vars
  BY <1>0, <1>k, <1>7, AskedStays, PassNumbers DEF vars
<1> QED
  BY <1>k, <1>1, <1>2, <1>3, <1>4, <1>5, <1>6, <1>7, RunCompilerTyped, ParseTyped DEF Next

THEOREM Typed == Spec => []TypeOK
<1>1. TInv => TypeOK
  BY DEF TInv
<1> QED
  BY <1>1, InitTyped, NextTyped, PTL DEF Spec

(***************************************************************************)
(* Command lines.  Each constructor of a toolchain gives the compilers and  *)
(* the linker the same machine; and the one linker that keeps the needed    *)
(* libraries of a forwarding library ends with the flag that selects bfd.   *)
(***************************************************************************)
Machine == {"-target", "--sysroot", "gnu_flags", "--rtlib", "--gcc-toolchain"}
Fuses   == {"-fuse-ld=bfd", "-fuse-ld=lld", "-fuse-ld=gold"}
Keeps   == "--copy-dt-needed-entries"

\* The flags there are, and sequences of them.
Flag ==
  {"cflags", "cxxflags", "ldflags", "gnu_flags", "armclang_flags", "--sysroot", "-target",
   "--stdlib", "--rtlib", "--gcc-toolchain", "-DANDROID", "-isystem bionic", "-isystem c++",
   "-target x86_64", "--sysroot=glibc", "--gcc-toolchain=glibc", "-B crt1.o", "-B bin",
   "-L libgcc", "-latomic", "lib", "--copy-dt-needed-entries", "--no-copy-dt-needed-entries",
   "-fuse-ld=bfd", "-fuse-ld=lld", "-fuse-ld=gold"}
Strings == Seq(Flag)

LEMMA JoinedFlags ==
  ASSUME NEW s \in Strings, NEW t \in Strings
  PROVE  s \o t \in Strings /\ ToSet(s \o t) = ToSet(s) \cup ToSet(t)
<1>1. /\ s \o t \in Seq(Flag) /\ Len(s \o t) = Len(s) + Len(t)
      /\ \A i \in 1 .. Len(s) + Len(t) : (s \o t)[i] = IF i <= Len(s) THEN s[i] ELSE t[i - Len(s)]
  BY ConcatProperties DEF Strings
<1>2. /\ DOMAIN s = 1 .. Len(s) /\ DOMAIN t = 1 .. Len(t) /\ DOMAIN (s \o t) = 1 .. Len(s) + Len(t)
      /\ Len(s) \in Nat /\ Len(t) \in Nat
  BY <1>1, LenProperties DEF Strings
<1>3. ASSUME NEW x \in ToSet(s) \cup ToSet(t) PROVE x \in ToSet(s \o t)
  <2>1. CASE x \in ToSet(s)
    <3>1. PICK i \in 1 .. Len(s) : x = s[i]
      BY <1>2, <2>1 DEF ToSet
    <3>2. i \in DOMAIN (s \o t) /\ (s \o t)[i] = x
      BY <1>1, <1>2, <3>1
    <3> QED
      BY <3>2 DEF ToSet
  <2>2. CASE x \in ToSet(t)
    <3>1. PICK i \in 1 .. Len(t) : x = t[i]
      BY <1>2, <2>2 DEF ToSet
    <3>2. i + Len(s) \in DOMAIN (s \o t) /\ (s \o t)[i + Len(s)] = x
      BY <1>1, <1>2, <3>1
    <3> QED
      BY <3>2 DEF ToSet
  <2> QED
    BY <1>3, <2>1, <2>2
<1>4. ASSUME NEW x \in ToSet(s \o t) PROVE x \in ToSet(s) \cup ToSet(t)
  <2>1. PICK i \in 1 .. Len(s) + Len(t) : x = (s \o t)[i]
    BY <1>2, <1>4 DEF ToSet
  <2>2. CASE i <= Len(s)
    <3>1. i \in DOMAIN s /\ x = s[i]
      BY <1>1, <1>2, <2>1, <2>2
    <3> QED
      BY <3>1 DEF ToSet
  <2>3. CASE ~(i <= Len(s))
    <3>1. i - Len(s) \in DOMAIN t /\ x = t[i - Len(s)]
      BY <1>1, <1>2, <2>1, <2>3
    <3> QED
      BY <3>1 DEF ToSet
  <2> QED
    BY <2>2, <2>3
<1> QED
  BY <1>1, <1>3, <1>4 DEF Strings

LEMMA OneFlag ==
  ASSUME NEW S, NEW a \in S
  PROVE  /\ <<>> \in Seq(S) /\ ToSet(<<>>) = {}
         /\ <<a>> \in Seq(S) /\ ToSet(<<a>>) = {a} /\ Len(<<a>>) = 1 /\ <<a>>[1] = a
<1>1. DOMAIN <<a>> = {1} /\ <<a>>[1] = a
  OBVIOUS
<1>2. ToSet(<<a>>) = {a}
  BY <1>1, Zenon DEF ToSet
<1>3. ToSet(<<>>) = {}
  BY DEF ToSet
<1> QED
  BY <1>2, <1>3

LEMMA FewFlags ==
  /\ <<>> \in Strings /\ ToSet(<<>>) = {}
  /\ \A a \in Flag : <<a>> \in Strings /\ ToSet(<<a>>) = {a}
<1>1. <<>> \in Strings
  BY DEF Strings
<1>2. ToSet(<<>>) = {}
  BY DEF ToSet
<1>3. \A a \in Flag : <<a>> \in Strings /\ ToSet(<<a>>) = {a}
  BY OneFlag DEF Strings
<1> QED
  BY <1>1, <1>2, <1>3

\* What comes after the last of a beginning is of the end.
LEMMA AfterTheLast ==
  ASSUME NEW S, NEW s \in Seq(S), NEW t \in Seq(S), s # <<>>
  PROVE  /\ Len(s) \in DOMAIN (s \o t) /\ (s \o t)[Len(s)] = s[Len(s)]
         /\ \A j \in Len(s) + 1 .. Len(s \o t) : (s \o t)[j] \in ToSet(t)
<1>1. /\ Len(s) \in Nat \ {0} /\ Len(t) \in Nat
      /\ DOMAIN t = 1 .. Len(t)
  BY EmptySeq, LenProperties
<1>2. /\ s \o t \in Seq(S) /\ Len(s \o t) = Len(s) + Len(t)
      /\ \A i \in 1 .. Len(s) + Len(t) : (s \o t)[i] = IF i <= Len(s) THEN s[i] ELSE t[i - Len(s)]
  BY ConcatProperties
<1> DEFINE w == s \o t
<1>3. DOMAIN w = 1 .. Len(s) + Len(t)
  BY <1>2, LenProperties
<1> HIDE DEF w
<1>4. Len(s) \in DOMAIN w /\ w[Len(s)] = s[Len(s)]
  BY <1>1, <1>2, <1>3 DEF w
<1>5. ASSUME NEW j \in Len(s) + 1 .. Len(w) PROVE w[j] \in ToSet(t)
  <2>1. j - Len(s) \in DOMAIN t /\ w[j] = t[j - Len(s)]
    BY <1>1, <1>2 DEF w
  <2> QED
    BY <2>1 DEF ToSet
<1> QED
  BY <1>4, <1>5 DEF w

\* Where the last of some flags is, when the rest has none of them.
LEMMA LastFlag ==
  ASSUME NEW S, NEW s \in Seq(S), NEW m \in Seq(S), NEW f \in S, NEW t \in Seq(S)
  PROVE  \E i \in DOMAIN ((s \o (m \o <<f>>)) \o t) :
             /\ ((s \o (m \o <<f>>)) \o t)[i] = f
             /\ \A j \in i + 1 .. Len((s \o (m \o <<f>>)) \o t) :
                   ((s \o (m \o <<f>>)) \o t)[j] \in ToSet(t)
<1> DEFINE w == (s \o (m \o <<f>>)) \o t
<1> DEFINE start == s \o m
           most  == Append(start, f)
<1>1. <<f>> \in Seq(S) /\ start \in Seq(S)
  BY OneFlag, ConcatProperties
<1>2. start \o <<f>> = s \o (m \o <<f>>)
  BY <1>1, ConcatAssociative
<1> HIDE DEF start
<1>3. most = s \o (m \o <<f>>)
  BY <1>1, <1>2, AppendIsConcat
<1>5. Len(start) \in Nat
  BY <1>1, LenProperties
<1>6. most \in Seq(S) /\ most # <<>> /\ Len(most) = Len(start) + 1
  BY <1>1, AppendProperties
<1>7. most[Len(start) + 1] = f
  BY <1>1, AppendProperties
<1>8. most[Len(most)] = f
  BY <1>5, <1>6, <1>7
<1> HIDE DEF most
<1>4. w = most \o t
  BY <1>3
<1>9. /\ Len(most) \in DOMAIN w /\ w[Len(most)] = f
      /\ \A j \in Len(most) + 1 .. Len(w) : w[j] \in ToSet(t)
  BY <1>4, <1>6, <1>8, AfterTheLast
<1> QED
  BY <1>9

LEMMA WhenFlags ==
  ASSUME NEW condition, NEW s \in Strings
  PROVE  /\ When(condition, s) \in Strings
         /\ ToSet(When(condition, s)) = IF condition THEN ToSet(s) ELSE {}
  BY FewFlags DEF When

\* What is asked of a linker: it keeps needed entries with bfd or not at all.
LinkerFits(l) ==
  /\ l.flags \in Strings /\ l.libs \in Strings
  /\ Keeps \notin ToSet(l.flags) /\ ToSet(l.libs) \subseteq {"-latomic"}
  /\ \/ /\ l.keep = <<Keeps>> /\ l.drop = <<"--no-copy-dt-needed-entries">>
        /\ l.forward = <<"-fuse-ld=bfd">>
     \/ /\ l.keep = <<>> /\ l.drop = <<>>
        /\ l.forward \in {<<>>, <<"-fuse-ld=lld">>}

\* What is asked of a toolchain.
SameMachine(tc) ==
  /\ tc.cflags \in Strings /\ tc.cxxflags \in Strings
  /\ ToSet(tc.cflags) \cap Machine = ToSet(tc.linker.flags) \cap Machine
  /\ ToSet(tc.cxxflags) \cap Machine \subseteq ToSet(tc.cflags)
  /\ "--stdlib" \in ToSet(tc.cflags) \cup ToSet(tc.cxxflags) <=> "--stdlib" \in ToSet(tc.linker.flags)

LEMMA LinkOf ==
  ASSUME NEW tc, LinkerFits(tc.linker)
  PROVE  /\ Link(tc, TRUE) \in Strings
         /\ \A flag \in Machine \cup {"--stdlib"} :
               flag \in ToSet(Link(tc, TRUE)) <=> flag \in ToSet(tc.linker.flags)
         /\ Keeps \in ToSet(Link(tc, TRUE)) =>
               \E i \in DOMAIN Link(tc, TRUE) :
                   /\ Link(tc, TRUE)[i] = "-fuse-ld=bfd"
                   /\ \A j \in i + 1 .. Len(Link(tc, TRUE)) : Link(tc, TRUE)[j] \notin Fuses
<1> DEFINE l == tc.linker
           before == l.keep \o <<"lib">> \o l.drop
<1>0. /\ Keeps \in Flag /\ "lib" \in Flag /\ "--no-copy-dt-needed-entries" \in Flag
      /\ "-fuse-ld=bfd" \in Flag /\ "-fuse-ld=lld" \in Flag
  BY DEF Flag, Keeps
<1>1. /\ l.flags \in Strings /\ l.libs \in Strings
      /\ ToSet(l.keep) \subseteq {Keeps} /\ l.keep \in Strings
      /\ ToSet(l.drop) \subseteq {"--no-copy-dt-needed-entries"} /\ l.drop \in Strings
      /\ ToSet(l.forward) \subseteq Fuses /\ l.forward \in Strings
  BY <1>0, FewFlags DEF LinkerFits, Fuses
<1>2. before \in Strings /\ ToSet(before) = ToSet(l.keep) \cup {"lib"} \cup ToSet(l.drop)
  BY <1>0, <1>1, FewFlags, JoinedFlags
<1> HIDE DEF before
<1>3. before \o l.forward \in Strings /\ ToSet(before \o l.forward) = ToSet(before) \cup ToSet(l.forward)
  BY <1>1, <1>2, JoinedFlags
<1>4. Link(tc, TRUE) = (l.flags \o (before \o l.forward)) \o l.libs
  BY DEF Link, When, before
<1> DEFINE most == l.flags \o (before \o l.forward)
<1>m. most \in Strings /\ ToSet(most) = ToSet(l.flags) \cup ToSet(before \o l.forward)
  BY <1>1, <1>3, JoinedFlags
<1>l. most \o l.libs \in Strings /\ ToSet(most \o l.libs) = ToSet(most) \cup ToSet(l.libs)
  BY <1>1, <1>m, JoinedFlags
<1>5. /\ Link(tc, TRUE) \in Strings
      /\ ToSet(Link(tc, TRUE)) = ToSet(l.flags) \cup ToSet(before) \cup ToSet(l.forward) \cup ToSet(l.libs)
  BY <1>3, <1>4, <1>m, <1>l
<1>6. \A flag \in Machine \cup {"--stdlib"} :
          flag \in ToSet(Link(tc, TRUE)) <=> flag \in ToSet(l.flags)
  <2>1. ToSet(l.libs) \subseteq {"-latomic"}
    BY DEF LinkerFits
  <2> QED
    BY <1>1, <1>2, <1>3, <1>5, <2>1 DEF Machine, Fuses, Keeps
<1>7. ASSUME Keeps \in ToSet(Link(tc, TRUE))
      PROVE  \E i \in DOMAIN Link(tc, TRUE) :
                 /\ Link(tc, TRUE)[i] = "-fuse-ld=bfd"
                 /\ \A j \in i + 1 .. Len(Link(tc, TRUE)) : Link(tc, TRUE)[j] \notin Fuses
  <2>1. Keeps \in ToSet(l.keep)
    <3>1. Keeps \notin ToSet(l.flags) /\ ToSet(l.libs) \subseteq {"-latomic"}
      BY DEF LinkerFits
    <3>2. Keeps \notin {"lib"} \cup {"--no-copy-dt-needed-entries"} \cup Fuses \cup {"-latomic"}
      BY DEF Keeps, Fuses
    <3> QED
      BY <1>1, <1>2, <1>5, <1>7, <3>1, <3>2
  <2>2. l.forward = <<"-fuse-ld=bfd">>
    BY <2>1, FewFlags DEF LinkerFits
  <2>3. \E i \in DOMAIN Link(tc, TRUE) :
            /\ Link(tc, TRUE)[i] = "-fuse-ld=bfd"
            /\ \A j \in i + 1 .. Len(Link(tc, TRUE)) : Link(tc, TRUE)[j] \in ToSet(l.libs)
    <3> DEFINE flags == l.flags
               libs  == l.libs
               bfd   == "-fuse-ld=bfd"
    <3>1. /\ flags \in Seq(Flag) /\ before \in Seq(Flag) /\ libs \in Seq(Flag) /\ bfd \in Flag
          /\ Link(tc, TRUE) = (flags \o (before \o <<bfd>>)) \o libs
      BY <1>0, <1>1, <1>2, <1>4, <2>2 DEF Strings
    <3> HIDE DEF flags, libs, bfd
    <3>2. \E i \in DOMAIN ((flags \o (before \o <<bfd>>)) \o libs) :
             /\ ((flags \o (before \o <<bfd>>)) \o libs)[i] = bfd
             /\ \A j \in i + 1 .. Len((flags \o (before \o <<bfd>>)) \o libs) :
                   ((flags \o (before \o <<bfd>>)) \o libs)[j] \in ToSet(libs)
      BY <3>1, LastFlag, Zenon
    <3> QED
      BY <3>1, <3>2 DEF bfd, libs
  <2>4. ToSet(l.libs) \cap Fuses = {}
    BY DEF LinkerFits, Fuses
  <2> QED
    BY <2>3, <2>4
<1> QED
  BY <1>5, <1>6, <1>7

LEMMA WhenFlag ==
  ASSUME NEW condition, NEW a \in Flag
  PROVE  /\ When(condition, <<a>>) \in Strings
         /\ ToSet(When(condition, <<a>>)) = IF condition THEN {a} ELSE {}
  BY WhenFlags, FewFlags

Fits(tc) == SameMachine(tc) /\ LinkerFits(tc.linker)

LEMMA DefaultLinkerFits ==
  ASSUME NEW flags \in Strings, NEW libs \in Strings, Keeps \notin ToSet(flags),
         ToSet(libs) \subseteq {"-latomic"}
  PROVE  LinkerFits(newDefaultLinker(flags, libs)) /\ newDefaultLinker(flags, libs).flags = flags
  BY DEF LinkerFits, newDefaultLinker, Keeps

LEMMA GnuFits ==
  ASSUME NEW p, NEW w, newToolchainGnuCommon(p, w) # NoToolchain
  PROVE  Fits(newToolchainGnuCommon(p, w))
<1> DEFINE tc      == newToolchainGnuCommon(p, w)
           root    == When("sysroot" \in p.on, <<"--sysroot">>)
           flags   == When("gnu_flags" \in p.on, <<"gnu_flags">>)
           c       == When("cflags" \in p.on, <<"cflags">>)
           cxx     == When("cxxflags" \in p.on, <<"cxxflags">>)
           ld      == When("ldflags" \in p.on, <<"ldflags">>)
<1>1. /\ tc.cflags = c \o (root \o flags)
      /\ tc.cxxflags = cxx
      /\ tc.linker = newDefaultLinker(ld \o (root \o flags), <<>>)
  BY DEF newToolchainGnuCommon
<1>2. /\ root \in Strings /\ ToSet(root) \subseteq {"--sysroot"}
      /\ flags \in Strings /\ ToSet(flags) \subseteq {"gnu_flags"}
      /\ c \in Strings /\ ToSet(c) \subseteq {"cflags"}
      /\ cxx \in Strings /\ ToSet(cxx) \subseteq {"cxxflags"}
      /\ ld \in Strings /\ ToSet(ld) \subseteq {"ldflags"}
  BY WhenFlag DEF Flag
<1> HIDE DEF tc, root, flags, c, cxx, ld
<1>3. root \o flags \in Strings /\ ToSet(root \o flags) = ToSet(root) \cup ToSet(flags)
  BY <1>2, JoinedFlags
<1>4. /\ c \o (root \o flags) \in Strings /\ ToSet(c \o (root \o flags)) = ToSet(c) \cup ToSet(root) \cup ToSet(flags)
      /\ ld \o (root \o flags) \in Strings /\ ToSet(ld \o (root \o flags)) = ToSet(ld) \cup ToSet(root) \cup ToSet(flags)
  BY <1>2, <1>3, JoinedFlags
<1> DEFINE ldflags == ld \o (root \o flags)
<1>5. ldflags \in Strings /\ Keeps \notin ToSet(ldflags)
  BY <1>2, <1>4 DEF Keeps
<1>6. tc.linker = newDefaultLinker(ldflags, <<>>)
  BY <1>1
<1> HIDE DEF ldflags
<1>7. LinkerFits(tc.linker) /\ tc.linker.flags = ldflags
  BY <1>5, <1>6, FewFlags, DefaultLinkerFits
<1>8. SameMachine(tc)
  BY <1>1, <1>2, <1>4, <1>7 DEF SameMachine, Machine, ldflags
<1> QED
  BY <1>7, <1>8 DEF Fits, tc

LEMMA PlainFits ==
  ASSUME NEW c \in Strings, NEW cxx \in Strings, NEW ld \in Strings, NEW tc,
         tc.cflags = c, tc.cxxflags = cxx, tc.linker = newCustomLinker(ld, <<>>),
         ToSet(c) \subseteq {"cflags", "-target", "armclang_flags"},
         ToSet(cxx) \subseteq ToSet(c) \cup {"cxxflags"},
         ToSet(ld) \subseteq {"ldflags", "-target"},
         "-target" \in ToSet(c) <=> "-target" \in ToSet(ld)
  PROVE  Fits(tc)
<1>1. LinkerFits(tc.linker) /\ tc.linker.flags = ld
  BY FewFlags DEF LinkerFits, newCustomLinker, Keeps
<1>2. SameMachine(tc)
  BY <1>1 DEF SameMachine, Machine
<1> QED
  BY <1>1, <1>2 DEF Fits

LEMMA OthersFit ==
  ASSUME NEW p
  PROVE  Fits(newToolchainArmClangCommon(p)) /\ Fits(newToolchainXcodeCommon(p)) /\ Fits(newToolchainCustom(p))
<1> DEFINE c    == When("cflags" \in p.on, <<"cflags">>)
           cxx  == When("cxxflags" \in p.on, <<"cxxflags">>)
           ld   == When("ldflags" \in p.on, <<"ldflags">>)
           arm  == When("armclang_flags" \in p.on, <<"armclang_flags">>)
           trip == When("triple" \in p.on, <<"-target">>)
<1>1. /\ c \in Strings /\ ToSet(c) \subseteq {"cflags"}
      /\ cxx \in Strings /\ ToSet(cxx) \subseteq {"cxxflags"}
      /\ ld \in Strings /\ ToSet(ld) \subseteq {"ldflags"}
      /\ arm \in Strings /\ ToSet(arm) \subseteq {"armclang_flags"}
      /\ trip \in Strings /\ ToSet(trip) \subseteq {"-target"}
  BY WhenFlag DEF Flag
<1>2. Fits(newToolchainArmClangCommon(p))
  <2> DEFINE tc == newToolchainArmClangCommon(p)
  <2>1. tc.cflags = arm /\ tc.cxxflags = arm /\ tc.linker = newDefaultLinker(<<>>, <<>>)
    BY DEF newToolchainArmClangCommon
  <2> HIDE DEF tc, arm
  <2>2. LinkerFits(tc.linker) /\ tc.linker.flags = <<>>
    BY <2>1, FewFlags, DefaultLinkerFits
  <2>3. SameMachine(tc)
    BY <1>1, <2>1, <2>2, FewFlags DEF SameMachine, Machine
  <2> QED
    BY <2>2, <2>3 DEF Fits, tc
<1>3. Fits(newToolchainXcodeCommon(p))
  <2> DEFINE tc == newToolchainXcodeCommon(p)
  <2>1. tc.cflags = trip /\ tc.cxxflags = trip /\ tc.linker = newCustomLinker(trip, <<>>)
    BY DEF newToolchainXcodeCommon, newXcodeLinker, newCustomLinker
  <2> HIDE DEF tc, trip
  <2>2. Fits(tc)
    BY <1>1, <2>1, PlainFits
  <2> QED
    BY <2>2 DEF tc
<1>4. Fits(newToolchainCustom(p))
  <2> DEFINE tc == newToolchainCustom(p)
  <2>1. tc.cflags = c /\ tc.cxxflags = cxx /\ tc.linker = newCustomLinker(ld, <<>>)
    BY DEF newToolchainCustom
  <2> HIDE DEF tc, c, cxx, ld
  <2>2. Fits(tc)
    BY <1>1, <2>1, PlainFits
  <2> QED
    BY <2>2 DEF tc
<1> QED
  BY <1>2, <1>3, <1>4

LEMMA ManyFlags ==
  ASSUME NEW S, NEW a \in S, NEW b \in S, NEW c \in S, NEW d \in S
  PROVE  /\ <<a, b>> \in [1 .. 2 -> S]
         /\ <<a, b, c>> \in [1 .. 3 -> S]
         /\ <<a, b, c, d>> \in [1 .. 4 -> S]
  OBVIOUS

LEMMA FuseFlag ==
  ASSUME NEW w
  PROVE  selectSupportedFuseLdFlag(w) \in Strings /\ ToSet(selectSupportedFuseLdFlag(w)) \subseteq Fuses
<1> DEFINE known == <<"-fuse-ld=lld", "-fuse-ld=gold", "-fuse-ld=bfd">>
           hits  == {i \in DOMAIN known : known[i] \in w.linkers}
           first == known[CHOOSE i \in hits : \A j \in hits : i <= j]
<1>1. CASE hits = {}
  BY <1>1, FewFlags DEF selectSupportedFuseLdFlag
<1>2. CASE hits # {}
  <2>1. hits \subseteq {1, 2, 3}
    OBVIOUS
  <2>2. \E i \in hits : \A j \in hits : i <= j
    BY <1>2, <2>1
  <2>3. (CHOOSE i \in hits : \A j \in hits : i <= j) \in {1, 2, 3}
    BY <2>1, <2>2
  <2>k. known[1] \in Fuses /\ known[2] \in Fuses /\ known[3] \in Fuses
    BY DEF Fuses
  <2> HIDE DEF known, hits
  <2>4. first \in Fuses /\ first \in Flag
    <3>1. Fuses \subseteq Flag
      BY DEF Fuses, Flag
    <3> QED
      BY <2>3, <2>k, <3>1
  <2>5. selectSupportedFuseLdFlag(w) = <<first>>
    BY <1>2 DEF selectSupportedFuseLdFlag, known, hits
  <2> HIDE DEF first
  <2> QED
    BY <2>4, <2>5, FewFlags
<1> QED
  BY <1>1, <1>2

\* What an Android build out of its tree adds names no machine.
LEMMA OutOfTreeFlags ==
  ASSUME NEW tgt, NEW w
  PROVE  /\ OutOfTreeCflags(tgt, w) \in Strings /\ OutOfTreeLdflags(tgt, w) \in Strings
         /\ (ToSet(OutOfTreeCflags(tgt, w)) \cup ToSet(OutOfTreeLdflags(tgt, w)))
               \cap (Machine \cup {"--stdlib", Keeps}) = {}
<1> DEFINE few == {"-DANDROID", "-isystem bionic", "-target x86_64", "--sysroot=glibc",
                   "--gcc-toolchain=glibc"} \cup Fuses
           Ok(s) == s \in Strings /\ ToSet(s) \subseteq few
           fuse  == selectSupportedFuseLdFlag(w)
           glibc == <<"-DANDROID", "-target x86_64", "--sysroot=glibc", "--gcc-toolchain=glibc">>
           link  == <<"-target x86_64", "--sysroot=glibc", "--gcc-toolchain=glibc">>
<1>1. Ok(fuse)
  BY FuseFlag
<1>2. ASSUME NEW s, NEW n \in Nat, s \in [1 .. n -> few] PROVE Ok(s)
  <2>1. few \subseteq Flag
    BY DEF Flag, Fuses
  <2>2. s \in [1 .. n -> Flag] /\ ToSet(s) \subseteq few
    BY <1>2, <2>1 DEF ToSet
  <2>3. s \in Seq(Flag)
    BY <2>2, SeqDef
  <2> QED
    BY <2>2, <2>3 DEF Strings
<1>3. /\ glibc \in [1 .. 4 -> few]
      /\ link \in [1 .. 3 -> few]
      /\ BionicCflags \in [1 .. 2 -> few]
  <2>1. /\ "-DANDROID" \in few /\ "-target x86_64" \in few /\ "--sysroot=glibc" \in few
        /\ "--gcc-toolchain=glibc" \in few /\ "-isystem bionic" \in few
    OBVIOUS
  <2> HIDE DEF few
  <2> QED
    BY <2>1, ManyFlags, Zenon DEF BionicCflags
<1>4. \A s, t : Ok(s) /\ Ok(t) => Ok(s \o t)
  BY JoinedFlags
<1>5. Ok(<<>>)
  BY FewFlags
<1>6. OutOfTreeCflags(tgt, w) \in {BionicCflags, glibc \o fuse}
  BY DEF OutOfTreeCflags, GlibcCflags
<1>7. OutOfTreeLdflags(tgt, w) \in {<<>>, (OutOfTreeCflags(tgt, w) \o link) \o fuse}
  BY DEF OutOfTreeLdflags, When
<1>8. few \cap (Machine \cup {"--stdlib", Keeps}) = {}
  BY DEF Machine, Keeps, Fuses
<1> HIDE DEF Ok, fuse, glibc, link, few
<1>9. Ok(glibc) /\ Ok(link) /\ Ok(BionicCflags)
  BY <1>2, <1>3
<1>10. Ok(OutOfTreeCflags(tgt, w))
  BY <1>1, <1>4, <1>6, <1>9
<1>11. Ok(OutOfTreeLdflags(tgt, w))
  BY <1>1, <1>4, <1>5, <1>7, <1>9, <1>10
<1> QED
  BY <1>8, <1>10, <1>11 DEF Ok

LEMMA JoinedThree ==
  ASSUME NEW s \in Strings, NEW t \in Strings, NEW u \in Strings
  PROVE  s \o t \o u \in Strings /\ ToSet(s \o t \o u) = ToSet(s) \cup ToSet(t) \cup ToSet(u)
  BY JoinedFlags

LEMMA JoinedFour ==
  ASSUME NEW s \in Strings, NEW t \in Strings, NEW u \in Strings, NEW v \in Strings
  PROVE  /\ s \o t \o u \o v \in Strings
         /\ ToSet(s \o t \o u \o v) = ToSet(s) \cup ToSet(t) \cup ToSet(u) \cup ToSet(v)
  BY JoinedThree, JoinedFlags

LEMMA ClangFits ==
  ASSUME NEW p, NEW tgt, NEW outOfTree, NEW w,
         newToolchainClangCommon(p, tgt, outOfTree, w) # NoToolchain
  PROVE  Fits(newToolchainClangCommon(p, tgt, outOfTree, w))
<1> DEFINE tc       == newToolchainClangCommon(p, tgt, outOfTree, w)
           triple   == "triple" \in p.on \/ (outOfTree /\ tgt = "target")
           binutils == "gnu_binutils" \in p.on
           fromGnu  == p.on \cap {"gnu_crt", "gnu_libgcc", "gnu_stl"} # {}
           shared   == When(triple, <<"-target">>)
           root     == When("sysroot" \in p.on, <<"--sysroot">>)
           stl      == When(p.stl # "", <<"--stdlib">>)
           rt       == When(p.rt # "", <<"--rtlib">>)
           gcc      == When(fromGnu, <<"--gcc-toolchain">>)
           outC     == When(outOfTree, OutOfTreeCflags(tgt, w))
           outL     == When(outOfTree, OutOfTreeLdflags(tgt, w))
           ld       == When("ldflags" \in p.on, <<"ldflags">>)
           fuse     == IF binutils THEN <<"-fuse-ld=bfd">> ELSE <<"-fuse-ld=lld">>
           crt      == When("gnu_crt" \in p.on /\ "crt1.o" \in w.files, <<"-B crt1.o">>)
           bin      == When(binutils, <<"-B bin">>)
           libgcc   == When("gnu_libgcc" \in p.on /\ "libgcc" \in w.files, <<"-L libgcc">>)
           atomic   == When(p.rt = "libgcc" /\ "libatomic.so" \notin w.files, <<"-latomic">>)
           c        == When("cflags" \in p.on, <<"cflags">>)
           cxx      == When("cxxflags" \in p.on, <<"cxxflags">>)
           gstl     == When("gnu_stl" \in p.on, <<"-isystem c++">>)
           runtime  == rt \o gcc
           machine  == outC \o shared \o root \o runtime
           l1       == outL \o shared \o ld
           l2       == l1 \o root \o fuse
           l3       == l2 \o stl \o runtime
           ldflags  == l3 \o crt \o bin \o libgcc
           cx       == cxx \o stl \o gstl
<1>1. /\ tc.cflags = machine \o c
      /\ tc.cxxflags = cx \o machine
      /\ tc.linker = newClangLinker(ldflags, atomic, binutils)
  BY DEF newToolchainClangCommon
<1>2. /\ shared \in Strings /\ ToSet(shared) \subseteq {"-target"}
      /\ root \in Strings /\ ToSet(root) \subseteq {"--sysroot"}
      /\ stl \in Strings /\ ToSet(stl) \subseteq {"--stdlib"}
      /\ rt \in Strings /\ ToSet(rt) \subseteq {"--rtlib"}
      /\ gcc \in Strings /\ ToSet(gcc) \subseteq {"--gcc-toolchain"}
  BY WhenFlag DEF Flag
<1>3. /\ ld \in Strings /\ ToSet(ld) \subseteq {"ldflags"}
      /\ crt \in Strings /\ ToSet(crt) \subseteq {"-B crt1.o"}
      /\ bin \in Strings /\ ToSet(bin) \subseteq {"-B bin"}
      /\ libgcc \in Strings /\ ToSet(libgcc) \subseteq {"-L libgcc"}
      /\ atomic \in Strings /\ ToSet(atomic) \subseteq {"-latomic"}
      /\ c \in Strings /\ ToSet(c) \subseteq {"cflags"}
      /\ cxx \in Strings /\ ToSet(cxx) \subseteq {"cxxflags"}
      /\ gstl \in Strings /\ ToSet(gstl) \subseteq {"-isystem c++"}
  BY WhenFlag DEF Flag
<1>4. fuse \in Strings /\ ToSet(fuse) \subseteq Fuses
  <2>1. "-fuse-ld=bfd" \in Flag /\ "-fuse-ld=lld" \in Flag
    BY DEF Flag
  <2> QED
    BY <2>1, FewFlags DEF Fuses
<1>5. /\ outC \in Strings /\ outL \in Strings
      /\ (ToSet(outC) \cup ToSet(outL)) \cap (Machine \cup {"--stdlib", Keeps}) = {}
  <2>1. /\ outC \in Strings /\ ToSet(outC) \subseteq ToSet(OutOfTreeCflags(tgt, w))
        /\ outL \in Strings /\ ToSet(outL) \subseteq ToSet(OutOfTreeLdflags(tgt, w))
    BY OutOfTreeFlags, WhenFlags
  <2> QED
    BY <2>1, OutOfTreeFlags
<1> HIDE DEF tc, triple, fromGnu, shared, root, stl, rt, gcc, outC, outL, ld, fuse, crt, bin,
         libgcc, atomic, c, cxx, gstl
<1>s. /\ shared \in Strings /\ root \in Strings /\ stl \in Strings /\ rt \in Strings /\ gcc \in Strings
      /\ ld \in Strings /\ crt \in Strings /\ bin \in Strings /\ libgcc \in Strings /\ c \in Strings
      /\ cxx \in Strings /\ gstl \in Strings /\ fuse \in Strings /\ outC \in Strings /\ outL \in Strings
  BY <1>2, <1>3, <1>4, <1>5
<1>6. runtime \in Strings /\ ToSet(runtime) = ToSet(rt) \cup ToSet(gcc)
  BY <1>s, JoinedFlags
<1> HIDE DEF runtime
<1>7. machine \in Strings /\ ToSet(machine) = ToSet(outC) \cup ToSet(shared) \cup ToSet(root) \cup ToSet(runtime)
  BY <1>s, <1>6, JoinedFour
<1> HIDE DEF machine
<1>8. l1 \in Strings /\ ToSet(l1) = ToSet(outL) \cup ToSet(shared) \cup ToSet(ld)
  BY <1>s, JoinedThree
<1> HIDE DEF l1
<1>8a. l2 \in Strings /\ ToSet(l2) = ToSet(l1) \cup ToSet(root) \cup ToSet(fuse)
  BY <1>s, <1>8, JoinedThree
<1> HIDE DEF l2
<1>8b. l3 \in Strings /\ ToSet(l3) = ToSet(l2) \cup ToSet(stl) \cup ToSet(runtime)
  BY <1>s, <1>6, <1>8a, JoinedThree
<1> HIDE DEF l3
<1>9. ldflags \in Strings /\ ToSet(ldflags) = ToSet(l3) \cup ToSet(crt) \cup ToSet(bin) \cup ToSet(libgcc)
  BY <1>s, <1>8b, JoinedFour
<1>9a. cx \in Strings /\ ToSet(cx) = ToSet(cxx) \cup ToSet(stl) \cup ToSet(gstl)
  BY <1>s, JoinedThree
<1> HIDE DEF cx
<1>10. machine \o c \in Strings /\ ToSet(machine \o c) = ToSet(machine) \cup ToSet(c)
  BY <1>s, <1>7, JoinedFlags
<1>11. /\ cx \o machine \in Strings
       /\ ToSet(cx \o machine) = ToSet(cxx) \cup ToSet(stl) \cup ToSet(gstl) \cup ToSet(machine)
  BY <1>7, <1>9a, JoinedFlags
<1> HIDE DEF ldflags, binutils
<1>12. Keeps \notin ToSet(ldflags)
  BY <1>2, <1>3, <1>4, <1>5, <1>6, <1>8, <1>8a, <1>8b, <1>9 DEF Keeps, Fuses
<1>13. LinkerFits(tc.linker) /\ tc.linker.flags = ldflags
  <2>1. CASE binutils
    <3>1. tc.linker = newDefaultLinker(ldflags, atomic)
      BY <1>1, <2>1 DEF newClangLinker
    <3>2. ldflags \in Strings /\ atomic \in Strings /\ ToSet(atomic) \subseteq {"-latomic"}
      BY <1>3, <1>9
    <3>3. /\ LinkerFits(newDefaultLinker(ldflags, atomic))
          /\ newDefaultLinker(ldflags, atomic).flags = ldflags
      BY <1>12, <3>2, DefaultLinkerFits
    <3> QED
      BY <3>1, <3>3
  <2>2. CASE ~binutils
    <3>0. tc.linker = [flags |-> ldflags, libs |-> atomic, keep |-> <<>>, drop |-> <<>>,
                       forward |-> <<"-fuse-ld=lld">>]
      BY <1>1, <2>2, Zenon DEF newClangLinker
    <3>1. /\ tc.linker.flags = ldflags /\ tc.linker.libs = atomic
          /\ tc.linker.keep = <<>> /\ tc.linker.drop = <<>> /\ tc.linker.forward = <<"-fuse-ld=lld">>
      BY <3>0
    <3>2. tc.linker.flags \in Strings /\ tc.linker.libs \in Strings /\ Keeps \notin ToSet(tc.linker.flags)
          /\ ToSet(tc.linker.libs) \subseteq {"-latomic"}
      BY <1>3, <1>9, <1>12, <3>1
    <3>3. tc.linker.forward \in {<<>>, <<"-fuse-ld=lld">>}
      BY <3>1, Zenon
    <3> QED
      BY <3>1, <3>2, <3>3, Zenon DEF LinkerFits
  <2> QED
    BY <2>1, <2>2
<1>14. ToSet(machine \o c) \cap Machine = ToSet(shared) \cup ToSet(root) \cup ToSet(rt) \cup ToSet(gcc)
  BY <1>2, <1>3, <1>5, <1>6, <1>7, <1>10 DEF Machine
<1>15. ToSet(ldflags) \cap Machine = ToSet(shared) \cup ToSet(root) \cup ToSet(rt) \cup ToSet(gcc)
  BY <1>2, <1>3, <1>4, <1>5, <1>6, <1>8, <1>8a, <1>8b, <1>9 DEF Machine, Fuses
<1>16. ToSet(cx \o machine) \cap Machine \subseteq ToSet(machine \o c)
  BY <1>2, <1>3, <1>10, <1>11 DEF Machine
<1>17. "--stdlib" \in ToSet(machine \o c) \cup ToSet(cx \o machine) <=> "--stdlib" \in ToSet(stl)
  BY <1>2, <1>3, <1>5, <1>6, <1>7, <1>10, <1>11
<1>18. "--stdlib" \in ToSet(ldflags) <=> "--stdlib" \in ToSet(stl)
  BY <1>2, <1>3, <1>4, <1>5, <1>6, <1>8, <1>8a, <1>8b, <1>9 DEF Fuses
<1>19. SameMachine(tc)
  BY <1>1, <1>10, <1>11, <1>13, <1>14, <1>15, <1>16, <1>17, <1>18 DEF SameMachine
<1> QED
  BY <1>13, <1>19 DEF Fits, tc

LEMMA ToolchainFits ==
  ASSUME NEW c, NEW tgt, ToolchainOf(c, tgt) # NoToolchain
  PROVE  Fits(ToolchainOf(c, tgt))
<1> DEFINE p == c[tgt]
           out == c.builder = "android_ninja"
           w == c.machine
<1>1. ToolchainOf(c, tgt) \in {newToolchainCustom(p), newToolchainClangCommon(p, tgt, out, w),
          newToolchainGnuCommon(p, w), newToolchainArmClangCommon(p), newToolchainXcodeCommon(p)}
  BY DEF ToolchainOf
<1> HIDE DEF p, out, w
<1> QED
  BY <1>1, ClangFits, GnuFits, OthersFit

\* The toolchains of a run are those of its configuration.
ToolchainsFit == \A tgt \in DOMAIN tcs : Fits(tcs[tgt])

LEMMA InitToolchains == Init => ToolchainsFit
  BY DEF Init, ToolchainsFit

LEMMA NextToolchains == ToolchainsFit /\ [Next]_vars => ToolchainsFit'
<1> SUFFICES ASSUME ToolchainsFit, [Next]_vars PROVE ToolchainsFit'
  OBVIOUS
<1>1. CASE UNCHANGED tcs
  BY <1>1 DEF ToolchainsFit
<1>2. CASE Configure
  <2>1. CASE tcs' = [tgt \in TgtTypes |-> ToolchainOf(conf, tgt)]
             /\ \A tgt \in TgtTypes : ToolchainOf(conf, tgt) # NoToolchain
    BY <2>1, ToolchainFits DEF ToolchainsFit
  <2> QED
    BY <1>1, <1>2, <2>1 DEF Configure
<1> QED
  BY <1>1, <1>2 DEF Next, vars, LookUpType, BuildType, Register, RaiseWarning, OnlyWarns,
     DependOnToolchain, Collect, LookUpFlag, RunCompiler, StoreAnswer, EndLateTemplates, NextPass,
     MetaDataWriteToFile, TearDownLogger

(* Of one target type C and C++ are compiled and all is linked for one      *)
(* machine, with one standard library, and what forwards its libraries is   *)
(* linked by bfd: whatever the options of the configuration.                *)
THEOREM OneMachine == Spec => []CommandsAgree
<1>1. ToolchainsFit => CommandsAgree
  <2> SUFFICES ASSUME NEW tc, Fits(tc)
               PROVE  LET plain   == [cflags |-> <<>>, conlyflags |-> <<>>, cxxflags |-> <<>>]
                          c       == ToSet(CompileC("linux", tc, plain))
                          cxx     == ToSet(CompileCXX("linux", tc, plain))
                          linked  == Link(tc, TRUE)
                      IN  /\ c \cap Machine = ToSet(linked) \cap Machine
                          /\ c \cap Machine = cxx \cap Machine
                          /\ "--stdlib" \in cxx <=> "--stdlib" \in ToSet(linked)
                          /\ "--copy-dt-needed-entries" \in ToSet(linked) =>
                                \E i \in DOMAIN linked :
                                    /\ linked[i] = "-fuse-ld=bfd"
                                    /\ \A j \in i + 1 .. Len(linked) : linked[j] \notin Fuses
    BY DEF ToolchainsFit, CommandsAgree, Machine, Fuses
  <2> DEFINE plain   == [cflags |-> <<>>, conlyflags |-> <<>>, cxxflags |-> <<>>]
             c       == CompileC("linux", tc, plain)
             cxx     == CompileCXX("linux", tc, plain)
             linked  == Link(tc, TRUE)
  <2>1. c = (tc.cflags \o <<>>) \o <<>> /\ cxx = ((tc.cflags \o <<>>) \o tc.cxxflags) \o <<>>
    BY DEF CompileC, CompileCXX, When
  <2>2. tc.cflags \in Strings /\ tc.cxxflags \in Strings
    BY DEF Fits, SameMachine
  <2>3. c = tc.cflags
    BY <2>1, <2>2, ConcatEmptySeq DEF Strings
  <2>4. tc.cflags \o tc.cxxflags \in Strings
    BY <2>2, JoinedFlags
  <2>5. cxx = tc.cflags \o tc.cxxflags
    BY <2>1, <2>2, <2>4, ConcatEmptySeq DEF Strings
  <2>6. ToSet(cxx) = ToSet(tc.cflags) \cup ToSet(tc.cxxflags)
    BY <2>2, <2>5, JoinedFlags
  <2>7. /\ \A flag \in Machine \cup {"--stdlib"} : flag \in ToSet(linked) <=> flag \in ToSet(tc.linker.flags)
        /\ Keeps \in ToSet(linked) =>
               \E i \in DOMAIN linked :
                   /\ linked[i] = "-fuse-ld=bfd"
                   /\ \A j \in i + 1 .. Len(linked) : linked[j] \notin Fuses
    BY LinkOf DEF Fits
  <2> HIDE DEF c, cxx, linked
  <2>8. /\ ToSet(c) \cap Machine = ToSet(linked) \cap Machine
        /\ ToSet(c) \cap Machine = ToSet(cxx) \cap Machine
    BY <2>3, <2>6, <2>7 DEF Fits, SameMachine
  <2>9. "--stdlib" \in ToSet(cxx) <=> "--stdlib" \in ToSet(linked)
    BY <2>6, <2>7 DEF Fits, SameMachine
  <2> QED
    BY <2>7, <2>8, <2>9 DEF c, cxx, linked, Keeps
<1> QED
  BY <1>1, InitToolchains, NextToolchains, PTL DEF Spec

(***************************************************************************)
(* The nearest toolchain module.                                           *)
(***************************************************************************)
\* The toolchain module of the longest prefix of a path that has any.
Nearest(path, x) ==
  \/ \E n \in 0 .. Len(path) :
        /\ SubSeq(path, 1, n) \in DOMAIN mapped /\ x = mapped[SubSeq(path, 1, n)][1]
        /\ \A k \in n + 1 .. Len(path) : SubSeq(path, 1, k) \notin DOMAIN mapped
  \/ /\ x = None
     /\ \A n \in 0 .. Len(path) : SubSeq(path, 1, n) \notin DOMAIN mapped

LEMMA GetIsNearest ==
  ASSUME NEW path, Len(path) \in Nat
  PROVE  Nearest(path, Get(path))
<1> DEFINE l == Len(path)
           P(n) == SubSeq(path, 1, n) \in DOMAIN mapped
           First(n) == mapped[SubSeq(path, 1, n)][1]
           A == {None} \cup {mapped[p][1] : p \in DOMAIN mapped}
           F == [x \in (1 .. l) \X A |-> IF P(x[1]) THEN First(x[1]) ELSE x[2]]
           Up(f) == f = [n \in 0 .. l |-> LET p == SubSeq(path, 1, n) IN
                            IF p \in DOMAIN mapped THEN mapped[p][1]
                            ELSE IF n = 0 THEN None ELSE f[n - 1]]
           up == CHOOSE f : Up(f)
<1>1. Get(path) = up[l]
  BY DEF Get
<1> HIDE DEF l
<1>l. l \in Nat
  BY DEF l
<1>2. \E f : Up(f)
  <2> DEFINE a == IF P(0) THEN First(0) ELSE None
  <2>1. a \in A
    OBVIOUS
  <2>2. F \in [(1 .. l) \X A -> A]
    OBVIOUS
  <2>3. PICK f \in [0 .. l -> A] : f[0] = a /\ \A i \in 1 .. l : f[i] = F[<<i, f[i - 1]>>]
    <3> HIDE DEF a, A, F
    <3>1. Runs(l, A, a, F) # {}
      BY <1>l, <2>1, <2>2, RunExists
    <3> QED
      BY <3>1 DEF Runs
  <2>4. ASSUME NEW n \in 0 .. l
        PROVE  f[n] = IF P(n) THEN First(n) ELSE IF n = 0 THEN None ELSE f[n - 1]
    <3>1. CASE n = 0
      BY <2>3, <3>1
    <3>2. CASE n # 0
      <4>1. n \in 1 .. l /\ n - 1 \in 0 .. l
        BY <1>l, <3>2
      <4>2. f[n - 1] \in A
        BY <2>3, <4>1
      <4>3. F[<<n, f[n - 1]>>] = IF P(n) THEN First(n) ELSE f[n - 1]
        BY <4>1, <4>2
      <4> QED
        BY <2>3, <3>2, <4>1, <4>3
    <3> QED
      BY <3>1, <3>2
  <2>5. Up(f)
    BY <2>3, <2>4
  <2> QED
    BY <2>5
<1>3. Up(up)
  BY <1>2
<1> HIDE DEF up
<1>4. \A n \in 0 .. l : up[n] = IF P(n) THEN First(n) ELSE IF n = 0 THEN None ELSE up[n - 1]
  BY <1>3
<1> DEFINE Found(n) == \/ \E m \in 0 .. n : P(m) /\ up[n] = First(m) /\ \A k \in m + 1 .. n : ~P(k)
                       \/ up[n] = None /\ \A m \in 0 .. n : ~P(m)
           S == {n \in 0 .. l : Found(n)}
<1> HIDE DEF P, First
<1>5. 0 \in S
  BY <1>l, <1>4
<1>6. ASSUME NEW n \in 1 .. l, n - 1 \in S PROVE n \in S
  <2>1. CASE P(n)
    <3>1. up[n] = First(n) /\ n \in 0 .. n /\ \A k \in n + 1 .. n : ~P(k)
      BY <1>l, <1>4, <2>1
    <3> QED
      BY <2>1, <3>1
  <2>2. CASE ~P(n)
    <3>1. up[n] = up[n - 1] /\ Found(n - 1)
      BY <1>l, <1>4, <1>6, <2>2
    <3>2. \A k : k \in 0 .. n => k = n \/ k \in 0 .. n - 1
      BY <1>l
    <3>3. CASE up[n - 1] = None /\ \A m \in 0 .. n - 1 : ~P(m)
      BY <2>2, <3>1, <3>2, <3>3
    <3>4. CASE \E m \in 0 .. n - 1 : P(m) /\ up[n - 1] = First(m) /\ \A k \in m + 1 .. n - 1 : ~P(k)
      <4>1. PICK m \in 0 .. n - 1 : P(m) /\ up[n - 1] = First(m) /\ \A k \in m + 1 .. n - 1 : ~P(k)
        BY <3>4
      <4>2. m \in 0 .. n /\ \A k \in m + 1 .. n : ~P(k)
        BY <2>2, <4>1
      <4> QED
        BY <3>1, <4>1, <4>2
    <3> QED
      BY <3>1, <3>3, <3>4
  <2> QED
    BY <2>1, <2>2
<1>7. Found(l)
  <2> HIDE DEF Found
  <2>1. \A n \in 0 .. l : n \in S
    <3> HIDE DEF S
    <3> QED
      BY <1>l, <1>5, <1>6, IntervalInduction
  <2> QED
    BY <1>l, <2>1
<1> QED
  BY <1>1, <1>7 DEF Nearest, P, First, l

Component == STRING

LEMMA PrefixOf ==
  ASSUME NEW S, NEW s \in Seq(S), NEW t \in Seq(S)
  PROVE  /\ IsPrefix(s, t) => Len(s) \in 0 .. Len(t) /\ s = SubSeq(t, 1, Len(s))
         /\ \A n \in 0 .. Len(t) : /\ Len(SubSeq(t, 1, n)) = n
                                   /\ s = SubSeq(t, 1, n) => IsPrefix(s, t)
<1>1. Len(s) \in Nat /\ Len(t) \in Nat /\ SubSeq(s, 1, Len(s)) = s
  BY LenProperties, SubSeqFull
<1>2. ASSUME NEW n \in 0 .. Len(t) PROVE Len(SubSeq(t, 1, n)) = n
  <2>1. n \in Int /\ 1 \in Int /\ \A i \in 1 .. n : t[i] \in S
    BY <1>1, ElementOfSeq
  <2> QED
    BY <2>1, SubSeqProperties
<1>3. IsPrefix(s, t) => Len(s) \in 0 .. Len(t) /\ s = SubSeq(t, 1, Len(s))
  BY <1>1 DEF IsPrefix
<1>4. ASSUME NEW n \in 0 .. Len(t), s = SubSeq(t, 1, n) PROVE IsPrefix(s, t)
  <2>1. Len(s) = n
    BY <1>2, <1>4
  <2> QED
    BY <1>1, <1>4, <2>1 DEF IsPrefix
<1> QED
  BY <1>2, <1>3, <1>4

\* Where each module is.
LEMMA Directories ==
  ASSUME world \in Worlds, NEW m \in Names
  PROVE  tree.modules[m].dir \in Seq(Component)
  BY WorldAssumption DEF Names, tree, Component

IsToolchain(m) == m \in Names /\ tree.modules[m].kind = "toolchain"
DirOf(m)       == tree.modules[m].dir

\* A directory maps to a list of its own toolchain modules.
MappedWell ==
  \A d \in DOMAIN mapped :
      /\ mapped[d] \in Seq({t \in Names : IsToolchain(t) /\ DirOf(t) = d})
      /\ mapped[d] # <<>>

AllMapped == \A t \in Names : IsToolchain(t) => DirOf(t) \in DOMAIN mapped

\* The map is complete before it is asked, and not written to any more.
MapInv ==
  /\ world \in Worlds
  /\ pass \in 1 .. 12
  /\ MappedWell
  /\ pass = 3 => \A t \in done : IsToolchain(t) => DirOf(t) \in DOMAIN mapped
  /\ pass \in 4 .. 9 => AllMapped
  /\ pass < 5 => DOMAIN machineOf = {}
  /\ \A v \in DOMAIN machineOf :
        /\ v \in Variants /\ AllMapped
        /\ IF tree.modules[v[1]].toolchain # None THEN machineOf[v] = tree.modules[v[1]].toolchain
           ELSE Nearest(DirOf(v[1]), machineOf[v])

LEMMA InitMap == Init => MapInv
<1> SUFFICES ASSUME Init PROVE MapInv
  OBVIOUS
<1>1. world \in Worlds /\ pass = 1 /\ DOMAIN mapped = {} /\ DOMAIN machineOf = {}
  BY DEF Init
<1> QED
  BY <1>1 DEF MapInv, MappedWell

\* What is read of the tree and the map alone.
LEMMA MapStays ==
  ASSUME UNCHANGED <<world, mapped>>
  PROVE  /\ MappedWell' = MappedWell /\ AllMapped' = AllMapped
         /\ \A m : IsToolchain(m)' = IsToolchain(m) /\ DirOf(m)' = DirOf(m)
         /\ \A path, x : Nearest(path, x)' = Nearest(path, x)
<1>1. \A m : IsToolchain(m)' = IsToolchain(m) /\ DirOf(m)' = DirOf(m)
  BY DEF IsToolchain, DirOf, Names, tree
<1>2. AllMapped' = AllMapped
  BY DEF AllMapped, IsToolchain, DirOf, Names, tree
<1>3. MappedWell' = MappedWell
  BY DEF MappedWell, IsToolchain, DirOf, Names, tree
<1>4. \A path, x : Nearest(path, x)' = Nearest(path, x)
  BY DEF Nearest
<1> QED
  BY <1>1, <1>2, <1>3, <1>4

LEMMA MapUntouched ==
  ASSUME MapInv, UNCHANGED <<world, mapped, machineOf>>, pass' \in 1 .. 12,
         pass' = 3 => \A t \in done' : IsToolchain(t) => DirOf(t) \in DOMAIN mapped,
         pass' \in 4 .. 9 => AllMapped,
         pass' < 5 => DOMAIN machineOf = {}
  PROVE  MapInv'
  BY MapStays, WorldStays DEF MapInv, tree

LEMMA RegisterStep ==
  ASSUME MapInv, NEW m \in Names, Register(m)
  PROVE  MapInv'
<1>1. pass = 3 /\ pass' = 3 /\ done' = done \cup {m} /\ UNCHANGED <<world, machineOf>>
  BY PassNumbers DEF Register, PassIs, MapInv, Passes
<1>2. DOMAIN machineOf = {}
  BY <1>1 DEF MapInv
<1>3. CASE ~IsToolchain(m)
  <2>1. mapped' = mapped
    BY <1>3 DEF Register, IsToolchain
  <2> QED
    BY <1>1, <1>2, <1>3, <2>1, MapUntouched DEF MapInv
<1>4. CASE IsToolchain(m)
  <2> DEFINE d     == DirOf(m)
             here  == {t \in Names : IsToolchain(t) /\ DirOf(t) = d}
             there == IF d \in DOMAIN mapped THEN mapped[d] ELSE <<>>
  <2>1. mapped' = Put(mapped, d, Append(there, m))
    BY <1>4 DEF Register, IsToolchain, DirOf
  <2>2. there \in Seq(here) /\ m \in here
    BY <1>4 DEF MapInv, MappedWell
  <2>3. Append(there, m) \in Seq(here) /\ Append(there, m) # <<>>
    <3> HIDE DEF there, here
    <3> QED
      BY <2>2, AppendProperties
  <2> HIDE DEF there
  <2>4. /\ DOMAIN mapped' = DOMAIN mapped \cup {d}
        /\ \A x \in DOMAIN mapped' : mapped'[x] = IF x = d THEN Append(there, m) ELSE mapped[x]
    BY <2>1 DEF Put
  <2>5. \A x \in DOMAIN mapped' :
            /\ mapped'[x] \in Seq({t \in Names : IsToolchain(t) /\ DirOf(t) = x})
            /\ mapped'[x] # <<>>
    BY <2>3, <2>4 DEF MapInv, MappedWell
  <2>6. /\ Names' = Names
        /\ \A t : IsToolchain(t)' = IsToolchain(t) /\ DirOf(t)' = DirOf(t)
    BY <1>1 DEF IsToolchain, DirOf, Names, tree
  <2>7. MappedWell'
    BY <2>5, <2>6 DEF MappedWell
  <2>8. \A t \in done' : IsToolchain(t) => DirOf(t) \in DOMAIN mapped'
    BY <1>1, <2>4 DEF MapInv
  <2> QED
    BY <1>1, <1>2, <2>6, <2>7, <2>8 DEF MapInv
<1> QED
  BY <1>3, <1>4

LEMMA DependStep ==
  ASSUME MapInv, NEW v \in Variants, DependOnToolchain(v)
  PROVE  MapInv'
<1>1. pass = 5 /\ UNCHANGED <<world, mapped, pass>>
  BY PassNumbers DEF DependOnToolchain, PassIs, MapInv, Passes
<1>2. AllMapped
  BY <1>1 DEF MapInv
<1> DEFINE chosen == IF tree.modules[v[1]].toolchain # None THEN tree.modules[v[1]].toolchain
                     ELSE Get(tree.modules[v[1]].dir)
<1>3. \/ machineOf' = machineOf
      \/ machineOf' = Put(machineOf, v, chosen)
  BY DEF DependOnToolchain
<1>4. Nearest(DirOf(v[1]), Get(DirOf(v[1])))
  <2>1. v[1] \in Names /\ world \in Worlds
    BY DEF Variants, MapInv
  <2>2. Len(DirOf(v[1])) \in Nat
    BY <2>1, Directories, LenProperties DEF DirOf
  <2> QED
    BY <2>2, GetIsNearest
<1>5. /\ tree.modules[v[1]].toolchain # None => chosen = tree.modules[v[1]].toolchain
      /\ tree.modules[v[1]].toolchain = None => Nearest(DirOf(v[1]), chosen)
  BY <1>4 DEF DirOf
<1> HIDE DEF chosen
<1>6. ASSUME NEW u \in DOMAIN machineOf'
      PROVE  /\ u \in Variants /\ AllMapped
             /\ IF tree.modules[u[1]].toolchain # None THEN machineOf'[u] = tree.modules[u[1]].toolchain
                ELSE Nearest(DirOf(u[1]), machineOf'[u])
  <2>1. CASE u = v /\ machineOf'[u] = chosen
    BY <1>2, <1>5, <2>1
  <2>2. CASE u \in DOMAIN machineOf /\ machineOf'[u] = machineOf[u]
    BY <2>2 DEF MapInv
  <2> QED
    BY <1>3, <2>1, <2>2 DEF Put
<1> QED
  BY <1>1, <1>2, <1>6, MapStays, WorldStays DEF MapInv, tree

LEMMA NextMap == MapInv /\ [Next]_vars => MapInv'
<1> SUFFICES ASSUME MapInv, [Next]_vars PROVE MapInv'
  OBVIOUS
<1>0. pass \in 1 .. 12
  BY DEF MapInv
<1>u. ASSUME UNCHANGED <<world, mapped, machineOf, pass>>, pass = 3 => done' = done
      PROVE  MapInv'
  BY <1>u, MapUntouched DEF MapInv
<1>1. ASSUME NEW m \in Names, LookUpType(m) \/ BuildType(m) PROVE MapInv'
  <2>1. pass = 2 \/ done' = done
    BY <1>1, <1>0 DEF LookUpType, BuildType, PassIs, Passes
  <2> QED
    BY <1>1, <1>u, <2>1 DEF LookUpType, BuildType
<1>2. ASSUME NEW v \in Variants, RaiseWarning(v) \/ OnlyWarns(v) \/ Collect(v) \/ LookUpFlag(v) \/ RunCompiler(v)
                                   \/ StoreAnswer(v) \/ EndLateTemplates(v)
      PROVE  MapInv'
  <2>1. pass # 3 \/ done' = done
    BY <1>2, <1>0 DEF RaiseWarning, OnlyWarns, Collect, EndLateTemplates, LookUpFlag, RunCompiler, StoreAnswer,
       PassIs, Passes
  <2>2. UNCHANGED <<world, mapped, machineOf, pass>>
    BY <1>2 DEF RaiseWarning, OnlyWarns, Collect, EndLateTemplates, LookUpFlag, RunCompiler, StoreAnswer
  <2> QED
    BY <1>u, <2>1, <2>2
<1>3. CASE Configure
  <2>1. pass = 1 /\ pass' \in {2, 10} /\ UNCHANGED <<world, mapped, machineOf>>
    <3>1. (CHOOSE i \in DOMAIN Passes : Passes[i] = "metadata_file") = 10
      BY PassNumbers
    <3> QED
      BY <1>3, <1>0, <3>1, PassNumbers DEF Configure, PassIs
  <2> QED
    BY <2>1, MapUntouched DEF MapInv
<1>4. CASE NextPass
  <2>1. /\ pass \in 2 .. 9 /\ pass' = pass + 1 /\ done = Visitors /\ done' = {}
        /\ UNCHANGED <<world, mapped, machineOf>>
    BY <1>4, <1>0, PassNumbers DEF NextPass, Passes
  <2>2. pass = 3 => AllMapped
    <3>1. pass = 3 => Visitors = Names
      BY DEF Visitors, Passes
    <3> QED
      BY <2>1, <3>1 DEF MapInv, AllMapped
  <2>3. pass' \in 4 .. 9 => AllMapped
    BY <2>1, <2>2 DEF MapInv
  <2> QED
    BY <2>1, <2>3, MapUntouched DEF MapInv
<1>5. CASE MetaDataWriteToFile \/ TearDownLogger
  <2>1. pass \in 10 .. 11 /\ pass' \in 10 .. 12 /\ UNCHANGED <<world, mapped, machineOf>>
    BY <1>5, <1>0 DEF MetaDataWriteToFile, TearDownLogger, PassIs, Passes
  <2> QED
    BY <2>1, MapUntouched
<1>6. CASE UNCHANGED vars
  BY <1>6, <1>u DEF vars
<1> QED
  BY <1>1, <1>2, <1>3, <1>4, <1>5, <1>6, RegisterStep, DependStep DEF Next

\* The nearest is one of those above, with none nearer, and there is one.
LEMMA NearestIs ==
  ASSUME MapInv, AllMapped, NEW path \in Seq(Component), NEW x, Nearest(path, x)
  PROVE  LET above == {t \in Names : IsToolchain(t) /\ IsPrefix(DirOf(t), path)}
         IN  IF above = {} THEN x = None
             ELSE x \in above /\ \A t \in above : ~(Len(DirOf(t)) > Len(DirOf(x)))
<1> DEFINE above == {t \in Names : IsToolchain(t) /\ IsPrefix(DirOf(t), path)}
<1>1. \A t \in above : /\ DirOf(t) \in Seq(Component) /\ DirOf(t) \in DOMAIN mapped
                       /\ Len(DirOf(t)) \in 0 .. Len(path)
                       /\ DirOf(t) = SubSeq(path, 1, Len(DirOf(t)))
  BY Directories, PrefixOf DEF MapInv, AllMapped, DirOf
<1>2. Len(path) \in Nat
  BY LenProperties
<1>3. CASE \E n \in 0 .. Len(path) :
              /\ SubSeq(path, 1, n) \in DOMAIN mapped /\ x = mapped[SubSeq(path, 1, n)][1]
              /\ \A k \in n + 1 .. Len(path) : SubSeq(path, 1, k) \notin DOMAIN mapped
  <2>1. PICK n \in 0 .. Len(path) :
              /\ SubSeq(path, 1, n) \in DOMAIN mapped /\ x = mapped[SubSeq(path, 1, n)][1]
              /\ \A k \in n + 1 .. Len(path) : SubSeq(path, 1, k) \notin DOMAIN mapped
    BY <1>3
  <2> DEFINE d    == SubSeq(path, 1, n)
             here == {t \in Names : IsToolchain(t) /\ DirOf(t) = d}
  <2>2. mapped[d] \in Seq(here) /\ mapped[d] # <<>>
    BY <2>1 DEF MapInv, MappedWell
  <2>3. x \in here
    <3> HIDE DEF here, d
    <3>1. 1 \in 1 .. Len(mapped[d])
      BY <2>2, EmptySeq
    <3> QED
      BY <2>1, <2>2, <3>1, ElementOfSeq DEF d
  <2>4. IsPrefix(DirOf(x), path) /\ Len(DirOf(x)) = n
    BY <2>1, <2>3, Directories, PrefixOf DEF MapInv, DirOf
  <2>5. x \in above
    BY <2>3, <2>4
  <2>6. ASSUME NEW t \in above, Len(DirOf(t)) > Len(DirOf(x)) PROVE FALSE
    <3>1. Len(DirOf(t)) \in n + 1 .. Len(path)
      BY <1>1, <1>2, <2>4, <2>6
    <3> QED
      BY <1>1, <2>1, <3>1
  <2> QED
    BY <2>5, <2>6
<1>4. CASE x = None /\ \A n \in 0 .. Len(path) : SubSeq(path, 1, n) \notin DOMAIN mapped
  BY <1>1, <1>4
<1> QED
  BY <1>3, <1>4 DEF Nearest

\* A path has one nearest toolchain.
LEMMA NearestIsOne ==
  ASSUME NEW path, Len(path) \in Nat, NEW x, NEW y, Nearest(path, x), Nearest(path, y)
  PROVE  x = y
<1>1. CASE \E n \in 0 .. Len(path) : SubSeq(path, 1, n) \in DOMAIN mapped
  <2>1. PICK n \in 0 .. Len(path) :
              /\ SubSeq(path, 1, n) \in DOMAIN mapped /\ x = mapped[SubSeq(path, 1, n)][1]
              /\ \A k \in n + 1 .. Len(path) : SubSeq(path, 1, k) \notin DOMAIN mapped
    BY <1>1 DEF Nearest
  <2>2. PICK m \in 0 .. Len(path) :
              /\ SubSeq(path, 1, m) \in DOMAIN mapped /\ y = mapped[SubSeq(path, 1, m)][1]
              /\ \A k \in m + 1 .. Len(path) : SubSeq(path, 1, k) \notin DOMAIN mapped
    BY <1>1 DEF Nearest
  <2>3. ~(n < m) /\ ~(m < n)
    BY <2>1, <2>2
  <2>4. n = m
    BY <2>3
  <2> QED
    BY <2>1, <2>2, <2>4
<1>2. CASE ~ \E n \in 0 .. Len(path) : SubSeq(path, 1, n) \in DOMAIN mapped
  BY <1>2 DEF Nearest
<1> QED
  BY <1>1, <1>2

(* A strict module depends on the toolchain it names, or on one of the      *)
(* nearest directory above it, whatever the order of registration: the map  *)
(* is complete before it is first asked.                                    *)
THEOREM ToolchainFound == Spec => []NearestToolchain
<1>1. MapInv => NearestToolchain
  <2> SUFFICES ASSUME MapInv, NEW v \in DOMAIN machineOf
               PROVE  LET above == {t \in Names : IsToolchain(t) /\ IsPrefix(DirOf(t), DirOf(v[1]))}
                          named == tree.modules[v[1]].toolchain
                      IN  IF named # None THEN machineOf[v] = named
                          ELSE IF above = {} THEN machineOf[v] = None
                          ELSE /\ machineOf[v] \in above
                               /\ ~ \E t \in above : Len(DirOf(t)) > Len(DirOf(machineOf[v]))
                               /\ \A u \in DOMAIN machineOf :
                                     /\ DirOf(u[1]) = DirOf(v[1])
                                     /\ tree.modules[u[1]].toolchain = None
                                     => machineOf[u] = machineOf[v]
    BY DEF NearestToolchain, IsToolchain, DirOf
  <2> DEFINE above == {t \in Names : IsToolchain(t) /\ IsPrefix(DirOf(t), DirOf(v[1]))}
             named == tree.modules[v[1]].toolchain
  <2>1. named # None => machineOf[v] = named
    BY DEF MapInv
  <2>2. ASSUME named = None
        PROVE  /\ IF above = {} THEN machineOf[v] = None
                  ELSE machineOf[v] \in above /\ \A t \in above : ~(Len(DirOf(t)) > Len(DirOf(machineOf[v])))
               /\ \A u \in DOMAIN machineOf :
                     DirOf(u[1]) = DirOf(v[1]) /\ tree.modules[u[1]].toolchain = None => machineOf[u] = machineOf[v]
    <3>1. AllMapped /\ Nearest(DirOf(v[1]), machineOf[v]) /\ v[1] \in Names /\ world \in Worlds
      BY <2>2 DEF MapInv, Variants
    <3>2. DirOf(v[1]) \in Seq(Component)
      BY <3>1, Directories DEF DirOf
    <3>3. Len(DirOf(v[1])) \in Nat
      BY <3>2, LenProperties
    <3>4. IF above = {} THEN machineOf[v] = None
          ELSE machineOf[v] \in above /\ \A t \in above : ~(Len(DirOf(t)) > Len(DirOf(machineOf[v])))
      BY <3>1, <3>2, NearestIs
    <3>5. ASSUME NEW u \in DOMAIN machineOf, DirOf(u[1]) = DirOf(v[1]), tree.modules[u[1]].toolchain = None
          PROVE  machineOf[u] = machineOf[v]
      <4>1. Nearest(DirOf(v[1]), machineOf[u])
        BY <3>5 DEF MapInv
      <4> QED
        BY <3>1, <3>3, <4>1, NearestIsOne
    <3> QED
      BY <3>4, <3>5
  <2> QED
    BY <2>1, <2>2
<1> QED
  BY <1>1, InitMap, NextMap, PTL DEF Spec

(***************************************************************************)
(* The log.  A line names the module and not the variant, so its number is  *)
(* how many variants of the module had that to say, in whatever order.      *)
(***************************************************************************)
\* The variants of a module that have said it, in this pass or an earlier one.
Said(m, c) ==
  {v \in Variants : v[1] = m /\ \/ \E i \in 1 .. pass - 1 : c \in DueIn(v, Passes[i])
                                \/ c \in raised[v]}

Counted ==
  \A m \in Names : \A c \in tree.modules[m].warns :
      Count(<<m, ActionFor(c), c>>) = Cardinality(Said(m, c))

LogInv ==
  /\ world \in Worlds /\ pass \in 1 .. 12
  /\ DOMAIN raised = Variants
  /\ \A v \in Variants : raised[v] \subseteq Due(v) /\ (v \in done => Due(v) \subseteq raised[v])
  /\ pass = 1 => DOMAIN tcs = {} /\ DOMAIN log = {}
  /\ DOMAIN tcs = {} => pass \in {1, 10, 11, 12}
  /\ DOMAIN tcs # {} => Counted
  /\ \A line \in DOMAIN log : line[2] = "error" => errors > 0

\* A category is raised in one pass.
LEMMA DueOnce ==
  ASSUME pass \in 1 .. 12, NEW v, NEW c \in Due(v)
  PROVE  /\ pass \in {4, 6, 8, 9}
         /\ \A i \in 1 .. pass - 1 : c \notin DueIn(v, Passes[i])
         /\ c \in tree.modules[v[1]].warns
<1>1. /\ c \in tree.modules[v[1]].warns
      /\ \/ c = "RelativeUpLinkWarning" /\ Passes[pass] = "process_paths"
         \/ c = "GenerateRuleWarning" /\ Passes[pass] = "generated"
         \/ c = "UnmatchedNonCompileSrcsWarning" /\ Passes[pass] = "late_template"
         \/ c = "AndroidOutOfTreeUnsupportedModule" /\ Passes[pass] = "generate"
  BY DEF Due, DueIn
<1>2. /\ Passes[pass] = "process_paths" <=> pass = 4
      /\ Passes[pass] = "generated" <=> pass = 6
      /\ Passes[pass] = "late_template" <=> pass = 8
      /\ Passes[pass] = "generate" <=> pass = 9
  BY DEF Passes
<1>3. ASSUME NEW i \in 1 .. pass - 1, c \in DueIn(v, Passes[i]) PROVE FALSE
  <2>1. Passes[i] = Passes[pass]
    BY <1>1, <1>3 DEF DueIn
  <2>2. i \in 1 .. 12 /\ i # pass
    BY <1>3
  <2> QED
    BY <2>1, <2>2 DEF Passes
<1> QED
  BY <1>1, <1>2, <1>3

LEMMA FewVariants ==
  ASSUME world \in Worlds
  PROVE  IsFiniteSet(Variants) /\ \A T \in SUBSET Variants : IsFiniteSet(T)
<1>1. IsFiniteSet(Names)
  BY WorldAssumption DEF Names, tree
<1>2. IsFiniteSet(TgtTypes)
  <2>1. IsFiniteSet({"host"} \cup {"target"})
    BY FS_Singleton, FS_AddElement
  <2>2. TgtTypes = {"host"} \cup {"target"}
    BY DEF TgtTypes
  <2> QED
    BY <2>1, <2>2
<1>3. IsFiniteSet(Names \X TgtTypes)
  BY <1>1, <1>2, FS_Product
<1>4. Variants \in SUBSET (Names \X TgtTypes)
  BY DEF Variants
<1>5. IsFiniteSet(Variants)
  BY <1>3, <1>4, FS_Subset
<1> QED
  BY <1>5, FS_Subset

\* What is read of the world, and of the world and the pass.
LEMMA DueStays ==
  ASSUME world' = world
  PROVE  /\ \A v, name : DueIn(v, name)' = DueIn(v, name)
         /\ pass' = pass => \A v : Due(v)' = Due(v)
  BY DEF Due, DueIn, tree, conf

LEMMA ActionStays ==
  ASSUME world' = world
  PROVE  \A c : ActionFor(c)' = ActionFor(c)
  BY DEF ActionFor

LEMMA InitLog == Init => LogInv
<1> SUFFICES ASSUME Init PROVE LogInv
  OBVIOUS
<1>1. /\ world \in Worlds /\ pass = 1 /\ DOMAIN tcs = {} /\ DOMAIN log = {} /\ done = {}
      /\ raised = [v \in Variants |-> {}]
  BY DEF Init
<1> QED
  BY <1>1 DEF LogInv

\* A step that says nothing, within a pass.
LEMMA NothingSaid ==
  ASSUME LogInv, UNCHANGED <<world, tcs, pass, raised, log>>, errors' = errors,
         \A v \in Variants : v \in done' => v \in done \/ Due(v) \subseteq raised[v]
  PROVE  LogInv'
<1>1. Variants' = Variants /\ Names' = Names /\ tree' = tree
  BY WorldStays DEF tree
<1>2. \A m, c : Said(m, c)' = Said(m, c)
  BY <1>1, DueStays DEF Said
<1>3. \A line : Count(line)' = Count(line)
  BY DEF Count
<1>4. Counted' = Counted
  BY <1>1, <1>2, <1>3, ActionStays DEF Counted
<1>5. \A v \in Variants : raised'[v] \subseteq Due(v)' /\ (v \in done' => Due(v)' \subseteq raised'[v])
  BY DueStays DEF LogInv
<1> QED
  BY <1>1, <1>4, <1>5 DEF LogInv

\* A visit says one thing more.
LEMMA WarnStep ==
  ASSUME LogInv, errors \in Nat, NEW v \in Variants, RaiseWarning(v)
  PROVE  LogInv'
<1>1. PICK c \in Due(v) : Warn(v, c)
  BY DEF RaiseWarning
<1> DEFINE line == <<v[1], ActionFor(c), c>>
<1>2. /\ c \in Due(v) \ raised[v]
      /\ raised' = [raised EXCEPT ![v] = @ \cup {c}]
      /\ errors' = IF ActionFor(c) = "error" THEN errors + 1 ELSE errors
      /\ log' = Put(log, line, Count(line) + 1)
  BY <1>1 DEF Warn
<1>3. UNCHANGED <<world, tcs, pass, done>> /\ v \notin done
  BY DEF RaiseWarning
<1>4. /\ pass \in {4, 6, 8, 9} /\ c \in tree.modules[v[1]].warns
      /\ \A i \in 1 .. pass - 1 : c \notin DueIn(v, Passes[i])
  BY <1>1, DueOnce DEF LogInv
<1>5. Variants' = Variants /\ Names' = Names /\ tree' = tree /\ v[1] \in Names /\ world \in Worlds
  BY <1>3, WorldStays DEF tree, Variants, LogInv
<1>6. /\ \A u \in Variants : raised'[u] = IF u = v THEN raised[v] \cup {c} ELSE raised[u]
      /\ DOMAIN raised' = Variants
  BY <1>2 DEF LogInv
<1>7. \A u \in Variants : raised'[u] \subseteq Due(u)' /\ (u \in done' => Due(u)' \subseteq raised'[u])
  BY <1>2, <1>3, <1>6, DueStays DEF LogInv
<1>8. DOMAIN tcs # {}
  <2>1. pass \notin {1, 10, 11, 12}
    BY <1>4
  <2> QED
    BY <2>1 DEF LogInv
<1>9. Said(v[1], c)' = Said(v[1], c) \cup {v} /\ v \notin Said(v[1], c)
  BY <1>2, <1>3, <1>4, <1>5, <1>6, DueStays DEF Said
<1>10. ASSUME NEW m \in Names, NEW d, <<m, d>> # <<v[1], c>>
       PROVE  Said(m, d)' = Said(m, d)
  BY <1>3, <1>5, <1>6, <1>10, DueStays DEF Said
<1>11. \A l : Count(l)' = IF l = line THEN Count(line) + 1 ELSE Count(l)
  BY <1>2 DEF Count, Put
<1>12. ASSUME NEW m \in Names, NEW d \in tree.modules[m].warns
       PROVE  Count(<<m, ActionFor(d), d>>)' = Cardinality(Said(m, d)')
  <2>1. Count(<<m, ActionFor(d), d>>) = Cardinality(Said(m, d)) /\ ActionFor(d)' = ActionFor(d)
    BY <1>3, <1>8, ActionStays DEF LogInv, Counted
  <2>2. CASE m = v[1] /\ d = c
    <3>1. Cardinality(Said(m, d)') = Cardinality(Said(m, d)) + 1
      <4>1. IsFiniteSet(Said(m, d))
        BY <1>5, FewVariants DEF Said
      <4> QED
        BY <1>9, <2>2, <4>1, FS_AddElement
    <3> QED
      BY <1>11, <2>1, <2>2, <3>1
  <2>3. CASE ~(m = v[1] /\ d = c)
    <3>1. <<m, ActionFor(d), d>> # line /\ <<m, d>> # <<v[1], c>>
      BY <2>3
    <3> QED
      BY <1>10, <1>11, <2>1, <3>1
  <2> QED
    BY <2>2, <2>3
<1>13. Counted'
  BY <1>5, <1>12 DEF Counted
<1>14. \A l \in DOMAIN log' : l[2] = "error" => errors' > 0
  BY <1>2 DEF LogInv, Put
<1> QED
  BY <1>3, <1>4, <1>5, <1>6, <1>7, <1>13, <1>14 DEF LogInv

\* A pass ends when every visit has said all it has to say.
LEMMA NextPassLog ==
  ASSUME LogInv, UNCHANGED <<world, tcs, log, errors>>, pass' = pass + 1, pass' \in 1 .. 12,
         done' = {}, raised' = [v \in DOMAIN raised |-> {}], DOMAIN tcs # {},
         pass \in {4, 6, 8, 9} => done = Variants
  PROVE  LogInv'
<1>1. Variants' = Variants /\ Names' = Names /\ tree' = tree /\ pass \in 1 .. 12
  BY WorldStays DEF tree, LogInv
<1>2. \A v \in Variants : raised[v] = Due(v)
  BY DueOnce DEF LogInv
<1>3. ASSUME NEW m, NEW c PROVE Said(m, c)' = Said(m, c)
  <2>1. ASSUME NEW v \in Variants
        PROVE  (\E i \in 1 .. pass' - 1 : c \in DueIn(v, Passes[i]))
               <=> (\E i \in 1 .. pass - 1 : c \in DueIn(v, Passes[i])) \/ c \in raised[v]
    <3>1. \A i : i \in 1 .. pass' - 1 <=> i \in 1 .. pass - 1 \/ i = pass
      BY <1>1
    <3> QED
      BY <1>2, <3>1 DEF Due
  <2>2. \A v \in Variants : c \notin raised'[v]
    BY DEF LogInv
  <2>3. ASSUME NEW v \in Variants
        PROVE  (\E i \in 1 .. pass' - 1 : c \in DueIn(v, Passes[i])') <=> (\E i \in 1 .. pass' - 1 : c \in DueIn(v, Passes[i]))
    BY DueStays, Zenon
  <2>4. Said(m, c)' = {v \in Variants : v[1] = m /\ ((\E i \in 1 .. pass' - 1 : c \in DueIn(v, Passes[i])')
                                                    \/ c \in raised'[v])}
    BY <1>1, Zenon DEF Said, Passes
  <2> QED
    BY <2>1, <2>2, <2>3, <2>4 DEF Said
<1>4. \A line : Count(line)' = Count(line)
  BY DEF Count
<1>5. Counted'
  BY <1>1, <1>3, <1>4, ActionStays DEF Counted, LogInv
<1>6. \A v \in Variants : raised'[v] \subseteq Due(v)' /\ (v \in done' => Due(v)' \subseteq raised'[v])
  BY DEF LogInv
<1>7. DOMAIN raised' = Variants
  BY DEF LogInv
<1> QED
  BY <1>1, <1>5, <1>6, <1>7 DEF LogInv

LEMMA ConfigureLog ==
  ASSUME LogInv, Configure
  PROVE  LogInv'
<1>1. /\ pass = 1 /\ DOMAIN tcs = {} /\ DOMAIN log = {}
      /\ \A v \in Variants : raised[v] = {}
  BY DueOnce, PassNumbers DEF LogInv, Configure, PassIs
<1>2. UNCHANGED <<world, raised, log, errors, done>>
  BY DEF Configure
<1>3. \/ pass' = 10 /\ tcs' = tcs
      \/ pass' = 2 /\ DOMAIN tcs' = TgtTypes
  <2>1. (CHOOSE i \in DOMAIN Passes : Passes[i] = "metadata_file") = 10
    BY PassNumbers
  <2> DEFINE built == [tgt \in TgtTypes |-> ToolchainOf(conf, tgt)]
  <2>2. \/ pass' = 10 /\ tcs' = tcs
        \/ pass' = pass + 1 /\ tcs' = built
    BY <2>1, Zenon DEF Configure
  <2>3. DOMAIN built = TgtTypes
    OBVIOUS
  <2> HIDE DEF built
  <2> QED
    BY <1>1, <2>2, <2>3
<1>4. Variants' = Variants /\ Names' = Names /\ tree' = tree
  BY <1>2, WorldStays DEF tree
<1>5. TgtTypes # {}
  BY DEF TgtTypes
<1>6. \A v : Due(v)' = {}
  <2>1. \A v, c : c \notin Due(v)'
    BY <1>3 DEF Due, DueIn, Passes
  <2> QED
    BY <2>1
<1>7. ASSUME pass' = 2 PROVE Counted'
  <2>1. \A v, c : c \notin DueIn(v, Passes[1])
    BY DEF DueIn, Passes
  <2>2. \A m, c : Said(m, c)' = {}
    BY <1>1, <1>2, <1>4, <1>7, <2>1, DueStays DEF Said
  <2>3. \A line : Count(line)' = 0
    BY <1>1, <1>2 DEF Count
  <2> QED
    BY <2>2, <2>3, FS_EmptySet DEF Counted
<1> QED
  BY <1>1, <1>2, <1>3, <1>4, <1>5, <1>6, <1>7 DEF LogInv

LEMMA NextLog == TInv /\ LogInv /\ [Next]_vars => LogInv'
<1> SUFFICES ASSUME TInv, LogInv, [Next]_vars PROVE LogInv'
  OBVIOUS
<1>0. pass \in 1 .. 12 /\ errors \in Nat
  BY DEF LogInv, TInv, TypeOK
<1>1. ASSUME NEW m \in Names, LookUpType(m) \/ BuildType(m) \/ Register(m) PROVE LogInv'
  <2>1. pass \in {2, 3} /\ UNCHANGED <<world, tcs, pass, raised, log, errors>>
    BY <1>0, <1>1 DEF LookUpType, BuildType, Register, PassIs, Passes, TInv, TypeOK
  <2>2. \A v \in Variants : Due(v) = {}
    BY <2>1, DueOnce
  <2> QED
    BY <2>1, <2>2, NothingSaid
<1>2. ASSUME NEW v \in Variants, OnlyWarns(v) \/ DependOnToolchain(v) \/ Collect(v) \/ EndLateTemplates(v)
      PROVE  LogInv'
  <2>1. UNCHANGED <<world, tcs, pass, raised, log, errors>> /\ Due(v) \subseteq raised[v] /\ done' = done \cup {v}
    BY <1>2 DEF OnlyWarns, DependOnToolchain, Collect, EndLateTemplates, Ends
  <2> QED
    BY <2>1, NothingSaid
<1>3. ASSUME NEW v \in Variants, LookUpFlag(v) \/ RunCompiler(v) \/ StoreAnswer(v)
      PROVE  LogInv'
  <2>1. UNCHANGED <<world, tcs, pass, raised, log, errors, done>>
    BY <1>3 DEF LookUpFlag, RunCompiler, StoreAnswer
  <2> QED
    BY <2>1, NothingSaid
<1>4. CASE NextPass
  <2>1. /\ UNCHANGED <<world, tcs, log, errors>> /\ pass' = pass + 1 /\ done' = {} /\ done = Visitors
        /\ raised' = [v \in DOMAIN raised |-> {}] /\ pass \in 2 .. 9
    BY <1>0, <1>4, PassNumbers DEF NextPass, Passes
  <2>2. DOMAIN tcs # {}
    <3>1. pass \notin {1, 10, 11, 12}
      BY <2>1
    <3> QED
      BY <3>1 DEF LogInv
  <2>3. pass \in {4, 6, 8, 9} => Visitors = Variants
    BY DEF Visitors, Passes
  <2>4. pass' \in 1 .. 12
    BY <2>1
  <2> QED
    BY <2>1, <2>2, <2>3, <2>4, NextPassLog
<1>5. CASE MetaDataWriteToFile \/ TearDownLogger
  <2>1. UNCHANGED <<world, tcs, raised, log, errors, done>> /\ pass \in {10, 11} /\ (pass' = pass \/ pass' = pass + 1)
    BY <1>0, <1>5 DEF MetaDataWriteToFile, TearDownLogger, PassIs, Passes
  <2>2. CASE pass' = pass
    BY <2>1, <2>2, NothingSaid
  <2>3. CASE pass' = pass + 1
    <3>1. \A v \in Variants : Due(v) = {} /\ raised[v] = {}
      BY <2>1, DueOnce DEF LogInv
    <3>2. \A v, c : c \notin DueIn(v, Passes[pass]) /\ c \notin Due(v)'
      <4>1. Passes[10] = "metadata_file" /\ Passes[11] = "teardown" /\ Passes[12] = "end"
        BY DEF Passes
      <4> QED
        BY <2>1, <2>3, <4>1 DEF Due, DueIn
    <3>3. Variants' = Variants /\ Names' = Names /\ tree' = tree
      BY <2>1, WorldStays DEF tree
    <3>4. ASSUME NEW m, NEW c PROVE Said(m, c)' = Said(m, c)
      <4>1. \A i : i \in 1 .. pass' - 1 <=> i \in 1 .. pass - 1 \/ i = pass
        BY <2>1, <2>3
      <4> QED
        BY <2>1, <3>2, <3>3, <4>1, DueStays DEF Said
    <3>5. \A line : Count(line)' = Count(line)
      BY <2>1 DEF Count
    <3>6. Counted' = Counted
      BY <2>1, <3>3, <3>4, <3>5, ActionStays DEF Counted
    <3>7. \A v \in Variants : raised'[v] \subseteq Due(v)' /\ (v \in done' => Due(v)' \subseteq raised'[v])
      BY <2>1, <3>1, <3>2
    <3> QED
      BY <2>1, <2>3, <3>3, <3>6, <3>7 DEF LogInv
  <2> QED
    BY <2>1, <2>2, <2>3
<1>6. CASE UNCHANGED vars
  BY <1>6, NothingSaid DEF vars
<1> QED
  BY <1>0, <1>1, <1>2, <1>3, <1>4, <1>5, <1>6, ConfigureLog, WarnStep DEF Next

(***************************************************************************)
(* The end.  Once there is an exit code nothing happens any more.           *)
(***************************************************************************)
EndInv ==
  /\ pass = 12 => code # None /\ (errors > 0 => code = 1)
  /\ code = 0 => pass = 12 /\ errors = 0 /\ DOMAIN tcs # {}
  /\ pass > 9 /\ DOMAIN tcs # {} => "build.ninja" \in written
  /\ pass > 10 /\ world.metaFile => "metadata" \in written

\* The modules of which some of these variants keep a record.
Recorded(S) == {m \in Names : /\ tree.modules[m].kind \notin {"alias", "defaults"}
                              /\ \E v \in S : v \in Variants /\ v[1] = m}

RecordInv ==
  /\ pass < 7 => DOMAIN metaData = {}
  /\ pass = 7 => DOMAIN metaData = Recorded(done)
  /\ pass > 7 /\ DOMAIN tcs # {} => DOMAIN metaData = Recorded(Variants)

LEMMA InitEnd == Init => EndInv /\ RecordInv
<1> SUFFICES ASSUME Init PROVE EndInv /\ RecordInv
  OBVIOUS
<1>1. pass = 1 /\ code # 0 /\ DOMAIN metaData = {}
  BY NoneAssumption DEF Init
<1> QED
  BY <1>1 DEF EndInv, RecordInv

LEMMA NoneAfterCode ==
  ASSUME [Next]_vars, code # None
  PROVE  UNCHANGED vars
<1>1. ~Configure /\ ~NextPass /\ ~MetaDataWriteToFile /\ ~TearDownLogger
  BY DEF Configure, NextPass, MetaDataWriteToFile, TearDownLogger, PassIs
<1>2. ASSUME NEW m PROVE ~LookUpType(m) /\ ~BuildType(m) /\ ~Register(m)
  BY DEF LookUpType, BuildType, Register, PassIs
<1>3. ASSUME NEW v
      PROVE  /\ ~RaiseWarning(v) /\ ~OnlyWarns(v) /\ ~DependOnToolchain(v) /\ ~Collect(v)
             /\ ~LookUpFlag(v) /\ ~RunCompiler(v) /\ ~StoreAnswer(v) /\ ~EndLateTemplates(v)
  BY DEF RaiseWarning, OnlyWarns, DependOnToolchain, Collect, LookUpFlag, RunCompiler, StoreAnswer,
         EndLateTemplates, Asks, PassIs
<1> QED
  BY <1>1, <1>2, <1>3 DEF Next

\* A step of a visit: no pass ends.
LEMMA VisitEnd ==
  ASSUME EndInv, UNCHANGED <<world, tcs, pass, written>>, pass \in 2 .. 9, code' \in {None, 1}
  PROVE  EndInv'
<1>1. code' # 0 /\ pass' \in 2 .. 9
  BY NoneAssumption
<1> QED
  BY <1>1 DEF EndInv

LEMMA ConfigureEnd ==
  ASSUME LogInv, EndInv, RecordInv, Configure
  PROVE  EndInv' /\ RecordInv'
<1>1. pass = 1 /\ DOMAIN tcs = {} /\ code = None
  BY PassNumbers DEF LogInv, Configure, PassIs
<1>2. \/ pass' = 10 /\ tcs' = tcs
      \/ pass' = 2
  <2>1. (CHOOSE i \in DOMAIN Passes : Passes[i] = "metadata_file") = 10
    BY PassNumbers
  <2>2. \/ pass' = 10 /\ tcs' = tcs
        \/ pass' = pass + 1
    BY <2>1, Zenon DEF Configure
  <2> QED
    BY <1>1, <2>2
<1>3. code' # 0 /\ metaData' = metaData
  BY <1>1, NoneAssumption DEF Configure
<1> QED
  BY <1>1, <1>2, <1>3 DEF EndInv, RecordInv

LEMMA NextPassEnd ==
  ASSUME LogInv, EndInv, RecordInv, NextPass
  PROVE  EndInv' /\ RecordInv'
<1>1. pass \in 2 .. 9 /\ pass' = pass + 1 /\ code' # 0
  BY NoneAssumption, PassNumbers DEF LogInv, NextPass
<1>2. UNCHANGED <<world, tcs, metaData>> /\ done = Visitors /\ done' = {}
  BY DEF NextPass
<1>3. pass = 9 => "build.ninja" \in written'
  BY DEF NextPass, Passes
<1>4. EndInv'
  BY <1>1, <1>2, <1>3 DEF EndInv
<1>5. Variants' = Variants /\ Names' = Names /\ tree' = tree
  BY <1>2, WorldStays DEF tree
<1>6. pass = 7 => Visitors = Variants
  BY DEF Visitors, Passes
<1>7. Recorded(Variants)' = Recorded(Variants)
  BY <1>5 DEF Recorded
<1>8. Recorded(done)' = {}
  BY <1>2 DEF Recorded
<1>9. RecordInv'
  <2>1. CASE pass < 6
    BY <1>1, <1>2, <2>1 DEF RecordInv
  <2>2. CASE pass = 6
    BY <1>1, <1>2, <1>8, <2>2 DEF RecordInv
  <2>3. CASE pass = 7
    <3>1. DOMAIN metaData = Recorded(Variants)
      BY <1>2, <1>6, <2>3 DEF RecordInv
    <3> QED
      BY <1>1, <1>2, <1>7, <2>3, <3>1 DEF RecordInv
  <2>4. CASE pass > 7
    BY <1>1, <1>2, <1>7, <2>4 DEF RecordInv
  <2> QED
    BY <1>1, <2>1, <2>2, <2>3, <2>4
<1> QED
  BY <1>4, <1>9

LEMMA VisitRecord ==
  ASSUME LogInv, RecordInv, UNCHANGED <<world, tcs, pass, metaData>>, pass = 7 => done' = done
  PROVE  RecordInv'
<1>1. Variants' = Variants /\ Names' = Names /\ tree' = tree
  BY WorldStays DEF tree
<1>2. Recorded(Variants)' = Recorded(Variants) /\ (pass = 7 => Recorded(done)' = Recorded(done))
  BY <1>1 DEF Recorded
<1> QED
  BY <1>2 DEF RecordInv

LEMMA CollectRecord ==
  ASSUME LogInv, RecordInv, NEW v \in Variants, Collect(v)
  PROVE  RecordInv'
<1>1. pass = 7 /\ UNCHANGED <<world, tcs, pass>> /\ done' = done \cup {v}
  BY PassNumbers DEF LogInv, Collect, PassIs, Ends
<1>2. Variants' = Variants /\ Names' = Names /\ tree' = tree /\ v[1] \in Names
  BY <1>1, WorldStays DEF tree, Variants
<1>3. DOMAIN metaData' = IF tree.modules[v[1]].kind \in {"alias", "defaults"} THEN DOMAIN metaData
                         ELSE DOMAIN metaData \cup {v[1]}
  BY DEF Collect, Put
<1>4. Recorded(done)' = IF tree.modules[v[1]].kind \in {"alias", "defaults"} THEN Recorded(done)
                        ELSE Recorded(done) \cup {v[1]}
  BY <1>1, <1>2 DEF Recorded
<1> QED
  BY <1>1, <1>3, <1>4 DEF RecordInv

LEMMA NextEnd == TInv /\ LogInv /\ EndInv /\ RecordInv /\ [Next]_vars => EndInv' /\ RecordInv'
<1> SUFFICES ASSUME TInv, LogInv, EndInv, RecordInv, [Next]_vars PROVE EndInv' /\ RecordInv'
  OBVIOUS
<1>0. pass \in 1 .. 12 /\ errors \in Nat
  BY DEF LogInv, TInv, TypeOK
<1>u. ASSUME UNCHANGED vars PROVE EndInv' /\ RecordInv'
  <2>1. UNCHANGED <<world, tcs, pass, metaData, written, code, errors, done>>
    BY <1>u DEF vars
  <2> QED
    BY <2>1, VisitRecord DEF EndInv
<1>1. ASSUME NEW m \in Names, LookUpType(m) \/ BuildType(m) \/ Register(m) PROVE EndInv' /\ RecordInv'
  <2>1. pass \in {2, 3} /\ UNCHANGED <<world, tcs, pass, metaData, written>> /\ code' \in {None, 1}
    BY <1>0, <1>1, PassNumbers DEF LookUpType, BuildType, Register, PassIs
  <2> QED
    BY <2>1, VisitEnd, VisitRecord
<1>2. ASSUME NEW v \in Variants,
             \/ RaiseWarning(v) \/ OnlyWarns(v) \/ DependOnToolchain(v)
             \/ LookUpFlag(v) \/ RunCompiler(v) \/ StoreAnswer(v) \/ EndLateTemplates(v)
      PROVE  EndInv' /\ RecordInv'
  <2>1. UNCHANGED <<world, tcs, pass, metaData, written, code>> /\ code = None
    BY <1>2 DEF RaiseWarning, OnlyWarns, DependOnToolchain, LookUpFlag, RunCompiler, StoreAnswer,
                EndLateTemplates, Asks, PassIs
  <2>2. CASE RaiseWarning(v)
    <3>1. PICK c : c \in Due(v)
      BY <2>2 DEF RaiseWarning
    <3>2. pass \in {4, 6, 8, 9}
      BY <1>0, <3>1, DueOnce
    <3> QED
      BY <2>1, <3>2, VisitEnd, VisitRecord
  <2>3. CASE ~RaiseWarning(v)
    <3>1. pass \in {4, 5, 6, 8, 9}
      BY <1>0, <1>2, <2>3, PassNumbers DEF OnlyWarns, DependOnToolchain, LookUpFlag, RunCompiler,
                  StoreAnswer, EndLateTemplates, Asks, PassIs
    <3> QED
      BY <2>1, <3>1, VisitEnd, VisitRecord
  <2> QED
    BY <2>2, <2>3
<1>3. ASSUME NEW v \in Variants, Collect(v) PROVE EndInv' /\ RecordInv'
  <2>1. UNCHANGED <<world, tcs, pass, written, code>> /\ code = None /\ pass = 7
    BY <1>0, <1>3, PassNumbers DEF Collect, PassIs
  <2> QED
    BY <1>3, <2>1, VisitEnd, CollectRecord
<1>4. CASE MetaDataWriteToFile
  <2>1. UNCHANGED <<world, tcs, metaData, errors, done>> /\ pass = 10 /\ code = None
    BY <1>0, <1>4, PassNumbers DEF MetaDataWriteToFile, PassIs
  <2>2. \/ pass' = 11 /\ code' = code /\ (world.metaFile => "metadata" \in written')
        \/ pass' = 10 /\ code' = 1 /\ written' = written
    BY <1>4, <2>1 DEF MetaDataWriteToFile
  <2>3. written \subseteq written' /\ code' # 0
    BY <1>4, <2>1, <2>2, NoneAssumption DEF MetaDataWriteToFile
  <2>4. EndInv'
    BY <2>1, <2>2, <2>3 DEF EndInv
  <2>5. Recorded(Variants)' = Recorded(Variants)
    BY <2>1, WorldStays DEF Recorded, tree
  <2> QED
    BY <2>1, <2>2, <2>4, <2>5 DEF RecordInv
<1>5. CASE TearDownLogger
  <2>1. UNCHANGED <<world, tcs, metaData, errors, done, written>> /\ pass = 11 /\ pass' = 12
    BY <1>0, <1>5, PassNumbers DEF TearDownLogger, PassIs
  <2>2. /\ errors > 0 => code' = 1
        /\ code' \in {0, 1, 2}
        /\ code' = 0 => errors = 0 /\ DOMAIN tcs # {}
    <3>1. code' = IF errors > 0 THEN 1 ELSE IF DOMAIN tcs = {} THEN 2 ELSE 0
      BY <1>5 DEF TearDownLogger
    <3>2. ~(errors > 0) => errors = 0
      BY <1>0
    <3> QED
      BY <3>1, <3>2
  <2>4. EndInv'
    BY <2>1, <2>2, NoneAssumption DEF EndInv
  <2>5. Recorded(Variants)' = Recorded(Variants)
    BY <2>1, WorldStays DEF Recorded, tree
  <2> QED
    BY <2>1, <2>4, <2>5 DEF RecordInv
<1> QED
  BY <1>u, <1>1, <1>2, <1>3, <1>4, <1>5, ConfigureEnd, NextPassEnd DEF Next

LEMMA Told ==
  ASSUME TInv, LogInv, EndInv, RecordInv
  PROVE  ExitTells
<1>0. pass \in 1 .. 12 /\ errors \in Nat
  BY DEF LogInv, TInv, TypeOK
<1> DEFINE recorded   == {m \in Names : tree.modules[m].variants # {}
                                          /\ tree.modules[m].kind \notin {"alias", "defaults"}}
           said(m, c) == {v \in Variants : v[1] = m /\ \E name \in ToSet(Passes) : c \in DueIn(v, name)}
<1>1. Recorded(Variants) = recorded
  <2>1. ASSUME NEW m \in Names
        PROVE  tree.modules[m].variants # {} <=> \E v \in Variants : v[1] = m
    <3>1. tree.modules[m].variants \subseteq TgtTypes
      BY WorldAssumption DEF LogInv, Names, tree
    <3>2. ASSUME NEW t \in tree.modules[m].variants PROVE <<m, t>> \in Variants /\ <<m, t>>[1] = m
      BY <3>1 DEF Variants
    <3>3. ASSUME NEW v \in Variants, v[1] = m PROVE v[2] \in tree.modules[m].variants
      BY <3>3 DEF Variants
    <3> QED
      BY <3>2, <3>3
  <2> QED
    BY <2>1 DEF Recorded
<1>2. ASSUME pass = 11, NEW m, NEW c PROVE Said(m, c) = said(m, c)
  <2>1. \A v \in Variants : c \notin raised[v]
    BY <1>2, DueOnce DEF LogInv
  <2>2. \A v : c \notin DueIn(v, Passes[11]) /\ c \notin DueIn(v, Passes[12])
    BY DEF DueIn, Passes
  <2>3. ASSUME NEW v
        PROVE  (\E name \in ToSet(Passes) : c \in DueIn(v, name)) <=> \E i \in 1 .. pass - 1 : c \in DueIn(v, Passes[i])
    <3>1. ToSet(Passes) = {Passes[i] : i \in 1 .. 12}
      BY DEF ToSet, Passes
    <3>2. \A i : i \in 1 .. 12 <=> i \in 1 .. pass - 1 \/ i = 11 \/ i = 12
      BY <1>2
    <3> QED
      BY <2>2, <3>1, <3>2
  <2> QED
    BY <2>1, <2>3 DEF Said
<1>3. code = 0 => /\ \A line \in DOMAIN log : line[2] # "error"
                  /\ "build.ninja" \in written
                  /\ world.metaFile => "metadata" \in written /\ DOMAIN metaData = recorded
  <2> SUFFICES ASSUME code = 0
               PROVE  /\ \A line \in DOMAIN log : line[2] # "error"
                      /\ "build.ninja" \in written
                      /\ world.metaFile => "metadata" \in written /\ DOMAIN metaData = recorded
    OBVIOUS
  <2>1. pass = 12 /\ errors = 0 /\ DOMAIN tcs # {}
    BY DEF EndInv
  <2>2. \A line \in DOMAIN log : line[2] # "error"
    BY <2>1 DEF LogInv
  <2>3. DOMAIN metaData = recorded
    BY <1>1, <2>1 DEF RecordInv
  <2> QED
    BY <2>1, <2>2, <2>3 DEF EndInv
<1>4. DOMAIN tcs # {} /\ PassIs("teardown")
      => \A m \in Names : \A c \in tree.modules[m].warns :
            Count(<<m, ActionFor(c), c>>) = Cardinality(said(m, c))
  <2>1. PassIs("teardown") => pass = 11
    BY <1>0, PassNumbers DEF PassIs
  <2>2. DOMAIN tcs # {} => Counted
    BY DEF LogInv
  <2> HIDE DEF said
  <2> QED
    BY <1>2, <2>1, <2>2 DEF Counted
<1>5. errors > 0 /\ Passes[pass] = "end" => code = 1
  BY <1>0, PassNumbers DEF EndInv
<1> HIDE DEF recorded, said
<1> QED
  BY <1>3, <1>4, <1>5 DEF ExitTells, recorded, said

(* Exit code 0 tells what it should: no warning counts as an error, the     *)
(* build file and the record of every module are there, and no warning of   *)
(* any visit is lost or counted twice.                                      *)
THEOREM ExitTold == Spec => []ExitTells
<1>1. Init => TInv /\ LogInv /\ EndInv /\ RecordInv
  BY InitTyped, InitLog, InitEnd
<1>2. TInv /\ LogInv /\ EndInv /\ RecordInv /\ [Next]_vars => (TInv /\ LogInv /\ EndInv /\ RecordInv)'
  BY NextTyped, NextLog, NextEnd
<1> QED
  BY <1>1, <1>2, Told, PTL DEF Spec
=============================================================================

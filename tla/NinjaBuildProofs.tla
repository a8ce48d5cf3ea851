---------------------------- MODULE NinjaBuildProofs ----------------------------
(***************************************************************************)
(* What ninja leaves of a build directory, for every set of statements     *)
(* that fits (StatementsFit): every command finds what it opens, and a     *)
(* finished build holds what a build from nothing would have made,         *)
(* whatever was edited, deleted or interrupted before.                     *)
(*                                                                         *)
(* A plan that fits is Solid: its orders are transitive and nobody comes   *)
(* before himself, each file has one command that writes it, and whatever  *)
(* a command opens it watches, itself or through others.  Between its      *)
(* commands a build directory is Settled: a command has made what it would *)
(* make now, unless it or one of those who bring it news is stale.         *)
(*                                                                         *)
(* Last, and for every tree: the Linux and the Android ninja back end make *)
(* the same statements of each module that both take (BackendsAgree).      *)
(***************************************************************************)
EXTENDS NinjaBuild, RecursionLemmas, FiniteSetTheorems, TLAPS

\* A set and what one step along the pairs of R adds to it.
Out(T, R) == T \cup {e[2] : e \in {x \in R : x[1] \in T}}

\* Where the pairs of R start, and how many such places there are.
Starts(R) == {e[1] : e \in R}
Steps(R) == Cardinality(Starts(R))

\* A closure is the last of as many steps as there are places to start from.
LEMMA ClosureRun ==
  ASSUME NEW S, NEW R, IsFiniteSet(Starts(R))
  PROVE  \E W : /\ Steps(R) \in Nat /\ Closure(S, R) = W[Steps(R)] /\ W[0] = S
                /\ \A i \in 1 .. Steps(R) : W[i] = Out(W[i - 1], R)
<1> DEFINE k == Steps(R)
<1>1. k \in Nat
  BY FS_CardinalityType DEF Steps
<1>0. k = Cardinality({e[1] : e \in R})
  BY DEF Steps, Starts
<1> HIDE DEF k
<1> DEFINE A == SUBSET (S \cup {e[2] : e \in R})
           F == [p \in (1 .. k) \X A |-> Out(p[2], R)]
<1>2. S \in A /\ F \in [(1 .. k) \X A -> A]
  BY DEF Out
<1>3. Runs(k, A, S, F) # {}
  <2> HIDE DEF A, F
  <2> QED
    BY ONLY <1>1, <1>2, RunExists
<1>4. PICK f : f \in [0 .. k -> A] /\ f[0] = S /\ \A i \in 1 .. k : f[i] = F[<<i, f[i - 1]>>]
  <2> HIDE DEF A, F
  <2> QED
    BY <1>3, Zenon DEF Runs
<1>5. \A i \in 1 .. k : f[i] = Out(f[i - 1], R)
  <2> SUFFICES ASSUME NEW i \in 1 .. k PROVE f[i] = Out(f[i - 1], R)
    OBVIOUS
  <2>1. i - 1 \in 0 .. k
    BY <1>1
  <2>2. f[i - 1] \in A
    BY <1>4, <2>1
  <2>3. F[<<i, f[i - 1]>>] = Out(f[i - 1], R)
    BY <2>2
  <2> HIDE DEF A, F
  <2> QED
    BY <1>4, <2>3
<1> DEFINE G(g) == [n \in 0 .. k |-> IF n = 0 THEN S ELSE Out(g[n - 1], R)]
           h == CHOOSE g : g = G(g)
<1>6. f = G(f)
  <2>1. f = [n \in 0 .. k |-> f[n]]
    <3> HIDE DEF A, F
    <3> QED
      BY <1>4
  <2>2. \A n \in 0 .. k : f[n] = IF n = 0 THEN S ELSE Out(f[n - 1], R)
    <3> HIDE DEF A, F
    <3> QED
      BY <1>1, <1>4, <1>5
  <2> HIDE DEF A, F
  <2> QED
    BY <2>1, <2>2
<1>7. h = G(h)
  <2> HIDE DEF G
  <2> QED
    BY <1>6
<1>8. Closure(S, R) = h[k]
  BY <1>0, Zenon DEF Closure, Out
<1> HIDE DEF h
<1>9. h[0] = S /\ \A i \in 1 .. k : h[i] = Out(h[i - 1], R)
  <2>1. 0 \in 0 .. k /\ \A i \in 1 .. k : i \in 0 .. k /\ i # 0
    BY <1>1
  <2> DEFINE V(n) == IF n = 0 THEN S ELSE Out(h[n - 1], R)
  <2>2. \A n \in 0 .. k : h[n] = V(n)
    <3>1. h = [n \in 0 .. k |-> V(n)]
      BY <1>7
    <3> HIDE DEF V
    <3> QED
      BY <3>1
  <2> QED
    BY <2>1, <2>2
<1> QED
  BY <1>1, <1>8, <1>9 DEF k

\* No closed set around S leaves out what the closure holds.
LEMMA ClosureLeast ==
  ASSUME NEW S, NEW R, IsFiniteSet(Starts(R)), NEW T, S \subseteq T,
         \A e \in R : e[1] \in T => e[2] \in T
  PROVE  Closure(S, R) \subseteq T
<1>0. PICK W : /\ Steps(R) \in Nat /\ Closure(S, R) = W[Steps(R)] /\ W[0] = S
               /\ \A i \in 1 .. Steps(R) : W[i] = Out(W[i - 1], R)
  <2>1. IsFiniteSet(Starts(R))
    OBVIOUS
  <2> QED
    BY ONLY <2>1, ClosureRun
<1> DEFINE k == Steps(R)
<1>1. /\ k \in Nat /\ Closure(S, R) = W[k] /\ W[0] = S
      /\ \A i \in 1 .. k : W[i] = Out(W[i - 1], R)
  BY <1>0
<1> HIDE DEF k
<1> DEFINE N == {i \in 0 .. k : W[i] \subseteq T}
<1>2. 0 \in N
  BY <1>1
<1>3. ASSUME NEW i \in 1 .. k, i - 1 \in N PROVE i \in N
  <2>1. W[i - 1] \subseteq T /\ W[i] = Out(W[i - 1], R) /\ i \in 0 .. k
    BY <1>1, <1>3
  <2>2. Out(W[i - 1], R) \subseteq T
    BY <2>1 DEF Out
  <2> QED
    BY <2>1, <2>2
<1> HIDE DEF N
<1>4. \A i \in 0 .. k : i \in N
  BY <1>1, <1>2, <1>3, IntervalInduction
<1>5. k \in N
  BY <1>1, <1>4
<1> QED
  BY <1>1, <1>5 DEF N

\* The closure holds S, and every step along R stays in it.
LEMMA ClosureClosed ==
  ASSUME NEW S, NEW R, IsFiniteSet(Starts(R))
  PROVE  /\ S \subseteq Closure(S, R)
         /\ \A e \in R : e[1] \in Closure(S, R) => e[2] \in Closure(S, R)
<1> DEFINE D == Starts(R)
           k == Steps(R)
           Shut(T) == \A e \in R : e[1] \in T => e[2] \in T
<1>1. PICK W : /\ k \in Nat /\ Closure(S, R) = W[k] /\ W[0] = S
               /\ \A i \in 1 .. k : W[i] = Out(W[i - 1], R)
  BY ClosureRun
<1>d. D = {e[1] : e \in R} /\ IsFiniteSet(D) /\ k = Cardinality(D)
  BY DEF Starts, Steps
<1> HIDE DEF k, D
<1>f. ASSUME NEW T
      PROVE  /\ IsFiniteSet(T \cap D) /\ Cardinality(T \cap D) \in Nat
             /\ T \cap D = {} => Shut(T)
  <2>1. IsFiniteSet(T \cap D)
    BY <1>d, FS_Subset
  <2>2. Cardinality(T \cap D) \in Nat
    BY <2>1, FS_CardinalityType
  <2> QED
    BY <2>1, <2>2, <1>d
<1> DEFINE N == {i \in 0 .. k : S \subseteq W[i] /\ (Shut(W[i]) \/ Cardinality(W[i] \cap D) > i)}
<1>2. 0 \in N
  <2>0. 0 \in 0 .. k /\ S \subseteq W[0]
    BY <1>1
  <2>1. CASE W[0] \cap D = {}
    <3>1. Shut(W[0])
      BY <1>f, <2>1
    <3> QED
      BY <2>0, <3>1
  <2>2. CASE W[0] \cap D # {}
    <3>1. Cardinality(W[0] \cap D) # 0
      BY <1>f, <2>2, FS_EmptySet
    <3>2. Cardinality(W[0] \cap D) > 0
      <4> DEFINE c == Cardinality(W[0] \cap D)
      <4>1. c \in Nat
        BY <1>f
      <4> QED
        BY <3>1, <4>1
    <3> QED
      BY <2>0, <3>2
  <2> QED
    BY <2>1, <2>2
<1>3. ASSUME NEW i \in 1 .. k, i - 1 \in N PROVE i \in N
  <2>1. /\ S \subseteq W[i - 1] /\ i \in 0 .. k /\ W[i] = Out(W[i - 1], R)
        /\ Shut(W[i - 1]) \/ Cardinality(W[i - 1] \cap D) > i - 1
    BY <1>1, <1>3
  <2>2. W[i - 1] \subseteq W[i] /\ \A e \in R : e[1] \in W[i - 1] => e[2] \in W[i]
    BY <2>1 DEF Out
  <2>3. CASE Shut(W[i - 1])
    <3>1. W[i] = W[i - 1]
      BY <2>1, <2>3 DEF Out
    <3> QED
      BY <2>1, <2>3, <3>1
  <2>4. CASE W[i] \cap D = W[i - 1] \cap D
    <3>1. Shut(W[i])
      BY <1>d, <2>2, <2>4
    <3> QED
      BY <2>1, <2>2, <3>1
  <2>5. CASE Cardinality(W[i - 1] \cap D) > i - 1 /\ W[i] \cap D # W[i - 1] \cap D
    <3> DEFINE a == Cardinality(W[i - 1] \cap D)
               b == Cardinality(W[i] \cap D)
    <3>1. a \in Nat /\ b \in Nat
      BY <1>f
    <3>2. a <= b /\ a # b
      <4>1. W[i - 1] \cap D \in SUBSET (W[i] \cap D)
        BY <2>2
      <4>2. IsFiniteSet(W[i] \cap D)
        BY <1>f
      <4>3. a <= b /\ (b = a => W[i] \cap D = W[i - 1] \cap D)
        BY <4>1, <4>2, FS_Subset
      <4> QED
        BY <2>5, <4>3
    <3>3. b > i
      <4>1. i \in Nat /\ a > i - 1
        BY <1>1, <2>5
      <4> HIDE DEF a, b
      <4> QED
        BY <3>1, <3>2, <4>1
    <3> QED
      BY <2>1, <2>2, <3>3
  <2> QED
    BY <2>1, <2>3, <2>4, <2>5
<1> HIDE DEF N
<1>4. \A i \in 0 .. k : i \in N
  BY <1>1, <1>2, <1>3, IntervalInduction
<1>5. k \in N
  BY <1>1, <1>4
<1>6. ~(Cardinality(W[k] \cap D) > k)
  <2>1. Cardinality(W[k] \cap D) <= Cardinality(D)
    BY <1>d, FS_Subset
  <2>2. Cardinality(W[k] \cap D) \in Nat
    BY <1>f
  <2> QED
    BY <1>1, <1>d, <2>1, <2>2
<1> QED
  BY <1>1, <1>5, <1>6 DEF N

-----------------------------------------------------------------------------
(* What a plan is made of *)

\* Table changes nothing: it only asks TLC to keep the function.
LEMMA TableSame ==
  ASSUME NEW f
  PROVE  Table(f) = f
BY DEF Table

\* The transitive closure of a function: it holds each edge, goes on along
\* the edges, and holds nothing else.
LEMMA FollowCloses ==
  ASSUME NEW E, E = [i \in DOMAIN E |-> E[i]], IsFiniteSet(DOMAIN E)
  PROVE  LET F == Follow(E) IN
         /\ DOMAIN F = DOMAIN E
         /\ \A i \in DOMAIN E : E[i] \subseteq F[i]
         /\ \A i, j \in DOMAIN E : j \in F[i] => E[j] \subseteq F[i]
         /\ \A i \in DOMAIN E : \A T :
                E[i] \subseteq T /\ (\A j \in DOMAIN E \cap T : E[j] \subseteq T) => F[i] \subseteq T
<1> DEFINE pairs == UNION {{i} \X E[i] : i \in DOMAIN E}
           C == [i \in DOMAIN E |-> Closure(E[i], pairs)]
<1>1. Follow(E) = C
  <2>2. Table(C) = C
    <3> HIDE DEF C
    <3> QED
      BY TableSame
  <2> QED
    BY <2>2, Zenon DEF Follow
<1>2. \A i, j : <<i, j>> \in pairs <=> i \in DOMAIN E /\ j \in E[i]
  OBVIOUS
<1>3. \A e \in pairs : e = <<e[1], e[2]>>
  OBVIOUS
<1>4. IsFiniteSet(Starts(pairs))
  <2>1. Starts(pairs) \in SUBSET DOMAIN E
    BY DEF Starts
  <2> QED
    BY <2>1, FS_Subset
<1>5. \A i \in DOMAIN E : C[i] = Closure(E[i], pairs)
  OBVIOUS
<1>6. DOMAIN C = DOMAIN E
  OBVIOUS
<1> HIDE DEF pairs, C
<1>7. ASSUME NEW i \in DOMAIN E
      PROVE  /\ E[i] \subseteq C[i]
             /\ \A e \in pairs : e[1] \in C[i] => e[2] \in C[i]
  <2>1. C[i] = Closure(E[i], pairs)
    BY <1>5
  <2> QED
    BY ONLY <1>4, <2>1, ClosureClosed
<1>8. ASSUME NEW i \in DOMAIN E, NEW j \in DOMAIN E, j \in C[i] PROVE E[j] \subseteq C[i]
  <2> SUFFICES ASSUME NEW k \in E[j] PROVE k \in C[i]
    OBVIOUS
  <2>1. <<j, k>> \in pairs
    BY <1>2
  <2> QED
    BY <1>7, <1>8, <2>1
<1>9. ASSUME NEW i \in DOMAIN E, NEW T, E[i] \subseteq T, \A j \in DOMAIN E \cap T : E[j] \subseteq T
      PROVE  C[i] \subseteq T
  <2>1. \A e \in pairs : e[1] \in T => e[2] \in T
    BY <1>2, <1>3, <1>9
  <2>2. E[i] \subseteq T
    BY <1>9
  <2>3. Closure(E[i], pairs) \subseteq T
    BY ONLY <1>4, <2>1, <2>2, ClosureLeast
  <2> QED
    BY <1>5, <2>3
<1> QED
  BY <1>1, <1>6, <1>7, <1>8, <1>9

\* From one to the next and on from there is from the one.
LEMMA FollowTransitive ==
  ASSUME NEW E, E = [i \in DOMAIN E |-> E[i]], IsFiniteSet(DOMAIN E),
         NEW i \in DOMAIN E, NEW j \in DOMAIN E, j \in Follow(E)[i]
  PROVE  Follow(E)[j] \subseteq Follow(E)[i]
<1> DEFINE F == Follow(E)
<1>1. /\ \A x, y \in DOMAIN E : y \in F[x] => E[y] \subseteq F[x]
      /\ \A x \in DOMAIN E : \A T :
             E[x] \subseteq T /\ (\A y \in DOMAIN E \cap T : E[y] \subseteq T) => F[x] \subseteq T
  BY FollowCloses
<1> HIDE DEF F
<1>2. E[j] \subseteq F[i] /\ \A y \in DOMAIN E \cap F[i] : E[y] \subseteq F[i]
  BY <1>1 DEF F
<1>3. F[j] \subseteq F[i]
  BY <1>1, <1>2
<1> QED
  BY <1>3 DEF F

\* The parts of a plan, as PlanOf computes them: T, N and D are the edges
\* that lead through phony statements, to what is needed and to what is found.
Ids(P) == DOMAIN P.stmt
AllMade(P) == UNION {P.stmt[i].outs : i \in Ids(P)}
AllConsumed(P) == UNION {Needs(P.stmt[i]) \cup P.stmt[i].reads : i \in Ids(P)}
Makers(P, paths) == UNION {P.producers[p] : p \in paths \cap AllMade(P)}
PlannedEdges(P, T, N, D) ==
    /\ T = [i \in Ids(P) |-> T[i]] /\ N = [i \in Ids(P) |-> N[i]] /\ D = [i \in Ids(P) |-> D[i]]
    /\ \A i \in Ids(P) :
           /\ T[i] = {j \in Makers(P, P.stmt[i].in \cup P.stmt[i].imp) : P.stmt[j].rule = "phony"}
           /\ N[i] = Makers(P, Needs(P.stmt[i]))
           /\ D[i] = Makers(P, Needs(P.stmt[i]) \cup Discovered(P.stmt[i]))
    /\ P.upstream = Follow(N) /\ P.found = Follow(D)
PlannedWatch(P, T) ==
    \A p \in AllMade(P) \cup AllConsumed(P) : \A i :
        i \in P.watchers[p] <=>
            /\ i \in Ids(P) /\ P.stmt[i].rule # "phony"
            /\ \/ p \in Discovered(P.stmt[i])
               \/ \E j \in {i} \cup Follow(T)[i] : p \in P.stmt[j].in \cup P.stmt[j].imp
PlannedFiles(P) ==
    /\ P.commands = {i \in Ids(P) : P.stmt[i].rule # "phony"}
    /\ DOMAIN P.producers = AllMade(P)
    /\ \A p \in AllMade(P) : P.producers[p] = {i \in Ids(P) : p \in P.stmt[i].outs}
    /\ P.files = {p \in AllMade(P) : \A i \in P.producers[p] : P.stmt[i].rule # "phony"}
    /\ P.sources = AllConsumed(P) \ AllMade(P)
    /\ \A i \in Ids(P) : \A p :
           p \in P.extras[i] <=> /\ P.stmt[i].rule = "gen_split"
                                /\ \E k \in Ids(P) : /\ P.stmt[k].rule = "touch" /\ P.stmt[k].in = P.stmt[i].outs
                                                     /\ p \in P.stmt[k].outs
    /\ \A p \in P.files : \A i : P.producers[p] = {i} =>
           IF P.stmt[i].rule # "touch" THEN P.maker[p] = i
           ELSE (\E j \in Ids(P) : p \in P.extras[j]) => P.maker[p] \in Ids(P) /\ p \in P.extras[P.maker[p]]
    /\ P.default = {i \in Ids(P) : P.stmt[i].default}
Planned(P) == PlannedFiles(P) /\ \E T, N, D : PlannedEdges(P, T, N, D) /\ PlannedWatch(P, T)

\* PlanOf computes a plan whose parts are these.
LEMMA PlanOfPlanned ==
  ASSUME NEW c
  PROVE  Planned(PlanOf(c))
<1> DEFINE stmt == FoldSet(LAMBDA s, list : Append(list, s), <<>>, Statements(c))
           ids == DOMAIN stmt
           made == UNION {stmt[i].outs : i \in ids}
           consumed == UNION {Needs(stmt[i]) \cup stmt[i].reads : i \in ids}
           producers == Table([p \in made |-> {i \in ids : p \in stmt[i].outs}])
           makers(paths) == UNION {producers[p] : p \in paths \cap made}
           upstream == Follow(Table([i \in ids |-> makers(Needs(stmt[i]))]))
           found == Follow(Table([i \in ids |-> makers(Needs(stmt[i]) \cup Discovered(stmt[i]))]))
           through == Follow(Table([i \in ids |-> {j \in makers(stmt[i].in \cup stmt[i].imp) : stmt[j].rule = "phony"}]))
           watched(i) == (UNION {stmt[j].in \cup stmt[j].imp : j \in {i} \cup through[i]})
                         \cup Discovered(stmt[i])
           extras(i) == IF stmt[i].rule # "gen_split" THEN {}
                        ELSE UNION {stmt[j].outs : j \in {k \in ids : stmt[k].rule = "touch" /\ stmt[k].in = stmt[i].outs}}
           watching == Table([i \in ids |-> watched(i)])
           files == {p \in made : \A i \in producers[p] : stmt[i].rule # "phony"}
           maker(p) == LET i == CHOOSE j \in producers[p] : TRUE
                       IN IF stmt[i].rule = "touch" THEN CHOOSE j \in ids : p \in extras(j) ELSE i
           makerT == Table([p \in files |-> maker(p)])
           commands == {i \in ids : stmt[i].rule # "phony"}
           extrasT == Table([i \in ids |-> extras(i)])
           watchersT == Table([p \in made \cup consumed |-> {i \in ids : stmt[i].rule # "phony" /\ p \in watching[i]}])
           namesT == {p \in made : \E i \in producers[p] : stmt[i].rule = "phony"}
           defaultT == {i \in ids : stmt[i].default}
           P == [stmt |-> stmt, maker |-> makerT, commands |-> commands, files |-> files,
                 sources |-> consumed \ made, producers |-> producers, upstream |-> upstream, found |-> found,
                 extras |-> extrasT, watchers |-> watchersT, names |-> namesT, default |-> defaultT]
<1>1. PlanOf(c) = P
  BY Zenon DEF PlanOf
<1>2. SUFFICES Planned(P)
  BY <1>1
<1> HIDE DEF stmt
<1>3. P.stmt = stmt /\ Ids(P) = ids /\ AllMade(P) = made /\ AllConsumed(P) = consumed
  <2>1. P.stmt = stmt
    OBVIOUS
  <2> HIDE DEF P
  <2> QED
    BY <2>1 DEF Ids, AllMade, AllConsumed
<1>p. producers = [p \in made |-> {i \in ids : p \in stmt[i].outs}]
  <2> DEFINE f == [p \in made |-> {i \in ids : p \in stmt[i].outs}]
  <2> HIDE DEF f
  <2>2. Table(f) = f
    BY ONLY TableSame
  <2> QED
    BY <2>2 DEF f
<1>e. extrasT = [i \in ids |-> extras(i)]
  <2> DEFINE f == [i \in ids |-> extras(i)]
  <2> HIDE DEF f
  <2>2. Table(f) = f
    BY ONLY TableSame
  <2> QED
    BY <2>2 DEF f
<1>m. makerT = [p \in files |-> maker(p)]
  <2> DEFINE f == [p \in files |-> maker(p)]
  <2> HIDE DEF f
  <2>2. Table(f) = f
    BY ONLY TableSame
  <2> QED
    BY <2>2 DEF f
<1>w. watching = [i \in ids |-> watched(i)]
  <2> DEFINE f == [i \in ids |-> watched(i)]
  <2> HIDE DEF f
  <2>2. Table(f) = f
    BY ONLY TableSame
  <2> QED
    BY <2>2 DEF f
<1>v. watchersT = [p \in made \cup consumed |-> {i \in ids : stmt[i].rule # "phony" /\ p \in watching[i]}]
  <2> DEFINE f == [p \in made \cup consumed |-> {i \in ids : stmt[i].rule # "phony" /\ p \in watching[i]}]
  <2> HIDE DEF f
  <2>2. Table(f) = f
    BY ONLY TableSame
  <2> QED
    BY <2>2 DEF f
<1>u. upstream = Follow([i \in ids |-> makers(Needs(stmt[i]))])
  <2> DEFINE f == [i \in ids |-> makers(Needs(stmt[i]))]
  <2> HIDE DEF f
  <2>2. Table(f) = f
    BY ONLY TableSame
  <2> QED
    BY <2>2 DEF f
<1>f. found = Follow([i \in ids |-> makers(Needs(stmt[i]) \cup Discovered(stmt[i]))])
  <2> DEFINE f == [i \in ids |-> makers(Needs(stmt[i]) \cup Discovered(stmt[i]))]
  <2> HIDE DEF f
  <2>2. Table(f) = f
    BY ONLY TableSame
  <2> QED
    BY <2>2 DEF f
<1>t. through = Follow([i \in ids |-> {j \in makers(stmt[i].in \cup stmt[i].imp) : stmt[j].rule = "phony"}])
  <2> DEFINE f == [i \in ids |-> {j \in makers(stmt[i].in \cup stmt[i].imp) : stmt[j].rule = "phony"}]
  <2> HIDE DEF f
  <2>2. Table(f) = f
    BY ONLY TableSame
  <2> QED
    BY <2>2 DEF f
<1>q. /\ P.commands = commands /\ P.producers = producers /\ P.files = files /\ P.sources = consumed \ made
      /\ P.extras = extrasT /\ P.maker = makerT /\ P.upstream = upstream /\ P.found = found
      /\ P.watchers = watchersT /\ P.default = defaultT
  <2> HIDE DEF ids, made, consumed, producers, upstream, found, files, makerT, commands, extrasT, watchersT, namesT, defaultT
  <2> QED
    OBVIOUS
<1> HIDE DEF P
<1>r. P.stmt = stmt
  BY <1>3
<1>4. \A S : Makers(P, S) = makers(S)
  <2> SUFFICES ASSUME NEW S PROVE Makers(P, S) = makers(S)
    OBVIOUS
  <2> HIDE DEF made, producers
  <2> QED
    BY <1>3, <1>q DEF Makers
<1>a. P.commands = {i \in Ids(P) : P.stmt[i].rule # "phony"}
  BY <1>3, <1>q
<1>b. DOMAIN P.producers = AllMade(P)
  BY <1>3, <1>q, <1>p
<1>c. \A p \in AllMade(P) : P.producers[p] = {i \in Ids(P) : p \in P.stmt[i].outs}
  <2> HIDE DEF made, ids
  <2>1. \A p \in made : producers[p] = {i \in ids : p \in stmt[i].outs}
    BY <1>p
  <2> HIDE DEF producers
  <2> QED
    BY <1>3, <1>q, <2>1
<1>d. P.files = {p \in AllMade(P) : \A i \in P.producers[p] : P.stmt[i].rule # "phony"}
  <2> HIDE DEF made, producers
  <2> QED
    BY <1>3, <1>q
<1>e1. \A i \in ids : P.extras[i] = extras(i)
  <2> HIDE DEF extras, ids
  <2> QED
    BY <1>q, <1>e
<1>g. \A i \in Ids(P) : \A p :
         p \in P.extras[i] <=> /\ P.stmt[i].rule = "gen_split"
                              /\ \E k \in Ids(P) : /\ P.stmt[k].rule = "touch" /\ P.stmt[k].in = P.stmt[i].outs
                                                   /\ p \in P.stmt[k].outs
  <2> SUFFICES ASSUME NEW i \in ids, NEW p
               PROVE  p \in extras(i) <=> /\ stmt[i].rule = "gen_split"
                                         /\ \E k \in ids : /\ stmt[k].rule = "touch" /\ stmt[k].in = stmt[i].outs
                                                          /\ p \in stmt[k].outs
    <3> HIDE DEF extras, ids
    <3> QED
      BY <1>3, <1>r, <1>e1
  <2> HIDE DEF ids
  <2> QED
    OBVIOUS
<1>i. ASSUME NEW p \in P.files, NEW i, P.producers[p] = {i}
      PROVE  IF P.stmt[i].rule # "touch" THEN P.maker[p] = i
             ELSE (\E j \in Ids(P) : p \in P.extras[j]) => P.maker[p] \in Ids(P) /\ p \in P.extras[P.maker[p]]
  <2>1. P.maker[p] = maker(p) /\ producers[p] = {i} /\ p \in files
    <3> HIDE DEF producers, maker, files
    <3> QED
      BY <1>q, <1>m, <1>i
  <2>2. (CHOOSE j \in producers[p] : TRUE) = i
    <3> HIDE DEF producers
    <3>1. \A j : j \in producers[p] <=> j = i
      BY <2>1
    <3> QED
      BY <3>1
  <2>3. maker(p) = IF stmt[i].rule = "touch" THEN CHOOSE j \in ids : p \in extras(j) ELSE i
    <3> HIDE DEF extras, ids
    <3> DEFINE i0 == CHOOSE j \in producers[p] : TRUE
    <3>1. maker(p) = IF stmt[i0].rule = "touch" THEN CHOOSE j \in ids : p \in extras(j) ELSE i0
      BY Zenon
    <3>2. i0 = i
      BY <2>2
    <3> HIDE DEF i0, producers, maker
    <3> QED
      BY <3>1, <3>2
  <2>4. (\E j \in ids : p \in extras(j)) =>
            (CHOOSE j \in ids : p \in extras(j)) \in ids /\ p \in extras(CHOOSE j \in ids : p \in extras(j))
    <3> HIDE DEF extras, ids
    <3> QED
      OBVIOUS
  <2> HIDE DEF extras, ids, maker
  <2> QED
    BY <1>3, <1>r, <1>e1, <2>1, <2>3, <2>4
<1>f1. PlannedFiles(P)
  <2>1. P.sources = AllConsumed(P) \ AllMade(P) /\ P.default = {i \in Ids(P) : P.stmt[i].default}
    BY <1>3, <1>q
  <2> HIDE DEF ids, made, producers, files, makers, maker, makerT, extras, extrasT
  <2> QED
    BY ONLY <1>a, <1>b, <1>c, <1>d, <1>g, <1>i, <2>1 DEF PlannedFiles
<1> DEFINE T == [i \in ids |-> {j \in makers(stmt[i].in \cup stmt[i].imp) : stmt[j].rule = "phony"}]
           N == [i \in ids |-> makers(Needs(stmt[i]))]
           D == [i \in ids |-> makers(Needs(stmt[i]) \cup Discovered(stmt[i]))]
<1>j. PlannedEdges(P, T, N, D)
  <2> HIDE DEF ids, makers
  <2>1. T = [i \in ids |-> T[i]] /\ N = [i \in ids |-> N[i]] /\ D = [i \in ids |-> D[i]]
    OBVIOUS
  <2>2. \A i \in ids : /\ T[i] = {j \in makers(stmt[i].in \cup stmt[i].imp) : stmt[j].rule = "phony"}
                       /\ N[i] = makers(Needs(stmt[i]))
                       /\ D[i] = makers(Needs(stmt[i]) \cup Discovered(stmt[i]))
    OBVIOUS
  <2>3. P.upstream = Follow(N) /\ P.found = Follow(D)
    <3> HIDE DEF upstream, found
    <3> QED
      BY <1>q, <1>u, <1>f
  <2>5. Ids(P) = ids
    BY <1>3
  <2> HIDE DEF T, N, D
  <2>6. \A i \in ids : {j \in makers(stmt[i].in \cup stmt[i].imp) : stmt[j].rule = "phony"}
                       = {j \in Makers(P, P.stmt[i].in \cup P.stmt[i].imp) : P.stmt[j].rule = "phony"}
    BY ONLY <1>r, <1>4
  <2>4. \A i \in Ids(P) :
           /\ T[i] = {j \in Makers(P, P.stmt[i].in \cup P.stmt[i].imp) : P.stmt[j].rule = "phony"}
           /\ N[i] = Makers(P, Needs(P.stmt[i]))
           /\ D[i] = Makers(P, Needs(P.stmt[i]) \cup Discovered(P.stmt[i]))
    BY ONLY <1>r, <1>4, <2>2, <2>5, <2>6
  <2> QED
    BY ONLY <2>1, <2>3, <2>4, <2>5 DEF PlannedEdges
<1>k. PlannedWatch(P, T)
  <2>0. through = Follow(T)
    <3> HIDE DEF through
    <3> QED
      BY <1>t
  <2> HIDE DEF ids, made, consumed, T, through
  <2>1. \A i \in ids : watching[i] = watched(i)
    <3> HIDE DEF watched
    <3> QED
      BY <1>w
  <2> HIDE DEF watching
  <2>2. \A p \in made \cup consumed : P.watchers[p] = {i \in ids : stmt[i].rule # "phony" /\ p \in watching[i]}
    BY <1>q, <1>v
  <2>3. \A i, p : p \in watched(i) <=> \/ p \in Discovered(stmt[i])
                                     \/ \E j \in {i} \cup Follow(T)[i] : p \in stmt[j].in \cup stmt[j].imp
    <3> SUFFICES ASSUME NEW i, NEW p
                 PROVE  p \in watched(i) <=> \/ p \in Discovered(stmt[i])
                                            \/ \E j \in {i} \cup Follow(T)[i] : p \in stmt[j].in \cup stmt[j].imp
      OBVIOUS
    <3>1. watched(i) = (UNION {stmt[j].in \cup stmt[j].imp : j \in {i} \cup Follow(T)[i]}) \cup Discovered(stmt[i])
      BY <2>0
    <3> HIDE DEF watched
    <3> QED
      BY <3>1
  <2> HIDE DEF watched
  <2>4. \A p \in made \cup consumed : \A i :
          i \in P.watchers[p] <=> /\ i \in ids /\ stmt[i].rule # "phony"
                                 /\ \/ p \in Discovered(stmt[i])
                                    \/ \E j \in {i} \cup Follow(T)[i] : p \in stmt[j].in \cup stmt[j].imp
    <3> SUFFICES ASSUME NEW p \in made \cup consumed, NEW i
                 PROVE  i \in P.watchers[p] <=> /\ i \in ids /\ stmt[i].rule # "phony" /\ p \in watched(i)
      BY <2>3
    <3> QED
      BY <2>1, <2>2
  <2> QED
    BY ONLY <1>3, <1>r, <2>4 DEF PlannedWatch
<1> QED
  <2> HIDE DEF T, N, D
  <2> QED
    BY ONLY <1>f1, <1>j, <1>k DEF Planned

-----------------------------------------------------------------------------
(* What a plan that fits gives *)

\* A path has one maker; what a command makes is a file and no source.
Owned(P) ==
    /\ P.commands \subseteq Ids(P)
    /\ \A i \in P.commands : \A p \in P.stmt[i].outs :
           p \in P.files /\ p \notin P.sources /\ P.producers[p] = {i}
    /\ \A p \in P.files : p \notin P.sources /\ \E i \in P.commands : P.producers[p] = {i} /\ p \in P.stmt[i].outs

\* The orders: before is transitive and nobody comes before himself; who is
\* found to come before holds who must; who watches a file comes after it.
Ordered(P) ==
    /\ IsFiniteSet(Ids(P))
    /\ \A i \in Ids(P) : P.upstream[i] \subseteq Ids(P) /\ i \notin P.upstream[i] /\ P.upstream[i] \subseteq P.found[i]
    /\ \A i \in Ids(P) : \A j \in P.upstream[i] : P.upstream[j] \subseteq P.upstream[i]
    /\ \A i \in P.commands : \A p \in P.stmt[i].in \cap P.files :
           i \in P.watchers[p] /\ P.producers[p] \subseteq P.upstream[i]
    /\ \A p \in P.files : \A i \in P.watchers[p] : P.producers[p] \subseteq P.upstream[i]
    /\ \A p \in P.files \cup P.sources : P.watchers[p] \subseteq P.commands

\* The command that writes a file: its maker, or the one it is an extra of.
Written(P) ==
    /\ \A i \in P.commands : P.stmt[i].rule # "touch" =>
           \A p \in P.stmt[i].outs \cup P.extras[i] : p \in P.files /\ P.maker[p] = i
    /\ \A p \in P.files :
           /\ P.maker[p] \in P.commands /\ P.stmt[P.maker[p]].rule # "touch"
           /\ p \in P.stmt[P.maker[p]].outs \cup P.extras[P.maker[p]]
           /\ \A i \in P.producers[p] : i = P.maker[p] \/ P.maker[p] \in P.upstream[i]
    /\ \A i \in P.commands : \A p \in P.extras[i] :
           /\ P.stmt[i].rule = "gen_split" /\ ~Lost(p)
           /\ \E t \in P.commands : /\ P.producers[p] = {t} /\ P.stmt[t].rule = "touch"
                                    /\ P.stmt[t].in = P.stmt[i].outs

\* Who carries news to a command: himself, and commands before him that move
\* their outputs at every run, one of which is watched by another carrier.
Carried(P) ==
    \A i \in P.commands :
        /\ i \in Carriers(P, i)
        /\ \A k \in Carriers(P, i) \ {i} :
               /\ k \in P.commands /\ k \in P.upstream[i] /\ ~P.stmt[k].restat /\ P.stmt[k].rule # "touch"
               /\ \E p \in P.stmt[k].outs : Carriers(P, i) \cap P.watchers[p] # {}

\* One maker.
LEMMA PlanOwned ==
  ASSUME NEW P, Planned(P), OneMaker(P), NoCycle(P)
  PROVE  Owned(P)
<1>1. PlannedFiles(P) /\ IsFiniteSet(Ids(P))
  BY DEF Planned, NoCycle, Ids
<1>2. /\ P.commands = {i \in Ids(P) : P.stmt[i].rule # "phony"}
      /\ DOMAIN P.producers = AllMade(P)
      /\ \A p \in AllMade(P) : P.producers[p] = {i \in Ids(P) : p \in P.stmt[i].outs}
      /\ P.files = {p \in AllMade(P) : \A i \in P.producers[p] : P.stmt[i].rule # "phony"}
      /\ P.sources = AllConsumed(P) \ AllMade(P)
  BY <1>1 DEF PlannedFiles
<1>3. \A p : \A i \in Ids(P) : p \in P.stmt[i].outs => p \in AllMade(P)
  BY DEF AllMade
<1>4. ASSUME NEW p \in AllMade(P) PROVE \E x \in Ids(P) : P.producers[p] = {x}
  <2>1. Cardinality(P.producers[p]) = 1
    BY <1>2, <1>4 DEF OneMaker
  <2>2. P.producers[p] \in SUBSET Ids(P)
    BY <1>2, <1>4
  <2>3. IsFiniteSet(P.producers[p])
    BY <1>1, <2>2, FS_Subset
  <2>4. PICK x : P.producers[p] = {x}
    BY <2>1, <2>3, FS_Singleton
  <2> QED
    BY <2>2, <2>4
<1>5. ASSUME NEW i \in P.commands, NEW p \in P.stmt[i].outs
      PROVE  p \in P.files /\ p \notin P.sources /\ P.producers[p] = {i}
  <2>1. p \in AllMade(P) /\ i \in P.producers[p]
    BY <1>2, <1>3
  <2>2. P.producers[p] = {i}
    BY <1>4, <2>1
  <2> QED
    BY <1>2, <2>1, <2>2
<1>6. ASSUME NEW p \in P.files PROVE p \notin P.sources /\ \E i \in P.commands : P.producers[p] = {i} /\ p \in P.stmt[i].outs
  <2>1. p \in AllMade(P)
    BY <1>2
  <2>2. PICK x \in Ids(P) : P.producers[p] = {x}
    BY <1>4, <2>1
  <2>3. P.stmt[x].rule # "phony" /\ p \in P.stmt[x].outs
    BY <1>2, <2>1, <2>2
  <2> QED
    BY <1>2, <2>1, <2>2, <2>3
<1>7. P.commands \subseteq Ids(P)
  BY <1>2
<1> QED
  BY ONLY <1>5, <1>6, <1>7 DEF Owned

\* What a statement asks for and ninja makes is made before it.
LEMMA PlanOrdered ==
  ASSUME NEW P, Planned(P), OneMaker(P), NoCycle(P), ReadsDeclared(P)
  PROVE  Ordered(P)
<1>1. PICK T, N, D : PlannedEdges(P, T, N, D) /\ PlannedWatch(P, T)
  BY DEF Planned
<1>2. /\ T = [i \in Ids(P) |-> T[i]] /\ N = [i \in Ids(P) |-> N[i]] /\ D = [i \in Ids(P) |-> D[i]]
      /\ P.upstream = Follow(N) /\ P.found = Follow(D)
  BY <1>1 DEF PlannedEdges
<1>3. DOMAIN T = Ids(P) /\ DOMAIN N = Ids(P) /\ DOMAIN D = Ids(P)
  <2>1. \A E : E = [i \in Ids(P) |-> E[i]] => DOMAIN E = Ids(P)
    OBVIOUS
  <2> QED
    BY ONLY <1>2, <2>1
<1>4. \A i \in Ids(P) :
         /\ T[i] = {j \in Makers(P, P.stmt[i].in \cup P.stmt[i].imp) : P.stmt[j].rule = "phony"}
         /\ N[i] = Makers(P, Needs(P.stmt[i]))
         /\ D[i] = Makers(P, Needs(P.stmt[i]) \cup Discovered(P.stmt[i]))
  BY <1>1 DEF PlannedEdges
<1>5. IsFiniteSet(Ids(P)) /\ (\A i \in DOMAIN P.upstream : i \notin P.upstream[i])
  BY DEF NoCycle, Ids
<1>6. PlannedFiles(P)
  BY DEF Planned
<1>7. /\ P.commands = {i \in Ids(P) : P.stmt[i].rule # "phony"}
      /\ \A p \in AllMade(P) : P.producers[p] = {i \in Ids(P) : p \in P.stmt[i].outs}
      /\ P.files \subseteq AllMade(P) /\ P.sources \subseteq AllConsumed(P)
  BY <1>6 DEF PlannedFiles
<1>m. ASSUME NEW S PROVE Makers(P, S) \subseteq Ids(P)
  BY <1>7 DEF Makers
<1>n. \A A, B : A \subseteq B => Makers(P, A) \subseteq Makers(P, B)
  BY DEF Makers
<1>p. \A S, p : p \in S /\ p \in AllMade(P) => P.producers[p] \subseteq Makers(P, S)
  BY DEF Makers
<1> DEFINE U == P.upstream
<1>8. /\ DOMAIN U = Ids(P)
      /\ \A i \in Ids(P) : N[i] \subseteq U[i]
      /\ \A i, j \in Ids(P) : j \in U[i] => N[j] \subseteq U[i]
      /\ \A i \in Ids(P) : \A S : N[i] \subseteq S /\ (\A j \in Ids(P) \cap S : N[j] \subseteq S) => U[i] \subseteq S
  <2>1. N = [i \in DOMAIN N |-> N[i]] /\ IsFiniteSet(DOMAIN N)
    BY <1>2, <1>3, <1>5
  <2> QED
    BY ONLY <1>2, <1>3, <2>1, FollowCloses
<1>9. /\ \A i \in Ids(P) : D[i] \subseteq P.found[i]
      /\ \A i, j \in Ids(P) : j \in P.found[i] => D[j] \subseteq P.found[i]
  <2>1. D = [i \in DOMAIN D |-> D[i]] /\ IsFiniteSet(DOMAIN D)
    BY <1>2, <1>3, <1>5
  <2> QED
    BY ONLY <1>2, <1>3, <2>1, FollowCloses
<1>10. /\ \A i \in Ids(P) : \A S : T[i] \subseteq S /\ (\A j \in Ids(P) \cap S : T[j] \subseteq S) => Follow(T)[i] \subseteq S
  <2>1. T = [i \in DOMAIN T |-> T[i]] /\ IsFiniteSet(DOMAIN T)
    BY <1>2, <1>3, <1>5
  <2> QED
    BY ONLY <1>3, <2>1, FollowCloses
<1> HIDE DEF U
<1>u. U = P.upstream
  BY DEF U
<1>11. ASSUME NEW i \in Ids(P) PROVE U[i] \subseteq Ids(P)
  <2>1. N[i] \subseteq Ids(P) /\ \A j \in Ids(P) \cap Ids(P) : N[j] \subseteq Ids(P)
    BY <1>4, <1>m
  <2> QED
    BY <1>8, <2>1
<1>12. ASSUME NEW i \in Ids(P), NEW j \in U[i] PROVE U[j] \subseteq U[i]
  <2>1. j \in Ids(P)
    BY <1>11
  <2>2. N[j] \subseteq U[i] /\ \A k \in Ids(P) \cap U[i] : N[k] \subseteq U[i]
    BY <1>8, <2>1
  <2> QED
    BY <1>8, <2>1, <2>2
<1>13. ASSUME NEW i \in Ids(P) PROVE U[i] \subseteq P.found[i]
  <2>1. \A j \in Ids(P) : N[j] \subseteq D[j]
    <3> SUFFICES ASSUME NEW j \in Ids(P) PROVE N[j] \subseteq D[j]
      OBVIOUS
    <3>1. Needs(P.stmt[j]) \subseteq Needs(P.stmt[j]) \cup Discovered(P.stmt[j])
      OBVIOUS
    <3>2. Makers(P, Needs(P.stmt[j])) \subseteq Makers(P, Needs(P.stmt[j]) \cup Discovered(P.stmt[j]))
      BY <1>n, <3>1, Zenon
    <3> QED
      BY <1>4, <3>2
  <2>2. N[i] \subseteq P.found[i] /\ \A j \in Ids(P) \cap P.found[i] : N[j] \subseteq P.found[i]
    BY <1>9, <2>1
  <2> QED
    BY <1>8, <2>2
<1>14. ASSUME NEW i \in Ids(P) PROVE Follow(T)[i] \subseteq U[i]
  <2>1. ASSUME NEW j \in Ids(P) PROVE T[j] \subseteq N[j]
    <3>1. P.stmt[j].in \cup P.stmt[j].imp \subseteq Needs(P.stmt[j])
      BY DEF Needs
    <3> DEFINE A == P.stmt[j].in \cup P.stmt[j].imp
    <3>3. A \subseteq Needs(P.stmt[j])
      BY <3>1
    <3>4. T[j] \subseteq Makers(P, A)
      BY <1>4
    <3> HIDE DEF A
    <3>2. Makers(P, A) \subseteq Makers(P, Needs(P.stmt[j]))
      BY <1>n, <3>3, Zenon
    <3> QED
      BY <1>4, <3>2, <3>4
  <2>2. T[i] \subseteq U[i] /\ \A j \in Ids(P) \cap U[i] : T[j] \subseteq U[i]
    BY <1>8, <2>1
  <2> QED
    BY <1>10, <2>2
<1>15. ASSUME NEW j \in Ids(P), NEW p \in P.stmt[j].in \cup P.stmt[j].imp, p \in P.files
       PROVE  P.producers[p] \subseteq U[j]
  <2>1. p \in Needs(P.stmt[j]) /\ p \in AllMade(P)
    BY <1>15, <1>7 DEF Needs
  <2>2. P.producers[p] \subseteq Makers(P, Needs(P.stmt[j]))
    BY <1>p, <2>1, Zenon
  <2>3. N[j] = Makers(P, Needs(P.stmt[j])) /\ N[j] \subseteq U[j]
    BY <1>4, <1>8
  <2> QED
    BY ONLY <2>2, <2>3
<1>16. ASSUME NEW p \in P.files, NEW i \in P.watchers[p] PROVE i \in P.commands /\ P.producers[p] \subseteq U[i]
  <2>1. /\ i \in Ids(P) /\ P.stmt[i].rule # "phony"
        /\ \/ p \in Discovered(P.stmt[i])
           \/ \E j \in {i} \cup Follow(T)[i] : p \in P.stmt[j].in \cup P.stmt[j].imp
    BY <1>1, <1>7 DEF PlannedWatch
  <2>2. i \in P.commands
    BY <1>7, <2>1
  <2>3. CASE p \in Discovered(P.stmt[i])
    <3>1. p \in P.stmt[i].reads
      BY <2>3 DEF Discovered
    <3> QED
      BY <2>2, <3>1, <1>u DEF ReadsDeclared
  <2>4. CASE \E j \in {i} \cup Follow(T)[i] : p \in P.stmt[j].in \cup P.stmt[j].imp
    <3>1. PICK j \in {i} \cup Follow(T)[i] : p \in P.stmt[j].in \cup P.stmt[j].imp
      BY <2>4
    <3>2. j = i \/ j \in U[i]
      BY <1>14, <2>1
    <3>3. j \in Ids(P)
      BY <1>11, <2>1, <3>2
    <3>4. P.producers[p] \subseteq U[j]
      BY <1>15, <3>1, <3>3
    <3> QED
      BY <1>12, <2>1, <2>2, <3>2, <3>4
  <2> QED
    BY <2>1, <2>3, <2>4
<1>17. ASSUME NEW i \in P.commands, NEW p \in P.stmt[i].in, p \in P.files
       PROVE  i \in P.watchers[p] /\ P.producers[p] \subseteq U[i]
  <2>1. i \in Ids(P) /\ P.stmt[i].rule # "phony" /\ p \in AllMade(P)
    BY <1>7, <1>17
  <2>2. i \in P.watchers[p]
    BY <1>1, <2>1 DEF PlannedWatch
  <2> QED
    BY <1>15, <1>17, <2>1, <2>2
<1>18. ASSUME NEW p \in P.files \cup P.sources PROVE P.watchers[p] \subseteq P.commands
  <2>1. p \in AllMade(P) \cup AllConsumed(P)
    BY <1>7
  <2>2. \A i \in P.watchers[p] : i \in Ids(P) /\ P.stmt[i].rule # "phony"
    BY <1>1, <2>1 DEF PlannedWatch
  <2> QED
    BY <1>7, <2>2
<1>19. \A i \in Ids(P) : i \notin U[i]
  BY <1>5, <1>8, <1>u
<1>20. /\ \A i \in Ids(P) : U[i] \subseteq Ids(P) /\ i \notin U[i] /\ U[i] \subseteq P.found[i]
       /\ \A i \in Ids(P) : \A j \in U[i] : U[j] \subseteq U[i]
       /\ \A i \in P.commands : \A p \in P.stmt[i].in \cap P.files :
              i \in P.watchers[p] /\ P.producers[p] \subseteq U[i]
       /\ \A p \in P.files : \A i \in P.watchers[p] : P.producers[p] \subseteq U[i]
       /\ \A p \in P.files \cup P.sources : P.watchers[p] \subseteq P.commands
  BY <1>11, <1>12, <1>13, <1>16, <1>17, <1>18, <1>19
<1> QED
  BY <1>5, <1>20 DEF Ordered, U

\* Who writes each file.
LEMMA PlanWritten ==
  ASSUME NEW P, Planned(P), Owned(P), Ordered(P), ExtrasFollow(P)
  PROVE  Written(P)
<1>1. PlannedFiles(P)
  BY DEF Planned
<1>2. /\ P.commands = {i \in Ids(P) : P.stmt[i].rule # "phony"}
      /\ \A i \in Ids(P) : \A p :
           p \in P.extras[i] <=> /\ P.stmt[i].rule = "gen_split"
                                /\ \E k \in Ids(P) : /\ P.stmt[k].rule = "touch" /\ P.stmt[k].in = P.stmt[i].outs
                                                     /\ p \in P.stmt[k].outs
      /\ \A p \in P.files : \A i : P.producers[p] = {i} =>
           IF P.stmt[i].rule # "touch" THEN P.maker[p] = i
           ELSE (\E j \in Ids(P) : p \in P.extras[j]) => P.maker[p] \in Ids(P) /\ p \in P.extras[P.maker[p]]
  BY <1>1 DEF PlannedFiles
<1>3. /\ P.commands \subseteq Ids(P)
      /\ \A i \in P.commands : \A p \in P.stmt[i].outs : p \in P.files /\ P.producers[p] = {i}
      /\ \A p \in P.files : \E i \in P.commands : P.producers[p] = {i} /\ p \in P.stmt[i].outs
  BY DEF Owned
<1>4. ASSUME NEW i \in Ids(P), NEW p \in P.extras[i]
      PROVE  /\ i \in P.commands /\ P.stmt[i].rule = "gen_split" /\ ~Lost(p) /\ p \in P.files
             /\ \E t \in P.commands : /\ P.producers[p] = {t} /\ P.stmt[t].rule = "touch"
                                      /\ P.stmt[t].in = P.stmt[i].outs
  <2>1. PICK k \in Ids(P) : /\ P.stmt[k].rule = "touch" /\ P.stmt[k].in = P.stmt[i].outs
                            /\ p \in P.stmt[k].outs
    BY <1>2, <1>4
  <2>2. P.stmt[i].rule = "gen_split"
    BY <1>2, <1>4
  <2>3. i \in P.commands /\ k \in P.commands
    BY <1>2, <2>1, <2>2
  <2>4. ~Lost(p)
    BY <2>1, <2>3 DEF ExtrasFollow
  <2> QED
    BY <1>3, <2>1, <2>2, <2>3, <2>4
\* Whose extra a file is follows from what its touch waits for.
<1>5. ASSUME NEW i \in Ids(P), NEW j \in Ids(P), NEW p, p \in P.extras[i], p \in P.extras[j] PROVE i = j
  <2>1. PICK t \in P.commands : P.producers[p] = {t} /\ P.stmt[t].in = P.stmt[i].outs
    BY <1>4, <1>5
  <2>2. PICK u \in P.commands : P.producers[p] = {u} /\ P.stmt[u].in = P.stmt[j].outs
    BY <1>4, <1>5
  <2>3. t = u /\ P.stmt[i].outs = P.stmt[j].outs
    BY <2>1, <2>2
  <2>4. i \in P.commands /\ j \in P.commands /\ P.stmt[i].rule = "gen_split"
    BY <1>4, <1>5
  <2>5. P.stmt[i].outs # {}
    BY <2>4 DEF ExtrasFollow
  <2>6. PICK q : q \in P.stmt[i].outs
    BY <2>5
  <2>7. P.producers[q] = {i} /\ P.producers[q] = {j}
    BY <1>3, <2>3, <2>4, <2>6
  <2> QED
    BY <2>7
<1>6. ASSUME NEW i \in P.commands, P.stmt[i].rule # "touch", NEW p \in P.stmt[i].outs
      PROVE  p \in P.files /\ P.maker[p] = i
  BY <1>2, <1>3, <1>6
<1>7. ASSUME NEW i \in P.commands, NEW p \in P.extras[i]
      PROVE  p \in P.files /\ P.maker[p] = i
  <2>1. i \in Ids(P)
    BY <1>3
  <2>2. PICK t \in P.commands : P.producers[p] = {t} /\ P.stmt[t].rule = "touch"
    BY <1>4, <2>1
  <2>3. p \in P.files
    BY <1>4, <2>1
  <2>4. P.maker[p] \in Ids(P) /\ p \in P.extras[P.maker[p]]
    BY <1>2, <2>1, <2>2, <2>3
  <2> QED
    BY <1>5, <2>1, <2>3, <2>4
<1>8. ASSUME NEW p \in P.files
      PROVE  /\ P.maker[p] \in P.commands /\ P.stmt[P.maker[p]].rule # "touch"
             /\ p \in P.stmt[P.maker[p]].outs \cup P.extras[P.maker[p]]
             /\ \A i \in P.producers[p] : i = P.maker[p] \/ P.maker[p] \in P.upstream[i]
  <2>1. PICK i \in P.commands : P.producers[p] = {i} /\ p \in P.stmt[i].outs
    BY <1>3
  <2>2. CASE P.stmt[i].rule # "touch"
    <3>1. P.maker[p] = i
      BY <1>2, <2>1, <2>2
    <3> QED
      BY <2>1, <2>2, <3>1
  <2>3. CASE P.stmt[i].rule = "touch"
    <3>1. PICK g \in P.commands : P.stmt[g].rule = "gen_split" /\ P.stmt[i].in = P.stmt[g].outs
      BY <2>3 DEF ExtrasFollow
    <3>2. g \in Ids(P) /\ i \in Ids(P)
      BY <1>3
    <3>3. p \in P.extras[g]
      BY <1>2, <2>1, <2>3, <3>1, <3>2
    <3>4. P.maker[p] = g
      BY <1>7, <3>3
    <3>5. P.stmt[g].outs # {}
      BY <3>1 DEF ExtrasFollow
    <3>6. PICK q : q \in P.stmt[g].outs
      BY <3>5
    <3>7. q \in P.files /\ P.producers[q] = {g}
      BY <1>3, <3>6
    <3>8. P.producers[q] \subseteq P.upstream[i]
      BY <3>1, <3>6, <3>7 DEF Ordered
    <3>9. g \in P.upstream[i]
      BY <3>7, <3>8
    <3> QED
      BY <2>1, <3>1, <3>3, <3>4, <3>9
  <2> QED
    BY <2>2, <2>3
<1>9. \A i \in P.commands : \A p \in P.extras[i] :
           /\ P.stmt[i].rule = "gen_split" /\ ~Lost(p)
           /\ \E t \in P.commands : /\ P.producers[p] = {t} /\ P.stmt[t].rule = "touch"
                                    /\ P.stmt[t].in = P.stmt[i].outs
  BY <1>3, <1>4
<1>10. \A i \in P.commands : P.stmt[i].rule # "touch" =>
           \A p \in P.stmt[i].outs \cup P.extras[i] : p \in P.files /\ P.maker[p] = i
  BY <1>6, <1>7
<1>11. \A p \in P.files :
           /\ P.maker[p] \in P.commands /\ P.stmt[P.maker[p]].rule # "touch"
           /\ p \in P.stmt[P.maker[p]].outs \cup P.extras[P.maker[p]]
           /\ \A i \in P.producers[p] : i = P.maker[p] \/ P.maker[p] \in P.upstream[i]
  BY <1>8
<1> QED
  BY ONLY <1>9, <1>10, <1>11 DEF Written

\* What a carrier is.
LEMMA PlanCarried ==
  ASSUME NEW P, Owned(P), Ordered(P)
  PROVE  Carried(P)
<1> DEFINE moves == {k \in P.commands : ~P.stmt[k].restat /\ P.stmt[k].rule # "touch"}
           followers(k) == UNION {P.watchers[p] : p \in P.stmt[k].outs}
           R == UNION {followers(k) \X {k} : k \in moves}
<1> SUFFICES ASSUME NEW i \in P.commands
             PROVE  /\ i \in Carriers(P, i)
                    /\ \A k \in Carriers(P, i) \ {i} :
                          /\ k \in P.commands /\ k \in P.upstream[i] /\ ~P.stmt[k].restat /\ P.stmt[k].rule # "touch"
                          /\ \E p \in P.stmt[k].outs : Carriers(P, i) \cap P.watchers[p] # {}
  BY DEF Carried
<1>1. Carriers(P, i) = Closure({i}, R)
  BY Zenon DEF Carriers
<1>2. \A e \in R : e[2] \in moves /\ \E p \in P.stmt[e[2]].outs : e[1] \in P.watchers[p]
  OBVIOUS
<1>3. IsFiniteSet(Ids(P)) /\ P.commands \subseteq Ids(P)
  BY DEF Ordered, Owned
<1>4. \A k \in moves : \A p \in P.stmt[k].outs : p \in P.files /\ P.producers[p] = {k}
  BY DEF Owned
<1>5. \A p \in P.files : \A x \in P.watchers[p] : P.producers[p] \subseteq P.upstream[x]
  BY DEF Ordered
<1>6. \A p \in P.files : P.watchers[p] \subseteq P.commands
  BY DEF Ordered
<1>7. \A x \in Ids(P) : \A j \in P.upstream[x] : P.upstream[j] \subseteq P.upstream[x]
  BY DEF Ordered
<1>m. moves \subseteq P.commands
  OBVIOUS
<1> DEFINE C == Carriers(P, i)
           S == {i} \cup {k \in moves : k \in P.upstream[i] /\ \E p \in P.stmt[k].outs : C \cap P.watchers[p] # {}}
<1>8. IsFiniteSet(Starts(R))
  <2>1. Starts(R) \in SUBSET Ids(P)
    <3> SUFFICES ASSUME NEW e \in R PROVE e[1] \in Ids(P)
      BY DEF Starts
    <3> HIDE DEF R, moves
    <3>1. PICK p \in P.stmt[e[2]].outs : e[1] \in P.watchers[p]
      BY <1>2
    <3>2. p \in P.files
      BY <1>2, <1>4
    <3> QED
      BY <1>3, <1>6, <3>1, <3>2
  <2> QED
    BY <1>3, <2>1, FS_Subset
<1> HIDE DEF R
<1>9. i \in C /\ \A e \in R : e[1] \in C => e[2] \in C
  <2>1. {i} \subseteq Closure({i}, R) /\ \A e \in R : e[1] \in Closure({i}, R) => e[2] \in Closure({i}, R)
    BY ONLY <1>8, ClosureClosed
  <2> QED
    BY <1>1, <2>1
<1> HIDE DEF C
<1>10. \A e \in R : e[1] \in C \cap S => e[2] \in C \cap S
  <2> SUFFICES ASSUME NEW e \in R, e[1] \in C, e[1] \in S PROVE e[2] \in C /\ e[2] \in S
    OBVIOUS
  <2> HIDE DEF S, moves
  <2>1. e[2] \in C /\ e[2] \in moves
    BY <1>2, <1>9
  <2>2. PICK p \in P.stmt[e[2]].outs : e[1] \in P.watchers[p]
    BY <1>2
  <2>3. p \in P.files /\ P.producers[p] = {e[2]}
    BY <1>4, <2>1
  <2>4. e[2] \in P.upstream[e[1]]
    BY <1>5, <2>2, <2>3
  <2>5. e[1] = i \/ e[1] \in P.upstream[i]
    BY DEF S
  <2>6. e[2] \in P.upstream[i]
    BY <1>3, <1>7, <2>4, <2>5
  <2>7. C \cap P.watchers[p] # {}
    BY <2>2
  <2> QED
    BY <2>1, <2>6, <2>7 DEF S
<1>11. C \subseteq C \cap S
  <2>1. {i} \subseteq C \cap S
    BY <1>9
  <2> HIDE DEF S
  <2>2. Closure({i}, R) \subseteq C \cap S
    BY ONLY <1>8, <1>10, <2>1, ClosureLeast
  <2> QED
    BY <1>1, <2>2 DEF C
<1>12. i \in C /\ \A k \in C \ {i} :
                          /\ k \in P.commands /\ k \in P.upstream[i] /\ ~P.stmt[k].restat /\ P.stmt[k].rule # "touch"
                          /\ \E p \in P.stmt[k].outs : C \cap P.watchers[p] # {}
  BY <1>9, <1>11
<1> QED
  BY <1>12 DEF C

-----------------------------------------------------------------------------
(* What is true between the commands of a build *)

\* A plan that fits, with what has been proved of it.
Solid(P) ==
    Owned(P) /\ Ordered(P) /\ Written(P) /\ Carried(P) /\ ReadsDeclared(P) /\ ExtrasFollow(P)

\* What a path holds, for sources v and a disk d.
Held(P, v, d, p) == IF p \in P.sources THEN OfSource(p, v) ELSE IF p \in DOMAIN d THEN d[p] ELSE {}

\* Of the files a command reads it sees some change, itself or through its
\* carriers; some are links and hold nothing; of the others it looks at a
\* table of contents, and that is what it takes of them.
Sees(P, i, q) == Carriers(P, i) \cap P.watchers[q] # {}
Bare(P, q) == q \in P.files /\ P.stmt[P.maker[q]].reads = {}
TocFor(P, i, q) == CHOOSE t \in TocsOf(P, q) : Sees(P, i, t)
Looks(P, i) ==
    {q \in P.stmt[i].reads : Sees(P, i, q)}
    \cup {TocFor(P, i, q) : q \in {x \in P.stmt[i].reads : ~Sees(P, i, x) /\ ~Bare(P, x)}}
Taken(P, v, d, i, q) ==
    IF Sees(P, i, q) THEN Seen(P.stmt[i], q, Held(P, v, d, q))
    ELSE IF Bare(P, q) THEN {} ELSE Held(P, v, d, TocFor(P, i, q))
Fresh(P, v, d, i, p) == Made(P.stmt[i], p, UNION {Taken(P, v, d, i, q) : q \in P.stmt[i].reads})
UpToDate(P, v, d, i) ==
    \A p \in P.stmt[i].outs \cup P.extras[i] : p \in DOMAIN d /\ d[p] = Fresh(P, v, d, i, p)

\* A command none of whose carriers is stale, and who looks at nothing that
\* is missing or unseen, has made what it would make now.
Current(P, v, d, st, un) ==
    \A i \in P.commands :
        P.stmt[i].rule # "touch" /\ Carriers(P, i) \cap st = {} /\ Looks(P, i) \cap (un \cup (P.files \ DOMAIN d)) = {}
        => UpToDate(P, v, d, i)
\* What is missing will be made again.
MissingStale(P, d, st) == \A p \in P.files \ DOMAIN d : P.maker[p] \in st
\* A link holds nothing of its own.
LinksBare(P, d) == \A p \in DOMAIN d : Bare(P, p) => d[p] = {}
\* While the first output of a split command is there, so are the extra
\* ones, and they say what it says.
ExtrasMatch(P, d) ==
    \A g \in P.commands : P.stmt[g].rule = "gen_split" =>
        \A m \in P.stmt[g].outs \cap DOMAIN d : \A e \in P.extras[g] :
            e \in DOMAIN d /\ d[e] = Made(P.stmt[g], e, d[m])
\* What was written behind ninja's back is an extra output still to be touched.
UnseenStale(P, d, st, un) ==
    \A e \in un : e \in DOMAIN d /\ P.producers[e] \subseteq st /\ \E g \in P.commands : e \in P.extras[g]

Settled(P, v, d, st, un) ==
    /\ DOMAIN d \subseteq P.files /\ st \subseteq P.commands /\ un \subseteq P.files
    /\ Current(P, v, d, st, un) /\ MissingStale(P, d, st) /\ LinksBare(P, d)
    /\ ExtrasMatch(P, d) /\ UnseenStale(P, d, st, un)

\* The table of contents a link looks at in place of a library.
LEMMA TocForIs ==
  ASSUME NEW P, Solid(P), NEW i \in P.commands, NEW q \in P.stmt[i].reads, ~Sees(P, i, q), ~Bare(P, q)
  PROVE  LET t == TocFor(P, i, q) IN
         /\ t \in P.files /\ Sees(P, i, t) /\ TakesInterface(P.stmt[i], q)
         /\ P.stmt[P.maker[t]].rule = "toc" /\ P.stmt[P.maker[t]].reads = {q}
<1>1. Told(P, i, q)
  BY DEF Solid, ReadsDeclared
<1>2. TakesInterface(P.stmt[i], q) /\ \E t \in TocsOf(P, q) : Sees(P, i, t)
  BY <1>1 DEF Told, Sees, Bare
<1> DEFINE t == TocFor(P, i, q)
<1>3. t \in TocsOf(P, q) /\ Sees(P, i, t)
  BY <1>2 DEF TocFor
<1> HIDE DEF t
<1>4. t \in P.files /\ P.stmt[P.maker[t]].rule = "toc" /\ P.stmt[P.maker[t]].reads = {q}
  BY <1>3 DEF TocsOf
<1> QED
  BY <1>2, <1>3, <1>4 DEF t

\* What a command looks at it watches, itself or through a carrier.
LEMMA LooksAt ==
  ASSUME NEW P, Solid(P), NEW i \in P.commands, NEW x \in Looks(P, i)
  PROVE  Sees(P, i, x) /\ x \in P.files \cup P.sources
<1>1. CASE x \in P.stmt[i].reads /\ Sees(P, i, x)
  BY <1>1 DEF Solid, ReadsDeclared
<1>2. CASE \E q \in P.stmt[i].reads : ~Sees(P, i, q) /\ ~Bare(P, q) /\ x = TocFor(P, i, q)
  <2>1. PICK q \in P.stmt[i].reads : ~Sees(P, i, q) /\ ~Bare(P, q) /\ x = TocFor(P, i, q)
    BY <1>2
  <2>2. TocFor(P, i, q) \in P.files /\ Sees(P, i, TocFor(P, i, q))
    BY <2>1, TocForIs
  <2> QED
    BY <2>1, <2>2
<1>3. \/ x \in P.stmt[i].reads /\ Sees(P, i, x)
      \/ \E q \in P.stmt[i].reads : ~Sees(P, i, q) /\ ~Bare(P, q) /\ x = TocFor(P, i, q)
  BY DEF Looks
<1> QED
  BY <1>1, <1>2, <1>3

\* While what it looks at is the same, a command takes the same.
LEMMA TakenSame ==
  ASSUME NEW P, NEW i \in P.commands, NEW v, NEW d, NEW w, NEW e,
         \A x \in Looks(P, i) : Held(P, v, d, x) = Held(P, w, e, x)
  PROVE  \A q \in P.stmt[i].reads : Taken(P, v, d, i, q) = Taken(P, w, e, i, q)
<1> SUFFICES ASSUME NEW q \in P.stmt[i].reads PROVE Taken(P, v, d, i, q) = Taken(P, w, e, i, q)
  OBVIOUS
<1>1. CASE Sees(P, i, q)
  <2>1. q \in Looks(P, i)
    BY <1>1 DEF Looks
  <2>2. Held(P, v, d, q) = Held(P, w, e, q)
    BY <2>1
  <2> QED
    BY <1>1, <2>2 DEF Taken
<1>2. CASE ~Sees(P, i, q) /\ Bare(P, q)
  BY <1>2 DEF Taken
<1>3. CASE ~Sees(P, i, q) /\ ~Bare(P, q)
  <2>1. TocFor(P, i, q) \in Looks(P, i)
    BY <1>3 DEF Looks
  <2>2. Held(P, v, d, TocFor(P, i, q)) = Held(P, w, e, TocFor(P, i, q))
    BY <2>1
  <2> QED
    BY <1>3, <2>2 DEF Taken
<1> QED
  BY <1>1, <1>2, <1>3

\* What a command would write is the same where what it takes of its inputs is.
LEMMA FreshSame ==
  ASSUME NEW P, NEW i \in P.commands, NEW v, NEW d, NEW w, NEW e, NEW p,
         \A q \in P.stmt[i].reads : Taken(P, v, d, i, q) = Taken(P, w, e, i, q)
  PROVE  Fresh(P, v, d, i, p) = Fresh(P, w, e, i, p)
<1>1. {Taken(P, v, d, i, q) : q \in P.stmt[i].reads} = {Taken(P, w, e, i, q) : q \in P.stmt[i].reads}
  OBVIOUS
<1> QED
  BY <1>1 DEF Fresh

\* While neither what it looks at nor what it makes changes, a command that
\* was up to date is.
LEMMA UpToDateSame ==
  ASSUME NEW P, NEW i \in P.commands, NEW v, NEW d, NEW w, NEW e,
         \A x \in Looks(P, i) : Held(P, v, d, x) = Held(P, w, e, x),
         \A p \in P.stmt[i].outs \cup P.extras[i] : p \in DOMAIN d => p \in DOMAIN e /\ e[p] = d[p],
         UpToDate(P, v, d, i)
  PROVE  UpToDate(P, w, e, i)
<1>1. \A q \in P.stmt[i].reads : Taken(P, v, d, i, q) = Taken(P, w, e, i, q)
  BY TakenSame
<1>2. \A p : Fresh(P, v, d, i, p) = Fresh(P, w, e, i, p)
  BY <1>1, FreshSame
<1> QED
  BY <1>2 DEF UpToDate

\* An edit of a source: who watches it is stale.
LEMMA EditSettled ==
  ASSUME NEW P, Solid(P), NEW v, NEW w, NEW d, NEW st, NEW un, NEW s \in P.sources,
         \A x \in P.sources : x # s => OfSource(x, w) = OfSource(x, v),
         Settled(P, v, d, st, un)
  PROVE  Settled(P, w, d, st \cup P.watchers[s], un)
<1> DEFINE st2 == st \cup P.watchers[s]
<1>1. Current(P, w, d, st2, un)
  <2> SUFFICES ASSUME NEW i \in P.commands, P.stmt[i].rule # "touch", Carriers(P, i) \cap st2 = {},
                      Looks(P, i) \cap (un \cup (P.files \ DOMAIN d)) = {}
               PROVE  UpToDate(P, w, d, i)
    BY DEF Current
  <2>1. Carriers(P, i) \cap st = {} /\ ~Sees(P, i, s)
    BY DEF Sees
  <2>2. UpToDate(P, v, d, i)
    BY <2>1 DEF Settled, Current
  <2>3. s \notin Looks(P, i)
    BY <2>1, LooksAt
  <2>4. \A x \in Looks(P, i) : Held(P, v, d, x) = Held(P, w, d, x)
    BY <2>3 DEF Held
  <2> QED
    BY <2>2, <2>4, UpToDateSame
<1>2. st2 \subseteq P.commands
  BY DEF Solid, Ordered, Settled
<1>3. MissingStale(P, d, st2) /\ UnseenStale(P, d, st2, un)
  BY DEF Settled, MissingStale, UnseenStale
<1> QED
  BY <1>1, <1>2, <1>3 DEF Settled

\* A built file is lost: who makes it is stale.
LEMMA LoseSettled ==
  ASSUME NEW P, Solid(P), NEW v, NEW d, NEW e, NEW st, NEW un, NEW p \in DOMAIN d, Lost(p),
         Settled(P, v, d, st, un),
         DOMAIN e = DOMAIN d \ {p}, \A q \in DOMAIN e : e[q] = d[q]
  PROVE  Settled(P, v, e, st \cup P.producers[p], un)
<1> DEFINE st2 == st \cup P.producers[p]
<1>1. PICK k \in P.commands : P.producers[p] = {k} /\ p \in P.stmt[k].outs
  BY DEF Settled, Solid, Owned
<1>2. P.stmt[k].rule # "touch"
  BY <1>1 DEF Solid, ExtrasFollow
<1>3. P.maker[p] = k /\ p \in P.files
  BY <1>1, <1>2 DEF Solid, Written
<1>4. \A g \in P.commands : p \notin P.extras[g]
  BY DEF Solid, Written
<1>5. Current(P, v, e, st2, un)
  <2> SUFFICES ASSUME NEW i \in P.commands, P.stmt[i].rule # "touch", Carriers(P, i) \cap st2 = {},
                      Looks(P, i) \cap (un \cup (P.files \ DOMAIN e)) = {}
               PROVE  UpToDate(P, v, e, i)
    BY DEF Current
  <2>1. Carriers(P, i) \cap st = {} /\ Looks(P, i) \cap (un \cup (P.files \ DOMAIN d)) = {} /\ p \notin Looks(P, i)
    BY <1>3
  <2>2. UpToDate(P, v, d, i)
    BY <2>1 DEF Settled, Current
  <2>3. \A x \in Looks(P, i) : Held(P, v, d, x) = Held(P, v, e, x)
    BY <2>1 DEF Held
  <2>4. i # k
    BY <1>1 DEF Solid, Carried
  <2>5. p \notin P.stmt[i].outs
    BY <1>1, <2>4 DEF Solid, Owned
  <2>6. \A q \in P.stmt[i].outs \cup P.extras[i] : q \in DOMAIN d => q \in DOMAIN e /\ e[q] = d[q]
    BY <1>4, <2>5
  <2> QED
    BY <2>2, <2>3, <2>6, UpToDateSame
<1>6. st2 \subseteq P.commands /\ DOMAIN e \subseteq P.files
  BY <1>1 DEF Settled
<1>7. MissingStale(P, e, st2)
  BY <1>1, <1>3 DEF Settled, MissingStale
<1>8. LinksBare(P, e)
  BY DEF Settled, LinksBare
<1>9. ExtrasMatch(P, e)
  BY <1>4 DEF Settled, ExtrasMatch
<1>10. UnseenStale(P, e, st2, un)
  BY <1>4 DEF Settled, UnseenStale
<1> QED
  BY <1>5, <1>6, <1>7, <1>8, <1>9, <1>10 DEF Settled

\* A build starts: ninja looks at every file, and nothing is unseen.
LEMMA StartSettled ==
  ASSUME NEW P, Solid(P), NEW v, NEW d, NEW st, NEW un, Settled(P, v, d, st, un)
  PROVE  Settled(P, v, d, st \cup UNION {P.watchers[p] : p \in un}, {})
<1> DEFINE st2 == st \cup UNION {P.watchers[p] : p \in un}
<1>1. Current(P, v, d, st2, {})
  <2> SUFFICES ASSUME NEW i \in P.commands, P.stmt[i].rule # "touch", Carriers(P, i) \cap st2 = {},
                      Looks(P, i) \cap ({} \cup (P.files \ DOMAIN d)) = {}
               PROVE  UpToDate(P, v, d, i)
    BY DEF Current
  <2>1. Carriers(P, i) \cap st = {} /\ \A p \in un : ~Sees(P, i, p)
    BY DEF Sees
  <2>2. Looks(P, i) \cap un = {}
    BY <2>1, LooksAt
  <2> QED
    BY <2>1, <2>2 DEF Settled, Current
<1>2. st2 \subseteq P.commands
  BY DEF Settled, Solid, Ordered
<1>3. MissingStale(P, d, st2) /\ UnseenStale(P, d, st2, {})
  BY DEF Settled, MissingStale, UnseenStale
<1> QED
  BY <1>1, <1>2, <1>3 DEF Settled

\* An interrupted command: its outputs are gone and it is still stale.
LEMMA InterruptSettled ==
  ASSUME NEW P, Solid(P), NEW v, NEW d, NEW e, NEW st, NEW un, NEW k \in P.commands, k \in st,
         P.stmt[k].rule # "touch", Settled(P, v, d, st, un),
         DOMAIN e = DOMAIN d \ P.stmt[k].outs, \A q \in DOMAIN e : e[q] = d[q]
  PROVE  Settled(P, v, e, st, un)
<1>1. \A p \in P.stmt[k].outs : p \in P.files /\ P.maker[p] = k /\ P.producers[p] = {k}
  BY DEF Solid, Written, Owned
<1>4. \A g \in P.commands : P.extras[g] \cap P.stmt[k].outs = {}
  <2> SUFFICES ASSUME NEW g \in P.commands, NEW p \in P.extras[g], p \in P.stmt[k].outs PROVE FALSE
    OBVIOUS
  <2>1. PICK t \in P.commands : P.producers[p] = {t} /\ P.stmt[t].rule = "touch"
    BY DEF Solid, Written
  <2> QED
    BY <1>1, <2>1
<1>5. Current(P, v, e, st, un)
  <2> SUFFICES ASSUME NEW i \in P.commands, P.stmt[i].rule # "touch", Carriers(P, i) \cap st = {},
                      Looks(P, i) \cap (un \cup (P.files \ DOMAIN e)) = {}
               PROVE  UpToDate(P, v, e, i)
    BY DEF Current
  <2>1. Looks(P, i) \cap (un \cup (P.files \ DOMAIN d)) = {} /\ Looks(P, i) \cap P.stmt[k].outs = {}
    BY <1>1
  <2>2. UpToDate(P, v, d, i)
    BY <2>1 DEF Settled, Current
  <2>3. \A x \in Looks(P, i) : Held(P, v, d, x) = Held(P, v, e, x)
    BY <2>1 DEF Held
  <2>4. i # k
    BY DEF Solid, Carried
  <2>5. P.stmt[i].outs \cap P.stmt[k].outs = {}
    BY <1>1, <2>4 DEF Solid, Owned
  <2>6. \A q \in P.stmt[i].outs \cup P.extras[i] : q \in DOMAIN d => q \in DOMAIN e /\ e[q] = d[q]
    BY <1>4, <2>5
  <2> QED
    BY <2>2, <2>3, <2>6, UpToDateSame
<1>7. MissingStale(P, e, st)
  BY <1>1 DEF Settled, MissingStale
<1>8. LinksBare(P, e)
  BY DEF Settled, LinksBare
<1>9. ExtrasMatch(P, e)
  BY <1>4 DEF Settled, ExtrasMatch
<1>10. UnseenStale(P, e, st, un)
  BY <1>4 DEF Settled, UnseenStale
<1> QED
  BY <1>5, <1>7, <1>8, <1>9, <1>10 DEF Settled

\* Nobody makes what has to be there before he starts.
LEMMA NotOwn ==
  ASSUME NEW P, Solid(P), NEW k \in P.commands, NEW x \in P.files, P.producers[x] \subseteq P.upstream[k]
  PROVE  P.maker[x] # k
<1>1. PICK i \in P.commands : P.producers[x] = {i}
  BY DEF Solid, Owned
<1>2. i \in P.upstream[k] /\ k \in Ids(P) /\ i \in Ids(P)
  BY <1>1 DEF Solid, Owned
<1>3. i = P.maker[x] \/ P.maker[x] \in P.upstream[i]
  BY <1>1 DEF Solid, Written
<1>4. P.upstream[i] \subseteq P.upstream[k] /\ k \notin P.upstream[k]
  BY <1>2 DEF Solid, Ordered
<1> QED
  BY <1>2, <1>3, <1>4

\* Who makes a file a command sees comes before the command.
LEMMA SeenBefore ==
  ASSUME NEW P, Solid(P), NEW i \in P.commands, NEW x \in P.files, Sees(P, i, x)
  PROVE  P.producers[x] \subseteq P.upstream[i] /\ P.maker[x] \in P.upstream[i]
<1>1. PICK c \in Carriers(P, i) : c \in P.watchers[x]
  BY DEF Sees
<1>2. i \in Ids(P) /\ c \in P.commands /\ (c = i \/ c \in P.upstream[i])
  BY <1>1 DEF Solid, Owned, Carried
<1>3. P.producers[x] \subseteq P.upstream[c]
  BY <1>1 DEF Solid, Ordered
<1>4. P.producers[x] \subseteq P.upstream[i]
  BY <1>2, <1>3 DEF Solid, Ordered
<1>5. PICK j \in P.commands : P.producers[x] = {j}
  BY DEF Solid, Owned
<1>6. j \in P.upstream[i] /\ (j = P.maker[x] \/ P.maker[x] \in P.upstream[j])
  BY <1>4, <1>5 DEF Solid, Written
<1>7. P.upstream[j] \subseteq P.upstream[i]
  BY <1>2, <1>6 DEF Solid, Ordered
<1> QED
  BY <1>4, <1>6, <1>7

\* Where no command is stale, and none that comes before, all is up to date.
LEMMA CalmUpToDate ==
  ASSUME NEW P, Solid(P), NEW v, NEW d, NEW st, NEW un, Settled(P, v, d, st, un),
         NEW X \in SUBSET P.commands, X \cap st = {}, \A j \in X : P.upstream[j] \cap P.commands \subseteq X,
         NEW j \in X, P.stmt[j].rule # "touch"
  PROVE  UpToDate(P, v, d, j)
<1>1. Carriers(P, j) \cap st = {}
  <2>1. \A k \in Carriers(P, j) \ {j} : k \in P.commands /\ k \in P.upstream[j]
    BY DEF Solid, Carried
  <2> QED
    BY <2>1
<1>2. Looks(P, j) \cap (un \cup (P.files \ DOMAIN d)) = {}
  <2> SUFFICES ASSUME NEW x \in Looks(P, j), x \in un \cup (P.files \ DOMAIN d) PROVE FALSE
    OBVIOUS
  <2>1. Sees(P, j, x) /\ x \in P.files
    BY LooksAt DEF Settled
  <2>2. P.producers[x] \subseteq P.upstream[j] /\ P.maker[x] \in P.upstream[j]
    BY <2>1, SeenBefore
  <2>3. PICK i \in P.commands : P.producers[x] = {i}
    BY <2>1 DEF Solid, Owned
  <2>4. P.maker[x] \in P.commands
    BY <2>1 DEF Solid, Written
  <2>5. i \in X /\ P.maker[x] \in X
    BY <2>2, <2>3, <2>4
  <2>6. CASE x \in un
    BY <2>3, <2>5, <2>6 DEF Settled, UnseenStale
  <2>7. CASE x \in P.files \ DOMAIN d
    BY <2>5, <2>7 DEF Settled, MissingStale
  <2> QED
    BY <2>6, <2>7
<1>3. j \in P.commands
  OBVIOUS
<1> QED
  BY <1>1, <1>2, <1>3 DEF Settled, Current

\* What a command takes is what it sees of what it reads, once nothing that
\* comes before it is stale: a table of contents is the library's interface.
LEMMA TakenIsSeen ==
  ASSUME NEW P, Solid(P), NEW v, NEW d, NEW st, NEW un, Settled(P, v, d, st, un),
         NEW i \in P.commands, P.upstream[i] \cap P.commands \cap st = {}, NEW q \in P.stmt[i].reads
  PROVE  Taken(P, v, d, i, q) = Seen(P.stmt[i], q, Held(P, v, d, q))
<1>1. CASE Sees(P, i, q)
  BY <1>1 DEF Taken
<1>2. CASE ~Sees(P, i, q) /\ Bare(P, q)
  <2>1. q \in P.files /\ q \notin P.sources
    BY <1>2 DEF Bare, Solid, Owned
  <2>2. Held(P, v, d, q) = {}
    BY <1>2, <2>1 DEF Held, Settled, LinksBare
  <2>3. Seen(P.stmt[i], q, {}) = {}
    BY DEF Seen, Interface
  <2> QED
    BY <1>2, <2>2, <2>3 DEF Taken
<1>3. CASE ~Sees(P, i, q) /\ ~Bare(P, q)
  <2> DEFINE t == TocFor(P, i, q)
             j == P.maker[t]
             X == P.upstream[i] \cap P.commands
  <2>1. /\ t \in P.files /\ Sees(P, i, t) /\ TakesInterface(P.stmt[i], q)
        /\ P.stmt[j].rule = "toc" /\ P.stmt[j].reads = {q}
    BY <1>3, TocForIs
  <2> HIDE DEF t
  <2>2. j \in P.upstream[i] /\ j \in P.commands
    BY <2>1, SeenBefore DEF Solid, Written
  <2>3. UpToDate(P, v, d, j)
    <3>1. i \in Ids(P) /\ X \subseteq P.commands /\ X \cap st = {}
      BY DEF Solid, Owned
    <3>2. \A x \in X : P.upstream[x] \cap P.commands \subseteq X
      BY <3>1 DEF Solid, Ordered
    <3>3. j \in X /\ P.stmt[j].rule # "touch"
      BY <2>1, <2>2
    <3> HIDE DEF X, j
    <3> QED
      BY <3>1, <3>2, <3>3, CalmUpToDate
  <2> HIDE DEF X
  <2>4. t \in P.stmt[j].outs \cup P.extras[j]
    BY <2>1 DEF Solid, Written
  <2>5. t \in DOMAIN d /\ d[t] = Fresh(P, v, d, j, t)
    BY <2>3, <2>4 DEF UpToDate
  <2>6. Taken(P, v, d, j, q) = Held(P, v, d, q)
    <3>1. ~TakesInterface(P.stmt[j], q)
      BY <2>1 DEF TakesInterface
    <3>2. Sees(P, j, q)
      BY <1>3, <2>1, <2>2, <3>1, TocForIs
    <3> QED
      BY <3>1, <3>2 DEF Taken, Seen
  <2>7. Fresh(P, v, d, j, t) = Interface(Held(P, v, d, q))
    <3>1. {Taken(P, v, d, j, x) : x \in P.stmt[j].reads} = {Taken(P, v, d, j, q)}
      BY <2>1
    <3>2. UNION {Taken(P, v, d, j, x) : x \in P.stmt[j].reads} = Held(P, v, d, q)
      BY <2>6, <3>1
    <3> QED
      BY <2>1, <3>2 DEF Fresh, Made
  <2>8. Held(P, v, d, t) = d[t]
    BY <2>1, <2>5 DEF Held, Solid, Owned
  <2>9. Seen(P.stmt[i], q, Held(P, v, d, q)) = Interface(Held(P, v, d, q))
    BY <2>1 DEF Seen
  <2> QED
    BY <1>3, <2>5, <2>7, <2>8, <2>9 DEF Taken, t
<1> QED
  BY <1>1, <1>2, <1>3

\* A touch runs: who watches a file that is there is stale.
LEMMA TouchSettled ==
  ASSUME NEW P, Solid(P), NEW v, NEW d, NEW st, NEW un, Settled(P, v, d, st, un),
         NEW k \in P.commands, P.stmt[k].rule = "touch",
         NEW moved, moved = P.stmt[k].outs \cap DOMAIN d
  PROVE  Settled(P, v, d, (st \cup UNION {P.watchers[p] : p \in moved}) \ {k}, un \ moved)
<1> DEFINE st2 == (st \cup UNION {P.watchers[p] : p \in moved}) \ {k}
           un2 == un \ moved
<1>1. Current(P, v, d, st2, un2)
  <2> SUFFICES ASSUME NEW i \in P.commands, P.stmt[i].rule # "touch", Carriers(P, i) \cap st2 = {},
                      Looks(P, i) \cap (un2 \cup (P.files \ DOMAIN d)) = {}
               PROVE  UpToDate(P, v, d, i)
    BY DEF Current
  <2>1. k \notin Carriers(P, i)
    BY DEF Solid, Carried
  <2>2. Carriers(P, i) \cap st = {} /\ \A p \in moved : ~Sees(P, i, p)
    BY <2>1 DEF Sees
  <2>3. Looks(P, i) \cap un = {}
    BY <2>2, LooksAt
  <2> QED
    BY <2>2, <2>3 DEF Settled, Current
<1>2. moved \subseteq P.files
  BY DEF Solid, Owned
<1>3. st2 \subseteq P.commands /\ un2 \subseteq P.files
  BY <1>2 DEF Solid, Ordered, Settled
<1>4. MissingStale(P, d, st2)
  <2>1. \A p \in P.files : P.maker[p] # k
    BY DEF Solid, Written
  <2> QED
    BY <2>1 DEF Settled, MissingStale
<1>5. UnseenStale(P, d, st2, un2)
  <2> SUFFICES ASSUME NEW e \in un2 PROVE k \notin P.producers[e]
    BY DEF Settled, UnseenStale
  <2>1. e \in P.files /\ e \in DOMAIN d
    BY DEF Settled, UnseenStale
  <2>2. PICK i \in P.commands : P.producers[e] = {i} /\ e \in P.stmt[i].outs
    BY <2>1 DEF Solid, Owned
  <2> QED
    BY <2>1, <2>2
<1> QED
  BY <1>1, <1>3, <1>4, <1>5 DEF Settled

\* A command that is no touch runs to its end, nothing before it being stale.
Ran(P, v, d, e, k) ==
    LET outs == P.stmt[k].outs \cup P.extras[k] IN
    /\ DOMAIN e = DOMAIN d \cup outs
    /\ \A p \in outs :
           e[p] = Made(P.stmt[k], p, UNION {Seen(P.stmt[k], q, Held(P, v, d, q)) : q \in P.stmt[k].reads})
    /\ \A p \in DOMAIN d \ outs : e[p] = d[p]
Differ(d, e, outs) == {p \in outs : p \notin DOMAIN d \/ d[p] # e[p]}
Moved(P, d, e, k) == IF P.stmt[k].restat THEN Differ(d, e, P.stmt[k].outs) ELSE P.stmt[k].outs
StaleAfter(P, st, d, e, k) == (st \cup UNION {P.watchers[p] : p \in Moved(P, d, e, k)}) \ {k}
UnseenAfter(P, un, d, e, k) == (un \cup Differ(d, e, P.extras[k])) \ Moved(P, d, e, k)

\* What a command looks at and reads it does not make.
LEMMA LooksElsewhere ==
  ASSUME NEW P, Solid(P), NEW k \in P.commands, NEW x, x \in Looks(P, k)
  PROVE  x \notin P.stmt[k].outs \cup P.extras[k] \/ P.stmt[k].rule = "touch"
<1>1. Sees(P, k, x) /\ x \in P.files \cup P.sources
  BY LooksAt
<1>2. CASE x \in P.files
  <2>1. P.producers[x] \subseteq P.upstream[k]
    BY <1>1, <1>2, SeenBefore
  <2>2. P.maker[x] # k
    BY <1>2, <2>1, NotOwn
  <2> QED
    BY <2>2 DEF Solid, Written
<1>3. CASE x \in P.sources
  BY <1>3 DEF Solid, Owned, Written
<1> QED
  BY <1>1, <1>2, <1>3

\* The command itself is up to date.
LEMMA RunUpToDate ==
  ASSUME NEW P, Solid(P), NEW v, NEW d, NEW e, NEW st, NEW un, Settled(P, v, d, st, un),
         NEW k \in P.commands, P.stmt[k].rule # "touch", P.upstream[k] \cap P.commands \cap st = {},
         Ran(P, v, d, e, k)
  PROVE  UpToDate(P, v, e, k)
<1>1. \A q \in P.stmt[k].reads : Taken(P, v, d, k, q) = Seen(P.stmt[k], q, Held(P, v, d, q))
  BY TakenIsSeen
<1>2. \A x \in Looks(P, k) : Held(P, v, d, x) = Held(P, v, e, x)
  BY LooksElsewhere DEF Held, Ran
<1>3. \A q \in P.stmt[k].reads : Taken(P, v, d, k, q) = Taken(P, v, e, k, q)
  BY <1>2, TakenSame
<1>4. {Seen(P.stmt[k], q, Held(P, v, d, q)) : q \in P.stmt[k].reads} = {Taken(P, v, e, k, q) : q \in P.stmt[k].reads}
  BY <1>1, <1>3
<1> QED
  BY <1>4 DEF UpToDate, Fresh, Ran

\* The others: what they look at is as it was, or they are stale.
LEMMA RunOthers ==
  ASSUME NEW P, Solid(P), NEW v, NEW d, NEW e, NEW st, NEW un, Settled(P, v, d, st, un),
         NEW k \in P.commands, P.stmt[k].rule # "touch", Ran(P, v, d, e, k),
         NEW i \in P.commands, i # k, P.stmt[i].rule # "touch",
         Carriers(P, i) \cap StaleAfter(P, st, d, e, k) = {},
         Looks(P, i) \cap (UnseenAfter(P, un, d, e, k) \cup (P.files \ DOMAIN e)) = {}
  PROVE  UpToDate(P, v, e, i)
<1> DEFINE outs == P.stmt[k].outs \cup P.extras[k]
           moved == Moved(P, d, e, k)
           st2 == StaleAfter(P, st, d, e, k)
<1>0. \A p \in outs : p \in P.files /\ P.maker[p] = k
  BY DEF Solid, Written
<1>1. \A p \in moved : P.watchers[p] \ {k} \subseteq st2
  BY DEF StaleAfter
<1>2. k \notin Carriers(P, i)
  <2> SUFFICES ASSUME k \in Carriers(P, i) PROVE FALSE
    OBVIOUS
  <2>1. ~P.stmt[k].restat /\ \E p \in P.stmt[k].outs : Carriers(P, i) \cap P.watchers[p] # {}
    BY DEF Solid, Carried
  <2>2. PICK p \in P.stmt[k].outs : Carriers(P, i) \cap P.watchers[p] # {}
    BY <2>1
  <2>3. PICK c \in Carriers(P, i) : c \in P.watchers[p]
    BY <2>2
  <2>4. p \in moved
    BY <2>1, <2>2 DEF Moved
  <2>5. p \in P.files /\ P.producers[p] = {k} /\ k \in Ids(P)
    BY <2>2 DEF Solid, Owned
  <2>6. c # k
    BY <2>3, <2>5 DEF Solid, Ordered
  <2> QED
    BY <1>1, <2>3, <2>4, <2>6
<1>3. Carriers(P, i) \cap st = {}
  BY <1>2 DEF StaleAfter
<1>4. \A x \in Looks(P, i) : x \notin moved
  <2> SUFFICES ASSUME NEW x \in Looks(P, i), x \in moved PROVE FALSE
    OBVIOUS
  <2>1. PICK c \in Carriers(P, i) : c \in P.watchers[x]
    BY LooksAt DEF Sees
  <2> QED
    BY <1>1, <1>2, <2>1
<1>5. ASSUME NEW x \in Looks(P, i)
      PROVE  x \notin un /\ x \notin P.files \ DOMAIN d /\ (x \in outs => d[x] = e[x])
  <2>1. x \notin un /\ x \notin Differ(d, e, P.extras[k])
    BY <1>4, <1>5 DEF UnseenAfter
  <2>2. x \notin Differ(d, e, P.stmt[k].outs)
    BY <1>4, <1>5 DEF Moved, Differ
  <2>3. x \in outs => x \in DOMAIN d /\ d[x] = e[x]
    BY <2>1, <2>2 DEF Differ
  <2>4. x \in P.files => x \in DOMAIN e
    OBVIOUS
  <2>5. x \in P.files => x \in DOMAIN d
    BY <2>3, <2>4 DEF Ran
  <2> QED
    BY <2>1, <2>3, <2>5
<1>6. \A x \in Looks(P, i) : Held(P, v, d, x) = Held(P, v, e, x)
  <2> SUFFICES ASSUME NEW x \in Looks(P, i) PROVE Held(P, v, d, x) = Held(P, v, e, x)
    OBVIOUS
  <2>1. CASE x \in P.sources
    BY <2>1 DEF Held
  <2>2. CASE x \in P.files /\ x \notin P.sources
    <3>1. x \in DOMAIN d /\ x \in DOMAIN e /\ (x \in outs => d[x] = e[x])
      BY <1>5, <2>2 DEF Ran
    <3>2. d[x] = e[x]
      BY <3>1 DEF Ran
    <3> QED
      BY <2>2, <3>1, <3>2 DEF Held
  <2>3. x \in P.files \cup P.sources
    BY LooksAt
  <2> QED
    BY <2>1, <2>2, <2>3
<1>7. \A p \in P.stmt[i].outs \cup P.extras[i] : p \notin outs
  BY <1>0 DEF Solid, Written
<1>8. \A p \in P.stmt[i].outs \cup P.extras[i] : p \in DOMAIN d => p \in DOMAIN e /\ e[p] = d[p]
  BY <1>7 DEF Ran
<1>9. UpToDate(P, v, d, i)
  BY <1>3, <1>5 DEF Settled, Current
<1> QED
  BY <1>6, <1>8, <1>9, UpToDateSame

\* A link still holds nothing, and the extra outputs say what the first says.
LEMMA RunMatches ==
  ASSUME NEW P, Solid(P), NEW v, NEW d, NEW e, NEW st, NEW un, Settled(P, v, d, st, un),
         NEW k \in P.commands, P.stmt[k].rule # "touch", Ran(P, v, d, e, k)
  PROVE  LinksBare(P, e) /\ ExtrasMatch(P, e)
<1> DEFINE outs == P.stmt[k].outs \cup P.extras[k]
           U == UNION {Seen(P.stmt[k], q, Held(P, v, d, q)) : q \in P.stmt[k].reads}
<1>0. \A p \in outs : p \in P.files /\ P.maker[p] = k
  BY DEF Solid, Written
<1>1. \A p \in outs : e[p] = Made(P.stmt[k], p, U)
  BY DEF Ran
<1>2. LinksBare(P, e)
  <2> SUFFICES ASSUME NEW p \in DOMAIN e, Bare(P, p) PROVE e[p] = {}
    BY DEF LinksBare
  <2>1. CASE p \in outs
    <3>1. P.stmt[k].reads = {}
      BY <1>0, <2>1 DEF Bare
    <3>2. U = {}
      BY <3>1
    <3>3. Made(P.stmt[k], p, {}) = {}
      BY DEF Made, Interface
    <3> QED
      BY <1>1, <2>1, <3>2, <3>3
  <2>2. CASE p \notin outs
    BY <2>2 DEF Ran, Settled, LinksBare
  <2> QED
    BY <2>1, <2>2
<1> HIDE DEF U
<1>3. ExtrasMatch(P, e)
  <2> SUFFICES ASSUME NEW g \in P.commands, P.stmt[g].rule = "gen_split",
                      NEW m \in P.stmt[g].outs \cap DOMAIN e, NEW x \in P.extras[g]
               PROVE  x \in DOMAIN e /\ e[x] = Made(P.stmt[g], x, e[m])
    BY DEF ExtrasMatch
  <2>1. CASE g = k
    <3>1. x \in DOMAIN e /\ e[x] = Made(P.stmt[k], x, U) /\ e[m] = Made(P.stmt[k], m, U)
      BY <1>1, <2>1 DEF Ran
    <3>2. P.stmt[k].rule # "toc"
      BY <2>1
    <3>3. Ext(m.name) = ".h" => Ext(x.name) = ".h"
      BY DEF Solid, ExtrasFollow
    <3>4. Interface(Interface(U)) = Interface(U)
      BY DEF Interface
    <3>5. Made(P.stmt[k], x, Made(P.stmt[k], m, U)) = Made(P.stmt[k], x, U)
      BY <3>2, <3>3, <3>4 DEF Made
    <3> QED
      BY <2>1, <3>1, <3>5
  <2>2. CASE g # k
    <3>1. P.maker[m] = g /\ P.maker[x] = g
      BY DEF Solid, Written
    <3>2. m \notin outs /\ x \notin outs
      BY <1>0, <2>2, <3>1
    <3>3. m \in DOMAIN d /\ e[m] = d[m]
      BY <3>2 DEF Ran
    <3>4. x \in DOMAIN d /\ d[x] = Made(P.stmt[g], x, d[m])
      BY <3>3 DEF Settled, ExtrasMatch
    <3> QED
      BY <3>2, <3>3, <3>4 DEF Ran
  <2> QED
    BY <2>1, <2>2
<1> QED
  BY <1>2, <1>3

\* An extra output that changed has its touch still before it.
LEMMA RunUnseen ==
  ASSUME NEW P, Solid(P), NEW v, NEW d, NEW e, NEW st, NEW un, Settled(P, v, d, st, un),
         NEW k \in P.commands, P.stmt[k].rule # "touch", Ran(P, v, d, e, k)
  PROVE  UnseenStale(P, e, StaleAfter(P, st, d, e, k), UnseenAfter(P, un, d, e, k))
<1> DEFINE moved == Moved(P, d, e, k)
           st2 == StaleAfter(P, st, d, e, k)
           un2 == UnseenAfter(P, un, d, e, k)
<1> SUFFICES ASSUME NEW x \in un2
             PROVE  x \in DOMAIN e /\ P.producers[x] \subseteq st2 /\ \E g \in P.commands : x \in P.extras[g]
  BY DEF UnseenStale
<1>0. x \in un \/ x \in Differ(d, e, P.extras[k])
  BY DEF UnseenAfter
<1>1. CASE x \in un
  <2>1. x \in DOMAIN d /\ P.producers[x] \subseteq st /\ \E g \in P.commands : x \in P.extras[g]
    BY <1>1 DEF Settled, UnseenStale
  <2>2. k \notin P.producers[x]
    BY <2>1 DEF Solid, Written
  <2> QED
    BY <2>1, <2>2 DEF StaleAfter, Ran
<1>2. CASE x \in Differ(d, e, P.extras[k])
  <2>1. x \in P.extras[k] /\ x \in DOMAIN e
    BY <1>2 DEF Differ, Ran
  <2>2. P.stmt[k].rule = "gen_split"
    BY <2>1 DEF Solid, Written
  <2>3. PICK t \in P.commands : P.producers[x] = {t} /\ P.stmt[t].rule = "touch" /\ P.stmt[t].in = P.stmt[k].outs
    BY <2>1 DEF Solid, Written
  <2>4. PICK m : m \in P.stmt[k].outs
    BY <2>2 DEF Solid, ExtrasFollow
  <2>5. m \in P.files /\ m \in DOMAIN e
    BY <2>4 DEF Solid, Owned, Ran
  <2>6. t \in P.watchers[m]
    BY <2>3, <2>4, <2>5 DEF Solid, Ordered
  <2>7. m \in moved
    <3> SUFFICES ASSUME m \in DOMAIN d, d[m] = e[m] PROVE FALSE
      BY <2>4 DEF Moved, Differ
    <3>1. x \in DOMAIN d /\ d[x] = Made(P.stmt[k], x, d[m])
      BY <2>1, <2>2, <2>4 DEF Settled, ExtrasMatch
    <3>2. e[x] = Made(P.stmt[k], x, e[m])
      BY <2>1, <2>2, <2>4, <2>5, RunMatches DEF ExtrasMatch
    <3> QED
      BY <1>2, <3>1, <3>2 DEF Differ
  <2>8. t \in st2
    BY <2>3, <2>6, <2>7 DEF StaleAfter
  <2> QED
    BY <2>1, <2>3, <2>8
<1> QED
  BY <1>0, <1>1, <1>2

\* A command other than a touch, run when none of those that bring it news is stale, leaves the build directory Settled.
LEMMA RunSettled ==
  ASSUME NEW P, Solid(P), NEW v, NEW d, NEW e, NEW st, NEW un, Settled(P, v, d, st, un),
         NEW k \in P.commands, P.stmt[k].rule # "touch", P.upstream[k] \cap P.commands \cap st = {},
         Ran(P, v, d, e, k)
  PROVE  Settled(P, v, e, StaleAfter(P, st, d, e, k), UnseenAfter(P, un, d, e, k))
<1> DEFINE moved == Moved(P, d, e, k)
           st2 == StaleAfter(P, st, d, e, k)
           un2 == UnseenAfter(P, un, d, e, k)
           outs == P.stmt[k].outs \cup P.extras[k]
<1>0. \A p \in outs : p \in P.files /\ P.maker[p] = k
  BY DEF Solid, Written
<1>1. DOMAIN e \subseteq P.files /\ moved \subseteq P.files
  BY <1>0 DEF Settled, Ran, Moved, Differ
<1>2. st2 \subseteq P.commands
  BY <1>1 DEF StaleAfter, Solid, Ordered, Settled
<1>3. un2 \subseteq P.files
  BY <1>0 DEF Settled, Differ, UnseenAfter
<1>4. Current(P, v, e, st2, un2)
  <2> SUFFICES ASSUME NEW i \in P.commands, P.stmt[i].rule # "touch", Carriers(P, i) \cap st2 = {},
                      Looks(P, i) \cap (un2 \cup (P.files \ DOMAIN e)) = {}
               PROVE  UpToDate(P, v, e, i)
    BY DEF Current
  <2>1. CASE i = k
    BY <2>1, RunUpToDate
  <2>2. CASE i # k
    BY <2>2, RunOthers
  <2> QED
    BY <2>1, <2>2
<1>5. MissingStale(P, e, st2)
  <2> SUFFICES ASSUME NEW p \in P.files \ DOMAIN e PROVE P.maker[p] \in st2
    BY DEF MissingStale
  <2>1. p \notin outs /\ p \notin DOMAIN d
    BY DEF Ran
  <2>2. P.maker[p] \in st
    BY <2>1 DEF Settled, MissingStale
  <2>3. P.maker[p] # k
    BY <2>1 DEF Solid, Written
  <2> QED
    BY <2>2, <2>3 DEF StaleAfter
<1>6. LinksBare(P, e) /\ ExtrasMatch(P, e)
  BY RunMatches
<1>7. UnseenStale(P, e, st2, un2)
  BY RunUnseen
<1> QED
  BY <1>1, <1>2, <1>3, <1>4, <1>5, <1>6, <1>7 DEF Settled

\* Before the first build every command is stale and nothing is there.
LEMMA NewSettled ==
  ASSUME NEW P, Solid(P), NEW v
  PROVE  Settled(P, v, <<>>, P.commands, {})
<1>1. DOMAIN <<>> = {}
  OBVIOUS
<1>2. Current(P, v, <<>>, P.commands, {})
  BY DEF Current, Solid, Carried
<1>3. MissingStale(P, <<>>, P.commands)
  BY DEF MissingStale, Solid, Written
<1>4. LinksBare(P, <<>>) /\ UnseenStale(P, <<>>, P.commands, {}) /\ ExtrasMatch(P, <<>>)
  BY <1>1 DEF LinksBare, UnseenStale, ExtrasMatch
<1> QED
  BY <1>1, <1>2, <1>3, <1>4 DEF Settled

-----------------------------------------------------------------------------
(* The course of one build *)

\* What is asked for takes all that comes before it.
LEMMA GoalCloses ==
  ASSUME NEW P, Solid(P), P.default \subseteq Ids(P), NEW r \in Requests(P)
  PROVE  Goal(P, r) \subseteq Ids(P) /\ \A i \in Goal(P, r) : P.upstream[i] \subseteq Goal(P, r)
<1> DEFINE roots == IF r = 0 THEN P.default ELSE {r}
<1>1. roots \subseteq Ids(P)
  BY DEF Requests, Ids
<1>2. Goal(P, r) = roots \cup UNION {P.upstream[i] : i \in roots}
  BY Zenon DEF Goal
<1>3. \A i \in Ids(P) : P.upstream[i] \subseteq Ids(P)
  BY DEF Solid, Ordered
<1>4. \A i \in Ids(P) : \A j \in P.upstream[i] : P.upstream[j] \subseteq P.upstream[i]
  BY DEF Solid, Ordered
<1> HIDE DEF roots
<1> QED
  BY <1>1, <1>2, <1>3, <1>4

\* What a build has run or passed over is not stale, nor is anything before
\* it that the build is still to run.
Course(P, r, wanted, st) ==
    /\ wanted \subseteq Goal(P, r) \cap P.commands
    /\ \A k \in (Goal(P, r) \cap P.commands) \ wanted : k \notin st /\ P.upstream[k] \cap wanted \cap st = {}

\* A command that has run, and is no longer stale, keeps the build on its Course.
LEMMA CourseStep ==
  ASSUME NEW P, Solid(P), NEW r, NEW wanted, NEW st, Course(P, r, wanted, st),
         NEW k \in P.commands, k \in wanted \cap st, P.upstream[k] \cap wanted \cap st = {},
         NEW moved \in SUBSET P.stmt[k].outs
  PROVE  Course(P, r, wanted \ {k}, (st \cup UNION {P.watchers[p] : p \in moved}) \ {k})
<1> DEFINE st2 == (st \cup UNION {P.watchers[p] : p \in moved}) \ {k}
           w2 == wanted \ {k}
           newly == UNION {P.watchers[p] : p \in moved}
<1>1. \A x \in newly : x \in P.commands /\ k \in P.upstream[x]
  BY DEF Solid, Owned, Ordered
<1>2. st2 \subseteq st \cup newly /\ k \notin st2
  OBVIOUS
<1> HIDE DEF st2, newly
<1>3. P.commands \subseteq Ids(P)
  BY DEF Solid, Owned
<1>4. \A i \in P.commands : i \notin P.upstream[i] /\ \A j \in P.upstream[i] : P.upstream[j] \subseteq P.upstream[i]
  BY <1>3 DEF Solid, Ordered
<1>5. ASSUME NEW j \in (Goal(P, r) \cap P.commands) \ w2
      PROVE  j \notin st2 /\ P.upstream[j] \cap w2 \cap st2 = {}
  <2>1. k \notin P.upstream[j] /\ P.upstream[j] \cap wanted \cap st = {} /\ (j = k \/ j \notin st)
    BY <1>4 DEF Course
  <2>2. j \notin st2
    BY <1>1, <1>2, <2>1
  <2>3. \A x \in P.upstream[j] : x \notin newly
    BY <1>1, <1>4, <2>1
  <2> QED
    BY <1>2, <2>1, <2>2, <2>3
<1>6. w2 \subseteq Goal(P, r) \cap P.commands
  BY DEF Course
<1> QED
  BY <1>5, <1>6 DEF Course, st2, newly

\* Nothing that comes before a command that may run is stale.
LEMMA CourseCalm ==
  ASSUME NEW P, Solid(P), P.default \subseteq Ids(P), NEW r \in Requests(P), NEW wanted, NEW st, Course(P, r, wanted, st),
         NEW k \in wanted, P.upstream[k] \cap wanted \cap st = {}
  PROVE  P.upstream[k] \cap P.commands \cap st = {}
<1>1. k \in Goal(P, r)
  BY DEF Course
<1>2. P.upstream[k] \subseteq Goal(P, r)
  BY <1>1, GoalCloses
<1> QED
  BY <1>2 DEF Course

\* What such a command reads is there.
LEMMA ReadsThere ==
  ASSUME NEW P, Solid(P), NEW v, NEW d, NEW st, NEW un, Settled(P, v, d, st, un),
         NEW k \in P.commands, P.upstream[k] \cap P.commands \cap st = {},
         NEW p \in P.stmt[k].reads \ P.sources
  PROVE  p \in DOMAIN d /\ P.producers[p] \cap st = {}
<1>1. p \in P.files /\ P.producers[p] \subseteq P.upstream[k]
  BY DEF Solid, ReadsDeclared
<1>2. PICK i \in P.commands : P.producers[p] = {i}
  BY <1>1 DEF Solid, Owned
<1>3. i \in P.upstream[k] /\ k \in Ids(P)
  BY <1>1, <1>2 DEF Solid, Owned
<1>4. P.upstream[i] \subseteq P.upstream[k]
  BY <1>3 DEF Solid, Ordered
<1>5. P.maker[p] \in P.commands /\ (i = P.maker[p] \/ P.maker[p] \in P.upstream[i])
  BY <1>1, <1>2 DEF Solid, Written
<1>6. P.maker[p] \notin st /\ i \notin st
  BY <1>3, <1>4, <1>5
<1> QED
  BY <1>1, <1>2, <1>6 DEF Settled, MissingStale

-----------------------------------------------------------------------------
(* A build from nothing *)

LEMMA FewerElements ==
  ASSUME NEW S, NEW T, IsFiniteSet(T), S \subseteq T, NEW x \in T, x \notin S
  PROVE  Cardinality(S) \in Nat /\ Cardinality(T) \in Nat /\ Cardinality(S) < Cardinality(T)
<1>1. IsFiniteSet(S) /\ Cardinality(S) <= Cardinality(T) /\ (Cardinality(S) = Cardinality(T) => S = T)
  BY FS_Subset
<1>2. Cardinality(S) \in Nat /\ Cardinality(T) \in Nat
  BY <1>1, FS_CardinalityType
<1>3. S # T
  OBVIOUS
<1> QED
  BY <1>1, <1>2, <1>3

\* How far a path is from the sources.
Depth(P) ==
    [p \in P.files \cup P.sources |-> IF p \in P.sources THEN 0 ELSE Cardinality(P.upstream[P.maker[p]]) + 1]

\* A file lies deeper than every file its maker opens.
LEMMA DepthFalls ==
  ASSUME NEW P, Solid(P)
  PROVE  /\ Cardinality(Ids(P)) \in Nat
         /\ Depth(P) \in [P.files \cup P.sources -> 0 .. Cardinality(Ids(P)) + 1]
         /\ \A p \in P.files : \A q \in P.stmt[P.maker[p]].reads :
                q \in P.files \cup P.sources /\ Depth(P)[q] < Depth(P)[p]
<1> DEFINE C == P.files \cup P.sources
           N == Cardinality(Ids(P))
<1>1. IsFiniteSet(Ids(P)) /\ P.commands \subseteq Ids(P)
  BY DEF Solid, Ordered, Owned
<1>2. N \in Nat
  BY <1>1, FS_CardinalityType
<1>3. ASSUME NEW p \in P.files
      PROVE  /\ P.maker[p] \in Ids(P) /\ IsFiniteSet(P.upstream[P.maker[p]])
             /\ Cardinality(P.upstream[P.maker[p]]) \in Nat /\ Cardinality(P.upstream[P.maker[p]]) <= N
             /\ Depth(P)[p] = Cardinality(P.upstream[P.maker[p]]) + 1
  <2>1. P.maker[p] \in Ids(P)
    BY <1>1 DEF Solid, Written
  <2>2. P.upstream[P.maker[p]] \subseteq Ids(P)
    BY <2>1 DEF Solid, Ordered
  <2> DEFINE S == P.upstream[P.maker[p]]
  <2> HIDE DEF S
  <2>3. S \subseteq Ids(P)
    BY <2>2 DEF S
  <2>4. IsFiniteSet(S) /\ Cardinality(S) <= Cardinality(Ids(P))
    BY ONLY <1>1, <2>3, FS_Subset
  <2>5. Cardinality(S) \in Nat
    BY <2>4, FS_CardinalityType
  <2>6. p \notin P.sources
    BY DEF Solid, Owned
  <2> QED
    BY <2>1, <2>4, <2>5, <2>6 DEF S, Depth
<1>4. \A p \in P.sources : Depth(P)[p] = 0
  BY DEF Depth
<1>5. Depth(P) \in [C -> 0 .. N + 1]
  <2>1. \A p \in C : Depth(P)[p] \in 0 .. N + 1
    <3> HIDE DEF N
    <3> QED
      BY <1>2, <1>3, <1>4
  <2>2. Depth(P) = [p \in C |-> Depth(P)[p]]
    BY DEF Depth
  <2> HIDE DEF C, N
  <2> QED
    BY <2>1, <2>2
<1>6. ASSUME NEW p \in P.files, NEW q \in P.stmt[P.maker[p]].reads
      PROVE  q \in C /\ Depth(P)[q] < Depth(P)[p]
  <2> DEFINE k == P.maker[p]
  <2>1. k \in P.commands
    BY DEF Solid, Written
  <2>2. q \in C /\ (q \in P.files => P.producers[q] \subseteq P.upstream[k])
    BY <2>1 DEF Solid, ReadsDeclared
  <2>3. CASE q \in P.sources
    BY <1>3, <1>4, <2>3
  <2>4. CASE q \in P.files
    <3> DEFINE j == P.maker[q]
    <3>1. j \in P.upstream[k] /\ j \in Ids(P) /\ k \in Ids(P)
      <4>1. PICK i \in P.commands : P.producers[q] = {i}
        BY <2>4 DEF Solid, Owned
      <4>2. i \in P.upstream[k] /\ (i = j \/ j \in P.upstream[i])
        BY <2>2, <2>4, <4>1 DEF Solid, Written
      <4>3. P.upstream[i] \subseteq P.upstream[k]
        BY <1>1, <2>1, <4>2 DEF Solid, Ordered
      <4> QED
        BY <1>3, <2>4, <4>2, <4>3
    <3>2. P.upstream[j] \subseteq P.upstream[k] /\ j \notin P.upstream[j]
      BY <3>1 DEF Solid, Ordered
    <3>3. IsFiniteSet(P.upstream[k])
      BY <1>3
    <3>4. Cardinality(P.upstream[j]) \in Nat /\ Cardinality(P.upstream[k]) \in Nat
          /\ Cardinality(P.upstream[j]) < Cardinality(P.upstream[k])
      <4> HIDE DEF j, k
      <4> QED
        BY ONLY <3>1, <3>2, <3>3, FewerElements
    <3>5. Depth(P)[q] = Cardinality(P.upstream[j]) + 1 /\ Depth(P)[p] = Cardinality(P.upstream[k]) + 1
      BY <1>3, <2>4
    <3> QED
      BY <2>2, <3>4, <3>5
  <2> QED
    BY <2>2, <2>3, <2>4
<1> QED
  BY <1>2, <1>5, <1>6

\* What the maker of p makes it of, when the paths hold f.
Making(P, p, f) ==
    LET s == P.stmt[P.maker[p]] IN Made(s, p, UNION {Seen(s, q, f[q]) : q \in s.reads})
Fixed(P, v, f) == f = [p \in P.files \cup P.sources |-> IF p \in P.sources THEN OfSource(p, v) ELSE Making(P, p, f)]

\* A build from nothing is a function of the commands, by recursion on how many come before each.
LEMMA FixedExists ==
  ASSUME NEW P, Solid(P), NEW v
  PROVE  \E f : Fixed(P, v, f)
<1> DEFINE C == P.files \cup P.sources
           All == UNION {OfSource(p, v) : p \in P.sources}
           A == SUBSET All
           N == Cardinality(Ids(P)) + 1
           rank == Depth(P)
           G(p, f) == IF p \in P.sources THEN OfSource(p, v) ELSE Making(P, p, f)
           F == [x \in C \X [C -> A] |-> G(x[1], x[2])]
<1>1. N \in Nat /\ rank \in [C -> 0 .. N]
  BY DepthFalls
<1>2. \A p \in P.files : \A q \in P.stmt[P.maker[p]].reads : q \in C /\ rank[q] < rank[p]
  BY DepthFalls
<1>3. \A p \in C : \A f \in [C -> A] : F[<<p, f>>] = G(p, f)
  OBVIOUS
<1>4. \A p \in C : \A f \in [C -> A] : G(p, f) \in A
  <2> SUFFICES ASSUME NEW p \in C, NEW f \in [C -> A] PROVE G(p, f) \in A
    OBVIOUS
  <2>1. CASE p \in P.sources
    BY <2>1
  <2>2. CASE p \notin P.sources
    <3> DEFINE s == P.stmt[P.maker[p]]
    <3>1. \A q \in s.reads : f[q] \subseteq All
      BY <1>2, <2>2
    <3> HIDE DEF A, All, C, s
    <3>2. \A q \in s.reads : Seen(s, q, f[q]) \subseteq All
      BY <3>1 DEF Seen, Interface
    <3>3. UNION {Seen(s, q, f[q]) : q \in s.reads} \subseteq All
      BY <3>2
    <3>4. Made(s, p, UNION {Seen(s, q, f[q]) : q \in s.reads}) \subseteq All
      BY <3>3 DEF Made, Interface
    <3>5. Making(P, p, f) \subseteq All
      BY <3>4, Zenon DEF Making, s
    <3> QED
      BY <2>2, <3>5 DEF A
  <2> QED
    BY <2>1, <2>2
<1>5. F \in [C \X [C -> A] -> A]
  <2>1. \A x \in C \X [C -> A] : x[1] \in C /\ x[2] \in [C -> A]
    OBVIOUS
  <2>2. \A x \in C \X [C -> A] : G(x[1], x[2]) \in A
    <3> HIDE DEF C, A, G
    <3> QED
      BY <1>4, <2>1
  <2> HIDE DEF G, C, A
  <2> QED
    BY <2>2
<1>6. \A p \in C : \A f, g \in [C -> A] :
          (\A b \in C : rank[b] < rank[p] => f[b] = g[b]) => F[<<p, f>>] = F[<<p, g>>]
  <2> SUFFICES ASSUME NEW p \in C, NEW f \in [C -> A], NEW g \in [C -> A],
                      \A b \in C : rank[b] < rank[p] => f[b] = g[b]
               PROVE  G(p, f) = G(p, g)
    <3> HIDE DEF F, C, A, G, rank
    <3> QED
      BY <1>3
  <2>1. CASE p \in P.sources
    BY <2>1
  <2>2. CASE p \notin P.sources
    <3> DEFINE s == P.stmt[P.maker[p]]
    <3>1. \A q \in s.reads : f[q] = g[q]
      BY <1>2, <2>2
    <3> HIDE DEF A, All, C, s
    <3>2. {Seen(s, q, f[q]) : q \in s.reads} = {Seen(s, q, g[q]) : q \in s.reads}
      BY <3>1
    <3>3. Making(P, p, f) = Making(P, p, g)
      BY <3>2, Zenon DEF Making, s
    <3> QED
      BY <2>2, <3>3
  <2> QED
    BY <2>1, <2>2
<1>7. {} \in A
  OBVIOUS
<1> HIDE DEF F, C, A, G, rank, N, All
<1>8. Recursive(C, A, rank, F)
  BY <1>6 DEF Recursive
<1>9. Solutions(C, A, F) # {}
  BY ONLY <1>1, <1>5, <1>7, <1>8, RecursionExists
<1>10. PICK f \in [C -> A] : \A p \in C : f[p] = F[<<p, f>>]
  BY <1>9 DEF Solutions
<1>11. \A p \in C : f[p] = G(p, f)
  BY <1>3, <1>10
<1>12. f = [p \in C |-> G(p, f)]
  BY <1>10, <1>11
<1>13. Fixed(P, v, f)
  BY <1>12 DEF Fixed, C, G
<1> QED
  BY <1>13

\* A build from nothing makes every file of what its maker then sees.
LEMMA CleanIs ==
  ASSUME NEW P, Solid(P), NEW v
  PROVE  /\ \A p \in P.sources : Clean(P, v)[p] = OfSource(p, v)
         /\ \A p \in P.files : Clean(P, v)[p] = Making(P, p, Clean(P, v))
<1>1. Clean(P, v) = CHOOSE f : Fixed(P, v, f)
  BY Zenon DEF Clean, Fixed, Making
<1>2. Fixed(P, v, Clean(P, v))
  BY <1>1, FixedExists
<1>3. \A p \in P.files : p \notin P.sources
  BY DEF Solid, Owned
<1> HIDE DEF Clean
<1> QED
  BY <1>2, <1>3 DEF Fixed

\* Where nothing is stale, nor anything before it, the files hold that.
LEMMA CleanWhereCalm ==
  ASSUME NEW P, Solid(P), NEW v, NEW d, NEW st, NEW un, Settled(P, v, d, st, un),
         NEW X \in SUBSET P.commands, X \cap st = {}, \A j \in X : P.upstream[j] \cap P.commands \subseteq X
  PROVE  \A p \in P.files : P.maker[p] \in X => p \in DOMAIN d /\ d[p] = Clean(P, v)[p]
<1> DEFINE clean == Clean(P, v)
           N == Cardinality(Ids(P)) + 1
           Good(p) == P.maker[p] \in X => p \in DOMAIN d /\ d[p] = clean[p]
           S == {n \in 0 .. N : \A p \in P.files : Depth(P)[p] <= n => Good(p)}
<1>1. N \in Nat /\ \A p \in P.files : Depth(P)[p] \in 0 .. N
  <2>1. Cardinality(Ids(P)) \in Nat /\ Depth(P) \in [P.files \cup P.sources -> 0 .. N]
    BY DepthFalls
  <2>2. N \in Nat
    BY <2>1
  <2> HIDE DEF N
  <2> QED
    BY <2>1, <2>2
<1>2. \A p \in P.files : Depth(P)[p] # 0
  <2>1. \A p \in P.files : p \notin P.sources /\ P.maker[p] \in P.commands
    BY DEF Solid, Owned, Written
  <2>2. \A p \in P.files : \A q \in P.stmt[P.maker[p]].reads : Depth(P)[q] < Depth(P)[p]
    BY DepthFalls
  <2> SUFFICES ASSUME NEW p \in P.files PROVE Depth(P)[p] # 0
    OBVIOUS
  <2>3. Depth(P)[p] = Cardinality(P.upstream[P.maker[p]]) + 1
    BY <2>1 DEF Depth
  <2>4. P.maker[p] \in Ids(P) /\ IsFiniteSet(Ids(P))
    BY <2>1 DEF Solid, Owned, Ordered
  <2>5. P.upstream[P.maker[p]] \in SUBSET Ids(P)
    BY <2>4 DEF Solid, Ordered
  <2>6. IsFiniteSet(P.upstream[P.maker[p]])
    BY <2>4, <2>5, FS_Subset
  <2>7. Cardinality(P.upstream[P.maker[p]]) \in Nat
    BY <2>6, FS_CardinalityType
  <2> QED
    BY <2>3, <2>7
<1>3. 0 \in S
  BY <1>1, <1>2
<1>4. ASSUME NEW n \in 1 .. N, n - 1 \in S PROVE n \in S
  <2> SUFFICES ASSUME NEW p \in P.files, Depth(P)[p] <= n, P.maker[p] \in X
               PROVE  p \in DOMAIN d /\ d[p] = clean[p]
    BY <1>1
  <2> DEFINE j == P.maker[p]
             s == P.stmt[j]
  <2>1. j \in P.commands /\ s.rule # "touch" /\ p \in s.outs \cup P.extras[j]
    BY DEF Solid, Written
  <2>2. UpToDate(P, v, d, j)
    <3> HIDE DEF j
    <3>1. j \in X
      BY DEF j
    <3> QED
      BY <2>1, <3>1, CalmUpToDate
  <2>3. p \in DOMAIN d /\ d[p] = Fresh(P, v, d, j, p)
    BY <2>1, <2>2 DEF UpToDate
  <2>4. P.upstream[j] \cap P.commands \subseteq X
    OBVIOUS
  <2>5. ASSUME NEW q \in s.reads PROVE Held(P, v, d, q) = clean[q]
    <3>1. q \in P.files \cup P.sources /\ Depth(P)[q] < Depth(P)[p]
      BY <2>5, DepthFalls
    <3>2. CASE q \in P.sources
      BY <3>2, CleanIs DEF Held
    <3>3. CASE q \in P.files /\ q \notin P.sources
      <4>1. P.producers[q] \subseteq P.upstream[j]
        BY <2>1, <2>5, <3>3 DEF Solid, ReadsDeclared
      <4>2. PICK i \in P.commands : P.producers[q] = {i}
        BY <3>3 DEF Solid, Owned
      <4>3. i \in X /\ (P.maker[q] = i \/ P.maker[q] \in P.upstream[i]) /\ P.maker[q] \in P.commands
        BY <2>4, <3>3, <4>1, <4>2 DEF Solid, Written
      <4>4. P.maker[q] \in X
        BY <4>3
      <4>5. Depth(P)[q] <= n - 1
        BY <1>1, <3>1, <3>3
      <4>6. q \in DOMAIN d /\ d[q] = clean[q]
        BY <1>4, <3>3, <4>4, <4>5
      <4> QED
        BY <3>3, <4>6 DEF Held
    <3> QED
      BY <3>1, <3>2, <3>3
  <2>6. \A q \in s.reads : Taken(P, v, d, j, q) = Seen(s, q, clean[q])
    <3>1. P.upstream[j] \cap P.commands \cap st = {}
      BY <2>4
    <3>2. \A q \in s.reads : Taken(P, v, d, j, q) = Seen(s, q, Held(P, v, d, q))
      <4> HIDE DEF j
      <4> QED
        BY <2>1, <3>1, TakenIsSeen
    <3> QED
      BY <2>5, <3>2
  <2>7. {Taken(P, v, d, j, q) : q \in s.reads} = {Seen(s, q, clean[q]) : q \in s.reads}
    <3> HIDE DEF s, j, clean
    <3> QED
      BY <2>6
  <2>8. Fresh(P, v, d, j, p) = Made(s, p, UNION {Seen(s, q, clean[q]) : q \in s.reads})
    BY <2>7, Zenon DEF Fresh
  <2>9. clean[p] = Made(s, p, UNION {Seen(s, q, clean[q]) : q \in s.reads})
    <3> HIDE DEF clean
    <3>1. clean[p] = Making(P, p, clean)
      BY CleanIs DEF clean
    <3> QED
      BY <3>1, Zenon DEF Making
  <2> QED
    BY <2>3, <2>8, <2>9
<1> HIDE DEF S
<1>5. \A n \in 0 .. N : n \in S
  <2> HIDE DEF N
  <2> QED
    BY <1>1, <1>3, <1>4, IntervalInduction
<1>6. N \in S
  BY <1>1, <1>5
<1> QED
  BY <1>1, <1>6 DEF S

\* What a build has been asked for holds what a build from nothing makes.
LEMMA CleanGoal ==
  ASSUME NEW P, Solid(P), P.default \subseteq Ids(P), NEW r \in Requests(P),
         NEW v, NEW d, NEW st, NEW un, Settled(P, v, d, st, un), Goal(P, r) \cap P.commands \cap st = {},
         NEW i \in Goal(P, r) \cap P.commands, NEW p \in P.stmt[i].outs
  PROVE  p \in DOMAIN d /\ d[p] = Clean(P, v)[p]
<1> DEFINE X == Goal(P, r) \cap P.commands
<1>1. X \subseteq P.commands /\ X \cap st = {} /\ \A j \in X : P.upstream[j] \cap P.commands \subseteq X
  BY GoalCloses
<1>2. p \in P.files /\ P.producers[p] = {i}
  BY DEF Solid, Owned
<1>3. P.maker[p] \in P.commands /\ (i = P.maker[p] \/ P.maker[p] \in P.upstream[i])
  BY <1>2 DEF Solid, Written
<1>4. P.maker[p] \in X
  BY <1>1, <1>3
<1> HIDE DEF X
<1> QED
  BY ONLY <1>1, <1>2, <1>4, CleanWhereCalm, Solid(P), Settled(P, v, d, st, un)

-----------------------------------------------------------------------------
(* The plans of the configurations *)

LEMMA PlanHandled ==
  /\ Handled.fitting \subseteq Confs
  /\ \A c \in Handled.fitting : Plans[c] = PlanOf(c) /\ Fits(PlanOf(c)) /\ c \notin Handled.died
<1> DEFINE died == {c \in Confs : Dies(c)}
           made == [c \in Confs |-> IF c \in died THEN NoPlan ELSE PlanOf(c)]
           plans == Table(made)
           comparable == {m \in Modules : ~LinuxDies(m) /\ ~AndroidNinjaDies(m) /\ Kind(m) \notin WarnedOf}
           loaded == Table([m \in Modules |-> Closure({m}, LoadEdges)])
           installed == Table([m \in Modules |-> Installed(m)])
           outputs == Table([m \in Modules |-> GetOutputs(Outs[m])])
           fitting == {c \in Confs \ died : Fits(plans[c])}
           results == [died |-> died, plans |-> plans, fitting |-> fitting, linux |-> Linux, androidninja |-> AndroidNinja,
                       comparable |-> comparable, loaded |-> loaded, installed |-> installed, outputs |-> outputs]
<1>1. HandlerResults = results
  BY Zenon DEF HandlerResults
<1>2. Handled = results
  BY <1>1, ResultsAssumption DEF Handled
<1>3. plans = made
  <2> HIDE DEF made
  <2> QED
    BY TableSame
<1>4. \A c \in Confs : made[c] = IF c \in died THEN NoPlan ELSE PlanOf(c)
  OBVIOUS
<1> HIDE DEF made
<1>5. Handled.plans = made /\ Handled.died = died /\ Handled.fitting = {c \in Confs \ died : Fits(made[c])}
  <2> HIDE DEF comparable, loaded, installed, outputs, died
  <2>1. fitting = {c \in Confs \ died : Fits(made[c])}
    BY <1>3
  <2>2. results.plans = plans /\ results.died = died /\ results.fitting = fitting
    <3> HIDE DEF plans, fitting
    <3> QED
      OBVIOUS
  <2> QED
    BY <1>2, <1>3, <2>1, <2>2
<1>6. Plans = made
  BY <1>5 DEF Plans
<1> HIDE DEF results, plans, fitting, died
<1> QED
  BY <1>4, <1>5, <1>6

\* The plan of a configuration the handlers finish, if its statements fit, is Solid.
LEMMA FittingSolid ==
  ASSUME NEW c \in Handled.fitting
  PROVE  Solid(Plans[c]) /\ Plans[c].default \subseteq Ids(Plans[c])
<1> DEFINE P == PlanOf(c)
<1>1. Plans[c] = P /\ Fits(P)
  BY PlanHandled
<1>2. Planned(P)
  BY PlanOfPlanned
<1> HIDE DEF P
<1>3. OneMaker(P) /\ NoCycle(P) /\ ReadsDeclared(P) /\ ExtrasFollow(P)
  BY <1>1 DEF Fits
<1>4. Owned(P)
  BY <1>2, <1>3, PlanOwned
<1>5. Ordered(P)
  BY <1>2, <1>3, <1>4, PlanOrdered
<1>6. Written(P)
  BY <1>2, <1>3, <1>4, <1>5, PlanWritten
<1>7. Carried(P)
  BY <1>4, <1>5, PlanCarried
<1>8. P.default \subseteq Ids(P)
  <2>1. P.default = {i \in Ids(P) : P.stmt[i].default}
    BY <1>2 DEF Planned, PlannedFiles
  <2> QED
    BY <2>1
<1> QED
  BY <1>1, <1>3, <1>4, <1>5, <1>6, <1>7, <1>8 DEF Solid

-----------------------------------------------------------------------------
(* The inductive invariant *)

Live == phase \in {"idle", "building", "built"}
IInv ==
    /\ conf \in Confs /\ phase \in {"new", "idle", "building", "built", "died"}
    /\ DOMAIN ver = plan.sources
    /\ request \in Requests(plan) /\ want \subseteq plan.commands /\ logged \subseteq plan.commands
    /\ phase = "new" => disk = <<>> /\ stale = {} /\ unseen = {}
    /\ phase = "died" => disk = <<>> /\ stale = plan.commands /\ unseen = {}
    /\ Live => conf \in Handled.fitting /\ Settled(plan, ver, disk, stale, unseen)
    /\ phase = "building" => Course(plan, request, want, stale)
    /\ phase = "built" => Goal(plan, request) \cap plan.commands \cap stale = {}

\* The plan ninja works from is Solid.
LEMMA LiveSolid ==
  ASSUME IInv, Live
  PROVE  Solid(plan) /\ plan.default \subseteq Ids(plan)
BY FittingSolid DEF IInv, plan

\* A tree and a configuration are chosen; the build directory is empty.
LEMMA InitIInv == Init => IInv
<1> SUFFICES ASSUME Init PROVE IInv
  OBVIOUS
<1>1. conf \in Confs /\ phase = "new" /\ disk = <<>> /\ stale = {} /\ unseen = {} /\ logged = {} /\ want = {} /\ request = 0
  BY DEF Init
<1>2. DOMAIN ver = plan.sources
  BY DEF Init, plan
<1>3. 0 \in Requests(plan)
  BY DEF Requests
<1> QED
  BY <1>1, <1>2, <1>3 DEF IInv, Live

\* The handlers have written the build file: all it makes is still to be made.
LEMMA GenerateIInv == ASSUME IInv, Generate, StatementsFit' PROVE IInv'
<1>1. /\ phase = "new" /\ conf' = conf /\ ver' = ver /\ disk' = disk /\ unseen' = unseen /\ logged' = logged
      /\ request' = request /\ want' = want /\ stale' = plan.commands /\ phase' \in {"died", "idle"}
  BY DEF Generate
<1>2. plan' = plan
  BY <1>1 DEF plan
<1>3. phase' = "idle" => conf \in Handled.fitting
  BY <1>1 DEF StatementsFit
<1>4. conf \in Handled.fitting => Settled(plan, ver, <<>>, plan.commands, {})
  BY NewSettled, FittingSolid DEF plan
<1>5. disk = <<>> /\ unseen = {}
  BY <1>1 DEF IInv
<1> HIDE DEF plan
<1>6. Live' => conf' \in Handled.fitting /\ Settled(plan', ver', disk', stale', unseen')
  BY <1>1, <1>2, <1>3, <1>4, <1>5 DEF Live
<1> QED
  BY <1>1, <1>2, <1>5, <1>6 DEF IInv

\* What no action changes.
LEMMA SamePlan == ASSUME conf' = conf PROVE plan' = plan
BY DEF plan

\* The user edits a source file.
LEMMA EditIInv ==
  ASSUME IInv, NEW s \in DOMAIN ver, NEW part \in {"iface", "body"}, Edit(s, part)
  PROVE  IInv'
<1>1. /\ phase' = "idle" /\ conf' = conf /\ disk' = disk /\ unseen' = unseen /\ logged' = logged
      /\ request' = request /\ want' = want /\ stale' = stale \cup plan.watchers[s] /\ phase \in {"idle", "built"}
      /\ ver' = [ver EXCEPT ![s][part] = @ + 1]
  BY DEF Edit, AtRest
<1>2. plan' = plan
  BY <1>1, SamePlan
<1>3. Live
  BY <1>1 DEF Live
<1>4. Solid(plan)
  BY <1>3, LiveSolid
<1>5. DOMAIN ver' = DOMAIN ver /\ \A x \in DOMAIN ver : x # s => ver'[x] = ver[x]
  BY <1>1
<1>6. s \in plan.sources /\ Settled(plan, ver, disk, stale, unseen) /\ conf \in Handled.fitting /\ DOMAIN ver = plan.sources
  BY <1>3 DEF IInv
<1>7. \A x \in plan.sources : x # s => OfSource(x, ver') = OfSource(x, ver)
  BY <1>5, <1>6 DEF OfSource, Part
<1> HIDE DEF plan
<1>8. Settled(plan, ver', disk, stale \cup plan.watchers[s], unseen)
  BY <1>4, <1>6, <1>7, EditSettled
<1>9. Live' => conf' \in Handled.fitting /\ Settled(plan', ver', disk', stale', unseen')
  BY <1>1, <1>2, <1>6, <1>8
<1>10. DOMAIN ver' = plan'.sources
  BY <1>2, <1>5, <1>6
<1> QED
  BY <1>1, <1>2, <1>9, <1>10 DEF IInv

\* A file of the build directory is deleted.
LEMMA LoseIInv ==
  ASSUME IInv, NEW p \in DOMAIN disk, Lose(p)
  PROVE  IInv'
<1>1. /\ phase' = "idle" /\ conf' = conf /\ ver' = ver /\ unseen' = unseen /\ logged' = logged
      /\ request' = request /\ want' = want /\ stale' = stale \cup plan.producers[p] /\ phase \in {"idle", "built"}
      /\ disk' = [q \in DOMAIN disk \ {p} |-> disk[q]] /\ Lost(p)
  BY DEF Lose, AtRest, Without
<1>2. plan' = plan
  BY <1>1, SamePlan
<1>3. Live
  BY <1>1 DEF Live
<1>4. Solid(plan)
  BY <1>3, LiveSolid
<1>5. DOMAIN disk' = DOMAIN disk \ {p} /\ \A q \in DOMAIN disk' : disk'[q] = disk[q]
  BY <1>1
<1>6. Settled(plan, ver, disk, stale, unseen) /\ conf \in Handled.fitting
  BY <1>3 DEF IInv
<1> HIDE DEF plan
<1>8. Settled(plan, ver, disk', stale \cup plan.producers[p], unseen)
  BY <1>1, <1>4, <1>5, <1>6, LoseSettled
<1>9. Live' => conf' \in Handled.fitting /\ Settled(plan', ver', disk', stale', unseen')
  BY <1>1, <1>2, <1>6, <1>8
<1> QED
  BY <1>1, <1>2, <1>9 DEF IInv

\* ninja is asked for some targets.
LEMMA StartBuildIInv ==
  ASSUME IInv, NEW r \in Requests(plan), StartBuild(r)
  PROVE  IInv'
<1>1. /\ phase' = "building" /\ conf' = conf /\ ver' = ver /\ disk' = disk /\ unseen' = {} /\ logged' = logged
      /\ request' = r /\ want' = Goal(plan, r) \cap plan.commands
      /\ stale' = stale \cup UNION {plan.watchers[p] : p \in unseen} /\ phase \in {"idle", "built"}
  BY DEF StartBuild, AtRest
<1>2. plan' = plan
  BY <1>1, SamePlan
<1>3. Live
  BY <1>1 DEF Live
<1>4. Solid(plan)
  BY <1>3, LiveSolid
<1>6. Settled(plan, ver, disk, stale, unseen) /\ conf \in Handled.fitting
  BY <1>3 DEF IInv
<1> HIDE DEF plan
<1>8. Settled(plan, ver, disk, stale \cup UNION {plan.watchers[p] : p \in unseen}, {})
  BY <1>4, <1>6, StartSettled
<1>9. Live' => conf' \in Handled.fitting /\ Settled(plan', ver', disk', stale', unseen')
  BY <1>1, <1>2, <1>6, <1>8
<1>10. Course(plan', request', want', stale')
  BY <1>1, <1>2 DEF Course
<1> QED
  BY <1>1, <1>2, <1>9, <1>10 DEF IInv

\* What Run does, in the terms of the lemmas above.
LEMMA RunIs ==
  ASSUME Solid(plan), NEW i \in plan.commands, Run(i)
  PROVE  /\ phase = "building" /\ i \in want \cap stale /\ plan.upstream[i] \cap want \cap stale = {}
         /\ phase' = phase /\ conf' = conf /\ ver' = ver /\ request' = request /\ want' = want \ {i}
         /\ logged' \subseteq logged \cup {i}
         /\ IF plan.stmt[i].rule = "touch"
            THEN LET moved == plan.stmt[i].outs \cap DOMAIN disk IN
                 /\ disk' = disk /\ unseen' = unseen \ moved
                 /\ stale' = (stale \cup UNION {plan.watchers[p] : p \in moved}) \ {i}
            ELSE /\ Ran(plan, ver, disk, disk', i)
                 /\ stale' = StaleAfter(plan, stale, disk, disk', i)
                 /\ unseen' = UnseenAfter(plan, unseen, disk, disk', i)
<1> DEFINE s == plan.stmt[i]
           outs == s.outs \cup plan.extras[i]
           new == [p \in outs |-> Result(s, p)]
           moved == IF s.restat THEN Changed(s.outs, new)
                    ELSE IF s.rule = "touch" THEN s.outs \cap DOMAIN disk ELSE s.outs
<1>1. /\ CanRun(i)
      /\ disk' = IF s.rule = "touch" THEN disk
                 ELSE [p \in outs \cup DOMAIN disk |-> IF p \in outs THEN new[p] ELSE disk[p]]
      /\ stale' = (stale \cup UNION {plan.watchers[p] : p \in moved}) \ {i}
      /\ unseen' = (unseen \cup Changed(plan.extras[i], new)) \ moved
      /\ want' = want \ {i}
      /\ logged' = IF Discovers(s) THEN logged \cup {i} ELSE logged
      /\ UNCHANGED <<conf, phase, ver, request, mishaps>>
  BY Zenon DEF Run
<1>2. phase = "building" /\ i \in want \cap stale /\ plan.upstream[i] \cap want \cap stale = {}
  <2>1. plan.upstream[i] \subseteq plan.found[i]
    BY DEF Solid, Owned, Ordered
  <2> QED
    BY <1>1, <2>1 DEF CanRun, Pending, Before
<1>3. \A p \in outs : new[p] = Result(s, p)
  OBVIOUS
<1> HIDE DEF new
<1>4. CASE s.rule = "touch"
  <2>1. ~s.restat
    BY <1>4 DEF Solid, ExtrasFollow
  <2>2. plan.extras[i] = {}
    BY <1>4 DEF Solid, Written
  <2>3. Changed(plan.extras[i], new) = {}
    BY <2>2 DEF Changed
  <2>4. moved = s.outs \cap DOMAIN disk
    BY <1>4, <2>1
  <2> HIDE DEF moved
  <2> QED
    BY <1>1, <1>2, <1>4, <2>3, <2>4
<1>5. CASE s.rule # "touch"
  <2>1. disk' = [p \in outs \cup DOMAIN disk |-> IF p \in outs THEN new[p] ELSE disk[p]]
    BY <1>1, <1>5
  <2>2. /\ DOMAIN disk' = DOMAIN disk \cup outs
        /\ \A p \in outs : disk'[p] = new[p]
        /\ \A p \in DOMAIN disk \ outs : disk'[p] = disk[p]
    BY <2>1
  <2>3. \A q : Held(plan, ver, disk, q) = ContentOf(q)
    BY DEF Held, ContentOf
  <2>4. Ran(plan, ver, disk, disk', i)
    <3>1. \A p \in outs : disk'[p] = Made(s, p, UNION {Seen(s, q, ContentOf(q)) : q \in s.reads})
      BY <1>3, <2>2 DEF Result
    <3>2. {Seen(s, q, ContentOf(q)) : q \in s.reads} = {Seen(s, q, Held(plan, ver, disk, q)) : q \in s.reads}
      BY <2>3
    <3> QED
      BY <2>2, <3>1, <3>2 DEF Ran
  <2>5. \A S : S \subseteq outs => Changed(S, new) = Differ(disk, disk', S)
    BY <2>2 DEF Changed, Differ
  <2>6. Changed(s.outs, new) = Differ(disk, disk', s.outs) /\ Changed(plan.extras[i], new) = Differ(disk, disk', plan.extras[i])
    BY <2>5
  <2>7. moved = Moved(plan, disk, disk', i)
    BY <1>5, <2>6 DEF Moved
  <2> HIDE DEF moved
  <2>8. stale' = StaleAfter(plan, stale, disk, disk', i) /\ unseen' = UnseenAfter(plan, unseen, disk, disk', i)
    BY <1>1, <2>6, <2>7 DEF StaleAfter, UnseenAfter
  <2> QED
    BY <1>1, <1>2, <1>5, <2>4, <2>8
<1> QED
  BY <1>4, <1>5

\* ninja runs a command whose inputs are ready.
LEMMA RunIInv ==
  ASSUME IInv, NEW i \in plan.commands, Run(i)
  PROVE  IInv'
<1>0. phase = "building"
  BY DEF Run, CanRun
<1>1. Live /\ Course(plan, request, want, stale)
  BY <1>0 DEF Live, IInv
<1>2. Solid(plan) /\ plan.default \subseteq Ids(plan)
  BY <1>1, LiveSolid
<1>3. Settled(plan, ver, disk, stale, unseen) /\ conf \in Handled.fitting /\ request \in Requests(plan)
  BY <1>1 DEF IInv
<1>4. /\ i \in want \cap stale /\ plan.upstream[i] \cap want \cap stale = {}
      /\ phase' = phase /\ conf' = conf /\ ver' = ver /\ request' = request /\ want' = want \ {i}
      /\ logged' \subseteq logged \cup {i}
  BY <1>2, RunIs
<1>5. plan' = plan
  BY <1>4, SamePlan
<1>6. plan.upstream[i] \cap plan.commands \cap stale = {}
  <2> HIDE DEF plan
  <2> QED
    BY <1>1, <1>2, <1>3, <1>4, CourseCalm
<1>7. Settled(plan, ver, disk', stale', unseen') /\ Course(plan, request, want', stale')
  <2>1. CASE plan.stmt[i].rule = "touch"
    <3> DEFINE moved == plan.stmt[i].outs \cap DOMAIN disk
    <3>1. /\ disk' = disk /\ unseen' = unseen \ moved
          /\ stale' = (stale \cup UNION {plan.watchers[p] : p \in moved}) \ {i}
      BY <1>2, <2>1, RunIs
    <3>2. moved \subseteq plan.stmt[i].outs
      OBVIOUS
    <3> HIDE DEF plan
    <3>3. Settled(plan, ver, disk, (stale \cup UNION {plan.watchers[p] : p \in moved}) \ {i}, unseen \ moved)
      BY <1>2, <1>3, <2>1, TouchSettled
    <3> HIDE DEF moved
    <3>4. Course(plan, request, want \ {i}, (stale \cup UNION {plan.watchers[p] : p \in moved}) \ {i})
      BY <1>1, <1>2, <1>4, <3>2, CourseStep
    <3> QED
      BY <1>4, <3>1, <3>3, <3>4
  <2>2. CASE plan.stmt[i].rule # "touch"
    <3>1. /\ Ran(plan, ver, disk, disk', i)
          /\ stale' = StaleAfter(plan, stale, disk, disk', i)
          /\ unseen' = UnseenAfter(plan, unseen, disk, disk', i)
      BY <1>2, <2>2, RunIs
    <3> HIDE DEF plan
    <3>2. Settled(plan, ver, disk', StaleAfter(plan, stale, disk, disk', i), UnseenAfter(plan, unseen, disk, disk', i))
      BY <1>2, <1>3, <1>6, <2>2, <3>1, RunSettled
    <3> DEFINE moved == Moved(plan, disk, disk', i)
    <3>3. moved \subseteq plan.stmt[i].outs
      BY DEF Moved, Differ
    <3>4. StaleAfter(plan, stale, disk, disk', i) = (stale \cup UNION {plan.watchers[p] : p \in moved}) \ {i}
      BY DEF StaleAfter
    <3> HIDE DEF moved
    <3>5. Course(plan, request, want \ {i}, (stale \cup UNION {plan.watchers[p] : p \in moved}) \ {i})
      BY <1>1, <1>2, <1>4, <3>3, CourseStep
    <3> QED
      BY <1>4, <3>1, <3>2, <3>4, <3>5
  <2> QED
    BY <2>1, <2>2
<1> HIDE DEF plan
<1> QED
  BY <1>0, <1>3, <1>4, <1>5, <1>7 DEF IInv, Live

\* ninja is stopped before it is done.
LEMMA InterruptIInv ==
  ASSUME IInv, NEW i \in plan.commands, Interrupt(i)
  PROVE  IInv'
<1>1. /\ phase = "building" /\ phase' = "idle" /\ conf' = conf /\ ver' = ver /\ unseen' = unseen /\ logged' = logged
      /\ request' = request /\ want' = {} /\ stale' = stale /\ plan.stmt[i].rule # "touch" /\ i \in stale
      /\ disk' = [q \in DOMAIN disk \ plan.stmt[i].outs |-> disk[q]]
  BY DEF Interrupt, CanRun, Pending, Without
<1>2. plan' = plan
  BY <1>1, SamePlan
<1>3. Live
  BY <1>1 DEF Live
<1>4. Solid(plan)
  BY <1>3, LiveSolid
<1>5. DOMAIN disk' = DOMAIN disk \ plan.stmt[i].outs /\ \A q \in DOMAIN disk' : disk'[q] = disk[q]
  BY <1>1
<1>6. Settled(plan, ver, disk, stale, unseen) /\ conf \in Handled.fitting
  BY <1>3 DEF IInv
<1> HIDE DEF plan
<1>8. Settled(plan, ver, disk', stale, unseen)
  BY <1>1, <1>4, <1>5, <1>6, InterruptSettled
<1>9. Live' => conf' \in Handled.fitting /\ Settled(plan', ver', disk', stale', unseen')
  BY <1>1, <1>2, <1>6, <1>8
<1> QED
  BY <1>1, <1>2, <1>9 DEF IInv

\* ninja has nothing left to run.
LEMMA FinishIInv ==
  ASSUME IInv, Finish
  PROVE  IInv'
<1>1. /\ phase = "building" /\ phase' = "built" /\ conf' = conf /\ ver' = ver /\ disk' = disk /\ unseen' = unseen
      /\ logged' = logged /\ request' = request /\ want' = {} /\ stale' = stale /\ want \cap stale = {}
  BY DEF Finish, Pending
<1>2. plan' = plan
  BY <1>1, SamePlan
<1> HIDE DEF plan
<1>3. Live /\ Course(plan, request, want, stale)
  BY <1>1 DEF Live, IInv
<1>4. Goal(plan, request) \cap plan.commands \cap stale = {}
  BY <1>1, <1>3 DEF Course
<1>5. Settled(plan, ver, disk, stale, unseen) /\ conf \in Handled.fitting
  BY <1>3 DEF IInv
<1> QED
  BY <1>1, <1>2, <1>4, <1>5 DEF IInv

\* Nothing happens.
LEMMA StutterIInv == ASSUME IInv, UNCHANGED vars PROVE IInv'
<1>1. /\ conf' = conf /\ phase' = phase /\ ver' = ver /\ disk' = disk /\ unseen' = unseen /\ stale' = stale
      /\ logged' = logged /\ request' = request /\ want' = want
  BY DEF vars
<1>2. plan' = plan
  BY <1>1, SamePlan
<1> HIDE DEF plan
<1> QED
  BY <1>1, <1>2 DEF IInv, Live

\* No step leaves the invariant, as long as the statements fit.
LEMMA NextIInv == ASSUME IInv, [Next]_vars, StatementsFit' PROVE IInv'
BY GenerateIInv, EditIInv, LoseIInv, StartBuildIInv, RunIInv, InterruptIInv, FinishIInv, StutterIInv DEF Next

-----------------------------------------------------------------------------
(* What follows *)

LEMMA IInvTypeOK == IInv => TypeOK
<1> SUFFICES ASSUME IInv PROVE TypeOK
  OBVIOUS
<1> HIDE DEF plan
<1>1. DOMAIN <<>> = {}
  OBVIOUS
<1>2. DOMAIN disk \subseteq plan.files /\ stale \subseteq plan.commands /\ unseen \subseteq plan.files
  <2>1. CASE phase = "new"
    BY <1>1, <2>1 DEF IInv
  <2>2. CASE phase = "died"
    BY <1>1, <2>2 DEF IInv
  <2>3. CASE Live
    BY <2>3 DEF IInv, Settled
  <2> QED
    BY <2>1, <2>2, <2>3 DEF IInv, Live
<1> QED
  BY <1>2 DEF IInv, TypeOK

\* A command that can run finds what it opens, and nobody is about to write it.
LEMMA IInvReads == IInv => ReadsAreReady
<1> SUFFICES ASSUME IInv, NEW i \in plan.commands, CanRun(i), NEW p \in plan.stmt[i].reads \ plan.sources
             PROVE  p \in DOMAIN disk /\ plan.producers[p] \cap Pending = {}
  BY DEF ReadsAreReady
<1>1. phase = "building" /\ i \in want \cap stale /\ Before(i) \cap Pending = {}
  BY DEF CanRun, Pending
<1>2. Live /\ Course(plan, request, want, stale)
  BY <1>1 DEF Live, IInv
<1>3. Solid(plan) /\ plan.default \subseteq Ids(plan)
  BY <1>2, LiveSolid
<1>4. Settled(plan, ver, disk, stale, unseen) /\ request \in Requests(plan)
  BY <1>2 DEF IInv
<1>5. plan.upstream[i] \cap want \cap stale = {}
  <2>1. plan.upstream[i] \subseteq plan.found[i]
    BY <1>3 DEF Solid, Owned, Ordered
  <2> QED
    BY <1>1, <2>1 DEF Before, Pending
<1> HIDE DEF plan
<1>6. plan.upstream[i] \cap plan.commands \cap stale = {}
  BY <1>1, <1>2, <1>3, <1>4, <1>5, CourseCalm
<1>7. p \in DOMAIN disk /\ plan.producers[p] \cap stale = {}
  BY <1>3, <1>4, <1>6, ReadsThere
<1> QED
  BY <1>7 DEF Pending

\* What a finished build was asked for is what a build from nothing would make.
LEMMA IInvFresh == IInv => FreshAfterBuild
<1> SUFFICES ASSUME IInv, phase = "built", NEW i \in Goal(plan, request) \cap plan.commands, NEW p \in plan.stmt[i].outs
             PROVE  p \in DOMAIN disk /\ disk[p] = Clean(plan, ver)[p]
  BY DEF FreshAfterBuild, Outputs
<1>1. Live
  BY DEF Live
<1>2. Solid(plan) /\ plan.default \subseteq Ids(plan)
  BY <1>1, LiveSolid
<1>3. Settled(plan, ver, disk, stale, unseen) /\ request \in Requests(plan)
      /\ Goal(plan, request) \cap plan.commands \cap stale = {}
  BY <1>1 DEF IInv
<1> HIDE DEF plan
<1> QED
  BY <1>2, <1>3, CleanGoal

\* TypeOK for every tree of modules, every set of configurations and every
\* number of edits: what is on disk is a file of the plan, what is wanted and stale a command
\* of it (src/core/linux_backend.go writes the file; ninja runs it).  StatementsFit is what the
\* runs check of each tree: the proof takes it of the state, not as an assumption on constants.
THEOREM TypeCorrect == Spec /\ []StatementsFit => []TypeOK
<1>1. Init => IInv
  BY InitIInv
<1>2. IInv /\ [Next]_vars /\ StatementsFit /\ StatementsFit' => IInv'
  BY NextIInv
<1>3. IInv => TypeOK
  BY IInvTypeOK
<1> QED
  BY <1>1, <1>2, <1>3, PTL DEF Spec

\* BuildsRight for every tree whose statements fit: a command that runs finds
\* each file it opens, with its makers done, and a finished build is what a build from nothing
\* would have made, after any edits, losses and interruptions.
THEOREM BuildIsRight == Spec /\ []StatementsFit => []BuildsRight
<1>1. Init => IInv
  BY InitIInv
<1>2. IInv /\ [Next]_vars /\ StatementsFit /\ StatementsFit' => IInv'
  BY NextIInv
<1>3. IInv => BuildsRight
  BY IInvReads, IInvFresh DEF BuildsRight
<1> QED
  BY <1>1, <1>2, <1>3, PTL DEF Spec

-----------------------------------------------------------------------------
(* The two back ends *)

\* A module that is not enabled links with no shared library.
LEMMA DisabledLinksNone ==
  ASSUME NEW m \in Modules, ~Enabled(m)
  PROVE  DepsTagged(m, {"shared"}) = {}
<1> DEFINE deps == [x \in Modules |->
               DependerDeps(x) \cup AliasDeps(x) \cup GeneratedDependerDeps(x) \cup SortedDeps(x) \cup ReexportDeps(x)]
<1>1. Deps = deps
  <2>1. Table(deps) = deps
    <3> HIDE DEF deps
    <3> QED
      BY TableSame
  <2> QED
    BY <2>1, Zenon DEF Deps
<1>2. Deps[m] = DependerDeps(m) \cup AliasDeps(m) \cup GeneratedDependerDeps(m) \cup SortedDeps(m) \cup ReexportDeps(m)
  BY <1>1
<1>3. DependerDeps(m) = {} /\ GeneratedDependerDeps(m) = {} /\ SortedDeps(m) = {} /\ ReexportDeps(m) = {}
  BY DEF DependerDeps, GeneratedDependerDeps, SortedDeps, ReexportDeps
<1>4. \A e \in AliasDeps(m) : e[1] = "alias"
  BY DEF AliasDeps, On
<1>5. \A e \in Deps[m] : e[1] # "shared"
  BY <1>2, <1>3, <1>4
<1> QED
  BY <1>5, Zenon DEF DepsTagged, OnTag

\* What both back ends take of a module.
BothTake(m) == ~LinuxDies(m) /\ ~AndroidNinjaDies(m) /\ Kind(m) \notin WarnedOf

\* The two back ends link with the same shared libraries, and name the same files for them.
LEMMA SharedAgree ==
  ASSUME NEW m \in Modules, BothTake(m)
  PROVE  /\ getSharedLibLinkPaths(m) = AndroidGetSharedLibLinkPaths(m)
         /\ getSharedLibTocPaths(m) = AndroidGetSharedLibTocPaths(m)
         /\ getSharedLibFlags(m) = AndroidGetSharedLibFlags(m)
<1>1. SharedDeps(m) = AndroidSharedDeps(m)
  BY DEF SharedDeps, AndroidSharedDeps
<1>2. AndroidSharedDeps(m) \cap Imported = {}
  <2>1. CASE Enabled(m)
    BY <2>1 DEF BothTake, AndroidNinjaDies
  <2>2. CASE ~Enabled(m)
    BY <2>2, DisabledLinksNone DEF AndroidSharedDeps
  <2> QED
    BY <2>1, <2>2
<1>3. \A x \in AndroidSharedDeps(m) : Prop(x, "lib_prefix")
  <2>1. CASE Enabled(m)
    BY <1>2, <2>1 DEF BothTake, LinuxDies, AndroidSharedDeps
  <2>2. CASE ~Enabled(m)
    BY <2>2, DisabledLinksNone DEF AndroidSharedDeps
  <2> QED
    BY <2>1, <2>2
<1>4. \A x : getSharedLibLinkPath(x) = AndroidGetSharedLibLinkPath(x)
  BY Zenon DEF getSharedLibLinkPath, AndroidGetSharedLibLinkPath
<1>5. \A x \in AndroidSharedDeps(m) : pathToLibFlagAndroid(x) = SharedLibFound(x)
  BY <1>3 DEF pathToLibFlagAndroid
<1>6. SharedDeps(m) \ Imported = AndroidSharedDeps(m)
  BY <1>1, <1>2
<1>7. {getSharedLibLinkPath(x) : x \in AndroidSharedDeps(m)} = {AndroidGetSharedLibLinkPath(x) : x \in AndroidSharedDeps(m)}
  BY <1>4
<1>8. {SharedLibFound(x) : x \in AndroidSharedDeps(m)} = {pathToLibFlagAndroid(x) : x \in AndroidSharedDeps(m)}
  BY <1>5
<1> QED
  BY <1>1, <1>6, <1>7, <1>8
     DEF getSharedLibLinkPaths, AndroidGetSharedLibLinkPaths, getSharedLibTocPaths, AndroidGetSharedLibTocPaths,
         getSharedLibFlags, AndroidGetSharedLibFlags

\* They compile the same files to the same objects.
LEMMA CompileAgree ==
  ASSUME NEW m
  PROVE  CompileObjs(m) = AndroidCompileObjs(m) /\ Objects(m) = AndroidObjects(m)
<1>1. \A f : ObjectFile(m, f) = AndroidObjectFile(m, f)
  BY Zenon DEF ObjectFile, AndroidObjectFile, ObjDir, AndroidObjDir
<1>2. Objects(m) = AndroidObjects(m)
  BY <1>1 DEF Objects, AndroidObjects
<1>3. CompileObjs(m) = AndroidCompileObjs(m)
  <2> DEFINE Compile(out, f) ==
               Statement("compile", {out}, {BuildPath(f)}, {}, GetGeneratedHeadersFiles(m) \cup BuildWrapperDeps(m),
                         {BuildPath(f)} \cup IncludableHeaders(m) \cup BuildWrapperDeps(m))
  <2>1. CompileObjs(m) = {Compile(ObjectFile(m, f), f) : f \in Compiled(m)}
    BY Zenon DEF CompileObjs
  <2>2. AndroidCompileObjs(m) = {Compile(AndroidObjectFile(m, f), f) : f \in Compiled(m)}
    BY Zenon DEF AndroidCompileObjs
  <2>3. \A f : Compile(ObjectFile(m, f), f) = Compile(AndroidObjectFile(m, f), f)
    BY <1>1
  <2> HIDE DEF Compile
  <2>4. {Compile(ObjectFile(m, f), f) : f \in Compiled(m)} = {Compile(AndroidObjectFile(m, f), f) : f \in Compiled(m)}
    BY <2>3
  <2> QED
    BY <2>1, <2>2, <2>4
<1> QED
  BY <1>2, <1>3

\* They link the same files, in the same order, with the same flags.
LEMMA LinkAgree ==
  ASSUME NEW m \in Modules, BothTake(m), NEW rule, NEW outs, NEW toc
  PROVE  Link(m, rule, outs, toc, LinkOrder(m, toc)) = AndroidLink(m, rule, outs, toc)
<1>1. LinkOrder(m, toc) = AndroidLinkOrder(m, toc)
  BY SharedAgree DEF LinkOrder, AndroidLinkOrder
<1>2. ccLinkImplicits(m, toc) = AndroidCcLinkImplicits(m, toc)
  BY SharedAgree DEF ccLinkImplicits, AndroidCcLinkImplicits
<1>3. getCommonLibArgs(m) = AndroidGetCommonLibArgs(m)
  BY SharedAgree DEF getCommonLibArgs, AndroidGetCommonLibArgs
<1>4. Objects(m) = AndroidObjects(m)
  BY CompileAgree
<1> QED
  BY <1>1, <1>2, <1>3, <1>4 DEF Link, AndroidLink

\* They make the same libraries, tables of contents, symlinks and archives.
LEMMA LibraryAgree ==
  ASSUME NEW m \in Modules, BothTake(m), NEW toc
  PROVE  /\ SharedLinkActions(m, toc) = AndroidSharedLinkActions(m, toc)
         /\ SharedTocActions(m) = AndroidSharedTocActions(m)
         /\ SharedSymlinkActions(m) = AndroidSharedSymlinkActions(m)
         /\ ArchivableActions(m) = AndroidArchivableActions(m)
<1>1. SharedLinkActions(m, toc) = AndroidSharedLinkActions(m, toc)
  BY LinkAgree DEF SharedLinkActions, AndroidSharedLinkActions
<1>2. \A so, t : addSharedLibToc(so, t) = AndroidAddSharedLibToc(so, t)
  BY Zenon DEF addSharedLibToc, AndroidAddSharedLibToc
<1>3. SharedTocActions(m) = AndroidSharedTocActions(m)
  BY <1>2 DEF SharedTocActions, AndroidSharedTocActions
<1>4. SharedSymlinkActions(m) = AndroidSharedSymlinkActions(m)
  BY Zenon DEF SharedSymlinkActions, AndroidSharedSymlinkActions
<1>5. ArchivableActions(m) = AndroidArchivableActions(m)
  BY CompileAgree DEF ArchivableActions, AndroidArchivableActions
<1> QED
  BY <1>1, <1>3, <1>4, <1>5

\* They install the same files; the Android one does it where Linux does it and builds.
LEMMA InstallAgree ==
  ASSUME NEW m \in Modules
  PROVE  InstallActions(m) = AndroidInstall(m) /\ InstallActions(m) \cup InstalledAndBuilt(m) = AndroidInstalledAndBuilt(m)
<1>1. Stripped(m) <=> (Prop(m, "strip") /\ Kind(m) \in {"binary", "shared"})
  BY DEF Stripped, Libraries
<1>2. ASSUME NEW f, ~IsSymLink(f) PROVE InstallFile(m, f) = AndroidInstallFile(m, f)
  <2>1. CASE Stripped(m)
    BY <1>1, <1>2, <2>1 DEF InstallFile, AndroidInstallFile
  <2>2. CASE ~Stripped(m)
    BY <1>1, <1>2, <2>2 DEF InstallFile, AndroidInstallFile
  <2> QED
    BY <2>1, <2>2
<1>3. ASSUME NEW f, IsSymLink(f) PROVE InstallLink(m, f) = AndroidInstallFile(m, f)
  BY <1>3, Zenon DEF AndroidInstallFile
<1>4. \A f : (IF IsSymLink(f) THEN InstallLink(m, f) ELSE InstallFile(m, f)) = AndroidInstallFile(m, f)
  BY <1>2, <1>3
<1>5. InstallActions(m) = AndroidInstall(m)
  BY <1>4 DEF InstallActions, AndroidInstall
<1> QED
  BY <1>5 DEF InstalledAndBuilt, AndroidInstalledAndBuilt

\* They run the same generator commands.
LEMMA GenerateAgree ==
  ASSUME NEW m
  PROVE  /\ generateCommonActions(m) = AndroidGenerateCommonActions(m)
         /\ generateStrictCommonActions(m) = AndroidGenerateStrictCommonActions(m)
<1>1. ASSUME NEW io, NEW S, NEW T PROVE BuildRule(io, S, T) = AndroidBuildRules(io, S, T)
  BY Zenon DEF BuildRule, AndroidBuildRules
<1> QED
  BY <1>1 DEF generateCommonActions, AndroidGenerateCommonActions, generateStrictCommonActions,
              AndroidGenerateStrictCommonActions

\* Kind by kind, an enabled module becomes the same statements.
LEMMA EnabledAgree ==
  ASSUME NEW m \in Modules, BothTake(m), NEW toc
  PROVE  EnabledActions(m, toc) = AndroidEnabledActions(m, toc)
<1> DEFINE built == AndroidInstalledAndBuilt(m)
<1>1. built = InstallActions(m) \cup InstalledAndBuilt(m) /\ AndroidInstall(m) = InstallActions(m)
  BY InstallAgree
<1>2. AndroidCompileObjs(m) = CompileObjs(m)
  BY CompileAgree
<1>3. /\ AndroidSharedLinkActions(m, toc) = SharedLinkActions(m, toc)
      /\ AndroidSharedTocActions(m) = SharedTocActions(m)
      /\ AndroidSharedSymlinkActions(m) = SharedSymlinkActions(m)
      /\ AndroidArchivableActions(m) = ArchivableActions(m)
  BY LibraryAgree
<1>4. \A outs : AndroidLink(m, "link_binary", outs, toc) = Link(m, "link_binary", outs, toc, LinkOrder(m, toc))
  BY LinkAgree
<1>5. /\ AndroidGenerateCommonActions(m) = generateCommonActions(m)
      /\ AndroidGenerateStrictCommonActions(m) = generateStrictCommonActions(m)
  BY GenerateAgree
<1>6. Kind(m) \notin {"test", "kernel_module"}
  BY DEF BothTake, WarnedOf
<1> DEFINE Agree == EnabledActions(m, toc) = AndroidEnabledActions(m, toc)
<1>7. CASE Kind(m) = "static"
  <2>1. EnabledActions(m, toc) = staticActions(m) /\ AndroidEnabledActions(m, toc) = AndroidStaticActions(m)
    BY <1>7 DEF EnabledActions, AndroidEnabledActions
  <2> QED
    BY <1>1, <1>2, <1>3, <2>1 DEF staticActions, AndroidStaticActions
<1>8. CASE Kind(m) = "shared"
  <2>1. EnabledActions(m, toc) = sharedActions(m, toc) /\ AndroidEnabledActions(m, toc) = AndroidSharedActions(m, toc)
    BY <1>8 DEF EnabledActions, AndroidEnabledActions
  <2> QED
    BY <1>1, <1>2, <1>3, <2>1 DEF sharedActions, AndroidSharedActions
<1>9. CASE Kind(m) = "binary"
  <2>1. EnabledActions(m, toc) = binaryActions(m, toc) /\ AndroidEnabledActions(m, toc) = AndroidBinaryActions(m, toc)
    BY <1>9 DEF EnabledActions, AndroidEnabledActions
  <2> QED
    BY <1>1, <1>2, <1>4, <2>1 DEF binaryActions, AndroidBinaryActions
<1>10. CASE Kind(m) = "strict_binary"
  <2>1. EnabledActions(m, toc) = strictBinaryActions(m, toc)
        /\ AndroidEnabledActions(m, toc) = AndroidStrictBinaryActions(m, toc)
    BY <1>10 DEF EnabledActions, AndroidEnabledActions
  <2> QED
    BY <1>1, <1>2, <1>4, <2>1 DEF strictBinaryActions, AndroidStrictBinaryActions
<1>11. CASE Kind(m) = "resource"
  <2>1. EnabledActions(m, toc) = resourceActions(m) /\ AndroidEnabledActions(m, toc) = AndroidResourceActions(m)
    BY <1>11 DEF EnabledActions, AndroidEnabledActions
  <2> QED
    BY <1>1, <2>1 DEF resourceActions, AndroidResourceActions
<1>12. CASE Kind(m) = "genrule"
  <2>1. EnabledActions(m, toc) = genruleActions(m) /\ AndroidEnabledActions(m, toc) = AndroidGenruleActions(m)
    BY <1>12 DEF EnabledActions, AndroidEnabledActions
  <2> QED
    BY <1>5, <2>1 DEF genruleActions, AndroidGenruleActions
<1>13. CASE Kind(m) = "gensrcs"
  <2>1. EnabledActions(m, toc) = genruleActions(m) /\ AndroidEnabledActions(m, toc) = AndroidGensrcsActions(m)
    BY <1>13 DEF EnabledActions, AndroidEnabledActions
  <2> QED
    BY <1>5, <2>1 DEF genruleActions, AndroidGensrcsActions
<1>g. generateSourceActions(m) = AndroidGenerateCommonActions(m) \cup built
  BY <1>1, <1>5 DEF generateSourceActions
<1> HIDE DEF built
<1>14. CASE Kind(m) = "generate_source"
  <2>1. EnabledActions(m, toc) = generateSourceActions(m)
        /\ AndroidEnabledActions(m, toc) = AndroidGenerateSourceActions(m)
    BY <1>14 DEF EnabledActions, AndroidEnabledActions
  <2> QED
    BY <1>g, <2>1 DEF AndroidGenerateSourceActions, built
<1>15. CASE Kind(m) = "transform_source"
  <2>1. EnabledActions(m, toc) = generateSourceActions(m)
        /\ AndroidEnabledActions(m, toc) = AndroidTransformSourceActions(m)
    BY <1>15 DEF EnabledActions, AndroidEnabledActions
  <2> QED
    BY <1>g, <2>1 DEF AndroidTransformSourceActions, built
<1>16. CASE Kind(m) = "generate_static"
  <2>1. EnabledActions(m, toc) = generateSourceActions(m) /\ AndroidEnabledActions(m, toc) = AndroidGenStaticActions(m)
    BY <1>16 DEF EnabledActions, AndroidEnabledActions
  <2> QED
    BY <1>g, <2>1 DEF AndroidGenStaticActions, built
<1>17. CASE Kind(m) = "generate_shared"
  <2>1. EnabledActions(m, toc) = genSharedActions(m) /\ AndroidEnabledActions(m, toc) = AndroidGenSharedActions(m)
    BY <1>17 DEF EnabledActions, AndroidEnabledActions
  <2> DEFINE path == getSharedLibLinkPath(m)
             tocs == {addSharedLibToc(path, BuildPath(f)) : f \in Tagged(Outs[m], "toc")}
  <2>2. AndroidGetSharedLibLinkPath(m) = path
    BY Zenon DEF getSharedLibLinkPath, AndroidGetSharedLibLinkPath
  <2>3. \A so, t : AndroidAddSharedLibToc(so, t) = addSharedLibToc(so, t)
    BY Zenon DEF addSharedLibToc, AndroidAddSharedLibToc
  <2> HIDE DEF path
  <2>4. {AndroidAddSharedLibToc(path, BuildPath(f)) : f \in Tagged(Outs[m], "toc")} = tocs
    BY <2>3
  <2>5. genSharedActions(m) = AndroidGenerateCommonActions(m) \cup built \cup CopyTo(m, path) \cup tocs
    BY <1>g, Zenon DEF genSharedActions, path
  <2>6. AndroidGenSharedActions(m) = AndroidGenerateCommonActions(m) \cup CopyTo(m, path) \cup tocs \cup built
    <3> HIDE DEF tocs
    <3>1. AndroidGenSharedActions(m) =
             AndroidGenerateCommonActions(m) \cup CopyTo(m, path)
             \cup {AndroidAddSharedLibToc(path, BuildPath(f)) : f \in Tagged(Outs[m], "toc")} \cup built
      BY <2>2, Zenon DEF AndroidGenSharedActions, built
    <3> QED
      BY <2>4, <3>1
  <2> HIDE DEF tocs
  <2> QED
    BY <2>1, <2>5, <2>6
<1>18. CASE Kind(m) = "generate_binary"
  <2>1. EnabledActions(m, toc) = genBinaryActions(m) /\ AndroidEnabledActions(m, toc) = AndroidGenBinaryActions(m)
    BY <1>18 DEF EnabledActions, AndroidEnabledActions
  <2> QED
    BY <1>g, <2>1 DEF genBinaryActions, AndroidGenBinaryActions, built
<1>19. CASE Kind(m) \notin {"static", "shared", "binary", "strict_binary", "resource", "genrule", "gensrcs", "generate_source",
                            "transform_source", "generate_static", "generate_shared", "generate_binary"}
  <2>1. EnabledActions(m, toc) = {} /\ AndroidEnabledActions(m, toc) = {}
    BY <1>6, <1>19 DEF EnabledActions, AndroidEnabledActions
  <2> QED
    BY <2>1
<1> HIDE DEF Agree
<1>20. Agree
  BY <1>7, <1>8, <1>9, <1>10, <1>11, <1>12, <1>13, <1>14, <1>15, <1>16, <1>17, <1>18, <1>19 DEF Agree
<1> QED
  BY <1>20 DEF Agree

\* Of every module that both take, enabled or not, they make the same statements.
LEMMA ActionsAgree ==
  ASSUME NEW m \in Modules, BothTake(m), NEW toc
  PROVE  LinuxActions(m, toc) = AndroidNinjaActions(m, toc)
<1>1. CASE Kind(m) = "alias"
  BY <1>1 DEF LinuxActions, AndroidNinjaActions, aliasActions, AndroidAliasActions
<1>2. CASE Kind(m) = "strict_library"
  <2>1. AndroidInstalledAndBuilt(m) = InstallActions(m) \cup InstalledAndBuilt(m)
    BY InstallAgree
  <2>2. AndroidCompileObjs(m) = CompileObjs(m)
    BY CompileAgree
  <2>3. /\ AndroidSharedLinkActions(m, toc) = SharedLinkActions(m, toc)
        /\ AndroidSharedTocActions(m) = SharedTocActions(m)
        /\ AndroidSharedSymlinkActions(m) = SharedSymlinkActions(m)
        /\ AndroidArchivableActions(m) = ArchivableActions(m)
    BY LibraryAgree
  <2>4. LinuxActions(m, toc) = strictLibraryActions(m, toc) /\ AndroidNinjaActions(m, toc) = AndroidStrictLibraryActions(m, toc)
    BY <1>2 DEF LinuxActions, AndroidNinjaActions
  <2> QED
    BY <2>1, <2>2, <2>3, <2>4 DEF strictLibraryActions, AndroidStrictLibraryActions
<1>3. CASE Kind(m) \notin {"alias", "strict_library"}
  <2>1. Kind(m) \notin {"import_library", "import_binary"}
    BY DEF BothTake, WarnedOf
  <2>2. /\ LinuxActions(m, toc) = IF Enabled(m) THEN EnabledActions(m, toc) ELSE {}
        /\ AndroidNinjaActions(m, toc) = IF Enabled(m) THEN AndroidEnabledActions(m, toc) ELSE {}
    BY <1>3, <2>1 DEF LinuxActions, AndroidNinjaActions
  <2> QED
    BY <2>2, EnabledAgree
<1> QED
  BY <1>1, <1>2, <1>3

\* The tables of statements the runs read hold the same for both.
LEMMA TablesAgree ==
  ASSUME NEW m \in Handled.comparable
  PROVE  Handled.linux[m] = Handled.androidninja[m]
<1> DEFINE died == {c \in Confs : Dies(c)}
           plans == Table([c \in Confs |-> IF c \in died THEN NoPlan ELSE PlanOf(c)])
           comparable == {x \in Modules : ~LinuxDies(x) /\ ~AndroidNinjaDies(x) /\ Kind(x) \notin WarnedOf}
           loaded == Table([x \in Modules |-> Closure({x}, LoadEdges)])
           installed == Table([x \in Modules |-> Installed(x)])
           outputs == Table([x \in Modules |-> GetOutputs(Outs[x])])
           fitting == {c \in Confs \ died : Fits(plans[c])}
           results == [died |-> died, plans |-> plans, fitting |-> fitting, linux |-> Linux, androidninja |-> AndroidNinja,
                       comparable |-> comparable, loaded |-> loaded, installed |-> installed, outputs |-> outputs]
<1>1. HandlerResults = results
  BY Zenon DEF HandlerResults
<1>2. Handled = results
  BY <1>1, ResultsAssumption DEF Handled
<1> HIDE DEF died, plans, loaded, installed, outputs, fitting, comparable
<1>3. Handled.linux = Linux /\ Handled.androidninja = AndroidNinja /\ Handled.comparable = comparable
  BY <1>2
<1> HIDE DEF results
<1>4. m \in Modules /\ BothTake(m)
  BY <1>3 DEF comparable, BothTake
<1> DEFINE L(x) == [toc \in BOOLEAN |-> LinuxActions(x, toc)]
           A(x) == [toc \in BOOLEAN |-> AndroidNinjaActions(x, toc)]
<1>5. L(m) = A(m)
  <2>1. \A toc \in BOOLEAN : LinuxActions(m, toc) = AndroidNinjaActions(m, toc)
    BY <1>4, ActionsAgree
  <2> QED
    BY <2>1
<1>6. Linux = Table([x \in Modules |-> Table(L(x))]) /\ AndroidNinja = Table([x \in Modules |-> Table(A(x))])
  BY Zenon DEF Linux, AndroidNinja
<1> HIDE DEF L, A
<1>7. Linux = [x \in Modules |-> Table(L(x))] /\ AndroidNinja = [x \in Modules |-> Table(A(x))]
  BY <1>6, TableSame
<1> QED
  BY <1>3, <1>4, <1>5, <1>7

\* BackendsAgree for every tree of modules: a module that neither back end
\* dies on or only warns of becomes the same statements in the Linux and the Android ninja
\* back end (src/core/linux_*.go, src/core/androidninja_*.go), with tables of contents or without.
THEOREM BackEndsAgree == Spec => []BackendsAgree
<1>1. BackendsAgree
  BY TablesAgree DEF BackendsAgree
<1> QED
  BY <1>1, PTL

=================================================================================

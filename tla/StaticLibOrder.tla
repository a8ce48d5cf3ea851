--------------------------- MODULE StaticLibOrder ---------------------------
(***************************************************************************)
(* Which static libraries a module links with, and in which order          *)
(* (core/dep_sorter.go, over internal/graph).  One graph per target is     *)
(* shared by the visits of all its modules: the visit of a module adds its *)
(* declared edges (static_libs blue, whole_static_libs red) and, for a     *)
(* while, pink ones that keep the declared order; it then takes a copy of  *)
(* what the module reaches, replaces every red edge of the copy by the     *)
(* edges of the library at its end, and sorts what is left.                *)
(*                                                                         *)
(* The visits do not overlap (the mutator is not parallel) and a module is *)
(* visited after its dependencies.  What is nondeterministic is the order  *)
(* of unrelated visits and, inside one, the order in which Go ranges over  *)
(* the map of nodes.                                                       *)
(***************************************************************************)
EXTENDS Integers, SequencesExt

CONSTANTS
  Module,           \* the modules of one target
  NoModule,         \* no module is being visited
  Linker,           \* the binaries and shared libraries among them
  Prebuilt,         \* those with no build properties: nothing to resolve
  Declarations,     \* the [static, whole] lists build definitions may hold
  Disabling         \* the sets of modules that may be disabled

ASSUME ModuleAssumption ==
  /\ IsFiniteSet(Module)
  /\ NoModule \notin Module
  /\ Linker \cup Prebuilt \subseteq Module
  /\ Linker \cap Prebuilt = {}
  /\ Disabling \subseteq SUBSET Module

(* What has no build properties has no lists.                              *)
ASSUME DeclarationAssumption ==
  \A d \in Declarations :
    /\ d.static \in [Module -> Seq(Module)]
    /\ d.whole \in [Module -> Seq(Module)]
    /\ \A m \in Prebuilt : d.static[m] = <<>> /\ d.whole[m] = <<>>

VARIABLES
  static,           \* static[m]: Static_libs, in order
  whole,            \* whole[m]: Whole_static_libs, in order
  disabled,         \* the modules with Enabled false
  phase,            \* "check", "sort", "done", or "died" after utils.Die
  visited,          \* the modules the current mutator has finished with
  nodes,            \* nodes of the shared graph
  graph,            \* graph[n]: out-edges of n, in the order they were added
  main,             \* the module being visited, or NoModule
  stage,            \* how far its visit is
  pinkEdges,        \* temporaryPaths
  sub,              \* the copy taken for main
  priority,         \* node priorities of sub
  toScan,           \* nodes the current round of DeleteProxyEdges still ranges over
  removed,          \* whether the round has removed an edge
  resolved          \* resolved[m]: ResolvedStaticLibs

declared == <<static, whole, disabled>>
scan == <<sub, priority, toScan, removed>>
vars == <<static, whole, disabled, phase, visited, nodes, graph, main, stage,
          pinkEdges, sub, priority, toScan, removed, resolved>>

-----------------------------------------------------------------------------
(* internal/graph.  An edge is [to, color]; a graph gives every node the   *)
(* sequence of its out-edges, as node.targets and node.edgeAttributes do.  *)
Targets(g, n) == [i \in DOMAIN g[n] |-> g[n][i].to]

HasEdge(g, s, t) == t \in ToSet(Targets(g, s))

ColorOf(g, s, t) == (CHOOSE e \in ToSet(g[s]) : e.to = t).color

(* addEdge followed by setEdgeColor or setEdgeAttributes: an edge that     *)
(* exists keeps its place and takes the color.                             *)
AddEdge(g, s, t, color) ==
  LET edge == [to |-> t, color |-> color]
  IN  IF HasEdge(g, s, t)
      THEN [g EXCEPT ![s] = [i \in DOMAIN @ |-> IF @[i].to = t THEN edge ELSE @[i]]]
      ELSE [g EXCEPT ![s] = Append(@, edge)]

(* The edges from s, one after the other.                                  *)
AddEdges(g, s, edges) ==
  LET added[i \in 0 .. Len(edges)] ==
        IF i = 0 THEN g ELSE AddEdge(added[i - 1], s, edges[i].to, edges[i].color)
  IN  added[Len(edges)]

(* The edges that do not go to T.                                          *)
EdgesNotTo(edges, T) ==
  LET kept[i \in 0 .. Len(edges)] ==
        IF i = 0 THEN <<>>
        ELSE IF edges[i].to \in T THEN kept[i - 1] ELSE Append(kept[i - 1], edges[i])
  IN  kept[Len(edges)]

DeleteEdge(g, s, t) == [g EXCEPT ![s] = EdgesNotTo(@, {t})]

(* n and all that can be reached from it, E[s] being one step away from s. *)
ReachedFrom(E, n) ==
  LET grow[S \in SUBSET Module] ==
        LET T == S \cup UNION {E[s] : s \in S}
        IN  IF T = S THEN S ELSE grow[T]
  IN  grow[{n}]

(* getSubgraphNodeSetConcrete: n and what it reaches.                      *)
NodeSet(g, n) == ReachedFrom([s \in Module |-> ToSet(Targets(g, s))], n)

GetSubgraph(g, n) ==
  [s \in Module |-> IF s \in NodeSet(g, n) THEN g[s] ELSE <<>>]

GetSources(g, n) == {s \in Module : HasEdge(g, s, n)}

(* deleteProxyEdgeSetColor: s takes over the edges of p, colors included.  *)
DeleteProxyEdge(g, s, p) ==
  DeleteEdge(AddEdges(g, s, g[p]), s, p)

(* The body of DeleteProxyEdges for one node: it ranges over a copy of the *)
(* targets but looks at the colors the edges have by then.                 *)
DeleteProxiesOf(g, s) ==
  LET t == Targets(g, s)
      seen[i \in 0 .. Len(t)] ==
        IF i = 0 THEN g
        ELSE IF ColorOf(seen[i - 1], s, t[i]) = "red" THEN DeleteProxyEdge(seen[i - 1], s, t[i])
        ELSE seen[i - 1]
  IN  seen[Len(t)]

IsDAG(g, n) ==
  \A s \in NodeSet(g, n) : \A t \in ToSet(Targets(g, s)) : s \notin NodeSet(g, t)

(* utils.Reversed, then sort.Stable by priority.                           *)
Children(g, prio, n) ==
  LET t == Targets(g, n)
      Before(i, j) == prio[t[i]] < prio[t[j]] \/ (prio[t[i]] = prio[t[j]] /\ i > j)
      Place(j) == 1 + Cardinality({i \in DOMAIN t : Before(i, j)})
  IN  [k \in DOMAIN t |-> t[CHOOSE j \in DOMAIN t : Place(j) = k]]

(* Mutant: a node is put down when it is entered.                          *)
PreorderSort(g, prio, n) ==
  LET visit[id \in Module, L \in Seq(Module)] ==
        IF id \in ToSet(L) THEN L
        ELSE FoldLeft(LAMBDA M, w : visit[w, M], Append(L, id), Children(g, prio, id))
  IN  visit[n, <<>>]

(* Depth first from n, pushing a node in front when its children are done. *)
TopologicalSort(g, prio, n) ==
  LET visit[v \in [node : Module, list : Seq(Module), gray : SUBSET Module]] ==
        LET w == Children(g, prio, v.node)
            done[i \in 0 .. Len(w)] ==
              IF i = 0 THEN v.list
              ELSE visit[[node |-> w[i], list |-> done[i - 1], gray |-> v.gray \cup {v.node}]]
        IN  IF v.node \in v.gray \cup ToSet(v.list) THEN v.list
            ELSE <<v.node>> \o done[Len(w)]
  IN  visit[[node |-> n, list |-> <<>>, gray |-> {}]]

-----------------------------------------------------------------------------
(* What the lists of a module say, for the checks and the properties.      *)
Libs(m) == ToSet(static[m]) \cup ToSet(whole[m])

(* m and every library below it, by either list.                           *)
Below(m) == ReachedFrom([s \in Module |-> Libs(s)], m)

(* checkForMultipleLinking over the static libraries below m (not m), and  *)
(* the check on a second whole_static_libs user in exportLibFlagsMutator.  *)
LinksMultiply(m) ==
  LET deps == Below(m) \ {m}
  IN  \/ \E d, e \in deps : ToSet(static[d]) \cap ToSet(whole[e]) # {}
      \/ \E d, e \in deps : d # e /\ ToSet(whole[d]) \cap ToSet(whole[e]) # {}

(* Bottom-up visiting: dependencies first.                                 *)
DepsVisited(m) == Libs(m) \subseteq visited

-----------------------------------------------------------------------------
(* A disabled module gets no dependencies from dependerMutator: its lists  *)
(* are never looked at, and are taken to be empty.                         *)
Init ==
  /\ disabled \in Disabling
  /\ \E d \in Declarations :
       /\ static = [m \in Module |-> IF m \in disabled THEN <<>> ELSE d.static[m]]
       /\ whole = [m \in Module |-> IF m \in disabled THEN <<>> ELSE d.whole[m]]
  /\ phase = "check"
  /\ visited = {}
  /\ nodes = {}
  /\ graph = [m \in Module |-> <<>>]
  /\ main = NoModule
  /\ stage = "idle"
  /\ pinkEdges = {}
  /\ sub = [m \in Module |-> <<>>]
  /\ priority = <<>>
  /\ toScan = {}
  /\ removed = FALSE
  /\ resolved = [m \in Module |-> <<>>]

(* exportLibFlagsMutator: the run dies if some binary or shared library    *)
(* would link a library more than once.                                    *)
CheckMultipleLinking ==
  /\ phase = "check"
  /\ phase' = IF \E m \in Linker : LinksMultiply(m) THEN "died" ELSE "sort"
  /\ UNCHANGED <<declared, visited, nodes, graph, main, stage, pinkEdges, scan, resolved>>

(* ResolveDependencySortMutator, from here to Sort.                        *)
Visit(m) == phase = "sort" /\ main = NoModule /\ m \notin visited /\ DepsVisited(m)

Skip(m) ==
  /\ Visit(m)
  /\ m \in disabled \cup Prebuilt
  /\ nodes' = IF m \in disabled THEN nodes ELSE nodes \cup {m}
  /\ visited' = visited \cup {m}
  /\ UNCHANGED <<declared, phase, graph, main, stage, pinkEdges, scan, resolved>>

DeclaredEdges(m) ==
  [i \in DOMAIN static[m] |-> [to |-> static[m][i], color |-> "blue"]]
    \o [i \in DOMAIN whole[m] |-> [to |-> whole[m][i], color |-> "red"]]

Link(m) ==
  /\ Visit(m)
  /\ m \notin disabled \cup Prebuilt
  /\ Libs(m) \subseteq nodes \cup {m}
  /\ nodes' = nodes \cup {m}
  /\ graph' = AddEdges(graph, m, DeclaredEdges(m))
  /\ main' = m
  /\ stage' = "linked"
  /\ UNCHANGED <<declared, phase, visited, pinkEdges, scan, resolved>>

DieOnMissingLib(m) ==
  /\ Visit(m)
  /\ m \notin disabled \cup Prebuilt
  /\ ~(Libs(m) \subseteq nodes \cup {m})
  /\ phase' = "died"
  /\ UNCHANGED <<declared, visited, nodes, graph, main, stage, pinkEdges, scan, resolved>>

(* Mutant: an order edge even where the library reaches the previous one.  *)
CyclicOrderEdges(g, libs, j) ==
  LET ordered[i \in 0 .. j - 1] ==
        IF i = 0 THEN g
        ELSE IF HasEdge(ordered[i - 1], libs[i], libs[j]) THEN ordered[i - 1]
        ELSE AddEdge(ordered[i - 1], libs[i], libs[j], "pink")
  IN  ordered[j - 1]

(* Edges from the libraries listed before libs[j] to it, unless it reaches *)
(* them already.  reachableFromLib is computed once for each j.            *)
OrderEdges(g, libs, j) ==
  LET reachable == NodeSet(g, libs[j])
      ordered[i \in 0 .. j - 1] ==
        IF i = 0 THEN g
        ELSE IF libs[i] \in reachable \/ HasEdge(ordered[i - 1], libs[i], libs[j]) THEN ordered[i - 1]
        ELSE AddEdge(ordered[i - 1], libs[i], libs[j], "pink")
  IN  ordered[j - 1]

(* All the edges that keep the order of a list.                            *)
OrderAll(g, libs) ==
  LET ordered[j \in 0 .. Len(libs)] ==
        IF j = 0 THEN g ELSE OrderEdges(ordered[j - 1], libs, j)
  IN  ordered[Len(libs)]

KeepDeclaredOrder ==
  /\ stage = "linked"
  /\ graph' = OrderAll(graph, static[main])
  /\ pinkEdges' = {e \in Module \X Module :
                     HasEdge(graph', e[1], e[2]) /\ ~HasEdge(graph, e[1], e[2])}
  /\ stage' = "ordered"
  /\ UNCHANGED <<declared, phase, visited, nodes, main, scan, resolved>>

(* Mutant: the order edges stay in the shared graph.                       *)
TakeSubgraphOnly ==
  /\ stage = "ordered"
  /\ sub' = GetSubgraph(graph, main)
  /\ pinkEdges' = {}
  /\ priority' = [n \in NodeSet(graph, main) |->
                    10 * Cardinality(GetSources(sub', n)) - Cardinality(NodeSet(sub', n))]
  /\ toScan' = NodeSet(graph, main)
  /\ removed' = FALSE
  /\ stage' = "proxies"
  /\ UNCHANGED <<declared, phase, visited, nodes, graph, main, resolved>>

WithoutPink ==
  [s \in Module |-> EdgesNotTo(graph[s], {t \in Module : <<s, t>> \in pinkEdges})]

(* The copy is taken with the pink edges in place; then they go.  Priority *)
(* is worked out on the copy before its red edges go.                      *)
TakeSubgraph ==
  /\ stage = "ordered"
  /\ sub' = GetSubgraph(graph, main)
  /\ graph' = WithoutPink
  /\ pinkEdges' = {}
  /\ priority' = [n \in NodeSet(graph, main) |->
                    10 * Cardinality(GetSources(sub', n)) - Cardinality(NodeSet(sub', n))]
  /\ toScan' = NodeSet(graph, main)
  /\ removed' = FALSE
  /\ stage' = "proxies"
  /\ UNCHANGED <<declared, phase, visited, nodes, main, resolved>>

(* Mutant: a single round, whatever it removed.                            *)
ScanNodeOnce(n) ==
  /\ stage = "proxies"
  /\ n \in toScan
  /\ sub' = DeleteProxiesOf(sub, n)
  /\ toScan' = toScan \ {n}
  /\ UNCHANGED <<declared, phase, visited, nodes, graph, main, stage, pinkEdges,
                 priority, removed, resolved>>

(* One node of one round of DeleteProxyEdges("red").                       *)
ScanNode(n) ==
  /\ stage = "proxies"
  /\ n \in toScan
  /\ sub' = DeleteProxiesOf(sub, n)
  /\ removed' = (removed \/ sub' # sub)
  /\ toScan' = toScan \ {n}
  /\ UNCHANGED <<declared, phase, visited, nodes, graph, main, stage, pinkEdges,
                 priority, resolved>>

(* Mutant: removed is set before the loop only.                            *)
ScanForEver ==
  /\ stage = "proxies"
  /\ toScan = {} /\ removed
  /\ toScan' = DOMAIN priority
  /\ UNCHANGED <<declared, phase, visited, nodes, graph, main, stage, pinkEdges,
                 sub, priority, removed, resolved>>

ScanAgain ==
  /\ stage = "proxies"
  /\ toScan = {} /\ removed
  /\ toScan' = DOMAIN priority
  /\ removed' = FALSE
  /\ UNCHANGED <<declared, phase, visited, nodes, graph, main, stage, pinkEdges,
                 sub, priority, resolved>>

(* The module itself comes out first and is dropped.  isDAG is looked at   *)
(* afterwards.                                                             *)
Sort ==
  /\ stage = "proxies"
  /\ toScan = {} /\ ~removed
  /\ IF IsDAG(sub, main)
     THEN /\ resolved' = [resolved EXCEPT ![main] = Tail(TopologicalSort(sub, priority, main))]
          /\ phase' = phase
     ELSE /\ phase' = "died"
          /\ resolved' = resolved
  /\ visited' = visited \cup {main}
  /\ main' = NoModule
  /\ stage' = "idle"
  /\ sub' = [m \in Module |-> <<>>]
  /\ priority' = <<>>
  /\ UNCHANGED <<declared, nodes, graph, pinkEdges, toScan, removed>>

EndPass ==
  /\ phase = "sort" /\ visited = Module
  /\ phase' = "done"
  /\ UNCHANGED <<declared, visited, nodes, graph, main, stage, pinkEdges, scan, resolved>>

Ended == phase \in {"done", "died"} /\ UNCHANGED vars

Step ==
  \/ CheckMultipleLinking
  \/ \E m \in Module : Skip(m) \/ Link(m) \/ DieOnMissingLib(m)
  \/ KeepDeclaredOrder \/ TakeSubgraph
  \/ \E n \in Module : ScanNode(n)
  \/ ScanAgain \/ Sort
  \/ EndPass

Next == Step \/ Ended

Spec == Init /\ [][Next]_vars

(* One goroutine runs the pass; nothing it does can be put off for ever.   *)
FairSpec == Spec /\ WF_vars(Step)

-----------------------------------------------------------------------------
(* What linking x brings in besides x: the libraries it includes whole.    *)
Contents(x) == ReachedFrom([s \in Module |-> ToSet(whole[s])], x)

Uses(x, y) == \E c \in Contents(x) : y \in ToSet(static[c])

Precedes(x, y, s) ==
  \E i, j \in DOMAIN s : i < j /\ s[i] = x /\ s[j] = y

(* No library is reached both as a static_lib and inside another one.      *)
LinksOnce(m) ==
  \A d, e \in Below(m) : ToSet(static[d]) \cap ToSet(whole[e]) = {}

Sorted(m) == m \in visited \ (disabled \cup Prebuilt) /\ phase # "died"

(* One edge for each library that is mentioned: in the order of the first  *)
(* mentions, with the color of the last.                                   *)
OneEdgeEach(edges, mentions) ==
  LET Of(t) == {k \in DOMAIN mentions : mentions[k].to = t}
  IN  /\ \A k \in DOMAIN mentions : \E i \in DOMAIN edges : edges[i].to = mentions[k].to
      /\ \A i \in DOMAIN edges : \E k \in Of(edges[i].to) :
            edges[i] = mentions[k] /\ \A l \in Of(edges[i].to) : l <= k
      /\ \A i, j \in DOMAIN edges : i < j =>
            \E k \in Of(edges[i].to) : \A l \in Of(edges[j].to) : k < l

(* The graph shared by all the visits holds, between two of them, exactly  *)
(* the declared edges of the modules visited so far, in declaration order: *)
(* the edges one module adds to order its own libraries must not reorder   *)
(* those of the next one (temporaryPaths).                                 *)
GraphRestored ==
  main = NoModule =>
    \A m \in Module :
      OneEdgeEach(graph[m], IF m \in visited THEN DeclaredEdges(m) ELSE <<>>)

(* Every library a module reaches is linked: it is on the link line, or    *)
(* whole in something that is, or whole in the module itself.              *)
NothingLost ==
  \A m \in Module : Sorted(m) =>
    Below(m) \subseteq UNION {Contents(x) : x \in {m} \cup ToSet(resolved[m])}

(* A library precedes those it uses, through the libraries it includes     *)
(* whole as well (bob_static_library.md, "libA must appear before libB").  *)
UsersFirst ==
  \A m \in Module : Sorted(m) =>
    \A x, y \in ToSet(resolved[m]) :
      x # y /\ Uses(x, y) /\ y \notin Contents(x) => Precedes(x, y, resolved[m])

(* Whatever the map order, a module none of whose libraries is reached     *)
(* both ways links exactly those that nothing it reaches includes whole.   *)
ExactlyTheUncontained ==
  \A m \in Module : Sorted(m) /\ LinksOnce(m) =>
    ToSet(resolved[m]) =
      {l \in Below(m) \ {m} : \A x \in Below(m) : l \notin ToSet(whole[x])}

(* A static_libs list in which no library uses an earlier one is in a good *)
(* order as it stands, and is kept, with whatever is pulled in put between *)
(* (the test case sl_main_ordered; dep_sorter.go:67).                      *)
DeclaredOrderKept ==
  \A m \in Module :
    LET libs == static[m]
        earlier == {p \in (DOMAIN libs) \X (DOMAIN libs) : p[1] < p[2]}
    IN  /\ Sorted(m) /\ LinksOnce(m)
        /\ \A p \in earlier : libs[p[1]] \notin Below(libs[p[2]])
        => \A p \in earlier : Precedes(libs[p[1]], libs[p[2]], resolved[m])

(* The right libraries, each brought in exactly once where that is asked   *)
(* for, on every link line; none of what a module reaches is missing.      *)
LinkedExactly == NothingLost /\ ExactlyTheUncontained

(* And in an order a linker that reads its line once can resolve, which is *)
(* the declared one wherever that is such an order.                        *)
LinksInOrder == UsersFirst /\ DeclaredOrderKept

(* The run dies only for a reason a build definition gives: a library      *)
(* linked twice, or a disabled one in the lists of an enabled module;      *)
(* never for a cycle the sorting made, or a node not yet in the graph.     *)
DeathIsExplained ==
  phase = "died" =>
    \/ \E m \in Linker : LinksMultiply(m)
    \/ \E m \in Module \ disabled : Libs(m) \cap disabled # {}

(* Replacing red edges by the edges behind them, which may be red in turn, *)
(* comes to an end in every order.                                         *)
SortingEnds == <>(phase \in {"done", "died"})

=============================================================================

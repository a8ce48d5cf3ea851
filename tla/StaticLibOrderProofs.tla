------------------------- MODULE StaticLibOrderProofs -------------------------
(***************************************************************************)
(* For every set of modules, and every list a build definition may hold:   *)
(* the graph shared by the visits is restored after each of them, and the  *)
(* run dies only for what a build definition says.                         *)
(*                                                                         *)
(* Both rest on the graph having no cycle at any time.  An edge that keeps *)
(* a declared order goes to a library that does not reach its source, so   *)
(* it enters a set closed under the edges from outside (AddedAcyclic); an  *)
(* edge that takes the place of a red one goes further down the same       *)
(* ranking (DeleteProxyEdgeRanked).  The order edges come after the edges  *)
(* of their node and go where it had none, so that taking them away gives  *)
(* the graph there was (AddedGoes).                                        *)
(***************************************************************************)
EXTENDS StaticLibOrder, FiniteSetTheorems, SequenceTheorems, RecursionLemmas, TLAPS

\* Graphs, an edge of which is to a module and has a color.
Color  == {"blue", "red", "pink"}
Edge   == [to : Module, color : Color]
Graphs == [Module -> Seq(Edge)]

\* s has an edge to t.
LEMMA HasEdgeIff ==
  ASSUME NEW g \in Graphs, NEW s \in Module, NEW t
  PROVE  HasEdge(g, s, t) <=> \E i \in 1 .. Len(g[s]) : g[s][i].to = t
<1>1. DOMAIN g[s] = 1 .. Len(g[s]) /\ g[s] \in Seq(Edge)
  BY DEF Graphs
<1>2. ToSet(Targets(g, s)) = {Targets(g, s)[i] : i \in DOMAIN Targets(g, s)}
  BY DEF ToSet
<1>3. DOMAIN Targets(g, s) = 1 .. Len(g[s]) /\ \A i \in 1 .. Len(g[s]) : Targets(g, s)[i] = g[s][i].to
  BY <1>1 DEF Targets
<1> QED
  BY <1>2, <1>3 DEF HasEdge

\* One edge added.
LEMMA AddEdgeFacts ==
  ASSUME NEW g \in Graphs, NEW s \in Module, NEW t \in Module, NEW c \in Color
  PROVE  /\ AddEdge(g, s, t, c) \in Graphs
         /\ \A x \in Module : x # s => AddEdge(g, s, t, c)[x] = g[x]
         /\ HasEdge(g, s, t) =>
              /\ Len(AddEdge(g, s, t, c)[s]) = Len(g[s])
              /\ \A i \in 1 .. Len(g[s]) :
                   AddEdge(g, s, t, c)[s][i] = IF g[s][i].to = t THEN [to |-> t, color |-> c] ELSE g[s][i]
         /\ ~HasEdge(g, s, t) => AddEdge(g, s, t, c)[s] = Append(g[s], [to |-> t, color |-> c])
<1> DEFINE edge == [to |-> t, color |-> c]
<1>1. edge \in Edge /\ g[s] \in Seq(Edge) /\ DOMAIN g[s] = 1 .. Len(g[s]) /\ DOMAIN g = Module
  <2>1. edge \in Edge
    BY DEF Edge
  <2>2. g[s] \in Seq(Edge) /\ DOMAIN g = Module
    BY DEF Graphs
  <2> QED
    BY <2>1, <2>2
<1>2. CASE HasEdge(g, s, t)
  <2> DEFINE new == [i \in DOMAIN g[s] |-> IF g[s][i].to = t THEN edge ELSE g[s][i]]
  <2>1. AddEdge(g, s, t, c) = [g EXCEPT ![s] = new]
    BY <1>2, Zenon DEF AddEdge
  <2>2. new \in Seq(Edge) /\ Len(new) = Len(g[s])
    <3>1. \A i \in 1 .. Len(g[s]) : g[s][i] \in Edge
      BY <1>1
    <3>2. new \in [1 .. Len(g[s]) -> Edge]
      BY <1>1, <3>1
    <3> HIDE DEF new
    <3> QED
      BY <1>1, <3>2
  <2>3. \A i \in 1 .. Len(g[s]) : new[i] = IF g[s][i].to = t THEN edge ELSE g[s][i]
    BY <1>1
  <2> HIDE DEF new
  <2> QED
    BY <1>1, <1>2, <2>1, <2>2, <2>3 DEF Graphs
<1>3. CASE ~HasEdge(g, s, t)
  <2>1. AddEdge(g, s, t, c) = [g EXCEPT ![s] = Append(g[s], edge)]
    BY <1>3, Zenon DEF AddEdge
  <2>2. Append(g[s], edge) \in Seq(Edge)
    BY <1>1
  <2> QED
    BY <1>1, <1>3, <2>1, <2>2 DEF Graphs
<1> QED
  BY <1>2, <1>3

\* The graphs on the way, when edges are added one after the other.
Adding(g, s, edges) ==
  {f \in [0 .. Len(edges) -> Graphs] :
      f[0] = g /\ \A i \in 1 .. Len(edges) : f[i] = AddEdge(f[i - 1], s, edges[i].to, edges[i].color)}

\* AddEdges is the last of such graphs.
LEMMA AddEdgesRuns ==
  ASSUME NEW g \in Graphs, NEW s \in Module, NEW edges \in Seq(Edge)
  PROVE  \E f \in Adding(g, s, edges) : AddEdges(g, s, edges) = f[Len(edges)]
<1> DEFINE n == Len(edges)
           F == [p \in (1 .. n) \X Graphs |-> AddEdge(p[2], s, edges[p[1]].to, edges[p[1]].color)]
           Rule(f) == [i \in 0 .. n |-> IF i = 0 THEN g ELSE AddEdge(f[i - 1], s, edges[i].to, edges[i].color)]
           added == CHOOSE f : f = Rule(f)
<1>1. n \in Nat /\ \A i \in 1 .. n : edges[i].to \in Module /\ edges[i].color \in Color
  <2>1. \A i \in 1 .. n : edges[i] \in Edge
    OBVIOUS
  <2>2. \A e \in Edge : e.to \in Module /\ e.color \in Color
    BY DEF Edge
  <2> QED
    BY <2>1, <2>2
<1>2. F \in [(1 .. n) \X Graphs -> Graphs]
  BY <1>1, AddEdgeFacts
<1>3. PICK f : f \in Runs(n, Graphs, g, F)
  <2> HIDE DEF F, n
  <2> QED
    BY <1>1, <1>2, RunExists
<1>4. /\ f \in [0 .. n -> Graphs] /\ f[0] = g
      /\ \A i \in 1 .. n : f[i] = AddEdge(f[i - 1], s, edges[i].to, edges[i].color)
  <2>1. f \in [0 .. n -> Graphs] /\ f[0] = g /\ \A i \in 1 .. n : f[i] = F[<<i, f[i - 1]>>]
    BY <1>3, Zenon DEF Runs
  <2>2. \A i \in 1 .. n : i - 1 \in 0 .. n
    BY <1>1
  <2>3. \A i \in 1 .. n : <<i, f[i - 1]>> \in (1 .. n) \X Graphs
    BY <2>1, <2>2
  <2> QED
    BY <2>1, <2>3
<1>5. f = Rule(f)
  <2>1. \A i \in 0 .. n : f[i] = IF i = 0 THEN g ELSE AddEdge(f[i - 1], s, edges[i].to, edges[i].color)
    BY <1>1, <1>4
  <2> QED
    BY <1>4, <2>1
<1>6. added = Rule(added)
  BY <1>5
<1>7. \A i \in 0 .. n : added[i] = f[i]
  <2> DEFINE S == {i \in 0 .. n : added[i] = f[i]}
  <2>1. \A i \in 0 .. n : added[i] = IF i = 0 THEN g ELSE AddEdge(added[i - 1], s, edges[i].to, edges[i].color)
    BY <1>6, Zenon
  <2> HIDE DEF added
  <2>2. 0 \in S
    BY <1>1, <1>4, <2>1
  <2>3. ASSUME NEW i \in 1 .. n, i - 1 \in S PROVE i \in S
    BY <1>1, <1>4, <2>1, <2>3
  <2>4. \A i \in 0 .. n : i \in S
    <3> HIDE DEF S, n
    <3> QED
      BY <1>1, <2>2, <2>3, IntervalInduction
  <2> QED
    BY <2>4
<1>8. AddEdges(g, s, edges) = added[n]
  BY DEF AddEdges
<1>9. f \in Adding(g, s, edges)
  BY <1>4 DEF Adding
<1> HIDE DEF added, F, n
<1> QED
  BY <1>1, <1>7, <1>8, <1>9 DEF n

\* One edge for each library among the first n mentions.
EachUpto(edges, mentions, n) ==
  /\ \A k \in 1 .. n : \E a \in 1 .. Len(edges) : edges[a].to = mentions[k].to
  /\ \A a \in 1 .. Len(edges) : \E k \in 1 .. n :
        edges[a] = mentions[k] /\ \A l \in 1 .. n : mentions[l].to = edges[a].to => l <= k
  /\ \A a, b \in 1 .. Len(edges) : a < b =>
        \E k \in 1 .. n : /\ mentions[k].to = edges[a].to
                          /\ \A l \in 1 .. n : mentions[l].to = edges[b].to => k < l

\* One more mention: an edge for it is added, or recolored in its place.
LEMMA OneMoreEdge ==
  ASSUME NEW g \in Graphs, NEW s \in Module, NEW mentions \in Seq(Edge), NEW n \in 1 .. Len(mentions),
         EachUpto(g[s], mentions, n - 1)
  PROVE  EachUpto(AddEdge(g, s, mentions[n].to, mentions[n].color)[s], mentions, n)
<1> DEFINE t == mentions[n].to
           new == AddEdge(g, s, t, mentions[n].color)[s]
           old == g[s]
<1>1. /\ t \in Module /\ mentions[n].color \in Color
      /\ mentions[n] = [to |-> t, color |-> mentions[n].color]
  <2>1. mentions[n] \in Edge
    OBVIOUS
  <2>2. \A e \in Edge : e.to \in Module /\ e.color \in Color /\ e = [to |-> e.to, color |-> e.color]
    BY DEF Edge
  <2> QED
    BY <2>1, <2>2
<1>2. old \in Seq(Edge) /\ Len(old) \in Nat
  BY DEF Graphs
<1>3. /\ \A k \in 1 .. n - 1 : \E a \in 1 .. Len(old) : old[a].to = mentions[k].to
      /\ \A a \in 1 .. Len(old) : \E k \in 1 .. n - 1 :
            old[a] = mentions[k] /\ \A l \in 1 .. n - 1 : mentions[l].to = old[a].to => l <= k
      /\ \A a, b \in 1 .. Len(old) : a < b =>
            \E k \in 1 .. n - 1 : /\ mentions[k].to = old[a].to
                                  /\ \A l \in 1 .. n - 1 : mentions[l].to = old[b].to => k < l
  BY Zenon DEF EachUpto
<1>4. n - 1 \in Nat /\ \A k : k \in 1 .. n <=> k \in 1 .. n - 1 \/ k = n
  OBVIOUS
<1>5. CASE HasEdge(g, s, t)
  <2>1. Len(new) = Len(old) /\ \A i \in 1 .. Len(old) : new[i] = IF old[i].to = t THEN mentions[n] ELSE old[i]
    BY <1>1, <1>5, AddEdgeFacts
  <2>2. PICK h \in 1 .. Len(old) : old[h].to = t
    BY <1>5, HasEdgeIff
  <2> HIDE DEF new, old
  <2>3. \A i \in 1 .. Len(old) : new[i].to = old[i].to
    BY <2>1 DEF t
  <2> HIDE DEF t
  <2>4. ASSUME NEW k \in 1 .. n PROVE \E a \in 1 .. Len(new) : new[a].to = mentions[k].to
    <3>1. \E a \in 1 .. Len(old) : old[a].to = mentions[k].to
      BY <1>3, <1>4, <2>2 DEF t
    <3> QED
      BY <2>1, <2>3, <3>1
  <2>5. ASSUME NEW a \in 1 .. Len(new)
        PROVE  \E k \in 1 .. n : new[a] = mentions[k] /\ \A l \in 1 .. n : mentions[l].to = new[a].to => l <= k
    <3>1. CASE old[a].to = t
      <4>1. new[a] = mentions[n] /\ n \in 1 .. n /\ \A l \in 1 .. n : l <= n
        BY <2>1, <3>1
      <4> QED
        BY <4>1
    <3>2. CASE old[a].to # t
      <4>1. PICK k \in 1 .. n - 1 : old[a] = mentions[k] /\ \A l \in 1 .. n - 1 : mentions[l].to = old[a].to => l <= k
        BY <1>3, <2>1
      <4>2. new[a] = mentions[k] /\ k \in 1 .. n
        BY <2>1, <3>2, <4>1
      <4>3. \A l \in 1 .. n : mentions[l].to = new[a].to => l <= k
        BY <1>4, <2>1, <3>2, <4>1 DEF t
      <4> QED
        BY <4>2, <4>3
    <3> QED
      BY <3>1, <3>2
  <2>6. ASSUME NEW a \in 1 .. Len(new), NEW b \in 1 .. Len(new), a < b
        PROVE  \E k \in 1 .. n : /\ mentions[k].to = new[a].to
                                 /\ \A l \in 1 .. n : mentions[l].to = new[b].to => k < l
    <3>1. PICK k \in 1 .. n - 1 : /\ mentions[k].to = old[a].to
                                  /\ \A l \in 1 .. n - 1 : mentions[l].to = old[b].to => k < l
      BY <1>3, <2>1, <2>6
    <3>2. k \in 1 .. n /\ k < n /\ mentions[k].to = new[a].to
      BY <2>1, <2>3, <3>1
    <3>3. \A l \in 1 .. n : mentions[l].to = new[b].to => k < l
      BY <1>4, <2>1, <2>3, <3>1, <3>2
    <3> QED
      BY <3>2, <3>3
  <2>7. EachUpto(new, mentions, n)
    BY <2>4, <2>5, <2>6, Zenon DEF EachUpto
  <2> QED
    BY <2>7 DEF new, t
<1>6. CASE ~HasEdge(g, s, t)
  <2>1. new = Append(old, mentions[n])
    BY <1>1, <1>6, AddEdgeFacts
  <2>2. \A a \in 1 .. Len(old) : old[a].to # t
    BY <1>6, HasEdgeIff
  <2> HIDE DEF new, old
  <2>3. /\ Len(new) = Len(old) + 1 /\ new[Len(old) + 1] = mentions[n]
        /\ \A a \in 1 .. Len(old) : new[a] = old[a]
    BY <1>2, <2>1
  <2>4. \A a : a \in 1 .. Len(new) <=> a \in 1 .. Len(old) \/ a = Len(old) + 1
    BY <1>2, <2>3
  <2>5. \A l \in 1 .. n - 1 : mentions[l].to # t
    BY <1>3, <2>2
  <2> HIDE DEF t
  <2>6. ASSUME NEW k \in 1 .. n PROVE \E a \in 1 .. Len(new) : new[a].to = mentions[k].to
    <3>1. CASE k \in 1 .. n - 1
      <4>1. PICK a \in 1 .. Len(old) : old[a].to = mentions[k].to
        BY <1>3, <3>1
      <4> QED
        BY <2>3, <2>4, <4>1
    <3>2. CASE k = n
      <4>1. Len(old) + 1 \in 1 .. Len(new)
        BY <2>4
      <4> QED
        BY <2>3, <3>2, <4>1
    <3> QED
      BY <1>4, <3>1, <3>2
  <2>7. ASSUME NEW a \in 1 .. Len(new)
        PROVE  \E k \in 1 .. n : new[a] = mentions[k] /\ \A l \in 1 .. n : mentions[l].to = new[a].to => l <= k
    <3>1. CASE a = Len(old) + 1
      <4>1. new[a] = mentions[n] /\ n \in 1 .. n /\ \A l \in 1 .. n : l <= n
        BY <2>3, <3>1
      <4> QED
        BY <4>1
    <3>2. CASE a \in 1 .. Len(old)
      <4>1. PICK k \in 1 .. n - 1 : old[a] = mentions[k] /\ \A l \in 1 .. n - 1 : mentions[l].to = old[a].to => l <= k
        BY <1>3, <3>2
      <4>2. new[a] = mentions[k] /\ k \in 1 .. n
        BY <2>3, <3>2, <4>1
      <4>3. \A l \in 1 .. n : mentions[l].to = new[a].to => l <= k
        BY <1>4, <2>2, <2>3, <3>2, <4>1 DEF t
      <4> QED
        BY <4>2, <4>3
    <3> QED
      BY <2>4, <3>1, <3>2
  <2>8. ASSUME NEW a \in 1 .. Len(new), NEW b \in 1 .. Len(new), a < b
        PROVE  \E k \in 1 .. n : /\ mentions[k].to = new[a].to
                                 /\ \A l \in 1 .. n : mentions[l].to = new[b].to => k < l
    <3>0. a \in 1 .. Len(old) /\ new[a] = old[a]
      BY <1>2, <2>3, <2>8
    <3>1. CASE b = Len(old) + 1
      <4>1. PICK k \in 1 .. n - 1 : old[a] = mentions[k]
        BY <1>3, <3>0
      <4>2. k \in 1 .. n /\ k < n /\ mentions[k].to = new[a].to
        BY <3>0, <4>1
      <4>3. \A l \in 1 .. n : mentions[l].to = new[b].to => k < l
        BY <1>4, <2>3, <2>5, <3>1, <4>2 DEF t
      <4> QED
        BY <4>2, <4>3
    <3>2. CASE b \in 1 .. Len(old)
      <4>1. PICK k \in 1 .. n - 1 : /\ mentions[k].to = old[a].to
                                    /\ \A l \in 1 .. n - 1 : mentions[l].to = old[b].to => k < l
        BY <1>3, <2>8, <3>0, <3>2
      <4>2. k \in 1 .. n /\ k < n /\ mentions[k].to = new[a].to /\ new[b] = old[b]
        BY <2>3, <3>0, <3>2, <4>1
      <4>3. \A l \in 1 .. n : mentions[l].to = new[b].to => k < l
        BY <1>4, <4>1, <4>2
      <4> QED
        BY <4>2, <4>3
    <3> QED
      BY <2>4, <3>1, <3>2
  <2>9. EachUpto(new, mentions, n)
    BY <2>6, <2>7, <2>8, Zenon DEF EachUpto
  <2> QED
    BY <2>9 DEF new, t
<1> QED
  BY <1>5, <1>6

\* The other nodes keep their edges.
LEMMA OtherRows ==
  ASSUME NEW g \in Graphs, NEW s \in Module, NEW t \in Module, NEW c \in Color
  PROVE  \A x \in Module : x # s => AddEdge(g, s, t, c)[x] = g[x]
<1>1. DOMAIN g = Module
  BY DEF Graphs
<1>2. CASE HasEdge(g, s, t)
  BY <1>1, <1>2 DEF AddEdge
<1>3. CASE ~HasEdge(g, s, t)
  BY <1>1, <1>3 DEF AddEdge
<1> QED
  BY <1>2, <1>3

\* A node without edges gets exactly one for each library mentioned.
LEMMA AddEdgesDeclare ==
  ASSUME NEW g \in Graphs, NEW s \in Module, NEW edges \in Seq(Edge)
  PROVE  /\ AddEdges(g, s, edges) \in Graphs
         /\ \A x \in Module : x # s => AddEdges(g, s, edges)[x] = g[x]
         /\ g[s] = <<>> => OneEdgeEach(AddEdges(g, s, edges)[s], edges)
<1>1. PICK f \in Adding(g, s, edges) : AddEdges(g, s, edges) = f[Len(edges)]
  BY AddEdgesRuns
<1> DEFINE n == Len(edges)
<1>2. /\ n \in Nat /\ f \in [0 .. n -> Graphs] /\ f[0] = g
      /\ \A i \in 1 .. n : f[i] = AddEdge(f[i - 1], s, edges[i].to, edges[i].color)
  BY DEF Adding
<1>3. \A i \in 1 .. n : edges[i].to \in Module /\ edges[i].color \in Color
  <2>1. \A e \in Edge : e.to \in Module /\ e.color \in Color
    BY DEF Edge
  <2> QED
    BY <2>1
<1>4. \A i \in 1 .. n : i - 1 \in 0 .. n /\ f[i - 1] \in Graphs
  BY <1>2
<1> HIDE DEF n
<1>5. \A x \in Module : x # s => f[n][x] = g[x]
  <2> DEFINE S == {i \in 0 .. n : \A x \in Module : x # s => f[i][x] = g[x]}
  <2>1. 0 \in S
    BY <1>2
  <2>2. ASSUME NEW i \in 1 .. n, i - 1 \in S PROVE i \in S
    <3>1. f[i - 1] \in Graphs /\ i \in 0 .. n /\ f[i] = AddEdge(f[i - 1], s, edges[i].to, edges[i].color)
      BY <1>2, <1>4
    <3>2. \A x \in Module : x # s => f[i][x] = f[i - 1][x]
      <4>1. edges[i].to \in Module /\ edges[i].color \in Color
        BY <1>3
      <4>2. \A x \in Module : x # s => AddEdge(f[i - 1], s, edges[i].to, edges[i].color)[x] = f[i - 1][x]
        <5>1. f[i - 1] \in Graphs
          BY <3>1
        <5> QED
          BY <4>1, <5>1, OtherRows
      <4> QED
        BY <3>1, <4>2, Zenon
    <3>3. \A x \in Module : x # s => f[i - 1][x] = g[x]
      BY <2>2
    <3> QED
      BY <3>1, <3>2, <3>3
  <2> HIDE DEF S
  <2>3. \A i \in 0 .. n : i \in S
    BY <1>2, <2>1, <2>2, IntervalInduction
  <2> QED
    BY <1>2, <2>3 DEF S
<1>6. ASSUME g[s] = <<>> PROVE EachUpto(f[n][s], edges, n)
  <2> DEFINE S == {i \in 0 .. n : EachUpto(f[i][s], edges, i)}
  <2>1. 0 \in S
    BY <1>2, <1>6 DEF EachUpto
  <2>2. ASSUME NEW i \in 1 .. n, i - 1 \in S PROVE i \in S
    <3>1. f[i - 1] \in Graphs /\ EachUpto(f[i - 1][s], edges, i - 1) /\ i \in 1 .. Len(edges) /\ i \in 0 .. n
      BY <1>2, <1>4, <2>2 DEF n
    <3>2. EachUpto(AddEdge(f[i - 1], s, edges[i].to, edges[i].color)[s], edges, i)
      BY <3>1, OneMoreEdge
    <3>3. f[i] = AddEdge(f[i - 1], s, edges[i].to, edges[i].color)
      BY <1>2
    <3>4. EachUpto(f[i][s], edges, i) /\ i \in 0 .. n
      BY <3>1, <3>2, <3>3, Zenon
    <3> QED
      BY <3>4
  <2> HIDE DEF S
  <2>3. \A i \in 0 .. n : i \in S
    BY <1>2, <2>1, <2>2, IntervalInduction
  <2> QED
    BY <1>2, <2>3 DEF S
<1>7. ASSUME g[s] = <<>> PROVE OneEdgeEach(f[n][s], edges)
  <2> DEFINE es == f[n][s]
  <2>1. DOMAIN edges = 1 .. n /\ DOMAIN es = 1 .. Len(es)
    BY <1>2 DEF n, Graphs
  <2>2. EachUpto(es, edges, n)
    BY <1>6, <1>7
  <2> HIDE DEF es
  <2> DEFINE Of(t) == {k \in DOMAIN edges : edges[k].to = t}
  <2>3. /\ \A k \in 1 .. n : \E a \in 1 .. Len(es) : es[a].to = edges[k].to
        /\ \A a \in 1 .. Len(es) : \E k \in 1 .. n :
              es[a] = edges[k] /\ \A l \in 1 .. n : edges[l].to = es[a].to => l <= k
        /\ \A a, b \in 1 .. Len(es) : a < b =>
              \E k \in 1 .. n : /\ edges[k].to = es[a].to
                                /\ \A l \in 1 .. n : edges[l].to = es[b].to => k < l
    BY <2>2, Zenon DEF EachUpto
  <2>4. \A k \in DOMAIN edges : \E a \in DOMAIN es : es[a].to = edges[k].to
    BY <2>1, <2>3
  <2>5. \A a \in DOMAIN es : \E k \in Of(es[a].to) :
           es[a] = edges[k] /\ \A l \in Of(es[a].to) : l <= k
    BY <2>1, <2>3
  <2>6. ASSUME NEW a \in DOMAIN es, NEW b \in DOMAIN es, a < b
        PROVE  \E k \in Of(es[a].to) : \A l \in Of(es[b].to) : k < l
    <3>0. a \in 1 .. Len(es) /\ b \in 1 .. Len(es)
      BY <2>1
    <3>1. PICK k \in 1 .. n : edges[k].to = es[a].to /\ \A l \in 1 .. n : edges[l].to = es[b].to => k < l
      <4>1. \A c, d \in 1 .. Len(es) : c < d =>
              \E k \in 1 .. n : edges[k].to = es[c].to /\ \A l \in 1 .. n : edges[l].to = es[d].to => k < l
        BY <2>3, Zenon
      <4> HIDE DEF Of
      <4>2. \E k \in 1 .. n : edges[k].to = es[a].to /\ \A l \in 1 .. n : edges[l].to = es[b].to => k < l
        BY <2>6, <3>0, <4>1
      <4> QED
        BY <4>2, Zenon
    <3>2. k \in Of(es[a].to) /\ \A l \in Of(es[b].to) : k < l
      BY <2>1, <3>1
    <3> QED
      BY <3>2
  <2>7. OneEdgeEach(es, edges)
    BY <2>4, <2>5, <2>6, Zenon DEF OneEdgeEach
  <2> QED
    BY <2>7 DEF es
<1> QED
  BY <1>1, <1>2, <1>5, <1>7 DEF n

\* h is g with more edges after those of each node, to where it had none.
Longer(g, h) ==
  \A s \in Module :
     /\ Len(g[s]) <= Len(h[s])
     /\ \A i \in 1 .. Len(g[s]) : h[s][i] = g[s][i]
     /\ \A i \in Len(g[s]) + 1 .. Len(h[s]) : ~HasEdge(g, s, h[s][i].to)

\* No edge is lost in a longer graph.
LEMMA LongerHas ==
  ASSUME NEW g \in Graphs, NEW h \in Graphs, Longer(g, h), NEW s \in Module, NEW t, HasEdge(g, s, t)
  PROVE  HasEdge(h, s, t)
<1>1. PICK i \in 1 .. Len(g[s]) : g[s][i].to = t
  BY HasEdgeIff
<1>2. Len(g[s]) <= Len(h[s]) /\ h[s][i] = g[s][i] /\ Len(g[s]) \in Nat /\ Len(h[s]) \in Nat
  BY DEF Longer, Graphs
<1>3. i \in 1 .. Len(h[s]) /\ h[s][i].to = t
  BY <1>1, <1>2
<1> QED
  BY <1>3, HasEdgeIff

\* A new edge makes it longer still.
LEMMA LongerByOne ==
  ASSUME NEW g \in Graphs, NEW h \in Graphs, Longer(g, h), NEW s \in Module, NEW t \in Module,
         NEW c \in Color, ~HasEdge(h, s, t)
  PROVE  Longer(g, AddEdge(h, s, t, c))
<1> DEFINE k == AddEdge(h, s, t, c)
<1>1. /\ k \in Graphs /\ k[s] = Append(h[s], [to |-> t, color |-> c])
      /\ \A x \in Module : x # s => k[x] = h[x]
  BY AddEdgeFacts
<1>2. ~HasEdge(g, s, t)
  BY LongerHas
<1> HIDE DEF k
<1>3. ASSUME NEW x \in Module
      PROVE  /\ Len(g[x]) <= Len(k[x])
             /\ \A i \in 1 .. Len(g[x]) : k[x][i] = g[x][i]
             /\ \A i \in Len(g[x]) + 1 .. Len(k[x]) : ~HasEdge(g, x, k[x][i].to)
  <2>1. /\ Len(g[x]) <= Len(h[x])
        /\ \A i \in 1 .. Len(g[x]) : h[x][i] = g[x][i]
        /\ \A i \in Len(g[x]) + 1 .. Len(h[x]) : ~HasEdge(g, x, h[x][i].to)
        /\ Len(g[x]) \in Nat /\ Len(h[x]) \in Nat /\ h[x] \in Seq(Edge)
    BY DEF Longer, Graphs
  <2>2. CASE x # s
    BY <1>1, <2>1, <2>2
  <2>3. CASE x = s
    <3>1. Len(k[x]) = Len(h[x]) + 1 /\ k[x][Len(h[x]) + 1].to = t /\ \A i \in 1 .. Len(h[x]) : k[x][i] = h[x][i]
      BY <1>1, <2>1, <2>3
    <3>2. ASSUME NEW i \in Len(g[x]) + 1 .. Len(k[x]) PROVE ~HasEdge(g, x, k[x][i].to)
      <4>1. CASE i = Len(h[x]) + 1
        BY <1>2, <2>3, <3>1, <4>1
      <4>2. CASE i # Len(h[x]) + 1
        <5>1. i \in Len(g[x]) + 1 .. Len(h[x]) /\ i \in 1 .. Len(h[x])
          BY <2>1, <3>1, <4>2
        <5> QED
          BY <2>1, <3>1, <5>1
      <4> QED
        BY <4>1, <4>2
    <3>3. \A i \in 1 .. Len(g[x]) : k[x][i] = g[x][i]
      <4>1. \A i \in 1 .. Len(g[x]) : i \in 1 .. Len(h[x])
        BY <2>1
      <4> QED
        BY <2>1, <3>1, <4>1
    <3>4. Len(g[x]) <= Len(k[x])
      BY <2>1, <3>1
    <3> QED
      BY <3>2, <3>3, <3>4
  <2> QED
    BY <2>2, <2>3
<1> QED
  BY <1>3 DEF Longer, k

\* Nothing added.
LEMMA LongerSelf == ASSUME NEW g \in Graphs PROVE Longer(g, g)
<1>1. \A s \in Module : Len(g[s]) \in Nat
  BY DEF Graphs
<1> QED
  BY <1>1 DEF Longer

\* The graphs on the way, when the order edges to libs[j] are added.
Ordered1(g, h, libs, i, j) ==
  IF libs[i] \in NodeSet(g, libs[j]) \/ HasEdge(h, libs[i], libs[j]) THEN h
  ELSE AddEdge(h, libs[i], libs[j], "pink")

Ordering(g, libs, j) ==
  {f \in [0 .. j - 1 -> Graphs] :
     f[0] = g /\ \A i \in 1 .. j - 1 : f[i] = Ordered1(g, f[i - 1], libs, i, j)}

\* OrderEdges is the last of such graphs.
LEMMA OrderEdgesRuns ==
  ASSUME NEW g \in Graphs, NEW libs \in Seq(Module), NEW j \in 1 .. Len(libs)
  PROVE  \E f \in Ordering(g, libs, j) : OrderEdges(g, libs, j) = f[j - 1]
<1> DEFINE n == j - 1
           R == NodeSet(g, libs[j])
           Next1(h, i) == IF libs[i] \in R \/ HasEdge(h, libs[i], libs[j]) THEN h
                          ELSE AddEdge(h, libs[i], libs[j], "pink")
           F == [p \in (1 .. n) \X Graphs |-> Next1(p[2], p[1])]
           Rule(f) == [i \in 0 .. n |-> IF i = 0 THEN g ELSE Next1(f[i - 1], i)]
           ordered == CHOOSE f : f = Rule(f)
<1>1. n \in Nat /\ \A i \in 1 .. n : libs[i] \in Module /\ i - 1 \in 0 .. n
  OBVIOUS
<1>2. ASSUME NEW h \in Graphs, NEW i \in 1 .. n PROVE Next1(h, i) \in Graphs
  <2>1. libs[i] \in Module /\ libs[j] \in Module /\ "pink" \in Color
    BY <1>1 DEF Color
  <2>2. AddEdge(h, libs[i], libs[j], "pink") \in Graphs
    BY <2>1, AddEdgeFacts
  <2> QED
    BY <2>2
<1>3. F \in [(1 .. n) \X Graphs -> Graphs]
  <2> HIDE DEF Next1, n
  <2> QED
    BY <1>2
<1> HIDE DEF n, R
<1>4. PICK f : f \in Runs(n, Graphs, g, F)
  <2> HIDE DEF F
  <2> QED
    BY <1>1, <1>3, RunExists
<1> HIDE DEF Next1
<1>5. f \in [0 .. n -> Graphs] /\ f[0] = g /\ \A i \in 1 .. n : f[i] = Next1(f[i - 1], i)
  <2>1. f \in [0 .. n -> Graphs] /\ f[0] = g /\ \A i \in 1 .. n : f[i] = F[<<i, f[i - 1]>>]
    BY <1>4, Zenon DEF Runs
  <2>2. \A i \in 1 .. n : <<i, f[i - 1]>> \in (1 .. n) \X Graphs
    BY <1>1, <2>1
  <2> QED
    BY <2>1, <2>2
<1>6. f = Rule(f)
  <2>1. \A i \in 0 .. n : f[i] = IF i = 0 THEN g ELSE Next1(f[i - 1], i)
    BY <1>1, <1>5
  <2> QED
    BY <1>5, <2>1
<1>7. ordered = Rule(ordered)
  BY <1>6
<1>8. ordered[n] = f[n]
  <2> DEFINE S == {i \in 0 .. n : ordered[i] = f[i]}
  <2>1. \A i \in 0 .. n : ordered[i] = IF i = 0 THEN g ELSE Next1(ordered[i - 1], i)
    BY <1>7, Zenon
  <2> HIDE DEF ordered
  <2>2. 0 \in S
    BY <1>1, <1>5, <2>1
  <2>3. ASSUME NEW i \in 1 .. n, i - 1 \in S PROVE i \in S
    BY <1>1, <1>5, <2>1, <2>3
  <2>4. \A i \in 0 .. n : i \in S
    <3> HIDE DEF S
    <3> QED
      BY <1>1, <2>2, <2>3, IntervalInduction
  <2> QED
    BY <1>1, <2>4
<1>9. OrderEdges(g, libs, j) = ordered[n]
  BY Zenon DEF OrderEdges, Next1, R, n
<1> HIDE DEF ordered, Rule, F
<1>10. f \in Ordering(g, libs, j)
  BY <1>5, Zenon DEF Ordering, Ordered1, Next1, R, n
<1> QED
  BY <1>8, <1>9, <1>10 DEF n

(***************************************************************************)
(* What the order edges of one library, and of all, are sure to keep.  K   *)
(* says of a graph what is kept; it is a set, for the induction.            *)
(***************************************************************************)
\* An edge to t may be added that keeps K, from each of these libraries that
\* t does not reach.
Keeps(K, C, t, from) ==
  \A h \in K : \A i \in DOMAIN from :
     from[i] \in C \/ HasEdge(h, from[i], t) \/ AddEdge(h, from[i], t, "pink") \in K

\* The order edges to one library keep K.
LEMMA OrderEdgesKeep ==
  ASSUME NEW K \in SUBSET Graphs, NEW g \in K, NEW libs \in Seq(Module), NEW j \in 1 .. Len(libs),
         Keeps(K, NodeSet(g, libs[j]), libs[j], libs)
  PROVE  OrderEdges(g, libs, j) \in K
<1>1. PICK f \in Ordering(g, libs, j) : OrderEdges(g, libs, j) = f[j - 1]
  BY OrderEdgesRuns
<1> DEFINE S == {i \in 0 .. j - 1 : f[i] \in K}
<1>2. 0 \in S
  BY DEF Ordering
<1>3. ASSUME NEW i \in 1 .. j - 1, i - 1 \in S PROVE i \in S
  <2>1. f[i] = Ordered1(g, f[i - 1], libs, i, j)
    BY DEF Ordering
  <2>2. f[i - 1] \in K /\ i \in DOMAIN libs /\ i \in 0 .. j - 1
    BY <1>3
  <2>3. f[i] \in K
    BY <2>1, <2>2 DEF Keeps, Ordered1
  <2> QED
    BY <2>2, <2>3
<1>4. \A i \in 0 .. j - 1 : i \in S
  <2>1. j - 1 \in Nat
    OBVIOUS
  <2> HIDE DEF S
  <2> QED
    BY <1>2, <1>3, <2>1, IntervalInduction
<1> QED
  BY <1>1, <1>4

-----------------------------------------------------------------------------
\* The rows on the way, when the edges to T are dropped.
Dropping(edges, T) ==
  {f \in [0 .. Len(edges) -> Seq(Edge)] :
     /\ f[0] = <<>>
     /\ \A i \in 1 .. Len(edges) : f[i] = IF edges[i].to \in T THEN f[i - 1] ELSE Append(f[i - 1], edges[i])}

\* EdgesNotTo is the last of such rows.
LEMMA EdgesNotToRuns ==
  ASSUME NEW edges \in Seq(Edge), NEW T
  PROVE  \E f \in Dropping(edges, T) : EdgesNotTo(edges, T) = f[Len(edges)]
<1> DEFINE N == Len(edges)
           A == Seq(Edge)
           Kept(s, i) == IF edges[i].to \in T THEN s ELSE Append(s, edges[i])
           F == [p \in (1 .. N) \X A |-> Kept(p[2], p[1])]
           Rule(f) == [i \in 0 .. N |-> IF i = 0 THEN <<>> ELSE Kept(f[i - 1], i)]
           kept == CHOOSE f : f = Rule(f)
<1>0. N \in Nat /\ \A i \in 1 .. N : edges[i] \in Edge /\ i - 1 \in 0 .. N
  OBVIOUS
<1>1. F \in [(1 .. N) \X A -> A] /\ <<>> \in A
  <2>1. \A s \in A : \A i \in 1 .. N : Kept(s, i) \in A
    <3> HIDE DEF N
    <3> QED
      BY <1>0
  <2>2. <<>> \in A
    OBVIOUS
  <2> HIDE DEF Kept, A, N
  <2> QED
    BY <2>1, <2>2
<1> HIDE DEF Kept
<1>2. PICK f : f \in Runs(N, A, <<>>, F)
  <2> HIDE DEF F, N, A
  <2> QED
    BY <1>0, <1>1, RunExists
<1>3. f \in [0 .. N -> A] /\ f[0] = <<>> /\ \A i \in 1 .. N : f[i] = Kept(f[i - 1], i)
  <2>1. f \in [0 .. N -> A] /\ f[0] = <<>> /\ \A i \in 1 .. N : f[i] = F[<<i, f[i - 1]>>]
    BY <1>2, Zenon DEF Runs
  <2> HIDE DEF N, A
  <2>2. \A i \in 1 .. N : <<i, f[i - 1]>> \in (1 .. N) \X A
    BY <1>0, <2>1
  <2> QED
    BY <2>1, <2>2
<1>4. f = Rule(f)
  <2> HIDE DEF N, A
  <2>1. \A i \in 0 .. N : f[i] = IF i = 0 THEN <<>> ELSE Kept(f[i - 1], i)
    BY <1>0, <1>3
  <2> QED
    BY <1>3, <2>1
<1>5. kept = Rule(kept)
  BY <1>4
<1>6. kept[N] = f[N]
  <2>1. kept[0] = <<>> /\ \A i \in 1 .. N : kept[i] = Kept(kept[i - 1], i)
    <3>1. \A i \in 0 .. N : kept[i] = IF i = 0 THEN <<>> ELSE Kept(kept[i - 1], i)
      BY <1>5, Zenon
    <3> HIDE DEF kept, N
    <3> QED
      BY <1>0, <3>1
  <2> HIDE DEF kept, N, A
  <2> DEFINE S == {i \in 0 .. N : kept[i] = f[i]}
  <2>2. 0 \in S
    BY <1>0, <1>3, <2>1
  <2>3. ASSUME NEW i \in 1 .. N, i - 1 \in S PROVE i \in S
    <3>1. i \in 0 .. N /\ kept[i - 1] = f[i - 1]
      BY <1>0, <2>3
    <3>2. kept[i] = Kept(f[i - 1], i) /\ f[i] = Kept(f[i - 1], i)
      BY <1>3, <2>1, <3>1
    <3> QED
      BY <3>1, <3>2
  <2>4. \A i \in 0 .. N : i \in S
    <3> HIDE DEF S
    <3> QED
      BY <1>0, <2>2, <2>3, IntervalInduction
  <2>5. N \in 0 .. N
    BY <1>0
  <2> QED
    BY <2>4, <2>5
<1>7. EdgesNotTo(edges, T) = f[N]
  BY <1>6, Zenon DEF EdgesNotTo, Kept
<1>8. f \in Dropping(edges, T)
  BY <1>3 DEF Dropping, Kept
<1> HIDE DEF kept, F
<1> QED
  BY <1>7, <1>8

\* The edges that stay are edges that were there, and do not go to T.
LEMMA EdgesNotToFacts ==
  ASSUME NEW edges \in Seq(Edge), NEW T
  PROVE  /\ EdgesNotTo(edges, T) \in Seq(Edge)
         /\ \A i \in 1 .. Len(EdgesNotTo(edges, T)) : \E k \in 1 .. Len(edges) : EdgesNotTo(edges, T)[i] = edges[k]
         /\ \A n \in 0 .. Len(edges) :
              /\ \A i \in 1 .. n : edges[i].to \notin T
              /\ \A i \in n + 1 .. Len(edges) : edges[i].to \in T
              => EdgesNotTo(edges, T) = SubSeq(edges, 1, n)
<1> DEFINE N == Len(edges)
           Kept(s, i) == IF edges[i].to \in T THEN s ELSE Append(s, edges[i])
<1>7. PICK f \in Dropping(edges, T) : EdgesNotTo(edges, T) = f[N]
  BY EdgesNotToRuns
<1>0. N \in Nat /\ \A i \in 1 .. N : edges[i] \in Edge /\ i - 1 \in 0 .. N /\ i \in 0 .. N
  OBVIOUS
<1>3. f \in [0 .. N -> Seq(Edge)] /\ f[0] = <<>> /\ \A i \in 1 .. N : f[i] = Kept(f[i - 1], i)
  BY DEF Dropping
<1> HIDE DEF Kept
<1>8. f[N] \in Seq(Edge) /\ \A i \in 1 .. Len(f[N]) : \E k \in 1 .. N : f[N][i] = edges[k]
  <2> HIDE DEF N
  <2> DEFINE Old == {edges[k] : k \in 1 .. N}
             S == {i \in 0 .. N : \A a \in 1 .. Len(f[i]) : f[i][a] \in Old}
  <2>1. 0 \in S
    BY <1>0, <1>3
  <2>2. ASSUME NEW i \in 1 .. N, i - 1 \in S PROVE i \in S
    <3> DEFINE r == f[i - 1]
    <3>1. r \in Seq(Edge) /\ edges[i] \in Edge /\ edges[i] \in Old /\ \A a \in 1 .. Len(r) : r[a] \in Old
      BY <1>0, <1>3, <2>2
    <3>2. f[i] = r \/ f[i] = Append(r, edges[i])
      BY <1>3 DEF Kept
    <3> HIDE DEF r, Old
    <3>3. \A a \in 1 .. Len(Append(r, edges[i])) : Append(r, edges[i])[a] \in Old
      <4>1. Len(Append(r, edges[i])) = Len(r) + 1 /\ Len(r) \in Nat
        BY <3>1
      <4>2. ASSUME NEW a \in 1 .. Len(r) + 1 PROVE Append(r, edges[i])[a] \in Old
        BY <3>1
      <4> QED
        BY <4>1, <4>2
    <3> QED
      BY <1>0, <3>1, <3>2, <3>3
  <2>3. \A i \in 0 .. N : i \in S
    <3> HIDE DEF S
    <3> QED
      BY <1>0, <2>1, <2>2, IntervalInduction
  <2>4. N \in 0 .. N
    BY <1>0
  <2>5. \A a \in 1 .. Len(f[N]) : f[N][a] \in Old
    BY <2>3, <2>4
  <2> QED
    BY <1>3, <2>4, <2>5
<1>9. ASSUME NEW n \in 0 .. N, \A i \in 1 .. n : edges[i].to \notin T, \A i \in n + 1 .. N : edges[i].to \in T
      PROVE  f[N] = SubSeq(edges, 1, n)
  <2> HIDE DEF N
  <2> DEFINE Upto(k) == /\ k <= n => f[k] = SubSeq(edges, 1, k)
                        /\ k > n => f[k] = SubSeq(edges, 1, n)
             S == {k \in 0 .. N : Upto(k)}
  <2>0. n \in Nat /\ n <= N
    BY <1>0
  <2>1. 0 \in S
    <3>1. SubSeq(edges, 1, 0) = <<>>
      OBVIOUS
    <3>2. Upto(0)
      BY <1>3, <2>0, <3>1
    <3> QED
      BY <1>0, <3>2
  <2>2. ASSUME NEW i \in 1 .. N, i - 1 \in S PROVE i \in S
    <3>a. Upto(i - 1)
      BY <2>2, Zenon
    <3>0. /\ i \in Nat /\ i >= 1 /\ i <= N
          /\ i - 1 <= n => f[i - 1] = SubSeq(edges, 1, i - 1)
          /\ i - 1 > n => f[i - 1] = SubSeq(edges, 1, n)
      BY <1>0, <3>a
    <3>1. CASE i <= n
      <4>1. f[i - 1] = SubSeq(edges, 1, i - 1) /\ i \in 1 .. n
        BY <1>0, <2>0, <3>0, <3>1
      <4>2. f[i] = Append(f[i - 1], edges[i])
        BY <1>3, <1>9, <4>1 DEF Kept
      <4>3. Append(SubSeq(edges, 1, i - 1), edges[i]) = SubSeq(edges, 1, i)
        BY <1>0 DEF N
      <4> QED
        <5>1. Upto(i) /\ i \in 0 .. N
          BY <2>0, <3>0, <3>1, <4>1, <4>2, <4>3
        <5> QED
          BY <5>1
    <3>2. CASE i > n
      <4>1. f[i - 1] = SubSeq(edges, 1, n) /\ i \in n + 1 .. N
        <5>1. i - 1 = n \/ i - 1 > n
          BY <2>0, <3>0, <3>2
        <5> QED
          BY <2>0, <3>0, <3>2, <5>1
      <4>2. f[i] = f[i - 1]
        BY <1>3, <1>9, <4>1 DEF Kept
      <4> QED
        <5>1. Upto(i) /\ i \in 0 .. N
          BY <2>0, <3>0, <3>2, <4>1, <4>2
        <5> QED
          BY <5>1
    <3> QED
      BY <2>0, <3>0, <3>1, <3>2
  <2> HIDE DEF S
  <2>3. \A i \in 0 .. N : i \in S
    BY <1>0, <2>1, <2>2, IntervalInduction
  <2>4. N \in S
    BY <1>0, <2>3
  <2> QED
    <3>1. N <= n => f[N] = SubSeq(edges, 1, N)
      BY <2>4, Zenon DEF S
    <3>2. N > n => f[N] = SubSeq(edges, 1, n)
      BY <2>4, Zenon DEF S
    <3> QED
      BY <1>0, <2>0, <3>1, <3>2
<1> QED
  BY <1>7, <1>8, <1>9

\* Dropping a tail drops nothing else.
LEMMA OnlyTheFirst ==
  ASSUME NEW edges \in Seq(Edge), NEW T, NEW n \in 0 .. Len(edges),
         \A i \in 1 .. n : edges[i].to \notin T, \A i \in n + 1 .. Len(edges) : edges[i].to \in T
  PROVE  EdgesNotTo(edges, T) = SubSeq(edges, 1, n)
  BY EdgesNotToFacts

\* What was added is what goes again.
LEMMA AddedGoes ==
  ASSUME NEW g \in Graphs, NEW h \in Graphs, Longer(g, h), NEW s \in Module, NEW T,
         \A t \in Module : t \in T <=> HasEdge(h, s, t) /\ ~HasEdge(g, s, t)
  PROVE  EdgesNotTo(h[s], T) = g[s]
<1> DEFINE n == Len(g[s])
           N == Len(h[s])
<1>1. /\ g[s] \in Seq(Edge) /\ h[s] \in Seq(Edge) /\ n \in Nat /\ N \in Nat
      /\ n <= N
      /\ \A i \in 1 .. n : h[s][i] = g[s][i]
      /\ \A i \in n + 1 .. N : ~HasEdge(g, s, h[s][i].to)
  BY DEF Longer, Graphs
<1>2. \A i \in 1 .. n : h[s][i].to \notin T
  <2> SUFFICES ASSUME NEW i \in 1 .. n PROVE h[s][i].to \notin T
    OBVIOUS
  <2>1. HasEdge(g, s, h[s][i].to) /\ g[s][i] \in Edge
    BY <1>1, HasEdgeIff
  <2>2. h[s][i].to \in Module
    BY <1>1, <2>1 DEF Edge
  <2> QED
    BY <2>1, <2>2
<1>3. \A i \in n + 1 .. N : h[s][i].to \in T
  <2> SUFFICES ASSUME NEW i \in n + 1 .. N PROVE h[s][i].to \in T
    OBVIOUS
  <2>1. i \in 1 .. N
    BY <1>1
  <2>2. HasEdge(h, s, h[s][i].to) /\ h[s][i] \in Edge
    BY <1>1, <2>1, HasEdgeIff
  <2>3. h[s][i].to \in Module
    BY <2>2 DEF Edge
  <2> QED
    BY <1>1, <2>2, <2>3
<1>4. n \in 0 .. N
  BY <1>1
<1>5. EdgesNotTo(h[s], T) = SubSeq(h[s], 1, n)
  BY <1>1, <1>2, <1>3, <1>4, OnlyTheFirst
<1>6. SubSeq(h[s], 1, n) = g[s]
  BY <1>1
<1> QED
  BY <1>5, <1>6

\* The graphs on the way, when those to each library in turn are added.
OrderingAll(g, libs) ==
  {f \in [0 .. Len(libs) -> Graphs] :
     f[0] = g /\ \A j \in 1 .. Len(libs) : f[j] = OrderEdges(f[j - 1], libs, j)}

\* OrderAll is the last of such graphs.
LEMMA OrderAllRuns ==
  ASSUME NEW g \in Graphs, NEW libs \in Seq(Module)
  PROVE  \E f \in OrderingAll(g, libs) : OrderAll(g, libs) = f[Len(libs)]
<1> DEFINE n == Len(libs)
           F == [p \in (1 .. n) \X Graphs |-> OrderEdges(p[2], libs, p[1])]
           Rule(f) == [j \in 0 .. n |-> IF j = 0 THEN g ELSE OrderEdges(f[j - 1], libs, j)]
           ordered == CHOOSE f : f = Rule(f)
<1>1. n \in Nat /\ \A i \in 1 .. n : i - 1 \in 0 .. n
  OBVIOUS
<1>2. F \in [(1 .. n) \X Graphs -> Graphs]
  <2>1. ASSUME NEW h \in Graphs, NEW j \in 1 .. n PROVE OrderEdges(h, libs, j) \in Graphs
    <3>1. PICK f \in Ordering(h, libs, j) : OrderEdges(h, libs, j) = f[j - 1]
      BY OrderEdgesRuns
    <3> QED
      BY <3>1 DEF Ordering
  <2> HIDE DEF n
  <2> QED
    BY <2>1
<1> HIDE DEF n
<1>3. PICK f : f \in Runs(n, Graphs, g, F)
  <2> HIDE DEF F
  <2> QED
    BY <1>1, <1>2, RunExists
<1>4. f \in [0 .. n -> Graphs] /\ f[0] = g /\ \A j \in 1 .. n : f[j] = OrderEdges(f[j - 1], libs, j)
  <2>1. f \in [0 .. n -> Graphs] /\ f[0] = g /\ \A j \in 1 .. n : f[j] = F[<<j, f[j - 1]>>]
    BY <1>3, Zenon DEF Runs
  <2>2. \A j \in 1 .. n : <<j, f[j - 1]>> \in (1 .. n) \X Graphs
    BY <1>1, <2>1
  <2> QED
    BY <2>1, <2>2
<1>5. f = Rule(f)
  <2>1. \A j \in 0 .. n : f[j] = IF j = 0 THEN g ELSE OrderEdges(f[j - 1], libs, j)
    BY <1>1, <1>4
  <2> QED
    BY <1>4, <2>1
<1>6. ordered = Rule(ordered)
  BY <1>5
<1>7. ordered[n] = f[n]
  <2>1. ordered[0] = g /\ \A j \in 1 .. n : ordered[j] = OrderEdges(ordered[j - 1], libs, j)
    <3>1. \A j \in 0 .. n : ordered[j] = IF j = 0 THEN g ELSE OrderEdges(ordered[j - 1], libs, j)
      BY <1>6, Zenon
    <3> HIDE DEF ordered
    <3> QED
      BY <1>1, <3>1
  <2> HIDE DEF ordered
  <2> DEFINE S == {j \in 0 .. n : ordered[j] = f[j]}
  <2>2. 0 \in S
    BY <1>1, <1>4, <2>1
  <2>3. ASSUME NEW j \in 1 .. n, j - 1 \in S PROVE j \in S
    <3>1. j \in 0 .. n /\ ordered[j - 1] = f[j - 1]
      BY <1>1, <2>3
    <3>2. ordered[j] = OrderEdges(f[j - 1], libs, j) /\ f[j] = OrderEdges(f[j - 1], libs, j)
      BY <1>4, <2>1, <3>1
    <3> QED
      BY <3>1, <3>2
  <2>4. \A j \in 0 .. n : j \in S
    <3> HIDE DEF S
    <3> QED
      BY <1>1, <2>2, <2>3, IntervalInduction
  <2> QED
    BY <1>1, <2>4
<1>8. OrderAll(g, libs) = ordered[n]
  BY Zenon DEF OrderAll, n
<1> HIDE DEF ordered, Rule, F
<1>9. f \in OrderingAll(g, libs)
  BY <1>4, Zenon DEF OrderingAll, n
<1> QED
  BY <1>7, <1>8, <1>9 DEF n

\* The order edges of a whole list keep what those to each library keep.
LEMMA OrderAllKeeps ==
  ASSUME NEW K \in SUBSET Graphs, NEW g \in K, NEW libs \in Seq(Module),
         \A h \in K : \A j \in 1 .. Len(libs) : OrderEdges(h, libs, j) \in K
  PROVE  OrderAll(g, libs) \in K
<1>1. PICK f \in OrderingAll(g, libs) : OrderAll(g, libs) = f[Len(libs)]
  BY OrderAllRuns
<1> DEFINE S == {j \in 0 .. Len(libs) : f[j] \in K}
<1>2. 0 \in S
  BY DEF OrderingAll
<1>3. ASSUME NEW j \in 1 .. Len(libs), j - 1 \in S PROVE j \in S
  <2>1. f[j] = OrderEdges(f[j - 1], libs, j)
    BY DEF OrderingAll
  <2>2. f[j - 1] \in K /\ j \in 0 .. Len(libs)
    BY <1>3
  <2> QED
    BY <2>1, <2>2
<1>4. \A j \in 0 .. Len(libs) : j \in S
  <2>1. Len(libs) \in Nat
    OBVIOUS
  <2> HIDE DEF S
  <2> QED
    BY <1>2, <1>3, <2>1, IntervalInduction
<1> QED
  BY <1>1, <1>4

(***************************************************************************)
(* No cycles: every edge goes down in some ranking of the nodes.            *)
(***************************************************************************)
Ranks == [Module -> Nat]

Ranked(g, rank) == \A s \in Module : \A i \in 1 .. Len(g[s]) : rank[g[s][i].to] < rank[s]

Acyclic(g) == \E rank \in Ranks : Ranked(g, rank)

Closed(g, C) == \A s \in C : \A i \in 1 .. Len(g[s]) : g[s][i].to \in C

\* The edges when one is added.
LEMMA AddEdgeTo ==
  ASSUME NEW g \in Graphs, NEW s \in Module, NEW t \in Module, NEW c \in Color,
         NEW x \in Module, NEW i \in 1 .. Len(AddEdge(g, s, t, c)[x])
  PROVE  \/ x = s /\ AddEdge(g, s, t, c)[x][i].to = t
         \/ \E k \in 1 .. Len(g[x]) : AddEdge(g, s, t, c)[x][i].to = g[x][k].to
<1> DEFINE h == AddEdge(g, s, t, c)
<1>1. g[x] \in Seq(Edge) /\ g[s] \in Seq(Edge)
  BY DEF Graphs
<1>2. CASE x # s
  BY <1>1, <1>2, OtherRows
<1>3. CASE x = s /\ HasEdge(g, s, t)
  <2>1. Len(h[s]) = Len(g[s]) /\ \A k \in 1 .. Len(g[s]) : h[s][k] = IF g[s][k].to = t THEN [to |-> t, color |-> c] ELSE g[s][k]
    BY <1>3, AddEdgeFacts
  <2> HIDE DEF h
  <2>2. i \in 1 .. Len(g[s])
    BY <1>3, <2>1 DEF h
  <2>3. h[s][i].to = g[s][i].to
    BY <2>1, <2>2
  <2> QED
    BY <1>3, <2>2, <2>3 DEF h
<1>4. CASE x = s /\ ~HasEdge(g, s, t)
  <2>1. h[s] = Append(g[s], [to |-> t, color |-> c])
    BY <1>4, AddEdgeFacts
  <2> HIDE DEF h
  <2>2. (i \in 1 .. Len(g[s]) /\ h[s][i] = g[s][i]) \/ (i = Len(g[s]) + 1 /\ h[s][i].to = t)
    BY <1>1, <1>4, <2>1 DEF h
  <2> QED
    BY <1>4, <2>2 DEF h
<1> QED
  BY <1>2, <1>3, <1>4

\* An edge into what is closed, from outside it, makes no cycle.
LEMMA AddedAcyclic ==
  ASSUME NEW g \in Graphs, Acyclic(g), NEW C \in SUBSET Module, Closed(g, C), NEW t \in C,
         NEW s \in Module \ C, NEW c \in Color
  PROVE  Acyclic(AddEdge(g, s, t, c)) /\ Closed(AddEdge(g, s, t, c), C)
<1> DEFINE h == AddEdge(g, s, t, c)
<1>1. PICK rank \in Ranks : Ranked(g, rank)
  BY DEF Acyclic
<1>2. \A x \in Module : rank[x] \in Nat
  BY DEF Ranks
<1> DEFINE above == [x \in Module |-> IF x \in C THEN rank[x] ELSE rank[x] + rank[t] + 1]
<1>3. above \in Ranks
  BY <1>2 DEF Ranks
<1>4. \A x \in Module : \A k \in 1 .. Len(g[x]) : g[x][k].to \in Module
  <2>1. \A x \in Module : \A k \in 1 .. Len(g[x]) : g[x][k] \in Edge
    BY DEF Graphs
  <2> QED
    BY <2>1 DEF Edge
<1>5. ASSUME NEW x \in Module, NEW i \in 1 .. Len(h[x])
      PROVE  above[h[x][i].to] < above[x] /\ (x \in C => h[x][i].to \in C)
  <2>1. CASE x = s /\ h[x][i].to = t
    <3>1. x \notin C /\ above[x] = rank[x] + rank[t] + 1 /\ above[t] = rank[t]
      BY <2>1
    <3> QED
      BY <1>2, <2>1, <3>1
  <2>2. CASE \E k \in 1 .. Len(g[x]) : h[x][i].to = g[x][k].to
    <3>1. PICK k \in 1 .. Len(g[x]) : h[x][i].to = g[x][k].to
      BY <2>2
    <3>2. g[x][k].to \in Module /\ rank[g[x][k].to] < rank[x] /\ (x \in C => g[x][k].to \in C)
      BY <1>1, <1>4 DEF Ranked, Closed
    <3> HIDE DEF h
    <3>3. above[g[x][k].to] < above[x]
      BY <1>2, <3>2
    <3> QED
      BY <3>1, <3>2, <3>3
  <2> QED
    BY <2>1, <2>2, AddEdgeTo
<1> HIDE DEF above, h
<1>6. Ranked(h, above)
  BY <1>5 DEF Ranked
<1>7. Closed(h, C)
  BY <1>5 DEF Closed
<1> QED
  BY <1>3, <1>6, <1>7 DEF Acyclic, h

\* What E leads to from n: the least set that holds n and that E does not leave.
LEMMA ReachIsLeast ==
  ASSUME NEW E \in [Module -> SUBSET Module], NEW n \in Module
  PROVE  /\ ReachedFrom(E, n) \in SUBSET Module
         /\ n \in ReachedFrom(E, n)
         /\ \A s \in ReachedFrom(E, n) : E[s] \subseteq ReachedFrom(E, n)
         /\ \A C \in SUBSET Module :
              n \in C /\ (\A s \in C : E[s] \subseteq C) => ReachedFrom(E, n) \subseteq C
<1> DEFINE Stays(C) == \A s \in C : E[s] \subseteq C
           Up(S) == S \cup UNION {E[s] : s \in S}
           Least(S) == {x \in Module : \A C \in SUBSET Module : S \subseteq C /\ Stays(C) => x \in C}
           Rule(f) == [S \in SUBSET Module |-> IF Up(S) = S THEN S ELSE f[Up(S)]]
           grow == CHOOSE f : f = Rule(f)
           least == [S \in SUBSET Module |-> Least(S)]
<1>1. ASSUME NEW S \in SUBSET Module
      PROVE  /\ Up(S) \in SUBSET Module /\ S \subseteq Up(S)
             /\ Up(S) = S <=> Stays(S)
             /\ \A C \in SUBSET Module : S \subseteq C /\ Stays(C) => Up(S) \subseteq C
  OBVIOUS
<1> HIDE DEF Up, Stays
<1>2. ASSUME NEW S \in SUBSET Module
      PROVE  Least(S) = IF Up(S) = S THEN S ELSE Least(Up(S))
  <2>1. CASE Up(S) = S
    <3>1. Stays(S)
      BY <1>1, <2>1
    <3> QED
      BY <2>1, <3>1
  <2>2. CASE Up(S) # S
    <3>1. \A C \in SUBSET Module : S \subseteq C /\ Stays(C) <=> Up(S) \subseteq C /\ Stays(C)
      BY <1>1
    <3> QED
      BY <2>2, <3>1
  <2> QED
    BY <2>1, <2>2
<1> HIDE DEF Least
<1>3. least = Rule(least)
  <2>1. \A S \in SUBSET Module : least[S] = IF Up(S) = S THEN S ELSE least[Up(S)]
    BY <1>1, <1>2
  <2> QED
    BY <2>1
<1>4. grow = Rule(grow)
  BY <1>3
<1>5. \A S \in SUBSET Module : grow[S] = IF Up(S) = S THEN S ELSE grow[Up(S)]
  BY <1>4, Zenon
<1>6. ReachedFrom(E, n) = grow[{n}]
  BY Zenon DEF ReachedFrom, Up
<1> HIDE DEF grow
<1> DEFINE K == {k \in Nat : \A S \in SUBSET Module : Cardinality(Module \ S) <= k => grow[S] = Least(S)}
<1>7. \A S \in SUBSET Module : IsFiniteSet(Module \ S) /\ Cardinality(Module \ S) \in Nat
  BY ModuleAssumption, FS_Difference, FS_CardinalityType
<1>8. 0 \in K
  <2> SUFFICES ASSUME NEW S \in SUBSET Module, Cardinality(Module \ S) <= 0 PROVE grow[S] = Least(S)
    OBVIOUS
  <2>0. Cardinality(Module \ S) <= 0
    OBVIOUS
  <2>1. Cardinality(Module \ S) = 0
    BY <1>7, <2>0
  <2>2. Module \ S = {}
    BY <1>7, <2>1, FS_EmptySet
  <2>3. Up(S) = S
    BY <1>1, <2>2
  <2> QED
    BY <1>2, <1>5, <2>3
<1>9. ASSUME NEW k \in Nat, k \in K PROVE k + 1 \in K
  <2> SUFFICES ASSUME NEW S \in SUBSET Module, Cardinality(Module \ S) <= k + 1 PROVE grow[S] = Least(S)
    OBVIOUS
  <2>1. CASE Up(S) = S
    BY <1>2, <1>5, <2>1
  <2>2. CASE Up(S) # S
    <3>1. Up(S) \in SUBSET Module /\ Module \ Up(S) \subseteq Module \ S /\ Module \ Up(S) # Module \ S
      BY <1>1, <2>2
    <3>2. Cardinality(Module \ Up(S)) < Cardinality(Module \ S)
      <4> DEFINE A == Module \ Up(S)
                 B == Module \ S
      <4>1. IsFiniteSet(B) /\ A \in SUBSET B /\ A # B
        BY <1>7, <3>1
      <4> HIDE DEF A, B
      <4>2. Cardinality(A) <= Cardinality(B) /\ (Cardinality(A) = Cardinality(B) => A = B)
        BY <4>1, FS_Subset
      <4>3. Cardinality(A) \in Nat /\ Cardinality(B) \in Nat
        BY <1>7, <3>1 DEF A, B
      <4>4. Cardinality(A) < Cardinality(B)
        BY <4>1, <4>2, <4>3
      <4> QED
        BY <4>4 DEF A, B
    <3>3. Cardinality(Module \ Up(S)) <= k
      <4> DEFINE c == Cardinality(Module \ Up(S))
                 d == Cardinality(Module \ S)
      <4>1. c \in Nat /\ d \in Nat /\ c < d /\ d <= k + 1
        BY <1>7, <3>1, <3>2
      <4> HIDE DEF c, d
      <4>2. c <= k
        BY <4>1
      <4> QED
        BY <4>2 DEF c
    <3>4. grow[Up(S)] = Least(Up(S))
      BY <1>9, <3>1, <3>3
    <3> QED
      BY <1>2, <1>5, <2>2, <3>4
  <2> QED
    BY <2>1, <2>2
<1>10. \A k \in Nat : k \in K
  <2> HIDE DEF K
  <2> QED
    BY <1>8, <1>9, NatSetInduction
<1>11. ReachedFrom(E, n) = Least({n})
  <2>1. {n} \in SUBSET Module
    OBVIOUS
  <2>2. Cardinality(Module \ {n}) \in Nat
    BY <1>7, <2>1
  <2>3. Cardinality(Module \ {n}) \in K
    BY <1>10, <2>2
  <2>4. grow[{n}] = Least({n})
    <3>1. \A S \in SUBSET Module : Cardinality(Module \ S) <= Cardinality(Module \ {n}) => grow[S] = Least(S)
      BY <2>3, Zenon
    <3>2. Cardinality(Module \ {n}) <= Cardinality(Module \ {n})
      BY <2>2
    <3> QED
      BY <2>1, <3>1, <3>2, Zenon
  <2> QED
    BY <1>6, <2>4
<1>12. ASSUME NEW s \in Least({n}), NEW t \in E[s] PROVE t \in Least({n})
  <2>1. s \in Module /\ t \in Module
    BY DEF Least
  <2>2. ASSUME NEW C \in SUBSET Module, {n} \subseteq C, Stays(C) PROVE t \in C
    <3>1. s \in C
      BY <2>2 DEF Least
    <3> QED
      BY <2>2, <3>1 DEF Stays
  <2> QED
    BY <2>1, <2>2 DEF Least
<1> QED
  BY <1>11, <1>12 DEF Least, Stays

\* The targets of a node are where its edges go.
LEMMA TargetsAre ==
  ASSUME NEW g \in Graphs, NEW s \in Module
  PROVE  /\ ToSet(Targets(g, s)) = {g[s][i].to : i \in 1 .. Len(g[s])}
         /\ ToSet(Targets(g, s)) \in SUBSET Module
         /\ \A t : t \in ToSet(Targets(g, s)) <=> HasEdge(g, s, t)
<1>1. \A t : t \in ToSet(Targets(g, s)) <=> HasEdge(g, s, t)
  BY DEF HasEdge
<1>2. ToSet(Targets(g, s)) = {g[s][i].to : i \in 1 .. Len(g[s])}
  BY <1>1, HasEdgeIff
<1>3. \A i \in 1 .. Len(g[s]) : g[s][i].to \in Module
  <2>1. \A i \in 1 .. Len(g[s]) : g[s][i] \in Edge
    BY DEF Graphs
  <2> QED
    BY <2>1 DEF Edge
<1> QED
  BY <1>1, <1>2, <1>3

-----------------------------------------------------------------------------
\* What a node reaches: the least set that holds it and is closed.
LEMMA NodeSetIsLeast ==
  ASSUME NEW g \in Graphs, NEW n \in Module
  PROVE  /\ NodeSet(g, n) \in SUBSET Module
         /\ n \in NodeSet(g, n)
         /\ Closed(g, NodeSet(g, n))
         /\ \A C \in SUBSET Module : n \in C /\ Closed(g, C) => NodeSet(g, n) \subseteq C
<1> DEFINE E == [s \in Module |-> ToSet(Targets(g, s))]
<1>1. E \in [Module -> SUBSET Module]
  BY TargetsAre
<1>2. \A C \in SUBSET Module : Closed(g, C) <=> \A s \in C : E[s] \subseteq C
  <2>1. \A s \in Module : E[s] = {g[s][i].to : i \in 1 .. Len(g[s])}
    BY TargetsAre
  <2> HIDE DEF E
  <2> QED
    BY <2>1 DEF Closed
<1>3. NodeSet(g, n) = ReachedFrom(E, n)
  BY DEF NodeSet
<1> HIDE DEF E
<1> QED
  BY <1>1, <1>2, <1>3, ReachIsLeast

\* A ranked graph has no cycle that isDAG could find.
LEMMA AcyclicIsDAG ==
  ASSUME NEW g \in Graphs, Acyclic(g), NEW n \in Module
  PROVE  IsDAG(g, n)
<1> SUFFICES ASSUME NEW s \in NodeSet(g, n), NEW t \in ToSet(Targets(g, s)), s \in NodeSet(g, t)
             PROVE  FALSE
  BY DEF IsDAG
<1>1. PICK rank \in Ranks : Ranked(g, rank)
  BY DEF Acyclic
<1>2. s \in Module
  BY NodeSetIsLeast
<1>3. PICK i \in 1 .. Len(g[s]) : g[s][i].to = t
  <2>1. HasEdge(g, s, t)
    BY DEF HasEdge
  <2> QED
    BY <1>2, <2>1, HasEdgeIff
<1>4. t \in Module /\ rank[t] < rank[s]
  <2>1. g[s][i] \in Edge
    BY <1>2 DEF Graphs
  <2> QED
    BY <1>1, <1>2, <1>3, <2>1 DEF Edge, Ranked
<1> DEFINE C == {x \in Module : rank[x] <= rank[t]}
<1>5. Closed(g, C)
  <2> SUFFICES ASSUME NEW x \in C, NEW k \in 1 .. Len(g[x]) PROVE g[x][k].to \in C
    BY DEF Closed
  <2>1. g[x][k] \in Edge
    BY DEF Graphs
  <2>2. g[x][k].to \in Module /\ rank[g[x][k].to] < rank[x] /\ rank[x] <= rank[t]
    BY <1>1, <2>1 DEF Edge, Ranked
  <2>3. rank[g[x][k].to] \in Nat /\ rank[x] \in Nat /\ rank[t] \in Nat
    BY <1>4, <2>2 DEF Ranks
  <2>4. rank[g[x][k].to] <= rank[t]
    BY <2>2, <2>3
  <2> QED
    BY <2>2, <2>4
<1>6. t \in C /\ s \notin C /\ C \in SUBSET Module
  <2>1. rank[s] \in Nat /\ rank[t] \in Nat
    BY <1>2, <1>4 DEF Ranks
  <2> QED
    BY <1>4, <2>1
<1> HIDE DEF C
<1>7. NodeSet(g, t) \subseteq C
  BY <1>4, <1>5, <1>6, NodeSetIsLeast
<1> QED
  BY <1>6, <1>7

-----------------------------------------------------------------------------
\* What each edge keeps, all of them keep.
LEMMA AddEdgesKeep ==
  ASSUME NEW K \in SUBSET Graphs, NEW g \in K, NEW s \in Module, NEW edges \in Seq(Edge),
         \A h \in K : \A i \in 1 .. Len(edges) : AddEdge(h, s, edges[i].to, edges[i].color) \in K
  PROVE  AddEdges(g, s, edges) \in K
<1>1. PICK f \in Adding(g, s, edges) : AddEdges(g, s, edges) = f[Len(edges)]
  BY AddEdgesRuns
<1> DEFINE n == Len(edges)
           S == {i \in 0 .. n : f[i] \in K}
<1>2. n \in Nat /\ f[0] = g /\ \A i \in 1 .. n : f[i] = AddEdge(f[i - 1], s, edges[i].to, edges[i].color)
  BY DEF Adding
<1>3. 0 \in S
  BY <1>2
<1>4. ASSUME NEW i \in 1 .. n, i - 1 \in S PROVE i \in S
  <2>1. f[i - 1] \in K /\ i \in 0 .. n
    BY <1>2, <1>4
  <2> QED
    BY <1>2, <2>1
<1> HIDE DEF S, n
<1>5. \A i \in 0 .. n : i \in S
  BY <1>2, <1>3, <1>4, IntervalInduction
<1> QED
  BY <1>1, <1>2, <1>5 DEF S, n

\* No edge of h goes where none of g goes.
Within(h, g) ==
  \A s \in Module : \A i \in 1 .. Len(h[s]) : \E k \in 1 .. Len(g[s]) : h[s][i].to = g[s][k].to

\* Fewer edges keep to the same ranking.
LEMMA WithinRanked ==
  ASSUME NEW g, NEW h, Within(h, g), NEW rank, Ranked(g, rank)
  PROVE  Ranked(h, rank)
<1> SUFFICES ASSUME NEW s \in Module, NEW i \in 1 .. Len(h[s]) PROVE rank[h[s][i].to] < rank[s]
  BY DEF Ranked
<1>1. PICK k \in 1 .. Len(g[s]) : h[s][i].to = g[s][k].to
  BY DEF Within
<1>2. rank[g[s][k].to] < rank[s]
  BY DEF Ranked
<1> QED
  BY <1>1, <1>2

\* Where an edge goes is a module.
LEMMA EdgesToModules ==
  ASSUME NEW g \in Graphs, NEW s \in Module, NEW i \in 1 .. Len(g[s])
  PROVE  g[s][i] \in Edge /\ g[s][i].to \in Module /\ g[s][i].color \in Color
<1>1. g[s][i] \in Edge
  BY DEF Graphs
<1> QED
  BY <1>1 DEF Edge

\* One edge down the ranking keeps to it.
LEMMA AddedRanked ==
  ASSUME NEW g \in Graphs, NEW rank \in Ranks, Ranked(g, rank), NEW s \in Module, NEW t \in Module,
         NEW c \in Color, rank[t] < rank[s]
  PROVE  Ranked(AddEdge(g, s, t, c), rank)
<1> DEFINE h == AddEdge(g, s, t, c)
<1> SUFFICES ASSUME NEW x \in Module, NEW i \in 1 .. Len(h[x]) PROVE rank[h[x][i].to] < rank[x]
  BY DEF Ranked
<1>1. CASE x = s /\ h[x][i].to = t
  BY <1>1
<1>2. CASE \E k \in 1 .. Len(g[x]) : h[x][i].to = g[x][k].to
  <2>1. PICK k \in 1 .. Len(g[x]) : h[x][i].to = g[x][k].to
    BY <1>2
  <2>2. rank[g[x][k].to] < rank[x]
    BY DEF Ranked
  <2> QED
    BY <2>1, <2>2
<1> QED
  BY <1>1, <1>2, AddEdgeTo

\* Deleting an edge adds none.
LEMMA DeleteEdgeWithin ==
  ASSUME NEW g \in Graphs, NEW s \in Module, NEW t
  PROVE  DeleteEdge(g, s, t) \in Graphs /\ Within(DeleteEdge(g, s, t), g)
<1> DEFINE new == EdgesNotTo(g[s], {t})
           h == DeleteEdge(g, s, t)
<1>1. g[s] \in Seq(Edge) /\ DOMAIN g = Module
  BY DEF Graphs
<1>2. new \in Seq(Edge) /\ \A i \in 1 .. Len(new) : \E k \in 1 .. Len(g[s]) : new[i] = g[s][k]
  BY <1>1, EdgesNotToFacts
<1>3. h = [g EXCEPT ![s] = new]
  BY DEF DeleteEdge
<1> HIDE DEF new, h
<1>4. h \in Graphs
  BY <1>1, <1>2, <1>3 DEF Graphs
<1>5. h[s] = new /\ \A x \in Module : x # s => h[x] = g[x]
  BY <1>1, <1>3
<1>6. ASSUME NEW x \in Module, NEW i \in 1 .. Len(h[x])
      PROVE  \E k \in 1 .. Len(g[x]) : h[x][i].to = g[x][k].to
  <2>1. CASE x = s
    <3>1. \E k \in 1 .. Len(g[s]) : new[i] = g[s][k]
      BY <1>2, <1>5, <2>1
    <3> QED
      BY <1>5, <2>1, <3>1
  <2>2. CASE x # s
    BY <1>5, <2>2
  <2> QED
    BY <2>1, <2>2
<1> QED
  BY <1>4, <1>6 DEF Within, h

\* Taking over what a lower node has, and dropping it, goes down too.
LEMMA DeleteProxyEdgeRanked ==
  ASSUME NEW g \in Graphs, NEW rank \in Ranks, Ranked(g, rank), NEW s \in Module, NEW p \in Module,
         rank[p] < rank[s]
  PROVE  DeleteProxyEdge(g, s, p) \in Graphs /\ Ranked(DeleteProxyEdge(g, s, p), rank)
<1> DEFINE K == {h \in Graphs : Ranked(h, rank)}
           edges == g[p]
           taken == AddEdges(g, s, edges)
<1>1. edges \in Seq(Edge)
  BY DEF Graphs
<1>2. ASSUME NEW h \in K, NEW i \in 1 .. Len(edges)
      PROVE  AddEdge(h, s, edges[i].to, edges[i].color) \in K
  <2>1. edges[i].to \in Module /\ edges[i].color \in Color
    BY EdgesToModules
  <2>2. rank[edges[i].to] < rank[p]
    BY DEF Ranked
  <2>3. rank[edges[i].to] < rank[s]
    BY <2>1, <2>2 DEF Ranks
  <2> HIDE DEF edges
  <2>4. h \in Graphs /\ Ranked(h, rank)
    OBVIOUS
  <2>5. Ranked(AddEdge(h, s, edges[i].to, edges[i].color), rank)
    BY <2>1, <2>3, <2>4, AddedRanked
  <2>6. AddEdge(h, s, edges[i].to, edges[i].color) \in Graphs
    BY <2>1, <2>4, AddEdgeFacts
  <2> QED
    BY <2>5, <2>6
<1>3. taken \in K
  <2>1. g \in K /\ K \in SUBSET Graphs
    OBVIOUS
  <2> HIDE DEF K, edges
  <2> QED
    BY <1>1, <1>2, <2>1, AddEdgesKeep
<1>4. DeleteProxyEdge(g, s, p) = DeleteEdge(taken, s, p)
  BY DEF DeleteProxyEdge
<1> HIDE DEF taken
<1>5. taken \in Graphs /\ Ranked(taken, rank)
  BY <1>3
<1>6. DeleteEdge(taken, s, p) \in Graphs /\ Within(DeleteEdge(taken, s, p), taken)
  BY <1>5, DeleteEdgeWithin
<1>7. Ranked(DeleteEdge(taken, s, p), rank)
  BY <1>5, <1>6, WithinRanked
<1> QED
  BY <1>4, <1>6, <1>7

\* Replacing an edge yields a graph.
LEMMA DeleteProxyEdgeType ==
  ASSUME NEW g \in Graphs, NEW s \in Module, NEW p \in Module
  PROVE  DeleteProxyEdge(g, s, p) \in Graphs
<1> DEFINE edges == g[p]
           taken == AddEdges(g, s, edges)
<1>1. edges \in Seq(Edge)
  BY DEF Graphs
<1> HIDE DEF edges
<1>2. taken \in Graphs
  BY <1>1, AddEdgesDeclare
<1>3. DeleteProxyEdge(g, s, p) = DeleteEdge(taken, s, p)
  BY DEF DeleteProxyEdge, edges
<1> HIDE DEF taken
<1> QED
  BY <1>2, <1>3, DeleteEdgeWithin

\* The graphs on the way, when the red edges of s are replaced one after the other.
Replaced(h, s, p) == IF ColorOf(h, s, p) = "red" THEN DeleteProxyEdge(h, s, p) ELSE h

Replacing(g, s) ==
  {f \in [0 .. Len(g[s]) -> Graphs] :
     f[0] = g /\ \A i \in 1 .. Len(g[s]) : f[i] = Replaced(f[i - 1], s, g[s][i].to)}

\* DeleteProxiesOf is the last of such graphs.
LEMMA DeleteProxiesRuns ==
  ASSUME NEW g \in Graphs, NEW s \in Module
  PROVE  \E f \in Replacing(g, s) : DeleteProxiesOf(g, s) = f[Len(g[s])]
<1> DEFINE t == Targets(g, s)
           n == Len(t)
           K == Graphs
           Next1(h, i) == IF ColorOf(h, s, t[i]) = "red" THEN DeleteProxyEdge(h, s, t[i]) ELSE h
           F == [p \in (1 .. n) \X K |-> Next1(p[2], p[1])]
           Rule(f) == [i \in 0 .. n |-> IF i = 0 THEN g ELSE Next1(f[i - 1], i)]
           seen == CHOOSE f : f = Rule(f)
<1>1. n = Len(g[s]) /\ n \in Nat /\ \A i \in 1 .. n : t[i] = g[s][i].to
  <2>1. g[s] \in Seq(Edge) /\ DOMAIN g[s] = 1 .. Len(g[s])
    BY DEF Graphs
  <2>2. DOMAIN t = 1 .. Len(g[s]) /\ \A i \in 1 .. Len(g[s]) : t[i] = g[s][i].to
    BY <2>1 DEF Targets
  <2>3. t \in Seq({g[s][i].to : i \in 1 .. Len(g[s])})
    BY <2>1 DEF Targets
  <2>4. Len(t) = Len(g[s])
    BY <2>1, <2>2, <2>3
  <2> HIDE DEF t
  <2> QED
    BY <2>1, <2>2, <2>4
<1>2. \A i \in 1 .. n : t[i] \in Module /\ i - 1 \in 0 .. n
  <2> HIDE DEF t
  <2> SUFFICES ASSUME NEW i \in 1 .. n PROVE t[i] \in Module /\ i - 1 \in 0 .. n
    OBVIOUS
  <2>1. i \in 1 .. Len(g[s]) /\ t[i] = g[s][i].to
    BY <1>1
  <2>2. g[s][i].to \in Module
    BY <2>1, EdgesToModules
  <2> QED
    BY <1>1, <2>1, <2>2
<1> HIDE DEF t, n
<1>3. ASSUME NEW h \in K, NEW i \in 1 .. n PROVE Next1(h, i) \in K
  <2>1. DeleteProxyEdge(h, s, t[i]) \in K
    BY <1>2, DeleteProxyEdgeType
  <2> QED
    BY <2>1
<1>4. g \in K
  OBVIOUS
<1> HIDE DEF Next1, K
<1>5. F \in [(1 .. n) \X K -> K]
  BY <1>3
<1>6. PICK f : f \in Runs(n, K, g, F)
  <2> HIDE DEF F
  <2> QED
    BY <1>1, <1>4, <1>5, RunExists
<1>7. f \in [0 .. n -> K] /\ f[0] = g /\ \A i \in 1 .. n : f[i] = Next1(f[i - 1], i)
  <2>1. f \in [0 .. n -> K] /\ f[0] = g /\ \A i \in 1 .. n : f[i] = F[<<i, f[i - 1]>>]
    BY <1>6, Zenon DEF Runs
  <2>2. \A i \in 1 .. n : <<i, f[i - 1]>> \in (1 .. n) \X K
    BY <1>2, <2>1
  <2> QED
    BY <2>1, <2>2
<1>8. f = Rule(f)
  <2>1. \A i \in 0 .. n : f[i] = IF i = 0 THEN g ELSE Next1(f[i - 1], i)
    BY <1>1, <1>7
  <2> QED
    BY <1>7, <2>1
<1>9. seen = Rule(seen)
  BY <1>8
<1>10. seen[n] = f[n]
  <2>1. seen[0] = g /\ \A i \in 1 .. n : seen[i] = Next1(seen[i - 1], i)
    <3>1. \A i \in 0 .. n : seen[i] = IF i = 0 THEN g ELSE Next1(seen[i - 1], i)
      BY <1>9, Zenon
    <3> HIDE DEF seen
    <3> QED
      BY <1>1, <3>1
  <2> HIDE DEF seen
  <2> DEFINE S == {i \in 0 .. n : seen[i] = f[i]}
  <2>2. 0 \in S
    BY <1>1, <1>7, <2>1
  <2>3. ASSUME NEW i \in 1 .. n, i - 1 \in S PROVE i \in S
    <3>1. i \in 0 .. n /\ seen[i - 1] = f[i - 1]
      BY <1>1, <2>3
    <3>2. seen[i] = Next1(f[i - 1], i) /\ f[i] = Next1(f[i - 1], i)
      BY <1>7, <2>1, <3>1
    <3> QED
      BY <3>1, <3>2
  <2>4. \A i \in 0 .. n : i \in S
    <3> HIDE DEF S, n
    <3> QED
      BY <1>1, <2>2, <2>3, IntervalInduction
  <2>5. n \in 0 .. n
    BY <1>1
  <2> HIDE DEF n
  <2> QED
    BY <2>4, <2>5
<1>11. DeleteProxiesOf(g, s) = seen[n]
  BY Zenon DEF DeleteProxiesOf, Next1, t, n
<1>12. f \in Replacing(g, s)
  <2>1. \A i \in 1 .. n : f[i] = Replaced(f[i - 1], s, g[s][i].to)
    BY <1>1, <1>7 DEF Next1, Replaced
  <2> QED
    BY <1>1, <1>7, <2>1 DEF Replacing, K
<1> HIDE DEF seen
<1> QED
  BY <1>1, <1>10, <1>11, <1>12

\* What each replacement keeps, all of them keep.
LEMMA DeleteProxiesKeep ==
  ASSUME NEW g \in Graphs, NEW s \in Module, NEW K, g \in K,
         \A h \in K : \A i \in 1 .. Len(g[s]) : Replaced(h, s, g[s][i].to) \in K
  PROVE  DeleteProxiesOf(g, s) \in K
<1>1. PICK f \in Replacing(g, s) : DeleteProxiesOf(g, s) = f[Len(g[s])]
  BY DeleteProxiesRuns
<1> DEFINE n == Len(g[s])
           S == {i \in 0 .. n : f[i] \in K}
<1>2. n \in Nat /\ f[0] = g /\ \A i \in 1 .. n : f[i] = Replaced(f[i - 1], s, g[s][i].to)
  BY DEF Replacing, Graphs
<1>3. 0 \in S
  BY <1>2
<1>4. ASSUME NEW i \in 1 .. n, i - 1 \in S PROVE i \in S
  <2>1. f[i - 1] \in K /\ i \in 0 .. n
    BY <1>2, <1>4
  <2> QED
    BY <1>2, <2>1
<1> HIDE DEF S, n
<1>5. \A i \in 0 .. n : i \in S
  BY <1>2, <1>3, <1>4, IntervalInduction
<1> QED
  BY <1>1, <1>2, <1>5 DEF S, n

\* So does replacing every red edge of a node, recolored ones included.
LEMMA DeleteProxiesRanked ==
  ASSUME NEW g \in Graphs, NEW rank \in Ranks, Ranked(g, rank), NEW s \in Module
  PROVE  DeleteProxiesOf(g, s) \in Graphs /\ Ranked(DeleteProxiesOf(g, s), rank)
<1> DEFINE K == {h \in Graphs : Ranked(h, rank)}
<1>1. ASSUME NEW h \in K, NEW i \in 1 .. Len(g[s]) PROVE Replaced(h, s, g[s][i].to) \in K
  <2> DEFINE p == g[s][i].to
  <2>1. p \in Module /\ rank[p] < rank[s]
    BY EdgesToModules DEF Ranked
  <2> HIDE DEF p
  <2>2. DeleteProxyEdge(h, s, p) \in Graphs /\ Ranked(DeleteProxyEdge(h, s, p), rank)
    BY <2>1, DeleteProxyEdgeRanked
  <2>3. Replaced(h, s, p) \in K
    BY <2>2 DEF Replaced
  <2> QED
    BY <2>3 DEF p
<1>2. g \in K
  OBVIOUS
<1> HIDE DEF K
<1>3. DeleteProxiesOf(g, s) \in K
  BY <1>1, <1>2, DeleteProxiesKeep
<1> QED
  BY <1>3 DEF K

\* The copy has no edge its original has not.
LEMMA GetSubgraphWithin ==
  ASSUME NEW g \in Graphs, NEW n \in Module
  PROVE  GetSubgraph(g, n) \in Graphs /\ Within(GetSubgraph(g, n), g)
<1> DEFINE h == GetSubgraph(g, n)
<1>1. \A s \in Module : h[s] = g[s] \/ h[s] = <<>>
  BY DEF GetSubgraph
<1>2. h \in Graphs
  <2>1. \A s \in Module : h[s] \in Seq(Edge)
    <3> HIDE DEF h
    <3>1. \A s \in Module : g[s] \in Seq(Edge) /\ <<>> \in Seq(Edge)
      BY DEF Graphs
    <3> QED
      BY <1>1, <3>1
  <2> QED
    BY <2>1 DEF GetSubgraph, Graphs
<1> HIDE DEF h
<1>3. Within(h, g)
  BY <1>1 DEF Within
<1> QED
  BY <1>2, <1>3 DEF h

-----------------------------------------------------------------------------
\* The edges go from A to V.
FromTo(g, A, V) == \A s \in Module : \A i \in 1 .. Len(g[s]) : s \in A /\ g[s][i].to \in V

\* Fewer edges go where the others went.
LEMMA WithinFromTo ==
  ASSUME NEW g, NEW h, Within(h, g), NEW A, NEW V, FromTo(g, A, V)
  PROVE  FromTo(h, A, V)
<1> SUFFICES ASSUME NEW s \in Module, NEW i \in 1 .. Len(h[s]) PROVE s \in A /\ h[s][i].to \in V
  BY DEF FromTo
<1>1. PICK k \in 1 .. Len(g[s]) : h[s][i].to = g[s][k].to
  BY DEF Within
<1>2. s \in A /\ g[s][k].to \in V
  BY DEF FromTo
<1> QED
  BY <1>1, <1>2

\* Fewer edges make no cycle.
LEMMA WithinAcyclic ==
  ASSUME NEW g, NEW h, Within(h, g), Acyclic(g)
  PROVE  Acyclic(h)
<1>1. PICK rank \in Ranks : Ranked(g, rank)
  BY DEF Acyclic
<1>2. Ranked(h, rank)
  BY <1>1, WithinRanked
<1> QED
  BY <1>2 DEF Acyclic

\* One more edge from A to V.
LEMMA AddedFromTo ==
  ASSUME NEW g \in Graphs, NEW A, NEW V, FromTo(g, A, V), NEW s \in Module, s \in A,
         NEW t \in Module, t \in V, NEW c \in Color
  PROVE  FromTo(AddEdge(g, s, t, c), A, V)
<1> DEFINE h == AddEdge(g, s, t, c)
<1> SUFFICES ASSUME NEW x \in Module, NEW i \in 1 .. Len(h[x]) PROVE x \in A /\ h[x][i].to \in V
  BY DEF FromTo
<1>1. CASE x = s /\ h[x][i].to = t
  BY <1>1
<1>2. CASE \E k \in 1 .. Len(g[x]) : h[x][i].to = g[x][k].to
  <2>1. PICK k \in 1 .. Len(g[x]) : h[x][i].to = g[x][k].to
    BY <1>2
  <2>2. x \in A /\ g[x][k].to \in V
    BY DEF FromTo
  <2> QED
    BY <2>1, <2>2
<1> QED
  BY <1>1, <1>2, AddEdgeTo

\* The declared edges of a module that is not in V, all to V.
LEMMA LinkedAcyclic ==
  ASSUME NEW g \in Graphs, Acyclic(g), NEW V \in SUBSET Module, FromTo(g, V, V),
         NEW m \in Module \ V, NEW edges \in Seq(Edge), \A i \in 1 .. Len(edges) : edges[i].to \in V
  PROVE  Acyclic(AddEdges(g, m, edges)) /\ FromTo(AddEdges(g, m, edges), V \cup {m}, V)
<1> DEFINE K == {h \in Graphs : Acyclic(h) /\ FromTo(h, V \cup {m}, V)}
<1>1. g \in K /\ K \in SUBSET Graphs
  BY DEF FromTo
<1>2. ASSUME NEW h \in K, NEW i \in 1 .. Len(edges)
      PROVE  AddEdge(h, m, edges[i].to, edges[i].color) \in K
  <2>1. edges[i].to \in V /\ edges[i].to \in Module /\ edges[i].color \in Color
    <3>1. edges[i] \in Edge
      OBVIOUS
    <3> QED
      BY <3>1 DEF Edge
  <2>2. h \in Graphs /\ Acyclic(h) /\ FromTo(h, V \cup {m}, V)
    OBVIOUS
  <2>3. Closed(h, V)
    BY <2>2 DEF FromTo, Closed
  <2>4. AddEdge(h, m, edges[i].to, edges[i].color) \in Graphs
    BY <2>1, <2>2, AddEdgeFacts
  <2>5. Acyclic(AddEdge(h, m, edges[i].to, edges[i].color))
    BY <2>1, <2>2, <2>3, AddedAcyclic
  <2>6. FromTo(AddEdge(h, m, edges[i].to, edges[i].color), V \cup {m}, V)
    <3>1. m \in V \cup {m} /\ m \in Module
      OBVIOUS
    <3> QED
      BY <2>1, <2>2, <3>1, AddedFromTo
  <2> QED
    BY <2>4, <2>5, <2>6
<1>3. AddEdges(g, m, edges) \in K
  <2> HIDE DEF K
  <2> QED
    BY <1>1, <1>2, AddEdgesKeep
<1> QED
  BY <1>3

\* What the order edges leave true.
LEMMA OrderAllSafe ==
  ASSUME NEW g \in Graphs, Acyclic(g), NEW A, NEW V \in SUBSET Module, V \subseteq A, FromTo(g, A, V),
         NEW libs \in Seq(Module), \A i \in 1 .. Len(libs) : libs[i] \in V
  PROVE  /\ OrderAll(g, libs) \in Graphs /\ Longer(g, OrderAll(g, libs))
         /\ Acyclic(OrderAll(g, libs)) /\ FromTo(OrderAll(g, libs), A, V)
<1> DEFINE K == {h \in Graphs : Longer(g, h) /\ Acyclic(h) /\ FromTo(h, A, V)}
<1>1. g \in K /\ K \in SUBSET Graphs
  BY LongerSelf
<1>2. ASSUME NEW h \in K, NEW j \in 1 .. Len(libs) PROVE OrderEdges(h, libs, j) \in K
  <2> DEFINE C == NodeSet(h, libs[j])
             L == {k \in K : Closed(k, C)}
  <2>1. h \in Graphs /\ libs[j] \in Module
    OBVIOUS
  <2>2. C \in SUBSET Module /\ libs[j] \in C /\ Closed(h, C)
    BY <2>1, NodeSetIsLeast
  <2>3. Keeps(L, C, libs[j], libs)
    <3> SUFFICES ASSUME NEW k \in L, NEW i \in DOMAIN libs, libs[i] \notin C, ~HasEdge(k, libs[i], libs[j])
                 PROVE  AddEdge(k, libs[i], libs[j], "pink") \in L
      <4> HIDE DEF L, C
      <4> QED
        BY DEF Keeps
    <3>1. k \in Graphs /\ Longer(g, k) /\ Acyclic(k) /\ FromTo(k, A, V) /\ Closed(k, C)
      OBVIOUS
    <3> HIDE DEF C
    <3>2. /\ libs[i] \in Module /\ libs[i] \in A /\ libs[j] \in V /\ libs[j] \in Module
          /\ libs[i] \in Module \ C /\ libs[j] \in C /\ "pink" \in Color
      <4>1. i \in 1 .. Len(libs)
        OBVIOUS
      <4>2. libs[i] \in V /\ libs[j] \in V
        BY <4>1
      <4> QED
        BY <2>2, <4>2 DEF Color
    <3>3. AddEdge(k, libs[i], libs[j], "pink") \in Graphs
      BY <3>1, <3>2, AddEdgeFacts
    <3>4. Longer(g, AddEdge(k, libs[i], libs[j], "pink"))
      BY <3>1, <3>2, LongerByOne
    <3>5. Acyclic(AddEdge(k, libs[i], libs[j], "pink")) /\ Closed(AddEdge(k, libs[i], libs[j], "pink"), C)
      BY <2>2, <3>1, <3>2, AddedAcyclic
    <3>6. FromTo(AddEdge(k, libs[i], libs[j], "pink"), A, V)
      BY <3>1, <3>2, AddedFromTo
    <3> QED
      BY <3>3, <3>4, <3>5, <3>6
  <2>4. h \in L /\ L \in SUBSET Graphs
    BY <2>2
  <2>5. OrderEdges(h, libs, j) \in L
    <3> HIDE DEF L, K
    <3> QED
      BY <2>3, <2>4, OrderEdgesKeep
  <2> QED
    BY <2>5
<1>3. OrderAll(g, libs) \in K
  <2> HIDE DEF K
  <2> QED
    BY <1>1, <1>2, OrderAllKeeps
<1> QED
  BY <1>3

\* A list, as edges of one color.
LEMMA ColoredEdges ==
  ASSUME NEW libs \in Seq(Module), NEW c \in Color
  PROVE  LET E == [i \in DOMAIN libs |-> [to |-> libs[i], color |-> c]]
         IN  E \in Seq(Edge) /\ Len(E) = Len(libs) /\ \A i \in 1 .. Len(libs) : E[i].to = libs[i]
<1> DEFINE E == [i \in DOMAIN libs |-> [to |-> libs[i], color |-> c]]
<1>1. \A t \in Module : [to |-> t, color |-> c] \in Edge
  BY DEF Edge
<1>2. \A i \in 1 .. Len(libs) : libs[i] \in Module
  OBVIOUS
<1>3. DOMAIN libs = 1 .. Len(libs) /\ Len(libs) \in Nat
  OBVIOUS
<1>4. E \in [1 .. Len(libs) -> Edge]
  BY <1>1, <1>2, <1>3
<1>5. \A i \in 1 .. Len(libs) : E[i].to = libs[i]
  BY <1>3
<1> HIDE DEF E
<1>6. E \in Seq(Edge) /\ Len(E) = Len(libs)
  BY <1>3, <1>4
<1> QED
  BY <1>5, <1>6, Zenon DEF E

\* The declared edges of a module go to its libraries.
LEMMA DeclaredFacts ==
  ASSUME NEW m \in Module, static \in [Module -> Seq(Module)], whole \in [Module -> Seq(Module)]
  PROVE  /\ DeclaredEdges(m) \in Seq(Edge)
         /\ \A i \in 1 .. Len(DeclaredEdges(m)) : DeclaredEdges(m)[i].to \in Libs(m)
         /\ static[m] = <<>> /\ whole[m] = <<>> => DeclaredEdges(m) = <<>>
<1> DEFINE s == static[m]
           w == whole[m]
           B == [i \in DOMAIN s |-> [to |-> s[i], color |-> "blue"]]
           R == [i \in DOMAIN w |-> [to |-> w[i], color |-> "red"]]
<1>1. s \in Seq(Module) /\ w \in Seq(Module) /\ DOMAIN s = 1 .. Len(s) /\ DOMAIN w = 1 .. Len(w)
  <2>1. s \in Seq(Module) /\ w \in Seq(Module)
    OBVIOUS
  <2> HIDE DEF s, w
  <2> QED
    BY <2>1
<1>2. Libs(m) = {s[i] : i \in 1 .. Len(s)} \cup {w[i] : i \in 1 .. Len(w)}
  BY <1>1 DEF Libs, ToSet
<1>3. DeclaredEdges(m) = B \o R
  BY DEF DeclaredEdges
<1> HIDE DEF s, w
<1>4. B \in Seq(Edge) /\ Len(B) = Len(s) /\ \A i \in 1 .. Len(s) : B[i].to = s[i]
  <2>1. "blue" \in Color
    BY DEF Color
  <2> QED
    BY <1>1, <2>1, ColoredEdges
<1>5. R \in Seq(Edge) /\ Len(R) = Len(w) /\ \A i \in 1 .. Len(w) : R[i].to = w[i]
  <2>1. "red" \in Color
    BY DEF Color
  <2> QED
    BY <1>1, <2>1, ColoredEdges
<1> HIDE DEF B, R
<1>6. Len(s) \in Nat /\ Len(w) \in Nat
  BY <1>1
<1>7. B \o R \in Seq(Edge) /\ Len(B \o R) = Len(s) + Len(w)
  BY <1>4, <1>5, <1>6
<1>8. ASSUME NEW i \in 1 .. Len(B \o R) PROVE (B \o R)[i].to \in Libs(m)
  <2>1. CASE i <= Len(s)
    <3>1. i \in 1 .. Len(s) /\ (B \o R)[i] = B[i]
      BY <1>4, <1>5, <1>6, <1>7, <2>1
    <3> QED
      BY <1>2, <1>4, <3>1
  <2>2. CASE i > Len(s)
    <3>1. i - Len(s) \in 1 .. Len(w) /\ (B \o R)[i] = R[i - Len(s)]
      BY <1>4, <1>5, <1>6, <1>7, <2>2
    <3> QED
      BY <1>2, <1>5, <3>1
  <2> QED
    BY <1>6, <1>7, <2>1, <2>2
<1>9. ASSUME s = <<>>, w = <<>> PROVE B \o R = <<>>
  <2>1. Len(B \o R) = 0
    BY <1>7, <1>9
  <2> QED
    BY <1>7, <2>1
<1> QED
  BY <1>3, <1>7, <1>8, <1>9 DEF s, w

-----------------------------------------------------------------------------
\* The lists, which no step changes.
ListsInv ==
  /\ static \in [Module -> Seq(Module)] /\ whole \in [Module -> Seq(Module)]
  /\ disabled \in SUBSET Module
  /\ \A m \in disabled \cup Prebuilt : static[m] = <<>> /\ whole[m] = <<>>

\* Who has been visited: libraries before their users, all in the graph.
VisitInv ==
  /\ visited \in SUBSET Module
  /\ main \in Module \cup {NoModule}
  /\ main = NoModule <=> stage = "idle"
  /\ main # NoModule =>
       main \notin visited \cup disabled \cup Prebuilt /\ Libs(main) \subseteq visited /\ main \in nodes
  /\ visited \ disabled \subseteq nodes

\* The edges of m in the shared graph, the order edges aside.
Base(m) == IF stage = "ordered" THEN WithoutPink[m] ELSE graph[m]

Mentions(m) == IF m \in visited \cup {main} THEN DeclaredEdges(m) ELSE <<>>

\* The shared graph: no cycle, edges to visited modules only, and those that
\* were declared.
GraphInv ==
  /\ graph \in Graphs
  /\ Acyclic(graph)
  /\ FromTo(graph, visited \cup {main}, visited)
  /\ \A m \in Module : OneEdgeEach(Base(m), Mentions(m))

\* The copy, while red edges are replaced.
SubInv == stage = "proxies" => sub \in Graphs /\ Acyclic(sub)

LinkInv == ListsInv /\ VisitInv /\ GraphInv /\ SubInv /\ DeathIsExplained

\* No mention, no edge.
LEMMA NothingMentioned ==
  ASSUME NEW edges
  PROVE  /\ OneEdgeEach(<<>>, <<>>)
         /\ edges \in Seq(Edge) /\ OneEdgeEach(edges, <<>>) => edges = <<>>
<1>1. OneEdgeEach(<<>>, <<>>)
  BY DEF OneEdgeEach
<1>2. ASSUME edges \in Seq(Edge), OneEdgeEach(edges, <<>>) PROVE edges = <<>>
  <2>1. \A i \in DOMAIN edges : FALSE
    BY <1>2 DEF OneEdgeEach
  <2>2. DOMAIN edges = 1 .. Len(edges) /\ Len(edges) \in Nat
    BY <1>2
  <2>3. Len(edges) = 0
    BY <2>1, <2>2
  <2> QED
    BY <1>2, <2>3
<1> QED
  BY <1>1, <1>2

\* The empty graph.
LEMMA NoEdges ==
  /\ [m \in Module |-> <<>>] \in Graphs
  /\ Acyclic([m \in Module |-> <<>>])
  /\ \A A, V : FromTo([m \in Module |-> <<>>], A, V)
<1> DEFINE g == [m \in Module |-> <<>>]
           rank == [m \in Module |-> 0]
<1>1. g \in Graphs
  BY DEF Graphs
<1>2. \A s \in Module : Len(g[s]) = 0
  OBVIOUS
<1>3. rank \in Ranks
  BY DEF Ranks
<1> HIDE DEF g, rank
<1>4. Ranked(g, rank)
  BY <1>2 DEF Ranked
<1>5. Acyclic(g)
  BY <1>3, <1>4 DEF Acyclic
<1>6. \A A, V : FromTo(g, A, V)
  BY <1>2 DEF FromTo
<1> QED
  BY <1>1, <1>5, <1>6 DEF g

\* The invariant holds when the pass begins.
LEMMA LinkInvInit == Init => LinkInv
<1> SUFFICES ASSUME Init PROVE LinkInv
  OBVIOUS
<1>1. ListsInv
  <2>1. disabled \in SUBSET Module
    BY ModuleAssumption DEF Init
  <2>2. PICK d \in Declarations :
          /\ static = [m \in Module |-> IF m \in disabled THEN <<>> ELSE d.static[m]]
          /\ whole = [m \in Module |-> IF m \in disabled THEN <<>> ELSE d.whole[m]]
    BY DEF Init
  <2>3. /\ d.static \in [Module -> Seq(Module)] /\ d.whole \in [Module -> Seq(Module)]
        /\ \A m \in Prebuilt : d.static[m] = <<>> /\ d.whole[m] = <<>>
    BY DeclarationAssumption
  <2>4. <<>> \in Seq(Module)
    OBVIOUS
  <2>5. static \in [Module -> Seq(Module)] /\ whole \in [Module -> Seq(Module)]
    BY <2>2, <2>3, <2>4
  <2>6. \A m \in disabled \cup Prebuilt : static[m] = <<>> /\ whole[m] = <<>>
    <3>1. Prebuilt \subseteq Module
      BY ModuleAssumption
    <3> QED
      BY <2>1, <2>2, <2>3, <3>1
  <2> QED
    BY <2>1, <2>5, <2>6 DEF ListsInv
<1>2. VisitInv
  BY DEF Init, VisitInv
<1>3. GraphInv
  <2>1. graph = [m \in Module |-> <<>>] /\ visited = {} /\ main = NoModule /\ stage = "idle"
    BY DEF Init
  <2>2. graph \in Graphs /\ Acyclic(graph) /\ FromTo(graph, visited \cup {main}, visited)
    BY <2>1, NoEdges
  <2>3. ASSUME NEW m \in Module PROVE OneEdgeEach(Base(m), Mentions(m))
    <3>1. Base(m) = <<>>
      BY <2>1 DEF Base
    <3>2. Mentions(m) = <<>>
      BY <2>1, ModuleAssumption DEF Mentions
    <3> QED
      BY <3>1, <3>2, NothingMentioned
  <2> QED
    BY <2>2, <2>3 DEF GraphInv
<1>4. SubInv
  BY DEF Init, SubInv
<1>5. DeathIsExplained
  BY DEF Init, DeathIsExplained
<1> QED
  BY <1>1, <1>2, <1>3, <1>4, <1>5 DEF LinkInv

\* The lists stay, and with them what they say.
LEMMA ListsStay ==
  ASSUME ListsInv, UNCHANGED declared
  PROVE  /\ ListsInv'
         /\ \A m \in Module : DeclaredEdges(m)' = DeclaredEdges(m) /\ Libs(m)' = Libs(m)
         /\ (\E m \in Linker : LinksMultiply(m)) => (\E m \in Linker : LinksMultiply(m)')
         /\ (\E m \in Module \ disabled : Libs(m) \cap disabled # {}) =>
            (\E m \in Module \ disabled' : Libs(m)' \cap disabled' # {})
<1>1. static' = static /\ whole' = whole /\ disabled' = disabled
  BY DEF declared
<1>2. ListsInv'
  BY <1>1 DEF ListsInv
<1>3. \A m \in Module : DeclaredEdges(m)' = DeclaredEdges(m) /\ Libs(m)' = Libs(m)
  BY <1>1 DEF DeclaredEdges, Libs
<1>4. \A m : LinksMultiply(m)' = LinksMultiply(m)
  <2>1. \A m : Below(m)' = Below(m)
    BY <1>1, SMT DEF Below, Libs
  <2>2. ASSUME NEW m PROVE LinksMultiply(m)' = LinksMultiply(m)
    <3>1. Below(m)' = Below(m)
      BY <2>1
    <3> HIDE DEF Below
    <3> QED
      BY <1>1, <3>1, SMT DEF LinksMultiply
  <2> QED
    BY <2>2
<1> QED
  BY <1>1, <1>2, <1>3, <1>4

\* A death that was explained stays so, and none is new.
LEMMA DeathStays ==
  ASSUME ListsInv, DeathIsExplained, UNCHANGED declared, phase' = "died" => phase = "died"
  PROVE  DeathIsExplained'
<1>1. CASE phase' # "died"
  BY <1>1 DEF DeathIsExplained
<1>2. CASE phase' = "died"
  <2>1. \/ \E m \in Linker : LinksMultiply(m)
        \/ \E m \in Module \ disabled : Libs(m) \cap disabled # {}
    BY <1>2 DEF DeathIsExplained
  <2>2. \/ \E m \in Linker : LinksMultiply(m)'
        \/ \E m \in Module \ disabled' : Libs(m)' \cap disabled' # {}
    BY <2>1, ListsStay
  <2> QED
    BY <2>2 DEF DeathIsExplained
<1> QED
  BY <1>1, <1>2

\* Steps that visit nothing.
LEMMA VisitStays ==
  ASSUME ListsInv, VisitInv, UNCHANGED <<declared, visited, nodes, main, stage>>
  PROVE  VisitInv'
<1>1. \A m \in Module : Libs(m)' = Libs(m)
  BY ListsStay
<1>2. disabled' = disabled
  BY DEF declared
<1> QED
  BY <1>1, <1>2 DEF VisitInv

\* Steps that leave the shared graph alone.
LEMMA GraphStays ==
  ASSUME ListsInv, GraphInv, UNCHANGED <<declared, visited, graph, main, stage, pinkEdges>>
  PROVE  GraphInv'
<1>1. \A m \in Module : DeclaredEdges(m)' = DeclaredEdges(m)
  BY ListsStay
<1>2. \A m \in Module : Base(m)' = Base(m) /\ Mentions(m)' = Mentions(m)
  BY <1>1 DEF Base, Mentions, WithoutPink
<1>3. graph' \in Graphs /\ Acyclic(graph') /\ FromTo(graph', visited' \cup {main'}, visited')
  BY DEF GraphInv
<1>4. ASSUME NEW m \in Module PROVE OneEdgeEach(Base(m)', Mentions(m)')
  BY <1>2 DEF GraphInv
<1>5. \A m \in Module : OneEdgeEach(Base(m), Mentions(m))'
  BY <1>4
<1> QED
  BY <1>3, <1>5 DEF GraphInv

\* What has been visited, or is being, grows only with what declares nothing.
LEMMA SkipKeeps ==
  ASSUME LinkInv, NEW m \in Module, Skip(m)
  PROVE  LinkInv'
<1>0. /\ ListsInv /\ VisitInv /\ GraphInv /\ SubInv /\ DeathIsExplained
      /\ UNCHANGED declared /\ phase' = phase /\ graph' = graph /\ main' = main /\ stage' = stage
      /\ pinkEdges' = pinkEdges /\ sub' = sub
      /\ main = NoModule /\ m \notin visited /\ m \in disabled \cup Prebuilt
      /\ visited' = visited \cup {m} /\ nodes' = IF m \in disabled THEN nodes ELSE nodes \cup {m}
  BY Zenon DEF LinkInv, Skip, Visit, scan
<1>1. /\ ListsInv' /\ disabled' = disabled
      /\ \A x \in Module : DeclaredEdges(x)' = DeclaredEdges(x) /\ Libs(x)' = Libs(x)
  BY <1>0, ListsStay DEF declared
<1>2. VisitInv'
  BY <1>0, <1>1 DEF VisitInv
<1>3. GraphInv'
  <2>1. FromTo(graph', visited' \cup {main'}, visited')
    BY <1>0 DEF GraphInv, FromTo
  <2>2. ASSUME NEW x \in Module PROVE Base(x)' = Base(x) /\ Mentions(x)' = Mentions(x)
    <3>1. Base(x)' = Base(x)
      BY <1>0 DEF Base, WithoutPink
    <3>2. CASE x = m
      <4>1. DeclaredEdges(m) = <<>>
        <5>1. static[m] = <<>> /\ whole[m] = <<>>
          BY <1>0 DEF ListsInv
        <5> QED
          BY <1>0, <5>1, DeclaredFacts DEF ListsInv
      <4> QED
        BY <1>0, <1>1, <3>1, <3>2, <4>1 DEF Mentions
    <3>3. CASE x # m
      BY <1>0, <1>1, <3>1, <3>3 DEF Mentions
    <3> QED
      BY <3>2, <3>3
  <2>3. ASSUME NEW x \in Module PROVE OneEdgeEach(Base(x)', Mentions(x)')
    BY <1>0, <2>2 DEF GraphInv
  <2>4. \A x \in Module : OneEdgeEach(Base(x), Mentions(x))'
    BY <2>3
  <2>5. graph' \in Graphs /\ Acyclic(graph')
    BY <1>0 DEF GraphInv
  <2> QED
    BY <2>1, <2>4, <2>5 DEF GraphInv
<1>4. SubInv'
  BY <1>0 DEF SubInv
<1>5. DeathIsExplained'
  BY <1>0, DeathStays
<1> QED
  BY <1>1, <1>2, <1>3, <1>4, <1>5 DEF LinkInv

\* The declared edges go from a module not yet visited to visited ones.
LEMMA LinkKeeps ==
  ASSUME LinkInv, NEW m \in Module, Link(m)
  PROVE  LinkInv'
<1>0. /\ ListsInv /\ VisitInv /\ GraphInv /\ SubInv /\ DeathIsExplained
      /\ UNCHANGED declared /\ phase' = phase /\ visited' = visited
      /\ pinkEdges' = pinkEdges /\ sub' = sub
      /\ main = NoModule /\ m \notin visited /\ m \notin disabled \cup Prebuilt
      /\ Libs(m) \subseteq visited
      /\ nodes' = nodes \cup {m} /\ main' = m /\ stage' = "linked"
      /\ graph' = AddEdges(graph, m, DeclaredEdges(m))
  BY Zenon DEF LinkInv, Link, Visit, DepsVisited, scan
<1>1. /\ ListsInv' /\ disabled' = disabled
      /\ \A x \in Module : DeclaredEdges(x)' = DeclaredEdges(x) /\ Libs(x)' = Libs(x)
  BY <1>0, ListsStay DEF declared
<1>a. m # NoModule
  BY ModuleAssumption
<1>2. VisitInv'
  BY <1>0, <1>1, <1>a DEF VisitInv
<1>3. GraphInv'
  <2> DEFINE edges == DeclaredEdges(m)
  <2>1. edges \in Seq(Edge) /\ \A i \in 1 .. Len(edges) : edges[i].to \in Libs(m)
    BY <1>0, DeclaredFacts DEF ListsInv
  <2>2. /\ graph \in Graphs /\ Acyclic(graph) /\ visited \in SUBSET Module /\ m \in Module \ visited
        /\ FromTo(graph, visited, visited)
    <3>1. /\ graph \in Graphs /\ Acyclic(graph) /\ visited \in SUBSET Module
          /\ FromTo(graph, visited \cup {NoModule}, visited)
      BY <1>0 DEF GraphInv, VisitInv
    <3>2. FromTo(graph, visited, visited)
      BY <3>1, ModuleAssumption DEF FromTo
    <3> QED
      BY <1>0, <3>1, <3>2
  <2> HIDE DEF edges
  <2>3. \A i \in 1 .. Len(edges) : edges[i].to \in visited
    BY <1>0, <2>1
  <2>4. Acyclic(graph') /\ FromTo(graph', visited' \cup {main'}, visited')
    <3>1. Acyclic(AddEdges(graph, m, edges)) /\ FromTo(AddEdges(graph, m, edges), visited \cup {m}, visited)
      BY <2>1, <2>2, <2>3, LinkedAcyclic
    <3> QED
      BY <1>0, <3>1 DEF edges
  <2>5. graph[m] = <<>>
    <3>1. Base(m) = graph[m] /\ Mentions(m) = <<>>
      BY <1>0, <1>a DEF Base, Mentions, VisitInv
    <3>2. OneEdgeEach(graph[m], <<>>)
      BY <1>0, <3>1 DEF GraphInv
    <3>3. graph[m] \in Seq(Edge)
      BY <2>2 DEF Graphs
    <3> QED
      BY <3>2, <3>3, NothingMentioned
  <2>6. /\ graph' \in Graphs
        /\ \A x \in Module : x # m => graph'[x] = graph[x]
        /\ OneEdgeEach(graph'[m], edges)
    <3> DEFINE h == AddEdges(graph, m, edges)
    <3>1. /\ h \in Graphs
          /\ \A x \in Module : x # m => h[x] = graph[x]
          /\ graph[m] = <<>> => OneEdgeEach(h[m], edges)
      BY <2>1, <2>2, AddEdgesDeclare
    <3>2. graph' = h
      BY <1>0 DEF edges
    <3> HIDE DEF h
    <3> QED
      BY <2>5, <3>1, <3>2
  <2>7. ASSUME NEW x \in Module PROVE OneEdgeEach(Base(x)', Mentions(x)')
    <3>1. CASE x = m
      <4>1. Base(m)' = graph'[m] /\ Mentions(m)' = edges
        BY <1>0, <1>1 DEF Base, Mentions, edges
      <4> QED
        BY <2>6, <3>1, <4>1
    <3>2. CASE x # m
      <4>1. Base(x)' = Base(x) /\ Mentions(x)' = Mentions(x)
        <5>1. x # NoModule
          BY ModuleAssumption
        <5> QED
          BY <1>0, <1>1, <2>6, <3>2, <5>1 DEF Base, Mentions, VisitInv
      <4> QED
        BY <1>0, <4>1 DEF GraphInv
    <3> QED
      BY <3>1, <3>2
  <2>8. \A x \in Module : OneEdgeEach(Base(x), Mentions(x))'
    BY <2>7
  <2> QED
    BY <2>4, <2>6, <2>8 DEF GraphInv
<1>4. SubInv'
  BY <1>0 DEF SubInv
<1>5. DeathIsExplained'
  BY <1>0, DeathStays
<1> QED
  BY <1>1, <1>2, <1>3, <1>4, <1>5 DEF LinkInv

\* The check kills the run only for a library that is linked twice.
LEMMA CheckKeeps ==
  ASSUME LinkInv, CheckMultipleLinking
  PROVE  LinkInv'
<1>0. /\ ListsInv /\ VisitInv /\ GraphInv /\ SubInv /\ DeathIsExplained
      /\ UNCHANGED declared /\ UNCHANGED <<visited, nodes, graph, main, stage, pinkEdges, sub>>
      /\ phase' = IF \E m \in Linker : LinksMultiply(m) THEN "died" ELSE "sort"
  BY Zenon DEF LinkInv, CheckMultipleLinking, scan
<1>1. ListsInv'
  BY <1>0, ListsStay
<1>2. VisitInv'
  BY <1>0, VisitStays
<1>3. GraphInv'
  BY <1>0, GraphStays
<1>4. SubInv'
  BY <1>0 DEF SubInv
<1>5. DeathIsExplained'
  <2>1. CASE \E m \in Linker : LinksMultiply(m)
    <3>1. \E m \in Linker : LinksMultiply(m)'
      BY <1>0, <2>1, ListsStay
    <3> QED
      BY <3>1 DEF DeathIsExplained
  <2>2. CASE ~\E m \in Linker : LinksMultiply(m)
    BY <1>0, <2>2 DEF DeathIsExplained
  <2> QED
    BY <2>1, <2>2
<1> QED
  BY <1>1, <1>2, <1>3, <1>4, <1>5 DEF LinkInv

\* A library in the lists of an enabled module that has no node is disabled.
LEMMA DieKeeps ==
  ASSUME LinkInv, NEW m \in Module, DieOnMissingLib(m)
  PROVE  LinkInv'
<1>0. /\ ListsInv /\ VisitInv /\ GraphInv /\ SubInv /\ DeathIsExplained
      /\ UNCHANGED declared /\ UNCHANGED <<visited, nodes, graph, main, stage, pinkEdges, sub>>
      /\ m \notin disabled \cup Prebuilt /\ Libs(m) \subseteq visited /\ ~(Libs(m) \subseteq nodes \cup {m})
  BY Zenon DEF LinkInv, DieOnMissingLib, Visit, DepsVisited, scan
<1>1. ListsInv'
  BY <1>0, ListsStay
<1>2. VisitInv'
  BY <1>0, VisitStays
<1>3. GraphInv'
  BY <1>0, GraphStays
<1>4. SubInv'
  BY <1>0 DEF SubInv
<1>5. DeathIsExplained'
  <2>1. Libs(m) \cap disabled # {}
    BY <1>0 DEF VisitInv
  <2>2. \E x \in Module \ disabled : Libs(x) \cap disabled # {}
    BY <1>0, <2>1
  <2>3. \E x \in Module \ disabled' : Libs(x)' \cap disabled' # {}
    BY <1>0, <2>2, ListsStay
  <2> QED
    BY <2>3 DEF DeathIsExplained
<1> QED
  BY <1>1, <1>2, <1>3, <1>4, <1>5 DEF LinkInv

\* The order edges are added so that taking them away restores the graph.
LEMMA KeepOrderKeeps ==
  ASSUME LinkInv, KeepDeclaredOrder
  PROVE  LinkInv'
<1>0. /\ ListsInv /\ VisitInv /\ GraphInv /\ SubInv /\ DeathIsExplained
      /\ UNCHANGED declared /\ phase' = phase /\ UNCHANGED <<visited, nodes, main, sub>>
      /\ stage = "linked" /\ stage' = "ordered"
      /\ graph' = OrderAll(graph, static[main])
      /\ pinkEdges' = {e \in Module \X Module :
                         HasEdge(graph', e[1], e[2]) /\ ~HasEdge(graph, e[1], e[2])}
  BY Zenon DEF LinkInv, KeepDeclaredOrder, scan
<1>1. /\ ListsInv' /\ disabled' = disabled
      /\ \A x \in Module : DeclaredEdges(x)' = DeclaredEdges(x) /\ Libs(x)' = Libs(x)
  BY <1>0, ListsStay DEF declared
<1>2. main \in Module /\ main # NoModule /\ Libs(main) \subseteq visited
  BY <1>0 DEF VisitInv
<1>3. VisitInv'
  BY <1>0, <1>1, <1>2 DEF VisitInv
<1>4. /\ graph' \in Graphs /\ Longer(graph, graph')
      /\ Acyclic(graph') /\ FromTo(graph', visited' \cup {main'}, visited')
  <2> DEFINE libs == static[main]
  <2>1. libs \in Seq(Module) /\ \A i \in 1 .. Len(libs) : libs[i] \in visited
    <3>1. libs \in Seq(Module)
      BY <1>0, <1>2 DEF ListsInv
    <3> HIDE DEF libs
    <3>2. DOMAIN libs = 1 .. Len(libs)
      BY <3>1
    <3>3. \A i \in 1 .. Len(libs) : libs[i] \in Libs(main)
      BY <3>2 DEF Libs, ToSet, libs
    <3> QED
      BY <1>2, <3>1, <3>3
  <2>2. /\ graph \in Graphs /\ Acyclic(graph) /\ visited \in SUBSET Module
        /\ visited \subseteq visited \cup {main} /\ FromTo(graph, visited \cup {main}, visited)
    BY <1>0 DEF GraphInv, VisitInv
  <2> HIDE DEF libs
  <2>3. /\ OrderAll(graph, libs) \in Graphs /\ Longer(graph, OrderAll(graph, libs))
        /\ Acyclic(OrderAll(graph, libs)) /\ FromTo(OrderAll(graph, libs), visited \cup {main}, visited)
    BY <2>1, <2>2, OrderAllSafe
  <2> QED
    BY <1>0, <2>3 DEF libs
<1>5. GraphInv'
  <2>1. graph \in Graphs
    BY <1>0 DEF GraphInv
  <2>2. ASSUME NEW x \in Module PROVE OneEdgeEach(Base(x)', Mentions(x)')
    <3> DEFINE T == {t \in Module : <<x, t>> \in pinkEdges'}
    <3>1. \A t \in Module : t \in T <=> HasEdge(graph', x, t) /\ ~HasEdge(graph, x, t)
      BY <1>0
    <3>2. Base(x)' = EdgesNotTo(graph'[x], T)
      BY <1>0 DEF Base, WithoutPink
    <3> HIDE DEF T
    <3>3. EdgesNotTo(graph'[x], T) = graph[x]
      BY <1>4, <2>1, <3>1, AddedGoes
    <3>4. Base(x) = graph[x]
      BY <1>0 DEF Base
    <3>5. Mentions(x)' = Mentions(x)
      BY <1>0, <1>1 DEF Mentions
    <3>6. OneEdgeEach(Base(x), Mentions(x))
      BY <1>0 DEF GraphInv
    <3> QED
      BY <3>2, <3>3, <3>4, <3>5, <3>6
  <2>3. \A x \in Module : OneEdgeEach(Base(x), Mentions(x))'
    BY <2>2
  <2> QED
    BY <1>4, <2>3 DEF GraphInv
<1>6. SubInv'
  BY <1>0 DEF SubInv
<1>7. DeathIsExplained'
  BY <1>0, DeathStays
<1> QED
  BY <1>1, <1>3, <1>5, <1>6, <1>7 DEF LinkInv

\* Taking the order edges away adds nothing.
LEMMA WithoutPinkWithin ==
  ASSUME graph \in Graphs
  PROVE  WithoutPink \in Graphs /\ Within(WithoutPink, graph)
<1>1. ASSUME NEW s \in Module
      PROVE  /\ WithoutPink[s] \in Seq(Edge)
             /\ \A i \in 1 .. Len(WithoutPink[s]) : \E k \in 1 .. Len(graph[s]) : WithoutPink[s][i] = graph[s][k]
  <2> DEFINE T == {t \in Module : <<s, t>> \in pinkEdges}
             new == EdgesNotTo(graph[s], T)
  <2>1. graph[s] \in Seq(Edge)
    BY DEF Graphs
  <2>2. new \in Seq(Edge) /\ \A i \in 1 .. Len(new) : \E k \in 1 .. Len(graph[s]) : new[i] = graph[s][k]
    <3> HIDE DEF T
    <3> QED
      BY <2>1, EdgesNotToFacts
  <2>3. WithoutPink[s] = new
    BY DEF WithoutPink
  <2> HIDE DEF new
  <2> QED
    BY <2>2, <2>3
<1>2. WithoutPink \in Graphs
  <2>1. WithoutPink = [s \in Module |-> WithoutPink[s]]
    BY DEF WithoutPink
  <2> QED
    BY <1>1, <2>1 DEF Graphs
<1>3. Within(WithoutPink, graph)
  BY <1>1 DEF Within
<1> QED
  BY <1>2, <1>3

\* The copy is as acyclic as the graph it is taken of.
LEMMA TakeSubgraphKeeps ==
  ASSUME LinkInv, TakeSubgraph
  PROVE  LinkInv'
<1>0. /\ ListsInv /\ VisitInv /\ GraphInv /\ SubInv /\ DeathIsExplained
      /\ UNCHANGED declared /\ phase' = phase /\ UNCHANGED <<visited, nodes, main>>
      /\ stage = "ordered" /\ stage' = "proxies"
      /\ graph' = WithoutPink /\ sub' = GetSubgraph(graph, main)
  BY Zenon DEF LinkInv, TakeSubgraph
<1>1. /\ ListsInv' /\ disabled' = disabled
      /\ \A x \in Module : DeclaredEdges(x)' = DeclaredEdges(x) /\ Libs(x)' = Libs(x)
  BY <1>0, ListsStay DEF declared
<1>2. main \in Module /\ main # NoModule /\ Libs(main) \subseteq visited
  BY <1>0 DEF VisitInv
<1>3. VisitInv'
  BY <1>0, <1>1, <1>2 DEF VisitInv
<1>4. graph \in Graphs /\ Acyclic(graph) /\ FromTo(graph, visited \cup {main}, visited)
  BY <1>0 DEF GraphInv
<1>5. GraphInv'
  <2>1. graph' \in Graphs /\ Within(graph', graph)
    BY <1>0, <1>4, WithoutPinkWithin
  <2>2. Acyclic(graph') /\ FromTo(graph', visited' \cup {main'}, visited')
    <3>1. Acyclic(graph')
      BY <1>4, <2>1, WithinAcyclic
    <3>2. FromTo(graph', visited \cup {main}, visited)
      BY <1>4, <2>1, WithinFromTo
    <3> QED
      BY <1>0, <3>1, <3>2
  <2>3. ASSUME NEW x \in Module PROVE OneEdgeEach(Base(x)', Mentions(x)')
    <3>1. Base(x)' = Base(x)
      BY <1>0 DEF Base
    <3>2. Mentions(x)' = Mentions(x)
      BY <1>0, <1>1 DEF Mentions
    <3> QED
      BY <1>0, <3>1, <3>2 DEF GraphInv
  <2>4. \A x \in Module : OneEdgeEach(Base(x), Mentions(x))'
    BY <2>3
  <2> QED
    BY <2>1, <2>2, <2>4 DEF GraphInv
<1>6. SubInv'
  <2>1. GetSubgraph(graph, main) \in Graphs /\ Within(GetSubgraph(graph, main), graph)
    BY <1>2, <1>4, GetSubgraphWithin
  <2>2. Acyclic(GetSubgraph(graph, main))
    BY <1>4, <2>1, WithinAcyclic
  <2> QED
    BY <1>0, <2>1, <2>2 DEF SubInv
<1>7. DeathIsExplained'
  BY <1>0, DeathStays
<1> QED
  BY <1>1, <1>3, <1>5, <1>6, <1>7 DEF LinkInv

\* One node of a round.
LEMMA ScanNodeKeeps ==
  ASSUME LinkInv, NEW n \in Module, ScanNode(n)
  PROVE  LinkInv'
<1>0. /\ ListsInv /\ VisitInv /\ GraphInv /\ SubInv /\ DeathIsExplained
      /\ UNCHANGED declared /\ phase' = phase
      /\ UNCHANGED <<visited, nodes, graph, main, stage, pinkEdges>>
      /\ stage = "proxies" /\ sub' = DeleteProxiesOf(sub, n)
  BY Zenon DEF LinkInv, ScanNode
<1>1. ListsInv'
  BY <1>0, ListsStay
<1>2. VisitInv'
  BY <1>0, VisitStays
<1>3. GraphInv'
  BY <1>0, GraphStays
<1>4. SubInv'
  <2>1. sub \in Graphs /\ Acyclic(sub)
    BY <1>0 DEF SubInv
  <2>2. PICK rank \in Ranks : Ranked(sub, rank)
    BY <2>1 DEF Acyclic
  <2>3. DeleteProxiesOf(sub, n) \in Graphs /\ Ranked(DeleteProxiesOf(sub, n), rank)
    BY <2>1, <2>2, DeleteProxiesRanked
  <2>4. sub' \in Graphs /\ Acyclic(sub')
    BY <1>0, <2>3 DEF Acyclic
  <2> QED
    BY <2>4 DEF SubInv
<1>5. DeathIsExplained'
  BY <1>0, DeathStays
<1> QED
  BY <1>1, <1>2, <1>3, <1>4, <1>5 DEF LinkInv

\* Steps that change neither the lists, the graph nor the copy.
LEMMA RestStays ==
  ASSUME LinkInv, UNCHANGED <<declared, visited, nodes, graph, main, stage, pinkEdges, sub>>,
         phase' = "died" => phase = "died"
  PROVE  LinkInv'
<1>0. ListsInv /\ VisitInv /\ GraphInv /\ SubInv /\ DeathIsExplained
  BY DEF LinkInv
<1>1. ListsInv'
  BY <1>0, ListsStay
<1>2. VisitInv'
  BY <1>0, VisitStays
<1>3. GraphInv'
  BY <1>0, GraphStays
<1>4. SubInv'
  BY <1>0 DEF SubInv
<1>5. DeathIsExplained'
  BY <1>0, DeathStays
<1> QED
  BY <1>1, <1>2, <1>3, <1>4, <1>5 DEF LinkInv

\* The copy is acyclic, so its sorting does not kill the run.
LEMMA SortKeeps ==
  ASSUME LinkInv, Sort
  PROVE  LinkInv'
<1>0. /\ ListsInv /\ VisitInv /\ GraphInv /\ SubInv /\ DeathIsExplained
      /\ UNCHANGED declared /\ UNCHANGED <<nodes, graph, pinkEdges>>
      /\ stage = "proxies" /\ stage' = "idle"
      /\ IF IsDAG(sub, main) THEN phase' = phase ELSE phase' = "died"
      /\ visited' = visited \cup {main} /\ main' = NoModule
  BY Zenon DEF LinkInv, Sort
<1>1. /\ ListsInv' /\ disabled' = disabled
      /\ \A x \in Module : DeclaredEdges(x)' = DeclaredEdges(x) /\ Libs(x)' = Libs(x)
  BY <1>0, ListsStay DEF declared
<1>2. main \in Module /\ main # NoModule /\ Libs(main) \subseteq visited
  BY <1>0 DEF VisitInv
<1>3. VisitInv'
  BY <1>0, <1>1, <1>2 DEF VisitInv
<1>4. GraphInv'
  <2>1. graph' \in Graphs /\ Acyclic(graph') /\ FromTo(graph', visited' \cup {main'}, visited')
    BY <1>0 DEF GraphInv, FromTo
  <2>2. ASSUME NEW x \in Module PROVE OneEdgeEach(Base(x)', Mentions(x)')
    <3>1. Base(x)' = Base(x)
      BY <1>0 DEF Base
    <3>2. Mentions(x)' = Mentions(x)
      <4>1. x # NoModule
        BY ModuleAssumption
      <4> QED
        BY <1>0, <1>1, <4>1 DEF Mentions
    <3> QED
      BY <1>0, <3>1, <3>2 DEF GraphInv
  <2>3. \A x \in Module : OneEdgeEach(Base(x), Mentions(x))'
    BY <2>2
  <2> QED
    BY <2>1, <2>3 DEF GraphInv
<1>5. SubInv'
  BY <1>0 DEF SubInv
<1>6. DeathIsExplained'
  <2>1. IsDAG(sub, main)
    BY <1>0, <1>2, AcyclicIsDAG DEF SubInv
  <2> QED
    BY <1>0, <2>1, DeathStays
<1> QED
  BY <1>1, <1>3, <1>4, <1>5, <1>6 DEF LinkInv

\* Every step keeps the invariant.
LEMMA LinkInvNext == LinkInv /\ [Next]_vars => LinkInv'
<1> SUFFICES ASSUME LinkInv, [Next]_vars PROVE LinkInv'
  OBVIOUS
<1>1. CASE CheckMultipleLinking
  BY <1>1, CheckKeeps
<1>2. CASE \E m \in Module : Skip(m) \/ Link(m) \/ DieOnMissingLib(m)
  BY <1>2, SkipKeeps, LinkKeeps, DieKeeps
<1>3. CASE KeepDeclaredOrder
  BY <1>3, KeepOrderKeeps
<1>4. CASE TakeSubgraph
  BY <1>4, TakeSubgraphKeeps
<1>5. CASE \E n \in Module : ScanNode(n)
  BY <1>5, ScanNodeKeeps
<1>6. CASE ScanAgain
  <2>1. UNCHANGED <<declared, visited, nodes, graph, main, stage, pinkEdges, sub>> /\ phase' = phase
    BY <1>6, Zenon DEF ScanAgain
  <2> QED
    BY <2>1, RestStays
<1>7. CASE Sort
  BY <1>7, SortKeeps
<1>8. CASE EndPass
  <2>1. UNCHANGED <<declared, visited, nodes, graph, main, stage, pinkEdges, sub>> /\ phase' = "done"
    BY <1>8, Zenon DEF EndPass, scan
  <2> QED
    BY <2>1, RestStays
<1>9. CASE UNCHANGED vars
  <2>1. UNCHANGED <<declared, visited, nodes, graph, main, stage, pinkEdges, sub>> /\ phase' = phase
    BY <1>9 DEF vars, declared
  <2> QED
    BY <2>1, RestStays
<1> QED
  BY <1>1, <1>2, <1>3, <1>4, <1>5, <1>6, <1>7, <1>8, <1>9, Zenon DEF Next, Step, Ended

\* The inductive invariant holds.
THEOREM LinkSafe == Spec => []LinkInv
BY LinkInvInit, LinkInvNext, PTL DEF Spec

(***************************************************************************)
(* Between two visits the shared graph is what the modules visited so far  *)
(* declare, and nothing else: the order edges of one module have gone      *)
(* before the next one is looked at (dep_sorter.go, temporaryPaths).       *)
(***************************************************************************)
THEOREM Restored == Spec => []GraphRestored
<1>1. LinkInv => GraphRestored
  <2> SUFFICES ASSUME LinkInv, main = NoModule, NEW m \in Module
               PROVE  OneEdgeEach(graph[m], IF m \in visited THEN DeclaredEdges(m) ELSE <<>>)
    BY Zenon DEF GraphRestored
  <2>1. stage = "idle"
    BY DEF LinkInv, VisitInv
  <2>2. m # NoModule
    BY ModuleAssumption
  <2>3. Base(m) = graph[m] /\ Mentions(m) = IF m \in visited THEN DeclaredEdges(m) ELSE <<>>
    BY <2>1, <2>2 DEF Base, Mentions
  <2>4. OneEdgeEach(Base(m), Mentions(m))
    BY DEF LinkInv, GraphInv
  <2> QED
    BY <2>3, <2>4
<1> QED
  BY <1>1, LinkSafe, PTL

(***************************************************************************)
(* Sorting never kills the run: neither the edges that keep a declared     *)
(* order nor those that replace a red one make a cycle, and a library      *)
(* without a node is one that is disabled.                                 *)
(***************************************************************************)
THEOREM DeathExplained == Spec => []DeathIsExplained
<1>1. LinkInv => DeathIsExplained
  BY DEF LinkInv
<1> QED
  BY <1>1, LinkSafe, PTL

-----------------------------------------------------------------------------
(***************************************************************************)
(* What is on the link line of a module, and in which order, for every set *)
(* of modules, every list a build definition may hold, and every order in  *)
(* which modules are visited and nodes scanned.                            *)
(*                                                                         *)
(* The argument follows the copy of the graph that is taken for a module.  *)
(* While its red edges are replaced it goes on saying what the lists said: *)
(* whatever is below the module is inside something it reaches (NoneLost), *)
(* a library reaches what it uses without leaving its own contents         *)
(* (UsesKept), and the edges that keep a declared order stay (OrderKept).  *)
(* When a round finds no red edge there is none, and what is left is       *)
(* sorted into a list in which the targets of each node come after it      *)
(* (SortFacts).                                                            *)
(***************************************************************************)

-----------------------------------------------------------------------------
(***************************************************************************)
(* Children: sorting by priority loses no target and adds none.            *)
(***************************************************************************)

\* The place of each of N elements: behind those that come before it.
Places(N, B) == [j \in 1 .. N |-> 1 + Cardinality({i \in 1 .. N : <<i, j>> \in B})]

\* Counting what comes before each element of a strict order numbers them all.
LEMMA PlacesFill ==
  ASSUME NEW N \in Nat, NEW B,
         \A i \in 1 .. N : <<i, i>> \notin B,
         \A i, j \in 1 .. N : i # j => <<i, j>> \in B \/ <<j, i>> \in B,
         \A i, j, k \in 1 .. N : <<i, j>> \in B /\ <<j, k>> \in B => <<i, k>> \in B
  PROVE  Places(N, B) \in Bijection(1 .. N, 1 .. N)
<1> DEFINE D == 1 .. N
           place == Places(N, B)
           Lower(j) == {i \in D : <<i, j>> \in B}
<1>1. IsFiniteSet(D) /\ Cardinality(D) = N
  BY FS_Interval
<1>2. ASSUME NEW j \in D
      PROVE  IsFiniteSet(Lower(j)) /\ Cardinality(Lower(j)) \in Nat /\ Cardinality(Lower(j)) < N
  <2>1. Lower(j) \in SUBSET D /\ Lower(j) # D
    OBVIOUS
  <2> HIDE DEF Lower, D
  <2>2. IsFiniteSet(Lower(j)) /\ Cardinality(Lower(j)) <= N /\ Cardinality(Lower(j)) # N
    BY <1>1, <2>1, FS_Subset
  <2>3. Cardinality(Lower(j)) \in Nat
    BY <2>2, FS_CardinalityType
  <2> QED
    BY <2>2, <2>3
<1>3. ASSUME NEW i \in D, NEW j \in D, <<i, j>> \in B
      PROVE  Cardinality(Lower(i)) < Cardinality(Lower(j))
  <2>1. Lower(i) \in SUBSET Lower(j) /\ i \in Lower(j) /\ i \notin Lower(i)
    BY <1>3
  <2> HIDE DEF Lower
  <2>2. IsFiniteSet(Lower(j)) /\ Cardinality(Lower(i)) \in Nat /\ Cardinality(Lower(j)) \in Nat
    BY <1>2
  <2>3. Cardinality(Lower(i)) <= Cardinality(Lower(j)) /\ Cardinality(Lower(i)) # Cardinality(Lower(j))
    BY <2>1, <2>2, FS_Subset
  <2> QED
    BY <2>2, <2>3
<1>4. DOMAIN place = D /\ place = [j \in D |-> place[j]] /\ \A j \in D : place[j] = 1 + Cardinality(Lower(j))
  BY DEF Places
<1> HIDE DEF Lower, place
<1>5. place \in [D -> D]
  <2>1. DOMAIN place = D /\ place = [j \in D |-> place[j]]
    BY <1>4
  <2>2. ASSUME NEW j \in D PROVE place[j] \in D
    <3>1. Cardinality(Lower(j)) \in Nat /\ Cardinality(Lower(j)) < N /\ place[j] = 1 + Cardinality(Lower(j))
      BY <1>2, <1>4
    <3> QED
      BY <3>1
  <2> HIDE DEF D
  <2> QED
    BY <2>1, <2>2
<1>6. \A i, j \in D : place[i] = place[j] => i = j
  <2> SUFFICES ASSUME NEW i \in D, NEW j \in D, i # j PROVE place[i] # place[j]
    OBVIOUS
  <2>1. <<i, j>> \in B \/ <<j, i>> \in B
    OBVIOUS
  <2>2. Cardinality(Lower(i)) # Cardinality(Lower(j)) /\ Cardinality(Lower(i)) \in Nat /\ Cardinality(Lower(j)) \in Nat
    <3>1. Cardinality(Lower(i)) \in Nat /\ Cardinality(Lower(j)) \in Nat
      BY <1>2
    <3>2. Cardinality(Lower(i)) < Cardinality(Lower(j)) \/ Cardinality(Lower(j)) < Cardinality(Lower(i))
      BY <1>3, <2>1
    <3> QED
      BY <3>1, <3>2
  <2>3. place[i] = 1 + Cardinality(Lower(i)) /\ place[j] = 1 + Cardinality(Lower(j))
    BY <1>4
  <2> QED
    BY <2>2, <2>3
<1>7. place \in Injection(D, D)
  <2>1. IsInjective(place)
    <3>1. DOMAIN place = D
      BY <1>4
    <3> HIDE DEF D
    <3> QED
      BY <1>6, <3>1 DEF IsInjective
  <2> HIDE DEF D
  <2> QED
    BY <1>5, <2>1 DEF Injection
<1>8. place \in Surjection(D, D)
  <2> HIDE DEF D
  <2> QED
    BY <1>1, <1>7, FS_Injection
<1> QED
  BY <1>7, <1>8 DEF Bijection, place

\* Sorting loses no target and adds none.
LEMMA ChildrenAre ==
  ASSUME NEW g \in Graphs, NEW n \in Module, NEW prio,
         \A x : HasEdge(g, n, x) => prio[x] \in Int
  PROVE  /\ Children(g, prio, n) \in Seq(Module)
         /\ \A x : (\E k \in 1 .. Len(Children(g, prio, n)) : Children(g, prio, n)[k] = x) <=> HasEdge(g, n, x)
<1> DEFINE t == Targets(g, n)
           N == Len(g[n])
           D == 1 .. N
           Before(i, j) == prio[t[i]] < prio[t[j]] \/ (prio[t[i]] = prio[t[j]] /\ i > j)
           Place(j) == 1 + Cardinality({i \in DOMAIN t : Before(i, j)})
           B == {p \in D \X D : Before(p[1], p[2])}
           place == Places(N, B)
           order == [k \in D |-> CHOOSE j \in DOMAIN t : Place(j) = k]
           c == Children(g, prio, n)
<1>1. g[n] \in Seq(Edge) /\ N \in Nat /\ DOMAIN t = D /\ \A i \in D : t[i] = g[n][i].to
  BY DEF Graphs, Targets
<1>2. \A i \in D : t[i] \in Module /\ HasEdge(g, n, t[i])
  <2> HIDE DEF t
  <2> QED
    BY <1>1, EdgesToModules, HasEdgeIff
<1>a. \A x : HasEdge(g, n, x) => \E i \in D : t[i] = x
  <2> HIDE DEF t
  <2> QED
    BY <1>1, HasEdgeIff
<1>3. \A i \in D : prio[t[i]] \in Int
  BY <1>2
<1>4. c = [k \in D |-> t[order[k]]]
  <2>1. c = [k \in DOMAIN t |-> t[CHOOSE j \in DOMAIN t : Place(j) = k]]
    BY DEF Children
  <2>2. \A k \in D : order[k] = CHOOSE j \in DOMAIN t : Place(j) = k
    OBVIOUS
  <2>3. DOMAIN t = D
    BY <1>1
  <2> HIDE DEF order, c, t, Place, D
  <2> QED
    BY <2>1, <2>2, <2>3
<1> HIDE DEF t
<1>5. \A i, j \in D : <<i, j>> \in B <=> Before(i, j)
  <2> HIDE DEF Before
  <2> QED
    OBVIOUS
<1>6. place \in Bijection(D, D)
  <2>1. \A i \in D : ~Before(i, i)
    BY <1>1, <1>3
  <2>2. \A i, j \in D : i # j => Before(i, j) \/ Before(j, i)
    BY <1>1, <1>3
  <2>3. \A i, j, k \in D : Before(i, j) /\ Before(j, k) => Before(i, k)
    BY <1>1, <1>3
  <2> HIDE DEF Before
  <2>4. /\ \A i \in 1 .. N : <<i, i>> \notin B
        /\ \A i, j \in 1 .. N : i # j => <<i, j>> \in B \/ <<j, i>> \in B
        /\ \A i, j, k \in 1 .. N : <<i, j>> \in B /\ <<j, k>> \in B => <<i, k>> \in B
    BY <1>5, <2>1, <2>2, <2>3
  <2>6. N \in Nat
    BY <1>1
  <2> HIDE DEF B, N
  <2>7. place \in Bijection(1 .. N, 1 .. N)
    BY <2>4, <2>6, PlacesFill
  <2> QED
    BY <2>7
<1>7. \A j \in D : Place(j) = place[j]
  <2> SUFFICES ASSUME NEW j \in D PROVE Place(j) = place[j]
    OBVIOUS
  <2>1. {i \in DOMAIN t : Before(i, j)} = {i \in D : <<i, j>> \in B}
    <3> HIDE DEF Before, B
    <3> QED
      BY <1>1, <1>5
  <2>2. place[j] = 1 + Cardinality({i \in D : <<i, j>> \in B})
    BY DEF Places
  <2> HIDE DEF B, place
  <2> QED
    BY <2>1, <2>2
<1> HIDE DEF Place, place, Before, B
<1>8. /\ \A k \in D : \E j \in D : place[j] = k
      /\ \A i, j \in D : place[i] = place[j] => i = j
      /\ \A j \in D : place[j] \in D
  BY <1>6 DEF Bijection, Injection, Surjection, IsInjective
<1>9. \A k \in D : order[k] \in D /\ place[order[k]] = k
  <2> SUFFICES ASSUME NEW k \in D PROVE order[k] \in D /\ place[order[k]] = k
    OBVIOUS
  <2>1. PICK j \in D : place[j] = k
    BY <1>8
  <2>2. j \in DOMAIN t /\ Place(j) = k
    BY <1>1, <1>7, <2>1
  <2>3. order[k] \in DOMAIN t /\ Place(order[k]) = k
    BY <2>2
  <2> HIDE DEF order
  <2> QED
    BY <1>1, <1>7, <2>3
<1> HIDE DEF order, c, D
<1>10. \A j \in D : \E k \in D : order[k] = j
  BY <1>8, <1>9
<1>11. /\ c \in [D -> Module]
       /\ \A k \in D : c[k] = t[order[k]]
  BY <1>2, <1>4, <1>9
<1>12. c \in Seq(Module) /\ Len(c) = N
  BY <1>1, <1>11 DEF D
<1>13. ASSUME NEW x PROVE (\E k \in D : c[k] = x) <=> HasEdge(g, n, x)
  BY <1>2, <1>a, <1>9, <1>10, <1>11
<1> QED
  BY <1>12, <1>13 DEF c, D

-----------------------------------------------------------------------------
(***************************************************************************)
(* TopologicalSort: a recursive function over calls, which has one         *)
(* solution since every nested call has one gray node more.                *)
(***************************************************************************)

\* A call of visit, and the calls there can be.
Call(x, list, gray) == [node |-> x, list |-> list, gray |-> gray]

Calls == [node : Module, list : Seq(Module), gray : SUBSET Module]

\* What a call returns, when the calls of the children return what f says.
Done(f, v, w) ==
  CHOOSE d : d = [i \in 0 .. Len(w) |->
    IF i = 0 THEN v.list ELSE f[Call(w[i], d[i - 1], v.gray \cup {v.node})]]

Returns(f, v, w) ==
  IF v.node \in v.gray \cup ToSet(v.list) THEN v.list ELSE <<v.node>> \o Done(f, v, w)[Len(w)]

\* The lists between the calls of the children w.
Passed(f, v, w) ==
  {d \in [0 .. Len(w) -> Seq(Module)] :
     /\ d[0] = v.list
     /\ \A i \in 1 .. Len(w) : d[i] = f[Call(w[i], d[i - 1], v.gray \cup {v.node})]}

\* A call and its parts.
LEMMA CallFacts ==
  /\ \A x \in Module : \A list \in Seq(Module) : \A gray \in SUBSET Module : Call(x, list, gray) \in Calls
  /\ \A v \in Calls : v.node \in Module /\ v.list \in Seq(Module) /\ v.gray \in SUBSET Module
  /\ \A x, list, gray : /\ Call(x, list, gray).node = x
                        /\ Call(x, list, gray).list = list
                        /\ Call(x, list, gray).gray = gray
BY DEF Call, Calls

\* Whatever says the same as f of the calls of the children passes the same lists.
LEMMA DoneIsPassed ==
  ASSUME NEW f \in [Calls -> Seq(Module)], NEW v \in Calls, NEW w \in Seq(Module), NEW h,
         \A u \in Calls : u.gray = v.gray \cup {v.node} => h[u] = f[u]
  PROVE  \E d \in Passed(f, v, w) : Done(h, v, w)[Len(w)] = d[Len(w)]
<1> DEFINE n == Len(w)
           A == Seq(Module)
           G == v.gray \cup {v.node}
           F == [p \in (1 .. n) \X A |-> f[Call(w[p[1]], p[2], G)]]
           Rule(d) == [i \in 0 .. n |-> IF i = 0 THEN v.list ELSE h[Call(w[i], d[i - 1], G)]]
           done == CHOOSE d : d = Rule(d)
<1>1. /\ n \in Nat /\ v.list \in A /\ G \in SUBSET Module
      /\ \A i \in 1 .. n : w[i] \in Module /\ i - 1 \in 0 .. n
  BY CallFacts
<1>2. \A i \in 1 .. n : \A list \in A :
        /\ Call(w[i], list, G) \in Calls /\ f[Call(w[i], list, G)] \in A
        /\ h[Call(w[i], list, G)] = f[Call(w[i], list, G)]
  <2> HIDE DEF n, G
  <2> SUFFICES ASSUME NEW i \in 1 .. n, NEW list \in A
               PROVE  /\ Call(w[i], list, G) \in Calls /\ f[Call(w[i], list, G)] \in A
                      /\ h[Call(w[i], list, G)] = f[Call(w[i], list, G)]
    OBVIOUS
  <2>1. w[i] \in Module /\ G \in SUBSET Module
    BY <1>1
  <2>2. Call(w[i], list, G) \in Calls /\ Call(w[i], list, G).gray = G
    BY <2>1, CallFacts
  <2> QED
    BY <2>2 DEF G
<1> HIDE DEF n, A, G
<1>3. F \in [(1 .. n) \X A -> A]
  BY <1>2
<1>4. PICK d : d \in Runs(n, A, v.list, F)
  <2> DEFINE a == v.list
  <2>1. a \in A
    BY <1>1
  <2>2. Runs(n, A, a, F) # {}
    <3> HIDE DEF F, a
    <3> QED
      BY <1>1, <1>3, <2>1, RunExists
  <2> QED
    BY <2>2
<1>5. d \in [0 .. n -> A] /\ d[0] = v.list /\ \A i \in 1 .. n : d[i] = f[Call(w[i], d[i - 1], G)]
  <2>1. d \in [0 .. n -> A] /\ d[0] = v.list /\ \A i \in 1 .. n : d[i] = F[<<i, d[i - 1]>>]
    BY <1>4, Zenon DEF Runs
  <2>2. \A i \in 1 .. n : <<i, d[i - 1]>> \in (1 .. n) \X A
    BY <1>1, <2>1
  <2> QED
    BY <2>1, <2>2
<1>6. d = Rule(d)
  <2>1. \A i \in 1 .. n : d[i] = h[Call(w[i], d[i - 1], G)]
    <3> SUFFICES ASSUME NEW i \in 1 .. n PROVE d[i] = h[Call(w[i], d[i - 1], G)]
      OBVIOUS
    <3>1. d[i - 1] \in A /\ d[i] = f[Call(w[i], d[i - 1], G)]
      BY <1>1, <1>5
    <3> QED
      BY <1>2, <3>1
  <2>2. \A i \in 0 .. n : d[i] = IF i = 0 THEN v.list ELSE h[Call(w[i], d[i - 1], G)]
    BY <1>1, <1>5, <2>1
  <2> QED
    BY <1>5, <2>2
<1>7. done = Rule(done)
  BY <1>6
<1>8. done[n] = d[n]
  <2>1. done[0] = v.list /\ \A i \in 1 .. n : done[i] = h[Call(w[i], done[i - 1], G)]
    <3>1. \A i \in 0 .. n : done[i] = IF i = 0 THEN v.list ELSE h[Call(w[i], done[i - 1], G)]
      BY <1>7, Zenon
    <3> HIDE DEF done
    <3> QED
      BY <1>1, <3>1
  <2> HIDE DEF done
  <2> DEFINE S == {i \in 0 .. n : done[i] = d[i]}
  <2>2. 0 \in S
    BY <1>1, <1>5, <2>1
  <2>3. ASSUME NEW i \in 1 .. n, i - 1 \in S PROVE i \in S
    <3>1. i \in 0 .. n /\ done[i - 1] = d[i - 1] /\ d[i - 1] \in A
      BY <1>1, <1>5, <2>3
    <3>2. done[i] = h[Call(w[i], d[i - 1], G)] /\ d[i] = f[Call(w[i], d[i - 1], G)]
      BY <1>5, <2>1, <3>1
    <3>3. h[Call(w[i], d[i - 1], G)] = f[Call(w[i], d[i - 1], G)]
      BY <1>2, <3>1
    <3> QED
      BY <3>1, <3>2, <3>3
  <2>4. \A i \in 0 .. n : i \in S
    <3> HIDE DEF S
    <3> QED
      BY <1>1, <2>2, <2>3, IntervalInduction
  <2>5. n \in 0 .. n
    BY <1>1
  <2> QED
    BY <2>4, <2>5
<1>9. Done(h, v, w) = done
  BY Zenon DEF Done, n, G
<1>10. d \in Passed(f, v, w)
  BY <1>5 DEF Passed, n, A, G
<1> HIDE DEF done
<1> QED
  BY <1>8, <1>9, <1>10 DEF n

\* There is one way to pass the lists on.
LEMMA PassedOnce ==
  ASSUME NEW f \in [Calls -> Seq(Module)], NEW v \in Calls, NEW w \in Seq(Module),
         NEW d \in Passed(f, v, w), NEW e \in Passed(f, v, w)
  PROVE  d[Len(w)] = e[Len(w)]
<1> DEFINE S == {i \in 0 .. Len(w) : d[i] = e[i]}
<1>1. /\ d[0] = v.list /\ \A i \in 1 .. Len(w) : d[i] = f[Call(w[i], d[i - 1], v.gray \cup {v.node})]
      /\ e[0] = v.list /\ \A i \in 1 .. Len(w) : e[i] = f[Call(w[i], e[i - 1], v.gray \cup {v.node})]
  BY DEF Passed
<1>2. 0 \in S
  BY <1>1
<1>3. ASSUME NEW i \in 1 .. Len(w), i - 1 \in S PROVE i \in S
  <2>1. i \in 0 .. Len(w) /\ d[i - 1] = e[i - 1]
    BY <1>3
  <2>2. d[i] = e[i]
    BY <1>1, <2>1
  <2> QED
    BY <2>1, <2>2
<1>4. Len(w) \in Nat
  OBVIOUS
<1>5. \A i \in 0 .. Len(w) : i \in S
  <2> HIDE DEF S
  <2> QED
    BY <1>2, <1>3, <1>4, IntervalInduction
<1> QED
  BY <1>4, <1>5

\* h says what f says of the calls of the children of v.
Agree(h, f, v) == v.node \notin v.gray => \A u \in Calls : u.gray = v.gray \cup {v.node} => h[u] = f[u]

\* A call depends on what is said of the calls of its children only.
LEMMA ReturnsFacts ==
  ASSUME NEW f \in [Calls -> Seq(Module)], NEW v \in Calls, NEW w \in Seq(Module), NEW h, Agree(h, f, v)
  PROVE  Returns(f, v, w) \in Seq(Module) /\ Returns(h, v, w) = Returns(f, v, w)
<1>1. v.node \in Module /\ v.list \in Seq(Module) /\ v.gray \in SUBSET Module
  BY CallFacts
<1>2. CASE v.node \in v.gray \cup ToSet(v.list)
  BY <1>1, <1>2 DEF Returns
<1>3. CASE v.node \notin v.gray \cup ToSet(v.list)
  <2>0. \A u \in Calls : u.gray = v.gray \cup {v.node} => h[u] = f[u]
    BY <1>3, Zenon DEF Agree
  <2>1. \E d \in Passed(f, v, w) : Done(h, v, w)[Len(w)] = d[Len(w)]
    BY <2>0, DoneIsPassed, Zenon
  <2>7. PICK d \in Passed(f, v, w) : Done(h, v, w)[Len(w)] = d[Len(w)]
    BY <2>1
  <2>2. PICK e \in Passed(f, v, w) : Done(f, v, w)[Len(w)] = e[Len(w)]
    BY DoneIsPassed
  <2>3. d[Len(w)] = e[Len(w)]
    BY PassedOnce
  <2>4. e \in [0 .. Len(w) -> Seq(Module)] /\ Len(w) \in 0 .. Len(w)
    BY DEF Passed
  <2>5. e[Len(w)] \in Seq(Module)
    BY <2>4
  <2>6. Returns(f, v, w) = <<v.node>> \o e[Len(w)] /\ Returns(h, v, w) = <<v.node>> \o e[Len(w)]
    BY <1>3, <2>7, <2>2, <2>3, Zenon DEF Returns
  <2> QED
    BY <1>1, <2>5, <2>6
<1> QED
  BY <1>2, <1>3

\* How many nodes are not gray.
Room(gray) == Cardinality(Module \ gray)

\* One more gray node leaves room for one less.
LEMMA RoomFacts ==
  /\ \A gray \in SUBSET Module : Room(gray) \in Nat /\ (Room(gray) = 0 => gray = Module)
  /\ \A gray \in SUBSET Module : \A x \in Module \ gray : Room(gray \cup {x}) = Room(gray) - 1
<1>1. IsFiniteSet(Module)
  BY ModuleAssumption
<1>2. ASSUME NEW gray \in SUBSET Module
      PROVE  Room(gray) \in Nat /\ (Room(gray) = 0 => gray = Module)
  <2> DEFINE R == Module \ gray
  <2>1. IsFiniteSet(R)
    BY <1>1, FS_Subset
  <2>2. Cardinality(R) \in Nat
    <3> HIDE DEF R
    <3> QED
      BY <2>1, FS_CardinalityType
  <2>3. Cardinality(R) = 0 => R = {}
    <3> HIDE DEF R
    <3> QED
      BY <2>1, FS_EmptySet
  <2> QED
    BY <2>2, <2>3 DEF Room
<1>3. ASSUME NEW gray \in SUBSET Module, NEW x \in Module \ gray
      PROVE  Room(gray \cup {x}) = Room(gray) - 1
  <2> DEFINE R == Module \ gray
  <2>1. IsFiniteSet(R) /\ x \in R /\ Module \ (gray \cup {x}) = R \ {x}
    BY <1>1, FS_Subset
  <2>2. Cardinality(R \ {x}) = Cardinality(R) - 1
    <3> HIDE DEF R
    <3> QED
      BY <2>1, FS_RemoveElement
  <2> QED
    BY <2>1, <2>2 DEF Room
<1> QED
  BY <1>2, <1>3

\* What says of every call what it returns, ch being the children of the nodes.
Sorting(ch) == {f \in [Calls -> Seq(Module)] : \A v \in Calls : f[v] = Returns(f, v, ch[v.node])}

\* The recursion has a solution: gray grows.
LEMMA SortExists ==
  ASSUME NEW ch \in [Module -> Seq(Module)]
  PROVE  Sorting(ch) # {}
<1> DEFINE K == Cardinality(Module) + 1
           A == [Calls -> Seq(Module)]
           a == [v \in Calls |-> v.list]
           F == [p \in (1 .. K) \X A |-> [v \in Calls |-> Returns(p[2], v, ch[v.node])]]
<1>1. K \in Nat /\ K # 0 /\ \A gray \in SUBSET Module : Room(gray) < K
  <2>1. IsFiniteSet(Module)
    BY ModuleAssumption
  <2>2. Cardinality(Module) \in Nat
    BY <2>1, FS_CardinalityType
  <2>3. ASSUME NEW gray \in SUBSET Module PROVE Room(gray) <= Cardinality(Module)
    <3>1. Module \ gray \in SUBSET Module
      OBVIOUS
    <3> QED
      BY <2>1, <3>1, FS_Subset DEF Room
  <2>4. \A gray \in SUBSET Module : Room(gray) \in Nat
    BY RoomFacts
  <2> QED
    BY <2>2, <2>3, <2>4
<1>2. a \in A
  BY CallFacts
<1>3. \A v \in Calls : ch[v.node] \in Seq(Module)
  BY CallFacts
<1>4. F \in [(1 .. K) \X A -> A]
  <2>1. ASSUME NEW f \in A PROVE [v \in Calls |-> Returns(f, v, ch[v.node])] \in A
    <3>1. ASSUME NEW v \in Calls PROVE Returns(f, v, ch[v.node]) \in Seq(Module)
      <4>1. Agree(f, f, v)
        BY DEF Agree
      <4> QED
        BY <1>3, <4>1, ReturnsFacts
    <3> QED
      BY <3>1
  <2> HIDE DEF K, A
  <2> QED
    BY <2>1
<1>5. PICK W : W \in Runs(K, A, a, F)
  <2> HIDE DEF K, A, a, F
  <2> QED
    BY <1>1, <1>2, <1>4, RunExists
<1>6. /\ \A i \in 0 .. K : W[i] \in A
      /\ \A v \in Calls : W[0][v] = v.list
      /\ \A i \in 1 .. K : \A v \in Calls : W[i][v] = Returns(W[i - 1], v, ch[v.node])
  <2>1. W \in [0 .. K -> A] /\ W[0] = a /\ \A i \in 1 .. K : W[i] = F[<<i, W[i - 1]>>]
    <3> HIDE DEF K, A, a, F
    <3> QED
      BY <1>5 DEF Runs
  <2> HIDE DEF K
  <2>2. \A i \in 1 .. K : i - 1 \in 0 .. K
    BY <1>1
  <2>3. ASSUME NEW i \in 1 .. K PROVE W[i] = [v \in Calls |-> Returns(W[i - 1], v, ch[v.node])]
    <3>1. <<i, W[i - 1]>> \in (1 .. K) \X A
      BY <2>1, <2>2
    <3> HIDE DEF A
    <3> QED
      BY <2>1, <3>1
  <2>4. \A v \in Calls : W[0][v] = v.list
    BY <2>1
  <2>5. ASSUME NEW i \in 1 .. K, NEW v \in Calls PROVE W[i][v] = Returns(W[i - 1], v, ch[v.node])
    BY <2>3
  <2> HIDE DEF A, a
  <2> QED
    BY <2>1, <2>4, <2>5
<1> HIDE DEF K, F, a
<1> DEFINE S == {i \in 0 .. K : i # 0 => \A v \in Calls : Room(v.gray) < i => W[i][v] = W[i - 1][v]}
<1>7. 0 \in S
  BY <1>1
<1>8. ASSUME NEW i \in 1 .. K, i - 1 \in S PROVE i \in S
  <2> SUFFICES ASSUME NEW v \in Calls, Room(v.gray) < i PROVE W[i][v] = W[i - 1][v]
    BY <1>1
  <2>1. v.node \in Module /\ v.list \in Seq(Module) /\ v.gray \in SUBSET Module /\ ch[v.node] \in Seq(Module)
    BY <1>3, CallFacts
  <2>2. i - 1 \in 0 .. K /\ (i # 1 => i - 1 \in 1 .. K /\ i - 2 \in 0 .. K /\ (i - 1) - 1 = i - 2)
    BY <1>1
  <2>3. W[i][v] = Returns(W[i - 1], v, ch[v.node]) /\ W[i - 1] \in A
    BY <1>6, <2>2
  <2>4. W[i - 1][v] = IF i = 1 THEN v.list ELSE Returns(W[i - 2], v, ch[v.node])
    BY <1>6, <2>2
  <2>5. CASE v.node \in v.gray \cup ToSet(v.list)
    BY <2>3, <2>4, <2>5 DEF Returns
  <2>6. CASE v.node \notin v.gray \cup ToSet(v.list)
    <3> DEFINE G == v.gray \cup {v.node}
    <3>0. G \in SUBSET Module /\ Room(G) = Room(v.gray) - 1 /\ Room(v.gray) \in Nat /\ Room(G) \in Nat
      <4>1. v.node \in Module \ v.gray
        BY <2>1, <2>6
      <4>2. Room(G) = Room(v.gray) - 1 /\ Room(v.gray) \in Nat
        BY <2>1, <4>1, RoomFacts
      <4>3. G \in SUBSET Module
        BY <2>1
      <4> QED
        BY <4>2, <4>3, RoomFacts
    <3>1. i # 1
      BY <3>0
    <3>2. ASSUME NEW u \in Calls, u.gray = G PROVE W[i - 1][u] = W[i - 2][u]
      <4>1. Room(u.gray) < i - 1
        <5> HIDE DEF G
        <5> QED
          BY <3>0, <3>2
      <4> QED
        BY <1>8, <2>2, <3>1, <4>1
    <3>3. W[i - 2] \in A
      BY <1>6, <2>2, <3>1
    <3>4. Returns(W[i - 1], v, ch[v.node]) = Returns(W[i - 2], v, ch[v.node])
      <4>1. Agree(W[i - 1], W[i - 2], v)
        BY <3>2, Zenon DEF Agree
      <4> QED
        BY <2>1, <3>3, <4>1, ReturnsFacts
    <3> QED
      BY <2>3, <2>4, <3>1, <3>4
  <2> QED
    BY <2>5, <2>6
<1>9. \A i \in 0 .. K : i \in S
  <2> HIDE DEF S
  <2> QED
    BY <1>1, <1>7, <1>8, IntervalInduction
<1>10. K - 1 \in 0 .. K /\ K \in 1 .. K
  BY <1>1
<1>11. ASSUME NEW v \in Calls PROVE W[K - 1][v] = Returns(W[K - 1], v, ch[v.node])
  <2>1. Room(v.gray) < K
    BY <1>1, CallFacts
  <2>2. W[K][v] = W[K - 1][v]
    BY <1>1, <1>9, <1>10, <2>1
  <2>3. W[K][v] = Returns(W[K - 1], v, ch[v.node])
    BY <1>6, <1>10
  <2> QED
    BY <2>2, <2>3
<1>12. W[K - 1] \in A
  BY <1>6, <1>10
<1> QED
  BY <1>11, <1>12 DEF Sorting

\* The equation that the recursive function solves.
Solves(h, ch) == h = [v \in Calls |-> Returns(h, v, ch[v.node])]

\* It has one only.
LEMMA SortIsOne ==
  ASSUME NEW ch \in [Module -> Seq(Module)], NEW f \in Sorting(ch), NEW h, Solves(h, ch)
  PROVE  h = f
<1> DEFINE S == {k \in Nat : \A v \in Calls : Room(v.gray) < k => h[v] = f[v]}
<1>0. /\ f \in [Calls -> Seq(Module)] /\ \A v \in Calls : f[v] = Returns(f, v, ch[v.node])
      /\ DOMAIN h = Calls /\ \A v \in Calls : h[v] = Returns(h, v, ch[v.node])
  BY DEF Sorting, Solves
<1>1. 0 \in S
  <2>1. \A v \in Calls : Room(v.gray) \in Nat
    BY CallFacts, RoomFacts
  <2> QED
    BY <2>1
<1>2. ASSUME NEW k \in Nat, k \in S PROVE k + 1 \in S
  <2> SUFFICES ASSUME NEW v \in Calls, Room(v.gray) < k + 1 PROVE h[v] = f[v]
    OBVIOUS
  <2>1. v.node \in Module /\ v.list \in Seq(Module) /\ v.gray \in SUBSET Module /\ ch[v.node] \in Seq(Module)
    BY CallFacts
  <2>2. Agree(h, f, v)
    <3> SUFFICES ASSUME v.node \notin v.gray, NEW u \in Calls, u.gray = v.gray \cup {v.node}
                 PROVE  h[u] = f[u]
      BY DEF Agree
    <3>1. Room(u.gray) = Room(v.gray) - 1 /\ Room(v.gray) \in Nat
      BY <2>1, RoomFacts
    <3>2. Room(u.gray) < k
      BY <3>1
    <3> QED
      BY <1>2, <3>2
  <2>3. Returns(h, v, ch[v.node]) = Returns(f, v, ch[v.node])
    <3> DEFINE w == ch[v.node]
    <3>1. w \in Seq(Module) /\ f \in [Calls -> Seq(Module)]
      BY <1>0, <2>1
    <3> HIDE DEF w
    <3>2. Returns(h, v, w) = Returns(f, v, w)
      BY <2>2, <3>1, ReturnsFacts
    <3> QED
      BY <3>2 DEF w
  <2> QED
    BY <1>0, <2>3
<1>3. \A k \in Nat : k \in S
  <2> HIDE DEF S
  <2> QED
    BY <1>1, <1>2, NatSetInduction
<1>4. ASSUME NEW v \in Calls PROVE h[v] = f[v]
  <2>1. Room(v.gray) \in Nat
    BY CallFacts, RoomFacts
  <2>2. Room(v.gray) + 1 \in S /\ Room(v.gray) < Room(v.gray) + 1
    <3> HIDE DEF S
    <3> QED
      BY <1>3, <2>1
  <2> QED
    BY <2>2
<1>5. f = [v \in Calls |-> f[v]]
  BY <1>0
<1>6. h = [v \in Calls |-> h[v]]
  BY Zenon DEF Solves
<1> QED
  BY <1>4, <1>5, <1>6

\* The lists the sort returns.
LEMMA SortReturns ==
  ASSUME NEW g, NEW prio, NEW ch \in [Module -> Seq(Module)],
         \A x \in Module : Children(g, prio, x) = ch[x], NEW n
  PROVE  \E f \in Sorting(ch) : TopologicalSort(g, prio, n) = f[Call(n, <<>>, {})]
<1> DEFINE Body(f) == [v \in [node : Module, list : Seq(Module), gray : SUBSET Module] |->
             Returns(f, v, Children(g, prio, v.node))]
           visit == CHOOSE f : f = Body(f)
<1>1. PICK f : f \in Sorting(ch)
  BY SortExists
<1>2. \A h : Body(h) = [v \in Calls |-> Returns(h, v, ch[v.node])]
  <2>1. \A v \in Calls : Children(g, prio, v.node) = ch[v.node]
    BY CallFacts
  <2> QED
    BY <2>1 DEF Calls
<1>3. f = Body(f)
  <2>1. f = [v \in Calls |-> Returns(f, v, ch[v.node])]
    BY <1>1 DEF Sorting
  <2> HIDE DEF Body
  <2> QED
    BY <1>2, <2>1
<1>4. visit = Body(visit)
  <2> HIDE DEF Body
  <2> QED
    BY <1>3
<1>5. visit = f
  <2> HIDE DEF visit, Body
  <2>1. visit = [v \in Calls |-> Returns(visit, v, ch[v.node])]
    BY <1>2, <1>4
  <2>2. Solves(visit, ch)
    BY <2>1 DEF Solves
  <2> QED
    BY <1>1, <2>2, SortIsOne
<1>6. TopologicalSort(g, prio, n) = visit[Call(n, <<>>, {})]
  BY Zenon DEF TopologicalSort, Returns, Done, Call
<1> QED
  BY <1>1, <1>5, <1>6

-----------------------------------------------------------------------------
(***************************************************************************)
(* Its lists: every node after those that have an edge to it.              *)
(***************************************************************************)

\* A list without repetition, in which the targets of each come after it.
InOrder(g, s) ==
  /\ s \in Seq(Module)
  /\ \A i, j \in 1 .. Len(s) : s[i] = s[j] => i = j
  /\ \A i \in 1 .. Len(s) : \A x : HasEdge(g, s[i], x) => \E j \in i + 1 .. Len(s) : s[j] = x

\* What is in a list.
LEMMA InList ==
  ASSUME NEW s \in Seq(Module)
  PROVE  /\ ToSet(s) \in SUBSET Module
         /\ \A x : x \in ToSet(s) <=> \E i \in 1 .. Len(s) : s[i] = x
<1>1. DOMAIN s = 1 .. Len(s) /\ \A i \in 1 .. Len(s) : s[i] \in Module
  OBVIOUS
<1> QED
  BY <1>1 DEF ToSet

\* A node is put in front of a list that holds its targets.
LEMMA PutInFront ==
  ASSUME NEW g, NEW s, InOrder(g, s), NEW n \in Module, n \notin ToSet(s),
         \A x : HasEdge(g, n, x) => x \in ToSet(s)
  PROVE  /\ InOrder(g, <<n>> \o s)
         /\ \A x : x \in ToSet(<<n>> \o s) <=> x = n \/ x \in ToSet(s)
         /\ Len(<<n>> \o s) >= 1 /\ (<<n>> \o s)[1] = n
<1> DEFINE r == <<n>> \o s
<1>0. /\ s \in Seq(Module)
      /\ \A i, j \in 1 .. Len(s) : s[i] = s[j] => i = j
      /\ \A i \in 1 .. Len(s) : \A x : HasEdge(g, s[i], x) => \E j \in i + 1 .. Len(s) : s[j] = x
  BY DEF InOrder
<1>1. /\ r \in Seq(Module) /\ Len(r) = Len(s) + 1 /\ r[1] = n
      /\ \A i \in 1 .. Len(s) : r[i + 1] = s[i]
  BY <1>0
<1>2. \A i \in 1 .. Len(r) : i # 1 => i - 1 \in 1 .. Len(s) /\ r[i] = s[i - 1]
  <2> SUFFICES ASSUME NEW i \in 1 .. Len(r), i # 1 PROVE i - 1 \in 1 .. Len(s) /\ r[i] = s[i - 1]
    OBVIOUS
  <2>1. i - 1 \in 1 .. Len(s) /\ (i - 1) + 1 = i
    BY <1>0, <1>1
  <2> HIDE DEF r
  <2>2. r[(i - 1) + 1] = s[i - 1]
    BY <1>1, <2>1
  <2> QED
    BY <2>1, <2>2
<1>3. Len(s) \in Nat
  BY <1>0
<1>4. \A x : x \in ToSet(s) <=> \E i \in 1 .. Len(s) : s[i] = x
  BY <1>0, InList
<1> HIDE DEF r
<1>5. \A i, j \in 1 .. Len(r) : r[i] = r[j] => i = j
  <2> SUFFICES ASSUME NEW i \in 1 .. Len(r), NEW j \in 1 .. Len(r), r[i] = r[j] PROVE i = j
    OBVIOUS
  <2>1. i = 1 => j = 1
    BY <1>1, <1>2, <1>4
  <2>2. j = 1 => i = 1
    BY <1>1, <1>2, <1>4
  <2>3. i # 1 /\ j # 1 => i - 1 = j - 1
    BY <1>0, <1>2
  <2> QED
    BY <1>1, <1>3, <2>1, <2>2, <2>3
<1>6. \A i \in 1 .. Len(r) : \A x : HasEdge(g, r[i], x) => \E j \in i + 1 .. Len(r) : r[j] = x
  <2> SUFFICES ASSUME NEW i \in 1 .. Len(r), NEW x, HasEdge(g, r[i], x)
               PROVE  \E j \in i + 1 .. Len(r) : r[j] = x
    OBVIOUS
  <2>1. CASE i = 1
    <3>1. x \in ToSet(s)
      BY <1>1, <2>1
    <3>2. PICK k \in 1 .. Len(s) : s[k] = x
      BY <1>4, <3>1
    <3>3. k + 1 \in i + 1 .. Len(r) /\ r[k + 1] = x
      BY <1>1, <1>3, <2>1, <3>2
    <3> QED
      BY <3>3
  <2>2. CASE i # 1
    <3>1. i - 1 \in 1 .. Len(s) /\ HasEdge(g, s[i - 1], x)
      BY <1>2, <2>2
    <3>2. PICK k \in (i - 1) + 1 .. Len(s) : s[k] = x
      BY <1>0, <3>1
    <3>3. k \in 1 .. Len(s) /\ k + 1 \in i + 1 .. Len(r)
      BY <1>1, <1>3, <3>1, <3>2
    <3>4. r[k + 1] = x
      BY <1>1, <3>2, <3>3
    <3> QED
      BY <3>3, <3>4
  <2> QED
    BY <2>1, <2>2
<1>7. ASSUME NEW x PROVE x \in ToSet(r) <=> x = n \/ x \in ToSet(s)
  <2>1. x \in ToSet(r) <=> \E i \in 1 .. Len(r) : r[i] = x
    BY <1>1, InList
  <2>2. (\E i \in 1 .. Len(r) : r[i] = x) => x = n \/ \E i \in 1 .. Len(s) : s[i] = x
    BY <1>1, <1>2
  <2>3. 1 \in 1 .. Len(r) /\ \A i \in 1 .. Len(s) : i + 1 \in 1 .. Len(r)
    BY <1>1, <1>3
  <2>4. x = n \/ (\E i \in 1 .. Len(s) : s[i] = x) => \E i \in 1 .. Len(r) : r[i] = x
    BY <1>1, <2>3
  <2> QED
    BY <1>4, <2>1, <2>2, <2>4
<1>8. InOrder(g, r)
  BY <1>1, <1>5, <1>6 DEF InOrder
<1> QED
  BY <1>1, <1>3, <1>7, <1>8 DEF r

\* What a target reaches, its source reaches too, and is not the source.
LEMMA ReachDown ==
  ASSUME NEW g \in Graphs, NEW rank \in Ranks, Ranked(g, rank), NEW n \in Module, NEW x, HasEdge(g, n, x)
  PROVE  /\ x \in Module /\ rank[x] \in Nat /\ rank[n] \in Nat /\ rank[x] < rank[n]
         /\ NodeSet(g, x) \subseteq NodeSet(g, n) /\ n \notin NodeSet(g, x)
<1>1. PICK i \in 1 .. Len(g[n]) : g[n][i].to = x
  BY HasEdgeIff
<1>2. x \in Module /\ rank[x] < rank[n]
  BY <1>1, EdgesToModules DEF Ranked
<1>3. \A m \in Module : rank[m] \in Nat
  BY DEF Ranks
<1>4. NodeSet(g, x) \subseteq NodeSet(g, n)
  <2>1. NodeSet(g, n) \in SUBSET Module /\ n \in NodeSet(g, n) /\ Closed(g, NodeSet(g, n))
    BY NodeSetIsLeast
  <2>2. x \in NodeSet(g, n)
    BY <1>1, <2>1 DEF Closed
  <2> QED
    BY <1>2, <2>1, <2>2, NodeSetIsLeast
<1>5. n \notin NodeSet(g, x)
  <2> DEFINE C == {m \in Module : rank[m] <= rank[x]}
  <2>1. Closed(g, C)
    <3> SUFFICES ASSUME NEW s \in C, NEW k \in 1 .. Len(g[s]) PROVE g[s][k].to \in C
      BY DEF Closed
    <3>1. g[s][k].to \in Module
      BY EdgesToModules
    <3>2. rank[g[s][k].to] < rank[s]
      BY DEF Ranked
    <3> QED
      BY <1>2, <1>3, <3>1, <3>2
  <2>2. C \in SUBSET Module /\ x \in C /\ n \notin C
    BY <1>2, <1>3
  <2> HIDE DEF C
  <2>3. NodeSet(g, x) \subseteq C
    BY <1>2, <2>1, <2>2, NodeSetIsLeast
  <2> QED
    BY <2>2, <2>3
<1> QED
  BY <1>2, <1>3, <1>4, <1>5

\* What is asked of a call, and what it returns then.
Ready(g, rank, v) == InOrder(g, v.list) /\ \A a \in v.gray : rank[v.node] < rank[a]

Answers(g, v, r) ==
  /\ InOrder(g, r)
  /\ ToSet(v.list) \subseteq ToSet(r) /\ v.node \in ToSet(r)
  /\ ToSet(r) \subseteq ToSet(v.list) \cup NodeSet(g, v.node)
  /\ v.node \notin ToSet(v.list) => Len(r) >= 1 /\ r[1] = v.node

\* The children of a node are the nodes it has edges to.
Children2(g, ch) == \A n \in Module : \A x : x \in ToSet(ch[n]) <=> HasEdge(g, n, x)

\* One call, when the calls of lower rank return what they should.
LEMMA CallAnswers ==
  ASSUME NEW g \in Graphs, NEW rank \in Ranks, Ranked(g, rank), NEW ch \in [Module -> Seq(Module)],
         Children2(g, ch), NEW f \in Sorting(ch), NEW v \in Calls, Ready(g, rank, v),
         \A u \in Calls : rank[u.node] < rank[v.node] /\ Ready(g, rank, u) => Answers(g, u, f[u])
  PROVE  Answers(g, v, f[v])
<1> DEFINE w == ch[v.node]
           n == Len(w)
           N == NodeSet(g, v.node)
<1>1. v.node \in Module /\ v.list \in Seq(Module) /\ v.gray \in SUBSET Module
  BY CallFacts
<1>2. w \in Seq(Module) /\ n \in Nat /\ \A i \in 1 .. n : w[i] \in Module /\ HasEdge(g, v.node, w[i])
  <2>1. w \in Seq(Module)
    BY <1>1
  <2> HIDE DEF w
  <2>2. \A x : x \in ToSet(w) <=> \E i \in 1 .. Len(w) : w[i] = x
    BY <2>1, InList
  <2>3. \A x : x \in ToSet(w) <=> HasEdge(g, v.node, x)
    BY <1>1 DEF Children2, w
  <2> QED
    BY <2>1, <2>2, <2>3
<1>3. \A m \in Module : rank[m] \in Nat
  BY DEF Ranks
<1>4. f \in [Calls -> Seq(Module)] /\ f[v] = Returns(f, v, w)
  BY DEF Sorting
<1>5. N \in SUBSET Module /\ v.node \in N
  BY <1>1, NodeSetIsLeast
<1>6. InOrder(g, v.list) /\ \A a \in v.gray : rank[v.node] < rank[a]
  BY DEF Ready
<1>7. v.node \notin v.gray
  BY <1>1, <1>3, <1>6
<1>8. CASE v.node \in ToSet(v.list)
  <2>1. f[v] = v.list
    BY <1>4, <1>8 DEF Returns
  <2> QED
    BY <1>6, <1>8, <2>1 DEF Answers
<1>9. CASE v.node \notin ToSet(v.list)
  <2> DEFINE G == v.gray \cup {v.node}
  <2>1. \E d \in Passed(f, v, w) : Done(f, v, w)[Len(w)] = d[Len(w)]
    <3>1. \A u \in Calls : u.gray = v.gray \cup {v.node} => f[u] = f[u]
      OBVIOUS
    <3> HIDE DEF w
    <3> QED
      BY <1>2, <1>4, <3>1, DoneIsPassed, Zenon
  <2>2. PICK d \in Passed(f, v, w) : Done(f, v, w)[Len(w)] = d[Len(w)]
    BY <2>1
  <2>3. f[v] = <<v.node>> \o d[n]
    BY <1>4, <1>7, <1>9, <2>2, Zenon DEF Returns
  <2>4. d[0] = v.list /\ \A i \in 1 .. n : d[i] = f[Call(w[i], d[i - 1], G)]
    BY DEF Passed
  <2> DEFINE Mid(i) == /\ InOrder(g, d[i]) /\ ToSet(v.list) \subseteq ToSet(d[i])
                       /\ \A k \in 1 .. i : w[k] \in ToSet(d[i])
                       /\ ToSet(d[i]) \subseteq ToSet(v.list) \cup (N \ {v.node})
             S == {i \in Nat : Mid(i)}
  <2> HIDE DEF w, n, N
  <2>5. 0 \in S
    BY <1>6, <2>4
  <2>6. ASSUME NEW i \in 1 .. n, i - 1 \in S PROVE i \in S
    <3> DEFINE u == Call(w[i], d[i - 1], G)
    <3>1. Mid(i - 1) /\ i \in Nat
      BY <2>6
    <3>2. d[i - 1] \in Seq(Module)
      BY <3>1 DEF InOrder
    <3>3. /\ rank[w[i]] < rank[v.node] /\ rank[w[i]] \in Nat /\ rank[v.node] \in Nat
          /\ NodeSet(g, w[i]) \subseteq N /\ v.node \notin NodeSet(g, w[i])
      BY <1>1, <1>2, ReachDown DEF N
    <3>4. u \in Calls /\ u.node = w[i] /\ u.list = d[i - 1] /\ u.gray = G
      <4>1. w[i] \in Module /\ G \in SUBSET Module
        BY <1>1, <1>2
      <4> HIDE DEF G
      <4> QED
        BY <3>2, <4>1, CallFacts
    <3>5. Ready(g, rank, u)
      <4>1. \A a \in G : rank[w[i]] < rank[a]
        BY <1>1, <1>3, <1>6, <3>3
      <4> HIDE DEF u, G, Mid
      <4>2. InOrder(g, u.list)
        BY <3>1, <3>4 DEF Mid
      <4> QED
        BY <3>4, <4>1, <4>2 DEF Ready
    <3>6. d[i] = f[u]
      BY <2>4
    <3> HIDE DEF u, G
    <3>7. Answers(g, u, d[i])
      BY <3>3, <3>4, <3>5, <3>6
    <3>8. /\ InOrder(g, d[i]) /\ ToSet(d[i - 1]) \subseteq ToSet(d[i]) /\ w[i] \in ToSet(d[i])
          /\ ToSet(d[i]) \subseteq ToSet(d[i - 1]) \cup NodeSet(g, w[i])
      BY <3>4, <3>7 DEF Answers
    <3>9. \A k \in 1 .. i : w[k] \in ToSet(d[i])
      <4> SUFFICES ASSUME NEW k \in 1 .. i PROVE w[k] \in ToSet(d[i])
        OBVIOUS
      <4>1. k = i \/ k \in 1 .. i - 1
        OBVIOUS
      <4> QED
        BY <3>1, <3>8, <4>1
    <3>10. Mid(i)
      BY <3>1, <3>3, <3>8, <3>9
    <3> QED
      BY <3>1, <3>10
  <2>7. \A i \in 0 .. n : i \in S
    <3> HIDE DEF S
    <3> QED
      BY <1>2, <2>5, <2>6, IntervalInduction
  <2>8. Mid(n)
    BY <1>2, <2>7
  <2>9. \A x : HasEdge(g, v.node, x) => x \in ToSet(d[n])
    <3>1. \A x : HasEdge(g, v.node, x) => \E k \in 1 .. n : w[k] = x
      <4>1. \A x : x \in ToSet(w) <=> \E i \in 1 .. Len(w) : w[i] = x
        BY <1>2, InList
      <4>2. \A x : x \in ToSet(w) <=> HasEdge(g, v.node, x)
        BY <1>1 DEF Children2, w
      <4> QED
        BY <4>1, <4>2 DEF n
    <3> QED
      BY <2>8, <3>1
  <2>10. v.node \notin ToSet(d[n])
    BY <1>9, <2>8
  <2> DEFINE e == d[n]
  <2>11. /\ InOrder(g, e) /\ ToSet(v.list) \subseteq ToSet(e)
         /\ ToSet(e) \subseteq ToSet(v.list) \cup (N \ {v.node})
    BY <2>8
  <2>12. v.node \notin ToSet(e) /\ \A x : HasEdge(g, v.node, x) => x \in ToSet(e)
    BY <2>9, <2>10
  <2> HIDE DEF e, S, Mid
  <2>13. /\ InOrder(g, <<v.node>> \o e)
         /\ \A x : x \in ToSet(<<v.node>> \o e) <=> x = v.node \/ x \in ToSet(e)
         /\ Len(<<v.node>> \o e) >= 1 /\ (<<v.node>> \o e)[1] = v.node
    BY <1>1, <2>11, <2>12, PutInFront
  <2>14. f[v] = <<v.node>> \o e
    BY <2>3 DEF e
  <2> DEFINE r == <<v.node>> \o e
  <2>15. f[v] = r /\ InOrder(g, r) /\ Len(r) >= 1 /\ r[1] = v.node
         /\ \A x : x \in ToSet(r) <=> x = v.node \/ x \in ToSet(e)
    BY <2>13, <2>14
  <2> HIDE DEF r
  <2>16. /\ ToSet(v.list) \subseteq ToSet(r) /\ v.node \in ToSet(r)
         /\ ToSet(r) \subseteq ToSet(v.list) \cup N
    BY <1>5, <2>11, <2>15
  <2> QED
    BY <2>15, <2>16 DEF Answers, N
<1> QED
  BY <1>8, <1>9

\* All calls.
LEMMA SortAnswers ==
  ASSUME NEW g \in Graphs, NEW rank \in Ranks, Ranked(g, rank), NEW ch \in [Module -> Seq(Module)],
         Children2(g, ch), NEW f \in Sorting(ch)
  PROVE  \A v \in Calls : Ready(g, rank, v) => Answers(g, v, f[v])
<1> DEFINE S == {k \in Nat : \A v \in Calls : rank[v.node] < k /\ Ready(g, rank, v) => Answers(g, v, f[v])}
<1>1. \A v \in Calls : rank[v.node] \in Nat
  BY CallFacts DEF Ranks
<1>2. 0 \in S
  BY <1>1
<1>3. ASSUME NEW k \in Nat, k \in S PROVE k + 1 \in S
  <2> SUFFICES ASSUME NEW v \in Calls, rank[v.node] < k + 1, Ready(g, rank, v) PROVE Answers(g, v, f[v])
    OBVIOUS
  <2>1. ASSUME NEW u \in Calls, rank[u.node] < rank[v.node], Ready(g, rank, u) PROVE Answers(g, u, f[u])
    <3>1. rank[u.node] < k
      BY <1>1, <2>1
    <3> QED
      BY <1>3, <2>1, <3>1
  <2> HIDE DEF S
  <2> QED
    BY <2>1, CallAnswers
<1>4. \A k \in Nat : k \in S
  <2> HIDE DEF S
  <2> QED
    BY <1>2, <1>3, NatSetInduction
<1>5. ASSUME NEW v \in Calls, Ready(g, rank, v) PROVE Answers(g, v, f[v])
  <2>1. rank[v.node] + 1 \in S /\ rank[v.node] < rank[v.node] + 1
    <3> HIDE DEF S
    <3> QED
      BY <1>1, <1>4
  <2> QED
    BY <1>5, <2>1
<1> QED
  BY <1>5

\* What is sorted is what is reached, the first node first, users before what they use.
LEMMA SortFacts ==
  ASSUME NEW g \in Graphs, Acyclic(g), NEW prio, NEW n \in Module,
         \A s \in Module : \A x : HasEdge(g, s, x) => prio[x] \in Int
  PROVE  LET r == TopologicalSort(g, prio, n)
         IN  InOrder(g, r) /\ ToSet(r) = NodeSet(g, n) /\ Len(r) >= 1 /\ r[1] = n
<1> DEFINE ch == [x \in Module |-> Children(g, prio, x)]
           v == Call(n, <<>>, {})
           r == TopologicalSort(g, prio, n)
<1>1. ASSUME NEW m \in Module
      PROVE  ch[m] \in Seq(Module) /\ \A x : x \in ToSet(ch[m]) <=> HasEdge(g, m, x)
  <2> DEFINE c == Children(g, prio, m)
  <2>1. c \in Seq(Module) /\ \A x : (\E k \in 1 .. Len(c) : c[k] = x) <=> HasEdge(g, m, x)
    BY ChildrenAre
  <2>2. ch[m] = c
    OBVIOUS
  <2> HIDE DEF c, ch
  <2> QED
    BY <2>1, <2>2, InList
<1>2. ch \in [Module -> Seq(Module)] /\ \A x \in Module : Children(g, prio, x) = ch[x]
  BY <1>1
<1> HIDE DEF ch
<1>3. Children2(g, ch)
  BY <1>1 DEF Children2
<1>4. PICK f \in Sorting(ch) : r = f[v]
  BY <1>2, SortReturns
<1>5. v \in Calls /\ v.node = n /\ v.list = <<>> /\ v.gray = {}
  <2> DEFINE empty == <<>>
  <2>1. empty \in Seq(Module) /\ {} \in SUBSET Module
    OBVIOUS
  <2> HIDE DEF empty
  <2>2. Call(n, empty, {}) \in Calls
    BY <2>1, CallFacts
  <2>3. Call(n, empty, {}).node = n /\ Call(n, empty, {}).list = empty /\ Call(n, empty, {}).gray = {}
    BY CallFacts
  <2> QED
    BY <2>2, <2>3 DEF empty
<1> HIDE DEF v, r
<1>6. PICK rank \in Ranks : Ranked(g, rank)
  BY DEF Acyclic
<1>7. Ready(g, rank, v)
  <2>1. InOrder(g, <<>>)
    BY DEF InOrder
  <2> QED
    BY <1>5, <2>1 DEF Ready
<1>8. Answers(g, v, r)
  BY <1>2, <1>3, <1>4, <1>5, <1>6, <1>7, SortAnswers
<1>9. ToSet(<<>>) = {}
  BY DEF ToSet
<1>10. InOrder(g, r) /\ n \in ToSet(r) /\ ToSet(r) \subseteq NodeSet(g, n) /\ Len(r) >= 1 /\ r[1] = n
  BY <1>5, <1>8, <1>9 DEF Answers
<1>11. NodeSet(g, n) \subseteq ToSet(r)
  <2>1. r \in Seq(Module) /\ \A i \in 1 .. Len(r) : \A x : HasEdge(g, r[i], x) => \E j \in i + 1 .. Len(r) : r[j] = x
    BY <1>10 DEF InOrder
  <2>2. ToSet(r) \in SUBSET Module /\ \A x : x \in ToSet(r) <=> \E i \in 1 .. Len(r) : r[i] = x
    BY <2>1, InList
  <2>3. Closed(g, ToSet(r))
    <3> SUFFICES ASSUME NEW s \in ToSet(r), NEW k \in 1 .. Len(g[s]) PROVE g[s][k].to \in ToSet(r)
      BY DEF Closed
    <3>1. HasEdge(g, s, g[s][k].to)
      BY <2>2, HasEdgeIff
    <3>2. PICK i \in 1 .. Len(r) : r[i] = s
      BY <2>2
    <3>3. PICK j \in i + 1 .. Len(r) : r[j] = g[s][k].to
      BY <2>1, <3>1, <3>2
    <3>4. j \in 1 .. Len(r)
      BY <2>1
    <3> QED
      BY <2>2, <3>3, <3>4
  <2> QED
    BY <1>10, <2>2, <2>3, NodeSetIsLeast
<1> QED
  BY <1>10, <1>11 DEF r

-----------------------------------------------------------------------------
(***************************************************************************)
(* The edges of a node, as sets, when edges are added, dropped and         *)
(* replaced.                                                               *)
(***************************************************************************)

\* The edges of a node.
LEMMA RowFacts ==
  ASSUME NEW g \in Graphs, NEW s \in Module
  PROVE  /\ g[s] \in Seq(Edge) /\ ToSet(g[s]) \subseteq Edge
         /\ \A e \in ToSet(g[s]) : e.to \in Module /\ e.color \in Color
         /\ \A e : e \in ToSet(g[s]) <=> \E i \in 1 .. Len(g[s]) : g[s][i] = e
         /\ \A t : HasEdge(g, s, t) <=> \E e \in ToSet(g[s]) : e.to = t
<1>1. g[s] \in Seq(Edge) /\ DOMAIN g[s] = 1 .. Len(g[s]) /\ \A i \in 1 .. Len(g[s]) : g[s][i] \in Edge
  BY DEF Graphs
<1>2. \A e : e \in ToSet(g[s]) <=> \E i \in 1 .. Len(g[s]) : g[s][i] = e
  BY <1>1 DEF ToSet
<1>3. \A t : HasEdge(g, s, t) <=> \E e \in ToSet(g[s]) : e.to = t
  <2>1. \A t : HasEdge(g, s, t) <=> \E i \in 1 .. Len(g[s]) : g[s][i].to = t
    BY HasEdgeIff
  <2> QED
    BY <1>2, <2>1
<1>4. \A e \in Edge : e.to \in Module /\ e.color \in Color
  BY DEF Edge
<1> QED
  BY <1>1, <1>2, <1>3, <1>4

\* No two edges to one node.
Distinct(row) == \A i, j \in 1 .. Len(row) : row[i].to = row[j].to => i = j

\* No two edges from one node to another.
Simple(g) == \A s \in Module : Distinct(g[s])

\* One more edge at the end.
LEMMA AppendedRow ==
  ASSUME NEW row \in Seq(Edge), NEW e \in Edge
  PROVE  /\ Append(row, e) \in Seq(Edge)
         /\ \A x : x \in ToSet(Append(row, e)) <=> x \in ToSet(row) \/ x = e
         /\ Distinct(row) /\ (\A x \in ToSet(row) : x.to # e.to) => Distinct(Append(row, e))
<1> DEFINE new == Append(row, e)
<1>1. /\ new \in Seq(Edge) /\ Len(new) = Len(row) + 1 /\ Len(row) \in Nat /\ new[Len(row) + 1] = e
      /\ \A i \in 1 .. Len(row) : new[i] = row[i]
      /\ DOMAIN new = 1 .. Len(new) /\ DOMAIN row = 1 .. Len(row)
  OBVIOUS
<1> HIDE DEF new
<1>2. \A i \in 1 .. Len(new) : i \in 1 .. Len(row) \/ i = Len(row) + 1
  BY <1>1
<1>3. ASSUME NEW x PROVE x \in ToSet(new) <=> x \in ToSet(row) \/ x = e
  <2>1. x \in ToSet(new) <=> \E i \in 1 .. Len(new) : new[i] = x
    BY <1>1 DEF ToSet
  <2>2. x \in ToSet(row) <=> \E i \in 1 .. Len(row) : row[i] = x
    BY <1>1 DEF ToSet
  <2>3. 1 .. Len(row) \subseteq 1 .. Len(new) /\ Len(row) + 1 \in 1 .. Len(new)
    BY <1>1
  <2> QED
    BY <1>1, <1>2, <2>1, <2>2, <2>3
<1>4. ASSUME Distinct(row), \A x \in ToSet(row) : x.to # e.to PROVE Distinct(new)
  <2>1. \A i \in 1 .. Len(row) : row[i].to # e.to
    BY <1>1, <1>4 DEF ToSet
  <2> SUFFICES ASSUME NEW i \in 1 .. Len(new), NEW j \in 1 .. Len(new), new[i].to = new[j].to PROVE i = j
    BY DEF Distinct
  <2>2. CASE i \in 1 .. Len(row) /\ j \in 1 .. Len(row)
    BY <1>1, <1>4, <2>2 DEF Distinct
  <2>3. CASE i = Len(row) + 1 /\ j \in 1 .. Len(row)
    BY <1>1, <2>1, <2>3
  <2>4. CASE j = Len(row) + 1 /\ i \in 1 .. Len(row)
    BY <1>1, <2>1, <2>4
  <2> QED
    BY <1>2, <2>2, <2>3, <2>4
<1> QED
  BY <1>1, <1>3, <1>4 DEF new

\* Dropping edges keeps the others, in their order.
LEMMA DroppedRow ==
  ASSUME NEW edges \in Seq(Edge), NEW T
  PROVE  /\ \A e : e \in ToSet(EdgesNotTo(edges, T)) <=> e \in ToSet(edges) /\ e.to \notin T
         /\ Distinct(edges) => Distinct(EdgesNotTo(edges, T))
<1> DEFINE N == Len(edges)
           Upto(f, i) == /\ \A e : e \in ToSet(f[i]) <=> \E k \in 1 .. i : edges[k] = e /\ e.to \notin T
                         /\ Distinct(edges) => Distinct(f[i])
<1>1. PICK f \in Dropping(edges, T) : EdgesNotTo(edges, T) = f[N]
  BY EdgesNotToRuns
<1>2. /\ f \in [0 .. N -> Seq(Edge)] /\ f[0] = <<>>
      /\ \A i \in 1 .. N : f[i] = IF edges[i].to \in T THEN f[i - 1] ELSE Append(f[i - 1], edges[i])
  BY DEF Dropping
<1>3. N \in Nat /\ DOMAIN edges = 1 .. N /\ \A i \in 1 .. N : edges[i] \in Edge /\ i - 1 \in 0 .. N /\ i \in 0 .. N
  OBVIOUS
<1> HIDE DEF N
<1> DEFINE S == {i \in 0 .. N : Upto(f, i)}
<1>4. 0 \in S
  <2>1. ToSet(<<>>) = {} /\ Distinct(<<>>)
    BY DEF ToSet, Distinct
  <2> QED
    BY <1>2, <1>3, <2>1
<1>5. ASSUME NEW i \in 1 .. N, i - 1 \in S PROVE i \in S
  <2> DEFINE r == f[i - 1]
  <2>1. /\ r \in Seq(Edge) /\ edges[i] \in Edge /\ i \in 0 .. N
        /\ \A e : e \in ToSet(r) <=> \E k \in 1 .. i - 1 : edges[k] = e /\ e.to \notin T
        /\ Distinct(edges) => Distinct(r)
    BY <1>2, <1>3, <1>5
  <2>2. f[i] = IF edges[i].to \in T THEN r ELSE Append(r, edges[i])
    BY <1>2
  <2> HIDE DEF r
  <2>3. \A k \in 1 .. i : k = i \/ k \in 1 .. i - 1
    OBVIOUS
  <2>4. \A k \in 1 .. i - 1 : k \in 1 .. i /\ k \in 1 .. N /\ k # i
    BY <1>3
  <2>5. i \in 1 .. i
    OBVIOUS
  <2>6. CASE edges[i].to \in T
    <3>1. \A e : e \in ToSet(r) <=> \E k \in 1 .. i : edges[k] = e /\ e.to \notin T
      BY <2>1, <2>3, <2>4, <2>6
    <3> QED
      BY <2>1, <2>2, <2>6, <3>1
  <2>7. CASE edges[i].to \notin T
    <3>1. /\ \A x : x \in ToSet(Append(r, edges[i])) <=> x \in ToSet(r) \/ x = edges[i]
          /\ Distinct(r) /\ (\A x \in ToSet(r) : x.to # edges[i].to) => Distinct(Append(r, edges[i]))
      BY <2>1, AppendedRow
    <3>2. \A e : e \in ToSet(Append(r, edges[i])) <=> \E k \in 1 .. i : edges[k] = e /\ e.to \notin T
      BY <2>1, <2>3, <2>4, <2>5, <2>7, <3>1
    <3>3. Distinct(edges) => \A x \in ToSet(r) : x.to # edges[i].to
      <4> SUFFICES ASSUME Distinct(edges), NEW x \in ToSet(r), x.to = edges[i].to PROVE FALSE
        OBVIOUS
      <4>1. PICK k \in 1 .. i - 1 : edges[k] = x
        BY <2>1
      <4> QED
        BY <2>4, <4>1 DEF Distinct, N
    <3>4. f[i] = Append(r, edges[i])
      BY <2>2, <2>7
    <3>5. Upto(f, i)
      BY <2>1, <3>1, <3>2, <3>3, <3>4
    <3> QED
      BY <2>1, <3>5
  <2> QED
    BY <2>6, <2>7
<1>6. \A i \in 0 .. N : i \in S
  <2> HIDE DEF S
  <2> QED
    BY <1>3, <1>4, <1>5, IntervalInduction
<1>7. Upto(f, N)
  BY <1>3, <1>6
<1>8. ASSUME NEW e PROVE e \in ToSet(edges) <=> \E k \in 1 .. N : edges[k] = e
  BY <1>3 DEF ToSet
<1> QED
  BY <1>1, <1>7, <1>8

\* The edges of a node after one is added.
LEMMA AddedRow ==
  ASSUME NEW g \in Graphs, NEW s \in Module, NEW t \in Module, NEW c \in Color
  PROVE  /\ \A e : e \in ToSet(AddEdge(g, s, t, c)[s]) <=>
                     e = [to |-> t, color |-> c] \/ (e \in ToSet(g[s]) /\ e.to # t)
         /\ Distinct(g[s]) => Distinct(AddEdge(g, s, t, c)[s])
<1> DEFINE h == AddEdge(g, s, t, c)
           edge == [to |-> t, color |-> c]
<1>1. h \in Graphs /\ edge \in Edge /\ edge.to = t
  BY AddEdgeFacts DEF Edge
<1>2. /\ \A e : e \in ToSet(g[s]) <=> \E i \in 1 .. Len(g[s]) : g[s][i] = e
      /\ g[s] \in Seq(Edge)
  BY RowFacts
<1>3. CASE HasEdge(g, s, t)
  <2>1. /\ Len(h[s]) = Len(g[s])
        /\ \A i \in 1 .. Len(g[s]) : h[s][i] = IF g[s][i].to = t THEN edge ELSE g[s][i]
    BY <1>3, AddEdgeFacts
  <2>2. \A e : e \in ToSet(h[s]) <=> \E i \in 1 .. Len(h[s]) : h[s][i] = e
    <3> HIDE DEF h
    <3> QED
      BY <1>1, RowFacts
  <2>3. PICK k \in 1 .. Len(g[s]) : g[s][k].to = t
    BY <1>3, HasEdgeIff
  <2> HIDE DEF h, edge
  <2>4. ASSUME NEW e PROVE e \in ToSet(h[s]) <=> e = edge \/ (e \in ToSet(g[s]) /\ e.to # t)
    BY <1>1, <1>2, <2>1, <2>2, <2>3
  <2>5. ASSUME Distinct(g[s]) PROVE Distinct(h[s])
    <3>1. \A i \in 1 .. Len(g[s]) : h[s][i].to = g[s][i].to
      BY <1>1, <2>1
    <3> QED
      BY <2>1, <2>5, <3>1 DEF Distinct
  <2> QED
    BY <2>4, <2>5 DEF h, edge
<1>4. CASE ~HasEdge(g, s, t)
  <2>1. h[s] = Append(g[s], edge)
    BY <1>4, AddEdgeFacts
  <2>2. \A x \in ToSet(g[s]) : x.to # t
    BY <1>4, RowFacts
  <2>3. /\ \A x : x \in ToSet(Append(g[s], edge)) <=> x \in ToSet(g[s]) \/ x = edge
        /\ Distinct(g[s]) /\ (\A x \in ToSet(g[s]) : x.to # edge.to) => Distinct(Append(g[s], edge))
    <3> HIDE DEF edge
    <3> QED
      BY <1>1, <1>2, AppendedRow
  <2> HIDE DEF h, edge
  <2>4. ASSUME NEW e PROVE e \in ToSet(h[s]) <=> e = edge \/ (e \in ToSet(g[s]) /\ e.to # t)
    BY <2>1, <2>2, <2>3
  <2>5. Distinct(g[s]) => Distinct(h[s])
    BY <1>1, <2>1, <2>2, <2>3
  <2> QED
    BY <2>4, <2>5 DEF h, edge
<1> QED
  BY <1>3, <1>4

\* The edges of a node after it has taken over others.
LEMMA TakenRow ==
  ASSUME NEW g \in Graphs, NEW s \in Module, NEW edges \in Seq(Edge)
  PROVE  /\ AddEdges(g, s, edges) \in Graphs
         /\ ToSet(AddEdges(g, s, edges)[s]) \subseteq ToSet(g[s]) \cup ToSet(edges)
         /\ \A t : HasEdge(AddEdges(g, s, edges), s, t) <=>
                     HasEdge(g, s, t) \/ \E e \in ToSet(edges) : e.to = t
         /\ Distinct(g[s]) => Distinct(AddEdges(g, s, edges)[s])
<1>1. PICK f \in Adding(g, s, edges) : AddEdges(g, s, edges) = f[Len(edges)]
  BY AddEdgesRuns
<1> DEFINE N == Len(edges)
<1>2. /\ f \in [0 .. N -> Graphs] /\ f[0] = g
      /\ \A i \in 1 .. N : f[i] = AddEdge(f[i - 1], s, edges[i].to, edges[i].color)
  BY DEF Adding
<1>3. N \in Nat /\ DOMAIN edges = 1 .. N /\ \A i \in 1 .. N : edges[i] \in Edge /\ i - 1 \in 0 .. N /\ i \in 0 .. N
  OBVIOUS
<1>4. \A e : e \in ToSet(edges) <=> \E k \in 1 .. N : edges[k] = e
  BY <1>3 DEF ToSet
<1> HIDE DEF N
<1> DEFINE Upto(i) == /\ ToSet(f[i][s]) \subseteq ToSet(g[s]) \cup ToSet(edges)
                      /\ \A e \in ToSet(g[s]) : \E x \in ToSet(f[i][s]) : x.to = e.to
                      /\ \A k \in 1 .. i : \E x \in ToSet(f[i][s]) : x.to = edges[k].to
                      /\ Distinct(g[s]) => Distinct(f[i][s])
           S == {i \in 0 .. N : Upto(i)}
<1>5. 0 \in S
  BY <1>2, <1>3
<1>6. ASSUME NEW i \in 1 .. N, i - 1 \in S PROVE i \in S
  <2> DEFINE h == f[i - 1]
             t == edges[i].to
             c == edges[i].color
  <2>1. h \in Graphs /\ Upto(i - 1)
    BY <1>2, <1>3, <1>6
  <2>2. t \in Module /\ c \in Color /\ edges[i] = [to |-> t, color |-> c] /\ edges[i] \in ToSet(edges)
    <3>1. edges[i] \in Edge
      BY <1>3
    <3> QED
      BY <1>4, <3>1 DEF Edge
  <2>3. f[i] = AddEdge(h, s, t, c)
    BY <1>2
  <2> HIDE DEF h, t, c
  <2>4. /\ \A e : e \in ToSet(f[i][s]) <=> e = edges[i] \/ (e \in ToSet(h[s]) /\ e.to # t)
        /\ Distinct(h[s]) => Distinct(f[i][s])
    <3>1. h \in Graphs
      BY <2>1
    <3>2. /\ \A e : e \in ToSet(AddEdge(h, s, t, c)[s]) <=>
                      e = [to |-> t, color |-> c] \/ (e \in ToSet(h[s]) /\ e.to # t)
          /\ Distinct(h[s]) => Distinct(AddEdge(h, s, t, c)[s])
      BY <2>2, <3>1, AddedRow
    <3> QED
      BY <2>2, <2>3, <3>2
  <2>5. edges[i].to = t
    BY DEF t
  <2>6. \A x \in ToSet(h[s]) : \E y \in ToSet(f[i][s]) : y.to = x.to
    BY <2>4, <2>5
  <2>7. \A k \in 1 .. i : k = i \/ k \in 1 .. i - 1
    OBVIOUS
  <2>8. /\ ToSet(h[s]) \subseteq ToSet(g[s]) \cup ToSet(edges)
        /\ \A e \in ToSet(g[s]) : \E x \in ToSet(h[s]) : x.to = e.to
        /\ \A k \in 1 .. i - 1 : \E x \in ToSet(h[s]) : x.to = edges[k].to
        /\ Distinct(g[s]) => Distinct(h[s])
    BY <2>1 DEF h
  <2>9. ToSet(f[i][s]) \subseteq ToSet(g[s]) \cup ToSet(edges)
    BY <2>2, <2>4, <2>8
  <2>10. \A e \in ToSet(g[s]) : \E x \in ToSet(f[i][s]) : x.to = e.to
    BY <2>6, <2>8
  <2>11. \A k \in 1 .. i : \E x \in ToSet(f[i][s]) : x.to = edges[k].to
    BY <2>4, <2>6, <2>7, <2>8
  <2>12. Upto(i)
    BY <2>4, <2>8, <2>9, <2>10, <2>11
  <2> HIDE DEF Upto
  <2> QED
    BY <1>3, <2>12
<1>7. \A i \in 0 .. N : i \in S
  <2> HIDE DEF S
  <2> QED
    BY <1>3, <1>5, <1>6, IntervalInduction
<1>8. Upto(N) /\ f[N] \in Graphs
  BY <1>2, <1>3, <1>7
<1> DEFINE h == f[N]
<1>9. ASSUME NEW t
      PROVE  (\E x \in ToSet(h[s]) : x.to = t) <=> (\E x \in ToSet(g[s]) : x.to = t) \/ \E e \in ToSet(edges) : e.to = t
  BY <1>4, <1>8
<1>10. /\ \A t : HasEdge(h, s, t) <=> \E x \in ToSet(h[s]) : x.to = t
       /\ \A t : HasEdge(g, s, t) <=> \E x \in ToSet(g[s]) : x.to = t
  <2>1. h \in Graphs
    BY <1>8
  <2> HIDE DEF h
  <2> QED
    BY <2>1, RowFacts
<1>11. h = AddEdges(g, s, edges)
  BY <1>1 DEF N
<1> QED
  BY <1>8, <1>9, <1>10, <1>11

\* h is g, with the edges of p in the place of the edge from s to it.
TakesOver(g, s, p, h) ==
  /\ h \in Graphs
  /\ \A x \in Module : x # s => h[x] = g[x]
  /\ \A e \in ToSet(h[s]) : e.to # p /\ e \in ToSet(g[s]) \cup ToSet(g[p])
  /\ \A t : HasEdge(h, s, t) <=> t # p /\ (HasEdge(g, s, t) \/ HasEdge(g, p, t))
  /\ Distinct(g[s]) => Distinct(h[s])

\* That is what DeleteProxyEdge returns.
LEMMA ProxyRow ==
  ASSUME NEW g \in Graphs, NEW s \in Module, NEW p \in Module
  PROVE  TakesOver(g, s, p, DeleteProxyEdge(g, s, p))
<1> DEFINE a == AddEdges(g, s, g[p])
           h == DeleteProxyEdge(g, s, p)
           new == EdgesNotTo(a[s], {p})
<1>1. /\ g[p] \in Seq(Edge) /\ \A t : HasEdge(g, p, t) <=> \E e \in ToSet(g[p]) : e.to = t
  BY RowFacts
<1>2. /\ a \in Graphs
      /\ ToSet(a[s]) \subseteq ToSet(g[s]) \cup ToSet(g[p])
      /\ \A t : HasEdge(a, s, t) <=> HasEdge(g, s, t) \/ \E e \in ToSet(g[p]) : e.to = t
      /\ Distinct(g[s]) => Distinct(a[s])
  BY <1>1, TakenRow
<1>3. \A x \in Module : x # s => a[x] = g[x]
  BY <1>1, AddEdgesDeclare
<1>4. h = [a EXCEPT ![s] = new]
  BY DEF DeleteProxyEdge, DeleteEdge
<1>5. h \in Graphs
  BY DeleteProxyEdgeType
<1> HIDE DEF a, h
<1>6. a[s] \in Seq(Edge) /\ \A t : HasEdge(a, s, t) <=> \E e \in ToSet(a[s]) : e.to = t
  BY <1>2, RowFacts
<1>7. /\ \A e : e \in ToSet(new) <=> e \in ToSet(a[s]) /\ e.to # p
      /\ Distinct(a[s]) => Distinct(new)
  <2>1. /\ \A e : e \in ToSet(new) <=> e \in ToSet(a[s]) /\ e.to \notin {p}
        /\ Distinct(a[s]) => Distinct(new)
    BY <1>6, DroppedRow
  <2> HIDE DEF new
  <2> QED
    BY <2>1
<1> HIDE DEF new
<1>8. h[s] = new /\ \A x \in Module : x # s => h[x] = a[x]
  <2>1. DOMAIN a = Module
    BY <1>2 DEF Graphs
  <2> QED
    BY <1>4, <2>1
<1>9. \A t : HasEdge(h, s, t) <=> \E e \in ToSet(h[s]) : e.to = t
  BY <1>5, RowFacts
<1>10. \A x \in Module : x # s => h[x] = g[x]
  BY <1>3, <1>8
<1>11. \A e \in ToSet(h[s]) : e.to # p /\ e \in ToSet(g[s]) \cup ToSet(g[p])
  BY <1>2, <1>7, <1>8
<1>12. ASSUME NEW t PROVE HasEdge(h, s, t) <=> t # p /\ (HasEdge(g, s, t) \/ HasEdge(g, p, t))
  <2>1. HasEdge(h, s, t) <=> t # p /\ HasEdge(a, s, t)
    BY <1>6, <1>7, <1>8, <1>9
  <2>2. HasEdge(a, s, t) <=> HasEdge(g, s, t) \/ HasEdge(g, p, t)
    BY <1>1, <1>2
  <2> QED
    BY <2>1, <2>2
<1>13. Distinct(g[s]) => Distinct(h[s])
  BY <1>2, <1>7, <1>8
<1>14. TakesOver(g, s, p, h)
  BY <1>5, <1>10, <1>11, <1>12, <1>13, Zenon DEF TakesOver
<1> QED
  BY <1>14 DEF h

\* A red edge from s to p.
Red(g, s, p) == \E e \in ToSet(g[s]) : e.to = p /\ e.color = "red"

\* A scan keeps what the replacing of a red edge keeps, and changes the graph
\* if there is one.
LEMMA ScanKeeps ==
  ASSUME NEW g \in Graphs, NEW s \in Module, Distinct(g[s]), NEW K, g \in K,
         \A h \in K : \A p \in Module : h \in Graphs /\ Red(h, s, p) => DeleteProxyEdge(h, s, p) \in K
  PROVE  /\ DeleteProxiesOf(g, s) \in K
         /\ DeleteProxiesOf(g, s) = g => \A e \in ToSet(g[s]) : e.color # "red"
<1> DEFINE n == Len(g[s])
           t(i) == g[s][i].to
           Same(h, i) == h = g /\ \A k \in 1 .. i : g[s][k].color # "red"
           Less(h) == \E x : HasEdge(g, s, x) /\ ~HasEdge(h, s, x)
           Upto(h, i) == /\ h \in K /\ h \in Graphs
                         /\ \A k \in i + 1 .. n : HasEdge(h, s, t(k))
                         /\ Same(h, i) \/ Less(h)
<1>1. PICK f \in Replacing(g, s) : DeleteProxiesOf(g, s) = f[n]
  BY DeleteProxiesRuns
<1>2. f[0] = g /\ \A i \in 1 .. n : f[i] = Replaced(f[i - 1], s, t(i))
  BY DEF Replacing
<1>3. /\ n \in Nat /\ \A i \in 1 .. n : i - 1 \in 0 .. n /\ i \in 0 .. n
      /\ g[s] \in Seq(Edge)
      /\ \A e : e \in ToSet(g[s]) <=> \E i \in 1 .. n : g[s][i] = e
  <2>1. /\ g[s] \in Seq(Edge)
        /\ \A e : e \in ToSet(g[s]) <=> \E i \in 1 .. Len(g[s]) : g[s][i] = e
    BY RowFacts
  <2> QED
    BY <2>1
<1>4. \A i \in 1 .. n : t(i) \in Module /\ HasEdge(g, s, t(i))
  BY EdgesToModules, HasEdgeIff
<1>5. \A i, k \in 1 .. n : t(i) = t(k) => i = k
  BY DEF Distinct
<1> HIDE DEF n, t
<1> DEFINE S == {i \in 0 .. n : Upto(f[i], i)}
<1>6. 0 \in S
  <2>1. \A k \in 0 + 1 .. n : k \in 1 .. n
    OBVIOUS
  <2>2. Same(g, 0)
    OBVIOUS
  <2>3. Upto(g, 0)
    BY <1>4, <2>1, <2>2
  <2> HIDE DEF Upto
  <2> QED
    BY <1>2, <1>3, <2>3
<1>7. ASSUME NEW i \in 1 .. n, i - 1 \in S PROVE i \in S
  <2> DEFINE h == f[i - 1]
             p == t(i)
  <2>1. Upto(h, i - 1)
    BY <1>7
  <2>2. f[i] = Replaced(h, s, p)
    BY <1>2
  <2>3. p \in Module /\ HasEdge(g, s, p) /\ \A k \in 1 .. n : t(k) = p => k = i
    BY <1>4, <1>5
  <2>4. h \in K /\ h \in Graphs /\ HasEdge(h, s, p)
    <3>1. i \in (i - 1) + 1 .. n
      OBVIOUS
    <3> QED
      BY <2>1, <3>1
  <2>5. \A k \in i + 1 .. n : k \in 1 .. n /\ k # i /\ k \in (i - 1) + 1 .. n
    BY <1>3
  <2>6. \A k \in i + 1 .. n : HasEdge(h, s, t(k)) /\ t(k) # p
    BY <2>1, <2>3, <2>5
  <2> HIDE DEF h
  <2> DEFINE e0 == CHOOSE e \in ToSet(h[s]) : e.to = p
  <2>7. e0 \in ToSet(h[s]) /\ e0.to = p /\ ColorOf(h, s, p) = e0.color
    <3>1. \E e \in ToSet(h[s]) : e.to = p
      BY <2>3, <2>4, RowFacts
    <3>2. ColorOf(h, s, p) = e0.color
      BY DEF ColorOf
    <3> QED
      BY <3>1, <3>2
  <2> HIDE DEF e0, p
  <2>8. CASE e0.color = "red"
    <3>1. f[i] = DeleteProxyEdge(h, s, p)
      BY <2>2, <2>7, <2>8 DEF Replaced
    <3>2. TakesOver(h, s, p, f[i])
      BY <2>3, <2>4, <3>1, ProxyRow
    <3>3. f[i] \in Graphs /\ \A x : HasEdge(f[i], s, x) <=> x # p /\ (HasEdge(h, s, x) \/ HasEdge(h, p, x))
      BY <3>2 DEF TakesOver
    <3>4. f[i] \in K
      <4>1. Red(h, s, p)
        BY <2>7, <2>8 DEF Red
      <4> QED
        BY <2>3, <2>4, <3>1, <4>1
    <3>5. Less(f[i])
      BY <2>3, <3>3
    <3>6. \A k \in i + 1 .. n : HasEdge(f[i], s, t(k))
      BY <2>6, <3>3
    <3>7. Upto(f[i], i)
      BY <3>3, <3>4, <3>5, <3>6
    <3> HIDE DEF Upto
    <3> QED
      BY <1>3, <3>7
  <2>9. CASE e0.color # "red"
    <3>1. f[i] = h
      BY <2>2, <2>7, <2>9 DEF Replaced
    <3>2. Same(h, i - 1) => Same(h, i)
      <4> SUFFICES ASSUME Same(h, i - 1) PROVE Same(h, i)
        OBVIOUS
      <4>1. PICK k \in 1 .. n : g[s][k] = e0
        BY <1>3, <2>7
      <4>2. k = i
        BY <2>3, <2>7, <4>1 DEF t
      <4>3. \A j \in 1 .. i : j = i \/ j \in 1 .. i - 1
        OBVIOUS
      <4> QED
        BY <2>9, <4>1, <4>2, <4>3
    <3>3. Same(h, i) \/ Less(h)
      BY <2>1, <3>2
    <3>4. Upto(h, i)
      BY <2>4, <2>6, <3>3
    <3> HIDE DEF Upto
    <3> QED
      BY <1>3, <3>1, <3>4
  <2> QED
    BY <2>8, <2>9
<1>8. \A i \in 0 .. n : i \in S
  <2> HIDE DEF S
  <2> QED
    BY <1>3, <1>6, <1>7, IntervalInduction
<1>9. Upto(f[n], n)
  BY <1>3, <1>8
<1>10. ASSUME f[n] = g PROVE \A e \in ToSet(g[s]) : e.color # "red"
  <2>1. Same(g, n)
    BY <1>9, <1>10
  <2> QED
    BY <1>3, <2>1
<1> QED
  BY <1>1, <1>9, <1>10

-----------------------------------------------------------------------------
(***************************************************************************)
(* What is below a module and what is inside it, as least sets.            *)
(***************************************************************************)

\* The lists are lists of modules.
LEMMA ListSets ==
  ASSUME ListsInv, NEW n \in Module
  PROVE  /\ ToSet(static[n]) \subseteq Module /\ ToSet(whole[n]) \subseteq Module
         /\ Libs(n) = ToSet(static[n]) \cup ToSet(whole[n])
<1>1. static[n] \in Seq(Module) /\ whole[n] \in Seq(Module)
  BY DEF ListsInv
<1>2. ToSet(static[n]) \subseteq Module
  BY <1>1, InList
<1>3. ToSet(whole[n]) \subseteq Module
  BY <1>1, InList
<1> QED
  BY <1>2, <1>3 DEF Libs

\* What is below a module: the least set that holds it and the libraries of
\* what it holds.
LEMMA BelowIsLeast ==
  ASSUME ListsInv, NEW n \in Module
  PROVE  /\ Below(n) \in SUBSET Module
         /\ n \in Below(n)
         /\ \A s \in Below(n) : Libs(s) \subseteq Below(n)
         /\ \A C \in SUBSET Module : n \in C /\ (\A s \in C : Libs(s) \subseteq C) => Below(n) \subseteq C
<1> DEFINE E == [s \in Module |-> Libs(s)]
<1>1. E \in [Module -> SUBSET Module] /\ \A s \in Module : E[s] = Libs(s)
  <2>1. \A s \in Module : Libs(s) \in SUBSET Module
    BY ListSets
  <2> QED
    BY <2>1
<1>2. Below(n) = ReachedFrom(E, n)
  BY DEF Below
<1> HIDE DEF E
<1>3. /\ ReachedFrom(E, n) \in SUBSET Module
      /\ n \in ReachedFrom(E, n)
      /\ \A s \in ReachedFrom(E, n) : E[s] \subseteq ReachedFrom(E, n)
      /\ \A C \in SUBSET Module :
           n \in C /\ (\A s \in C : E[s] \subseteq C) => ReachedFrom(E, n) \subseteq C
  BY <1>1, ReachIsLeast
<1>4. ASSUME NEW C \in SUBSET Module, n \in C, \A s \in C : Libs(s) \subseteq C PROVE Below(n) \subseteq C
  <2>1. \A s \in C : E[s] \subseteq C
    BY <1>1, <1>4
  <2> QED
    BY <1>2, <1>3, <1>4, <2>1
<1>5. ASSUME NEW s \in Below(n) PROVE Libs(s) \subseteq Below(n)
  BY <1>1, <1>2, <1>3, <1>5
<1> QED
  BY <1>2, <1>3, <1>4, <1>5

\* What a library includes whole: likewise, with whole_static_libs only.
LEMMA ContentsIsLeast ==
  ASSUME ListsInv, NEW n \in Module
  PROVE  /\ Contents(n) \in SUBSET Module
         /\ n \in Contents(n)
         /\ \A s \in Contents(n) : ToSet(whole[s]) \subseteq Contents(n)
         /\ \A C \in SUBSET Module :
              n \in C /\ (\A s \in C : ToSet(whole[s]) \subseteq C) => Contents(n) \subseteq C
<1> DEFINE E == [s \in Module |-> ToSet(whole[s])]
<1>1. E \in [Module -> SUBSET Module] /\ \A s \in Module : E[s] = ToSet(whole[s])
  <2>1. \A s \in Module : ToSet(whole[s]) \in SUBSET Module
    BY ListSets
  <2> QED
    BY <2>1
<1>2. Contents(n) = ReachedFrom(E, n)
  BY DEF Contents
<1> HIDE DEF E
<1>3. /\ ReachedFrom(E, n) \in SUBSET Module
      /\ n \in ReachedFrom(E, n)
      /\ \A s \in ReachedFrom(E, n) : E[s] \subseteq ReachedFrom(E, n)
      /\ \A C \in SUBSET Module :
           n \in C /\ (\A s \in C : E[s] \subseteq C) => ReachedFrom(E, n) \subseteq C
  BY <1>1, ReachIsLeast
<1>4. ASSUME NEW C \in SUBSET Module, n \in C, \A s \in C : ToSet(whole[s]) \subseteq C
      PROVE  Contents(n) \subseteq C
  <2>1. \A s \in C : E[s] \subseteq C
    BY <1>1, <1>4
  <2> QED
    BY <1>2, <1>3, <1>4, <2>1
<1>5. ASSUME NEW s \in Contents(n) PROVE ToSet(whole[s]) \subseteq Contents(n)
  BY <1>1, <1>2, <1>3, <1>5
<1> QED
  BY <1>2, <1>3, <1>4, <1>5

\* What is inside or below something inside or below n is inside or below n.
LEMMA Nested ==
  ASSUME ListsInv, NEW n \in Module
  PROVE  /\ Contents(n) \subseteq Below(n)
         /\ \A x \in Contents(n) : Contents(x) \subseteq Contents(n)
         /\ \A x \in Below(n) : Below(x) \subseteq Below(n)
<1>1. /\ Below(n) \in SUBSET Module /\ n \in Below(n)
      /\ \A s \in Below(n) : Libs(s) \subseteq Below(n)
  BY BelowIsLeast
<1>2. /\ Contents(n) \in SUBSET Module
      /\ \A s \in Contents(n) : ToSet(whole[s]) \subseteq Contents(n)
  BY ContentsIsLeast
<1>3. \A s \in Below(n) : ToSet(whole[s]) \subseteq Below(n)
  BY <1>1 DEF Libs
<1>4. Contents(n) \subseteq Below(n)
  BY <1>1, <1>3, ContentsIsLeast
<1>5. ASSUME NEW x \in Contents(n) PROVE Contents(x) \subseteq Contents(n)
  <2>1. x \in Module
    BY <1>2
  <2> QED
    BY <1>2, <2>1, ContentsIsLeast
<1>6. ASSUME NEW x \in Below(n) PROVE Below(x) \subseteq Below(n)
  <2>1. x \in Module
    BY <1>1
  <2> QED
    BY <1>1, <2>1, BelowIsLeast
<1> QED
  BY <1>4, <1>5, <1>6

\* What is inside n and is not n is in the list of something inside n.
LEMMA InsideIsWhole ==
  ASSUME ListsInv, NEW n \in Module, NEW y \in Contents(n), y # n
  PROVE  \E e \in Contents(n) : y \in ToSet(whole[e])
<1> DEFINE C == {c \in Contents(n) : c = n \/ \E e \in Contents(n) : c \in ToSet(whole[e])}
<1>1. /\ Contents(n) \in SUBSET Module /\ n \in Contents(n)
      /\ \A s \in Contents(n) : ToSet(whole[s]) \subseteq Contents(n)
  BY ContentsIsLeast
<1>2. C \in SUBSET Module /\ n \in C /\ \A s \in C : ToSet(whole[s]) \subseteq C
  BY <1>1
<1>3. Contents(n) \subseteq C
  <2> HIDE DEF C
  <2> QED
    BY <1>2, ContentsIsLeast
<1> QED
  BY <1>3

\* What is below n and is not n is in a list of something below n.
LEMMA BelowIsListed ==
  ASSUME ListsInv, NEW n \in Module, NEW y \in Below(n), y # n
  PROVE  \E e \in Below(n) : y \in Libs(e)
<1> DEFINE C == {c \in Below(n) : c = n \/ \E e \in Below(n) : c \in Libs(e)}
<1>1. /\ Below(n) \in SUBSET Module /\ n \in Below(n)
      /\ \A s \in Below(n) : Libs(s) \subseteq Below(n)
  BY BelowIsLeast
<1>2. C \in SUBSET Module /\ n \in C /\ \A s \in C : Libs(s) \subseteq C
  BY <1>1
<1>3. Below(n) \subseteq C
  <2> HIDE DEF C
  <2> QED
    BY <1>2, BelowIsLeast
<1> QED
  BY <1>3

\* What closed means, edge by edge.
LEMMA ClosedIff ==
  ASSUME NEW g \in Graphs, NEW C \in SUBSET Module
  PROVE  Closed(g, C) <=> \A s \in C : \A t : HasEdge(g, s, t) => t \in C
<1>1. \A s \in Module : \A t : HasEdge(g, s, t) <=> \E i \in 1 .. Len(g[s]) : g[s][i].to = t
  BY HasEdgeIff
<1> QED
  BY <1>1 DEF Closed

\* The same row has the same edges.
LEMMA SameRow ==
  ASSUME NEW g, NEW h, NEW s, g[s] = h[s]
  PROVE  \A t : HasEdge(g, s, t) <=> HasEdge(h, s, t)
BY DEF HasEdge, Targets

(***************************************************************************)
(* What the copy taken for m keeps while its red edges are replaced.       *)
(***************************************************************************)
\* Its edges are between modules of B.
EdgesIn(g, B) == \A s \in Module : \A e \in ToSet(g[s]) : s \in B /\ e.to \in B

\* A red edge goes to what its node includes whole.
RedInside(g) == \A s \in Module : \A e \in ToSet(g[s]) : e.color = "red" => e.to \in Contents(s)

\* An edge to what something includes whole is red, in a module that links
\* no library both ways.
WholeRed(g, m) ==
  LinksOnce(m) =>
    \A s \in Module : \A e \in ToSet(g[s]) :
      (\E x \in Below(m) : e.to \in ToSet(whole[x])) => e.color = "red"

\* What is below m is reached from m, or inside what is.
NoneLost(g, m) == \A b \in Below(m) : \E x \in NodeSet(g, m) : b \in Contents(x)

\* C holds what n reaches by way of its contents only.
InsideOf(g, n, C) ==
  /\ C \subseteq Contents(n) /\ n \in C
  /\ \A v \in C : \A t \in Contents(n) : HasEdge(g, v, t) => t \in C

\* What n uses is reached from n by way of its contents only.
UsesKept(g, m) ==
  \A n \in Below(m) : \A y \in Module : Uses(n, y) /\ y \notin Contents(n) =>
    \A C \in SUBSET Module : InsideOf(g, n, C) => \E v \in C : HasEdge(g, v, y)

\* A list in which no library uses an earlier one has an edge from each
\* library to each later one.
Orderly(m) ==
  LinksOnce(m) /\ \A i, j \in DOMAIN static[m] : i < j => static[m][i] \notin Below(static[m][j])

OrderKept(g, m) ==
  Orderly(m) => \A i, j \in DOMAIN static[m] : i < j => HasEdge(g, static[m][i], static[m][j])

\* All of it.
Copy(g, m) ==
  /\ Simple(g) /\ EdgesIn(g, Below(m)) /\ RedInside(g) /\ WholeRed(g, m)
  /\ NoneLost(g, m) /\ UsesKept(g, m) /\ OrderKept(g, m)

\* The edge that goes goes to another node, which its source includes whole.
LEMMA RedFacts ==
  ASSUME ListsInv, NEW g \in Graphs, Acyclic(g), NEW s \in Module, NEW p \in Module, Red(g, s, p)
  PROVE  /\ p # s /\ ~HasEdge(g, p, p) /\ ~HasEdge(g, p, s)
         /\ RedInside(g) => p \in Contents(s) /\ Contents(p) \subseteq Contents(s)
<1>1. PICK rank \in Ranks : Ranked(g, rank)
  BY DEF Acyclic
<1>2. \A x \in Module : \A t : HasEdge(g, x, t) => rank[t] < rank[x]
  <2>1. \A x \in Module : \A t : HasEdge(g, x, t) <=> \E i \in 1 .. Len(g[x]) : g[x][i].to = t
    BY HasEdgeIff
  <2> QED
    BY <1>1, <2>1 DEF Ranked
<1>3. PICK e \in ToSet(g[s]) : e.to = p /\ e.color = "red"
  BY DEF Red
<1>4. HasEdge(g, s, p)
  BY <1>3, RowFacts
<1>5. rank[p] < rank[s] /\ rank[p] \in Nat /\ rank[s] \in Nat
  BY <1>2, <1>4 DEF Ranks
<1>6. p # s /\ ~HasEdge(g, p, p) /\ ~HasEdge(g, p, s)
  BY <1>2, <1>5
<1>7. ASSUME RedInside(g) PROVE p \in Contents(s) /\ Contents(p) \subseteq Contents(s)
  <2>1. p \in Contents(s)
    BY <1>3, <1>7 DEF RedInside
  <2> QED
    BY <2>1, Nested
<1> QED
  BY <1>6, <1>7

\* The edges after the replacement, node by node.
LEMMA TakenEdges ==
  ASSUME NEW g \in Graphs, NEW s \in Module, NEW p \in Module, NEW h, TakesOver(g, s, p, h)
  PROVE  /\ \A x \in Module : \A e \in ToSet(h[x]) : e \in ToSet(g[x]) \/ (x = s /\ e \in ToSet(g[p]))
         /\ \A x \in Module : \A t : x # s => (HasEdge(h, x, t) <=> HasEdge(g, x, t))
         /\ \A t : HasEdge(h, s, t) <=> t # p /\ (HasEdge(g, s, t) \/ HasEdge(g, p, t))
<1>1. /\ \A x \in Module : x # s => h[x] = g[x]
      /\ \A e \in ToSet(h[s]) : e.to # p /\ e \in ToSet(g[s]) \cup ToSet(g[p])
      /\ \A t : HasEdge(h, s, t) <=> t # p /\ (HasEdge(g, s, t) \/ HasEdge(g, p, t))
  BY DEF TakesOver
<1>2. ASSUME NEW x \in Module, NEW t, x # s PROVE HasEdge(h, x, t) <=> HasEdge(g, x, t)
  <2>1. h[x] = g[x]
    BY <1>1, <1>2
  <2> QED
    BY <2>1, SameRow
<1> QED
  BY <1>1, <1>2

\* The conjuncts that speak of single edges.
LEMMA EdgesReplaced ==
  ASSUME ListsInv, NEW g \in Graphs, Acyclic(g), NEW m \in Module, Copy(g, m),
         NEW s \in Module, NEW p \in Module, Red(g, s, p), NEW h, TakesOver(g, s, p, h)
  PROVE  Simple(h) /\ EdgesIn(h, Below(m)) /\ RedInside(h) /\ WholeRed(h, m)
<1>1. \A x \in Module : \A e \in ToSet(h[x]) : e \in ToSet(g[x]) \/ (x = s /\ e \in ToSet(g[p]))
  BY TakenEdges
<1>2. PICK e0 \in ToSet(g[s]) : e0.to = p /\ e0.color = "red"
  BY DEF Red
<1>3. Simple(h)
  <2>1. \A x \in Module : x # s => h[x] = g[x]
    BY DEF TakesOver
  <2>2. \A x \in Module : Distinct(g[x])
    BY DEF Copy, Simple
  <2>3. Distinct(h[s])
    BY <2>2 DEF TakesOver
  <2>4. ASSUME NEW x \in Module PROVE Distinct(h[x])
    BY <2>1, <2>2, <2>3
  <2> QED
    BY <2>4 DEF Simple
<1>4. EdgesIn(h, Below(m))
  <2>1. \A x \in Module : \A e \in ToSet(g[x]) : x \in Below(m) /\ e.to \in Below(m)
    BY DEF Copy, EdgesIn
  <2> QED
    BY <1>1, <1>2, <2>1 DEF EdgesIn
<1>5. RedInside(h)
  <2>1. \A x \in Module : \A e \in ToSet(g[x]) : e.color = "red" => e.to \in Contents(x)
    BY DEF Copy, RedInside
  <2>2. Contents(p) \subseteq Contents(s)
    BY RedFacts DEF Copy
  <2> QED
    BY <1>1, <2>1, <2>2 DEF RedInside
<1>6. WholeRed(h, m)
  BY <1>1 DEF Copy, WholeRed
<1> QED
  BY <1>3, <1>4, <1>5, <1>6

\* With p put to what is reached of h when s is, nothing is left in g.
LEMMA LeavesNothing ==
  ASSUME NEW g \in Graphs, NEW s \in Module, NEW p \in Module, NEW h, TakesOver(g, s, p, h),
         ~HasEdge(g, p, p), NEW V, NEW C \in SUBSET Module,
         \A v \in C : \A t \in V : HasEdge(h, v, t) => t \in C,
         NEW D, \A x : x \in D <=> x \in C \/ (x = p /\ s \in C)
  PROVE  \A v \in D : \A t \in V : HasEdge(g, v, t) => t \in D
<1> SUFFICES ASSUME NEW v \in D, NEW t \in V, HasEdge(g, v, t) PROVE t \in D
  OBVIOUS
<1>1. /\ \A x \in Module : \A y : x # s => (HasEdge(h, x, y) <=> HasEdge(g, x, y))
      /\ \A y : HasEdge(h, s, y) <=> y # p /\ (HasEdge(g, s, y) \/ HasEdge(g, p, y))
  BY TakenEdges
<1>2. CASE v \in C /\ v # s
  BY <1>1, <1>2
<1>3. CASE v \in C /\ v = s
  BY <1>1, <1>3
<1>4. CASE v = p /\ s \in C
  BY <1>1, <1>4
<1> QED
  BY <1>2, <1>3, <1>4

\* Nothing is lost: what was inside p is inside s.
LEMMA NoneLostReplaced ==
  ASSUME ListsInv, NEW g \in Graphs, Acyclic(g), NEW m \in Module, Copy(g, m),
         NEW s \in Module, NEW p \in Module, Red(g, s, p), NEW h, TakesOver(g, s, p, h)
  PROVE  NoneLost(h, m)
<1> DEFINE N == NodeSet(h, m)
           C == N \cup (IF s \in N THEN {p} ELSE {})
<1>1. h \in Graphs
  BY DEF TakesOver
<1>2. N \in SUBSET Module /\ m \in N /\ Closed(h, N)
  BY <1>1, NodeSetIsLeast
<1>3. ~HasEdge(g, p, p) /\ Contents(p) \subseteq Contents(s)
  BY RedFacts DEF Copy
<1> HIDE DEF N
<1>4. \A v \in N : \A t \in Module : HasEdge(h, v, t) => t \in N
  BY <1>1, <1>2, ClosedIff
<1>5. C \in SUBSET Module /\ \A x : x \in C <=> x \in N \/ (x = p /\ s \in N)
  BY <1>2
<1> HIDE DEF C
<1>6. \A v \in C : \A t \in Module : HasEdge(g, v, t) => t \in C
  BY <1>2, <1>3, <1>4, <1>5, LeavesNothing
<1>7. \A v \in Module : \A t : HasEdge(g, v, t) => t \in Module
  BY RowFacts
<1>8. Closed(g, C)
  BY <1>5, <1>6, <1>7, ClosedIff
<1>9. NodeSet(g, m) \subseteq C
  BY <1>2, <1>5, <1>8, NodeSetIsLeast
<1>10. ASSUME NEW b \in Below(m) PROVE \E x \in N : b \in Contents(x)
  <2>1. PICK x \in NodeSet(g, m) : b \in Contents(x)
    BY DEF Copy, NoneLost
  <2> QED
    BY <1>3, <1>5, <1>9, <2>1
<1> QED
  BY <1>10 DEF NoneLost, N

\* What is used stays reached: the way by p is cut short.
LEMMA UsesReplaced ==
  ASSUME ListsInv, NEW g \in Graphs, Acyclic(g), NEW m \in Module, Copy(g, m),
         NEW s \in Module, NEW p \in Module, Red(g, s, p), NEW h, TakesOver(g, s, p, h)
  PROVE  UsesKept(h, m)
<1> SUFFICES ASSUME NEW n \in Below(m), NEW y \in Module, Uses(n, y), y \notin Contents(n),
                    NEW C \in SUBSET Module, InsideOf(h, n, C)
             PROVE  \E v \in C : HasEdge(h, v, y)
  BY DEF UsesKept
<1> DEFINE D == C \cup (IF s \in C THEN {p} ELSE {})
<1>1. /\ C \subseteq Contents(n) /\ n \in C
      /\ \A v \in C : \A t \in Contents(n) : HasEdge(h, v, t) => t \in C
  BY DEF InsideOf
<1>2. ~HasEdge(g, p, p) /\ p \in Contents(s)
  BY RedFacts DEF Copy
<1>3. n \in Module
  BY BelowIsLeast
<1>4. D \in SUBSET Module /\ \A x : x \in D <=> x \in C \/ (x = p /\ s \in C)
  OBVIOUS
<1>5. s \in C => p \in Contents(n)
  BY <1>1, <1>2, <1>3, Nested
<1> HIDE DEF D
<1>6. \A v \in D : \A t \in Contents(n) : HasEdge(g, v, t) => t \in D
  BY <1>1, <1>2, <1>4, LeavesNothing
<1>7. InsideOf(g, n, D)
  BY <1>1, <1>4, <1>5, <1>6 DEF InsideOf
<1>8. PICK v \in D : HasEdge(g, v, y)
  <2>1. UsesKept(g, m)
    BY DEF Copy
  <2> QED
    BY <1>4, <1>7, <2>1 DEF UsesKept
<1>9. /\ \A x \in Module : \A t : x # s => (HasEdge(h, x, t) <=> HasEdge(g, x, t))
      /\ \A t : HasEdge(h, s, t) <=> t # p /\ (HasEdge(g, s, t) \/ HasEdge(g, p, t))
  BY TakenEdges
<1>10. CASE v \in C /\ v # s
  BY <1>8, <1>9, <1>10
<1>11. CASE v \in C /\ v = s
  <2>1. y # p
    BY <1>5, <1>11
  <2> QED
    BY <1>8, <1>9, <1>11, <2>1
<1>12. CASE v = p /\ s \in C
  <2>1. y # p
    BY <1>5, <1>12
  <2> QED
    BY <1>8, <1>9, <1>12, <2>1
<1> QED
  BY <1>4, <1>10, <1>11, <1>12

\* The edges that keep the order stay: none of them is red.
LEMMA OrderReplaced ==
  ASSUME ListsInv, NEW g \in Graphs, Acyclic(g), NEW m \in Module, Copy(g, m),
         NEW s \in Module, NEW p \in Module, Red(g, s, p), NEW h, TakesOver(g, s, p, h)
  PROVE  OrderKept(h, m)
<1> SUFFICES ASSUME Orderly(m), NEW i \in DOMAIN static[m], NEW j \in DOMAIN static[m], i < j
             PROVE  HasEdge(h, static[m][i], static[m][j])
  BY DEF OrderKept
<1> DEFINE a == static[m][i]
           b == static[m][j]
<1>1. HasEdge(g, a, b)
  BY DEF Copy, OrderKept
<1>2. a \in Module /\ b \in ToSet(static[m])
  BY DEF ListsInv, ToSet
<1> HIDE DEF a, b
<1>3. /\ \A x \in Module : \A t : x # s => (HasEdge(h, x, t) <=> HasEdge(g, x, t))
      /\ \A t : HasEdge(h, s, t) <=> t # p /\ (HasEdge(g, s, t) \/ HasEdge(g, p, t))
  BY TakenEdges
<1>4. b # p
  <2>1. p # s /\ p \in Contents(s)
    BY RedFacts DEF Copy
  <2>2. PICK e \in Contents(s) : p \in ToSet(whole[e])
    BY <2>1, InsideIsWhole
  <2>3. s \in Below(m)
    <3>1. \A e0 \in ToSet(g[s]) : s \in Below(m)
      BY DEF Copy, EdgesIn
    <3> QED
      BY <3>1 DEF Red
  <2>4. e \in Below(m)
    BY <2>2, <2>3, Nested
  <2>5. m \in Below(m)
    BY BelowIsLeast
  <2>6. ToSet(static[m]) \cap ToSet(whole[e]) = {}
    BY <2>4, <2>5 DEF Orderly, LinksOnce
  <2> QED
    BY <1>2, <2>2, <2>6
<1>5. HasEdge(h, a, b)
  BY <1>1, <1>2, <1>3, <1>4
<1> QED
  BY <1>5 DEF a, b

\* Replacing a red edge keeps all of it.
LEMMA CopyReplaced ==
  ASSUME ListsInv, NEW g \in Graphs, Acyclic(g), NEW m \in Module, Copy(g, m),
         NEW s \in Module, NEW p \in Module, Red(g, s, p)
  PROVE  Copy(DeleteProxyEdge(g, s, p), m)
<1> DEFINE h == DeleteProxyEdge(g, s, p)
<1>1. TakesOver(g, s, p, h)
  BY ProxyRow
<1> HIDE DEF h
<1>2. Simple(h) /\ EdgesIn(h, Below(m)) /\ RedInside(h) /\ WholeRed(h, m)
  BY <1>1, EdgesReplaced
<1>3. NoneLost(h, m)
  BY <1>1, NoneLostReplaced
<1>4. UsesKept(h, m)
  BY <1>1, UsesReplaced
<1>5. OrderKept(h, m)
  BY <1>1, OrderReplaced
<1>6. Copy(h, m)
  BY <1>2, <1>3, <1>4, <1>5 DEF Copy
<1> QED
  BY <1>6 DEF h

\* So does a scan, and one that changes nothing has found no red edge.
LEMMA CopyScanned ==
  ASSUME ListsInv, NEW g \in Graphs, Acyclic(g), NEW m \in Module, Copy(g, m), NEW s \in Module
  PROVE  /\ Copy(DeleteProxiesOf(g, s), m)
         /\ DeleteProxiesOf(g, s) = g => \A e \in ToSet(g[s]) : e.color # "red"
<1> DEFINE K == {h \in Graphs : Acyclic(h) /\ Copy(h, m)}
<1>1. g \in K /\ Distinct(g[s])
  BY DEF Copy, Simple
<1>2. ASSUME NEW h \in K, NEW p \in Module, h \in Graphs, Red(h, s, p)
      PROVE  DeleteProxyEdge(h, s, p) \in K
  <2>1. Acyclic(h) /\ Copy(h, m)
    OBVIOUS
  <2>2. PICK rank \in Ranks : Ranked(h, rank)
    BY <2>1 DEF Acyclic
  <2>3. HasEdge(h, s, p)
    BY <1>2, RowFacts DEF Red
  <2>4. rank[p] < rank[s]
    BY <1>2, <2>2, <2>3, HasEdgeIff DEF Ranked
  <2>5. DeleteProxyEdge(h, s, p) \in Graphs /\ Ranked(DeleteProxyEdge(h, s, p), rank)
    BY <1>2, <2>2, <2>4, DeleteProxyEdgeRanked
  <2>6. Acyclic(DeleteProxyEdge(h, s, p))
    BY <2>5 DEF Acyclic
  <2>7. Copy(DeleteProxyEdge(h, s, p), m)
    BY <1>2, <2>1, CopyReplaced
  <2> QED
    BY <2>5, <2>6, <2>7
<1>3. /\ DeleteProxiesOf(g, s) \in K
      /\ DeleteProxiesOf(g, s) = g => \A e \in ToSet(g[s]) : e.color # "red"
  <2> HIDE DEF K
  <2> QED
    BY <1>1, <1>2, ScanKeeps
<1> QED
  BY <1>3

-----------------------------------------------------------------------------
(***************************************************************************)
(* The order edges.                                                        *)
(***************************************************************************)

\* An edge from one of the first j libraries of a list to a later one of them.
Forward(libs, j, s, t) == \E a, b \in 1 .. j : a < b /\ s = libs[a] /\ t = libs[b]

\* h is g with edges from libraries of a list to later ones, up to the j-th.
OrderedUpto(g, h, libs, j) ==
  /\ h \in Graphs /\ Simple(h)
  /\ \A s \in Module : \A t : HasEdge(g, s, t) => HasEdge(h, s, t)
  /\ \A s \in Module : \A e \in ToSet(h[s]) :
       e \in ToSet(g[s]) \/ (e.color = "pink" /\ Forward(libs, j, s, e.to))

\* Every library of the list is in a closed set that holds no earlier one.
Apart(g, libs) ==
  \A j \in 1 .. Len(libs) : \E C \in SUBSET Module :
    libs[j] \in C /\ Closed(g, C) /\ \A i \in 1 .. j - 1 : libs[i] \notin C

\* The earlier libraries have edges to the later ones, up to the j-th.
AllBefore(h, libs, j) == \A a, b \in 1 .. j : a < b => HasEdge(h, libs[a], libs[b])

\* One order edge.
LEMMA OneOrderEdge ==
  ASSUME NEW g \in Graphs, NEW h, NEW libs \in Seq(Module), NEW j \in 1 .. Len(libs),
         OrderedUpto(g, h, libs, j), NEW i \in 1 .. j - 1, ~HasEdge(h, libs[i], libs[j])
  PROVE  /\ OrderedUpto(g, AddEdge(h, libs[i], libs[j], "pink"), libs, j)
         /\ HasEdge(AddEdge(h, libs[i], libs[j], "pink"), libs[i], libs[j])
         /\ \A s \in Module : \A t : HasEdge(h, s, t) => HasEdge(AddEdge(h, libs[i], libs[j], "pink"), s, t)
<1> DEFINE s0 == libs[i]
           t0 == libs[j]
           edge == [to |-> t0, color |-> "pink"]
           k == AddEdge(h, s0, t0, "pink")
<1>1. s0 \in Module /\ t0 \in Module /\ "pink" \in Color /\ i \in 1 .. j /\ j \in 1 .. j /\ i < j
  BY DEF Color
<1>2. h \in Graphs /\ Simple(h)
  BY DEF OrderedUpto
<1> HIDE DEF s0, t0
<1>3. k \in Graphs /\ \A x \in Module : x # s0 => k[x] = h[x]
  <2>1. h \in Graphs
    BY <1>2
  <2>2. k \in Graphs
    BY <1>1, <2>1, AddEdgeFacts
  <2>3. \A x \in Module : x # s0 => k[x] = h[x]
    BY <1>1, <2>1, OtherRows
  <2> QED
    BY <2>2, <2>3
<1>4. /\ \A e : e \in ToSet(k[s0]) <=> e = edge \/ (e \in ToSet(h[s0]) /\ e.to # t0)
      /\ Distinct(h[s0]) => Distinct(k[s0])
  BY <1>1, <1>2, AddedRow
<1> HIDE DEF k
<1>5. /\ \A x \in Module : \A t : HasEdge(h, x, t) <=> \E e \in ToSet(h[x]) : e.to = t
      /\ \A x \in Module : \A t : HasEdge(k, x, t) <=> \E e \in ToSet(k[x]) : e.to = t
  BY <1>2, <1>3, RowFacts
<1>6. edge.to = t0 /\ edge.color = "pink"
  OBVIOUS
<1> HIDE DEF edge
<1>7. HasEdge(k, s0, t0)
  BY <1>1, <1>4, <1>5, <1>6
<1>8. ASSUME NEW x \in Module, NEW t, HasEdge(h, x, t) PROVE HasEdge(k, x, t)
  <2>1. CASE x = s0 /\ t = t0
    BY <1>7, <2>1
  <2>2. CASE x = s0 /\ t # t0
    BY <1>4, <1>5, <1>8, <2>2
  <2>3. CASE x # s0
    BY <1>3, <1>5, <1>8, <2>3
  <2> QED
    BY <2>1, <2>2, <2>3
<1>9. Simple(k)
  <2>1. \A x \in Module : Distinct(h[x])
    BY <1>2 DEF Simple
  <2>2. ASSUME NEW x \in Module PROVE Distinct(k[x])
    BY <1>1, <1>3, <1>4, <2>1
  <2> QED
    BY <2>2 DEF Simple
<1>10. ASSUME NEW x \in Module, NEW e \in ToSet(k[x])
       PROVE  e \in ToSet(g[x]) \/ (e.color = "pink" /\ Forward(libs, j, x, e.to))
  <2>1. CASE e \in ToSet(h[x])
    BY <2>1 DEF OrderedUpto
  <2>2. CASE x = s0 /\ e = edge
    <3>1. i < j /\ x = libs[i] /\ e.to = libs[j]
      BY <1>1, <1>6, <2>2 DEF s0, t0
    <3>2. Forward(libs, j, x, e.to)
      BY <1>1, <3>1 DEF Forward
    <3> QED
      BY <1>6, <2>2, <3>2
  <2>3. x = s0 \/ x # s0
    OBVIOUS
  <2>4. e \in ToSet(h[x]) \/ (x = s0 /\ e = edge)
    BY <1>3, <1>4, <2>3
  <2> QED
    BY <2>1, <2>2, <2>4
<1>11. \A x \in Module : \A t : HasEdge(g, x, t) => HasEdge(k, x, t)
  BY <1>8 DEF OrderedUpto
<1>12. OrderedUpto(g, k, libs, j)
  BY <1>3, <1>9, <1>10, <1>11 DEF OrderedUpto
<1> QED
  BY <1>7, <1>8, <1>12 DEF s0, t0, k

\* The edges to one library, after those to the earlier ones.
LEMMA OneRound ==
  ASSUME NEW g \in Graphs, NEW h, NEW libs \in Seq(Module), NEW j \in 1 .. Len(libs),
         OrderedUpto(g, h, libs, j - 1), Apart(g, libs) => AllBefore(h, libs, j - 1)
  PROVE  /\ OrderedUpto(g, OrderEdges(h, libs, j), libs, j)
         /\ Apart(g, libs) => AllBefore(OrderEdges(h, libs, j), libs, j)
<1> DEFINE R == NodeSet(h, libs[j])
<1>0. h \in Graphs
  BY DEF OrderedUpto
<1>1. PICK f \in Ordering(h, libs, j) : OrderEdges(h, libs, j) = f[j - 1]
  BY <1>0, OrderEdgesRuns
<1>2. /\ f \in [0 .. j - 1 -> Graphs] /\ f[0] = h
      /\ \A i \in 1 .. j - 1 : f[i] = Ordered1(h, f[i - 1], libs, i, j)
  BY DEF Ordering
<1> DEFINE Keeps1(k) == \A s \in Module : \A t : HasEdge(h, s, t) => HasEdge(k, s, t)
           S == {i \in 0 .. j - 1 :
                   /\ OrderedUpto(g, f[i], libs, j) /\ Keeps1(f[i])
                   /\ \A a \in 1 .. i : libs[a] \in R \/ HasEdge(f[i], libs[a], libs[j])}
<1>3. 0 \in S
  <2>1. \A s, t : Forward(libs, j - 1, s, t) => Forward(libs, j, s, t)
    <3>1. \A a \in 1 .. j - 1 : a \in 1 .. j
      OBVIOUS
    <3> QED
      BY <3>1, Zenon DEF Forward
  <2>2. OrderedUpto(g, h, libs, j)
    BY <2>1, Zenon DEF OrderedUpto
  <2>3. j - 1 \in Nat /\ 0 \in 0 .. j - 1 /\ \A a \in 1 .. 0 : FALSE
    OBVIOUS
  <2> QED
    BY <1>2, <2>2, <2>3
<1>4. ASSUME NEW i \in 1 .. j - 1, i - 1 \in S PROVE i \in S
  <2> DEFINE k == f[i - 1]
  <2>1. /\ OrderedUpto(g, k, libs, j) /\ Keeps1(k)
        /\ \A a \in 1 .. i - 1 : libs[a] \in R \/ HasEdge(k, libs[a], libs[j])
    BY <1>4
  <2>2. f[i] = Ordered1(h, k, libs, i, j)
    BY <1>2
  <2>3. i \in 0 .. j - 1 /\ \A a \in 1 .. i : a = i \/ a \in 1 .. i - 1
    OBVIOUS
  <2> HIDE DEF k
  <2>4. CASE libs[i] \in R \/ HasEdge(k, libs[i], libs[j])
    <3>1. f[i] = k
      BY <2>2, <2>4 DEF Ordered1
    <3>2. \A a \in 1 .. i : libs[a] \in R \/ HasEdge(k, libs[a], libs[j])
      BY <2>1, <2>3, <2>4
    <3> HIDE DEF R
    <3> QED
      BY <2>1, <2>3, <3>1, <3>2
  <2>5. CASE ~(libs[i] \in R \/ HasEdge(k, libs[i], libs[j]))
    <3>1. f[i] = AddEdge(k, libs[i], libs[j], "pink")
      BY <2>2, <2>5 DEF Ordered1
    <3>2. /\ OrderedUpto(g, f[i], libs, j) /\ HasEdge(f[i], libs[i], libs[j])
          /\ \A s \in Module : \A t : HasEdge(k, s, t) => HasEdge(f[i], s, t)
      BY <2>1, <2>5, <3>1, OneOrderEdge
    <3>3. \A a \in 1 .. i : libs[a] \in Module
      OBVIOUS
    <3>4. \A a \in 1 .. i : libs[a] \in R \/ HasEdge(f[i], libs[a], libs[j])
      BY <2>1, <2>3, <3>2, <3>3
    <3>5. Keeps1(f[i])
      BY <2>1, <3>2
    <3> HIDE DEF R, Keeps1
    <3> QED
      BY <2>3, <3>2, <3>4, <3>5
  <2> QED
    BY <2>4, <2>5
<1>5. j - 1 \in S
  <2>1. j - 1 \in Nat
    OBVIOUS
  <2>2. \A i \in 0 .. j - 1 : i \in S
    <3> HIDE DEF S
    <3> QED
      BY <1>3, <1>4, <2>1, IntervalInduction
  <2> QED
    BY <2>1, <2>2
<1> DEFINE new == OrderEdges(h, libs, j)
<1>6. /\ OrderedUpto(g, new, libs, j) /\ Keeps1(new)
      /\ \A a \in 1 .. j - 1 : libs[a] \in R \/ HasEdge(new, libs[a], libs[j])
  BY <1>1, <1>5
<1> HIDE DEF new
<1>7. ASSUME Apart(g, libs) PROVE AllBefore(new, libs, j)
  <2>1. PICK C \in SUBSET Module : libs[j] \in C /\ Closed(g, C) /\ \A i \in 1 .. j - 1 : libs[i] \notin C
    BY <1>7 DEF Apart
  <2>2. Closed(h, C)
    <3>1. \A s \in C : \A t : HasEdge(g, s, t) => t \in C
      BY <2>1, ClosedIff
    <3>2. ASSUME NEW s \in C, NEW t, HasEdge(h, s, t) PROVE t \in C
      <4>1. s \in Module
        OBVIOUS
      <4>2. PICK e \in ToSet(h[s]) : e.to = t
        BY <1>0, <3>2, <4>1, RowFacts
      <4>3. CASE e \in ToSet(g[s])
        <5>1. HasEdge(g, s, t)
          BY <4>1, <4>2, <4>3, RowFacts
        <5> QED
          BY <3>1, <5>1
      <4>4. ASSUME NEW a \in 1 .. j - 1, NEW b \in 1 .. j - 1, s = libs[a] PROVE FALSE
        BY <2>1, <4>4
      <4> QED
        BY <4>1, <4>2, <4>3, <4>4 DEF OrderedUpto, Forward
    <3> QED
      BY <1>0, <3>2, ClosedIff
  <2>3. libs[j] \in Module
    OBVIOUS
  <2>4. R \subseteq C
    BY <1>0, <2>1, <2>2, <2>3, NodeSetIsLeast
  <2>5. AllBefore(h, libs, j - 1)
    BY <1>7
  <2> SUFFICES ASSUME NEW a \in 1 .. j, NEW b \in 1 .. j, a < b PROVE HasEdge(new, libs[a], libs[b])
    BY DEF AllBefore
  <2>6. CASE b = j
    <3>1. a \in 1 .. j - 1
      BY <2>6
    <3> QED
      BY <1>6, <2>1, <2>4, <2>6, <3>1
  <2>7. CASE b # j
    <3>1. a \in 1 .. j - 1 /\ b \in 1 .. j - 1 /\ libs[a] \in Module
      BY <2>7
    <3>2. HasEdge(h, libs[a], libs[b])
      BY <2>5, <3>1 DEF AllBefore
    <3> QED
      BY <1>6, <3>1, <3>2
  <2> QED
    BY <2>6, <2>7
<1> QED
  BY <1>6, <1>7 DEF new

\* The order edges of a whole list.
LEMMA OrderAllFacts ==
  ASSUME NEW g \in Graphs, Simple(g), NEW libs \in Seq(Module)
  PROVE  /\ OrderedUpto(g, OrderAll(g, libs), libs, Len(libs))
         /\ Apart(g, libs) => AllBefore(OrderAll(g, libs), libs, Len(libs))
<1>1. PICK f \in OrderingAll(g, libs) : OrderAll(g, libs) = f[Len(libs)]
  BY OrderAllRuns
<1>2. f[0] = g /\ \A j \in 1 .. Len(libs) : f[j] = OrderEdges(f[j - 1], libs, j)
  BY DEF OrderingAll
<1> DEFINE S == {j \in 0 .. Len(libs) :
                   OrderedUpto(g, f[j], libs, j) /\ (Apart(g, libs) => AllBefore(f[j], libs, j))}
<1>3. 0 \in S
  <2>1. AllBefore(g, libs, 0)
    BY DEF AllBefore
  <2>2. OrderedUpto(g, g, libs, 0)
    BY DEF OrderedUpto
  <2> QED
    BY <1>2, <2>1, <2>2
<1>4. ASSUME NEW j \in 1 .. Len(libs), j - 1 \in S PROVE j \in S
  <2>1. OrderedUpto(g, f[j - 1], libs, j - 1) /\ (Apart(g, libs) => AllBefore(f[j - 1], libs, j - 1))
    BY <1>4
  <2>2. f[j] = OrderEdges(f[j - 1], libs, j) /\ j \in 0 .. Len(libs)
    BY <1>2
  <2>3. OrderedUpto(g, f[j], libs, j) /\ (Apart(g, libs) => AllBefore(f[j], libs, j))
    BY <2>1, <2>2, OneRound
  <2> QED
    BY <2>2, <2>3
<1>5. Len(libs) \in S
  <2>1. Len(libs) \in Nat
    OBVIOUS
  <2>2. \A j \in 0 .. Len(libs) : j \in S
    <3> HIDE DEF S
    <3> QED
      BY <1>3, <1>4, <2>1, IntervalInduction
  <2> QED
    BY <2>1, <2>2
<1> QED
  BY <1>1, <1>5

-----------------------------------------------------------------------------
(***************************************************************************)
(* The shared graph while a module is visited, and the copy taken of it.   *)
(***************************************************************************)

\* One edge to each library of n, red if it is in the whole list.
DeclaredEdge(e, n) ==
  \/ e.color = "red" /\ e.to \in ToSet(whole[n])
  \/ e.color = "blue" /\ e.to \in ToSet(static[n]) /\ e.to \notin ToSet(whole[n])

DeclaredRow(row, n) ==
  /\ Distinct(row)
  /\ \A e \in ToSet(row) : DeclaredEdge(e, n)
  /\ \A t \in Libs(n) : \E e \in ToSet(row) : e.to = t

\* What is mentioned, place by place.
LEMMA MentionFacts ==
  ASSUME ListsInv, NEW n \in Module
  PROVE  /\ DeclaredEdges(n) \in Seq(Edge)
         /\ Len(DeclaredEdges(n)) = Len(static[n]) + Len(whole[n])
         /\ \A k \in 1 .. Len(static[n]) : DeclaredEdges(n)[k] = [to |-> static[n][k], color |-> "blue"]
         /\ \A k \in 1 .. Len(whole[n]) :
              DeclaredEdges(n)[Len(static[n]) + k] = [to |-> whole[n][k], color |-> "red"]
<1> DEFINE a == [i \in DOMAIN static[n] |-> [to |-> static[n][i], color |-> "blue"]]
           b == [i \in DOMAIN whole[n] |-> [to |-> whole[n][i], color |-> "red"]]
<1>1. static[n] \in Seq(Module) /\ whole[n] \in Seq(Module)
  BY DEF ListsInv
<1>2. DOMAIN static[n] = 1 .. Len(static[n]) /\ DOMAIN whole[n] = 1 .. Len(whole[n])
  BY <1>1
<1>3. \A k \in 1 .. Len(static[n]) : a[k] = [to |-> static[n][k], color |-> "blue"]
  BY <1>2
<1>4. \A k \in 1 .. Len(whole[n]) : b[k] = [to |-> whole[n][k], color |-> "red"]
  BY <1>2
<1>5. a \in Seq(Edge) /\ Len(a) = Len(static[n])
  BY <1>1, ColoredEdges DEF Color
<1>6. b \in Seq(Edge) /\ Len(b) = Len(whole[n])
  BY <1>1, ColoredEdges DEF Color
<1>7. DeclaredEdges(n) = a \o b
  BY DEF DeclaredEdges
<1> HIDE DEF a, b
<1>8. /\ a \o b \in Seq(Edge) /\ Len(a \o b) = Len(a) + Len(b)
      /\ \A k \in 1 .. Len(a) : (a \o b)[k] = a[k]
      /\ \A k \in 1 .. Len(b) : (a \o b)[Len(a) + k] = b[k]
  <2>1. /\ a \o b \in Seq(Edge) /\ Len(a \o b) = Len(a) + Len(b)
        /\ \A i \in 1 .. Len(a) + Len(b) : (a \o b)[i] = IF i <= Len(a) THEN a[i] ELSE b[i - Len(a)]
    BY <1>5, <1>6, ConcatProperties
  <2>2. Len(a) \in Nat /\ Len(b) \in Nat
    BY <1>5, <1>6
  <2>3. \A k \in 1 .. Len(a) : k \in 1 .. Len(a) + Len(b) /\ k <= Len(a)
    BY <2>2
  <2>4. \A k \in 1 .. Len(b) : Len(a) + k \in 1 .. Len(a) + Len(b) /\ ~(Len(a) + k <= Len(a)) /\ (Len(a) + k) - Len(a) = k
    BY <2>2
  <2> QED
    BY <2>1, <2>3, <2>4
<1> QED
  BY <1>3, <1>4, <1>5, <1>6, <1>7, <1>8

\* Where one edge each was declared, the last mention gives the color.
LEMMA DeclaredRowFacts ==
  ASSUME ListsInv, NEW n \in Module, NEW row \in Seq(Edge), OneEdgeEach(row, DeclaredEdges(n))
  PROVE  DeclaredRow(row, n)
<1> DEFINE M == DeclaredEdges(n)
           S == Len(static[n])
           W == Len(whole[n])
           Of(t) == {k \in DOMAIN M : M[k].to = t}
<1>1. /\ M \in Seq(Edge) /\ Len(M) = S + W
      /\ \A k \in 1 .. S : M[k] = [to |-> static[n][k], color |-> "blue"]
      /\ \A k \in 1 .. W : M[S + k] = [to |-> whole[n][k], color |-> "red"]
  BY MentionFacts
<1>2. /\ S \in Nat /\ W \in Nat
      /\ \A t : t \in ToSet(static[n]) <=> \E k \in 1 .. S : static[n][k] = t
      /\ \A t : t \in ToSet(whole[n]) <=> \E k \in 1 .. W : whole[n][k] = t
  <2>1. static[n] \in Seq(Module) /\ whole[n] \in Seq(Module)
    BY DEF ListsInv
  <2>2. \A t : t \in ToSet(static[n]) <=> \E k \in 1 .. S : static[n][k] = t
    BY <2>1, InList
  <2>3. \A t : t \in ToSet(whole[n]) <=> \E k \in 1 .. W : whole[n][k] = t
    BY <2>1, InList
  <2> QED
    BY <2>1, <2>2, <2>3
<1>3. DOMAIN M = 1 .. S + W /\ DOMAIN row = 1 .. Len(row)
  BY <1>1
<1>4. /\ \A k \in DOMAIN M : \E i \in DOMAIN row : row[i].to = M[k].to
      /\ \A i \in DOMAIN row : \E k \in Of(row[i].to) : row[i] = M[k] /\ \A l \in Of(row[i].to) : l <= k
      /\ \A i, j \in DOMAIN row : i < j => \E k \in Of(row[i].to) : \A l \in Of(row[j].to) : k < l
  BY Zenon DEF OneEdgeEach
<1> HIDE DEF M, S, W
<1>5. \A e : e \in ToSet(row) <=> \E i \in 1 .. Len(row) : row[i] = e
  BY <1>3 DEF ToSet
<1>6. /\ \A k \in 1 .. S : M[k].to = static[n][k] /\ M[k].color = "blue" /\ k \in DOMAIN M
      /\ \A k \in 1 .. W : M[S + k].to = whole[n][k] /\ M[S + k].color = "red" /\ S + k \in DOMAIN M
  <2>1. ASSUME NEW k \in 1 .. S PROVE M[k].to = static[n][k] /\ M[k].color = "blue"
    <3>1. M[k] = [to |-> static[n][k], color |-> "blue"]
      BY <1>1
    <3> QED
      BY <3>1
  <2>2. ASSUME NEW k \in 1 .. W PROVE M[S + k].to = whole[n][k] /\ M[S + k].color = "red"
    <3>1. M[S + k] = [to |-> whole[n][k], color |-> "red"]
      BY <1>1
    <3> QED
      BY <3>1
  <2> QED
    BY <1>2, <1>3, <2>1, <2>2
<1>7. Distinct(row)
  <2>1. ASSUME NEW i \in DOMAIN row, NEW j \in DOMAIN row, i < j PROVE row[i].to # row[j].to
    <3>1. PICK k \in Of(row[i].to) : \A l \in Of(row[j].to) : k < l
      BY <1>4, <2>1
    <3>2. k \in Int
      BY <1>2, <1>3
    <3> QED
      BY <3>1, <3>2
  <2> SUFFICES ASSUME NEW i \in 1 .. Len(row), NEW j \in 1 .. Len(row), row[i].to = row[j].to PROVE i = j
    BY DEF Distinct
  <2>2. i < j \/ j < i \/ i = j
    OBVIOUS
  <2> QED
    BY <1>3, <2>1, <2>2
<1>8. ASSUME NEW e \in ToSet(row) PROVE DeclaredEdge(e, n)
  <2>1. PICK i \in DOMAIN row : row[i] = e
    BY <1>3, <1>5
  <2>2. PICK k \in Of(e.to) : e = M[k] /\ \A l \in Of(e.to) : l <= k
    BY <1>4, <2>1
  <2>3. k \in 1 .. S + W
    BY <1>3
  <2>4. CASE k \in 1 .. S
    <3>1. e.to = static[n][k] /\ e.color = "blue"
      BY <1>6, <2>2, <2>4
    <3>2. e.to \in ToSet(static[n])
      BY <1>2, <2>4, <3>1
    <3>3. e.to \notin ToSet(whole[n])
      <4> SUFFICES ASSUME NEW j \in 1 .. W, whole[n][j] = e.to PROVE FALSE
        BY <1>2
      <4>1. S + j \in Of(e.to)
        BY <1>6
      <4>2. S + j <= k
        BY <2>2, <4>1
      <4> QED
        BY <1>2, <2>4, <4>2
    <3> QED
      BY <3>1, <3>2, <3>3 DEF DeclaredEdge
  <2>5. CASE k \notin 1 .. S
    <3>1. k - S \in 1 .. W /\ S + (k - S) = k
      BY <1>2, <2>3, <2>5
    <3>2. e.to = whole[n][k - S] /\ e.color = "red"
      BY <1>6, <2>2, <3>1
    <3> QED
      BY <1>2, <3>1, <3>2 DEF DeclaredEdge
  <2> QED
    BY <2>4, <2>5
<1>9. ASSUME NEW t \in Libs(n) PROVE \E e \in ToSet(row) : e.to = t
  <2>1. \E k \in DOMAIN M : M[k].to = t
    <3>1. CASE t \in ToSet(static[n])
      BY <1>2, <1>6, <3>1
    <3>2. CASE t \in ToSet(whole[n])
      BY <1>2, <1>6, <3>2
    <3> QED
      BY <3>1, <3>2 DEF Libs
  <2> QED
    BY <1>3, <1>4, <1>5, <2>1
<1> QED
  BY <1>7, <1>8, <1>9 DEF DeclaredRow

\* The edges of the shared graph while the order edges of m are in it.
OrderedGraph(g, m) ==
  /\ Simple(g)
  /\ \A n \in Module : \A e \in ToSet(g[n]) :
       \/ DeclaredEdge(e, n)
       \/ e.color = "pink" /\ n \in ToSet(static[m]) /\ e.to \in ToSet(static[m])
  /\ \A n \in visited \cup {m} : \A t \in Libs(n) : HasEdge(g, n, t)
  /\ OrderKept(g, m)

OrderedInv == stage = "ordered" => OrderedGraph(graph, main)

\* A round that has replaced nothing has found no red edge so far.
NoRedLeft == ~removed => \A s \in Below(main) \ toScan : \A e \in ToSet(sub[s]) : e.color # "red"

\* The copy, while its red edges are replaced, and the priorities for its sorting.
CopyInv ==
  stage = "proxies" =>
    /\ Copy(sub, main)
    /\ DOMAIN priority = Below(main)
    /\ \A x \in Below(main) : priority[x] \in Int
    /\ NoRedLeft

\* What the lists say does not change.
LEMMA ListsFrame ==
  ASSUME UNCHANGED <<static, whole>>
  PROVE  /\ \A x : Libs(x)' = Libs(x)
         /\ \A x : Below(x)' = Below(x)
         /\ \A x : Contents(x)' = Contents(x)
         /\ \A x, y : Uses(x, y)' <=> Uses(x, y)
         /\ \A x : LinksOnce(x)' <=> LinksOnce(x)
         /\ \A x : Orderly(x)' <=> Orderly(x)
         /\ \A e, x : DeclaredEdge(e, x)' <=> DeclaredEdge(e, x)
<1>1. \A x : Libs(x)' = Libs(x)
  BY DEF Libs
<1>2. \A x : Below(x)' = Below(x)
  <2>1. [s \in Module |-> Libs(s)'] = [s \in Module |-> Libs(s)]
    BY <1>1
  <2> QED
    BY <2>1 DEF Below
<1>3. \A x : Contents(x)' = Contents(x)
  BY DEF Contents
<1>4. \A x, y : Uses(x, y)' <=> Uses(x, y)
  BY <1>3 DEF Uses
<1>5. \A x : LinksOnce(x)' <=> LinksOnce(x)
  BY <1>2 DEF LinksOnce
<1>6. \A x : Orderly(x)' <=> Orderly(x)
  BY <1>2, <1>5 DEF Orderly
<1>7. \A e, x : DeclaredEdge(e, x)' <=> DeclaredEdge(e, x)
  BY DEF DeclaredEdge
<1> QED
  BY <1>1, <1>2, <1>3, <1>4, <1>5, <1>6, <1>7

\* So what holds of a copy is said in the same words in the next state.
LEMMA CopyFrame ==
  ASSUME UNCHANGED <<static, whole>>, main' = main, Copy(sub', main)
  PROVE  Copy(sub, main)'
<1>1. /\ \A x : Libs(x)' = Libs(x)
      /\ \A x : Below(x)' = Below(x)
      /\ \A x : Contents(x)' = Contents(x)
      /\ \A x, y : Uses(x, y)' <=> Uses(x, y)
      /\ \A x : LinksOnce(x)' <=> LinksOnce(x)
      /\ \A x : Orderly(x)' <=> Orderly(x)
  BY ListsFrame
<1>2. RedInside(sub)'
  BY <1>1 DEF Copy, RedInside
<1>3. WholeRed(sub, main)'
  BY <1>1 DEF Copy, WholeRed
<1>4. NoneLost(sub, main)'
  BY <1>1 DEF Copy, NoneLost
<1>5. UsesKept(sub, main)'
  BY <1>1 DEF Copy, UsesKept, InsideOf
<1>6. OrderKept(sub, main)'
  BY <1>1 DEF Copy, OrderKept
<1>7. EdgesIn(sub', Below(main)') /\ Simple(sub')
  BY <1>1 DEF Copy
<1> QED
  BY <1>2, <1>3, <1>4, <1>5, <1>6, <1>7 DEF Copy

\* The same for the shared graph.
LEMMA OrderedFrame ==
  ASSUME UNCHANGED <<static, whole, visited>>, main' = main, OrderedGraph(graph', main)
  PROVE  OrderedGraph(graph, main)'
<1>1. /\ \A x : Libs(x)' = Libs(x)
      /\ \A x : Orderly(x)' <=> Orderly(x)
      /\ \A e, x : DeclaredEdge(e, x)' <=> DeclaredEdge(e, x)
  BY ListsFrame
<1>2. OrderKept(graph, main)'
  BY <1>1 DEF OrderedGraph, OrderKept
<1>3. \A n \in Module : \A e \in ToSet(graph'[n]) :
       \/ DeclaredEdge(e, n)'
       \/ e.color = "pink" /\ n \in ToSet(static'[main']) /\ e.to \in ToSet(static'[main'])
  BY <1>1 DEF OrderedGraph
<1>4. \A n \in visited' \cup {main'} : \A t \in Libs(n)' : HasEdge(graph', n, t)
  BY <1>1 DEF OrderedGraph
<1>5. Simple(graph')
  BY DEF OrderedGraph
<1> QED
  BY <1>2, <1>3, <1>4, <1>5 DEF OrderedGraph

\* The shared graph before the order edges: the declared edges.
LEMMA LinkedGraph ==
  ASSUME LinkInv, stage = "linked"
  PROVE  /\ graph \in Graphs /\ Simple(graph) /\ main \in Module
         /\ \A n \in Module : \A e \in ToSet(graph[n]) : DeclaredEdge(e, n)
         /\ \A n \in visited \cup {main} : \A t \in Libs(n) : HasEdge(graph, n, t)
         /\ \A n \in Module : \A t : HasEdge(graph, n, t) => t \in Libs(n)
<1>1. ListsInv /\ graph \in Graphs /\ \A m \in Module : OneEdgeEach(graph[m], Mentions(m))
  BY DEF LinkInv, GraphInv, Base
<1>2. visited \in SUBSET Module /\ main \in Module
  BY DEF LinkInv, VisitInv
<1>3. /\ \A n \in Module : graph[n] \in Seq(Edge)
      /\ \A n \in Module : \A t : HasEdge(graph, n, t) <=> \E e \in ToSet(graph[n]) : e.to = t
  BY <1>1, RowFacts
<1>4. ASSUME NEW n \in Module, n \in visited \cup {main} PROVE DeclaredRow(graph[n], n)
  <2>1. OneEdgeEach(graph[n], DeclaredEdges(n)) /\ graph[n] \in Seq(Edge)
    BY <1>1, <1>3, <1>4 DEF Mentions
  <2> QED
    BY <1>1, <2>1, DeclaredRowFacts
<1>5. ASSUME NEW n \in Module, n \notin visited \cup {main} PROVE graph[n] = <<>>
  <2>1. OneEdgeEach(graph[n], <<>>) /\ graph[n] \in Seq(Edge)
    BY <1>1, <1>3, <1>5 DEF Mentions
  <2> QED
    BY <2>1, NothingMentioned
<1>6. ToSet(<<>>) = {} /\ Distinct(<<>>)
  BY DEF ToSet, Distinct
<1>7. ASSUME NEW n \in Module PROVE Distinct(graph[n]) /\ \A e \in ToSet(graph[n]) : DeclaredEdge(e, n)
  <2>1. CASE n \in visited \cup {main}
    BY <1>4, <2>1 DEF DeclaredRow
  <2>2. CASE n \notin visited \cup {main}
    BY <1>5, <1>6, <2>2
  <2> QED
    BY <2>1, <2>2
<1>8. ASSUME NEW n \in visited \cup {main}, NEW t \in Libs(n) PROVE HasEdge(graph, n, t)
  <2>1. n \in Module
    BY <1>2
  <2> QED
    BY <1>3, <1>4, <2>1 DEF DeclaredRow
<1>9. ASSUME NEW n \in Module, NEW t, HasEdge(graph, n, t) PROVE t \in Libs(n)
  <2>1. PICK e \in ToSet(graph[n]) : e.to = t
    BY <1>3, <1>9
  <2> QED
    BY <1>7, <2>1 DEF DeclaredEdge, Libs
<1> QED
  BY <1>1, <1>2, <1>7, <1>8, <1>9 DEF Simple

\* In a list in good order, what is below a library is closed and holds no
\* earlier one.
LEMMA OrderlyApart ==
  ASSUME ListsInv, NEW m \in Module, Orderly(m), NEW g \in Graphs,
         \A n \in Module : \A t : HasEdge(g, n, t) => t \in Libs(n)
  PROVE  Apart(g, static[m])
<1> DEFINE libs == static[m]
<1>1. libs \in Seq(Module)
  BY DEF ListsInv
<1>2. \A i, j \in DOMAIN libs : i < j => libs[i] \notin Below(libs[j])
  BY DEF Orderly
<1> HIDE DEF libs
<1>3. ASSUME NEW j \in 1 .. Len(libs)
      PROVE  \E C \in SUBSET Module : libs[j] \in C /\ Closed(g, C) /\ \A i \in 1 .. j - 1 : libs[i] \notin C
  <2> DEFINE C == Below(libs[j])
  <2>1. libs[j] \in Module
    BY <1>1
  <2>2. C \in SUBSET Module /\ libs[j] \in C /\ \A s \in C : Libs(s) \subseteq C
    BY <2>1, BelowIsLeast
  <2>3. \A i \in 1 .. j - 1 : libs[i] \notin C
    <3>1. \A i \in 1 .. j - 1 : i \in DOMAIN libs /\ j \in DOMAIN libs /\ i < j
      BY <1>1
    <3> QED
      BY <1>2, <3>1
  <2> HIDE DEF C
  <2>4. Closed(g, C)
    BY <2>2, ClosedIff
  <2> QED
    BY <2>2, <2>3, <2>4
<1> QED
  BY <1>3 DEF Apart, libs

\* The order edges, added to the declared ones.
LEMMA OrderedMade ==
  ASSUME LinkInv, KeepDeclaredOrder
  PROVE  OrderedInv'
<1> DEFINE libs == static[main]
           h == OrderAll(graph, libs)
<1>1. ListsInv /\ graph \in Graphs
  BY DEF LinkInv, GraphInv
<1>2. stage = "linked" /\ graph' = h /\ UNCHANGED <<static, whole, visited>> /\ main' = main
  BY DEF KeepDeclaredOrder, declared
<1>3. /\ graph \in Graphs /\ Simple(graph) /\ main \in Module
      /\ \A n \in Module : \A e \in ToSet(graph[n]) : DeclaredEdge(e, n)
      /\ \A n \in visited \cup {main} : \A t \in Libs(n) : HasEdge(graph, n, t)
      /\ \A n \in Module : \A t : HasEdge(graph, n, t) => t \in Libs(n)
  BY <1>2, LinkedGraph
<1>4. libs \in Seq(Module)
  BY <1>1, <1>3 DEF ListsInv
<1> HIDE DEF libs
<1>5. OrderedUpto(graph, h, libs, Len(libs)) /\ (Apart(graph, libs) => AllBefore(h, libs, Len(libs)))
  BY <1>3, <1>4, OrderAllFacts
<1> HIDE DEF h
<1>6. ASSUME NEW n \in Module, NEW e \in ToSet(h[n])
      PROVE  DeclaredEdge(e, n) \/ (e.color = "pink" /\ n \in ToSet(libs) /\ e.to \in ToSet(libs))
  <2>1. CASE e \in ToSet(graph[n])
    BY <1>3, <2>1
  <2>2. CASE e.color = "pink" /\ Forward(libs, Len(libs), n, e.to)
    <3>1. PICK a \in 1 .. Len(libs), b \in 1 .. Len(libs) : n = libs[a] /\ e.to = libs[b]
      BY <2>2 DEF Forward
    <3>2. n \in ToSet(libs) /\ e.to \in ToSet(libs)
      BY <1>4, <3>1, InList
    <3> QED
      BY <2>2, <3>2
  <2> QED
    BY <1>5, <2>1, <2>2 DEF OrderedUpto
<1>7. ASSUME NEW n \in visited \cup {main}, NEW t \in Libs(n) PROVE HasEdge(h, n, t)
  <2>1. n \in Module /\ HasEdge(graph, n, t)
    BY <1>3 DEF LinkInv, VisitInv
  <2> QED
    BY <1>5, <2>1 DEF OrderedUpto
<1>8. OrderKept(h, main)
  <2> SUFFICES ASSUME Orderly(main) PROVE \A i, j \in DOMAIN libs : i < j => HasEdge(h, libs[i], libs[j])
    BY DEF OrderKept, libs
  <2>1. Apart(graph, libs)
    BY <1>1, <1>3, OrderlyApart DEF libs
  <2>2. DOMAIN libs = 1 .. Len(libs)
    BY <1>4
  <2> QED
    BY <1>5, <2>1, <2>2 DEF AllBefore
<1>9. Simple(h)
  BY <1>5 DEF OrderedUpto
<1>10. OrderedGraph(h, main)
  BY <1>6, <1>7, <1>8, <1>9 DEF OrderedGraph, libs
<1>11. OrderedGraph(graph, main)'
  BY <1>2, <1>10, OrderedFrame
<1> QED
  BY <1>11 DEF OrderedInv

\* Where the edges of the ordered graph go, and which it has.
LEMMA OrderedEdges ==
  ASSUME LinkInv, stage = "ordered", OrderedGraph(graph, main)
  PROVE  /\ main \in Module /\ graph \in Graphs
         /\ NodeSet(graph, main) = Below(main)
         /\ \A s \in Below(main) : \A t : HasEdge(graph, s, t) => t \in Below(main)
         /\ \A s \in Below(main) : \A t \in Libs(s) : HasEdge(graph, s, t)
<1>1. ListsInv /\ graph \in Graphs /\ FromTo(graph, visited \cup {main}, visited)
  BY DEF LinkInv, GraphInv
<1>2. visited \in SUBSET Module /\ main \in Module
  BY DEF LinkInv, VisitInv
<1>3. \A n \in Module : \A t : HasEdge(graph, n, t) <=> \E e \in ToSet(graph[n]) : e.to = t
  BY <1>1, RowFacts
<1>4. /\ Below(main) \in SUBSET Module /\ main \in Below(main)
      /\ \A s \in Below(main) : Libs(s) \subseteq Below(main)
  BY <1>1, <1>2, BelowIsLeast
<1>5. ASSUME NEW s \in Below(main), NEW t, HasEdge(graph, s, t) PROVE t \in Below(main)
  <2>1. s \in Module
    BY <1>4
  <2>2. PICK e \in ToSet(graph[s]) : e.to = t
    BY <1>3, <1>5, <2>1
  <2>3. e.to \in Libs(s) \/ e.to \in Libs(main)
    BY <2>1 DEF OrderedGraph, DeclaredEdge, Libs
  <2> QED
    BY <1>4, <2>2, <2>3
<1>6. /\ NodeSet(graph, main) \in SUBSET Module /\ main \in NodeSet(graph, main)
      /\ Closed(graph, NodeSet(graph, main))
      /\ \A C \in SUBSET Module : main \in C /\ Closed(graph, C) => NodeSet(graph, main) \subseteq C
  BY <1>1, <1>2, NodeSetIsLeast
<1>7. NodeSet(graph, main) \subseteq Below(main)
  <2>1. Closed(graph, Below(main))
    BY <1>1, <1>4, <1>5, ClosedIff
  <2> QED
    BY <1>4, <1>6, <2>1
<1>8. NodeSet(graph, main) \subseteq visited \cup {main}
  <2>1. Closed(graph, visited \cup {main})
    BY <1>1, <1>2 DEF FromTo, Closed
  <2> QED
    BY <1>2, <1>6, <2>1
<1>9. \A s \in visited \cup {main} : \A t \in Libs(s) : HasEdge(graph, s, t)
  BY DEF OrderedGraph
<1>10. Below(main) \subseteq NodeSet(graph, main)
  <2>1. \A s \in NodeSet(graph, main) : \A t : HasEdge(graph, s, t) => t \in NodeSet(graph, main)
    BY <1>1, <1>6, ClosedIff
  <2>2. \A s \in NodeSet(graph, main) : Libs(s) \subseteq NodeSet(graph, main)
    BY <1>8, <1>9, <2>1
  <2> QED
    BY <1>1, <1>2, <1>6, <2>2, BelowIsLeast
<1>11. Below(main) = NodeSet(graph, main)
  BY <1>7, <1>10
<1> QED
  BY <1>1, <1>2, <1>5, <1>8, <1>9, <1>11

\* The copy has the rows of the nodes that are reached, and no other.
LEMMA SubgraphFacts ==
  ASSUME NEW g \in Graphs, NEW n \in Module
  PROVE  /\ GetSubgraph(g, n) \in Graphs
         /\ \A s \in NodeSet(g, n) : GetSubgraph(g, n)[s] = g[s]
         /\ \A s \in Module \ NodeSet(g, n) : GetSubgraph(g, n)[s] = <<>>
         /\ NodeSet(GetSubgraph(g, n), n) = NodeSet(g, n)
<1> DEFINE h == GetSubgraph(g, n)
           N == NodeSet(g, n)
           R == NodeSet(h, n)
<1>1. h \in Graphs
  BY GetSubgraphWithin
<1>2. /\ N \in SUBSET Module /\ n \in N /\ Closed(g, N)
      /\ \A C \in SUBSET Module : n \in C /\ Closed(g, C) => N \subseteq C
  BY NodeSetIsLeast
<1>3. (\A s \in N : h[s] = g[s]) /\ \A s \in Module \ N : h[s] = <<>>
  BY <1>2 DEF GetSubgraph
<1> HIDE DEF h
<1>4. /\ R \in SUBSET Module /\ n \in R /\ Closed(h, R)
      /\ \A C \in SUBSET Module : n \in C /\ Closed(h, C) => R \subseteq C
  BY <1>1, NodeSetIsLeast
<1> HIDE DEF N, R
<1>5. R \subseteq N
  <2>1. Closed(h, N)
    BY <1>2, <1>3 DEF Closed
  <2> QED
    BY <1>2, <1>4, <2>1
<1>6. N \subseteq R
  <2>1. Closed(g, R)
    BY <1>3, <1>4, <1>5 DEF Closed
  <2> QED
    BY <1>2, <1>4, <2>1
<1> QED
  BY <1>1, <1>3, <1>5, <1>6 DEF h, N, R

\* The copy, when it is taken.
LEMMA CopyTaken ==
  ASSUME LinkInv, stage = "ordered", OrderedGraph(graph, main)
  PROVE  Copy(GetSubgraph(graph, main), main)
<1> DEFINE g == GetSubgraph(graph, main)
           B == Below(main)
<1>1. /\ main \in Module /\ graph \in Graphs
      /\ NodeSet(graph, main) = B
      /\ \A s \in B : \A t : HasEdge(graph, s, t) => t \in B
      /\ \A s \in B : \A t \in Libs(s) : HasEdge(graph, s, t)
  BY OrderedEdges
<1>2. ListsInv
  BY DEF LinkInv
<1>3. B \in SUBSET Module /\ main \in B /\ \A s \in B : Libs(s) \subseteq B
  BY <1>1, <1>2, BelowIsLeast
<1>4. /\ g \in Graphs
      /\ \A s \in B : g[s] = graph[s]
      /\ \A s \in Module \ B : g[s] = <<>>
      /\ NodeSet(g, main) = B
  BY <1>1, SubgraphFacts
<1> HIDE DEF g, B
<1>5. ToSet(<<>>) = {} /\ Distinct(<<>>)
  BY DEF ToSet, Distinct
<1>6. \A s \in Module : \A e \in ToSet(g[s]) : s \in B /\ e \in ToSet(graph[s])
  BY <1>4, <1>5
<1>7. \A s \in B : \A t : HasEdge(g, s, t) <=> HasEdge(graph, s, t)
  BY <1>4, SameRow
<1>8. \A s \in Module : \A e \in ToSet(graph[s]) :
        \/ DeclaredEdge(e, s)
        \/ e.color = "pink" /\ s \in ToSet(static[main]) /\ e.to \in ToSet(static[main])
  BY DEF OrderedGraph
<1>9. Simple(g)
  <2>1. \A s \in Module : Distinct(graph[s])
    BY DEF OrderedGraph, Simple
  <2> QED
    BY <1>4, <1>5, <2>1 DEF Simple
<1>10. EdgesIn(g, B)
  <2>1. \A s \in Module : \A e \in ToSet(graph[s]) : HasEdge(graph, s, e.to)
    BY <1>1, RowFacts
  <2> QED
    BY <1>1, <1>6, <2>1 DEF EdgesIn
<1>11. RedInside(g)
  <2> SUFFICES ASSUME NEW s \in Module, NEW e \in ToSet(g[s]), e.color = "red" PROVE e.to \in Contents(s)
    BY DEF RedInside
  <2>1. e.to \in ToSet(whole[s])
    BY <1>6, <1>8 DEF DeclaredEdge
  <2> QED
    BY <1>2, <2>1, ContentsIsLeast
<1>12. WholeRed(g, main)
  <2> SUFFICES ASSUME LinksOnce(main), NEW s \in Module, NEW e \in ToSet(g[s]),
                      NEW x \in Below(main), e.to \in ToSet(whole[x])
               PROVE  e.color = "red"
    BY DEF WholeRed
  <2>1. s \in Below(main) /\ main \in Below(main)
    BY <1>3, <1>6 DEF B
  <2>2. ToSet(static[s]) \cap ToSet(whole[x]) = {} /\ ToSet(static[main]) \cap ToSet(whole[x]) = {}
    BY <2>1 DEF LinksOnce
  <2> QED
    BY <1>6, <1>8, <2>2 DEF DeclaredEdge
<1>13. NoneLost(g, main)
  <2>1. \A b \in B : b \in Contents(b)
    BY <1>2, <1>3, ContentsIsLeast
  <2> QED
    BY <1>4, <2>1 DEF NoneLost, B
<1>14. UsesKept(g, main)
  <2> SUFFICES ASSUME NEW n \in B, NEW y \in Module, Uses(n, y), NEW C \in SUBSET Module, InsideOf(g, n, C)
               PROVE  \E v \in C : HasEdge(g, v, y)
    BY DEF UsesKept, B
  <2>1. /\ C \subseteq Contents(n) /\ n \in C
        /\ \A v \in C : \A t \in Contents(n) : HasEdge(g, v, t) => t \in C
    BY DEF InsideOf
  <2>2. n \in Module
    BY <1>3
  <2>3. Contents(n) \subseteq B
    <3>1. Contents(n) \subseteq Below(n) /\ Below(n) \subseteq Below(main)
      BY <1>1, <1>2, <2>2, Nested DEF B
    <3> QED
      BY <3>1 DEF B
  <2>4. \A s \in Contents(n) : ToSet(whole[s]) \subseteq Contents(n)
    BY <1>2, <2>2, ContentsIsLeast
  <2>5. \A s \in B : \A t \in Libs(s) : HasEdge(g, s, t)
    BY <1>1, <1>7
  <2>6. \A s \in C : ToSet(whole[s]) \subseteq C
    BY <2>1, <2>3, <2>4, <2>5 DEF Libs
  <2>7. Contents(n) \subseteq C
    BY <1>2, <2>1, <2>2, <2>6, ContentsIsLeast
  <2>8. PICK c \in Contents(n) : y \in ToSet(static[c])
    BY DEF Uses
  <2>9. y \in Libs(c)
    BY <2>8 DEF Libs
  <2> QED
    BY <2>3, <2>5, <2>7, <2>9
<1>15. OrderKept(g, main)
  <2> SUFFICES ASSUME Orderly(main), NEW i \in DOMAIN static[main], NEW j \in DOMAIN static[main], i < j
               PROVE  HasEdge(g, static[main][i], static[main][j])
    BY DEF OrderKept
  <2>1. HasEdge(graph, static[main][i], static[main][j])
    BY DEF OrderedGraph, OrderKept
  <2>2. static[main][i] \in B
    <3>1. static[main][i] \in Libs(main)
      BY DEF Libs, ToSet
    <3> QED
      BY <1>3, <3>1
  <2> QED
    BY <1>7, <2>1, <2>2
<1> QED
  BY <1>9, <1>10, <1>11, <1>12, <1>13, <1>14, <1>15 DEF Copy, B, g

-----------------------------------------------------------------------------
(***************************************************************************)
(* The line that is made of a copy without red edges.                      *)
(***************************************************************************)

\* A list without its first element.
LEMMA TailFacts ==
  ASSUME NEW g, NEW r, InOrder(g, r), Len(r) >= 1
  PROVE  /\ Tail(r) \in Seq(Module)
         /\ \A x : x \in ToSet(Tail(r)) <=> x \in ToSet(r) /\ x # r[1]
         /\ \A x, y : Precedes(x, y, r) /\ x # r[1] => Precedes(x, y, Tail(r))
<1> DEFINE t == Tail(r)
           n == Len(r)
<1>1. r \in Seq(Module) /\ (\A i, j \in 1 .. n : r[i] = r[j] => i = j)
  BY DEF InOrder
<1>2. n \in Nat /\ n >= 1 /\ DOMAIN r = 1 .. n /\ r # <<>>
  BY <1>1
<1>3. t \in Seq(Module) /\ Len(t) = n - 1 /\ \A i \in 1 .. n - 1 : t[i] = r[i + 1]
  BY <1>1, <1>2
<1>4. DOMAIN t = 1 .. n - 1
  BY <1>3
<1> HIDE DEF t, n
<1>5. (\A x : x \in ToSet(r) <=> \E i \in 1 .. n : r[i] = x) /\ \A x : x \in ToSet(t) <=> \E i \in 1 .. n - 1 : t[i] = x
  BY <1>2, <1>4 DEF ToSet
<1>6. \A i \in 2 .. n : i - 1 \in 1 .. n - 1 /\ t[i - 1] = r[i] /\ r[i] # r[1]
  <2>1. \A i \in 2 .. n : i - 1 \in 1 .. n - 1 /\ (i - 1) + 1 = i /\ i \in 1 .. n /\ 1 \in 1 .. n /\ i # 1
    BY <1>2
  <2> QED
    BY <1>1, <1>3, <2>1
<1>7. \A i \in 1 .. n - 1 : i + 1 \in 2 .. n /\ i + 1 \in 1 .. n
  BY <1>2
<1>8. \A i \in 1 .. n : i = 1 \/ i \in 2 .. n
  BY <1>2
<1>9. ASSUME NEW x PROVE x \in ToSet(t) <=> x \in ToSet(r) /\ x # r[1]
  <2>1. ASSUME x \in ToSet(t) PROVE x \in ToSet(r) /\ x # r[1]
    <3>1. PICK i \in 1 .. n - 1 : t[i] = x
      BY <1>5, <2>1
    <3>2. r[i + 1] = x
      BY <1>3, <3>1
    <3> QED
      BY <1>5, <1>6, <1>7, <3>2
  <2>2. ASSUME x \in ToSet(r), x # r[1] PROVE x \in ToSet(t)
    <3>1. PICK i \in 1 .. n : r[i] = x
      BY <1>5, <2>2
    <3>2. i \in 2 .. n
      BY <1>8, <2>2, <3>1
    <3> QED
      BY <1>5, <1>6, <3>1, <3>2
  <2> QED
    BY <2>1, <2>2
<1>10. ASSUME NEW x, NEW y, Precedes(x, y, r), x # r[1] PROVE Precedes(x, y, t)
  <2>1. PICK i \in 1 .. n, j \in 1 .. n : i < j /\ r[i] = x /\ r[j] = y
    BY <1>2, <1>10 DEF Precedes
  <2>2. i \in 2 .. n
    BY <1>8, <1>10, <2>1
  <2>3. j \in 2 .. n /\ i - 1 < j - 1
    BY <1>2, <2>1, <2>2
  <2>4. i - 1 \in DOMAIN t /\ j - 1 \in DOMAIN t /\ t[i - 1] = x /\ t[j - 1] = y
    BY <1>4, <1>6, <2>1, <2>2, <2>3
  <2> QED
    BY <2>3, <2>4 DEF Precedes
<1> QED
  BY <1>3, <1>9, <1>10 DEF t

\* In a list in order, what a node reaches comes after it.
LEMMA ReachedAfter ==
  ASSUME NEW g \in Graphs, NEW r, InOrder(g, r), NEW x \in ToSet(r), NEW y \in NodeSet(g, x), y # x
  PROVE  Precedes(x, y, r)
<1>1. /\ r \in Seq(Module)
      /\ \A i \in 1 .. Len(r) : \A z : HasEdge(g, r[i], z) => \E j \in i + 1 .. Len(r) : r[j] = z
  BY DEF InOrder
<1>2. DOMAIN r = 1 .. Len(r) /\ Len(r) \in Nat /\ \A i \in 1 .. Len(r) : r[i] \in Module
  BY <1>1
<1>3. PICK i \in 1 .. Len(r) : r[i] = x
  BY <1>1, InList
<1> DEFINE C == {r[j] : j \in i .. Len(r)}
<1>4. \A j \in i .. Len(r) : j \in 1 .. Len(r)
  BY <1>2
<1>5. C \in SUBSET Module /\ x \in C
  BY <1>2, <1>3, <1>4
<1>6. ASSUME NEW s \in C, NEW z, HasEdge(g, s, z) PROVE z \in C
  <2>1. PICK j \in i .. Len(r) : r[j] = s
    OBVIOUS
  <2>2. PICK k \in j + 1 .. Len(r) : r[k] = z
    BY <1>1, <1>4, <1>6, <2>1
  <2>3. k \in i .. Len(r)
    BY <1>2, <2>1, <2>2
  <2> QED
    BY <2>2, <2>3
<1>7. x \in Module
  BY <1>2, <1>3
<1>8. y \in C
  <2> HIDE DEF C
  <2>1. Closed(g, C)
    BY <1>5, <1>6, ClosedIff
  <2> QED
    BY <1>5, <1>7, <2>1, NodeSetIsLeast
<1>9. PICK j \in i .. Len(r) : r[j] = y
  BY <1>8
<1>10. i < j
  BY <1>2, <1>3, <1>9
<1> QED
  BY <1>2, <1>3, <1>4, <1>9, <1>10 DEF Precedes

\* What is reached from m is below it, and has an edge to it if it is not m.
LEMMA ReachedIsBelow ==
  ASSUME ListsInv, NEW g \in Graphs, NEW m \in Module, EdgesIn(g, Below(m))
  PROVE  /\ NodeSet(g, m) \subseteq Below(m)
         /\ \A l \in NodeSet(g, m) : l # m => \E s \in NodeSet(g, m) : HasEdge(g, s, l)
<1> DEFINE N == NodeSet(g, m)
           B == Below(m)
           C == {l \in N : l = m \/ \E s \in N : HasEdge(g, s, l)}
<1>1. N \in SUBSET Module /\ m \in N /\ Closed(g, N)
  BY NodeSetIsLeast
<1>2. \A X \in SUBSET Module : m \in X /\ Closed(g, X) => N \subseteq X
  BY NodeSetIsLeast
<1>3. B \in SUBSET Module /\ m \in B
  BY BelowIsLeast
<1>4. \A n \in Module : \A t : HasEdge(g, n, t) <=> \E e \in ToSet(g[n]) : e.to = t
  BY RowFacts
<1> HIDE DEF N, B
<1>5. N \subseteq B
  <2>1. \A n \in Module : \A t : HasEdge(g, n, t) => t \in B
    BY <1>4 DEF EdgesIn, B
  <2>2. Closed(g, B)
    BY <1>3, <2>1, ClosedIff
  <2> QED
    BY <1>2, <1>3, <2>2
<1>6. \A s \in N : \A t : HasEdge(g, s, t) => t \in N
  BY <1>1, ClosedIff
<1>7. C \in SUBSET Module /\ m \in C /\ \A s \in C : \A t : HasEdge(g, s, t) => t \in C
  BY <1>1, <1>6
<1>8. N \subseteq C
  <2> HIDE DEF C
  <2>1. Closed(g, C)
    BY <1>7, ClosedIff
  <2> QED
    BY <1>2, <1>7, <2>1
<1> QED
  BY <1>5, <1>8 DEF N, B

(***************************************************************************)
(* What the line of a module is, once it is sorted.                         *)
(***************************************************************************)
Line(m, L) ==
  /\ Below(m) \subseteq UNION {Contents(x) : x \in {m} \cup ToSet(L)}
  /\ \A x, y \in ToSet(L) : x # y /\ Uses(x, y) /\ y \notin Contents(x) => Precedes(x, y, L)
  /\ LinksOnce(m) =>
       ToSet(L) = {l \in Below(m) \ {m} : \A x \in Below(m) : l \notin ToSet(whole[x])}
  /\ Orderly(m) =>
       \A i, j \in DOMAIN static[m] : i < j => Precedes(static[m][i], static[m][j], L)

\* A copy without red edges, sorted.
LEMMA SortedLine ==
  ASSUME ListsInv, NEW m \in Module, m \notin Libs(m), NEW g \in Graphs, Copy(g, m),
         \A s \in Below(m) : \A e \in ToSet(g[s]) : e.color # "red",
         NEW r, InOrder(g, r), ToSet(r) = NodeSet(g, m), Len(r) >= 1, r[1] = m
  PROVE  Line(m, Tail(r))
<1> DEFINE L == Tail(r)
           N == NodeSet(g, m)
           B == Below(m)
<1>1. /\ \A x : x \in ToSet(L) <=> x \in N /\ x # m
      /\ \A x, y : Precedes(x, y, r) /\ x # m => Precedes(x, y, L)
  BY TailFacts
<1> HIDE DEF L
<1>2. N \subseteq B /\ \A l \in N : l # m => \E s \in N : HasEdge(g, s, l)
  BY ReachedIsBelow DEF Copy
<1>3. B \in SUBSET Module /\ m \in B /\ \A s \in B : Libs(s) \subseteq B
  BY BelowIsLeast
<1>4. m \in N
  BY NodeSetIsLeast
<1>5. \A n \in Module : \A t : HasEdge(g, n, t) <=> \E e \in ToSet(g[n]) : e.to = t
  BY RowFacts
<1>6. ToSet(r) = N
  OBVIOUS
<1>7. \A b \in B : \E x \in N : b \in Contents(x)
  BY DEF Copy, NoneLost
<1>8. B \subseteq UNION {Contents(x) : x \in {m} \cup ToSet(L)}
  BY <1>1, <1>7
<1>9. ASSUME NEW x \in ToSet(L), NEW y \in ToSet(L), x # y, Uses(x, y), y \notin Contents(x)
      PROVE  Precedes(x, y, L)
  <2> DEFINE R == NodeSet(g, x)
             C == Contents(x) \cap R
  <2>1. x \in N /\ y \in N /\ x # m /\ x \in B /\ x \in Module /\ y \in Module
    BY <1>1, <1>2, <1>3, <1>9
  <2>2. R \in SUBSET Module /\ x \in R /\ Closed(g, R)
    BY <2>1, NodeSetIsLeast
  <2>3. Contents(x) \in SUBSET Module /\ x \in Contents(x)
    BY <2>1, ContentsIsLeast
  <2> HIDE DEF R
  <2>4. \A s \in R : \A t : HasEdge(g, s, t) => t \in R
    BY <2>2, ClosedIff
  <2>5. C \in SUBSET Module /\ InsideOf(g, x, C)
    BY <2>2, <2>3, <2>4 DEF InsideOf
  <2> HIDE DEF C
  <2>6. PICK v \in C : HasEdge(g, v, y)
    <3>1. UsesKept(g, m)
      BY DEF Copy
    <3> QED
      BY <1>9, <2>1, <2>5, <3>1 DEF UsesKept
  <2>7. y \in R
    BY <2>4, <2>6 DEF C
  <2>8. Precedes(x, y, r)
    <3>1. x \in ToSet(r) /\ y # x
      BY <1>6, <1>9, <2>1
    <3> QED
      BY <2>7, <3>1, ReachedAfter DEF R
  <2> QED
    BY <1>1, <2>1, <2>8
<1>10. ASSUME LinksOnce(m)
       PROVE  ToSet(L) = {l \in B \ {m} : \A x \in B : l \notin ToSet(whole[x])}
  <2>1. ASSUME NEW l \in ToSet(L), NEW x \in B PROVE l \in B \ {m} /\ l \notin ToSet(whole[x])
    <3>1. l \in N /\ l # m
      BY <1>1, <2>1
    <3>2. PICK s \in N : HasEdge(g, s, l)
      BY <1>2, <3>1
    <3>3. s \in B /\ s \in Module
      BY <1>2, <1>3
    <3>4. PICK e \in ToSet(g[s]) : e.to = l
      BY <1>5, <3>2, <3>3
    <3>5. e.color # "red"
      BY <3>3, <3>4
    <3>6. l \notin ToSet(whole[x])
      BY <1>10, <3>3, <3>4, <3>5 DEF Copy, WholeRed
    <3> QED
      BY <1>2, <3>1, <3>6
  <2>2. ASSUME NEW l \in B \ {m}, \A x \in B : l \notin ToSet(whole[x]) PROVE l \in ToSet(L)
    <3>1. PICK x \in N : l \in Contents(x)
      BY <1>7
    <3>2. x \in B /\ x \in Module
      BY <1>2, <1>3
    <3>3. l = x
      <4> SUFFICES ASSUME l # x PROVE FALSE
        OBVIOUS
      <4>1. PICK e \in Contents(x) : l \in ToSet(whole[e])
        BY <3>1, <3>2, InsideIsWhole
      <4>2. Contents(x) \subseteq Below(x) /\ Below(x) \subseteq B
        BY <3>2, Nested
      <4> QED
        BY <2>2, <4>1, <4>2
    <3> QED
      BY <1>1, <3>1, <3>3
  <2>3. \A l \in ToSet(L) : l \in B \ {m} /\ \A x \in B : l \notin ToSet(whole[x])
    BY <1>3, <2>1
  <2> QED
    BY <2>2, <2>3
<1>11. ASSUME Orderly(m), NEW i \in DOMAIN static[m], NEW j \in DOMAIN static[m], i < j
       PROVE  Precedes(static[m][i], static[m][j], L)
  <2> DEFINE a == static[m][i]
             b == static[m][j]
  <2>1. a \in ToSet(static[m])
    BY DEF ToSet
  <2>2. HasEdge(g, a, b)
    BY <1>11 DEF Copy, OrderKept
  <2> HIDE DEF a, b
  <2>3. LinksOnce(m)
    BY <1>11 DEF Orderly
  <2>4. a \in B /\ a # m
    BY <1>3, <2>1 DEF Libs
  <2>5. \A x \in B : a \notin ToSet(whole[x])
    BY <1>3, <2>1, <2>3 DEF LinksOnce
  <2>6. a \in ToSet(L)
    BY <1>10, <2>3, <2>4, <2>5
  <2>7. PICK k \in 1 .. Len(r) : r[k] = a
    <3>1. r \in Seq(Module) /\ a \in ToSet(r)
      BY <1>1, <1>6, <2>6 DEF InOrder
    <3> QED
      BY <3>1, InList
  <2>8. PICK n \in k + 1 .. Len(r) : r[n] = b
    BY <2>2, <2>7 DEF InOrder
  <2>9. Precedes(a, b, r)
    <3>1. r \in Seq(Module)
      BY DEF InOrder
    <3>2. n \in DOMAIN r /\ k \in DOMAIN r /\ k < n
      BY <3>1
    <3> QED
      BY <2>7, <2>8, <3>2 DEF Precedes
  <2>10. Precedes(a, b, L)
    BY <1>1, <2>4, <2>9
  <2> QED
    BY <2>10 DEF a, b
<1> QED
  BY <1>8, <1>9, <1>10, <1>11, Zenon DEF Line, L, B

-----------------------------------------------------------------------------
(***************************************************************************)
(* The invariant, step by step.                                            *)
(***************************************************************************)

\* The lines made so far.
LineInv ==
  /\ resolved \in [Module -> Seq(Module)]
  /\ \A m \in Module : Sorted(m) => Line(m, resolved[m])

LinesInv == LinkInv /\ OrderedInv /\ CopyInv /\ LineInv

\* What a line is does not change.
LEMMA LineFrame ==
  ASSUME UNCHANGED <<static, whole>>, NEW m \in Module, Line(m, resolved'[m])
  PROVE  Line(m, resolved[m])'
<1>1. /\ Below(m)' = Below(m) /\ (LinksOnce(m)' <=> LinksOnce(m)) /\ (Orderly(m)' <=> Orderly(m))
      /\ \A x : Contents(x)' = Contents(x)
      /\ \A x, y : Uses(x, y)' <=> Uses(x, y)
  BY ListsFrame
<1> DEFINE L == resolved'[m]
<1>2. Below(m)' \subseteq UNION {Contents(x)' : x \in {m} \cup ToSet(L)}
  <2>1. Below(m) \subseteq UNION {Contents(x) : x \in {m} \cup ToSet(L)}
    BY Zenon DEF Line
  <2> HIDE DEF L
  <2> QED
    BY <1>1, <2>1
<1>3. \A x, y \in ToSet(L) : x # y /\ Uses(x, y)' /\ y \notin Contents(x)' => Precedes(x, y, L)
  <2>1. \A x, y \in ToSet(L) : x # y /\ Uses(x, y) /\ y \notin Contents(x) => Precedes(x, y, L)
    BY Zenon DEF Line
  <2> HIDE DEF L
  <2> QED
    BY <1>1, <2>1
<1>4. LinksOnce(m)' => ToSet(L) = {l \in Below(m)' \ {m} : \A x \in Below(m)' : l \notin ToSet(whole'[x])}
  BY <1>1 DEF Line
<1>5. Orderly(m)' => \A i, j \in DOMAIN static'[m] : i < j => Precedes(static'[m][i], static'[m][j], L)
  BY <1>1 DEF Line
<1> QED
  BY <1>2, <1>3, <1>4, <1>5 DEF Line

\* Steps that change no line.
LEMMA LineStays ==
  ASSUME LineInv, UNCHANGED <<declared, resolved>>, \A m \in Module : Sorted(m)' => Sorted(m)
  PROVE  LineInv'
<1>1. UNCHANGED <<static, whole>> /\ resolved' = resolved
  BY DEF declared
<1>2. ASSUME NEW m \in Module, Sorted(m)' PROVE Line(m, resolved[m])'
  <2>1. Line(m, resolved[m])
    BY <1>2 DEF LineInv
  <2>2. Line(m, resolved'[m])
    BY <1>1, <2>1
  <2> QED
    BY <1>1, <2>2, LineFrame
<1>3. resolved' \in [Module -> Seq(Module)]
  BY <1>1 DEF LineInv
<1> QED
  BY <1>2, <1>3 DEF LineInv

\* Steps that change nothing of a copy.
LEMMA CopyStays ==
  ASSUME CopyInv, UNCHANGED <<declared, main, stage, scan>>
  PROVE  CopyInv'
<1> SUFFICES ASSUME stage = "proxies" PROVE CopyInv'
  BY DEF CopyInv
<1>1. /\ UNCHANGED <<static, whole>> /\ main' = main /\ sub' = sub /\ priority' = priority
      /\ toScan' = toScan /\ removed' = removed
  BY DEF declared, scan
<1>2. /\ Copy(sub, main) /\ DOMAIN priority = Below(main)
      /\ \A x \in Below(main) : priority[x] \in Int
      /\ NoRedLeft
  BY DEF CopyInv
<1>3. Copy(sub, main)'
  <2>1. Copy(sub', main)
    BY <1>1, <1>2
  <2> QED
    BY <1>1, <2>1, CopyFrame
<1>4. \A x : Below(x)' = Below(x)
  BY <1>1, ListsFrame
<1>5. DOMAIN priority' = Below(main)' /\ \A x \in Below(main)' : priority'[x] \in Int
  BY <1>1, <1>2, <1>4
<1>6. NoRedLeft'
  BY <1>1, <1>2, <1>4 DEF NoRedLeft
<1> QED
  BY <1>3, <1>5, <1>6 DEF CopyInv

\* Steps that change nothing of the ordered graph.
LEMMA OrderedStays ==
  ASSUME OrderedInv, UNCHANGED <<declared, visited, graph, main, stage>>
  PROVE  OrderedInv'
<1> SUFFICES ASSUME stage = "ordered" PROVE OrderedInv'
  BY DEF OrderedInv
<1>1. UNCHANGED <<static, whole, visited>> /\ main' = main /\ graph' = graph
  BY DEF declared
<1>2. OrderedGraph(graph', main)
  BY <1>1 DEF OrderedInv
<1>3. OrderedGraph(graph, main)'
  BY <1>1, <1>2, OrderedFrame
<1> QED
  BY <1>3 DEF OrderedInv

\* Neither is there without a visit that is far enough.
LEMMA NotYet ==
  /\ stage' # "ordered" => OrderedInv'
  /\ stage' # "proxies" => CopyInv'
BY DEF OrderedInv, CopyInv

\* The invariant holds when the pass begins.
LEMMA LinesInvInit == Init => LinesInv
<1> SUFFICES ASSUME Init PROVE LinesInv
  OBVIOUS
<1>1. LinkInv
  BY LinkInvInit
<1>2. OrderedInv /\ CopyInv
  BY DEF Init, OrderedInv, CopyInv
<1>3. LineInv
  <2>1. visited = {} /\ resolved = [m \in Module |-> <<>>]
    BY DEF Init
  <2>2. resolved \in [Module -> Seq(Module)]
    BY <2>1
  <2>3. \A m \in Module : ~Sorted(m)
    BY <2>1 DEF Sorted
  <2> QED
    BY <2>2, <2>3 DEF LineInv
<1> QED
  BY <1>1, <1>2, <1>3 DEF LinesInv

\* The copy is taken.
LEMMA TakeSubgraphCopies ==
  ASSUME LinkInv, OrderedInv, TakeSubgraph
  PROVE  CopyInv'
<1> DEFINE g == GetSubgraph(graph, main)
           N == NodeSet(graph, main)
<1>1. /\ stage = "ordered" /\ sub' = g /\ toScan' = N /\ UNCHANGED <<static, whole>> /\ main' = main
      /\ priority' = [n \in N |-> 10 * Cardinality(GetSources(sub', n)) - Cardinality(NodeSet(sub', n))]
  BY Zenon DEF TakeSubgraph, declared
<1>2. OrderedGraph(graph, main)
  BY <1>1 DEF OrderedInv
<1>3. main \in Module /\ graph \in Graphs /\ N = Below(main)
  BY <1>1, <1>2, OrderedEdges
<1>4. Copy(g, main)
  BY <1>1, <1>2, CopyTaken
<1>5. g \in Graphs
  BY <1>3, SubgraphFacts
<1> HIDE DEF g, N
<1>6. Copy(sub, main)'
  BY <1>1, <1>4, CopyFrame
<1>7. Below(main)' = Below(main)
  BY <1>1, ListsFrame
<1>8. N \in SUBSET Module
  BY <1>3, NodeSetIsLeast DEF N
<1>9. ASSUME NEW n \in N PROVE priority'[n] \in Int
  <2>1. n \in Module
    BY <1>8
  <2>2. NodeSet(g, n) \in SUBSET Module /\ GetSources(g, n) \in SUBSET Module
    BY <1>5, <2>1, NodeSetIsLeast DEF GetSources
  <2>3. \A X \in SUBSET Module : Cardinality(X) \in Nat
    BY ModuleAssumption, FS_Subset, FS_CardinalityType
  <2>4. Cardinality(NodeSet(g, n)) \in Nat /\ Cardinality(GetSources(g, n)) \in Nat
    BY <2>2, <2>3
  <2>5. priority'[n] = 10 * Cardinality(GetSources(g, n)) - Cardinality(NodeSet(g, n))
    BY <1>1
  <2> QED
    BY <2>4, <2>5
<1>10. DOMAIN priority' = N
  BY <1>1
<1>11. NoRedLeft'
  BY <1>1, <1>3, <1>7 DEF NoRedLeft
<1> QED
  BY <1>3, <1>6, <1>7, <1>9, <1>10, <1>11 DEF CopyInv

\* One node is scanned.
LEMMA ScanNodeCopies ==
  ASSUME LinkInv, CopyInv, NEW n \in Module, ScanNode(n)
  PROVE  CopyInv'
<1>1. /\ stage = "proxies" /\ sub' = DeleteProxiesOf(sub, n) /\ toScan' = toScan \ {n}
      /\ removed' = (removed \/ sub' # sub) /\ UNCHANGED <<static, whole>> /\ main' = main
      /\ priority' = priority
  BY Zenon DEF ScanNode, declared
<1>2. /\ Copy(sub, main) /\ DOMAIN priority = Below(main)
      /\ \A x \in Below(main) : priority[x] \in Int
      /\ NoRedLeft
  BY <1>1 DEF CopyInv
<1>3. ListsInv /\ sub \in Graphs /\ Acyclic(sub)
  BY <1>1 DEF LinkInv, SubInv
<1>4. main \in Module
  BY <1>1 DEF LinkInv, VisitInv
<1>5. /\ Copy(sub', main)
      /\ sub' = sub => \A e \in ToSet(sub[n]) : e.color # "red"
  BY <1>1, <1>2, <1>3, <1>4, CopyScanned
<1>6. Copy(sub, main)'
  BY <1>1, <1>5, CopyFrame
<1>7. Below(main)' = Below(main)
  BY <1>1, ListsFrame
<1>8. DOMAIN priority' = Below(main)' /\ \A x \in Below(main)' : priority'[x] \in Int
  BY <1>1, <1>2, <1>7
<1>9. NoRedLeft'
  <2> SUFFICES ASSUME ~removed', NEW s \in Below(main) \ toScan', NEW e \in ToSet(sub'[s])
               PROVE  e.color # "red"
    BY <1>7 DEF NoRedLeft
  <2>1. ~removed /\ sub' = sub
    BY <1>1
  <2>2. CASE s = n
    BY <1>5, <2>1, <2>2
  <2>3. CASE s # n
    <3>1. s \in Below(main) \ toScan
      BY <1>1, <2>3
    <3> QED
      BY <1>2, <2>1, <3>1 DEF NoRedLeft
  <2> QED
    BY <2>2, <2>3
<1> QED
  BY <1>6, <1>8, <1>9 DEF CopyInv

\* Another round begins.
LEMMA ScanAgainCopies ==
  ASSUME CopyInv, ScanAgain
  PROVE  CopyInv'
<1>1. /\ stage = "proxies" /\ sub' = sub /\ toScan' = DOMAIN priority
      /\ UNCHANGED <<static, whole>> /\ main' = main /\ priority' = priority
  BY Zenon DEF ScanAgain, declared
<1>2. /\ Copy(sub, main) /\ DOMAIN priority = Below(main)
      /\ \A x \in Below(main) : priority[x] \in Int
  BY <1>1 DEF CopyInv
<1>3. Copy(sub, main)'
  <2>1. Copy(sub', main)
    BY <1>1, <1>2
  <2> QED
    BY <1>1, <2>1, CopyFrame
<1>4. Below(main)' = Below(main)
  BY <1>1, ListsFrame
<1>5. DOMAIN priority' = Below(main)' /\ \A x \in Below(main)' : priority'[x] \in Int
  BY <1>1, <1>2, <1>4
<1>6. NoRedLeft'
  BY <1>1, <1>2, <1>4 DEF NoRedLeft
<1> QED
  BY <1>3, <1>5, <1>6 DEF CopyInv

\* The line of the module that is sorted.
LEMMA SortMakesLine ==
  ASSUME LinkInv, CopyInv, LineInv, Sort
  PROVE  LineInv'
<1> DEFINE r == TopologicalSort(sub, priority, main)
<1>1. stage = "proxies" /\ toScan = {} /\ ~removed /\ visited' = visited \cup {main} /\ UNCHANGED <<static, whole, disabled>>
  BY DEF Sort, declared
<1>2. ListsInv /\ sub \in Graphs /\ Acyclic(sub)
  BY <1>1 DEF LinkInv, SubInv
<1>3. main \in Module /\ main \notin Libs(main) /\ main \notin visited
  BY <1>1 DEF LinkInv, VisitInv
<1>4. IsDAG(sub, main)
  BY <1>2, <1>3, AcyclicIsDAG
<1>5. resolved' = [resolved EXCEPT ![main] = Tail(r)] /\ phase' = phase
  BY <1>4 DEF Sort
<1>6. /\ Copy(sub, main) /\ DOMAIN priority = Below(main)
      /\ \A x \in Below(main) : priority[x] \in Int
      /\ NoRedLeft
  BY <1>1 DEF CopyInv
<1>7. \A s \in Below(main) : \A e \in ToSet(sub[s]) : e.color # "red"
  BY <1>1, <1>6 DEF NoRedLeft
<1>8. \A s \in Module : \A x : HasEdge(sub, s, x) => priority[x] \in Int
  <2>1. \A s \in Module : \A x : HasEdge(sub, s, x) <=> \E e \in ToSet(sub[s]) : e.to = x
    BY <1>2, RowFacts
  <2> QED
    BY <1>6, <2>1 DEF Copy, EdgesIn
<1>9. InOrder(sub, r) /\ ToSet(r) = NodeSet(sub, main) /\ Len(r) >= 1 /\ r[1] = main
  BY <1>2, <1>3, <1>8, SortFacts
<1> HIDE DEF r
<1>10. Line(main, Tail(r))
  BY <1>2, <1>3, <1>6, <1>7, <1>9, SortedLine
<1>11. Tail(r) \in Seq(Module)
  BY <1>9, TailFacts
<1>12. /\ resolved' \in [Module -> Seq(Module)] /\ resolved'[main] = Tail(r)
       /\ \A m \in Module : m # main => resolved'[m] = resolved[m]
  <2>1. resolved \in [Module -> Seq(Module)]
    BY DEF LineInv
  <2> DEFINE t == Tail(r)
  <2>2. t \in Seq(Module) /\ resolved' = [resolved EXCEPT ![main] = t]
    BY <1>5, <1>11
  <2> HIDE DEF t
  <2>3. resolved'[main] = t
    BY <1>3, <2>1, <2>2
  <2> QED
    BY <1>3, <2>1, <2>2, <2>3 DEF t
<1>13. ASSUME NEW m \in Module, Sorted(m)' PROVE Line(m, resolved[m])'
  <2>1. CASE m = main
    <3>1. Line(m, resolved'[m])
      BY <1>10, <1>12, <2>1
    <3> QED
      BY <1>1, <3>1, LineFrame
  <2>2. CASE m # main
    <3>1. Sorted(m)
      BY <1>1, <1>5, <1>13, <2>2 DEF Sorted
    <3>2. Line(m, resolved'[m])
      BY <1>12, <2>2, <3>1 DEF LineInv
    <3> QED
      BY <1>1, <3>2, LineFrame
  <2> QED
    BY <2>1, <2>2
<1> QED
  BY <1>12, <1>13 DEF LineInv

\* Every step keeps the invariant.
LEMMA LinesInvNext == LinesInv /\ [Next]_vars => LinesInv'
<1> SUFFICES ASSUME LinesInv, [Next]_vars PROVE LinesInv'
  OBVIOUS
<1>0. LinkInv /\ OrderedInv /\ CopyInv /\ LineInv
  BY DEF LinesInv
<1>1. LinkInv'
  BY <1>0, LinkInvNext
<1>2. main = NoModule => stage = "idle"
  BY <1>0 DEF LinkInv, VisitInv
<1>3. CASE CheckMultipleLinking
  <2>1. UNCHANGED <<declared, visited, graph, main, stage, scan, resolved>> /\ phase = "check"
    BY <1>3 DEF CheckMultipleLinking
  <2>2. \A m \in Module : Sorted(m)' => Sorted(m)
    BY <2>1 DEF Sorted, declared
  <2>3. OrderedInv'
    BY <1>0, <2>1, OrderedStays
  <2>4. CopyInv'
    BY <1>0, <2>1, CopyStays
  <2>5. LineInv'
    BY <1>0, <2>1, <2>2, LineStays
  <2> QED
    BY <1>1, <2>3, <2>4, <2>5 DEF LinesInv
<1>4. ASSUME NEW m \in Module, Skip(m) PROVE LinesInv'
  <2>1. /\ UNCHANGED <<declared, resolved>> /\ phase' = phase /\ stage' = stage /\ main = NoModule
        /\ visited' = visited \cup {m} /\ m \in disabled \cup Prebuilt
    BY <1>4 DEF Skip, Visit
  <2>2. \A x \in Module : Sorted(x)' => Sorted(x)
    BY <2>1 DEF Sorted, declared
  <2>3. OrderedInv' /\ CopyInv'
    BY <1>2, <2>1, NotYet
  <2>4. LineInv'
    BY <1>0, <2>1, <2>2, LineStays
  <2> QED
    BY <1>1, <2>3, <2>4 DEF LinesInv
<1>5. ASSUME NEW m \in Module, Link(m) PROVE LinesInv'
  <2>1. UNCHANGED <<declared, resolved, visited>> /\ phase' = phase /\ stage' = "linked"
    BY <1>5 DEF Link
  <2>2. \A x \in Module : Sorted(x)' => Sorted(x)
    BY <2>1 DEF Sorted, declared
  <2>3. OrderedInv' /\ CopyInv'
    BY <2>1, NotYet
  <2>4. LineInv'
    BY <1>0, <2>1, <2>2, LineStays
  <2> QED
    BY <1>1, <2>3, <2>4 DEF LinesInv
<1>6. ASSUME NEW m \in Module, DieOnMissingLib(m) PROVE LinesInv'
  <2>1. UNCHANGED <<declared, resolved>> /\ phase' = "died" /\ stage' = stage /\ main = NoModule
    BY <1>6 DEF DieOnMissingLib, Visit
  <2>2. \A x \in Module : Sorted(x)' => Sorted(x)
    BY <2>1 DEF Sorted
  <2>3. OrderedInv' /\ CopyInv'
    BY <1>2, <2>1, NotYet
  <2>4. LineInv'
    BY <1>0, <2>1, <2>2, LineStays
  <2> QED
    BY <1>1, <2>3, <2>4 DEF LinesInv
<1>7. CASE KeepDeclaredOrder
  <2>1. UNCHANGED <<declared, resolved, visited>> /\ phase' = phase /\ stage' = "ordered"
    BY <1>7 DEF KeepDeclaredOrder
  <2>2. \A x \in Module : Sorted(x)' => Sorted(x)
    BY <2>1 DEF Sorted, declared
  <2>3. OrderedInv'
    BY <1>0, <1>7, OrderedMade
  <2>4. CopyInv'
    BY <2>1, NotYet
  <2>5. LineInv'
    BY <1>0, <2>1, <2>2, LineStays
  <2> QED
    BY <1>1, <2>3, <2>4, <2>5 DEF LinesInv
<1>8. CASE TakeSubgraph
  <2>1. UNCHANGED <<declared, resolved, visited>> /\ phase' = phase /\ stage' = "proxies"
    BY <1>8 DEF TakeSubgraph
  <2>2. \A x \in Module : Sorted(x)' => Sorted(x)
    BY <2>1 DEF Sorted, declared
  <2>3. OrderedInv'
    BY <2>1, NotYet
  <2>4. CopyInv'
    BY <1>0, <1>8, TakeSubgraphCopies
  <2>5. LineInv'
    BY <1>0, <2>1, <2>2, LineStays
  <2> QED
    BY <1>1, <2>3, <2>4, <2>5 DEF LinesInv
<1>9. ASSUME NEW n \in Module, ScanNode(n) PROVE LinesInv'
  <2>1. UNCHANGED <<declared, resolved, visited>> /\ phase' = phase /\ stage = "proxies" /\ stage' = stage
    BY <1>9 DEF ScanNode
  <2>2. \A x \in Module : Sorted(x)' => Sorted(x)
    BY <2>1 DEF Sorted, declared
  <2>3. OrderedInv'
    BY <2>1, NotYet
  <2>4. CopyInv'
    BY <1>0, <1>9, ScanNodeCopies
  <2>5. LineInv'
    BY <1>0, <2>1, <2>2, LineStays
  <2> QED
    BY <1>1, <2>3, <2>4, <2>5 DEF LinesInv
<1>10. CASE ScanAgain
  <2>1. UNCHANGED <<declared, resolved, visited>> /\ phase' = phase /\ stage = "proxies" /\ stage' = stage
    BY <1>10 DEF ScanAgain
  <2>2. \A x \in Module : Sorted(x)' => Sorted(x)
    BY <2>1 DEF Sorted, declared
  <2>3. OrderedInv'
    BY <2>1, NotYet
  <2>4. CopyInv'
    BY <1>0, <1>10, ScanAgainCopies
  <2>5. LineInv'
    BY <1>0, <2>1, <2>2, LineStays
  <2> QED
    BY <1>1, <2>3, <2>4, <2>5 DEF LinesInv
<1>11. CASE Sort
  <2>1. stage' = "idle"
    BY <1>11 DEF Sort
  <2>2. OrderedInv' /\ CopyInv'
    BY <2>1, NotYet
  <2>3. LineInv'
    BY <1>0, <1>11, SortMakesLine
  <2> QED
    BY <1>1, <2>2, <2>3 DEF LinesInv
<1>12. CASE EndPass
  <2>1. UNCHANGED <<declared, visited, graph, main, stage, scan, resolved>> /\ phase = "sort"
    BY <1>12 DEF EndPass
  <2>2. \A m \in Module : Sorted(m)' => Sorted(m)
    BY <2>1 DEF Sorted, declared
  <2>3. OrderedInv'
    BY <1>0, <2>1, OrderedStays
  <2>4. CopyInv'
    BY <1>0, <2>1, CopyStays
  <2>5. LineInv'
    BY <1>0, <2>1, <2>2, LineStays
  <2> QED
    BY <1>1, <2>3, <2>4, <2>5 DEF LinesInv
<1>13. CASE UNCHANGED vars
  <2>1. UNCHANGED <<declared, visited, graph, main, stage, scan, resolved>> /\ phase' = phase
    BY <1>13 DEF vars, declared, scan
  <2>2. \A m \in Module : Sorted(m)' => Sorted(m)
    BY <2>1 DEF Sorted, declared
  <2>3. OrderedInv'
    BY <1>0, <2>1, OrderedStays
  <2>4. CopyInv'
    BY <1>0, <2>1, CopyStays
  <2>5. LineInv'
    BY <1>0, <2>1, <2>2, LineStays
  <2> QED
    BY <1>1, <2>3, <2>4, <2>5 DEF LinesInv
<1>14. CASE Ended
  BY <1>13, <1>14 DEF Ended
<1> QED
  BY <1>3, <1>4, <1>5, <1>6, <1>7, <1>8, <1>9, <1>10, <1>11, <1>12, <1>13, <1>14 DEF Next, Step

\* The inductive invariant holds.
THEOREM LinesSafe == Spec => []LinesInv
<1>1. LinesInv /\ [Next]_vars => LinesInv'
  BY LinesInvNext
<1> QED
  BY <1>1, LinesInvInit, PTL DEF Spec

(***************************************************************************)
(* The right libraries are on every link line: nothing a module reaches is *)
(* missing, and where no library is reached both ways the line is exactly  *)
(* what nothing else includes whole (dep_sorter.go, DeleteProxyEdges).      *)
(***************************************************************************)
THEOREM Exactly == Spec => []LinkedExactly
<1>1. LinesInv => LinkedExactly
  <2> SUFFICES ASSUME LinesInv PROVE LinkedExactly
    OBVIOUS
  <2>1. \A m \in Module : Sorted(m) => Line(m, resolved[m])
    BY DEF LinesInv, LineInv
  <2>2. NothingLost
    BY <2>1, Zenon DEF NothingLost, Line
  <2>3. ExactlyTheUncontained
    BY <2>1, Zenon DEF ExactlyTheUncontained, Line
  <2> QED
    BY <2>2, <2>3 DEF LinkedExactly
<1> QED
  BY <1>1, LinesSafe, PTL

(***************************************************************************)
(* And in the right order: every library before those it uses, through     *)
(* what it includes whole as well, and in the declared order wherever that *)
(* is such an order (dep_sorter.go:67, bob_static_library.md).             *)
(***************************************************************************)
THEOREM InGoodOrder == Spec => []LinksInOrder
<1>1. LinesInv => LinksInOrder
  <2> SUFFICES ASSUME LinesInv PROVE LinksInOrder
    OBVIOUS
  <2>1. \A m \in Module : Sorted(m) => Line(m, resolved[m])
    BY DEF LinesInv, LineInv
  <2>2. UsersFirst
    BY <2>1, Zenon DEF UsersFirst, Line
  <2>3. DeclaredOrderKept
    <3> SUFFICES ASSUME NEW m \in Module,
                        Sorted(m), LinksOnce(m),
                        \A p \in {q \in (DOMAIN static[m]) \X (DOMAIN static[m]) : q[1] < q[2]} :
                          static[m][p[1]] \notin Below(static[m][p[2]]),
                        NEW i \in DOMAIN static[m], NEW j \in DOMAIN static[m], i < j
                 PROVE  Precedes(static[m][i], static[m][j], resolved[m])
      BY DEF DeclaredOrderKept
    <3>1. Orderly(m)
      <4> SUFFICES ASSUME NEW a \in DOMAIN static[m], NEW b \in DOMAIN static[m], a < b
                   PROVE  static[m][a] \notin Below(static[m][b])
        BY DEF Orderly
      <4>1. <<a, b>> \in {q \in (DOMAIN static[m]) \X (DOMAIN static[m]) : q[1] < q[2]}
        OBVIOUS
      <4> QED
        BY <4>1
    <3> QED
      BY <2>1, <3>1 DEF Line
  <2> QED
    BY <2>2, <2>3 DEF LinksInOrder
<1> QED
  BY <1>1, LinesSafe, PTL

=============================================================================

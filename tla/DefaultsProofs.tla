--------------------------- MODULE DefaultsProofs ---------------------------
(***************************************************************************)
(* For every set of modules and every build definition: the unlocked reads *)
(* of defaultsMap are safe, the lists of defaults are in the order that    *)
(* gives the later precedence, a cycle, and nothing else, ends a run over  *)
(* its defaults, and what a module ends with is what the nearest says.     *)
(*                                                                         *)
(* The operators of Defaults are recursive functions.  First what each     *)
(* gives, by induction over a list (its length) or over the modules not    *)
(* yet seen (their number); then the invariant of the passes that make the *)
(* lists.  Values come after: Stands, the properties a list of places      *)
(* makes, turns what a pass does into the concatenation of two lists, and  *)
(* the invariant says of each copy of a module, by the passes that have    *)
(* visited it, which list its properties stand for.                        *)
(***************************************************************************)
EXTENDS Defaults, FiniteSetTheorems, RecursionLemmas, TLAPS

-----------------------------------------------------------------------------
\* Sequences, joined and longer by one.
LEMMA ConcatFacts ==
  ASSUME NEW X, NEW s \in Seq(X), NEW u \in Seq(X)
  PROVE  /\ s \o u \in Seq(X) /\ Len(s \o u) = Len(s) + Len(u) /\ Len(s) \in Nat /\ Len(u) \in Nat
         /\ \A p \in 1 .. Len(s) : (s \o u)[p] = s[p]
         /\ \A p \in 1 .. Len(u) : (s \o u)[Len(s) + p] = u[p]
  OBVIOUS

LEMMA AppendFacts ==
  ASSUME NEW X, NEW s \in Seq(X), NEW x \in X
  PROVE  /\ Append(s, x) \in Seq(X) /\ Len(Append(s, x)) = Len(s) + 1 /\ Len(s) \in Nat
         /\ \A p \in 1 .. Len(s) : Append(s, x)[p] = s[p]
         /\ Append(s, x)[Len(s) + 1] = x
  OBVIOUS

LEMMA SameList ==
  ASSUME NEW X, NEW s \in Seq(X), NEW u \in Seq(X), Len(s) = Len(u), \A p \in 1 .. Len(s) : s[p] = u[p]
  PROVE  s = u
  OBVIOUS

LEMMA ConcatAssociates ==
  ASSUME NEW X, NEW s \in Seq(X), NEW t \in Seq(X), NEW u \in Seq(X)
  PROVE  (s \o t) \o u = s \o (t \o u)
<1> DEFINE st == s \o t
           tu == t \o u
           l == st \o u
           r == s \o tu
<1>1. /\ st \in Seq(X) /\ Len(st) = Len(s) + Len(t) /\ Len(s) \in Nat /\ Len(t) \in Nat
      /\ \A p \in 1 .. Len(s) : st[p] = s[p]
      /\ \A p \in 1 .. Len(t) : st[Len(s) + p] = t[p]
  BY ConcatFacts
<1>2. /\ tu \in Seq(X) /\ Len(tu) = Len(t) + Len(u) /\ Len(u) \in Nat
      /\ \A p \in 1 .. Len(t) : tu[p] = t[p]
      /\ \A p \in 1 .. Len(u) : tu[Len(t) + p] = u[p]
  BY ConcatFacts
<1>t. st \in Seq(X) /\ tu \in Seq(X)
  BY <1>1, <1>2
<1> HIDE DEF st, tu
<1>3. /\ l \in Seq(X) /\ Len(l) = Len(st) + Len(u)
      /\ \A p \in 1 .. Len(st) : l[p] = st[p]
      /\ \A p \in 1 .. Len(u) : l[Len(st) + p] = u[p]
  BY <1>t
<1>4. /\ r \in Seq(X) /\ Len(r) = Len(s) + Len(tu)
      /\ \A p \in 1 .. Len(s) : r[p] = s[p]
      /\ \A p \in 1 .. Len(tu) : r[Len(s) + p] = tu[p]
  BY <1>t
<1> HIDE DEF l, r
<1>5. ASSUME NEW p \in 1 .. Len(l) PROVE l[p] = r[p]
  <2>1. CASE p <= Len(s)
    <3>1. p \in 1 .. Len(s) /\ p \in 1 .. Len(st)
      BY <1>1, <1>2, <1>3, <2>1
    <3> QED
      BY <1>1, <1>3, <1>4, <3>1
  <2>2. CASE p > Len(s) /\ p <= Len(s) + Len(t)
    <3> DEFINE q == p - Len(s)
    <3>1. q \in 1 .. Len(t) /\ q \in 1 .. Len(tu) /\ p \in 1 .. Len(st) /\ p = Len(s) + q
      BY <1>1, <1>2, <1>3, <2>2
    <3> HIDE DEF q
    <3>2. l[p] = t[q]
      BY <1>1, <1>3, <3>1
    <3>3. r[p] = t[q]
      BY <1>2, <1>4, <3>1
    <3> QED
      BY <3>2, <3>3
  <2>3. CASE p > Len(s) + Len(t)
    <3> DEFINE q == p - Len(s) - Len(t)
    <3>1. q \in 1 .. Len(u) /\ Len(t) + q \in 1 .. Len(tu) /\ p = Len(s) + (Len(t) + q) /\ p = Len(st) + q
      BY <1>1, <1>2, <1>3, <2>3
    <3> HIDE DEF q
    <3>2. l[p] = u[q]
      BY <1>3, <3>1
    <3>3. r[p] = u[q]
      BY <1>2, <1>4, <3>1
    <3> QED
      BY <3>2, <3>3
  <2> QED
    BY <1>1, <1>3, <2>1, <2>2, <2>3
<1>6. Len(l) = Len(r)
  BY <1>1, <1>2, <1>3, <1>4
<1>7. l = r
  BY <1>3, <1>4, <1>5, <1>6, SameList
<1> QED
  BY <1>7 DEF l, r, st, tu

LEMMA ConcatOne ==
  ASSUME NEW X, NEW s \in Seq(X), NEW x \in X
  PROVE  Append(s, x) = s \o <<x>> /\ s \o <<>> = s /\ <<>> \o s = s
  OBVIOUS

-----------------------------------------------------------------------------
(***************************************************************************)
(* LastOccurrences: each element once, where it occurred last.             *)
(***************************************************************************)

\* The lists on the way.
Keeping(X, list) ==
  {f \in [0 .. Len(list) -> Seq(X)] :
      f[0] = <<>> /\ \A i \in 1 .. Len(list) : f[i] = IF \E j \in i + 1 .. Len(list) : list[j] = list[i] THEN f[i - 1] ELSE Append(f[i - 1], list[i])}

\* LastOccurrences is the last of them.
LEMMA LastRuns ==
  ASSUME NEW X, NEW list \in Seq(X)
  PROVE  \E f \in Keeping(X, list) : LastOccurrences(list) = f[Len(list)]
<1> DEFINE n == Len(list)
           A == Seq(X)
           a == <<>>
           Op(s, i) == IF \E j \in i + 1 .. Len(list) : list[j] = list[i] THEN s ELSE Append(s, list[i])
           F == [p \in (1 .. n) \X A |-> Op(p[2], p[1])]
           Rule(f) == [i \in 0 .. n |-> IF i = 0 THEN a ELSE Op(f[i - 1], i)]
           run == CHOOSE f : f = Rule(f)
<1>1. n \in Nat /\ a \in A /\ \A i \in 1 .. n : list[i] \in X
  OBVIOUS
<1>2. F \in [(1 .. n) \X A -> A]
  <2>1. ASSUME NEW i \in 1 .. n, NEW s \in A
        PROVE  (IF \E j \in i + 1 .. Len(list) : list[j] = list[i] THEN s ELSE Append(s, list[i])) \in A
    <3>1. list[i] \in X
      BY <1>1
    <3>2. Append(s, list[i]) \in A
      BY <3>1
    <3> QED
      BY <3>2
  <2> HIDE DEF n, A
  <2> QED
    BY <2>1
<1> HIDE DEF n, A, a, Op
<1>3. PICK f : f \in Runs(n, A, a, F)
  <2> HIDE DEF F
  <2> QED
    BY <1>1, <1>2, RunExists
<1>4. /\ f \in [0 .. n -> A] /\ f[0] = a
      /\ \A i \in 1 .. n : f[i] = Op(f[i - 1], i)
  <2>1. f \in [0 .. n -> A] /\ f[0] = a /\ \A i \in 1 .. n : f[i] = F[<<i, f[i - 1]>>]
    BY <1>3, Zenon DEF Runs
  <2>2. \A i \in 1 .. n : i - 1 \in 0 .. n
    BY <1>1
  <2>3. \A i \in 1 .. n : <<i, f[i - 1]>> \in (1 .. n) \X A
    BY <2>1, <2>2
  <2> QED
    BY <2>1, <2>3
<1>5. f = Rule(f)
  <2>1. \A i \in 0 .. n : f[i] = IF i = 0 THEN a ELSE Op(f[i - 1], i)
    BY <1>1, <1>4
  <2> QED
    BY <1>4, <2>1
<1>6. run = Rule(run)
  BY <1>5
<1>7. \A i \in 0 .. n : run[i] = f[i]
  <2> DEFINE S == {i \in 0 .. n : run[i] = f[i]}
  <2>1. \A i \in 0 .. n : run[i] = IF i = 0 THEN a ELSE Op(run[i - 1], i)
    BY <1>6, Zenon
  <2> HIDE DEF run
  <2>2. 0 \in S
    BY <1>1, <1>4, <2>1
  <2>3. ASSUME NEW i \in 1 .. n, i - 1 \in S PROVE i \in S
    BY <1>1, <1>4, <2>1, <2>3
  <2>4. \A i \in 0 .. n : i \in S
    <3> HIDE DEF S
    <3> QED
      BY <1>1, <2>2, <2>3, IntervalInduction
  <2> QED
    BY <2>4
<1>8. LastOccurrences(list) = run[n]
  BY Zenon DEF LastOccurrences, n, a, Op
<1>9. f \in Keeping(X, list)
  BY <1>4 DEF Keeping, n, A, a, Op
<1> HIDE DEF run, F
<1> QED
  BY <1>1, <1>7, <1>8, <1>9 DEF n

\* Nothing equal follows.
IsLast(list, p) == p \in 1 .. Len(list) /\ \A q \in p + 1 .. Len(list) : list[q] # list[p]

\* What occurs occurs last somewhere.
LEMMA LastOne ==
  ASSUME NEW X, NEW list \in Seq(X), NEW p \in 1 .. Len(list)
  PROVE  \E q \in p .. Len(list) : IsLast(list, q) /\ list[q] = list[p]
<1> DEFINE n == Len(list)
           S == {k \in 0 .. n : \A o \in 1 .. n : n - o <= k =>
                   \E q \in o .. n : IsLast(list, q) /\ list[q] = list[o]}
<1>1. n \in Nat
  OBVIOUS
<1>2. 0 \in S
  <2> SUFFICES ASSUME NEW o \in 1 .. n, n - o <= 0
               PROVE  \E q \in o .. n : IsLast(list, q) /\ list[q] = list[o]
    BY <1>1
  <2>1. o = n /\ o \in o .. n
    BY <1>1
  <2>2. IsLast(list, o)
    BY <2>1 DEF IsLast
  <2> QED
    BY <2>1, <2>2
<1>3. ASSUME NEW k \in 1 .. n, k - 1 \in S PROVE k \in S
  <2> SUFFICES ASSUME NEW o \in 1 .. n, n - o <= k
               PROVE  \E q \in o .. n : IsLast(list, q) /\ list[q] = list[o]
    BY <1>1
  <2>1. CASE \E j \in o + 1 .. n : list[j] = list[o]
    <3>1. PICK j \in o + 1 .. n : list[j] = list[o]
      BY <2>1
    <3>2. j \in 1 .. n /\ n - j <= k - 1 /\ \A q \in j .. n : q \in o .. n
      BY <1>1
    <3>3. PICK q \in j .. n : IsLast(list, q) /\ list[q] = list[j]
      BY <1>3, <3>2
    <3> QED
      BY <3>1, <3>2, <3>3
  <2>2. CASE ~\E j \in o + 1 .. n : list[j] = list[o]
    <3>1. IsLast(list, o)
      BY <2>2 DEF IsLast
    <3>2. o \in o .. n
      BY <1>1
    <3> QED
      BY <3>1, <3>2
  <2> QED
    BY <2>1, <2>2
<1>4. \A k \in 0 .. n : k \in S
  <2> HIDE DEF S, n
  <2> QED
    BY <1>1, <1>2, <1>3, IntervalInduction
<1>5. n - p \in 0 .. n /\ n - p <= n - p
  BY <1>1
<1> QED
  BY <1>4, <1>5

\* The first i elements, of those the ones that occur last, in their order.
KeptUpto(list, i, s) ==
  /\ \A k \in 1 .. Len(s) : \E p \in 1 .. i : IsLast(list, p) /\ s[k] = list[p]
  /\ \A p \in 1 .. i : IsLast(list, p) => \E k \in 1 .. Len(s) : s[k] = list[p]
  /\ \A k, l \in 1 .. Len(s) : \A p, q \in 1 .. i :
       k < l /\ IsLast(list, p) /\ IsLast(list, q) /\ s[k] = list[p] /\ s[l] = list[q] => p < q

\* Two that occur last are not equal.
LEMMA OneLast ==
  ASSUME NEW X, NEW list \in Seq(X), NEW p, NEW q, IsLast(list, p), IsLast(list, q), list[p] = list[q]
  PROVE  p = q
<1>1. p \in 1 .. Len(list) /\ q \in 1 .. Len(list)
  BY DEF IsLast
<1>2. ~(p < q) /\ ~(q < p)
  BY <1>1 DEF IsLast
<1> QED
  BY <1>1, <1>2

\* One more that occurs last.
LEMMA KeptOneMore ==
  ASSUME NEW X, NEW list \in Seq(X), NEW i \in 1 .. Len(list), NEW s \in Seq(X), KeptUpto(list, i - 1, s),
         IsLast(list, i)
  PROVE  KeptUpto(list, i, Append(s, list[i]))
<1> DEFINE t == Append(s, list[i])
           n == Len(s)
<1>1. /\ n \in Nat /\ Len(t) = n + 1 /\ t[n + 1] = list[i] /\ (\A k \in 1 .. n : t[k] = s[k])
      /\ i \in Nat /\ i - 1 \in Nat /\ list[i] \in X
  OBVIOUS
<1> HIDE DEF t
<1>2. ASSUME NEW k \in 1 .. Len(t) PROVE \E p \in 1 .. i : IsLast(list, p) /\ t[k] = list[p]
  <2>1. CASE k \in 1 .. n
    <3>1. PICK p \in 1 .. i - 1 : IsLast(list, p) /\ s[k] = list[p]
      BY <2>1 DEF KeptUpto
    <3> QED
      BY <1>1, <2>1, <3>1
  <2>2. CASE k = n + 1
    BY <1>1, <2>2
  <2> QED
    BY <1>1, <2>1, <2>2
<1>3. ASSUME NEW p \in 1 .. i, IsLast(list, p) PROVE \E k \in 1 .. Len(t) : t[k] = list[p]
  <2>1. CASE p = i
    <3>1. n + 1 \in 1 .. Len(t)
      BY <1>1
    <3> QED
      BY <1>1, <2>1, <3>1
  <2>2. CASE p \in 1 .. i - 1
    <3>1. PICK k \in 1 .. n : s[k] = list[p]
      BY <1>3, <2>2 DEF KeptUpto
    <3> QED
      BY <1>1, <3>1
  <2> QED
    BY <1>1, <2>1, <2>2
<1>4. ASSUME NEW k \in 1 .. Len(t), NEW l \in 1 .. Len(t), NEW p \in 1 .. i, NEW q \in 1 .. i,
             k < l, IsLast(list, p), IsLast(list, q), t[k] = list[p], t[l] = list[q]
      PROVE  p < q
  <2>0. k \in 1 .. n
    BY <1>1, <1>4
  <2>1. PICK o \in 1 .. i - 1 : IsLast(list, o) /\ s[k] = list[o]
    BY <2>0 DEF KeptUpto
  <2>2. o = p
    BY <1>1, <1>4, <2>0, <2>1, OneLast
  <2>3. CASE l \in 1 .. n
    <3>1. PICK r \in 1 .. i - 1 : IsLast(list, r) /\ s[l] = list[r]
      BY <2>3 DEF KeptUpto
    <3>2. r = q
      BY <1>1, <1>4, <2>3, <3>1, OneLast
    <3> QED
      BY <1>1, <1>4, <2>0, <2>1, <2>2, <2>3, <3>1, <3>2 DEF KeptUpto
  <2>4. CASE l = n + 1
    <3>1. q = i
      BY <1>1, <1>4, <2>4, OneLast
    <3> QED
      BY <1>1, <2>1, <2>2, <3>1
  <2> QED
    BY <1>1, <2>3, <2>4
<1> QED
  BY <1>2, <1>3, <1>4 DEF KeptUpto, t

\* One more that occurs again.
LEMMA KeptNoMore ==
  ASSUME NEW X, NEW list \in Seq(X), NEW i \in 1 .. Len(list), NEW s \in Seq(X), KeptUpto(list, i - 1, s),
         ~IsLast(list, i)
  PROVE  KeptUpto(list, i, s)
<1>1. \A p \in 1 .. i : IsLast(list, p) => p \in 1 .. i - 1
  OBVIOUS
<1>2. \A p \in 1 .. i - 1 : p \in 1 .. i
  OBVIOUS
<1> QED
  BY <1>1, <1>2 DEF KeptUpto

\* x occurs, and y after every x.
EndsBefore(x, y, list) ==
  /\ \E p \in 1 .. Len(list) : list[p] = x
  /\ \E q \in 1 .. Len(list) : list[q] = y /\ \A p \in 1 .. Len(list) : list[p] = x => p < q

LEMMA LastFacts ==
  ASSUME NEW X, NEW list \in Seq(X)
  PROVE  /\ LastOccurrences(list) \in Seq(X)
         /\ Range(LastOccurrences(list)) = Range(list)
         /\ \A k, l \in 1 .. Len(LastOccurrences(list)) :
              LastOccurrences(list)[k] = LastOccurrences(list)[l] => k = l
         /\ \A x, y : EndsBefore(x, y, list) => Precedes(x, y, LastOccurrences(list))
<1> DEFINE n == Len(list)
           r == LastOccurrences(list)
<1>0. n \in Nat
  OBVIOUS
<1>1. PICK f \in Keeping(X, list) : r = f[n]
  BY LastRuns
<1>2. /\ f \in [0 .. n -> Seq(X)] /\ f[0] = <<>>
      /\ \A i \in 1 .. n : f[i] = IF \E j \in i + 1 .. n : list[j] = list[i] THEN f[i - 1] ELSE Append(f[i - 1], list[i])
  BY DEF Keeping
<1> DEFINE S == {i \in 0 .. n : KeptUpto(list, i, f[i])}
<1>3. 0 \in S
  BY <1>0, <1>2 DEF KeptUpto
<1>4. ASSUME NEW i \in 1 .. n, i - 1 \in S PROVE i \in S
  <2>1. i \in 0 .. n /\ i - 1 \in 0 .. n /\ f[i - 1] \in Seq(X) /\ KeptUpto(list, i - 1, f[i - 1])
    BY <1>0, <1>2, <1>4
  <2>2. CASE IsLast(list, i)
    <3>1. f[i] = Append(f[i - 1], list[i])
      BY <1>2, <2>2 DEF IsLast
    <3>2. KeptUpto(list, i, Append(f[i - 1], list[i]))
      BY <2>1, <2>2, KeptOneMore
    <3> QED
      BY <2>1, <3>1, <3>2
  <2>3. CASE ~IsLast(list, i)
    <3>1. f[i] = f[i - 1]
      BY <1>2, <2>3 DEF IsLast
    <3>2. KeptUpto(list, i, f[i - 1])
      BY <2>1, <2>3, KeptNoMore
    <3> QED
      BY <2>1, <3>1, <3>2
  <2> QED
    BY <2>2, <2>3
<1>5. \A i \in 0 .. n : i \in S
  <2> HIDE DEF S, n
  <2> QED
    BY <1>0, <1>3, <1>4, IntervalInduction
<1> HIDE DEF r
<1>6. r \in Seq(X) /\ KeptUpto(list, n, r)
  BY <1>0, <1>1, <1>2, <1>5
<1>7. DOMAIN r = 1 .. Len(r) /\ DOMAIN list = 1 .. n /\ Len(r) \in Nat
  BY <1>6
<1>8. Range(r) = Range(list)
  <2>1. ASSUME NEW x \in Range(r) PROVE x \in Range(list)
    <3>1. PICK k \in 1 .. Len(r) : r[k] = x
      BY <1>7 DEF Range
    <3>2. PICK p \in 1 .. n : r[k] = list[p]
      BY <1>6 DEF KeptUpto
    <3> QED
      BY <1>7, <3>1, <3>2 DEF Range
  <2>2. ASSUME NEW x \in Range(list) PROVE x \in Range(r)
    <3>1. PICK p \in 1 .. n : list[p] = x
      BY <1>7 DEF Range
    <3>2. PICK q \in p .. n : IsLast(list, q) /\ list[q] = list[p]
      BY LastOne
    <3>3. q \in 1 .. n
      BY <1>0
    <3>4. PICK k \in 1 .. Len(r) : r[k] = list[q]
      BY <1>6, <3>2, <3>3 DEF KeptUpto
    <3> QED
      BY <1>7, <3>1, <3>2, <3>4 DEF Range
  <2> QED
    BY <2>1, <2>2
<1>9. ASSUME NEW k \in 1 .. Len(r), NEW l \in 1 .. Len(r), r[k] = r[l] PROVE k = l
  <2>1. PICK p \in 1 .. n : IsLast(list, p) /\ r[k] = list[p]
    BY <1>6 DEF KeptUpto
  <2>2. ~(p < p) /\ r[l] = list[p]
    BY <1>9, <2>1
  <2>3. ~(k < l)
    BY <1>6, <2>1, <2>2 DEF KeptUpto
  <2>4. ~(l < k)
    BY <1>6, <2>1, <2>2 DEF KeptUpto
  <2> QED
    BY <1>7, <2>3, <2>4
<1>10. ASSUME NEW x, NEW y, EndsBefore(x, y, list) PROVE Precedes(x, y, r)
  <2>1. PICK q \in 1 .. n : list[q] = y /\ \A p \in 1 .. n : list[p] = x => p < q
    BY <1>10 DEF EndsBefore
  <2>2. PICK p0 \in 1 .. n : list[p0] = x
    BY <1>10 DEF EndsBefore
  <2>3. PICK p \in p0 .. n : IsLast(list, p) /\ list[p] = list[p0]
    BY LastOne
  <2>4. PICK o \in q .. n : IsLast(list, o) /\ list[o] = list[q]
    BY LastOne
  <2>5. p \in 1 .. n /\ o \in 1 .. n /\ list[p] = x /\ list[o] = y
    BY <1>0, <2>1, <2>2, <2>3, <2>4
  <2>6. p < o
    BY <1>0, <2>1, <2>5
  <2>7. PICK k \in 1 .. Len(r) : r[k] = x
    BY <1>6, <2>3, <2>5 DEF KeptUpto
  <2>8. PICK l \in 1 .. Len(r) : r[l] = y
    BY <1>6, <2>4, <2>5 DEF KeptUpto
  <2>9. ~(l < k)
    <3> SUFFICES ASSUME l < k PROVE FALSE
      OBVIOUS
    <3>1. o < p
      BY <1>6, <2>3, <2>4, <2>5, <2>7, <2>8 DEF KeptUpto
    <3> QED
      BY <1>0, <2>5, <2>6, <3>1
  <2>10. l # k
    <3> SUFFICES ASSUME l = k PROVE FALSE
      OBVIOUS
    <3>1. p = o
      BY <2>3, <2>4, <2>5, <2>7, <2>8, OneLast
    <3> QED
      BY <2>5, <2>6, <3>1
  <2>11. k < l
    BY <1>7, <2>9, <2>10
  <2> QED
    BY <1>7, <2>7, <2>8, <2>11 DEF Precedes
<1> QED
  BY <1>6, <1>8, <1>9, <1>10 DEF r

-----------------------------------------------------------------------------
(***************************************************************************)
(* Below: the least set that holds what a module names and what that names.*)
(***************************************************************************)
Names(d) == declared.defaults[d]

LEMMA NamesFacts ==
  ASSUME declared \in Declarations, NEW d \in Module
  PROVE  /\ Names(d) \in Seq(Default) /\ Range(Names(d)) \in SUBSET Default
         /\ Range(Names(d)) \subseteq declared.modules
         /\ \A x : x \in Range(Names(d)) <=> \E i \in 1 .. Len(Names(d)) : Names(d)[i] = x
<1>1. Names(d) \in Seq(Default) /\ Range(Names(d)) \subseteq declared.modules
  BY DeclarationAssumption DEF Names
<1>2. DOMAIN Names(d) = 1 .. Len(Names(d)) /\ \A i \in 1 .. Len(Names(d)) : Names(d)[i] \in Default
  BY <1>1
<1> QED
  BY <1>1, <1>2 DEF Range

\* Its names are among them, and those of its members; and it is the least such set.
LEMMA BelowFacts ==
  ASSUME declared \in Declarations, NEW m \in Module
  PROVE  /\ Range(Names(m)) \subseteq Below(m)
         /\ \A d \in Below(m) : Range(Names(d)) \subseteq Below(m)
         /\ \A C \in SUBSET Module :
              Range(Names(m)) \subseteq C /\ (\A d \in C : Range(Names(d)) \subseteq C) => Below(m) \subseteq C
         /\ Below(m) \in SUBSET Default
<1> DEFINE Stays(C) == \A d \in C : Range(Names(d)) \subseteq C
           Up(S) == S \cup UNION {Range(Names(d)) : d \in S}
           Least(S) == {x \in Module : \A C \in SUBSET Module : S \subseteq C /\ Stays(C) => x \in C}
           Rule(f) == [S \in SUBSET Module |-> IF Up(S) = S THEN S ELSE f[Up(S)]]
           grow == CHOOSE f : f = Rule(f)
           least == [S \in SUBSET Module |-> Least(S)]
           start == Range(Names(m))
<1>0. \A d \in Module : Range(Names(d)) \in SUBSET Module /\ Range(Names(d)) \in SUBSET Default
  BY NamesFacts DEF Module
<1>1. ASSUME NEW S \in SUBSET Module
      PROVE  /\ Up(S) \in SUBSET Module /\ S \subseteq Up(S)
             /\ Up(S) = S <=> Stays(S)
             /\ \A C \in SUBSET Module : S \subseteq C /\ Stays(C) => Up(S) \subseteq C
  BY <1>0
<1> HIDE DEF Up, Stays
<1>2. ASSUME NEW S \in SUBSET Module
      PROVE  Least(S) = IF Up(S) = S THEN S ELSE Least(Up(S))
  <2>1. CASE Up(S) = S
    <3>1. Stays(S)
      BY <1>1, <2>1
    <3> QED
      BY <2>1, <3>1
  <2>2. CASE Up(S) # S
    <3>1. \A C \in SUBSET Module : S \subseteq C /\ Stays(C) <=> Up(S) \subseteq C /\ Stays(C)
      BY <1>1
    <3> QED
      BY <2>2, <3>1
  <2> QED
    BY <2>1, <2>2
<1> HIDE DEF Least
<1>3. least = Rule(least)
  <2>1. \A S \in SUBSET Module : least[S] = IF Up(S) = S THEN S ELSE least[Up(S)]
    BY <1>1, <1>2
  <2> QED
    BY <2>1
<1>4. grow = Rule(grow)
  BY <1>3
<1>5. \A S \in SUBSET Module : grow[S] = IF Up(S) = S THEN S ELSE grow[Up(S)]
  BY <1>4, Zenon
<1>6. Below(m) = grow[start]
  BY Zenon DEF Below, Up, Names
<1> HIDE DEF grow
<1> DEFINE K == {k \in Nat : \A S \in SUBSET Module : Cardinality(Module \ S) <= k => grow[S] = Least(S)}
<1>7. \A S \in SUBSET Module : IsFiniteSet(Module \ S) /\ Cardinality(Module \ S) \in Nat
  BY DeclarationAssumption, FS_Difference, FS_CardinalityType
<1>8. 0 \in K
  <2> SUFFICES ASSUME NEW S \in SUBSET Module, Cardinality(Module \ S) <= 0 PROVE grow[S] = Least(S)
    OBVIOUS
  <2>0. Cardinality(Module \ S) <= 0
    OBVIOUS
  <2>1. Cardinality(Module \ S) = 0
    BY <1>7, <2>0
  <2>2. Module \ S = {}
    BY <1>7, <2>1, FS_EmptySet
  <2>3. Up(S) = S
    BY <1>1, <2>2
  <2> QED
    BY <1>2, <1>5, <2>3
<1>9. ASSUME NEW k \in Nat, k \in K PROVE k + 1 \in K
  <2> SUFFICES ASSUME NEW S \in SUBSET Module, Cardinality(Module \ S) <= k + 1 PROVE grow[S] = Least(S)
    OBVIOUS
  <2>1. CASE Up(S) = S
    BY <1>2, <1>5, <2>1
  <2>2. CASE Up(S) # S
    <3>1. Up(S) \in SUBSET Module /\ Module \ Up(S) \subseteq Module \ S /\ Module \ Up(S) # Module \ S
      BY <1>1, <2>2
    <3> DEFINE A == Module \ Up(S)
               B == Module \ S
    <3>2. IsFiniteSet(B) /\ A \in SUBSET B /\ A # B /\ Cardinality(A) \in Nat /\ Cardinality(B) \in Nat
      BY <1>7, <3>1
    <3>3. Cardinality(B) <= k + 1
      OBVIOUS
    <3>4. Cardinality(A) <= k
      <4> HIDE DEF A, B
      <4>1. Cardinality(A) <= Cardinality(B) /\ (Cardinality(A) = Cardinality(B) => A = B)
        BY <3>2, FS_Subset
      <4> QED
        BY <3>2, <3>3, <4>1
    <3>5. grow[Up(S)] = Least(Up(S))
      BY <1>9, <3>1, <3>4
    <3> QED
      BY <1>2, <1>5, <2>2, <3>5
  <2> QED
    BY <2>1, <2>2
<1>10. \A k \in Nat : k \in K
  <2> HIDE DEF K
  <2> QED
    BY <1>8, <1>9, NatSetInduction
<1>11. Below(m) = Least(start)
  <2> DEFINE c == Cardinality(Module \ start)
  <2>1. start \in SUBSET Module /\ c \in Nat
    BY <1>0, <1>7
  <2>2. \A S \in SUBSET Module : Cardinality(Module \ S) <= c => grow[S] = Least(S)
    <3>1. c \in K
      BY <1>10, <2>1
    <3> HIDE DEF c
    <3> QED
      BY <3>1
  <2>3. Cardinality(Module \ start) <= c
    <3>1. Cardinality(Module \ start) = c
      OBVIOUS
    <3> HIDE DEF c
    <3> QED
      BY <2>1, <3>1
  <2>4. grow[start] = Least(start)
    <3> HIDE DEF c, start
    <3> QED
      BY <2>1, <2>2, <2>3
  <2> QED
    BY <1>6, <2>4
<1>12. ASSUME NEW s \in Least(start), NEW t \in Range(Names(s)) PROVE t \in Least(start)
  <2>1. s \in Module /\ t \in Module
    BY <1>0 DEF Least
  <2>2. ASSUME NEW C \in SUBSET Module, start \subseteq C, Stays(C) PROVE t \in C
    <3>1. s \in C
      BY <2>2 DEF Least
    <3> QED
      BY <2>2, <3>1 DEF Stays
  <2> QED
    BY <2>1, <2>2 DEF Least
<1>13. start \subseteq Least(start) /\ start \in SUBSET Module
  BY <1>0 DEF Least
<1>14. ASSUME NEW C \in SUBSET Module, start \subseteq C, Stays(C) PROVE Least(start) \subseteq C
  BY <1>14 DEF Least
<1>15. Least(start) \subseteq Default
  <2>1. Default \in SUBSET Module
    BY DEF Module
  <2>2. start \subseteq Default /\ Stays(Default)
    BY <1>0, <2>1 DEF Stays
  <2> QED
    BY <1>14, <2>1, <2>2
<1> QED
  BY <1>11, <1>12, <1>13, <1>14, <1>15 DEF Stays

\* What is below a module is named by it, or below what it names.
LEMMA BelowByName ==
  ASSUME declared \in Declarations, NEW m \in Module
  PROVE  /\ \A x \in Range(Names(m)) : x \in Module /\ x \in Below(m) /\ Below(x) \subseteq Below(m)
         /\ \A y \in Below(m) : \E x \in Range(Names(m)) : y = x \/ y \in Below(x)
<1>1. ASSUME NEW x \in Range(Names(m)) PROVE x \in Module /\ x \in Below(m) /\ Below(x) \subseteq Below(m)
  <2>1. x \in Module
    BY NamesFacts DEF Module
  <2>2. x \in Below(m) /\ Below(m) \in SUBSET Module
    BY BelowFacts DEF Module
  <2>3. Range(Names(x)) \subseteq Below(m) /\ \A d \in Below(m) : Range(Names(d)) \subseteq Below(m)
    BY <2>2, BelowFacts
  <2> QED
    BY <2>1, <2>2, <2>3, BelowFacts
<1>2. ASSUME NEW y \in Below(m) PROVE \E x \in Range(Names(m)) : y = x \/ y \in Below(x)
  <2> DEFINE C == {z \in Module : \E x \in Range(Names(m)) : z = x \/ z \in Below(x)}
  <2>1. Range(Names(m)) \subseteq C
    BY <1>1
  <2>2. ASSUME NEW d \in C PROVE Range(Names(d)) \subseteq C
    <3>1. PICK x \in Range(Names(m)) : d = x \/ d \in Below(x)
      OBVIOUS
    <3>2. x \in Module /\ Range(Names(d)) \subseteq Below(x)
      BY <1>1, <3>1, BelowFacts
    <3>3. Below(x) \subseteq Module
      BY <3>2, BelowFacts DEF Module
    <3> QED
      BY <3>2, <3>3
  <2>3. Below(m) \subseteq C
    <3>1. C \in SUBSET Module
      OBVIOUS
    <3> HIDE DEF C
    <3> QED
      BY <2>1, <2>2, <3>1, BelowFacts
  <2> QED
    BY <2>3
<1> QED
  BY <1>1, <1>2

-----------------------------------------------------------------------------
(***************************************************************************)
(* Expansion: what is below a module, each default after what is below it, *)
(* or the end of the run if some default is below itself.                  *)
(***************************************************************************)
Answers == Seq(Default) \cup {Cyclic}

\* What the loop does with one name.
OneMore(f, seen, s, def) ==
  IF s = Cyclic \/ def \in seen THEN Cyclic
  ELSE IF f[Call(def, seen \cup {def})] = Cyclic THEN Cyclic
  ELSE Append(s \o f[Call(def, seen \cup {def})], def)

LEMMA OneMoreType ==
  ASSUME NEW f, NEW seen \in SUBSET Module, \A x \in Default \ seen : f[Call(x, seen \cup {x})] \in Answers,
         NEW s \in Answers, NEW def \in Default
  PROVE  OneMore(f, seen, s, def) \in Answers
<1>1. CASE s = Cyclic \/ def \in seen \/ f[Call(def, seen \cup {def})] = Cyclic
  BY <1>1 DEF OneMore, Answers
<1>2. CASE s # Cyclic /\ def \notin seen /\ f[Call(def, seen \cup {def})] # Cyclic
  <2> DEFINE below == f[Call(def, seen \cup {def})]
  <2>1. s \in Seq(Default) /\ below \in Seq(Default) /\ OneMore(f, seen, s, def) = Append(s \o below, def)
    BY <1>2 DEF OneMore, Answers
  <2> HIDE DEF below
  <2>2. Append(s \o below, def) \in Seq(Default)
    BY <2>1
  <2> QED
    BY <2>1, <2>2 DEF Answers
<1> QED
  BY <1>1, <1>2

\* The lists on the way.
Joining(f, names, seen) ==
  {g \in [0 .. Len(names) -> Answers] :
      g[0] = <<>> /\ \A i \in 1 .. Len(names) : g[i] = OneMore(f, seen, g[i - 1], names[i])}

\* Joined is the last of them.
LEMMA JoinedRuns ==
  ASSUME NEW f, NEW names \in Seq(Default), NEW seen \in SUBSET Module,
         \A x \in Default \ seen : f[Call(x, seen \cup {x})] \in Answers
  PROVE  \E g \in Joining(f, names, seen) : Joined(f, names, seen) = g[Len(names)]
<1> DEFINE n == Len(names)
           A == Answers
           a == <<>>
           Op(s, i) == OneMore(f, seen, s, names[i])
           F == [p \in (1 .. n) \X A |-> Op(p[2], p[1])]
           Rule(g) == [i \in 0 .. n |-> IF i = 0 THEN a ELSE Op(g[i - 1], i)]
           run == CHOOSE g : g = Rule(g)
<1>1. n \in Nat /\ a \in A /\ \A i \in 1 .. n : names[i] \in Default
  BY DEF Answers
<1>2. F \in [(1 .. n) \X A -> A]
  <2>1. ASSUME NEW i \in 1 .. n, NEW s \in A PROVE OneMore(f, seen, s, names[i]) \in A
    BY <1>1, OneMoreType
  <2> HIDE DEF n, A
  <2> QED
    BY <2>1
<1> HIDE DEF n, A, a, Op
<1>3. PICK g : g \in Runs(n, A, a, F)
  <2> HIDE DEF F
  <2> QED
    BY <1>1, <1>2, RunExists
<1>4. /\ g \in [0 .. n -> A] /\ g[0] = a
      /\ \A i \in 1 .. n : g[i] = Op(g[i - 1], i)
  <2>1. g \in [0 .. n -> A] /\ g[0] = a /\ \A i \in 1 .. n : g[i] = F[<<i, g[i - 1]>>]
    BY <1>3, Zenon DEF Runs
  <2>2. \A i \in 1 .. n : i - 1 \in 0 .. n
    BY <1>1
  <2>3. \A i \in 1 .. n : <<i, g[i - 1]>> \in (1 .. n) \X A
    BY <2>1, <2>2
  <2> QED
    BY <2>1, <2>3
<1>5. g = Rule(g)
  <2>1. \A i \in 0 .. n : g[i] = IF i = 0 THEN a ELSE Op(g[i - 1], i)
    BY <1>1, <1>4
  <2> QED
    BY <1>4, <2>1
<1>6. run = Rule(run)
  BY <1>5
<1>7. \A i \in 0 .. n : run[i] = g[i]
  <2> DEFINE S == {i \in 0 .. n : run[i] = g[i]}
  <2>1. \A i \in 0 .. n : run[i] = IF i = 0 THEN a ELSE Op(run[i - 1], i)
    BY <1>6, Zenon
  <2> HIDE DEF run
  <2>2. 0 \in S
    BY <1>1, <1>4, <2>1
  <2>3. ASSUME NEW i \in 1 .. n, i - 1 \in S PROVE i \in S
    BY <1>1, <1>4, <2>1, <2>3
  <2>4. \A i \in 0 .. n : i \in S
    <3> HIDE DEF S
    <3> QED
      BY <1>1, <2>2, <2>3, IntervalInduction
  <2> QED
    BY <2>4
<1>8. Joined(f, names, seen) = run[n]
  BY Zenon DEF Joined, OneMore, n, a, Op
<1>9. g \in Joining(f, names, seen)
  BY <1>4 DEF Joining, n, A, a, Op
<1> HIDE DEF run, F
<1> QED
  BY <1>1, <1>7, <1>8, <1>9 DEF n

\* It depends on the calls one further down only.
LEMMA JoinedSame ==
  ASSUME NEW f, NEW h, NEW names \in Seq(Default), NEW seen \in SUBSET Module,
         \A x \in Default \ seen : f[Call(x, seen \cup {x})] = h[Call(x, seen \cup {x})]
  PROVE  Joined(f, names, seen) = Joined(h, names, seen)
<1> DEFINE n == Len(names)
           RuleF(g) == [i \in 0 .. n |-> IF i = 0 THEN <<>> ELSE OneMore(f, seen, g[i - 1], names[i])]
           RuleH(g) == [i \in 0 .. n |-> IF i = 0 THEN <<>> ELSE OneMore(h, seen, g[i - 1], names[i])]
<1>1. n \in Nat /\ \A i \in 1 .. n : names[i] \in Default
  OBVIOUS
<1>2. ASSUME NEW g PROVE RuleF(g) = RuleH(g)
  <2>1. ASSUME NEW i \in 0 .. n, i # 0
        PROVE  OneMore(f, seen, g[i - 1], names[i]) = OneMore(h, seen, g[i - 1], names[i])
    <3>1. names[i] \in Default
      BY <1>1, <2>1
    <3>2. names[i] \notin seen => f[Call(names[i], seen \cup {names[i]})] = h[Call(names[i], seen \cup {names[i]})]
      BY <3>1
    <3> QED
      BY <3>2 DEF OneMore
  <2> HIDE DEF n
  <2> QED
    BY <2>1
<1>3. Joined(f, names, seen) = (CHOOSE g : g = RuleF(g))[n] /\ Joined(h, names, seen) = (CHOOSE g : g = RuleH(g))[n]
  BY Zenon DEF Joined, OneMore
<1> HIDE DEF RuleF, RuleH
<1>4. (CHOOSE g : g = RuleF(g)) = (CHOOSE g : g = RuleH(g))
  BY <1>2
<1> QED
  BY <1>3, <1>4

\* Room for more.
Room == [c \in Calls |-> Cardinality(Module \ c.seen)]

LEMMA CallFacts ==
  /\ \A c \in Calls : c.of \in Module /\ c.seen \in SUBSET Module
  /\ \A x \in Module : \A seen \in SUBSET Module :
       Call(x, seen) \in Calls /\ Call(x, seen).of = x /\ Call(x, seen).seen = seen
  BY DEF Call, Calls

LEMMA RoomFacts ==
  /\ Cardinality(Module) \in Nat
  /\ \A c \in Calls : Room[c] \in Nat /\ Room[c] <= Cardinality(Module)
  /\ \A c \in Calls : \A x \in Module \ c.seen :
       /\ Call(x, c.seen \cup {x}) \in Calls
       /\ Room[Call(x, c.seen \cup {x})] < Room[c]
<1>1. IsFiniteSet(Module)
  BY DeclarationAssumption
<1>2. Cardinality(Module) \in Nat
  BY <1>1, FS_CardinalityType
<1>3. ASSUME NEW S \in SUBSET Module
      PROVE  IsFiniteSet(Module \ S) /\ Cardinality(Module \ S) \in Nat /\ Cardinality(Module \ S) <= Cardinality(Module)
  <2> DEFINE R == Module \ S
  <2>1. R \in SUBSET Module
    OBVIOUS
  <2> HIDE DEF R
  <2>2. IsFiniteSet(R) /\ Cardinality(R) <= Cardinality(Module)
    BY <1>1, <2>1, FS_Subset
  <2>3. Cardinality(R) \in Nat
    BY <2>2, FS_CardinalityType
  <2> QED
    BY <2>2, <2>3 DEF R
<1>4. \A c \in Calls : Room[c] = Cardinality(Module \ c.seen)
  BY DEF Room
<1>5. \A c \in Calls : Room[c] \in Nat /\ Room[c] <= Cardinality(Module)
  BY <1>3, <1>4, CallFacts
<1>6. ASSUME NEW c \in Calls, NEW x \in Module \ c.seen
      PROVE  Call(x, c.seen \cup {x}) \in Calls /\ Room[Call(x, c.seen \cup {x})] < Room[c]
  <2> DEFINE R == Module \ c.seen
             S == c.seen \cup {x}
  <2>1. S \in SUBSET Module /\ IsFiniteSet(R) /\ x \in R /\ Module \ S = R \ {x} /\ Cardinality(R) \in Nat
    BY <1>3, CallFacts
  <2>2. Call(x, S) \in Calls /\ Call(x, S).seen = S
    <3> HIDE DEF S
    <3> QED
      BY <2>1, CallFacts
  <2>3. Cardinality(R \ {x}) = Cardinality(R) - 1
    <3> HIDE DEF R
    <3> QED
      BY <2>1, FS_RemoveElement
  <2>4. Room[Call(x, S)] = Cardinality(R) - 1 /\ Room[c] = Cardinality(R)
    BY <1>4, <2>1, <2>2, <2>3
  <2> QED
    BY <2>1, <2>2, <2>4
<1> QED
  BY <1>2, <1>5, <1>6

\* The equation that the recursive function solves.
Expands(map, f) == f = [c \in Calls |-> Joined(f, map[c.of], c.seen)]

\* It has a solution: there is ever less room.
LEMMA ExpandExists ==
  ASSUME NEW map \in [Module -> Seq(Default)]
  PROVE  \E f : Expands(map, f)
<1> DEFINE A == Answers
           T == [Calls -> A]
           F == [p \in Calls \X T |-> Joined(p[2], map[p[1].of], p[1].seen)]
           K == Cardinality(Module)
           empty == <<>>
<1>1. ASSUME NEW c \in Calls, NEW f \in T PROVE Joined(f, map[c.of], c.seen) \in A
  <2>1. map[c.of] \in Seq(Default) /\ c.seen \in SUBSET Module
    BY CallFacts
  <2>2. \A x \in Default \ c.seen : f[Call(x, c.seen \cup {x})] \in Answers
    BY RoomFacts DEF Module
  <2>3. PICK g \in Joining(f, map[c.of], c.seen) : Joined(f, map[c.of], c.seen) = g[Len(map[c.of])]
    BY <2>1, <2>2, JoinedRuns
  <2>4. g \in [0 .. Len(map[c.of]) -> Answers] /\ Len(map[c.of]) \in 0 .. Len(map[c.of])
    BY <2>1 DEF Joining
  <2> QED
    BY <2>3, <2>4
<1>2. F \in [Calls \X T -> A]
  <2> HIDE DEF A, T
  <2> QED
    BY <1>1
<1>3. \A c \in Calls : \A f \in T : F[<<c, f>>] = Joined(f, map[c.of], c.seen)
  <2> HIDE DEF A, T
  <2> QED
    OBVIOUS
<1> HIDE DEF F
<1>4. Recursive(Calls, A, Room, F)
  <2> SUFFICES ASSUME NEW c \in Calls, NEW f \in T, NEW g \in T,
                      \A b \in Calls : Room[b] < Room[c] => f[b] = g[b]
               PROVE  F[<<c, f>>] = F[<<c, g>>]
    BY DEF Recursive
  <2>1. map[c.of] \in Seq(Default) /\ c.seen \in SUBSET Module
    BY CallFacts
  <2>2. \A x \in Default \ c.seen : f[Call(x, c.seen \cup {x})] = g[Call(x, c.seen \cup {x})]
    BY RoomFacts DEF Module
  <2>3. Joined(f, map[c.of], c.seen) = Joined(g, map[c.of], c.seen)
    BY <2>1, <2>2, JoinedSame
  <2> QED
    BY <1>3, <2>3
<1>5. empty \in A /\ K \in Nat /\ Room \in [Calls -> 0 .. K]
  <2>1. empty \in A
    BY DEF Answers
  <2>2. K \in Nat /\ \A c \in Calls : Room[c] \in 0 .. K
    BY RoomFacts
  <2>3. Room \in [Calls -> 0 .. K]
    BY <2>2 DEF Room
  <2> QED
    BY <2>1, <2>2, <2>3
<1> HIDE DEF A, K, empty
<1>r. Solutions(Calls, A, F) # {}
  <2>1. F \in [Calls \X [Calls -> A] -> A]
    BY <1>2
  <2> QED
    BY ONLY <1>4, <1>5, <2>1, RecursionExists
<1>6. PICK f \in T : \A c \in Calls : f[c] = F[<<c, f>>]
  BY <1>r DEF Solutions
<1>7. \A c \in Calls : f[c] = Joined(f, map[c.of], c.seen)
  BY <1>3, <1>6
<1>8. Expands(map, f)
  BY <1>6, <1>7 DEF Expands
<1> QED
  BY <1>8

LEMMA ExpandIs ==
  ASSUME NEW map \in [Module -> Seq(Default)], NEW m
  PROVE  \E f : Expands(map, f) /\ ExpandDefault(map, m) = f[Call(m, {})]
<1> DEFINE expand == CHOOSE f : Expands(map, f)
<1>1. Expands(map, expand)
  BY ExpandExists
<1>2. ExpandDefault(map, m) = expand[Call(m, {})]
  BY Zenon DEF ExpandDefault, Expands
<1> QED
  BY <1>1, <1>2

\* Every element is named by m, or by one that comes later.
NamedLater(m, s) ==
  \A i \in 1 .. Len(s) :
    s[i] \in Range(Names(m)) \/ \E j \in i + 1 .. Len(s) : s[i] \in Range(Names(s[j]))

\* The first i names of m, and what is below them.
First(m, i)  == {Names(m)[k] : k \in 1 .. i}
Reached(m, i) == First(m, i) \cup UNION {Below(x) : x \in First(m, i)}

\* Of two of the first i names, the later ends the list later, unless the
\* earlier is reached again.
NamesInOrder(m, i, s) ==
  \A a, b \in 1 .. i :
    /\ a < b
    /\ \A k \in a + 1 .. i : Names(m)[a] \notin Below(Names(m)[k]) \cup {Names(m)[k]}
    => EndsBefore(Names(m)[a], Names(m)[b], s)

\* An expansion of m without a cycle, and one with.
Expanding(m, seen, i, s) ==
  /\ s \in Seq(Default)
  /\ Range(s) = Reached(m, i)
  /\ \A x \in Reached(m, i) : x \notin seen /\ x \notin Below(x)
  /\ \A p \in 1 .. Len(s) :
       s[p] \in First(m, i) \/ \E q \in p + 1 .. Len(s) : s[p] \in Range(Names(s[q]))
  /\ NamesInOrder(m, i, s)

Cycling(m, seen, i) == \E x \in Reached(m, i) : x \in seen \/ x \in Below(x)

Expanded1(m, seen, i, s) ==
  IF s = Cyclic THEN Cycling(m, seen, i) ELSE Expanding(m, seen, i, s)

\* A list is no sign of the end of the run.
LEMMA NotCyclic == \A s \in Seq(Default) : s # Cyclic
  BY DeclarationAssumption DEF Module

\* One name more, and what is below it.
LEMMA ReachedMore ==
  ASSUME declared \in Declarations, NEW m \in Module, NEW i \in 1 .. Len(Names(m))
  PROVE  /\ First(m, i) = First(m, i - 1) \cup {Names(m)[i]}
         /\ Reached(m, i) = Reached(m, i - 1) \cup Below(Names(m)[i]) \cup {Names(m)[i]}
         /\ Names(m)[i] \in Default /\ Names(m)[i] \in Module
<1>1. Names(m) \in Seq(Default) /\ i \in Nat
  BY NamesFacts
<1>2. \A k \in 1 .. i : k \in 1 .. i - 1 \/ k = i
  BY <1>1
<1>3. \A k \in 1 .. i - 1 : k \in 1 .. i
  BY <1>1
<1>4. i \in 1 .. i
  BY <1>1
<1>5. First(m, i) = First(m, i - 1) \cup {Names(m)[i]}
  BY <1>2, <1>3, <1>4 DEF First
<1>6. Names(m)[i] \in Default /\ Names(m)[i] \in Module
  BY <1>1 DEF Module
<1> QED
  BY <1>5, <1>6 DEF Reached

\* All names reach what is below the module.
LEMMA ReachedAll ==
  ASSUME declared \in Declarations, NEW m \in Module
  PROVE  First(m, Len(Names(m))) = Range(Names(m)) /\ Reached(m, Len(Names(m))) = Below(m)
<1>1. First(m, Len(Names(m))) = Range(Names(m))
  BY NamesFacts DEF First
<1>2. Reached(m, Len(Names(m))) = Range(Names(m)) \cup UNION {Below(x) : x \in Range(Names(m))}
  BY <1>1 DEF Reached
<1> QED
  BY <1>1, <1>2, BelowByName

\* The joined list, and its parts.
LEMMA JoinedParts ==
  ASSUME NEW s \in Seq(Default), NEW u \in Seq(Default), NEW d \in Default
  PROVE  /\ Append(s \o u, d) \in Seq(Default)
         /\ Len(Append(s \o u, d)) = Len(s) + Len(u) + 1
         /\ \A p \in 1 .. Len(s) : Append(s \o u, d)[p] = s[p]
         /\ \A p \in 1 .. Len(u) : Append(s \o u, d)[Len(s) + p] = u[p]
         /\ Append(s \o u, d)[Len(s) + Len(u) + 1] = d
         /\ \A p \in 1 .. Len(Append(s \o u, d)) :
              \/ p \in 1 .. Len(s)
              \/ \E q \in 1 .. Len(u) : p = Len(s) + q
              \/ p = Len(s) + Len(u) + 1
         /\ Range(Append(s \o u, d)) = Range(s) \cup Range(u) \cup {d}
<1> DEFINE c == s \o u
           t == Append(c, d)
<1>1. /\ c \in Seq(Default) /\ Len(c) = Len(s) + Len(u) /\ Len(s) \in Nat /\ Len(u) \in Nat
      /\ \A p \in 1 .. Len(s) : c[p] = s[p]
      /\ \A p \in 1 .. Len(u) : c[Len(s) + p] = u[p]
  BY ConcatFacts
<1> HIDE DEF c
<1>2. /\ t \in Seq(Default) /\ Len(t) = Len(c) + 1 /\ (\A p \in 1 .. Len(c) : t[p] = c[p]) /\ t[Len(c) + 1] = d
  BY <1>1, AppendFacts
<1> HIDE DEF t
<1>3. \A p \in 1 .. Len(s) : t[p] = s[p]
  BY <1>1, <1>2
<1>4. \A p \in 1 .. Len(u) : t[Len(s) + p] = u[p]
  <2>1. \A p \in 1 .. Len(u) : Len(s) + p \in 1 .. Len(c)
    BY <1>1
  <2> QED
    BY <1>1, <1>2, <2>1
<1>5. ASSUME NEW p \in 1 .. Len(t)
      PROVE  \/ p \in 1 .. Len(s)
             \/ \E q \in 1 .. Len(u) : p = Len(s) + q
             \/ p = Len(s) + Len(u) + 1
  <2>1. p \in 1 .. Len(s) \/ p = Len(s) + Len(u) + 1 \/ (p - Len(s) \in 1 .. Len(u) /\ p = Len(s) + (p - Len(s)))
    BY <1>1, <1>2
  <2> QED
    BY <2>1
<1>7. t[Len(s) + Len(u) + 1] = d /\ Len(t) = Len(s) + Len(u) + 1
  BY <1>1, <1>2
<1>6. Range(t) = Range(s) \cup Range(u) \cup {d}
  <2>1. DOMAIN t = 1 .. Len(t) /\ DOMAIN s = 1 .. Len(s) /\ DOMAIN u = 1 .. Len(u)
    BY <1>2
  <2>2. ASSUME NEW x \in Range(t) PROVE x \in Range(s) \cup Range(u) \cup {d}
    <3>1. PICK p \in 1 .. Len(t) : x = t[p]
      BY <2>1 DEF Range
    <3>2. CASE p \in 1 .. Len(s)
      BY <1>3, <2>1, <3>1, <3>2 DEF Range
    <3>3. ASSUME NEW q \in 1 .. Len(u), p = Len(s) + q PROVE x \in Range(u)
      BY <1>4, <2>1, <3>1, <3>3 DEF Range
    <3>4. CASE p = Len(s) + Len(u) + 1
      BY <1>1, <1>2, <3>1, <3>4
    <3> QED
      BY <1>5, <3>2, <3>3, <3>4
  <2>3. ASSUME NEW x \in Range(s) PROVE x \in Range(t)
    <3>1. PICK p \in 1 .. Len(s) : x = s[p]
      BY <2>1 DEF Range
    <3>2. p \in 1 .. Len(t)
      BY <1>1, <1>2
    <3> QED
      BY <1>3, <2>1, <3>1, <3>2 DEF Range
  <2>4. ASSUME NEW x \in Range(u) PROVE x \in Range(t)
    <3>1. PICK p \in 1 .. Len(u) : x = u[p]
      BY <2>1 DEF Range
    <3>2. Len(s) + p \in 1 .. Len(t)
      BY <1>1, <1>2
    <3> QED
      BY <1>4, <2>1, <3>1, <3>2 DEF Range
  <2>5. d \in Range(t)
    <3>1. Len(c) + 1 \in 1 .. Len(t)
      BY <1>1, <1>2
    <3> QED
      BY <1>2, <2>1, <3>1 DEF Range
  <2> QED
    BY <2>2, <2>3, <2>4, <2>5
<1> QED
  BY <1>2, <1>3, <1>4, <1>5, <1>6, <1>7 DEF t, c

\* Each element of the joined list is named, or followed by one that names it.
LEMMA JoinedNames ==
  ASSUME declared \in Declarations, NEW m \in Module, NEW i \in 1 .. Len(Names(m)),
         NEW s, NEW seen, Expanding(m, seen, i - 1, s),
         NEW u \in Seq(Default), NamedLater(Names(m)[i], u),
         NEW p \in 1 .. Len(Append(s \o u, Names(m)[i]))
  PROVE  \/ Append(s \o u, Names(m)[i])[p] \in First(m, i)
         \/ \E q \in p + 1 .. Len(Append(s \o u, Names(m)[i])) :
              Append(s \o u, Names(m)[i])[p] \in Range(Names(Append(s \o u, Names(m)[i])[q]))
<1> DEFINE d == Names(m)[i]
           t == Append(s \o u, d)
<1>1. s \in Seq(Default) /\ d \in Default /\ First(m, i) = First(m, i - 1) \cup {d}
  BY ReachedMore DEF Expanding
<1>2. /\ Len(t) = Len(s) + Len(u) + 1
      /\ \A o \in 1 .. Len(s) : t[o] = s[o]
      /\ \A o \in 1 .. Len(u) : t[Len(s) + o] = u[o]
      /\ t[Len(s) + Len(u) + 1] = d
      /\ \A o \in 1 .. Len(t) :
           \/ o \in 1 .. Len(s)
           \/ \E q \in 1 .. Len(u) : o = Len(s) + q
           \/ o = Len(s) + Len(u) + 1
  <2> HIDE DEF d
  <2> QED
    BY <1>1, JoinedParts
<1>3. Len(s) \in Nat /\ Len(u) \in Nat
  BY <1>1
<1> HIDE DEF d, t
<1>p. p \in 1 .. Len(t)
  BY DEF d, t
<1>g. t[p] \in First(m, i) \/ \E q \in p + 1 .. Len(t) : t[p] \in Range(Names(t[q]))
  <2>1. CASE p \in 1 .. Len(s)
    <3>1. s[p] \in First(m, i - 1) \/ \E q \in p + 1 .. Len(s) : s[p] \in Range(Names(s[q]))
      BY <2>1 DEF Expanding
    <3>2. \A q \in p + 1 .. Len(s) : q \in 1 .. Len(s) /\ q \in p + 1 .. Len(t)
      BY <1>2, <1>3, <2>1
    <3> QED
      BY <1>1, <1>2, <2>1, <3>1, <3>2
  <2>2. ASSUME NEW o \in 1 .. Len(u), p = Len(s) + o
        PROVE  t[p] \in First(m, i) \/ \E q \in p + 1 .. Len(t) : t[p] \in Range(Names(t[q]))
    <3>1. t[p] = u[o]
      BY <1>2, <2>2
    <3>2. CASE u[o] \in Range(Names(d))
      <4>1. Len(s) + Len(u) + 1 \in p + 1 .. Len(t)
        BY <1>2, <1>3, <2>2
      <4> QED
        BY <1>2, <3>1, <3>2, <4>1
    <3>3. CASE \E q \in o + 1 .. Len(u) : u[o] \in Range(Names(u[q]))
      <4>1. PICK q \in o + 1 .. Len(u) : u[o] \in Range(Names(u[q]))
        BY <3>3
      <4>2. q \in 1 .. Len(u) /\ Len(s) + q \in p + 1 .. Len(t)
        BY <1>2, <1>3, <2>2
      <4> QED
        BY <1>2, <3>1, <4>1, <4>2
    <3> QED
      BY <3>2, <3>3 DEF NamedLater, d
  <2>3. CASE p = Len(s) + Len(u) + 1
    BY <1>1, <1>2, <2>3
  <2> QED
    BY <1>2, <1>p, <2>1, <2>2, <2>3
<1> QED
  BY <1>g DEF d, t

\* The names keep their order.
LEMMA JoinedInOrder ==
  ASSUME declared \in Declarations, NEW m \in Module, NEW i \in 1 .. Len(Names(m)),
         NEW s, NEW seen, Expanding(m, seen, i - 1, s),
         NEW u \in Seq(Default), Range(u) = Below(Names(m)[i])
  PROVE  NamesInOrder(m, i, Append(s \o u, Names(m)[i]))
<1> DEFINE d == Names(m)[i]
           t == Append(s \o u, d)
<1>1. s \in Seq(Default) /\ d \in Default /\ Range(s) = Reached(m, i - 1)
  BY ReachedMore DEF Expanding
<1>2. /\ Len(t) = Len(s) + Len(u) + 1
      /\ \A o \in 1 .. Len(s) : t[o] = s[o]
      /\ \A o \in 1 .. Len(u) : t[Len(s) + o] = u[o]
      /\ t[Len(s) + Len(u) + 1] = d
      /\ \A o \in 1 .. Len(t) :
           \/ o \in 1 .. Len(s)
           \/ \E q \in 1 .. Len(u) : o = Len(s) + q
           \/ o = Len(s) + Len(u) + 1
  <2> HIDE DEF d
  <2> QED
    BY <1>1, JoinedParts
<1>3. Len(s) \in Nat /\ Len(u) \in Nat /\ i \in Nat /\ DOMAIN s = 1 .. Len(s) /\ DOMAIN u = 1 .. Len(u)
  BY <1>1, NamesFacts
<1>d. d = Names(m)[i]
  OBVIOUS
<1> HIDE DEF d, t
<1>4. ASSUME NEW a \in 1 .. i, NEW b \in 1 .. i, a < b,
             \A k \in a + 1 .. i : Names(m)[a] \notin Below(Names(m)[k]) \cup {Names(m)[k]}
      PROVE  EndsBefore(Names(m)[a], Names(m)[b], t)
  <2> DEFINE x == Names(m)[a]
             y == Names(m)[b]
  <2>1. a \in 1 .. i - 1 /\ i \in a + 1 .. i
    BY <1>3, <1>4
  <2>2. x # d /\ x \notin Range(u)
    BY <1>4, <1>d, <2>1
  <2>3. x \in Range(s)
    BY <1>1, <2>1 DEF Reached, First
  <2> HIDE DEF x, y
  <2>4. PICK p0 \in 1 .. Len(s) : s[p0] = x
    BY <1>3, <2>3 DEF Range
  <2>5. p0 \in 1 .. Len(t) /\ t[p0] = x
    BY <1>2, <1>3, <2>4
  <2>6. ASSUME NEW p \in 1 .. Len(t), t[p] = x PROVE p \in 1 .. Len(s) /\ s[p] = x
    <3>1. p # Len(s) + Len(u) + 1
      BY <1>2, <2>2, <2>6
    <3>2. \A q \in 1 .. Len(u) : p # Len(s) + q
      BY <1>2, <1>3, <2>2, <2>6 DEF Range
    <3> QED
      BY <1>2, <2>6, <3>1, <3>2
  <2>7. CASE b = i
    <3> DEFINE q == Len(s) + Len(u) + 1
    <3>1. q \in 1 .. Len(t) /\ t[q] = y
      BY <1>2, <1>3, <1>d, <2>7 DEF y
    <3>2. \A p \in 1 .. Len(t) : t[p] = x => p < q
      BY <1>3, <2>6
    <3> HIDE DEF q
    <3>3. EndsBefore(x, y, t)
      BY <2>5, <3>1, <3>2 DEF EndsBefore
    <3> QED
      BY <3>3 DEF x, y
  <2>8. CASE b # i
    <3>1. b \in 1 .. i - 1 /\ \A k \in a + 1 .. i - 1 : k \in a + 1 .. i
      BY <1>3, <2>1, <2>8
    <3>2. EndsBefore(x, y, s)
      BY <1>4, <2>1, <3>1 DEF Expanding, NamesInOrder, x, y
    <3>3. PICK q \in 1 .. Len(s) : s[q] = y /\ \A p \in 1 .. Len(s) : s[p] = x => p < q
      BY <3>2 DEF EndsBefore
    <3>4. q \in 1 .. Len(t) /\ t[q] = y
      BY <1>2, <1>3, <3>3
    <3>5. \A p \in 1 .. Len(t) : t[p] = x => p < q
      BY <2>6, <3>3
    <3>6. EndsBefore(x, y, t)
      BY <2>5, <3>4, <3>5 DEF EndsBefore
    <3> QED
      BY <3>6 DEF x, y
  <2> QED
    BY <2>7, <2>8
<1>5. NamesInOrder(m, i, t)
  BY <1>4 DEF NamesInOrder
<1> QED
  BY <1>5 DEF d, t

\* What is to be expanded, and what is given for it.
Expansion(d, seen, r) == Expanded1(d, seen, Len(Names(d)), r)

LEMMA ExpansionSays ==
  ASSUME declared \in Declarations, NEW d \in Module, NEW seen, NEW r, Expansion(d, seen, r)
  PROVE  /\ r \in Answers
         /\ r = Cyclic => \E x \in Below(d) : x \in seen \/ x \in Below(x)
         /\ r # Cyclic => /\ r \in Seq(Default) /\ Range(r) = Below(d)
                          /\ \A x \in Below(d) : x \notin seen /\ x \notin Below(x)
                          /\ NamedLater(d, r)
                          /\ NamesInOrder(d, Len(Names(d)), r)
<1>1. First(d, Len(Names(d))) = Range(Names(d)) /\ Reached(d, Len(Names(d))) = Below(d)
  BY ReachedAll
<1>2. CASE r = Cyclic
  BY <1>1, <1>2 DEF Expansion, Expanded1, Cycling, Answers
<1>3. CASE r # Cyclic
  <2>1. Expanding(d, seen, Len(Names(d)), r)
    BY <1>3 DEF Expansion, Expanded1
  <2>2. NamedLater(d, r)
    BY <1>1, <2>1 DEF Expanding, NamedLater
  <2> QED
    BY <1>1, <1>3, <2>1, <2>2 DEF Expanding, Answers
<1> QED
  BY <1>2, <1>3

\* One more name keeps to it.
LEMMA OneMoreExpands ==
  ASSUME declared \in Declarations, NEW m \in Module, NEW seen \in SUBSET Module, NEW i \in 1 .. Len(Names(m)),
         NEW f, NEW s, Expanded1(m, seen, i - 1, s),
         \A x \in Default \ seen : Expansion(x, seen \cup {x}, f[Call(x, seen \cup {x})])
  PROVE  Expanded1(m, seen, i, OneMore(f, seen, s, Names(m)[i]))
<1> DEFINE d == Names(m)[i]
           u == f[Call(d, seen \cup {d})]
           t == OneMore(f, seen, s, d)
<1>1. /\ First(m, i) = First(m, i - 1) \cup {d}
      /\ Reached(m, i) = Reached(m, i - 1) \cup Below(d) \cup {d}
      /\ d \in Default /\ d \in Module
  BY ReachedMore
<1>2. CASE s = Cyclic
  <2>1. Cycling(m, seen, i - 1)
    BY <1>2 DEF Expanded1
  <2>2. Cycling(m, seen, i)
    BY <1>1, <2>1 DEF Cycling
  <2> QED
    BY <1>2, <2>2 DEF Expanded1, OneMore
<1>3. CASE s # Cyclic /\ d \in seen
  <2>1. Cycling(m, seen, i)
    BY <1>1, <1>3 DEF Cycling
  <2> QED
    BY <1>3, <2>1 DEF Expanded1, OneMore
<1>4. CASE s # Cyclic /\ d \notin seen /\ u = Cyclic
  <2>1. Expansion(d, seen \cup {d}, u)
    BY <1>1, <1>4
  <2>2. \E x \in Below(d) : x \in seen \cup {d} \/ x \in Below(x)
    <3> HIDE DEF d, u
    <3> QED
      BY <1>1, <1>4, <2>1, ExpansionSays
  <2>3. Cycling(m, seen, i)
    BY <1>1, <2>2 DEF Cycling
  <2> QED
    BY <1>4, <2>3 DEF Expanded1, OneMore
<1>5. CASE s # Cyclic /\ d \notin seen /\ u # Cyclic
  <2>1. Expansion(d, seen \cup {d}, u)
    BY <1>1, <1>5
  <2>2. /\ u \in Seq(Default) /\ Range(u) = Below(d)
        /\ \A x \in Below(d) : x \notin seen \cup {d} /\ x \notin Below(x)
        /\ NamedLater(d, u)
    <3> HIDE DEF d, u
    <3> QED
      BY <1>1, <1>5, <2>1, ExpansionSays
  <2>3. Expanding(m, seen, i - 1, s)
    BY <1>5 DEF Expanded1
  <2>4. s \in Seq(Default) /\ Range(s) = Reached(m, i - 1)
    BY <2>3 DEF Expanding
  <2> DEFINE w == Append(s \o u, d)
  <2>5. t = w
    BY <1>5 DEF OneMore
  <2>6. w \in Seq(Default) /\ Range(w) = Range(s) \cup Range(u) \cup {d}
    <3> HIDE DEF d, u
    <3> QED
      BY <1>1, <2>2, <2>4, JoinedParts
  <2>7. Range(w) = Reached(m, i)
    BY <1>1, <2>2, <2>4, <2>6
  <2>8. \A x \in Reached(m, i) : x \notin seen /\ x \notin Below(x)
    <3>1. \A x \in Reached(m, i - 1) : x \notin seen /\ x \notin Below(x)
      BY <2>3 DEF Expanding
    <3>2. d \notin Below(d)
      BY <2>2
    <3> QED
      BY <1>1, <1>5, <2>2, <3>1, <3>2
  <2>9. \A p \in 1 .. Len(w) :
          w[p] \in First(m, i) \/ \E q \in p + 1 .. Len(w) : w[p] \in Range(Names(w[q]))
    <3> HIDE DEF u
    <3> QED
      BY <2>2, <2>3, JoinedNames
  <2>10. NamesInOrder(m, i, w)
    <3> HIDE DEF u
    <3> QED
      BY <2>2, <2>3, JoinedInOrder
  <2>11. Expanding(m, seen, i, w)
    BY <2>6, <2>7, <2>8, <2>9, <2>10 DEF Expanding
  <2>12. w # Cyclic
    BY <2>6, NotCyclic
  <2> QED
    BY <2>5, <2>11, <2>12 DEF Expanded1
<1> QED
  BY <1>2, <1>3, <1>4, <1>5

LEMMA JoinedExpands ==
  ASSUME declared \in Declarations, NEW m \in Module, NEW seen \in SUBSET Module, NEW f,
         \A x \in Default \ seen : Expansion(x, seen \cup {x}, f[Call(x, seen \cup {x})])
  PROVE  Expansion(m, seen, Joined(f, Names(m), seen))
<1> DEFINE n == Len(Names(m))
<1>1. Names(m) \in Seq(Default) /\ n \in Nat
  BY NamesFacts
<1>2. \A x \in Default \ seen : f[Call(x, seen \cup {x})] \in Answers
  BY ExpansionSays DEF Module
<1>3. PICK g \in Joining(f, Names(m), seen) : Joined(f, Names(m), seen) = g[n]
  BY <1>1, <1>2, JoinedRuns
<1>4. g[0] = <<>> /\ \A i \in 1 .. n : g[i] = OneMore(f, seen, g[i - 1], Names(m)[i])
  BY DEF Joining
<1> DEFINE S == {i \in 0 .. n : Expanded1(m, seen, i, g[i])}
<1>5. 0 \in S
  <2>1. First(m, 0) = {} /\ Reached(m, 0) = {}
    BY DEF First, Reached
  <2>2. Expanding(m, seen, 0, <<>>)
    BY <2>1 DEF Expanding, NamesInOrder, Range
  <2>3. <<>> # Cyclic
    <3>1. <<>> \in Seq(Default)
      OBVIOUS
    <3> QED
      BY <3>1, NotCyclic
  <2> QED
    BY <1>1, <1>4, <2>2, <2>3 DEF Expanded1
<1>6. ASSUME NEW i \in 1 .. n, i - 1 \in S PROVE i \in S
  <2>1. Expanded1(m, seen, i, OneMore(f, seen, g[i - 1], Names(m)[i]))
    BY <1>6, OneMoreExpands
  <2>2. i \in 0 .. n
    BY <1>1
  <2> QED
    BY <1>4, <2>1, <2>2
<1>7. \A i \in 0 .. n : i \in S
  <2> HIDE DEF S, n
  <2> QED
    BY <1>1, <1>5, <1>6, IntervalInduction
<1>8. n \in 0 .. n
  BY <1>1
<1> QED
  BY <1>3, <1>7, <1>8 DEF Expansion

\* What expandDefault gives for a module is its expansion.
LEMMA ExpandFacts ==
  ASSUME declared \in Declarations, NEW m \in Module
  PROVE  Expansion(m, {}, ExpandDefault(declared.defaults, m))
<1> DEFINE map == declared.defaults
<1>0. map \in [Module -> Seq(Default)]
  BY DeclarationAssumption
<1>1. PICK f : Expands(map, f) /\ ExpandDefault(map, m) = f[Call(m, {})]
  <2> HIDE DEF map
  <2> QED
    BY <1>0, ExpandIs
<1>2. \A c \in Calls : f[c] = Joined(f, Names(c.of), c.seen)
  BY <1>1, Zenon DEF Expands, Names
<1> DEFINE S == {k \in Nat : \A c \in Calls : Room[c] <= k => Expansion(c.of, c.seen, f[c])}
<1>3. ASSUME NEW c \in Calls, \A b \in Calls : Room[b] < Room[c] => Expansion(b.of, b.seen, f[b])
      PROVE  Expansion(c.of, c.seen, f[c])
  <2>1. c.of \in Module /\ c.seen \in SUBSET Module
    BY CallFacts
  <2>2. ASSUME NEW x \in Default \ c.seen
        PROVE  Expansion(x, c.seen \cup {x}, f[Call(x, c.seen \cup {x})])
    <3> DEFINE b == Call(x, c.seen \cup {x})
    <3>1. x \in Module \ c.seen
      BY DEF Module
    <3>2. b \in Calls /\ Room[b] < Room[c]
      BY <3>1, RoomFacts
    <3>3. b.of = x /\ b.seen = c.seen \cup {x}
      BY <2>1, <3>1, CallFacts
    <3>4. Expansion(b.of, b.seen, f[b])
      BY <1>3, <3>2
    <3> QED
      BY <3>3, <3>4
  <2>3. Expansion(c.of, c.seen, Joined(f, Names(c.of), c.seen))
    BY <2>1, <2>2, JoinedExpands
  <2> QED
    BY <1>2, <2>3
<1>4. 0 \in S
  <2> SUFFICES ASSUME NEW c \in Calls, Room[c] <= 0 PROVE Expansion(c.of, c.seen, f[c])
    OBVIOUS
  <2>1. \A b \in Calls : ~(Room[b] < Room[c])
    BY RoomFacts
  <2> QED
    BY <1>3, <2>1
<1>5. ASSUME NEW k \in Nat, k \in S PROVE k + 1 \in S
  <2> SUFFICES ASSUME NEW c \in Calls, Room[c] <= k + 1 PROVE Expansion(c.of, c.seen, f[c])
    OBVIOUS
  <2>1. \A b \in Calls : Room[b] < Room[c] => Room[b] <= k
    BY RoomFacts
  <2> QED
    BY <1>3, <1>5, <2>1
<1>6. \A k \in Nat : k \in S
  <2> HIDE DEF S
  <2> QED
    BY <1>4, <1>5, NatSetInduction
<1>7. Call(m, {}) \in Calls /\ Call(m, {}).of = m /\ Call(m, {}).seen = {}
  BY CallFacts
<1>8. Room[Call(m, {})] \in Nat /\ Room[Call(m, {})] <= Room[Call(m, {})]
  BY <1>7, RoomFacts
<1>9. Expansion(Call(m, {}).of, Call(m, {}).seen, f[Call(m, {})])
  BY <1>6, <1>7, <1>8
<1> QED
  BY <1>1, <1>7, <1>9

\* It ends the run if, and only if, some default below m is below itself.
LEMMA ExpandEnds ==
  ASSUME declared \in Declarations, NEW m \in Module
  PROVE  ExpandDefault(declared.defaults, m) = Cyclic <=> \E d \in Below(m) : d \in Below(d)
<1>1. Expansion(m, {}, ExpandDefault(declared.defaults, m))
  BY ExpandFacts
<1> QED
  BY <1>1, ExpansionSays

\* The list of a module, when there is one.
LEMMA ListFacts ==
  ASSUME declared \in Declarations, NEW m \in User, NEW list,
         list = LastOccurrences(ExpandDefault(declared.defaults, m)),
         ExpandDefault(declared.defaults, m) # Cyclic
  PROVE  /\ list \in Seq(Default)
         /\ Range(list) = Below(m) /\ Len(list) = Cardinality(Below(m))
         /\ \A i, j \in DOMAIN Names(m) :
              /\ i < j
              /\ \A k \in DOMAIN Names(m) : k > i => Names(m)[i] \notin Below(Names(m)[k]) \cup {Names(m)[k]}
              => Precedes(Names(m)[i], Names(m)[j], list)
         /\ \A y \in Below(m), x \in Below(m) :
              /\ x \in Range(Names(y))
              /\ \A z \in (Below(m) \cup {m}) \ {y} : x \notin Range(Names(z))
              => Precedes(x, y, list)
<1> DEFINE r == ExpandDefault(declared.defaults, m)
<1>0. m \in Module /\ m \notin Default
  BY DeclarationAssumption DEF Module
<1>1. /\ r \in Seq(Default) /\ Range(r) = Below(m) /\ NamedLater(m, r) /\ NamesInOrder(m, Len(Names(m)), r)
  <2>1. Expansion(m, {}, r)
    BY <1>0, ExpandFacts
  <2> HIDE DEF r
  <2> QED
    BY <1>0, <2>1, ExpansionSays DEF r
<1> HIDE DEF r
<1>2. /\ list \in Seq(Default) /\ Range(list) = Range(r)
      /\ \A k, l \in 1 .. Len(list) : list[k] = list[l] => k = l
      /\ \A x, y : EndsBefore(x, y, r) => Precedes(x, y, list)
  <2>1. list = LastOccurrences(r)
    BY DEF r
  <2> QED
    BY <1>1, <2>1, LastFacts
<1>3. Len(list) = Cardinality(Below(m))
  <2> DEFINE D == 1 .. Len(list)
             B == Below(m)
  <2>1. DOMAIN list = D /\ Len(list) \in Nat /\ list \in [D -> Default]
    BY <1>2
  <2>2. B = {list[i] : i \in D}
    BY <1>1, <1>2, <2>1 DEF Range
  <2>3. list \in Bijection(D, B)
    <3>1. list \in [D -> B]
      BY <2>1, <2>2
    <3>2. \A k, l \in D : list[k] = list[l] => k = l
      BY <1>2
    <3>3. \A y \in B : \E k \in D : list[k] = y
      BY <2>2
    <3> HIDE DEF D, B
    <3> QED
      BY <2>1, <3>1, <3>2, <3>3 DEF Bijection, Injection, Surjection, IsInjective
  <2>4. IsFiniteSet(D) /\ Cardinality(D) = Len(list)
    <3> DEFINE n == Len(list)
    <3>1. n \in Nat
      BY <2>1
    <3> HIDE DEF n
    <3>2. IsFiniteSet(1 .. n) /\ Cardinality(1 .. n) = n
      BY <3>1, FS_Interval
    <3> QED
      BY <3>2 DEF n
  <2> HIDE DEF D, B
  <2>5. Cardinality(D) = Cardinality(B)
    <3>1. ExistsBijection(D, B)
      BY <2>3 DEF ExistsBijection
    <3> QED
      BY <2>4, <3>1, FS_Bijection
  <2> QED
    BY <2>4, <2>5 DEF B
<1>4. ASSUME NEW i \in DOMAIN Names(m), NEW j \in DOMAIN Names(m), i < j,
             \A k \in DOMAIN Names(m) : k > i => Names(m)[i] \notin Below(Names(m)[k]) \cup {Names(m)[k]}
      PROVE  Precedes(Names(m)[i], Names(m)[j], list)
  <2>1. DOMAIN Names(m) = 1 .. Len(Names(m)) /\ Len(Names(m)) \in Nat
    BY <1>0, NamesFacts
  <2>2. \A k \in i + 1 .. Len(Names(m)) : k \in DOMAIN Names(m) /\ k > i
    BY <2>1
  <2>3. EndsBefore(Names(m)[i], Names(m)[j], r)
    BY <1>1, <1>4, <2>1, <2>2 DEF NamesInOrder
  <2> QED
    BY <1>2, <2>3
<1>5. ASSUME NEW y \in Below(m), NEW x \in Below(m), x \in Range(Names(y)),
             \A z \in (Below(m) \cup {m}) \ {y} : x \notin Range(Names(z))
      PROVE  Precedes(x, y, list)
  <2>1. DOMAIN r = 1 .. Len(r) /\ Len(r) \in Nat /\ \A i \in 1 .. Len(r) : r[i] \in Below(m)
    BY <1>1 DEF Range
  <2>2. PICK p0 \in 1 .. Len(r) : r[p0] = x
    BY <1>1, <2>1 DEF Range
  <2>3. PICK q0 \in 1 .. Len(r) : r[q0] = y
    BY <1>1, <2>1 DEF Range
  <2>4. PICK q \in q0 .. Len(r) : IsLast(r, q) /\ r[q] = r[q0]
    BY <1>1, LastOne
  <2>5. q \in 1 .. Len(r) /\ r[q] = y
    BY <2>1, <2>3, <2>4
  <2>6. y # m
    BY <1>0, BelowFacts
  <2>7. ASSUME NEW p \in 1 .. Len(r), r[p] = x PROVE p < q
    <3>1. r[p] \notin Range(Names(m))
      BY <1>5, <2>6, <2>7
    <3>2. PICK j \in p + 1 .. Len(r) : r[p] \in Range(Names(r[j]))
      BY <1>1, <3>1 DEF NamedLater
    <3>3. j \in 1 .. Len(r) /\ r[j] = y
      BY <1>5, <2>1, <2>7, <3>2
    <3>4. ~(q < j)
      <4> SUFFICES ASSUME q < j PROVE FALSE
        OBVIOUS
      <4>1. j \in q + 1 .. Len(r)
        BY <2>1, <2>5, <3>3
      <4> QED
        BY <2>4, <2>5, <3>3, <4>1 DEF IsLast
    <3> QED
      BY <2>1, <2>5, <3>2, <3>3, <3>4
  <2>8. EndsBefore(x, y, r)
    BY <2>2, <2>5, <2>7 DEF EndsBefore
  <2> QED
    BY <1>2, <2>8
<1> QED
  BY <1>1, <1>2, <1>3, <1>4, <1>5

-----------------------------------------------------------------------------
(* What the first pass has written, and that it has written everything     *)
(* once it has ended.                                                      *)
MapIsDeclared ==
  /\ defaultsMap \in [Module -> Seq(Default)]
  /\ \A m \in Module :
       pass # 1 \/ <<m, "all">> \in visited \/ m \notin declared.modules
       => defaultsMap[m] = declared.defaults[m]

\* Those whose list is there do not end the run, and a run that ended had cause to.
EndsWithCause ==
  /\ \A m \in Module : Expanded(m) => ExpandDefault(declared.defaults, m) # Cyclic
  /\ pass = 0 => \E m \in User : ExpandDefault(declared.defaults, m) = Cyclic

IInv ==
  /\ declared \in Declarations
  /\ pass \in 0..9
  /\ DOMAIN deps = Module
  /\ MapIsDeclared
  /\ DepsAreDeclared
  /\ EndsWithCause

LEMMA DeclaredMap ==
  ASSUME declared \in Declarations
  PROVE  /\ declared.modules \subseteq Module
         /\ declared.defaults \in [Module -> Seq(Default)]
         /\ \A m \in Module \ declared.modules : declared.defaults[m] = <<>>
  BY DeclarationAssumption

(* A pass that leaves the map and the dependencies alone.                  *)
LEMMA OtherPasses ==
  ASSUME IInv, UNCHANGED <<declared, pass, defaultsMap, deps>>, pass # 1, pass # 2
  PROVE  IInv'
  BY DEF IInv, MapIsDeclared, DepsAreDeclared, EndsWithCause, Expanded

LEMMA InitIInv == Init => IInv
<1> SUFFICES ASSUME Init PROVE IInv
  OBVIOUS
<1>1. declared \in Declarations /\ pass = 1 /\ visited = {} /\ DOMAIN deps = Module
  BY DEF Init
<1>2. defaultsMap \in [Module -> Seq(Default)]
  BY DEF Init
<1>3. MapIsDeclared
  BY <1>1, <1>2, DeclaredMap DEF MapIsDeclared, Init
<1>4. DepsAreDeclared /\ EndsWithCause
  BY <1>1 DEF DepsAreDeclared, EndsWithCause, Expanded
<1> QED
  BY <1>1, <1>3, <1>4 DEF IInv

LEMMA NextIInv == IInv /\ [Next]_vars => IInv'
<1> SUFFICES ASSUME IInv, [Next]_vars PROVE IInv'
  OBVIOUS
<1>d. /\ declared.modules \subseteq Module
      /\ declared.defaults \in [Module -> Seq(Default)]
  BY DeclaredMap DEF IInv
<1>1. ASSUME NEW m \in Module, DefaultDepsStage1(m) PROVE IInv'
  <2>1. /\ pass = 1 /\ visited' = visited \cup {<<m, "all">>}
        /\ defaultsMap' = [defaultsMap EXCEPT ![m] = declared.defaults[m]]
        /\ UNCHANGED <<declared, pass, deps>>
    BY <1>1 DEF DefaultDepsStage1, Visiting
  <2>2. MapIsDeclared'
    BY <1>d, <2>1 DEF IInv, MapIsDeclared
  <2>3. DepsAreDeclared' /\ EndsWithCause'
    BY <2>1 DEF DepsAreDeclared, EndsWithCause, Expanded
  <2> QED
    BY <2>1, <2>2, <2>3 DEF IInv
<1>2. ASSUME NEW m \in Module, DefaultDepsStage2(m) PROVE IInv'
  <2>1. /\ pass = 2 /\ visited' = visited \cup {<<m, "all">>} /\ m \in User
        /\ UNCHANGED <<declared, defaultsMap>>
    BY <1>2 DEF DefaultDepsStage2, Visiting, ToVisit
  <2>2. defaultsMap = declared.defaults
    BY <1>d, <2>1 DEF IInv, MapIsDeclared
  <2>3. MapIsDeclared'
    BY <2>1, <2>2, <1>d, DeclaredMap DEF IInv, MapIsDeclared
  <2>4. CASE ExpandDefault(defaultsMap, m) = Cyclic
    <3>1. pass' = 0 /\ deps' = deps
      BY <1>2, <2>4 DEF DefaultDepsStage2
    <3>2. DepsAreDeclared'
      BY <3>1 DEF DepsAreDeclared, Expanded
    <3>3. EndsWithCause'
      BY <2>1, <2>2, <2>4, <3>1 DEF EndsWithCause, Expanded
    <3> QED
      BY <2>1, <2>3, <3>1, <3>2, <3>3 DEF IInv
  <2>5. CASE ExpandDefault(defaultsMap, m) # Cyclic
    <3>1. /\ deps' = [deps EXCEPT ![m] = LastOccurrences(ExpandDefault(declared.defaults, m))]
          /\ pass' = 2
      BY <1>2, <2>1, <2>2, <2>5 DEF DefaultDepsStage2
    <3>2. DepsAreDeclared'
      <4> SUFFICES ASSUME NEW n \in Module, Expanded(n)'
                   PROVE  deps'[n] = LastOccurrences(ExpandDefault(declared.defaults, n))
        BY <2>1 DEF DepsAreDeclared
      <4>1. CASE n = m
        BY <3>1, <4>1 DEF IInv
      <4>2. CASE n # m
        <5>1. Expanded(n)
          BY <2>1, <3>1, <4>2 DEF Expanded
        <5> QED
          BY <3>1, <4>2, <5>1 DEF IInv, DepsAreDeclared
      <4> QED
        BY <4>1, <4>2
    <3>3. EndsWithCause'
      <4>1. \A n \in Module : Expanded(n)' /\ n # m => Expanded(n)
        BY <2>1, <3>1 DEF Expanded
      <4> QED
        BY <2>1, <2>2, <2>5, <3>1, <4>1 DEF IInv, EndsWithCause
    <3> QED
      BY <2>1, <2>3, <3>1, <3>2, <3>3 DEF IInv
  <2> QED
    BY <2>4, <2>5
<1>3. ASSUME NEW m \in Module,
             \/ FeatureApplier(m) \/ SupportedVariants(m) \/ Splitter(m)
             \/ \E v \in Variant : TargetApplier(m, v) \/ PathMutator(m, v) \/ DefaultApplier(m, v)
      PROVE  IInv'
  <2>1. CASE FeatureApplier(m)
    BY <2>1, OtherPasses DEF FeatureApplier, Visiting
  <2>2. CASE SupportedVariants(m)
    BY <2>2, OtherPasses DEF SupportedVariants, Visiting
  <2>3. CASE Splitter(m)
    BY <2>3, OtherPasses DEF Splitter, Visiting
  <2>4. ASSUME NEW v \in Variant, TargetApplier(m, v) PROVE IInv'
    BY <2>4, OtherPasses DEF TargetApplier, Visiting
  <2>5. ASSUME NEW v \in Variant, PathMutator(m, v) PROVE IInv'
    BY <2>5, OtherPasses DEF PathMutator, Visiting
  <2>6. ASSUME NEW v \in Variant, DefaultApplier(m, v) PROVE IInv'
    BY <2>6, OtherPasses DEF DefaultApplier, Visiting
  <2> QED
    BY <1>3, <2>1, <2>2, <2>3, <2>4, <2>5, <2>6
<1>4. CASE NextPass
  <2>1. /\ pass \in 1..8 /\ pass' = pass + 1 /\ visited = ToVisit(pass) /\ visited' = {}
        /\ UNCHANGED <<declared, defaultsMap, deps>>
    BY <1>4 DEF NextPass
  <2>2. pass = 1 => \A m \in declared.modules : <<m, "all">> \in visited
    BY <1>d, <2>1 DEF ToVisit
  <2>3. MapIsDeclared'
    BY <2>1, <2>2 DEF IInv, MapIsDeclared
  <2>4. pass = 2 => \A m \in declared.modules \cap User : <<m, "all">> \in visited
    BY <1>d, <2>1 DEF ToVisit
  <2>5. \A m \in Module : Expanded(m)' => Expanded(m)
    BY <2>1, <2>4 DEF Expanded
  <2>6. DepsAreDeclared' /\ EndsWithCause'
    BY <2>1, <2>5 DEF IInv, DepsAreDeclared, EndsWithCause
  <2> QED
    BY <2>1, <2>3, <2>6 DEF IInv
<1>5. CASE UNCHANGED vars
  BY <1>5 DEF vars, IInv, MapIsDeclared, DepsAreDeclared, EndsWithCause, Expanded
<1> QED
  BY <1>1, <1>2, <1>3, <1>4, <1>5 DEF Next, Ended

(* Each module gets the list its build definitions determine, in every     *)
(* interleaving of the visits of default_deps1 and default_deps2.          *)
THEOREM ListsAreDeclared == Spec => []DepsAreDeclared
<1>1. IInv => DepsAreDeclared
  BY DEF IInv
<1> QED
  BY InitIInv, NextIInv, <1>1, PTL DEF Spec

(* Every default a module reaches is applied, once; what it names later    *)
(* after what it names earlier, and each default after those it names, in  *)
(* every order of the visits and for every way in which defaults may name  *)
(* each other.                                                             *)
THEOREM FlattensInOrder == Spec => []FlattenedInOrder
<1>1. IInv => FlattenedInOrder
  <2> SUFFICES ASSUME IInv PROVE FlattenedInOrder
    OBVIOUS
  <2>1. ASSUME NEW m \in Module, Expanded(m)
        PROVE  /\ m \in User /\ declared \in Declarations
               /\ deps[m] = LastOccurrences(ExpandDefault(declared.defaults, m))
               /\ ExpandDefault(declared.defaults, m) # Cyclic
    BY <2>1 DEF IInv, EndsWithCause, DepsAreDeclared, Expanded
  <2>2. EachOnce
    BY <2>1, ListFacts DEF EachOnce
  <2>3. LaterOverrides
    BY <2>1, ListFacts DEF LaterOverrides, Names
  <2>4. NamedBeforeNaming
    BY <2>1, ListFacts DEF NamedBeforeNaming, Names
  <2> QED
    BY <2>2, <2>3, <2>4 DEF FlattenedInOrder
<1> QED
  BY InitIInv, NextIInv, <1>1, PTL DEF Spec

(* The run ends over defaults if some module reaches defaults that reach   *)
(* themselves, before the third pass, and for no other reason: a diamond   *)
(* of defaults is no cycle.                                                *)
THEOREM CyclesDie == Spec => []CycleDies
<1>1. IInv => CycleDies
  <2> SUFFICES ASSUME IInv PROVE CycleDies
    OBVIOUS
  <2> DEFINE Endless(m) == \E d \in Below(m) : d \in Below(d)
  <2>1. \A m \in Module : ExpandDefault(declared.defaults, m) = Cyclic <=> Endless(m)
    BY ExpandEnds DEF IInv
  <2>2. \A m \in Module \ declared.modules : ~Endless(m)
    <3>1. \A m \in Module \ declared.modules : Names(m) = <<>>
      BY DeclaredMap DEF IInv, Names
    <3>2. \A m \in Module \ declared.modules : \A y \in Below(m) : \E x \in Range(Names(m)) : TRUE
      BY BelowByName DEF IInv
    <3> QED
      BY <3>1, <3>2 DEF Range
  <2>3. pass = 0 => \E m \in User : Endless(m)
    BY <2>1 DEF IInv, EndsWithCause, Module
  <2>4. pass > 2 => \A m \in User : ~Endless(m)
    BY <2>1, <2>2 DEF IInv, EndsWithCause, Expanded, Module
  <2> HIDE DEF Endless
  <2>5. /\ pass = 0 => \E m \in User : Endless(m)
        /\ pass > 2 => ~\E m \in User : Endless(m)
    BY <2>3, <2>4
  <2> QED
    BY <2>5 DEF CycleDies, Endless
<1> QED
  BY InitIInv, NextIInv, <1>1, PTL DEF Spec

-----------------------------------------------------------------------------
(***************************************************************************)
(* Only: what of a list is in a set, in the order of the list.             *)
(***************************************************************************)

\* The lists on the way.
Picking(X, list, S) ==
  {f \in [0 .. Len(list) -> Seq(X)] :
      f[0] = <<>> /\ \A i \in 1 .. Len(list) : f[i] = IF list[i] \in S THEN Append(f[i - 1], list[i]) ELSE f[i - 1]}

\* Only is the last of them.
LEMMA OnlyRuns ==
  ASSUME NEW X, NEW S, NEW list \in Seq(X)
  PROVE  \E f \in Picking(X, list, S) : Only(list, S) = f[Len(list)]
<1> DEFINE n == Len(list)
           A == Seq(X)
           a == <<>>
           Op(s, i) == IF list[i] \in S THEN Append(s, list[i]) ELSE s
           F == [p \in (1 .. n) \X A |-> Op(p[2], p[1])]
           Rule(f) == [i \in 0 .. n |-> IF i = 0 THEN a ELSE Op(f[i - 1], i)]
           run == CHOOSE f : f = Rule(f)
<1>1. n \in Nat /\ a \in A /\ \A i \in 1 .. n : list[i] \in X
  OBVIOUS
<1>2. F \in [(1 .. n) \X A -> A]
  <2>1. ASSUME NEW i \in 1 .. n, NEW s \in A
        PROVE  (IF list[i] \in S THEN Append(s, list[i]) ELSE s) \in A
    <3>1. list[i] \in X
      BY <1>1
    <3>2. Append(s, list[i]) \in A
      BY <3>1
    <3> QED
      BY <3>2
  <2> HIDE DEF n, A
  <2> QED
    BY <2>1
<1> HIDE DEF n, A, a, Op
<1>3. PICK f : f \in Runs(n, A, a, F)
  <2> HIDE DEF F
  <2> QED
    BY <1>1, <1>2, RunExists
<1>4. /\ f \in [0 .. n -> A] /\ f[0] = a
      /\ \A i \in 1 .. n : f[i] = Op(f[i - 1], i)
  <2>1. f \in [0 .. n -> A] /\ f[0] = a /\ \A i \in 1 .. n : f[i] = F[<<i, f[i - 1]>>]
    BY <1>3, Zenon DEF Runs
  <2>2. \A i \in 1 .. n : i - 1 \in 0 .. n
    BY <1>1
  <2>3. \A i \in 1 .. n : <<i, f[i - 1]>> \in (1 .. n) \X A
    BY <2>1, <2>2
  <2> QED
    BY <2>1, <2>3
<1>5. f = Rule(f)
  <2>1. \A i \in 0 .. n : f[i] = IF i = 0 THEN a ELSE Op(f[i - 1], i)
    BY <1>1, <1>4
  <2> QED
    BY <1>4, <2>1
<1>6. run = Rule(run)
  BY <1>5
<1>7. \A i \in 0 .. n : run[i] = f[i]
  <2> DEFINE W == {i \in 0 .. n : run[i] = f[i]}
  <2>1. \A i \in 0 .. n : run[i] = IF i = 0 THEN a ELSE Op(run[i - 1], i)
    BY <1>6, Zenon
  <2> HIDE DEF run
  <2>2. 0 \in W
    BY <1>1, <1>4, <2>1
  <2>3. ASSUME NEW i \in 1 .. n, i - 1 \in W PROVE i \in W
    BY <1>1, <1>4, <2>1, <2>3
  <2>4. \A i \in 0 .. n : i \in W
    <3> HIDE DEF W
    <3> QED
      BY <1>1, <2>2, <2>3, IntervalInduction
  <2> QED
    BY <2>4
<1>8. Only(list, S) = run[n]
  BY Zenon DEF Only, n, a, Op
<1>9. f \in Picking(X, list, S)
  BY <1>4 DEF Picking, n, A, a, Op
<1> HIDE DEF run, F
<1> QED
  BY <1>1, <1>7, <1>8, <1>9 DEF n

\* Of two lists joined: what is kept of each, joined.
LEMMA OnlyConcat ==
  ASSUME NEW X, NEW S, NEW s \in Seq(X), NEW t \in Seq(X)
  PROVE  /\ Only(s \o t, S) = Only(s, S) \o Only(t, S)
         /\ Only(s, S) \in Seq(X)
<1> DEFINE l == s \o t
           m == Len(s)
           n == Len(t)
<1>1. /\ l \in Seq(X) /\ Len(l) = m + n /\ m \in Nat /\ n \in Nat
      /\ \A p \in 1 .. m : l[p] = s[p]
      /\ \A p \in 1 .. n : l[m + p] = t[p]
  BY ConcatFacts
<1>2. PICK f \in Picking(X, l, S) : Only(l, S) = f[Len(l)]
  BY <1>1, OnlyRuns
<1>3. PICK g \in Picking(X, s, S) : Only(s, S) = g[m]
  BY OnlyRuns
<1>4. PICK h \in Picking(X, t, S) : Only(t, S) = h[n]
  BY OnlyRuns
<1>5. /\ f[0] = <<>>
      /\ \A i \in 1 .. m + n : f[i] = IF l[i] \in S THEN Append(f[i - 1], l[i]) ELSE f[i - 1]
  BY <1>1, <1>2 DEF Picking
<1>6. /\ g[0] = <<>> /\ g \in [0 .. m -> Seq(X)]
      /\ \A i \in 1 .. m : g[i] = IF s[i] \in S THEN Append(g[i - 1], s[i]) ELSE g[i - 1]
  BY <1>3 DEF Picking
<1>7. /\ h[0] = <<>> /\ h \in [0 .. n -> Seq(X)]
      /\ \A i \in 1 .. n : h[i] = IF t[i] \in S THEN Append(h[i - 1], t[i]) ELSE h[i - 1]
  BY <1>4 DEF Picking
<1>8. \A i \in 1 .. n : t[i] \in X
  OBVIOUS
<1> HIDE DEF l, m, n
<1> DEFINE B == {i \in 0 .. m : f[i] = g[i]}
           C == {i \in 0 .. n : f[m + i] = g[m] \o h[i]}
<1>9. f[m] = g[m] /\ g[m] \in Seq(X)
  <2>1. 0 \in B
    BY <1>1, <1>5, <1>6
  <2>2. ASSUME NEW i \in 1 .. m, i - 1 \in B PROVE i \in B
    <3>1. i \in 0 .. m /\ i \in 1 .. m + n /\ l[i] = s[i] /\ f[i - 1] = g[i - 1]
      BY <1>1, <2>2
    <3>2. f[i] = IF l[i] \in S THEN Append(f[i - 1], l[i]) ELSE f[i - 1]
      BY <1>5, <3>1
    <3> QED
      BY <1>6, <3>1, <3>2
  <2>3. \A i \in 0 .. m : i \in B
    <3> HIDE DEF B
    <3> QED
      BY <1>1, <2>1, <2>2, IntervalInduction
  <2>4. m \in 0 .. m
    BY <1>1
  <2> QED
    BY <1>6, <2>3, <2>4
<1>10. f[m + n] = g[m] \o h[n]
  <2>1. 0 \in C
    <3>1. m + 0 = m /\ 0 \in 0 .. n
      BY <1>1
    <3>2. g[m] \o h[0] = g[m]
      BY <1>7, <1>9
    <3> QED
      BY <1>9, <3>1, <3>2
  <2>2. ASSUME NEW i \in 1 .. n, i - 1 \in C PROVE i \in C
    <3>1. /\ m + i \in 1 .. m + n /\ (m + i) - 1 = m + (i - 1)
          /\ i - 1 \in 0 .. n /\ i \in 0 .. n
      BY <1>1
    <3>2. f[m + (i - 1)] = g[m] \o h[i - 1] /\ h[i - 1] \in Seq(X) /\ t[i] \in X
      BY <1>7, <1>8, <2>2, <3>1
    <3>3. f[m + i] = IF t[i] \in S THEN Append(g[m] \o h[i - 1], t[i]) ELSE g[m] \o h[i - 1]
      BY <1>1, <1>5, <3>1, <3>2
    <3>4. Append(g[m] \o h[i - 1], t[i]) = g[m] \o Append(h[i - 1], t[i])
      <4> DEFINE u == g[m]
                 w == h[i - 1]
                 x == t[i]
                 o == <<x>>
                 uw == u \o w
      <4>1. u \in Seq(X) /\ w \in Seq(X) /\ x \in X /\ o \in Seq(X)
        BY <1>9, <3>2
      <4>2. uw \o o = u \o (w \o o)
        <5> HIDE DEF u, w, o
        <5> QED
          BY <4>1, ConcatAssociates
      <4>3. uw \in Seq(X)
        <5> HIDE DEF u, w
        <5> QED
          BY <4>1
      <4> HIDE DEF u, w, x, uw
      <4>4. Append(uw, x) = uw \o o
        BY <4>1, <4>3, ConcatOne, Zenon
      <4>5. Append(w, x) = w \o o
        BY <4>1, ConcatOne, Zenon
      <4> QED
        BY <4>2, <4>4, <4>5 DEF u, w, x, uw
    <3> QED
      BY <1>7, <3>1, <3>3, <3>4
  <2>3. \A i \in 0 .. n : i \in C
    <3> HIDE DEF C
    <3> QED
      BY <1>1, <2>1, <2>2, IntervalInduction
  <2>4. n \in 0 .. n
    BY <1>1
  <2> QED
    BY <2>3, <2>4
<1> QED
  BY <1>1, <1>2, <1>3, <1>4, <1>9, <1>10 DEF l

LEMMA OnlyOne ==
  ASSUME NEW X, NEW S, NEW x \in X
  PROVE  /\ Only(<<x>>, S) = IF x \in S THEN <<x>> ELSE <<>>
         /\ Only(<<>>, S) = <<>>
<1> DEFINE l == <<x>>
           none == <<>>
<1>1. l \in Seq(X) /\ Len(l) = 1 /\ l[1] = x /\ none \in Seq(X) /\ Len(none) = 0
  OBVIOUS
<1>2. PICK f \in Picking(X, l, S) : Only(l, S) = f[Len(l)]
  BY <1>1, OnlyRuns
<1>3. PICK g \in Picking(X, none, S) : Only(none, S) = g[Len(none)]
  BY <1>1, OnlyRuns
<1> HIDE DEF l, none
<1>4. f[1] = (IF x \in S THEN Append(f[0], x) ELSE f[0]) /\ f[0] = <<>>
  BY <1>1 DEF Picking
<1>5. f[1] = IF x \in S THEN <<x>> ELSE <<>>
  BY <1>4
<1>6. g[0] = <<>>
  BY DEF Picking
<1> QED
  BY <1>1, <1>2, <1>3, <1>5, <1>6 DEF l, none

\* Its last element is the last in the set; if it has none, none is.
Ending(list, S, kept, n) ==
  \/ kept = <<>> /\ \A j \in 1 .. n : list[j] \notin S
  \/ \E k \in 1 .. n : /\ kept # <<>> /\ list[k] \in S /\ Last(kept) = list[k]
                       /\ \A j \in k + 1 .. n : list[j] \notin S

LEMMA OnlyEnds ==
  ASSUME NEW X, NEW S, NEW list \in Seq(X)
  PROVE  Ending(list, S, Only(list, S), Len(list)) /\ Only(list, S) \in Seq(X)
<1> DEFINE n == Len(list)
<1>1. n \in Nat /\ \A i \in 1 .. n : list[i] \in X
  OBVIOUS
<1>2. PICK f \in Picking(X, list, S) : Only(list, S) = f[n]
  BY OnlyRuns
<1>3. /\ f[0] = <<>> /\ f \in [0 .. n -> Seq(X)]
      /\ \A i \in 1 .. n : f[i] = IF list[i] \in S THEN Append(f[i - 1], list[i]) ELSE f[i - 1]
  BY DEF Picking
<1> DEFINE B == {i \in 0 .. n : Ending(list, S, f[i], i)}
<1>4. 0 \in B
  BY <1>1, <1>3 DEF Ending
<1>5. ASSUME NEW i \in 1 .. n, i - 1 \in B PROVE i \in B
  <2>0. i \in 0 .. n /\ i - 1 \in 0 .. n /\ i \in Nat /\ f[i - 1] \in Seq(X) /\ list[i] \in X
    <3>1. i \in 0 .. n /\ i - 1 \in 0 .. n /\ i \in Nat /\ list[i] \in X
      BY <1>1
    <3> HIDE DEF n
    <3> QED
      BY <1>3, <3>1
  <2>1. CASE list[i] \in S
    <3>1. f[i] = Append(f[i - 1], list[i])
      BY <1>3, <2>1
    <3>2. f[i] # <<>> /\ Last(f[i]) = list[i]
      <4> DEFINE u == f[i - 1]
                 x == list[i]
      <4>1. u \in Seq(X) /\ x \in X
        BY <2>0
      <4> HIDE DEF u, x
      <4>2. Append(u, x) # <<>> /\ Append(u, x)[Len(Append(u, x))] = x
        BY <4>1
      <4> QED
        BY <3>1, <4>2 DEF u, x, Last
    <3>3. i \in 1 .. i /\ \A j \in i + 1 .. i : list[j] \notin S
      BY <2>0
    <3>4. Ending(list, S, f[i], i)
      BY <2>1, <3>2, <3>3 DEF Ending
    <3> QED
      BY <2>0, <3>4
  <2>2. CASE list[i] \notin S
    <3>1. f[i] = f[i - 1] /\ Ending(list, S, f[i - 1], i - 1)
      BY <1>3, <1>5, <2>2
    <3>2. \A k \in Nat : \A j \in k + 1 .. i : j # i => j \in k + 1 .. i - 1
      BY <2>0
    <3>3. \A k \in 1 .. i - 1 : k \in 1 .. i
      BY <2>0
    <3>4. Ending(list, S, f[i], i)
      <4>1. CASE f[i - 1] = <<>> /\ \A j \in 1 .. i - 1 : list[j] \notin S
        <5>1. \A j \in 1 .. i : list[j] \notin S
          BY <2>0, <2>2, <4>1
        <5> QED
          BY <3>1, <4>1, <5>1 DEF Ending
      <4>2. ASSUME NEW k \in 1 .. i - 1, f[i - 1] # <<>>, list[k] \in S, Last(f[i - 1]) = list[k],
                   \A j \in k + 1 .. i - 1 : list[j] \notin S
            PROVE  Ending(list, S, f[i], i)
        <5>1. \A j \in k + 1 .. i : list[j] \notin S
          BY <2>0, <2>2, <4>2
        <5> QED
          BY <3>1, <3>3, <4>2, <5>1 DEF Ending
      <4> QED
        BY <3>1, <4>1, <4>2 DEF Ending
    <3> QED
      BY <2>0, <3>4
  <2> QED
    BY <2>1, <2>2
<1>6. \A i \in 0 .. n : i \in B
  <2> HIDE DEF B, n
  <2> QED
    BY <1>1, <1>4, <1>5, IntervalInduction
<1>7. n \in 0 .. n
  BY <1>1
<1> QED
  BY <1>2, <1>3, <1>6, <1>7

-----------------------------------------------------------------------------
(***************************************************************************)
(* Joint: lists of places, one after the other.                            *)
(***************************************************************************)
Slots == Module \X Place \X Part

\* The lists on the way.
Pooling(lists) ==
  {f \in [0 .. Len(lists) -> Seq(Slots)] :
      f[0] = <<>> /\ \A i \in 1 .. Len(lists) : f[i] = f[i - 1] \o lists[i]}

\* Joint is the last of them.
LEMMA JointRuns ==
  ASSUME NEW lists \in Seq(Seq(Slots))
  PROVE  \E f \in Pooling(lists) : Joint(lists) = f[Len(lists)]
<1> DEFINE n == Len(lists)
           A == Seq(Slots)
           a == <<>>
           Op(s, i) == s \o lists[i]
           F == [p \in (1 .. n) \X A |-> Op(p[2], p[1])]
           Rule(f) == [i \in 0 .. n |-> IF i = 0 THEN a ELSE Op(f[i - 1], i)]
           run == CHOOSE f : f = Rule(f)
<1>1. n \in Nat /\ a \in A /\ \A i \in 1 .. n : lists[i] \in A
  OBVIOUS
<1>2. F \in [(1 .. n) \X A -> A]
  <2>1. ASSUME NEW i \in 1 .. n, NEW s \in A PROVE s \o lists[i] \in A
    <3>1. lists[i] \in A
      BY <1>1
    <3> QED
      BY <3>1
  <2> HIDE DEF n, A
  <2> QED
    BY <2>1
<1> HIDE DEF n, A, a, Op
<1>3. PICK f : f \in Runs(n, A, a, F)
  <2> HIDE DEF F
  <2> QED
    BY <1>1, <1>2, RunExists
<1>4. /\ f \in [0 .. n -> A] /\ f[0] = a
      /\ \A i \in 1 .. n : f[i] = Op(f[i - 1], i)
  <2>1. f \in [0 .. n -> A] /\ f[0] = a /\ \A i \in 1 .. n : f[i] = F[<<i, f[i - 1]>>]
    BY <1>3, Zenon DEF Runs
  <2>2. \A i \in 1 .. n : i - 1 \in 0 .. n
    BY <1>1
  <2>3. \A i \in 1 .. n : <<i, f[i - 1]>> \in (1 .. n) \X A
    BY <2>1, <2>2
  <2> QED
    BY <2>1, <2>3
<1>5. f = Rule(f)
  <2>1. \A i \in 0 .. n : f[i] = IF i = 0 THEN a ELSE Op(f[i - 1], i)
    BY <1>1, <1>4
  <2> QED
    BY <1>4, <2>1
<1>6. run = Rule(run)
  BY <1>5
<1>7. \A i \in 0 .. n : run[i] = f[i]
  <2> DEFINE S == {i \in 0 .. n : run[i] = f[i]}
  <2>1. \A i \in 0 .. n : run[i] = IF i = 0 THEN a ELSE Op(run[i - 1], i)
    BY <1>6, Zenon
  <2> HIDE DEF run
  <2>2. 0 \in S
    BY <1>1, <1>4, <2>1
  <2>3. ASSUME NEW i \in 1 .. n, i - 1 \in S PROVE i \in S
    BY <1>1, <1>4, <2>1, <2>3
  <2>4. \A i \in 0 .. n : i \in S
    <3> HIDE DEF S
    <3> QED
      BY <1>1, <2>2, <2>3, IntervalInduction
  <2> QED
    BY <2>4
<1>8. Joint(lists) = run[n]
  BY Zenon DEF Joint, n, a, Op
<1>9. f \in Pooling(lists)
  BY <1>4 DEF Pooling, n, A, a, Op
<1> HIDE DEF run, F
<1> QED
  BY <1>1, <1>7, <1>8, <1>9 DEF n

\* One list more.
LEMMA JointAppend ==
  ASSUME NEW lists \in Seq(Seq(Slots)), NEW list \in Seq(Slots)
  PROVE  /\ Joint(Append(lists, list)) = Joint(lists) \o list
         /\ Joint(lists) \in Seq(Slots)
<1> DEFINE l == Append(lists, list)
           n == Len(lists)
<1>1. /\ n \in Nat /\ l \in Seq(Seq(Slots)) /\ Len(l) = n + 1 /\ l[n + 1] = list
      /\ \A i \in 1 .. n : l[i] = lists[i]
  OBVIOUS
<1>2. PICK f \in Pooling(l) : Joint(l) = f[Len(l)]
  <2> HIDE DEF l
  <2> QED
    BY <1>1, JointRuns
<1>3. PICK g \in Pooling(lists) : Joint(lists) = g[n]
  BY JointRuns
<1> HIDE DEF l, n
<1>4. f[0] = <<>> /\ \A i \in 1 .. n + 1 : f[i] = f[i - 1] \o l[i]
  BY <1>1, <1>2 DEF Pooling
<1>5. g[0] = <<>> /\ g \in [0 .. n -> Seq(Slots)] /\ \A i \in 1 .. n : g[i] = g[i - 1] \o lists[i]
  BY <1>3 DEF Pooling, n
<1> DEFINE B == {i \in 0 .. n : f[i] = g[i]}
<1>6. 0 \in B
  <2>1. f[0] = <<>> /\ g[0] = <<>>
    BY <1>4, <1>5, Zenon
  <2>2. 0 \in 0 .. n
    BY <1>1
  <2> QED
    BY <2>1, <2>2
<1>7. ASSUME NEW i \in 1 .. n, i - 1 \in B PROVE i \in B
  <2>1. i \in 1 .. n + 1 /\ i \in 0 .. n
    BY <1>1
  <2>2. f[i] = f[i - 1] \o l[i] /\ g[i] = g[i - 1] \o lists[i] /\ l[i] = lists[i] /\ f[i - 1] = g[i - 1]
    BY <1>1, <1>4, <1>5, <1>7, <2>1
  <2> QED
    BY <2>1, <2>2
<1>8. \A i \in 0 .. n : i \in B
  <2> HIDE DEF B
  <2> QED
    BY <1>1, <1>6, <1>7, IntervalInduction
<1>9. f[n] = g[n] /\ g[n] \in Seq(Slots)
  <2>1. n \in 0 .. n
    BY <1>1
  <2> QED
    BY <1>5, <1>8, <2>1
<1>10. f[n + 1] = f[n] \o list
  <2>1. n + 1 \in 1 .. n + 1 /\ (n + 1) - 1 = n
    BY <1>1
  <2> QED
    BY <1>1, <1>4, <2>1
<1> QED
  BY <1>1, <1>2, <1>3, <1>9, <1>10 DEF l

\* Lists of one.
LEMMA JointOnes ==
  ASSUME NEW list \in Seq(Slots), NEW lists \in Seq(Seq(Slots)), Len(lists) = Len(list),
         \A i \in 1 .. Len(list) : lists[i] = <<list[i]>>
  PROVE  Joint(lists) = list
<1> DEFINE n == Len(list)
           Upto(s, i) == s \in Seq(Slots) /\ Len(s) = i /\ \A p \in 1 .. i : s[p] = list[p]
<1>1. n \in Nat /\ \A i \in 1 .. n : list[i] \in Slots
  OBVIOUS
<1>2. PICK g \in Pooling(lists) : Joint(lists) = g[n]
  BY JointRuns
<1>3. g[0] = <<>> /\ \A i \in 1 .. n : g[i] = g[i - 1] \o <<list[i]>>
  BY DEF Pooling
<1> DEFINE B == {i \in 0 .. n : Upto(g[i], i)}
<1>4. 0 \in B
  <2>1. g[0] = <<>>
    BY <1>3, Zenon
  <2>2. Upto(<<>>, 0) /\ 0 \in 0 .. n
    BY <1>1
  <2> QED
    BY <2>1, <2>2
<1>5. ASSUME NEW i \in 1 .. n, i - 1 \in B PROVE i \in B
  <2> DEFINE s == g[i - 1]
             x == list[i]
  <2>0. Upto(s, i - 1)
    BY <1>5
  <2>1. s \in Seq(Slots) /\ Len(s) = i - 1 /\ x \in Slots /\ i \in Nat
    <3> HIDE DEF s
    <3> QED
      BY <1>1, <2>0
  <2>2. /\ s \o <<x>> \in Seq(Slots) /\ Len(s \o <<x>>) = i
        /\ \A p \in 1 .. i - 1 : (s \o <<x>>)[p] = s[p]
        /\ (s \o <<x>>)[i] = x
    <3> DEFINE o == <<x>>
               so == s \o o
    <3>1. i = Len(s) + 1
      BY <2>1
    <3>2. o \in Seq(Slots) /\ Len(o) = 1 /\ o[1] = x
      BY <2>1
    <3> HIDE DEF s, x, o
    <3>3. /\ so \in Seq(Slots) /\ Len(so) = Len(s) + Len(o)
          /\ \A p \in 1 .. Len(s) : so[p] = s[p]
          /\ \A p \in 1 .. Len(o) : so[Len(s) + p] = o[p]
      <4>1. s \in Seq(Slots) /\ o \in Seq(Slots)
        BY <2>1, <3>2
      <4> QED
        BY <4>1, SMT
    <3> HIDE DEF so
    <3>4. so[i] = x
      BY <3>1, <3>2, <3>3
    <3>5. i - 1 = Len(s) /\ Len(so) = i
      BY <2>1, <3>1, <3>2, <3>3
    <3> QED
      BY <3>3, <3>4, <3>5 DEF so, o
  <2>3. \A p \in 1 .. i - 1 : s[p] = list[p]
    BY <1>5
  <2>4. \A p \in 1 .. i : p \in 1 .. i - 1 \/ p = i
    BY <2>1
  <2>5. g[i] = s \o <<x>> /\ i \in 0 .. n
    BY <1>1, <1>3
  <2>6. Upto(s \o <<x>>, i)
    BY <2>2, <2>3, <2>4
  <2> QED
    BY <2>5, <2>6
<1>6. \A i \in 0 .. n : i \in B
  <2> HIDE DEF B, n
  <2> QED
    BY <1>1, <1>4, <1>5, IntervalInduction
<1>7. Upto(g[n], n)
  <2>1. n \in 0 .. n
    BY <1>1
  <2> QED
    BY <1>6, <2>1
<1>8. g[n] = list
  <2> DEFINE s == g[n]
  <2>1. s \in Seq(Slots) /\ Len(s) = Len(list) /\ \A p \in 1 .. Len(s) : s[p] = list[p]
    BY <1>7
  <2> HIDE DEF s
  <2>2. s = list
    BY <2>1
  <2> QED
    BY <2>2 DEF s
<1> QED
  BY <1>2, <1>8

-----------------------------------------------------------------------------
(***************************************************************************)
(* The properties that a list of places makes, if of two the later         *)
(* overrides; rooted: with the directories in front.                       *)
(***************************************************************************)
Dir(place, rooted) == [value |-> place, prefix |-> IF rooted THEN <<place[1]>> ELSE <<>>]

Dirs(list, rooted) == Reverse([i \in DOMAIN list |-> Dir(list[i], rooted)])

Prop(list, rooted) ==
  [ flags  |-> list,
    dirs   |-> Dirs(list, rooted),
    enable |-> IF list = <<>> THEN <<>> ELSE <<Last(list)>> ]

\* The places of a list at which something is set.
Stands(list, rooted) == Prop(Only(list, Set), rooted)

LEMMA DirsFacts ==
  ASSUME NEW list \in Seq(Slots), NEW rooted
  PROVE  /\ Dirs(list, rooted) \in Seq({Dir(place, rooted) : place \in Slots})
         /\ Len(Dirs(list, rooted)) = Len(list)
         /\ DOMAIN Dirs(list, rooted) = 1 .. Len(list)
         /\ \A p \in 1 .. Len(list) : Dirs(list, rooted)[p] = Dir(list[Len(list) - p + 1], rooted)
<1> DEFINE n == Len(list)
           D == {Dir(place, rooted) : place \in Slots}
           f == [i \in DOMAIN list |-> Dir(list[i], rooted)]
           r == [i \in 1 .. n |-> f[(n - i) + 1]]
<1>1. n \in Nat /\ DOMAIN list = 1 .. n /\ \A i \in 1 .. n : list[i] \in Slots
  OBVIOUS
<1>2. f \in [1 .. n -> D] /\ \A i \in 1 .. n : f[i] = Dir(list[i], rooted)
  BY <1>1
<1>3. Len(f) = n
  <2> HIDE DEF f, n
  <2> QED
    BY <1>1, <1>2
<1>4. Dirs(list, rooted) = r
  BY <1>3 DEF Dirs, Reverse
<1>5. \A p \in 1 .. n : (n - p) + 1 \in 1 .. n /\ (n - p) + 1 = n - p + 1
  BY <1>1
<1>6. r \in [1 .. n -> D] /\ \A p \in 1 .. n : r[p] = Dir(list[n - p + 1], rooted)
  <2> HIDE DEF f, D, n
  <2> QED
    BY <1>2, <1>5
<1>7. r \in Seq(D) /\ Len(r) = n /\ DOMAIN r = 1 .. n
  <2> HIDE DEF r, D, n
  <2> QED
    BY <1>1, <1>6
<1> QED
  BY <1>4, <1>6, <1>7

LEMMA DirsConcat ==
  ASSUME NEW s \in Seq(Slots), NEW t \in Seq(Slots), NEW rooted
  PROVE  Dirs(s \o t, rooted) = Dirs(t, rooted) \o Dirs(s, rooted)
<1> DEFINE st == s \o t
           D == {Dir(place, rooted) : place \in Slots}
           a == Dirs(s, rooted)
           b == Dirs(t, rooted)
           l == Dirs(st, rooted)
           r == b \o a
           m == Len(s)
           n == Len(t)
<1>1. /\ st \in Seq(Slots) /\ Len(st) = m + n /\ m \in Nat /\ n \in Nat
      /\ \A p \in 1 .. m : st[p] = s[p]
      /\ \A p \in 1 .. n : st[m + p] = t[p]
  BY ConcatFacts
<1>2. a \in Seq(D) /\ Len(a) = m /\ \A p \in 1 .. m : a[p] = Dir(s[m - p + 1], rooted)
  BY DirsFacts
<1>3. b \in Seq(D) /\ Len(b) = n /\ \A p \in 1 .. n : b[p] = Dir(t[n - p + 1], rooted)
  BY DirsFacts
<1> HIDE DEF st, a, b, m, n
<1>4. l \in Seq(D) /\ Len(l) = m + n /\ \A p \in 1 .. m + n : l[p] = Dir(st[m + n - p + 1], rooted)
  <2>1. l \in Seq(D) /\ Len(l) = Len(st) /\ \A p \in 1 .. Len(st) : l[p] = Dir(st[Len(st) - p + 1], rooted)
    BY <1>1, DirsFacts
  <2> QED
    BY <1>1, <2>1
<1> HIDE DEF D, l
<1>5. /\ r \in Seq(D) /\ Len(r) = n + m
      /\ \A p \in 1 .. n : r[p] = b[p]
      /\ \A p \in 1 .. m : r[n + p] = a[p]
  <2>1. /\ r \in Seq(D) /\ Len(r) = Len(b) + Len(a)
        /\ \A p \in 1 .. Len(b) : r[p] = b[p]
        /\ \A p \in 1 .. Len(a) : r[Len(b) + p] = a[p]
    <3>1. a \in Seq(D) /\ b \in Seq(D)
      BY <1>2, <1>3
    <3> QED
      BY <3>1
  <2> HIDE DEF r
  <2> QED
    BY <1>2, <1>3, <2>1
<1> HIDE DEF r
<1>6. ASSUME NEW p \in 1 .. m + n PROVE l[p] = r[p]
  <2>1. CASE p <= n
    <3>1. p \in 1 .. n /\ n - p + 1 \in 1 .. n /\ m + n - p + 1 = m + (n - p + 1)
      BY <1>1, <2>1
    <3> QED
      BY <1>1, <1>3, <1>4, <1>5, <3>1
  <2>2. CASE p > n
    <3> DEFINE q == p - n
    <3>1. q \in 1 .. m /\ m - q + 1 \in 1 .. m /\ m + n - p + 1 = m - q + 1 /\ p = n + q
      BY <1>1, <2>2
    <3> HIDE DEF q
    <3>2. l[p] = Dir(st[m - q + 1], rooted) /\ st[m - q + 1] = s[m - q + 1]
      BY <1>1, <1>4, <3>1
    <3>3. r[p] = Dir(s[m - q + 1], rooted)
      BY <1>2, <1>5, <3>1
    <3> QED
      BY <3>2, <3>3
  <2> QED
    BY <1>1, <2>1, <2>2
<1>7. l = r
  <2>1. Len(l) = Len(r) /\ \A p \in 1 .. Len(l) : l[p] = r[p]
    BY <1>1, <1>4, <1>5, <1>6
  <2> QED
    BY <1>4, <1>5, <2>1
<1> QED
  BY <1>7 DEF l, r, st, a, b

\* Those of one list appended to those of another; and prepended.
LEMMA PropConcat ==
  ASSUME NEW s \in Seq(Slots), NEW t \in Seq(Slots), NEW rooted
  PROVE  /\ AppendProperties(Prop(s, rooted), Prop(t, rooted)) = Prop(s \o t, rooted)
         /\ PrependProperties(Prop(t, rooted), Prop(s, rooted)) = Prop(s \o t, rooted)
<1> DEFINE a == Dirs(s, rooted)
           b == Dirs(t, rooted)
           Enable(list) == IF list = <<>> THEN <<>> ELSE <<Last(list)>>
<1>1. Dirs(s \o t, rooted) = b \o a
  BY DirsConcat
<1>2. Enable(s \o t) = IF Enable(t) # <<>> THEN Enable(t) ELSE Enable(s)
  <2>1. CASE t = <<>>
    <3>1. s \o t = s /\ Enable(t) = <<>>
      BY <2>1
    <3> QED
      BY <3>1
  <2>2. CASE t # <<>>
    <3>1. s \o t # <<>> /\ Last(s \o t) = Last(t)
      BY <2>2 DEF Last
    <3>2. Enable(t) # <<>>
      BY <2>2
    <3> QED
      BY <2>2, <3>1, <3>2
  <2> QED
    BY <2>1, <2>2
<1> DEFINE es == Enable(s)
           et == Enable(t)
           ps == [flags |-> s, dirs |-> a, enable |-> es]
           pt == [flags |-> t, dirs |-> b, enable |-> et]
<1>3. /\ Prop(s, rooted) = ps /\ Prop(t, rooted) = pt
      /\ Prop(s \o t, rooted) = [flags |-> s \o t, dirs |-> b \o a, enable |-> IF et # <<>> THEN et ELSE es]
  BY <1>1, <1>2 DEF Prop
<1> HIDE DEF a, b, es, et
<1>4. /\ AppendProperties(ps, pt) = [flags |-> s \o t, dirs |-> b \o a, enable |-> IF et # <<>> THEN et ELSE es]
      /\ PrependProperties(pt, ps) = [flags |-> s \o t, dirs |-> b \o a, enable |-> IF et # <<>> THEN et ELSE es]
  BY DEF AppendProperties, PrependProperties
<1> QED
  BY <1>3, <1>4

LEMMA SlotsAssociate ==
  ASSUME NEW s \in Seq(Slots), NEW t \in Seq(Slots), NEW u \in Seq(Slots)
  PROVE  (s \o t) \o u = s \o (t \o u)
  BY ConcatAssociates, SMT

LEMMA SlotsConcat ==
  ASSUME NEW s \in Seq(Slots), NEW t \in Seq(Slots), NEW S
  PROVE  Only(s \o t, S) = Only(s, S) \o Only(t, S)
<1>1. s \in Seq(Slots) /\ t \in Seq(Slots)
  OBVIOUS
<1> QED
  BY ONLY <1>1, OnlyConcat, ZenonT(60)

LEMMA StandsConcat ==
  ASSUME NEW s \in Seq(Slots), NEW t \in Seq(Slots), NEW rooted
  PROVE  /\ AppendProperties(Stands(s, rooted), Stands(t, rooted)) = Stands(s \o t, rooted)
         /\ PrependProperties(Stands(t, rooted), Stands(s, rooted)) = Stands(s \o t, rooted)
<1> DEFINE a == Only(s, Set)
           b == Only(t, Set)
<1>1. Only(s \o t, Set) = a \o b /\ a \in Seq(Slots) /\ b \in Seq(Slots)
  <2>1. a \in Seq(Slots) /\ b \in Seq(Slots)
    BY OnlyConcat, Zenon
  <2>2. Only(s \o t, Set) = a \o b
    BY SlotsConcat, Zenon
  <2> QED
    BY <2>1, <2>2
<1> HIDE DEF a, b
<1>2. /\ AppendProperties(Prop(a, rooted), Prop(b, rooted)) = Prop(a \o b, rooted)
      /\ PrependProperties(Prop(b, rooted), Prop(a, rooted)) = Prop(a \o b, rooted)
  BY <1>1, PropConcat
<1> QED
  BY <1>1, <1>2 DEF Stands, a, b

\* One after the other: a list for each.
LEMMA StandsJoint ==
  ASSUME NEW s \in Seq(Slots), NEW lists \in Seq(Seq(Slots)), NEW rooted, NEW srcs,
         Len(srcs) = Len(lists), \A i \in 1 .. Len(lists) : srcs[i] = Stands(lists[i], rooted)
  PROVE  AppendAll(Stands(s, rooted), srcs) = Stands(s \o Joint(lists), rooted)
<1> DEFINE n == Len(lists)
           base == Stands(s, rooted)
           Rule(f) == [i \in 0 .. n |-> IF i = 0 THEN base ELSE AppendProperties(f[i - 1], srcs[i])]
           run == CHOOSE f : f = Rule(f)
<1>1. n \in Nat /\ \A i \in 1 .. n : lists[i] \in Seq(Slots)
  OBVIOUS
<1>2. PICK g \in Pooling(lists) : Joint(lists) = g[n]
  BY JointRuns
<1>3. g[0] = <<>> /\ g \in [0 .. n -> Seq(Slots)] /\ \A i \in 1 .. n : g[i] = g[i - 1] \o lists[i]
  BY DEF Pooling
<1> DEFINE At(i) == Stands(s \o g[i], rooted)
           h == [i \in 0 .. n |-> At(i)]
<1>4. At(0) = base
  <2>1. g[0] = <<>>
    BY <1>3, Zenon
  <2>2. s \o g[0] = s
    BY <2>1
  <2> QED
    BY <2>2
<1>5. ASSUME NEW i \in 1 .. n PROVE At(i) = AppendProperties(At(i - 1), srcs[i])
  <2> DEFINE u == g[i - 1]
             w == lists[i]
             su == s \o u
  <2>1. u \in Seq(Slots) /\ w \in Seq(Slots) /\ g[i] = u \o w /\ srcs[i] = Stands(w, rooted)
    <3>1. i - 1 \in 0 .. n
      BY <1>1
    <3> HIDE DEF n
    <3>2. g[i - 1] \in Seq(Slots) /\ g[i] = g[i - 1] \o lists[i] /\ lists[i] \in Seq(Slots)
      BY <1>1, <1>3, <3>1
    <3> QED
      BY <3>2 DEF n
  <2> HIDE DEF u, w
  <2>2. su \in Seq(Slots)
    BY <2>1
  <2>3. s \o (u \o w) = su \o w
    <3>1. s \in Seq(Slots) /\ u \in Seq(Slots) /\ w \in Seq(Slots)
      BY <2>1
    <3>2. (s \o u) \o w = s \o (u \o w)
      BY ONLY <3>1, SlotsAssociate
    <3> QED
      BY <3>2
  <2>4. AppendProperties(Stands(su, rooted), Stands(w, rooted)) = Stands(su \o w, rooted)
    <3> HIDE DEF su
    <3> QED
      BY <2>1, <2>2, StandsConcat
  <2>5. At(i) = Stands(su \o w, rooted) /\ At(i - 1) = Stands(su, rooted)
    BY <2>1, <2>3 DEF u
  <2> QED
    BY <2>1, <2>4, <2>5
<1>6. h = Rule(h)
  <2> HIDE DEF At, n, base
  <2>1. \A i \in 1 .. n : i - 1 \in 0 .. n
    BY <1>1
  <2>2. \A i \in 1 .. n : h[i - 1] = At(i - 1)
    BY <2>1
  <2>3. \A i \in 0 .. n : h[i] = IF i = 0 THEN base ELSE AppendProperties(h[i - 1], srcs[i])
    BY <1>1, <1>4, <1>5, <2>2
  <2> QED
    BY <2>3
<1>7. run = Rule(run)
  <2> HIDE DEF h
  <2> QED
    BY <1>6
<1>8. run[n] = At(n)
  <2> HIDE DEF At, n, base
  <2>1. \A i \in 0 .. n : run[i] = IF i = 0 THEN base ELSE AppendProperties(run[i - 1], srcs[i])
    BY <1>7, Zenon
  <2> HIDE DEF run
  <2> DEFINE B == {i \in 0 .. n : run[i] = At(i)}
  <2>2. 0 \in B
    BY <1>1, <1>4, <2>1
  <2>3. ASSUME NEW i \in 1 .. n, i - 1 \in B PROVE i \in B
    BY <1>1, <1>5, <2>1, <2>3
  <2>4. \A i \in 0 .. n : i \in B
    <3> HIDE DEF B
    <3> QED
      BY <1>1, <2>2, <2>3, IntervalInduction
  <2>5. n \in 0 .. n
    BY <1>1
  <2> QED
    BY <2>4, <2>5
<1>9. AppendAll(base, srcs) = run[n]
  <2>1. Len(srcs) = n
    OBVIOUS
  <2> HIDE DEF n, base
  <2> QED
    BY <2>1, Zenon DEF AppendAll
<1> QED
  BY <1>2, <1>8, <1>9

-----------------------------------------------------------------------------
(***************************************************************************)
(* Variants: of those that say something, the last.                        *)
(***************************************************************************)

\* The values on the way.
Overriding(base, srcs) ==
  {f \in [0 .. Len(srcs) -> Tri] :
      f[0] = base /\ \A i \in 1 .. Len(srcs) : f[i] = AppendBool(f[i - 1], srcs[i])}

\* AppendBools is the last of them.
LEMMA BoolRuns ==
  ASSUME NEW base \in Tri, NEW srcs \in Seq(Tri)
  PROVE  \E f \in Overriding(base, srcs) : AppendBools(base, srcs) = f[Len(srcs)]
<1> DEFINE n == Len(srcs)
           A == Tri
           a == base
           Op(s, i) == AppendBool(s, srcs[i])
           F == [p \in (1 .. n) \X A |-> Op(p[2], p[1])]
           Rule(f) == [i \in 0 .. n |-> IF i = 0 THEN a ELSE Op(f[i - 1], i)]
           run == CHOOSE f : f = Rule(f)
<1>1. n \in Nat /\ a \in A /\ \A i \in 1 .. n : srcs[i] \in A
  OBVIOUS
<1>2. F \in [(1 .. n) \X A -> A]
  <2>1. ASSUME NEW i \in 1 .. n, NEW s \in A PROVE AppendBool(s, srcs[i]) \in A
    <3>1. srcs[i] \in A
      BY <1>1
    <3> QED
      BY <3>1 DEF AppendBool
  <2> HIDE DEF n, A
  <2> QED
    BY <2>1
<1> HIDE DEF n, A, a, Op
<1>3. PICK f : f \in Runs(n, A, a, F)
  <2> HIDE DEF F
  <2> QED
    BY <1>1, <1>2, RunExists
<1>4. /\ f \in [0 .. n -> A] /\ f[0] = a
      /\ \A i \in 1 .. n : f[i] = Op(f[i - 1], i)
  <2>1. f \in [0 .. n -> A] /\ f[0] = a /\ \A i \in 1 .. n : f[i] = F[<<i, f[i - 1]>>]
    BY <1>3, Zenon DEF Runs
  <2>2. \A i \in 1 .. n : i - 1 \in 0 .. n
    BY <1>1
  <2>3. \A i \in 1 .. n : <<i, f[i - 1]>> \in (1 .. n) \X A
    BY <2>1, <2>2
  <2> QED
    BY <2>1, <2>3
<1>5. f = Rule(f)
  <2>1. \A i \in 0 .. n : f[i] = IF i = 0 THEN a ELSE Op(f[i - 1], i)
    BY <1>1, <1>4
  <2> QED
    BY <1>4, <2>1
<1>6. run = Rule(run)
  BY <1>5
<1>7. \A i \in 0 .. n : run[i] = f[i]
  <2> DEFINE S == {i \in 0 .. n : run[i] = f[i]}
  <2>1. \A i \in 0 .. n : run[i] = IF i = 0 THEN a ELSE Op(run[i - 1], i)
    BY <1>6, Zenon
  <2> HIDE DEF run
  <2>2. 0 \in S
    BY <1>1, <1>4, <2>1
  <2>3. ASSUME NEW i \in 1 .. n, i - 1 \in S PROVE i \in S
    BY <1>1, <1>4, <2>1, <2>3
  <2>4. \A i \in 0 .. n : i \in S
    <3> HIDE DEF S
    <3> QED
      BY <1>1, <2>2, <2>3, IntervalInduction
  <2> QED
    BY <2>4
<1>8. AppendBools(base, srcs) = run[n]
  BY Zenon DEF AppendBools, n, a, Op
<1>9. f \in Overriding(base, srcs)
  BY <1>4 DEF Overriding, n, A, a, Op
<1> HIDE DEF run, F
<1> QED
  BY <1>1, <1>7, <1>8, <1>9 DEF n

Overridden(base, srcs, n, r) ==
  \/ r = base /\ \A j \in 1 .. n : srcs[j] = Unset
  \/ \E k \in 1 .. n : r = srcs[k] /\ r # Unset /\ \A j \in k + 1 .. n : srcs[j] = Unset

LEMMA BoolFacts ==
  ASSUME NEW base \in Tri, NEW srcs \in Seq(Tri)
  PROVE  AppendBools(base, srcs) \in Tri /\ Overridden(base, srcs, Len(srcs), AppendBools(base, srcs))
<1> DEFINE n == Len(srcs)
<1>1. n \in Nat
  OBVIOUS
<1>2. PICK f \in Overriding(base, srcs) : AppendBools(base, srcs) = f[n]
  BY BoolRuns
<1>3. f[0] = base /\ f \in [0 .. n -> Tri] /\ \A i \in 1 .. n : f[i] = AppendBool(f[i - 1], srcs[i])
  BY DEF Overriding
<1> DEFINE B == {i \in 0 .. n : Overridden(base, srcs, i, f[i])}
<1>4. 0 \in B
  BY <1>1, <1>3 DEF Overridden
<1>5. ASSUME NEW i \in 1 .. n, i - 1 \in B PROVE i \in B
  <2>0. i \in Nat /\ i \in 0 .. n
    BY <1>1
  <2>1. CASE srcs[i] # Unset
    <3>1. f[i] = srcs[i] /\ i \in 1 .. i /\ \A j \in i + 1 .. i : FALSE
      BY <1>3, <2>0, <2>1 DEF AppendBool
    <3>2. Overridden(base, srcs, i, f[i])
      BY <2>1, <3>1 DEF Overridden
    <3> QED
      BY <2>0, <3>2
  <2>2. CASE srcs[i] = Unset
    <3>1. f[i] = f[i - 1]
      BY <1>3, <2>2 DEF AppendBool
    <3>2. \A j \in 1 .. i : j \in 1 .. i - 1 \/ j = i
      BY <2>0
    <3>3. \A k \in 1 .. i - 1 : k \in 1 .. i /\ \A j \in k + 1 .. i : j \in k + 1 .. i - 1 \/ j = i
      BY <2>0
    <3>4. Overridden(base, srcs, i - 1, f[i - 1])
      BY <1>5
    <3>5. Overridden(base, srcs, i, f[i])
      BY <2>2, <3>1, <3>2, <3>3, <3>4 DEF Overridden
    <3> QED
      BY <2>0, <3>5
  <2> QED
    BY <2>1, <2>2
<1>6. \A i \in 0 .. n : i \in B
  <2> HIDE DEF B, n
  <2> QED
    BY <1>1, <1>4, <1>5, IntervalInduction
<1>7. n \in 0 .. n
  BY <1>1
<1> QED
  BY <1>2, <1>3, <1>6, <1>7

\* The last that says something.
LastSet(list) ==
  LET said == Only(list, Tri \ {Unset})
  IN  IF said = <<>> THEN Unset ELSE Last(said)

LEMMA LastSetFacts ==
  ASSUME NEW list \in Seq(Tri)
  PROVE  /\ LastSet(list) = AppendBools(Unset, list)
         /\ Only(list, Tri \ {Unset}) # <<>> => LastSet(list) # Unset
<1> DEFINE S == Tri \ {Unset}
           said == Only(list, S)
           r == AppendBools(Unset, list)
<1>1. Len(list) \in Nat /\ Unset \in Tri /\ \A i \in 1 .. Len(list) : list[i] \in Tri
  BY DEF Tri
<1>2. Overridden(Unset, list, Len(list), r)
  BY <1>1, BoolFacts
<1>3. Ending(list, S, said, Len(list))
  <2> HIDE DEF S
  <2> QED
    BY OnlyEnds, Zenon
<1> HIDE DEF r, said
<1>4. CASE \A j \in 1 .. Len(list) : list[j] = Unset
  <2>1. r = Unset
    BY <1>2, <1>4 DEF Overridden
  <2>2. said = <<>>
    BY <1>3, <1>4 DEF Ending
  <2> QED
    BY <2>1, <2>2 DEF LastSet, r, said
<1>5. ASSUME NEW o \in 1 .. Len(list), list[o] # Unset
      PROVE  said # <<>> /\ Last(said) # Unset /\ Last(said) = r
  <2>1. PICK k \in 1 .. Len(list) : r = list[k] /\ r # Unset /\ \A j \in k + 1 .. Len(list) : list[j] = Unset
    BY <1>2, <1>5 DEF Overridden
  <2>2. list[o] \in S
    BY <1>1, <1>5
  <2>3. PICK l \in 1 .. Len(list) : /\ said # <<>> /\ list[l] \in S /\ Last(said) = list[l]
                                    /\ \A j \in l + 1 .. Len(list) : list[j] \notin S
    BY <1>3, <2>2 DEF Ending
  <2>4. list[k] \in S
    BY <1>1, <2>1
  <2>5. ~(k < l) /\ ~(l < k)
    BY <1>1, <2>1, <2>3, <2>4
  <2>6. k = l
    BY <1>1, <2>5
  <2> QED
    BY <2>1, <2>3, <2>6
<1> QED
  BY <1>4, <1>5 DEF LastSet, r, said

\* One more has the last word, if it says something.
LEMMA LastSetAppend ==
  ASSUME NEW list \in Seq(Tri), NEW x \in Tri
  PROVE  LastSet(Append(list, x)) = AppendBool(LastSet(list), x)
<1> DEFINE S == Tri \ {Unset}
           o == <<x>>
           a == Only(list, S)
           b == Only(o, S)
<1>1. o \in Seq(Tri) /\ Append(list, x) = list \o o
  OBVIOUS
<1>2. a \in Seq(Tri)
  <2> HIDE DEF S
  <2> QED
    BY OnlyConcat, Zenon
<1>3. Only(list \o o, S) = a \o b
  <2> HIDE DEF S, o
  <2> QED
    BY <1>1, OnlyConcat, Zenon
<1>4. b = IF x \in S THEN <<x>> ELSE <<>>
  <2> HIDE DEF S
  <2> QED
    BY OnlyOne, Zenon
<1> HIDE DEF a, b, o
<1>5. CASE x = Unset
  <2>1. a \o b = a
    BY <1>2, <1>4, <1>5
  <2> QED
    BY <1>1, <1>3, <1>5, <2>1 DEF LastSet, AppendBool, a
<1>6. CASE x # Unset
  <2>1. b = <<x>>
    BY <1>4, <1>6
  <2>2. a \o b # <<>> /\ Last(a \o b) = x
    BY <1>2, <2>1 DEF Last
  <2> QED
    BY <1>1, <1>3, <1>6, <2>2 DEF LastSet, AppendBool, a
<1> QED
  BY <1>5, <1>6

-----------------------------------------------------------------------------
LEMMA PartFacts ==
  ASSUME declared \in Declarations
  PROVE  /\ EnabledFeatures \in Seq(Part)
         /\ Parts \in Seq(Part) /\ Len(Parts) = Len(EnabledFeatures) + 1 /\ Len(EnabledFeatures) \in Nat
         /\ "plain" \in Part /\ Parts[1] = "plain" /\ \A i \in 1 .. Len(EnabledFeatures) : Parts[i + 1] = EnabledFeatures[i]
<1> DEFINE R == Range(FeatureList)
           S == declared.features
           plain == <<"plain">>
           e == EnabledFeatures
<1>1. \A list \in Seq(R) : \A T : Only(list, T) \in Seq(R)
  <2> HIDE DEF R
  <2> QED
    BY OnlyConcat, Zenon
<1>2. FeatureList \in Seq(R)
  BY DeclarationAssumption
<1>3. e \in Seq(R)
  <2> HIDE DEF R
  <2> QED
    BY <1>1, <1>2, Zenon DEF EnabledFeatures
<1>4. e \in Seq(Part) /\ plain \in Seq(Part) /\ "plain" \in Part /\ Len(plain) = 1 /\ plain[1] = "plain"
  <2> HIDE DEF e
  <2> QED
    BY <1>3 DEF Part
<1> HIDE DEF e, plain
<1>5. Parts = plain \o e
  BY DEF Parts, e, plain
<1>6. /\ plain \o e \in Seq(Part) /\ Len(plain \o e) = Len(plain) + Len(e) /\ Len(e) \in Nat
      /\ \A p \in 1 .. Len(plain) : (plain \o e)[p] = plain[p]
      /\ \A p \in 1 .. Len(e) : (plain \o e)[Len(plain) + p] = e[p]
  <2>1. plain \in Seq(Part) /\ e \in Seq(Part)
    BY <1>4
  <2> QED
    BY ONLY <2>1, ConcatFacts
<1>7. \A p \in 1 .. Len(e) : Len(plain) + p = p + 1
  BY <1>4, <1>6
<1>8. 1 \in 1 .. Len(plain)
  BY <1>4
<1> QED
  BY <1>4, <1>5, <1>6, <1>7, <1>8 DEF e

\* What a module says of a variant: in a feature before without one.
LEMMA SaidFacts ==
  ASSUME declared \in Declarations, NEW d \in Module, NEW v \in Variant
  PROVE  /\ Said(d, v) = AppendBools(declared.supported[d]["plain"][v],
                           [i \in DOMAIN EnabledFeatures |-> declared.supported[d][EnabledFeatures[i]][v]])
         /\ Said(d, v) \in Tri
         /\ declared.supported[d]["plain"][v] \in Tri
<1> DEFINE e == EnabledFeatures
           value == [f \in Part |-> declared.supported[d][f][v]]
           base == value["plain"]
           srcs == [i \in DOMAIN e |-> value[e[i]]]
           r == AppendBools(base, srcs)
           S == {f \in Part : value[f] # Unset}
           last == Only(Parts, S)
           n == Len(e)
<1>1. value \in [Part -> Tri]
  <2>1. declared.supported[d] \in [Part -> [Variant -> Tri]]
    BY DeclarationAssumption
  <2> DEFINE s == declared.supported[d]
  <2> HIDE DEF s
  <2>2. \A f \in Part : s[f][v] \in Tri
    BY <2>1 DEF s
  <2>3. \A f \in Part : declared.supported[d][f][v] \in Tri
    BY <2>2 DEF s
  <2> QED
    BY <2>3
<1>2. /\ e \in Seq(Part) /\ Parts \in Seq(Part) /\ Len(Parts) = n + 1 /\ n \in Nat /\ DOMAIN e = 1 .. n
      /\ "plain" \in Part /\ Parts[1] = "plain" /\ \A i \in 1 .. n : Parts[i + 1] = e[i] /\ e[i] \in Part
  <2>1. /\ e \in Seq(Part) /\ Parts \in Seq(Part) /\ Len(Parts) = n + 1 /\ n \in Nat
        /\ "plain" \in Part /\ Parts[1] = "plain" /\ \A i \in 1 .. n : Parts[i + 1] = e[i]
    BY PartFacts
  <2> HIDE DEF e
  <2> QED
    BY <2>1
<1>3. srcs = [i \in DOMAIN EnabledFeatures |-> declared.supported[d][EnabledFeatures[i]][v]]
  BY <1>2
<1>4. base = declared.supported[d]["plain"][v]
  BY <1>2
<1>5. Said(d, v) = IF last = <<>> THEN Unset ELSE value[Last(last)]
  <2>1. S = {f \in Part : declared.supported[d][f][v] # Unset}
    OBVIOUS
  <2>2. Ending(Parts, S, last, Len(Parts))
    <3> HIDE DEF S
    <3>1. \A T : Ending(Parts, T, Only(Parts, T), Len(Parts))
      BY <1>2, OnlyEnds, Zenon
    <3> QED
      BY <3>1, Zenon
  <2>3. last # <<>> => Last(last) \in Part
    BY <1>2, <2>2 DEF Ending
  <2>4. Said(d, v) = IF last = <<>> THEN Unset ELSE declared.supported[d][Last(last)][v]
    <3> HIDE DEF S
    <3> QED
      BY <2>1 DEF Said
  <2> QED
    BY <2>3, <2>4
<1>6. Ending(Parts, S, last, n + 1)
  <2> HIDE DEF S, e, n
  <2>1. \A T : Ending(Parts, T, Only(Parts, T), Len(Parts))
    BY <1>2, OnlyEnds, Zenon
  <2> QED
    BY <1>2, <2>1, Zenon
<1> HIDE DEF value, e, n, last
<1>7. srcs \in Seq(Tri) /\ Len(srcs) = n /\ base \in Tri /\ \A i \in 1 .. n : srcs[i] = value[Parts[i + 1]]
  BY <1>1, <1>2
<1> HIDE DEF base, srcs, r, S
<1>8. r \in Tri /\ Overridden(base, srcs, n, r)
  BY <1>7, BoolFacts DEF r
<1>9. \A f \in Part : f \in S <=> value[f] # Unset
  BY DEF S
<1>10. \A k \in 1 .. n + 1 : Parts[k] \in Part
  BY <1>2
<1>11. CASE \A k \in 1 .. n + 1 : Parts[k] \notin S
  <2>1. last = <<>>
    BY <1>6, <1>11 DEF Ending
  <2>2. base = Unset
    BY <1>2, <1>9, <1>11 DEF base
  <2>3. \A i \in 1 .. n : srcs[i] = Unset
    <3> SUFFICES ASSUME NEW i \in 1 .. n PROVE srcs[i] = Unset
      OBVIOUS
    <3>1. i + 1 \in 1 .. n + 1
      BY <1>2
    <3> QED
      BY <1>7, <1>9, <1>10, <1>11, <3>1
  <2>4. r = Unset
    BY <1>8, <2>2, <2>3 DEF Overridden
  <2> QED
    BY <1>3, <1>4, <1>5, <1>7, <1>8, <2>1, <2>4 DEF r
<1>12. ASSUME NEW o \in 1 .. n + 1, Parts[o] \in S
       PROVE  last # <<>> /\ value[Last(last)] = r
  <2>1. PICK k \in 1 .. n + 1 : /\ last # <<>> /\ Parts[k] \in S /\ Last(last) = Parts[k]
                                /\ \A j \in k + 1 .. n + 1 : Parts[j] \notin S
    BY <1>6, <1>12 DEF Ending
  <2>2. \A i \in 1 .. n : i + 1 \in k + 1 .. n + 1 => srcs[i] = Unset
    <3> SUFFICES ASSUME NEW i \in 1 .. n, i + 1 \in k + 1 .. n + 1 PROVE srcs[i] = Unset
      OBVIOUS
    <3>1. i + 1 \in 1 .. n + 1
      BY <1>2
    <3> QED
      BY <1>7, <1>9, <1>10, <2>1, <3>1
  <2>3. value[Parts[k]] # Unset
    BY <1>9, <1>10, <2>1
  <2>4. CASE k = 1
    <3>1. \A i \in 1 .. n : i + 1 \in k + 1 .. n + 1
      BY <1>2, <2>4
    <3>2. \A i \in 1 .. n : srcs[i] = Unset
      BY <2>2, <3>1
    <3>3. r = base
      BY <1>8, <3>2 DEF Overridden
    <3> QED
      BY <1>2, <2>1, <2>4, <3>3 DEF base
  <2>5. CASE k # 1
    <3> DEFINE i == k - 1
    <3>1. i \in 1 .. n /\ i + 1 = k /\ \A j \in i + 1 .. n : j \in 1 .. n /\ j + 1 \in k + 1 .. n + 1
      BY <1>2, <2>5
    <3> HIDE DEF i
    <3>2. srcs[i] = value[Parts[k]] /\ \A j \in i + 1 .. n : srcs[j] = Unset
      BY <1>7, <2>2, <3>1
    <3>3. PICK l \in 1 .. n : r = srcs[l] /\ r # Unset /\ \A j \in l + 1 .. n : srcs[j] = Unset
      BY <1>8, <2>3, <3>1, <3>2 DEF Overridden
    <3>4. ~(i < l) /\ ~(l < i)
      BY <1>2, <2>3, <3>1, <3>2, <3>3
    <3>5. i = l
      BY <1>2, <3>1, <3>4
    <3> QED
      BY <2>1, <3>2, <3>3, <3>5
  <2> QED
    BY <2>4, <2>5
<1> QED
  BY <1>3, <1>4, <1>5, <1>7, <1>8, <1>11, <1>12 DEF r

-----------------------------------------------------------------------------
(***************************************************************************)
(* What each pass makes of a copy of a module.                             *)
(***************************************************************************)
LEMMA NothingStands == ASSUME NEW rooted PROVE Stands(<<>>, rooted) = Nothing
<1> DEFINE none == <<>>
           d == Dirs(none, rooted)
<1>1. none \in Seq(Slots) /\ Len(none) = 0
  OBVIOUS
<1>2. \A S : Only(<<>>, S) = <<>>
  BY OnlyOne, Zenon
<1>3. d \in Seq({Dir(place, rooted) : place \in Slots}) /\ Len(d) = 0
  <2> HIDE DEF none, d
  <2>1. d \in Seq({Dir(place, rooted) : place \in Slots}) /\ Len(d) = Len(none)
    BY <1>1, DirsFacts, Zenon DEF d
  <2> QED
    BY <1>1, <2>1
<1>4. d = <<>>
  <2> HIDE DEF d
  <2> QED
    BY <1>3
<1>5. Prop(<<>>, rooted) = Nothing
  BY <1>4 DEF Prop, Nothing
<1>6. Only(<<>>, Set) = <<>>
  BY <1>2, Zenon
<1> QED
  BY <1>5, <1>6 DEF Stands

\* A place alone.
LEMMA GivenStands ==
  ASSUME NEW m \in Module, NEW p \in Place, NEW part \in Part
  PROVE  Given(m, p, part) = Stands(<<<<m, p, part>>>>, FALSE) /\ <<m, p, part>> \in Slots
<1> DEFINE x == <<m, p, part>>
           one == <<x>>
           d == Dirs(one, FALSE)
<1>1. x \in Slots /\ x[1] = m
  BY DEF Slots
<1>2. x \in Set <=> <<p, part>> \in declared.sets[m]
  BY DEF Set
<1> HIDE DEF x
<1>3. \A S : Only(one, S) = IF x \in S THEN one ELSE <<>>
  BY <1>1, OnlyOne, Zenon
<1>4. Only(one, Set) = IF x \in Set THEN one ELSE <<>>
  <2> HIDE DEF one
  <2> QED
    BY <1>3, Zenon
<1>5. d = <<[value |-> x, prefix |-> <<>>]>>
  <2>1. one \in Seq(Slots) /\ Len(one) = 1 /\ one[1] = x
    BY <1>1
  <2>2. /\ d \in Seq({Dir(place, FALSE) : place \in Slots}) /\ Len(d) = Len(one)
        /\ \A q \in 1 .. Len(one) : d[q] = Dir(one[Len(one) - q + 1], FALSE)
    <3> HIDE DEF one
    <3> QED
      BY <2>1, DirsFacts, Zenon
  <2> HIDE DEF one, d
  <2>3. Len(d) = 1 /\ 1 \in 1 .. Len(one) /\ Len(one) - 1 + 1 = 1
    BY <2>1, <2>2
  <2>4. d[1] = Dir(x, FALSE)
    BY <2>1, <2>2, <2>3
  <2>5. d = <<d[1]>>
    BY <2>2, <2>3
  <2> QED
    BY <2>4, <2>5 DEF Dir
<1>6. Prop(one, FALSE) = [flags |-> <<x>>, dirs |-> <<[value |-> x, prefix |-> <<>>]>>, enable |-> <<x>>]
  <2>1. one # <<>> /\ Last(one) = x
    BY DEF Last
  <2> QED
    BY <1>5, <2>1 DEF Prop
<1>7. CASE x \in Set
  <2>1. Stands(one, FALSE) = Prop(one, FALSE)
    BY <1>4, <1>7 DEF Stands
  <2>2. Given(m, p, part) = [flags |-> <<x>>, dirs |-> <<[value |-> x, prefix |-> <<>>]>>, enable |-> <<x>>]
    BY <1>2, <1>7 DEF Given, x
  <2> QED
    BY <1>1, <1>6, <2>1, <2>2 DEF x
<1>8. CASE x \notin Set
  <2>1. Stands(one, FALSE) = Prop(<<>>, FALSE)
    BY <1>4, <1>8 DEF Stands
  <2>2. Stands(<<>>, FALSE) = Prop(<<>>, FALSE)
    <3>1. \A S : Only(<<>>, S) = <<>>
      BY OnlyOne, Zenon
    <3>2. Only(<<>>, Set) = <<>>
      BY <3>1, Zenon
    <3> QED
      BY <3>2 DEF Stands
  <2>3. Given(m, p, part) = Nothing
    BY <1>2, <1>8 DEF Given, x
  <2> QED
    BY <1>1, <2>1, <2>2, <2>3, NothingStands DEF x
<1> QED
  BY <1>7, <1>8

\* The places of one module.
SlotsOf(m) == {x \in Slots : x[1] = m}

LEMMA PlacesFacts ==
  ASSUME declared \in Declarations, NEW m \in Module, NEW p \in Place
  PROVE  /\ Places(m, p) \in Seq(SlotsOf(m)) /\ Places(m, p) \in Seq(Slots)
         /\ AppendAll(Given(m, p, "plain"), [i \in DOMAIN EnabledFeatures |-> Given(m, p, EnabledFeatures[i])])
              = Stands(Places(m, p), FALSE)
<1> DEFINE e == EnabledFeatures
           n == Len(e)
           At(part) == <<m, p, part>>
           first == <<At("plain")>>
           rest == [i \in 1 .. n |-> At(e[i])]
           ones == [i \in 1 .. n |-> <<At(e[i])>>]
           srcs == [i \in DOMAIN EnabledFeatures |-> Given(m, p, EnabledFeatures[i])]
           l == Places(m, p)
           r == first \o rest
<1>1. /\ e \in Seq(Part) /\ Parts \in Seq(Part) /\ Len(Parts) = n + 1 /\ n \in Nat
      /\ "plain" \in Part /\ Parts[1] = "plain" /\ \A i \in 1 .. n : Parts[i + 1] = e[i]
  BY PartFacts
<1>2. DOMAIN e = 1 .. n /\ (\A i \in 1 .. n : e[i] \in Part) /\ DOMAIN Parts = 1 .. n + 1
      /\ \A i \in 1 .. n + 1 : Parts[i] \in Part
  <2> HIDE DEF e
  <2> QED
    BY <1>1
<1>3. \A part \in Part : At(part) \in SlotsOf(m) /\ At(part) \in Slots
  BY DEF SlotsOf, Slots
<1> HIDE DEF e, n
<1>4. srcs = [i \in 1 .. n |-> Given(m, p, e[i])]
  BY <1>2 DEF e
<1>5. l = [i \in 1 .. n + 1 |-> At(Parts[i])]
  BY <1>2 DEF Places
<1> HIDE DEF l, srcs
<1>6. l \in Seq(SlotsOf(m)) /\ l \in Seq(Slots) /\ Len(l) = n + 1 /\ \A i \in 1 .. n + 1 : l[i] = At(Parts[i])
  <2>1. \A i \in 1 .. n + 1 : At(Parts[i]) \in SlotsOf(m) /\ At(Parts[i]) \in Slots
    BY <1>2, <1>3
  <2> HIDE DEF At
  <2>2. l \in [1 .. n + 1 -> SlotsOf(m)] /\ l \in [1 .. n + 1 -> Slots] /\ n + 1 \in Nat
    BY <1>1, <1>5, <2>1
  <2> QED
    BY <1>5, <2>2
<1>7. rest \in Seq(Slots) /\ Len(rest) = n /\ \A i \in 1 .. n : rest[i] = At(e[i])
  <2>1. \A i \in 1 .. n : At(e[i]) \in Slots
    BY <1>2, <1>3
  <2> HIDE DEF At
  <2>2. rest \in [1 .. n -> Slots]
    BY <2>1
  <2> QED
    BY <1>1, <2>2
<1>8. ones \in Seq(Seq(Slots)) /\ Len(ones) = n /\ \A i \in 1 .. n : ones[i] = <<At(e[i])>>
  <2>1. \A i \in 1 .. n : <<At(e[i])>> \in Seq(Slots)
    <3> SUFFICES ASSUME NEW i \in 1 .. n PROVE <<At(e[i])>> \in Seq(Slots)
      OBVIOUS
    <3>1. At(e[i]) \in Slots
      BY <1>2, <1>3
    <3> HIDE DEF At
    <3> QED
      BY <3>1
  <2> HIDE DEF At
  <2>2. ones \in [1 .. n -> Seq(Slots)]
    BY <2>1
  <2> QED
    BY <1>1, <2>2
<1>9. first \in Seq(Slots) /\ Len(first) = 1 /\ first[1] = At("plain")
  BY <1>1, <1>3
<1> HIDE DEF first, rest, ones
<1>10. Joint(ones) = rest
  <2>1. \A i \in 1 .. Len(rest) : ones[i] = <<rest[i]>>
    BY <1>7, <1>8
  <2> QED
    BY <1>7, <1>8, <2>1, JointOnes
<1>11. /\ r \in Seq(Slots) /\ Len(r) = n + 1
       /\ r[1] = first[1] /\ \A i \in 1 .. n : r[i + 1] = rest[i]
  <2>1. first \in Seq(Slots) /\ rest \in Seq(Slots)
    BY <1>7, <1>9
  <2>2. /\ r \in Seq(Slots) /\ Len(r) = Len(first) + Len(rest)
        /\ \A i \in 1 .. Len(first) : r[i] = first[i]
        /\ \A i \in 1 .. Len(rest) : r[Len(first) + i] = rest[i]
    BY ONLY <2>1, ConcatFacts
  <2> HIDE DEF r
  <2>3. Len(r) = n + 1 /\ 1 \in 1 .. Len(first) /\ \A i \in 1 .. n : Len(first) + i = i + 1
    BY <1>1, <1>7, <1>9, <2>2
  <2> QED
    BY <1>7, <2>2, <2>3
<1>12. l = r
  <2> HIDE DEF r
  <2>1. \A i \in 1 .. n + 1 : l[i] = r[i]
    <3> SUFFICES ASSUME NEW i \in 1 .. n + 1 PROVE l[i] = r[i]
      OBVIOUS
    <3>1. CASE i = 1
      BY <1>1, <1>6, <1>9, <1>11, <3>1
    <3>2. CASE i # 1
      <4> DEFINE j == i - 1
      <4>1. j \in 1 .. n /\ j + 1 = i
        BY <1>1, <3>2
      <4> HIDE DEF j
      <4>2. l[i] = At(e[j])
        BY <1>1, <1>6, <4>1
      <4>3. r[i] = At(e[j])
        BY <1>7, <1>11, <4>1
      <4> QED
        BY <4>2, <4>3
    <3> QED
      BY <3>1, <3>2
  <2>2. l \in Seq(Slots) /\ r \in Seq(Slots) /\ Len(l) = Len(r) /\ \A i \in 1 .. Len(l) : l[i] = r[i]
    BY <1>6, <1>11, <2>1
  <2> QED
    BY ONLY <2>2, SameList
<1>13. AppendAll(Stands(first, FALSE), srcs) = Stands(r, FALSE)
  <2>1. Len(srcs) = n
    BY <1>1, <1>4
  <2>2. \A i \in 1 .. n : srcs[i] = Stands(ones[i], FALSE)
    <3> SUFFICES ASSUME NEW i \in 1 .. n PROVE srcs[i] = Stands(ones[i], FALSE)
      OBVIOUS
    <3>1. Given(m, p, e[i]) = Stands(<<At(e[i])>>, FALSE)
      BY <1>2, GivenStands
    <3> QED
      BY <1>4, <1>8, <3>1
  <2>3. AppendAll(Stands(first, FALSE), srcs) = Stands(first \o Joint(ones), FALSE)
    BY <1>8, <1>9, <2>1, <2>2, StandsJoint
  <2> QED
    BY <1>10, <2>3
<1>14. Given(m, p, "plain") = Stands(first, FALSE)
  BY <1>1, GivenStands DEF first
<1> QED
  BY <1>6, <1>12, <1>13, <1>14 DEF l, srcs

\* Those for both variants, and then those of one.
Own(m, v) == Places(m, "core") \o Places(m, v)

LEMMA OwnFacts ==
  ASSUME declared \in Declarations, NEW m \in Module, NEW v \in Variant
  PROVE  /\ Own(m, v) \in Seq(SlotsOf(m)) /\ Own(m, v) \in Seq(Slots)
         /\ AppendProperties(Stands(Places(m, "core"), FALSE), Stands(Places(m, v), FALSE)) = Stands(Own(m, v), FALSE)
<1> DEFINE a == Places(m, "core")
           b == Places(m, v)
<1>1. "core" \in Place /\ v \in Place
  BY DEF Place
<1>2. a \in Seq(SlotsOf(m)) /\ a \in Seq(Slots) /\ b \in Seq(SlotsOf(m)) /\ b \in Seq(Slots)
  BY <1>1, PlacesFacts
<1> HIDE DEF a, b
<1>3. a \o b \in Seq(SlotsOf(m)) /\ a \o b \in Seq(Slots)
  BY <1>2
<1>4. AppendProperties(Stands(a, FALSE), Stands(b, FALSE)) = Stands(a \o b, FALSE)
  BY <1>2, StandsConcat, Zenon
<1> QED
  BY <1>3, <1>4 DEF Own, a, b

\* pathMutator.
Rooted(dirs, m) == [i \in DOMAIN dirs |-> [dirs[i] EXCEPT !.prefix = <<m>> \o dirs[i].prefix]]

Rooting(prop, m) == [prop EXCEPT !.dirs = Rooted(prop.dirs, m)]

LEMMA RootingStands ==
  ASSUME NEW m \in Module, NEW list \in Seq(SlotsOf(m))
  PROVE  Rooting(Stands(list, FALSE), m) = Stands(list, TRUE)
<1> DEFINE o == Only(list, Set)
           a == Dirs(o, FALSE)
           b == Dirs(o, TRUE)
           n == Len(o)
           Put(dir) == [dir EXCEPT !.prefix = <<m>> \o dir.prefix]
<1>1. \A S : Only(list, S) \in Seq(SlotsOf(m))
  BY OnlyConcat, Zenon
<1>2. o \in Seq(SlotsOf(m))
  BY <1>1, Zenon
<1> HIDE DEF o
<1>3. o \in Seq(Slots) /\ n \in Nat /\ \A i \in 1 .. n : o[i] \in Slots /\ o[i][1] = m
  BY <1>2 DEF SlotsOf
<1>4. /\ DOMAIN a = 1 .. n /\ DOMAIN b = 1 .. n
      /\ \A i \in 1 .. n : a[i] = Dir(o[n - i + 1], FALSE) /\ b[i] = Dir(o[n - i + 1], TRUE)
  BY <1>3, DirsFacts
<1>t. b \in Seq({Dir(place, TRUE) : place \in Slots}) /\ Len(b) = n
  BY <1>3, DirsFacts
<1> HIDE DEF a, b
<1>5. ASSUME NEW i \in 1 .. n PROVE Put(a[i]) = b[i]
  <2>1. n - i + 1 \in 1 .. n
    BY <1>3
  <2> DEFINE x == o[n - i + 1]
  <2>2. a[i] = [value |-> x, prefix |-> <<>>] /\ b[i] = [value |-> x, prefix |-> <<x[1]>>] /\ x[1] = m
    BY <1>3, <1>4, <2>1 DEF Dir
  <2> HIDE DEF x
  <2>3. Put(a[i]) = [value |-> x, prefix |-> <<m>> \o <<>>]
    BY <2>2
  <2>4. <<m>> \o <<>> = <<m>>
    OBVIOUS
  <2> QED
    BY <2>2, <2>3, <2>4
<1>6. [i \in DOMAIN a |-> Put(a[i])] = b
  <2>1. b = [i \in 1 .. n |-> b[i]]
    <3> HIDE DEF n
    <3> QED
      BY <1>t
  <2> HIDE DEF Put, n
  <2> QED
    BY <1>4, <1>5, <2>1
<1> DEFINE c == IF o = <<>> THEN <<>> ELSE <<Last(o)>>
<1>7. Stands(list, FALSE) = [flags |-> o, dirs |-> a, enable |-> c]
  BY DEF Stands, Prop, o, a
<1>8. Stands(list, TRUE) = [flags |-> o, dirs |-> b, enable |-> c]
  BY DEF Stands, Prop, o, b
<1> HIDE DEF c
<1>9. Rooting([flags |-> o, dirs |-> a, enable |-> c], m) = [flags |-> o, dirs |-> Rooted(a, m), enable |-> c]
  BY DEF Rooting
<1>10. Rooted(a, m) = [i \in DOMAIN a |-> Put(a[i])]
  BY DEF Rooted
<1> QED
  BY <1>6, <1>7, <1>8, <1>9, <1>10

\* default_applier: those of the defaults, and then its own.
Pooled(all, v) == Joint([i \in DOMAIN all |-> Own(all[i], v)])

LEMMA PooledStands ==
  ASSUME declared \in Declarations, NEW m \in Module, NEW v \in Variant, NEW list \in Seq(Default), NEW srcs,
         srcs = [i \in DOMAIN list |-> srcs[i]],
         \A i \in 1 .. Len(list) : srcs[i] = Stands(Own(list[i], v), TRUE)
  PROVE  PrependProperties(Stands(Own(m, v), TRUE), AppendAll(Nothing, srcs)) = Stands(Pooled(Append(list, m), v), TRUE)
<1> DEFINE n == Len(list)
           all == Append(list, m)
           own == Own(m, v)
           each == [i \in 1 .. n |-> Own(list[i], v)]
           more == [i \in DOMAIN all |-> Own(all[i], v)]
           pool == Joint(each)
           none == <<>>
<1>1. n \in Nat /\ DOMAIN list = 1 .. n /\ \A i \in 1 .. n : list[i] \in Module
  BY DEF Module
<1>2. DOMAIN all = 1 .. n + 1 /\ all[n + 1] = m /\ \A i \in 1 .. n : all[i] = list[i]
  BY <1>1
<1>3. own \in Seq(Slots) /\ \A i \in 1 .. n : Own(list[i], v) \in Seq(Slots)
  BY <1>1, OwnFacts
<1>4. each \in Seq(Seq(Slots)) /\ Len(each) = n /\ \A i \in 1 .. n : each[i] = Own(list[i], v)
  <2> HIDE DEF n
  <2> QED
    BY <1>1, <1>3
<1>5. more = Append(each, own)
  <2>1. /\ more = [i \in 1 .. n + 1 |-> more[i]]
        /\ more[n + 1] = own /\ \A i \in 1 .. n : more[i] = Own(list[i], v)
    <3>1. n + 1 \in 1 .. n + 1 /\ \A i \in 1 .. n : i \in 1 .. n + 1
      BY <1>1
    <3> HIDE DEF all, n
    <3> QED
      BY <1>2, <3>1
  <2> HIDE DEF more, each, own, n
  <2>2. more[n + 1] = own /\ \A i \in 1 .. n : more[i] = each[i]
    BY <1>4, <2>1
  <2>3. \A i \in 1 .. n + 1 : i = n + 1 \/ i \in 1 .. n
    BY <1>1
  <2>4. \A i \in 1 .. n + 1 : more[i] \in Seq(Slots)
    BY <1>3, <1>4, <2>1, <2>2, <2>3
  <2>5. more \in Seq(Seq(Slots)) /\ Len(more) = n + 1
    <3> DEFINE R == Seq(Slots)
               k == n + 1
    <3>1. more = [i \in 1 .. k |-> more[i]] /\ k \in Nat /\ \A i \in 1 .. k : more[i] \in R
      BY <1>1, <2>1, <2>4
    <3> HIDE DEF R, k
    <3>2. more \in [1 .. k -> R]
      BY <3>1
    <3>3. more \in Seq(R) /\ Len(more) = k
      BY <3>1, <3>2
    <3> QED
      BY <3>3 DEF R, k
  <2> DEFINE l == Append(each, own)
  <2>6. /\ l \in Seq(Seq(Slots)) /\ Len(l) = n + 1 /\ l[n + 1] = own
        /\ \A i \in 1 .. n : l[i] = each[i]
    <3>1. each \in Seq(Seq(Slots)) /\ own \in Seq(Slots) /\ Len(each) = n
      BY <1>3, <1>4
    <3> QED
      BY <3>1
  <2> HIDE DEF l
  <2>7. more \in Seq(Seq(Slots)) /\ l \in Seq(Seq(Slots)) /\ Len(more) = Len(l) /\ \A i \in 1 .. Len(more) : more[i] = l[i]
    BY <2>2, <2>3, <2>5, <2>6
  <2>8. more = l
    BY ONLY <2>7, SameList
  <2> QED
    BY <2>8 DEF l
<1> HIDE DEF each, own, n
<1>6. Joint(Append(each, own)) = pool \o own /\ pool \in Seq(Slots)
  BY <1>3, <1>4, JointAppend
<1>7. AppendAll(Stands(none, TRUE), srcs) = Stands(none \o pool, TRUE)
  <2>1. DOMAIN srcs = 1 .. n /\ Len(srcs) = n
    <3>1. DOMAIN srcs = 1 .. n
      BY <1>1
    <3> QED
      BY <1>1, <3>1
  <2>2. \A i \in 1 .. Len(each) : srcs[i] = Stands(each[i], TRUE)
    BY <1>4 DEF n
  <2>3. none \in Seq(Slots)
    OBVIOUS
  <2> HIDE DEF none, pool
  <2> QED
    BY <1>4, <2>1, <2>2, <2>3, StandsJoint DEF pool
<1>8. none \o pool = pool
  <2> HIDE DEF pool
  <2> QED
    BY <1>6
<1>9. PrependProperties(Stands(own, TRUE), Stands(pool, TRUE)) = Stands(pool \o own, TRUE)
  <2> HIDE DEF pool
  <2> QED
    BY <1>3, <1>6, StandsConcat, Zenon
<1>10. Pooled(all, v) = pool \o own
  <2> HIDE DEF pool
  <2> QED
    BY <1>5, <1>6 DEF Pooled
<1>11. Stands(none, TRUE) = Nothing
  BY NothingStands
<1> QED
  BY <1>7, <1>8, <1>9, <1>10, <1>11 DEF own

-----------------------------------------------------------------------------
(***************************************************************************)
(* The variants of a module and the values of its copies, pass by pass.    *)
(***************************************************************************)
Done(q, m, v) == pass > q \/ (pass = q /\ <<m, v>> \in visited)

\* What the module, or else the nearest of its defaults, says of a variant.
Nearest(m, v) ==
  LET all == Append(deps[m], m)
  IN  LastSet([i \in DOMAIN all |-> Said(all[i], v)])

SupportedSo ==
  \A m \in declared.modules, v \in Variant :
    supported[m][v] = IF ~Done(3, m, "all") THEN declared.supported[m]["plain"][v]
                      ELSE IF m \in User /\ Done(4, m, "all") THEN Nearest(m, v)
                      ELSE Said(m, v)

VariantsSo ==
  \A m \in declared.modules : Done(5, m, "all") =>
    variants[m] = IF m \in Default THEN Variant ELSE {v \in Variant : IsSupported(m, v)}

SInv ==
  /\ DOMAIN supported = Module /\ DOMAIN variants = Module
  /\ SupportedSo
  /\ VariantsSo

AsGiven(m, p) == Stands(<<<<m, p, "plain">>>>, FALSE)
WithFeatures(m, p) == Stands(Places(m, p), FALSE)
WithTarget(m, v) == Stands(Own(m, v), FALSE)
WithPaths(m, v) == Stands(Own(m, v), TRUE)
WithDefaults(m, v) == Stands(Pooled(Append(deps[m], m), v), TRUE)

\* A default is not visited by default_applier.
Applied(m, v) == m \in User /\ Done(8, m, v)

ValuesSo(m, v) ==
  /\ ~Done(3, m, "all") => \A p \in Place : props[m][v][p] = AsGiven(m, p)
  /\ Done(3, m, "all") => props[m][v][v] = WithFeatures(m, v)
  /\ Done(3, m, "all") /\ ~Done(6, m, v) => props[m][v]["core"] = WithFeatures(m, "core")
  /\ v \in variants[m] =>
       /\ Done(6, m, v) /\ ~Done(7, m, v) => props[m][v]["core"] = WithTarget(m, v)
       /\ Done(7, m, v) /\ ~Applied(m, v) => props[m][v]["core"] = WithPaths(m, v)
       /\ Applied(m, v) => props[m][v]["core"] = WithDefaults(m, v)

Copies ==
  /\ DOMAIN props = Module
  /\ \A m \in Module : DOMAIN props[m] = Variant
  /\ \A m \in Module, v \in Variant : DOMAIN props[m][v] = Place

PInv ==
  /\ Copies
  /\ \A m \in declared.modules, v \in Variant : ValuesSo(m, v)

-----------------------------------------------------------------------------
\* A list that is there holds declared defaults.
LEMMA DepsFacts ==
  ASSUME IInv, NEW m \in User, m \in declared.modules, pass > 2
  PROVE  /\ deps[m] \in Seq(Default)
         /\ \A i \in 1 .. Len(deps[m]) : deps[m][i] \in Default /\ deps[m][i] \in declared.modules
<1> DEFINE list == deps[m]
<1>0. declared \in Declarations /\ m \in Module /\ Expanded(m)
  BY DEF IInv, Module, Expanded
<1>1. /\ list = LastOccurrences(ExpandDefault(declared.defaults, m))
      /\ ExpandDefault(declared.defaults, m) # Cyclic
  BY <1>0 DEF IInv, DepsAreDeclared, EndsWithCause
<1>2. list \in Seq(Default) /\ Range(list) = Below(m)
  <2> HIDE DEF list
  <2> QED
    BY <1>0, <1>1, ListFacts
<1>3. Below(m) \subseteq declared.modules
  <2> DEFINE C == declared.modules
  <2>1. C \in SUBSET Module /\ \A d \in Module : Range(Names(d)) \subseteq C
    BY <1>0, DeclaredMap, NamesFacts
  <2> HIDE DEF C
  <2>2. Below(m) \subseteq C
    BY <1>0, <2>1, BelowFacts
  <2> QED
    BY <2>2 DEF C
<1> HIDE DEF list
<1>4. \A i \in 1 .. Len(list) : list[i] \in Range(list) /\ list[i] \in Default
  BY <1>2 DEF Range
<1> QED
  BY <1>2, <1>3, <1>4 DEF list

\* A visit makes itself done, and nothing else.
LEMMA VisitDone ==
  ASSUME NEW p \in 1 .. 8, NEW m, NEW v, Visiting(p, m, v), pass' = pass
  PROVE  /\ pass = p /\ <<m, v>> \in ToVisit(p) /\ ~Done(p, m, v) /\ Done(p, m, v)'
         /\ \A q, n, w : (Done(q, n, w)' <=> Done(q, n, w) \/ (q = p /\ n = m /\ w = v))
         /\ \A q \in 1 .. 8 : \A n, w : (q < p => Done(q, n, w)) /\ (q > p => ~Done(q, n, w) /\ ~Done(q, n, w)')
  BY DEF Visiting, Done

\* When a pass ends, what it has to visit was done already.
LEMMA PassDone ==
  ASSUME NextPass
  PROVE  /\ pass \in 1 .. 8
         /\ \A q \in 1 .. 8 : \A n, w :
              /\ Done(q, n, w) => Done(q, n, w)'
              /\ Done(q, n, w)' => Done(q, n, w) \/ (q = pass /\ <<n, w>> \notin ToVisit(q))
  BY DEF NextPass, Done

LEMMA Unfinished ==
  ASSUME NEW q \in 1 .. 8, NEW n, NEW w, pass \in 0 .. 9, pass < q
  PROVE  ~Done(q, n, w)
  BY DEF Done

LEMMA ToVisitFacts ==
  /\ \A q \in {3, 5} : \A m \in declared.modules \cap Module : <<m, "all">> \in ToVisit(q)
  /\ \A m \in declared.modules \cap User : <<m, "all">> \in ToVisit(4)
  /\ \A q \in {6, 7} : \A m \in declared.modules \cap Module, v \in Variant : v \in variants[m] => <<m, v>> \in ToVisit(q)
  /\ \A m \in declared.modules \cap User, v \in Variant : v \in variants[m] => <<m, v>> \in ToVisit(8)
  /\ \A q \in 1 .. 8 : \A m, v : <<m, v>> \in ToVisit(q) => m \in declared.modules /\ (q \in {4, 8} => m \in User)
  /\ \A q \in 6 .. 8 : \A m, v : <<m, v>> \in ToVisit(q) => v \in variants[m] /\ v \in Variant
  BY DEF ToVisit, Module

\* What the build definitions determine stays.
LEMMA SaidFrame ==
  ASSUME UNCHANGED declared, NEW m, NEW v
  PROVE  /\ Said(m, v)' = Said(m, v)
         /\ deps'[m] = deps[m] => Nearest(m, v)' = Nearest(m, v)
<1>1. EnabledFeatures' = EnabledFeatures
  BY DEF EnabledFeatures
<1>2. Parts' = Parts
  BY <1>1 DEF Parts
<1>3. \A d, w : Said(d, w)' = Said(d, w)
  BY <1>2 DEF Said
<1> QED
  BY <1>3 DEF Nearest

LEMMA ValueFrame ==
  ASSUME UNCHANGED declared
  PROVE  /\ \A m, p : AsGiven(m, p)' = AsGiven(m, p) /\ WithFeatures(m, p)' = WithFeatures(m, p)
         /\ \A m, v : WithTarget(m, v)' = WithTarget(m, v) /\ WithPaths(m, v)' = WithPaths(m, v)
         /\ \A m, v : deps'[m] = deps[m] => WithDefaults(m, v)' = WithDefaults(m, v)
<1>1. EnabledFeatures' = EnabledFeatures
  BY DEF EnabledFeatures
<1>2. Parts' = Parts
  BY <1>1 DEF Parts
<1>3. Set' = Set
  BY DEF Set
<1>4. \A m, p : Places(m, p)' = Places(m, p)
  BY <1>2 DEF Places
<1>5. \A m, v : Own(m, v)' = Own(m, v)
  BY <1>4 DEF Own
<1>6. \A all, v : Pooled(all, v)' = Pooled(all, v)
  BY <1>5 DEF Pooled
<1>7. \A m, p : AsGiven(m, p)' = AsGiven(m, p)
  BY <1>3 DEF AsGiven, Stands
<1>8. \A m, p : WithFeatures(m, p)' = WithFeatures(m, p)
  BY <1>3, <1>4 DEF WithFeatures, Stands
<1>9. \A m, v : WithTarget(m, v)' = WithTarget(m, v) /\ WithPaths(m, v)' = WithPaths(m, v)
  BY <1>3, <1>5 DEF WithTarget, WithPaths, Stands
<1>10. \A m, v : deps'[m] = deps[m] => WithDefaults(m, v)' = WithDefaults(m, v)
  BY <1>3, <1>5 DEF WithDefaults, Stands, Pooled
<1> QED
  BY <1>7, <1>8, <1>9, <1>10

-----------------------------------------------------------------------------
\* Nothing of it is touched.
LEMMA SFrame ==
  ASSUME IInv, SInv, UNCHANGED <<declared, supported, variants>>,
         \A m \in declared.modules : \A q \in {3, 4, 5} : (q = 4 => m \in User) => (Done(q, m, "all")' <=> Done(q, m, "all")),
         UNCHANGED deps \/ pass <= 2
  PROVE  SInv'
<1>0. /\ declared' = declared /\ supported' = supported /\ variants' = variants
      /\ declared.modules \subseteq Module
  BY DeclaredMap DEF IInv
<1>1. \A m \in Module, v \in Variant : Said(m, v)' = Said(m, v)
  BY SaidFrame
<1>2. \A m \in Module, v \in Variant : Done(4, m, "all") => Nearest(m, v)' = Nearest(m, v)
  <2>1. CASE UNCHANGED deps
    BY <2>1, SaidFrame
  <2>2. CASE pass <= 2
    BY <2>2 DEF Done, IInv
  <2> QED
    BY <2>1, <2>2
<1>3. SupportedSo'
  <2> SUFFICES ASSUME NEW m \in declared.modules, NEW v \in Variant
               PROVE  supported[m][v] = IF ~Done(3, m, "all")' THEN declared.supported[m]["plain"][v]
                                        ELSE IF m \in User /\ Done(4, m, "all")' THEN Nearest(m, v)'
                                        ELSE Said(m, v)'
    BY <1>0 DEF SupportedSo
  <2>1. supported[m][v] = IF ~Done(3, m, "all") THEN declared.supported[m]["plain"][v]
                          ELSE IF m \in User /\ Done(4, m, "all") THEN Nearest(m, v)
                          ELSE Said(m, v)
    BY DEF SInv, SupportedSo
  <2>2. (Done(3, m, "all")' <=> Done(3, m, "all")) /\ (m \in User => (Done(4, m, "all")' <=> Done(4, m, "all")))
    OBVIOUS
  <2>3. m \in Module
    BY <1>0
  <2> QED
    BY <1>1, <1>2, <2>1, <2>2, <2>3
<1>4. VariantsSo'
  <2>1. \A m, v : IsSupported(m, v)' = IsSupported(m, v)
    BY <1>0 DEF IsSupported
  <2> QED
    BY <1>0, <2>1 DEF SInv, VariantsSo
<1> QED
  BY <1>0, <1>3, <1>4 DEF SInv

LEMMA InitSInv == Init => SInv
<1> SUFFICES ASSUME Init PROVE SInv
  OBVIOUS
<1>1. declared \in Declarations /\ pass = 1 /\ declared.modules \subseteq Module
  BY DeclaredMap DEF Init
<1>2. \A m, v : \A q \in {3, 4, 5} : ~Done(q, m, v)
  BY <1>1 DEF Done
<1>3. supported = [m \in Module |-> declared.supported[m]["plain"]] /\ DOMAIN variants = Module
  BY DEF Init
<1>4. SupportedSo
  BY <1>1, <1>2, <1>3 DEF SupportedSo
<1>5. VariantsSo
  BY <1>2 DEF VariantsSo
<1> QED
  BY <1>3, <1>4, <1>5 DEF SInv

\* What features_applier makes of the supported variants of a module.
LEMMA FeatureSupported ==
  ASSUME IInv, SInv, NEW m \in Module, FeatureApplier(m)
  PROVE  SInv'
<1>0. /\ declared \in Declarations /\ UNCHANGED <<declared, deps, variants>>
      /\ pass' = pass /\ Visiting(3, m, "all")
      /\ supported' = [supported EXCEPT ![m] = [v \in Variant |-> AppendSupported(m, v)]]
  BY DEF FeatureApplier, IInv
<1>1. /\ \A n, w : (Done(3, n, w)' <=> Done(3, n, w) \/ (n = m /\ w = "all"))
      /\ ~Done(3, m, "all") /\ m \in declared.modules
      /\ \A n, w : ~Done(4, n, w)' /\ ~Done(5, n, w)' /\ ~Done(4, n, w)
  <2>1. /\ \A n, w : (Done(3, n, w)' <=> Done(3, n, w) \/ (n = m /\ w = "all"))
        /\ ~Done(3, m, "all") /\ <<m, "all">> \in ToVisit(3) /\ pass = 3
    BY <1>0, VisitDone
  <2>2. m \in declared.modules
    BY <2>1, ToVisitFacts
  <2>3. \A n, w : ~Done(4, n, w)' /\ ~Done(5, n, w)' /\ ~Done(4, n, w)
    BY <1>0, <2>1 DEF Done
  <2> QED
    BY <2>1, <2>2, <2>3
<1>2. \A n \in Module : n # m => supported'[n] = supported[n]
  BY <1>0 DEF SInv
<1>3. \A v \in Variant : supported'[m][v] = Said(m, v)
  <2> SUFFICES ASSUME NEW v \in Variant PROVE supported'[m][v] = Said(m, v)
    OBVIOUS
  <2>1. supported[m][v] = declared.supported[m]["plain"][v]
    BY <1>1 DEF SInv, SupportedSo
  <2>2. AppendSupported(m, v) = Said(m, v)
    BY <1>0, <2>1, SaidFacts DEF AppendSupported
  <2> QED
    BY <1>0, <2>2 DEF SInv
<1>4. SupportedSo'
  <2> SUFFICES ASSUME NEW n \in declared.modules, NEW v \in Variant
               PROVE  supported'[n][v] = IF ~Done(3, n, "all")' THEN declared.supported[n]["plain"][v] ELSE Said(n, v)
    <3>1. \A n, v : Said(n, v)' = Said(n, v)
      BY <1>0, SaidFrame
    <3> QED
      BY <1>0, <1>1, <3>1 DEF SupportedSo
  <2>1. CASE n = m
    BY <1>1, <1>3, <2>1
  <2>2. CASE n # m
    <3>1. supported[n][v] = IF ~Done(3, n, "all") THEN declared.supported[n]["plain"][v] ELSE Said(n, v)
      BY <1>1 DEF SInv, SupportedSo
    <3>2. n \in Module
      BY <1>0, DeclaredMap
    <3> QED
      BY <1>1, <1>2, <2>2, <3>1, <3>2
  <2> QED
    BY <2>1, <2>2
<1>5. VariantsSo'
  BY <1>1 DEF VariantsSo
<1>6. DOMAIN supported' = Module /\ DOMAIN variants' = Module
  BY <1>0 DEF SInv
<1> QED
  BY <1>4, <1>5, <1>6 DEF SInv

\* What supported_variants makes of them.
LEMMA DefaultsSupported ==
  ASSUME IInv, SInv, NEW m \in Module, SupportedVariants(m)
  PROVE  SInv'
<1>0. /\ declared \in Declarations /\ UNCHANGED <<declared, deps, variants>>
      /\ pass' = pass /\ Visiting(4, m, "all")
      /\ supported' = [supported EXCEPT ![m] = [v \in Variant |-> AppendBool(AccumulatedSupported(m, v), @[v])]]
  BY DEF SupportedVariants, IInv
<1>1. /\ \A n, w : (Done(4, n, w)' <=> Done(4, n, w) \/ (n = m /\ w = "all"))
      /\ ~Done(4, m, "all") /\ m \in declared.modules /\ m \in User /\ pass = 4
      /\ \A n, w : ~Done(5, n, w)' /\ Done(3, n, w) /\ Done(3, n, w)'
  <2>1. /\ \A n, w : (Done(4, n, w)' <=> Done(4, n, w) \/ (n = m /\ w = "all"))
        /\ \A n, w : ~Done(5, n, w)' /\ Done(3, n, w)
        /\ ~Done(4, m, "all") /\ <<m, "all">> \in ToVisit(4) /\ pass = 4
    BY <1>0, VisitDone
  <2>2. m \in declared.modules /\ m \in User
    BY <2>1, ToVisitFacts
  <2>3. \A n, w : Done(3, n, w)'
    BY <1>0, <2>1 DEF Done
  <2> QED
    BY <2>1, <2>2, <2>3
<1>2. \A n \in Module : n # m => supported'[n] = supported[n]
  BY <1>0 DEF SInv
<1>3. \A v \in Variant : supported'[m][v] = Nearest(m, v)
  <2> SUFFICES ASSUME NEW v \in Variant PROVE supported'[m][v] = Nearest(m, v)
    OBVIOUS
  <2> DEFINE list == deps[m]
             n == Len(list)
             each == [i \in DOMAIN list |-> Said(list[i], v)]
             all == Append(list, m)
             more == [i \in DOMAIN all |-> Said(all[i], v)]
  <2>1. /\ list \in Seq(Default) /\ n \in Nat /\ DOMAIN list = 1 .. n
        /\ \A i \in 1 .. n : list[i] \in Default /\ list[i] \in declared.modules /\ list[i] \in Module /\ list[i] \notin User
    <3>1. list \in Seq(Default) /\ \A i \in 1 .. n : list[i] \in Default /\ list[i] \in declared.modules
      BY <1>1, DepsFacts
    <3>2. \A d \in Default : d \in Module /\ d \notin User
      BY DeclarationAssumption DEF Module
    <3> HIDE DEF list
    <3> QED
      BY <3>1, <3>2
  <2>2. \A i \in 1 .. n : supported[list[i]][v] = Said(list[i], v)
    <3> SUFFICES ASSUME NEW i \in 1 .. n PROVE supported[list[i]][v] = Said(list[i], v)
      OBVIOUS
    <3> DEFINE d == list[i]
    <3>1. d \in declared.modules /\ d \notin User
      BY <2>1
    <3> HIDE DEF d
    <3>2. supported[d][v] = Said(d, v)
      BY <1>1, <3>1 DEF SInv, SupportedSo
    <3> QED
      BY <3>2 DEF d
  <2>3. AccumulatedSupported(m, v) = AppendBools(Unset, each)
    <3>1. [i \in DOMAIN deps[m] |-> supported[deps[m][i]][v]] = each
      BY <2>1, <2>2
    <3> HIDE DEF each
    <3> QED
      BY <3>1 DEF AccumulatedSupported
  <2>4. \A d \in Module : Said(d, v) \in Tri
    BY <1>0, SaidFacts
  <2>5. each \in Seq(Tri) /\ Len(each) = n /\ \A i \in 1 .. n : each[i] = Said(list[i], v)
    <3>1. \A i \in 1 .. n : Said(list[i], v) \in Tri
      BY <2>1, <2>4
    <3> HIDE DEF list, n
    <3> QED
      BY <2>1, <3>1
  <2>6. more = Append(each, Said(m, v))
    <3> DEFINE k == n + 1
               x == Said(m, v)
               l == Append(each, x)
    <3>1. DOMAIN all = 1 .. k /\ all[k] = m /\ \A i \in 1 .. n : all[i] = list[i]
      <4> HIDE DEF list
      <4> QED
        BY <1>1, <2>1
    <3>2. k \in 1 .. k /\ k \in Nat /\ \A i \in 1 .. k : i \in 1 .. n \/ i = k
      BY <2>1
    <3>3. \A i \in 1 .. n : i \in 1 .. k
      BY <2>1
    <3> HIDE DEF all, k, list, n, each, x
    <3>4. more = [i \in 1 .. k |-> more[i]] /\ more[k] = x /\ \A i \in 1 .. n : more[i] = each[i]
      BY <2>5, <3>1, <3>2, <3>3 DEF x
    <3>5. each \in Seq(Tri) /\ Len(each) = n /\ x \in Tri /\ k = n + 1
      BY <2>4, <2>5 DEF x, k
    <3> HIDE DEF more, l
    <3>6. l \in Seq(Tri) /\ Len(l) = k /\ l[k] = x /\ \A i \in 1 .. n : l[i] = each[i]
      BY <3>5 DEF l
    <3>7. \A i \in 1 .. k : more[i] = l[i]
      BY <3>2, <3>4, <3>6
    <3>8. l = [i \in 1 .. k |-> l[i]]
      BY <3>6
    <3>9. more = l
      BY <3>4, <3>7, <3>8
    <3> QED
      BY <3>9 DEF l, x
  <2>7. Nearest(m, v) = AppendBool(LastSet(each), Said(m, v))
    <3> HIDE DEF each
    <3>1. LastSet(Append(each, Said(m, v))) = AppendBool(LastSet(each), Said(m, v))
      BY <2>4, <2>5, LastSetAppend
    <3>2. Nearest(m, v) = LastSet(more)
      BY DEF Nearest
    <3> HIDE DEF more
    <3> QED
      BY <2>6, <3>1, <3>2
  <2>8. supported[m][v] = Said(m, v)
    BY <1>1 DEF SInv, SupportedSo
  <2>9. supported'[m][v] = AppendBool(AccumulatedSupported(m, v), supported[m][v])
    BY <1>0 DEF SInv
  <2>10. LastSet(each) = AppendBools(Unset, each)
    <3> HIDE DEF each
    <3> QED
      BY <2>5, LastSetFacts
  <2> HIDE DEF each
  <2> QED
    BY <2>3, <2>7, <2>8, <2>9, <2>10
<1>4. SupportedSo'
  <2> SUFFICES ASSUME NEW n \in declared.modules, NEW v \in Variant
               PROVE  supported'[n][v] = IF n \in User /\ Done(4, n, "all")' THEN Nearest(n, v) ELSE Said(n, v)
    <3>1. \A n, v : Said(n, v)' = Said(n, v) /\ Nearest(n, v)' = Nearest(n, v)
      BY <1>0, SaidFrame
    <3> QED
      BY <1>0, <1>1, <3>1 DEF SupportedSo
  <2>1. CASE n = m
    BY <1>1, <1>3, <2>1
  <2>2. CASE n # m
    <3>1. supported[n][v] = IF n \in User /\ Done(4, n, "all") THEN Nearest(n, v) ELSE Said(n, v)
      BY <1>1 DEF SInv, SupportedSo
    <3>2. n \in Module
      BY <1>0, DeclaredMap
    <3> QED
      BY <1>1, <1>2, <2>2, <3>1, <3>2
  <2> QED
    BY <2>1, <2>2
<1>5. VariantsSo'
  BY <1>1 DEF VariantsSo
<1>6. DOMAIN supported' = Module /\ DOMAIN variants' = Module
  BY <1>0 DEF SInv
<1> QED
  BY <1>4, <1>5, <1>6 DEF SInv

\* The variants that bob_splitter makes.
LEMMA SplitSupported ==
  ASSUME IInv, SInv, NEW m \in Module, Splitter(m)
  PROVE  SInv'
<1>0. /\ UNCHANGED <<declared, deps, supported>>
      /\ pass' = pass /\ Visiting(5, m, "all")
      /\ variants' = [variants EXCEPT ![m] = IF m \in Default THEN Variant ELSE {v \in Variant : IsSupported(m, v)}]
      /\ declared.modules \subseteq Module
  BY DeclaredMap DEF Splitter, IInv
<1>1. /\ \A n, w : (Done(5, n, w)' <=> Done(5, n, w) \/ (n = m /\ w = "all"))
      /\ \A n, w : Done(3, n, w) /\ Done(4, n, w) /\ Done(3, n, w)' /\ Done(4, n, w)'
  <2>0. pass' = pass /\ pass = 5 /\ visited' = visited \cup {<<m, "all">>}
    BY <1>0 DEF Visiting
  <2>1. (\A n, w : (Done(5, n, w)' <=> Done(5, n, w) \/ (n = m /\ w = "all"))) /\ pass = 5
    BY ONLY <2>0 DEF Done
  <2>2. \A n, w : Done(3, n, w) /\ Done(4, n, w) /\ Done(3, n, w)' /\ Done(4, n, w)'
    BY <1>0, <2>1 DEF Done
  <2> QED
    BY <2>1, <2>2
<1>2. SupportedSo'
  <2>1. \A n, v : Said(n, v)' = Said(n, v) /\ Nearest(n, v)' = Nearest(n, v)
    BY <1>0, SaidFrame
  <2> QED
    BY <1>0, <1>1, <2>1 DEF SInv, SupportedSo
<1>3. VariantsSo'
  <2>1. \A n, v : IsSupported(n, v)' = IsSupported(n, v)
    BY <1>0 DEF IsSupported
  <2> SUFFICES ASSUME NEW n \in declared.modules, Done(5, n, "all")'
               PROVE  variants'[n] = IF n \in Default THEN Variant ELSE {v \in Variant : IsSupported(n, v)}
    BY <1>0, <2>1 DEF VariantsSo
  <2>2. CASE n = m
    BY <1>0, <2>2 DEF SInv
  <2>3. CASE n # m
    <3>1. Done(5, n, "all") /\ n \in Module
      BY <1>0, <1>1, <2>3
    <3> QED
      BY <1>0, <2>3, <3>1 DEF SInv, VariantsSo
  <2> QED
    BY <2>2, <2>3
<1> QED
  BY <1>0, <1>2, <1>3 DEF SInv

LEMMA NextSInv == IInv /\ SInv /\ [Next]_vars => SInv'
<1> SUFFICES ASSUME IInv, SInv, [Next]_vars PROVE SInv'
  OBVIOUS
<1>t. pass \in 0 .. 9 /\ declared.modules \subseteq Module
  BY DeclaredMap DEF IInv
<1>1. ASSUME NEW m \in Module, DefaultDepsStage1(m) PROVE SInv'
  <2>1. UNCHANGED <<declared, deps, supported, variants, pass>> /\ pass = 1
    BY <1>1 DEF DefaultDepsStage1, Visiting
  <2> QED
    BY <2>1, SFrame DEF Done
<1>2. ASSUME NEW m \in Module, DefaultDepsStage2(m) PROVE SInv'
  <2>1. UNCHANGED <<declared, supported, variants>> /\ pass = 2 /\ pass' \in {0, 2}
    BY <1>2 DEF DefaultDepsStage2, Visiting
  <2> QED
    BY <2>1, SFrame DEF Done
<1>3. ASSUME NEW m \in Module, FeatureApplier(m) PROVE SInv'
  BY <1>3, FeatureSupported
<1>4. ASSUME NEW m \in Module, SupportedVariants(m) PROVE SInv'
  BY <1>4, DefaultsSupported
<1>5. ASSUME NEW m \in Module, Splitter(m) PROVE SInv'
  BY <1>5, SplitSupported
<1>6. ASSUME NEW m \in Module, NEW v \in Variant, TargetApplier(m, v) \/ PathMutator(m, v) \/ DefaultApplier(m, v)
      PROVE  SInv'
  <2>1. UNCHANGED <<declared, deps, supported, variants, pass>> /\ pass \in 6 .. 8
    <3>1. CASE TargetApplier(m, v)
      BY <3>1 DEF TargetApplier, Visiting
    <3>2. CASE PathMutator(m, v)
      BY <3>2 DEF PathMutator, Visiting
    <3>3. CASE DefaultApplier(m, v)
      BY <3>3 DEF DefaultApplier, Visiting
    <3> QED
      BY <1>6, <3>1, <3>2, <3>3
  <2>2. \A q \in {3, 4, 5} : \A n, w : Done(q, n, w) /\ Done(q, n, w)'
    BY <2>1 DEF Done
  <2> QED
    BY <2>1, <2>2, SFrame
<1>7. CASE NextPass
  <2>1. UNCHANGED <<declared, deps, supported, variants>>
    BY <1>7 DEF NextPass
  <2>2. \A m \in declared.modules : \A q \in {3, 4, 5} : (q = 4 => m \in User) => (Done(q, m, "all")' <=> Done(q, m, "all"))
    <3> SUFFICES ASSUME NEW m \in declared.modules, NEW q \in {3, 4, 5}, q = 4 => m \in User
                 PROVE  Done(q, m, "all")' <=> Done(q, m, "all")
      OBVIOUS
    <3>1. <<m, "all">> \in ToVisit(q)
      BY <1>t, ToVisitFacts
    <3>2. q \in 1 .. 8
      OBVIOUS
    <3> QED
      BY <1>7, <3>1, <3>2, PassDone
  <2> QED
    BY <2>1, <2>2, SFrame
<1>8. CASE UNCHANGED vars
  <2>1. UNCHANGED <<declared, deps, supported, variants, pass, visited>>
    BY <1>8 DEF vars
  <2>2. \A q, n, w : Done(q, n, w)' <=> Done(q, n, w)
    BY <2>1 DEF Done
  <2> QED
    BY <2>1, <2>2, SFrame
<1> QED
  BY <1>1, <1>2, <1>3, <1>4, <1>5, <1>6, <1>7, <1>8 DEF Next, Ended

-----------------------------------------------------------------------------
LEMMA ValuesFrame ==
  ASSUME NEW m, NEW v, ValuesSo(m, v), UNCHANGED declared, props'[m][v] = props[m][v],
         UNCHANGED deps \/ ~Done(8, m, v)',
         Done(3, m, "all")' <=> Done(3, m, "all"),
         \A q \in {6, 7, 8} : (q = 8 => m \in User) =>
           /\ Done(q, m, v) => Done(q, m, v)'
           /\ v \in variants'[m] /\ Done(q, m, v)' => Done(q, m, v) /\ v \in variants[m]
  PROVE  ValuesSo(m, v)'
<1>1. /\ \A p : AsGiven(m, p)' = AsGiven(m, p) /\ WithFeatures(m, p)' = WithFeatures(m, p)
      /\ WithTarget(m, v)' = WithTarget(m, v) /\ WithPaths(m, v)' = WithPaths(m, v)
  BY ValueFrame
<1>2. Done(8, m, v)' => WithDefaults(m, v)' = WithDefaults(m, v)
  BY ValueFrame
<1>3. /\ Done(6, m, v) => Done(6, m, v)'
      /\ v \in variants'[m] /\ Done(6, m, v)' => Done(6, m, v) /\ v \in variants[m]
      /\ Done(7, m, v) => Done(7, m, v)'
      /\ v \in variants'[m] /\ Done(7, m, v)' => Done(7, m, v) /\ v \in variants[m]
  OBVIOUS
<1>4. /\ Applied(m, v) => Applied(m, v)'
      /\ v \in variants'[m] /\ Applied(m, v)' => Applied(m, v) /\ v \in variants[m]
  BY DEF Applied
<1>5. Applied(m, v)' => Done(8, m, v)'
  BY DEF Applied
<1>6. CASE ~Done(3, m, "all")'
  <2>1. \A p \in Place : props[m][v][p] = AsGiven(m, p)
    BY <1>6 DEF ValuesSo
  <2> QED
    BY <1>1, <1>2, <1>3, <1>4, <1>5, <1>6, <2>1 DEF ValuesSo
<1>7. CASE Done(3, m, "all")'
  BY <1>1, <1>2, <1>3, <1>4, <1>5, <1>7 DEF ValuesSo
<1> QED
  BY <1>6, <1>7

LEMMA InitPInv == Init => PInv
<1> SUFFICES ASSUME Init PROVE PInv
  OBVIOUS
<1>1. /\ declared \in Declarations /\ pass = 1 /\ declared.modules \subseteq Module
      /\ props = [m \in Module |-> [v \in Variant |-> [p \in Place |-> Given(m, p, "plain")]]]
  BY DeclaredMap DEF Init
<1>2. \A q \in 3 .. 8 : \A m, v : ~Done(q, m, v)
  BY <1>1 DEF Done
<1>3. Copies
  BY <1>1 DEF Copies
<1>4. \A m \in Module, p \in Place : Given(m, p, "plain") = AsGiven(m, p)
  BY GivenStands DEF AsGiven, Part
<1>5. \A m \in declared.modules, v \in Variant : ValuesSo(m, v)
  <2> SUFFICES ASSUME NEW m \in declared.modules, NEW v \in Variant PROVE ValuesSo(m, v)
    OBVIOUS
  <2>1. \A p \in Place : props[m][v][p] = AsGiven(m, p)
    BY <1>1, <1>4
  <2>2. ~Done(3, m, "all") /\ ~Done(6, m, v) /\ ~Done(7, m, v) /\ ~Applied(m, v)
    BY <1>2 DEF Applied
  <2> QED
    BY <2>1, <2>2 DEF ValuesSo
<1> QED
  BY <1>3, <1>5 DEF PInv

\* A copy gets other values.
NewCore(m, v, x) ==
  props' = [props EXCEPT ![m] = [props[m] EXCEPT ![v] = [props[m][v] EXCEPT !["core"] = x]]]

LEMMA OneCopy ==
  ASSUME Copies, NEW m \in Module, NEW v \in Variant, NEW x, NewCore(m, v, x)
  PROVE  /\ Copies'
         /\ props'[m][v]["core"] = x /\ props'[m][v][v] = props[m][v][v]
         /\ \A n \in Module, w \in Variant : n # m \/ w # v => props'[n][w] = props[n][w]
<1>1. "core" \in Place /\ v \in Place /\ v # "core"
  BY DEF Place, Variant
<1>2. props'[m] = [props[m] EXCEPT ![v] = [props[m][v] EXCEPT !["core"] = x]] /\ DOMAIN props' = Module
      /\ \A n \in Module : n # m => props'[n] = props[n]
  BY DEF Copies, NewCore
<1>3. props'[m][v] = [props[m][v] EXCEPT !["core"] = x] /\ DOMAIN props'[m] = Variant
      /\ \A w \in Variant : w # v => props'[m][w] = props[m][w]
  BY <1>2 DEF Copies
<1>4. DOMAIN props'[m][v] = Place /\ props'[m][v]["core"] = x /\ props'[m][v][v] = props[m][v][v]
  BY <1>1, <1>3 DEF Copies
<1>5. Copies'
  <2>1. \A n \in Module : DOMAIN props'[n] = Variant
    BY <1>2, <1>3 DEF Copies
  <2>2. \A n \in Module, w \in Variant : DOMAIN props'[n][w] = Place
    <3> SUFFICES ASSUME NEW n \in Module, NEW w \in Variant PROVE DOMAIN props'[n][w] = Place
      OBVIOUS
    <3>1. DOMAIN props[n][w] = Place
      BY DEF Copies
    <3>2. CASE n # m
      BY <1>2, <3>1, <3>2
    <3>3. CASE n = m /\ w # v
      BY <1>3, <3>1, <3>3
    <3>4. CASE n = m /\ w = v
      BY <1>4, <3>4
    <3> QED
      BY <3>2, <3>3, <3>4
  <2> QED
    BY <1>2, <2>1, <2>2 DEF Copies
<1> QED
  BY <1>2, <1>3, <1>4, <1>5

\* A visit to a copy: what is left to show is what it makes of that copy.
LEMMA CopyVisited ==
  ASSUME IInv, PInv, NEW p \in {6, 7, 8}, NEW m \in Module, NEW v \in Variant, Visiting(p, m, v),
         UNCHANGED <<declared, pass, deps, variants>>,
         NewCore(m, v, props'[m][v]["core"]),
         p = 6 => props'[m][v]["core"] = WithTarget(m, v),
         p = 7 => props'[m][v]["core"] = WithPaths(m, v),
         p = 8 => props'[m][v]["core"] = WithDefaults(m, v)
  PROVE  PInv'
<1>0. Copies /\ declared.modules \subseteq Module
  BY DeclaredMap DEF PInv, IInv
<1>1. /\ Copies'
      /\ props'[m][v][v] = props[m][v][v]
      /\ \A n \in Module, w \in Variant : n # m \/ w # v => props'[n][w] = props[n][w]
  <2>1. \A y : NewCore(m, v, y) =>
          /\ Copies' /\ props'[m][v][v] = props[m][v][v]
          /\ \A n \in Module, w \in Variant : n # m \/ w # v => props'[n][w] = props[n][w]
    <3> SUFFICES ASSUME NEW y, NewCore(m, v, y)
                 PROVE  /\ Copies' /\ props'[m][v][v] = props[m][v][v]
                        /\ \A n \in Module, w \in Variant : n # m \/ w # v => props'[n][w] = props[n][w]
      OBVIOUS
    <3> QED
      BY <1>0, OneCopy
  <2> QED
    BY <2>1, Zenon
<1>2. pass = p /\ visited' = visited \cup {<<m, v>>} /\ <<m, v>> \in ToVisit(p)
  BY DEF Visiting
<1>3. m \in declared.modules /\ (p = 8 => m \in User)
  BY <1>2, ToVisitFacts
<1>4. /\ \A n : Done(3, n, "all") /\ Done(3, n, "all")'
      /\ \A q, n, w : Done(q, n, w) => Done(q, n, w)'
      /\ \A q, n, w : (n # m \/ w # v) => (Done(q, n, w)' => Done(q, n, w))
      /\ \A q \in {6, 7, 8} : Done(q, m, v)' <=> q <= p
  BY ONLY <1>2, p \in {6, 7, 8}, pass' = pass DEF Done
<1>5. ASSUME NEW n \in declared.modules, NEW w \in Variant PROVE ValuesSo(n, w)'
  <2>1. CASE n # m \/ w # v
    <3>1. ValuesSo(n, w) /\ props'[n][w] = props[n][w]
      BY <1>0, <1>1, <2>1 DEF PInv
    <3>2. \A q \in {6, 7, 8} : (Done(q, n, w) => Done(q, n, w)') /\ (Done(q, n, w)' => Done(q, n, w))
      BY <1>4, <2>1
    <3> QED
      BY <1>4, <3>1, <3>2, ValuesFrame
  <2>2. CASE n = m /\ w = v
    <3>1. props[m][v][v] = WithFeatures(m, v)
      BY <1>3, <1>4 DEF PInv, ValuesSo
    <3>2. /\ WithFeatures(m, v)' = WithFeatures(m, v)
          /\ WithTarget(m, v)' = WithTarget(m, v) /\ WithPaths(m, v)' = WithPaths(m, v)
          /\ WithDefaults(m, v)' = WithDefaults(m, v)
      BY ValueFrame
    <3>3. Done(3, m, "all")' /\ Done(6, m, v)' /\ (Done(7, m, v)' <=> p # 6) /\ (Applied(m, v)' <=> p = 8)
      BY <1>3, <1>4 DEF Applied
    <3>4. /\ p = 6 => props'[m][v]["core"] = WithTarget(m, v)
          /\ p = 7 => props'[m][v]["core"] = WithPaths(m, v)
          /\ p = 8 => props'[m][v]["core"] = WithDefaults(m, v)
      OBVIOUS
    <3>5. p = 6 \/ p = 7 \/ p = 8
      OBVIOUS
    <3>6. ValuesSo(m, v)'
      BY ONLY <1>1, <3>1, <3>2, <3>3, <3>4, <3>5 DEF ValuesSo
    <3> QED
      BY <2>2, <3>6
  <2> QED
    BY <2>1, <2>2
<1> QED
  BY <1>1, <1>5 DEF PInv

LEMMA TargetValues ==
  ASSUME IInv, PInv, NEW m \in Module, NEW v \in Variant, TargetApplier(m, v)
  PROVE  PInv'
<1> DEFINE x == AppendProperties(props[m][v]["core"], props[m][v][v])
<1>1. /\ Visiting(6, m, v) /\ UNCHANGED <<declared, pass, deps, variants>>
      /\ NewCore(m, v, x)
  BY DEF TargetApplier, NewCore
<1>2. m \in declared.modules /\ ~Done(6, m, v) /\ Done(3, m, "all")
  <2>1. pass = 6 /\ <<m, v>> \in ToVisit(6) /\ <<m, v>> \notin visited
    BY <1>1 DEF Visiting
  <2>2. m \in declared.modules
    BY <2>1, ToVisitFacts
  <2> QED
    BY <2>1, <2>2 DEF Done
<1>3. props[m][v]["core"] = WithFeatures(m, "core") /\ props[m][v][v] = WithFeatures(m, v)
  BY <1>2 DEF PInv, ValuesSo
<1>4. x = WithTarget(m, v)
  <2>1. AppendProperties(WithFeatures(m, "core"), WithFeatures(m, v)) = WithTarget(m, v)
    BY OwnFacts DEF WithFeatures, WithTarget, IInv
  <2> QED
    BY <1>3, <2>1
<1> HIDE DEF x
<1>q. props'[m][v]["core"] = x
  <2>1. \A y : NewCore(m, v, y) => props'[m][v]["core"] = y
    BY OneCopy, Zenon DEF PInv
  <2> QED
    BY <1>1, <2>1, Zenon
<1> QED
  BY <1>1, <1>4, <1>q, CopyVisited

LEMMA PathValues ==
  ASSUME IInv, PInv, NEW m \in Module, NEW v \in Variant, PathMutator(m, v)
  PROVE  PInv'
<1> DEFINE x == Rooting(props[m][v]["core"], m)
<1>1. /\ Visiting(7, m, v) /\ UNCHANGED <<declared, pass, deps, variants>>
      /\ NewCore(m, v, x)
  BY DEF PathMutator, NewCore, Rooting, Rooted
<1>2. m \in declared.modules /\ v \in variants[m] /\ ~Done(7, m, v) /\ Done(6, m, v)
  <2>1. pass = 7 /\ <<m, v>> \in ToVisit(7) /\ <<m, v>> \notin visited
    BY <1>1 DEF Visiting
  <2>2. m \in declared.modules /\ v \in variants[m]
    BY <2>1, ToVisitFacts
  <2> QED
    BY <2>1, <2>2 DEF Done
<1>3. props[m][v]["core"] = WithTarget(m, v)
  BY <1>2 DEF PInv, ValuesSo
<1>4. x = WithPaths(m, v)
  <2>1. Own(m, v) \in Seq(SlotsOf(m))
    BY OwnFacts DEF IInv
  <2>2. Rooting(Stands(Own(m, v), FALSE), m) = Stands(Own(m, v), TRUE)
    BY <2>1, RootingStands
  <2> QED
    BY <1>3, <2>2 DEF WithTarget, WithPaths
<1> HIDE DEF x
<1>q. props'[m][v]["core"] = x
  <2>1. \A y : NewCore(m, v, y) => props'[m][v]["core"] = y
    BY OneCopy, Zenon DEF PInv
  <2> QED
    BY <1>1, <2>1, Zenon
<1> QED
  BY <1>1, <1>4, <1>q, CopyVisited

LEMMA DefaultValues ==
  ASSUME IInv, SInv, PInv, NEW m \in Module, NEW v \in Variant, DefaultApplier(m, v)
  PROVE  PInv'
<1> DEFINE list == deps[m]
           srcs == [i \in DOMAIN list |-> props[list[i]][v]["core"]]
           x == PrependProperties(props[m][v]["core"], AppendAll(Nothing, srcs))
<1>1. /\ Visiting(8, m, v) /\ UNCHANGED <<declared, pass, deps, variants>>
      /\ NewCore(m, v, x)
  BY DEF DefaultApplier, NewCore, AccumulatedProps
<1>2. /\ m \in declared.modules /\ m \in User /\ v \in variants[m] /\ pass = 8
      /\ ~Done(8, m, v) /\ \A n, w : Done(7, n, w) /\ Done(5, n, w)
  <2>1. pass = 8 /\ <<m, v>> \in ToVisit(8) /\ <<m, v>> \notin visited
    BY <1>1 DEF Visiting
  <2>2. m \in declared.modules /\ v \in variants[m] /\ m \in User
    BY <2>1, ToVisitFacts
  <2> QED
    BY <2>1, <2>2 DEF Done
<1>3. props[m][v]["core"] = Stands(Own(m, v), TRUE)
  BY <1>2 DEF PInv, ValuesSo, Applied, WithPaths
<1>4. list \in Seq(Default) /\ DOMAIN list = 1 .. Len(list)
      /\ \A i \in 1 .. Len(list) : list[i] \in Default /\ list[i] \in declared.modules
  <2>1. list \in Seq(Default) /\ \A i \in 1 .. Len(list) : list[i] \in Default /\ list[i] \in declared.modules
    BY <1>2, DepsFacts
  <2> HIDE DEF list
  <2> QED
    BY <2>1
<1> HIDE DEF list
<1>5. \A d \in Default : d \in declared.modules => props[d][v]["core"] = Stands(Own(d, v), TRUE)
  <2> SUFFICES ASSUME NEW d \in Default, d \in declared.modules PROVE props[d][v]["core"] = Stands(Own(d, v), TRUE)
    OBVIOUS
  <2>1. d \notin User
    BY DeclarationAssumption
  <2>2. v \in variants[d]
    BY <1>2 DEF SInv, VariantsSo
  <2> QED
    BY <1>2, <2>1, <2>2 DEF PInv, ValuesSo, Applied, WithPaths
<1>6. \A i \in 1 .. Len(list) : srcs[i] = Stands(Own(list[i], v), TRUE)
  BY <1>4, <1>5
<1>7. srcs = [i \in DOMAIN list |-> srcs[i]]
  OBVIOUS
<1> HIDE DEF srcs
<1>8. x = WithDefaults(m, v)
  <2>1. declared \in Declarations
    BY DEF IInv
  <2>2. PrependProperties(Stands(Own(m, v), TRUE), AppendAll(Nothing, srcs)) = Stands(Pooled(Append(list, m), v), TRUE)
    BY ONLY <1>4, <1>6, <1>7, <2>1, m \in Module, v \in Variant, PooledStands
  <2> QED
    BY <1>3, <2>2 DEF WithDefaults, list
<1> HIDE DEF x
<1>q. props'[m][v]["core"] = x
  <2>1. \A y : NewCore(m, v, y) => props'[m][v]["core"] = y
    BY OneCopy, Zenon DEF PInv
  <2> QED
    BY <1>1, <2>1, Zenon
<1> QED
  BY <1>1, <1>8, <1>q, CopyVisited

LEMMA FeatureValues ==
  ASSUME IInv, PInv, NEW m \in Module, FeatureApplier(m)
  PROVE  PInv'
<1>0. /\ declared \in Declarations /\ UNCHANGED <<declared, deps, variants, pass>>
      /\ Visiting(3, m, "all") /\ declared.modules \subseteq Module
      /\ props' = [props EXCEPT ![m] = [v \in Variant |-> [p \in Place |-> AppendProps(m, v, p)]]]
      /\ Copies
  BY DeclaredMap DEF FeatureApplier, IInv, PInv
<1>1. pass = 3 /\ visited' = visited \cup {<<m, "all">>} /\ <<m, "all">> \in ToVisit(3) /\ <<m, "all">> \notin visited
  BY <1>0 DEF Visiting
<1>2. /\ \A n : Done(3, n, "all")' <=> Done(3, n, "all") \/ n = m
      /\ ~Done(3, m, "all")
      /\ \A q \in {6, 7, 8} : \A n, w : ~Done(q, n, w) /\ ~Done(q, n, w)'
  BY ONLY <1>0, <1>1 DEF Done
<1>3. m \in declared.modules
  BY <1>1, ToVisitFacts
<1>4. \A n \in Module : n # m => props'[n] = props[n]
  BY <1>0 DEF Copies
<1>5. \A v \in Variant, p \in Place : props'[m][v][p] = AppendProps(m, v, p)
  BY <1>0 DEF Copies
<1>6. Copies'
  BY <1>0 DEF Copies
<1>7. \A v \in Variant, p \in Place : AppendProps(m, v, p) = WithFeatures(m, p)
  <2> SUFFICES ASSUME NEW v \in Variant, NEW p \in Place PROVE AppendProps(m, v, p) = WithFeatures(m, p)
    OBVIOUS
  <2>1. props[m][v][p] = AsGiven(m, p)
    BY <1>2, <1>3 DEF PInv, ValuesSo
  <2>2. AsGiven(m, p) = Given(m, p, "plain")
    BY GivenStands DEF AsGiven, Part
  <2>3. AppendAll(Given(m, p, "plain"), [i \in DOMAIN EnabledFeatures |-> Given(m, p, EnabledFeatures[i])])
          = WithFeatures(m, p)
    BY <1>0, PlacesFacts DEF WithFeatures
  <2> QED
    BY <2>1, <2>2, <2>3 DEF AppendProps
<1>8. ASSUME NEW n \in declared.modules, NEW w \in Variant PROVE ValuesSo(n, w)'
  <2>1. CASE n # m
    <3>1. ValuesSo(n, w) /\ props'[n][w] = props[n][w]
      BY <1>0, <1>4, <2>1 DEF PInv
    <3>2. (Done(3, n, "all")' <=> Done(3, n, "all")) /\ UNCHANGED <<declared, deps>>
      BY <1>0, <1>2, <2>1
    <3>3. \A q \in {6, 7, 8} : ~Done(q, n, w) /\ ~Done(q, n, w)'
      BY <1>2
    <3> QED
      BY <3>1, <3>2, <3>3, ValuesFrame
  <2>2. CASE n = m
    <3>1. "core" \in Place /\ w \in Place
      BY DEF Place
    <3>2. props'[m][w][w] = WithFeatures(m, w) /\ props'[m][w]["core"] = WithFeatures(m, "core")
      BY <1>5, <1>7, <3>1
    <3>3. \A p : WithFeatures(m, p)' = WithFeatures(m, p)
      BY <1>0, ValueFrame
    <3>4. Done(3, m, "all")' /\ ~Done(6, m, w)' /\ ~Done(7, m, w)' /\ ~Applied(m, w)'
      BY <1>2 DEF Applied
    <3>5. ValuesSo(m, w)'
      BY ONLY <3>2, <3>3, <3>4 DEF ValuesSo
    <3> QED
      BY <2>2, <3>5
  <2> QED
    BY <2>1, <2>2
<1> QED
  BY <1>0, <1>6, <1>8 DEF PInv

LEMMA NextPInv == IInv /\ SInv /\ PInv /\ [Next]_vars => PInv'
<1> SUFFICES ASSUME IInv, SInv, PInv, [Next]_vars PROVE PInv'
  OBVIOUS
<1>t. pass \in 0 .. 9 /\ declared.modules \subseteq Module /\ \A n \in declared.modules, w \in Variant : ValuesSo(n, w)
  BY DeclaredMap DEF IInv, PInv
\* Passes that touch no values.
<1>a. ASSUME UNCHANGED <<declared, props>>, UNCHANGED deps \/ pass \in {1, 2}, pass = 1 \/ pass = 2 \/ pass = 4 \/ pass = 5,
             pass' = pass \/ (pass = 2 /\ pass' = 0), pass = 4 \/ pass = 5 \/ UNCHANGED variants
      PROVE  PInv'
  <2>1. \A q \in {6, 7, 8} : \A n, w : ~Done(q, n, w) /\ ~Done(q, n, w)'
    BY ONLY <1>a DEF Done
  <2>2. \A n : Done(3, n, "all")' <=> Done(3, n, "all")
    BY ONLY <1>a DEF Done
  <2>3. ASSUME NEW n \in declared.modules, NEW w \in Variant PROVE ValuesSo(n, w)'
    <3>1. ValuesSo(n, w) /\ props'[n][w] = props[n][w] /\ UNCHANGED declared
      BY <1>t, <1>a
    <3>2. ~Done(8, n, w)' /\ (Done(3, n, "all")' <=> Done(3, n, "all"))
      BY <2>1, <2>2
    <3>3. \A q \in {6, 7, 8} : ~Done(q, n, w) /\ ~Done(q, n, w)'
      BY <2>1
    <3> QED
      BY ONLY <3>1, <3>2, <3>3, ValuesFrame
  <2> QED
    BY <1>a, <2>3 DEF PInv, Copies
<1>1. ASSUME NEW m \in Module, DefaultDepsStage1(m) PROVE PInv'
  BY <1>1, <1>a DEF DefaultDepsStage1, Visiting
<1>2. ASSUME NEW m \in Module, DefaultDepsStage2(m) PROVE PInv'
  BY <1>2, <1>a DEF DefaultDepsStage2, Visiting
<1>3. ASSUME NEW m \in Module, FeatureApplier(m) PROVE PInv'
  BY <1>3, FeatureValues
<1>4. ASSUME NEW m \in Module, SupportedVariants(m) PROVE PInv'
  BY <1>4, <1>a DEF SupportedVariants, Visiting
<1>5. ASSUME NEW m \in Module, Splitter(m) PROVE PInv'
  BY <1>5, <1>a DEF Splitter, Visiting
<1>6. ASSUME NEW m \in Module, NEW v \in Variant, TargetApplier(m, v) PROVE PInv'
  BY <1>6, TargetValues
<1>7. ASSUME NEW m \in Module, NEW v \in Variant, PathMutator(m, v) PROVE PInv'
  BY <1>7, PathValues
<1>8. ASSUME NEW m \in Module, NEW v \in Variant, DefaultApplier(m, v) PROVE PInv'
  BY <1>8, DefaultValues
<1>9. CASE NextPass
  <2>1. UNCHANGED <<declared, deps, variants, props>>
    BY <1>9 DEF NextPass
  <2>2. ASSUME NEW n \in declared.modules, NEW w \in Variant PROVE ValuesSo(n, w)'
    <3>0. n \in Module /\ ValuesSo(n, w)
      BY <1>t
    <3>1. \A q \in 1 .. 8 : \A u :
         /\ Done(q, n, u) => Done(q, n, u)'
         /\ Done(q, n, u)' => Done(q, n, u) \/ <<n, u>> \notin ToVisit(q)
      BY <1>9, PassDone
    <3>2. <<n, "all">> \in ToVisit(3)
      BY <3>0, ToVisitFacts
    <3>3. \A q \in {6, 7, 8} : (q = 8 => n \in User) /\ w \in variants[n] => <<n, w>> \in ToVisit(q)
      BY <3>0, ToVisitFacts
    <3>4. Done(3, n, "all")' <=> Done(3, n, "all")
      BY <3>1, <3>2
    <3>5. \A q \in {6, 7, 8} : (q = 8 => n \in User) =>
            /\ Done(q, n, w) => Done(q, n, w)'
            /\ w \in variants'[n] /\ Done(q, n, w)' => Done(q, n, w) /\ w \in variants[n]
      BY <2>1, <3>1, <3>3
    <3>6. UNCHANGED declared /\ UNCHANGED deps /\ props'[n][w] = props[n][w]
      BY <2>1
    <3> QED
      BY ONLY <3>0, <3>4, <3>5, <3>6, ValuesFrame
  <2> QED
    BY <2>1, <2>2 DEF PInv, Copies
<1>10. CASE UNCHANGED vars
  <2>1. UNCHANGED <<declared, deps, variants, props, pass, visited>>
    BY <1>10 DEF vars
  <2>2. \A q, n, w : Done(q, n, w)' <=> Done(q, n, w)
    BY <2>1 DEF Done
  <2>3. ASSUME NEW n \in declared.modules, NEW w \in Variant PROVE ValuesSo(n, w)'
    <3>1. ValuesSo(n, w) /\ UNCHANGED declared /\ UNCHANGED deps /\ props'[n][w] = props[n][w] /\ variants' = variants
      BY <1>t, <2>1
    <3> QED
      BY ONLY <2>2, <3>1, ValuesFrame
  <2> QED
    BY <2>1, <2>3 DEF PInv, Copies
<1> QED
  BY <1>1, <1>2, <1>3, <1>4, <1>5, <1>6, <1>7, <1>8, <1>9, <1>10 DEF Next, Ended

\* The places that count, of all.
LEMMA LevelsFacts ==
  ASSUME IInv, NEW m \in User, m \in declared.modules, pass > 2, NEW v \in Variant
  PROVE  /\ Levels(m, v) = Only(Pooled(Append(deps[m], m), v), Set)
         /\ Levels(m, v) \in Seq(Slots)
<1> DEFINE all == Append(deps[m], m)
           each == [i \in DOMAIN all |-> Own(all[i], v)]
           pool == Pooled(all, v)
<1>1. m \in Module /\ declared \in Declarations
  BY DEF Module, IInv
<1>2. all \in Seq(Module)
  <2>1. deps[m] \in Seq(Default)
    BY DepsFacts
  <2>2. Default \subseteq Module
    BY DEF Module
  <2> DEFINE list == deps[m]
  <2> HIDE DEF list
  <2>3. list \in Seq(Module)
    BY <2>1, <2>2 DEF list
  <2>4. Append(list, m) \in Seq(Module)
    BY <1>1, <2>3
  <2> QED
    BY <2>4 DEF list
<1> HIDE DEF all
<1>3. \A d \in Module : Own(d, v) \in Seq(Slots)
  BY <1>1, OwnFacts
<1>4. each \in Seq(Seq(Slots))
  <2>1. \A i \in DOMAIN all : Own(all[i], v) \in Seq(Slots)
    BY <1>2, <1>3
  <2>2. DOMAIN all = 1 .. Len(all) /\ Len(all) \in Nat
    BY <1>2
  <2> DEFINE R == Seq(Slots)
             n == Len(all)
  <2>3. each \in [1 .. n -> R] /\ n \in Nat
    BY <2>1, <2>2
  <2> HIDE DEF R, n, each
  <2>4. each \in Seq(R)
    BY <2>3
  <2> QED
    BY <2>4 DEF R
<1>5. pool \in Seq(Slots)
  <2> HIDE DEF each
  <2>1. Joint(each) \in Seq(Slots)
    BY <1>4, JointAppend
  <2> QED
    BY <2>1 DEF Pooled, each
<1>6. Levels(m, v) = Only(pool, Set)
  BY DEF Levels, Pooled, Own, all
<1>7. \A S : Only(pool, S) \in Seq(Slots)
  <2> HIDE DEF pool
  <2> QED
    BY <1>5, OnlyConcat, Zenon
<1>8. Only(pool, Set) \in Seq(Slots)
  BY <1>7, Zenon
<1> QED
  BY <1>6, <1>8 DEF all

LEMMA ValuesAtEnd ==
  ASSUME IInv, PInv, NEW m \in Module, NEW v \in Variant, Final(m, v)
  PROVE  props[m][v]["core"] = Prop(Levels(m, v), TRUE) /\ Levels(m, v) \in Seq(Slots)
<1>1. m \in User /\ m \in declared.modules /\ v \in variants[m] /\ pass = 9
  BY DEF Final
<1>2. Done(3, m, "all") /\ Done(6, m, v) /\ Done(7, m, v) /\ Applied(m, v)
  BY <1>1 DEF Done, Applied
<1>3. props[m][v]["core"] = WithDefaults(m, v)
  BY <1>1, <1>2 DEF PInv, ValuesSo
<1>4. /\ Levels(m, v) = Only(Pooled(Append(deps[m], m), v), Set)
      /\ Levels(m, v) \in Seq(Slots)
  BY <1>1, LevelsFacts
<1> QED
  BY <1>3, <1>4 DEF WithDefaults, Stands

LEMMA VariantsAtEnd ==
  ASSUME IInv, SInv
  PROVE  VariantsAsDeclared
<1> SUFFICES ASSUME NEW m \in User, m \in declared.modules, pass > 5
             PROVE  variants[m] =
                      {v \in Variant :
                         LET all == Append(deps[m], m)
                             said == Only([i \in DOMAIN all |-> Said(all[i], v)], Tri \ {Unset})
                         IN  IF said = <<>> THEN v = "target" ELSE Last(said) = "true"}
  BY DEF VariantsAsDeclared
<1> DEFINE all == Append(deps[m], m)
           each(v) == [i \in DOMAIN all |-> Said(all[i], v)]
           said(v) == Only(each(v), Tri \ {Unset})
           Chosen(v) == IF said(v) = <<>> THEN v = "target" ELSE Last(said(v)) = "true"
<1>0. m \in Module /\ m \notin Default /\ declared \in Declarations /\ pass \in 0 .. 9
  BY DeclarationAssumption DEF Module, IInv
<1>1. Done(3, m, "all") /\ Done(4, m, "all") /\ Done(5, m, "all")
  BY <1>0 DEF Done
<1>2. variants[m] = {v \in Variant : IsSupported(m, v)}
  BY <1>0, <1>1 DEF SInv, VariantsSo
<1>3. \A v \in Variant : supported[m][v] = Nearest(m, v)
  BY <1>1 DEF SInv, SupportedSo
<1>4. all \in Seq(Module)
  <2>1. deps[m] \in Seq(Default)
    BY <1>0, DepsFacts
  <2>2. Default \subseteq Module
    BY DEF Module
  <2> DEFINE list == deps[m]
  <2> HIDE DEF list
  <2>3. list \in Seq(Module)
    BY <2>1, <2>2 DEF list
  <2>4. Append(list, m) \in Seq(Module)
    BY <1>0, <2>3
  <2> QED
    BY <2>4 DEF list
<1> HIDE DEF all
<1>5. ASSUME NEW v \in Variant PROVE IsSupported(m, v) <=> Chosen(v)
  <2> DEFINE e == each(v)
  <2>1. e \in Seq(Tri)
    <3>1. \A d \in Module : Said(d, v) \in Tri
      BY <1>0, SaidFacts
    <3>2. DOMAIN all = 1 .. Len(all) /\ Len(all) \in Nat /\ \A i \in DOMAIN all : all[i] \in Module
      BY <1>4
    <3> DEFINE n == Len(all)
    <3>3. e \in [1 .. n -> Tri] /\ n \in Nat
      BY <3>1, <3>2
    <3> HIDE DEF n, e
    <3> QED
      BY <3>3
  <2>2. Nearest(m, v) = LastSet(e)
    BY DEF Nearest, all
  <2> HIDE DEF e
  <2>3. Only(e, Tri \ {Unset}) # <<>> => LastSet(e) # Unset
    BY <2>1, LastSetFacts
  <2>4. LastSet(e) = IF said(v) = <<>> THEN Unset ELSE Last(said(v))
    BY DEF LastSet, e
  <2>5. said(v) # <<>> => Last(said(v)) # Unset
    BY <2>3, <2>4 DEF e
  <2>6. IsSupported(m, v) <=> LastSet(e) = "true" \/ (v = "target" /\ LastSet(e) = Unset)
    BY <1>3, <2>2 DEF IsSupported
  <2> HIDE DEF said
  <2>7. Unset # "true"
    BY DEF Unset
  <2> QED
    BY <2>4, <2>5, <2>6, <2>7
<1>6. variants[m] = {v \in Variant : Chosen(v)}
  <2> HIDE DEF Chosen
  <2> QED
    BY <1>2, <1>5
<1> QED
  BY <1>6 DEF all

(* Whatever the order of the visits of the eight passes, and whatever build*)
(* definitions set where: every value, include path and variant of a module*)
(* is that of the nearest, the module overriding its defaults, host and    *)
(* target what holds for both, a feature what holds without.               *)
THEOREM NearestWins == Spec => []NearestDecides
<1>1. Init => IInv /\ SInv /\ PInv
  BY InitIInv, InitSInv, InitPInv
<1>2. (IInv /\ SInv /\ PInv) /\ [Next]_vars => (IInv /\ SInv /\ PInv)'
  BY NextIInv, NextSInv, NextPInv
<1>3. IInv /\ SInv /\ PInv => NearestDecides
  <2> SUFFICES ASSUME IInv, SInv, PInv PROVE NearestDecides
    OBVIOUS
  <2>1. SpecificOverrides
    <3> SUFFICES ASSUME NEW m \in Module, NEW v \in Variant, Final(m, v)
                 PROVE  /\ props[m][v]["core"].flags = Levels(m, v)
                        /\ props[m][v]["core"].enable = IF Levels(m, v) = <<>> THEN <<>> ELSE <<Last(Levels(m, v))>>
      BY DEF SpecificOverrides
    <3>1. props[m][v]["core"] = Prop(Levels(m, v), TRUE)
      BY ValuesAtEnd
    <3> QED
      BY ONLY <3>1 DEF Prop
  <2>2. DirsOfTheirOwners
    <3> SUFFICES ASSUME NEW m \in Module, NEW v \in Variant, Final(m, v)
                 PROVE  props[m][v]["core"].dirs =
                          Reverse([i \in DOMAIN Levels(m, v) |->
                                     [value |-> Levels(m, v)[i], prefix |-> <<Levels(m, v)[i][1]>>]])
      BY DEF DirsOfTheirOwners
    <3>0. props[m][v]["core"] = Prop(Levels(m, v), TRUE)
      BY ValuesAtEnd
    <3>1. props[m][v]["core"].dirs = Dirs(Levels(m, v), TRUE)
      BY ONLY <3>0 DEF Prop
    <3> QED
      BY <3>1 DEF Dirs, Dir
  <2>3. VariantsAsDeclared
    BY VariantsAtEnd
  <2> QED
    BY <2>1, <2>2, <2>3 DEF NearestDecides
<1> QED
  BY <1>1, <1>2, <1>3, PTL DEF Spec
=============================================================================

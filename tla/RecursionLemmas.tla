---------------------------- MODULE RecursionLemmas ----------------------------
(***************************************************************************)
(* Induction over numbers and functions defined by recursion over them, in *)
(* the form of statements about sets and functions: the library's theorems *)
(* about them take operators, which the provers here do not instantiate.   *)
(***************************************************************************)
EXTENDS Integers, WellFoundedInduction, TLAPS

\* A set that holds 0 and the successor of each of its numbers holds all.
LEMMA NatSetInduction ==
  ASSUME NEW S, 0 \in S, \A n \in Nat : n \in S => n + 1 \in S
  PROVE  \A n \in Nat : n \in S
<1> SUFFICES ASSUME Nat \ S # {} PROVE FALSE
  OBVIOUS
<1> DEFINE R == OpToRel(<, Nat)
<1>1. IsWellFoundedOn(R, Nat)
  BY NatLessThanWellFounded
<1>2. PICK x \in Nat \ S : \A y \in Nat \ S : <<y, x>> \notin R
  <2> HIDE DEF R
  <2> QED
    BY <1>1, WFMin
<1>3. \A y \in Nat \ S : ~(y < x)
  BY <1>2 DEF OpToRel
<1>4. x # 0 /\ x - 1 \in Nat /\ x - 1 < x
  OBVIOUS
<1>5. x - 1 \in S
  BY <1>3, <1>4
<1> QED
  BY <1>4, <1>5

\* The same up to a bound.
LEMMA IntervalInduction ==
  ASSUME NEW n \in Nat, NEW S, 0 \in S, \A i \in 1 .. n : i - 1 \in S => i \in S
  PROVE  \A i \in 0 .. n : i \in S
<1> DEFINE T == {i \in Nat : i <= n => i \in S}
<1>1. 0 \in T
  OBVIOUS
<1>2. ASSUME NEW i \in Nat, i \in T PROVE i + 1 \in T
  <2>1. CASE i + 1 <= n
    <3>1. i \in S /\ i + 1 \in 1 .. n /\ (i + 1) - 1 = i
      BY <1>2, <2>1
    <3> QED
      BY <3>1
  <2> QED
    BY <2>1
<1> HIDE DEF T
<1>3. \A i \in Nat : i \in T
  BY <1>1, <1>2, NatSetInduction
<1> QED
  BY <1>3 DEF T

\* The sequences of values from a, each by F from its place and the one before.
Runs(n, A, a, F) ==
    {f \in [0 .. n -> A] : f[0] = a /\ \A i \in 1 .. n : f[i] = F[<<i, f[i - 1]>>]}

LEMMA RunExists ==
  ASSUME NEW n \in Nat, NEW A, NEW a \in A, NEW F \in [(1 .. n) \X A -> A]
  PROVE  Runs(n, A, a, F) # {}
<1> DEFINE Steps(k, f) == f[0] = a /\ \A i \in 1 .. k : f[i] = F[<<i, f[i - 1]>>]
           S == {k \in Nat : \E f \in [0 .. k -> A] : Steps(k, f)}
<1>1. 0 \in S
  <2> DEFINE g == [i \in 0 .. 0 |-> a]
  <2>1. g \in [0 .. 0 -> A] /\ g[0] = a
    OBVIOUS
  <2>2. Steps(0, g)
    BY <2>1
  <2> HIDE DEF g, Steps
  <2> QED
    BY <2>1, <2>2
<1>2. ASSUME NEW k \in 1 .. n, k - 1 \in S PROVE k \in S
  <2>1. PICK f \in [0 .. k - 1 -> A] : Steps(k - 1, f)
    BY <1>2
  <2> DEFINE h == [i \in 0 .. k |-> IF i = k THEN F[<<k, f[k - 1]>>] ELSE f[i]]
  <2>2. F[<<k, f[k - 1]>>] \in A
    BY <2>1
  <2>3. h \in [0 .. k -> A]
    BY <2>1, <2>2
  <2>4. (\A i \in 0 .. k - 1 : h[i] = f[i]) /\ h[k] = F[<<k, f[k - 1]>>]
    OBVIOUS
  <2>0. k \in Nat
    OBVIOUS
  <2> HIDE DEF h
  <2>5. h[0] = a
    BY <2>1, <2>4
  <2>6. ASSUME NEW i \in 1 .. k PROVE h[i] = F[<<i, h[i - 1]>>]
    <3>1. i - 1 \in 0 .. k - 1 /\ h[i - 1] = f[i - 1]
      BY <2>4
    <3>2. CASE i = k
      BY <2>4, <3>1, <3>2
    <3>3. CASE i # k
      <4>1. i \in 1 .. k - 1 /\ i \in 0 .. k - 1
        BY <3>3
      <4>2. h[i] = f[i]
        BY <2>4, <4>1
      <4>3. f[i] = F[<<i, f[i - 1]>>]
        BY <2>1, <4>1
      <4> QED
        BY <3>1, <4>2, <4>3
    <3> QED
      BY <3>2, <3>3
  <2>7. Steps(k, h)
    BY <2>5, <2>6
  <2> HIDE DEF Steps
  <2> QED
    BY <2>0, <2>3, <2>7
<1> HIDE DEF S
<1>3. n \in S
  BY <1>1, <1>2, IntervalInduction
<1> QED
  BY <1>3 DEF S, Runs

\* A value that depends on those of lower rank only.
Recursive(C, A, rank, F) ==
    \A c \in C : \A f, g \in [C -> A] :
        (\A b \in C : rank[b] < rank[c] => f[b] = g[b]) => F[<<c, f>>] = F[<<c, g>>]

\* What gives each its value from those of the others.
Solutions(C, A, F) == {f \in [C -> A] : \A c \in C : f[c] = F[<<c, f>>]}

\* A recursion that goes down in rank has a solution.
LEMMA RecursionExists ==
  ASSUME NEW C, NEW A, NEW a \in A, NEW N \in Nat, NEW rank \in [C -> 0 .. N],
         NEW F \in [C \X [C -> A] -> A], Recursive(C, A, rank, F)
  PROVE  Solutions(C, A, F) # {}
<1> DEFINE T == [C -> A]
           K == N + 1
           start == [c \in C |-> a]
           Next1 == [p \in (1 .. K) \X T |-> [c \in C |-> F[<<c, p[2]>>]]]
<1>0. K \in Nat /\ \A c \in C : rank[c] \in Nat /\ rank[c] < K
  OBVIOUS
<1> HIDE DEF K
<1>1. start \in T
  OBVIOUS
<1>2. Next1 \in [(1 .. K) \X T -> T]
  <2>1. ASSUME NEW f \in T PROVE [c \in C |-> F[<<c, f>>]] \in T
    <3>1. \A c \in C : <<c, f>> \in C \X T
      OBVIOUS
    <3>2. \A c \in C : F[<<c, f>>] \in A
      BY <3>1
    <3> QED
      BY <3>2
  <2> HIDE DEF T
  <2> QED
    BY <2>1
<1>r. Runs(K, T, start, Next1) # {}
  <2> HIDE DEF T, start, Next1
  <2>1. K \in Nat
    BY <1>0
  <2> QED
    BY ONLY <1>1, <1>2, <2>1, RunExists
<1>3. PICK W : W \in Runs(K, T, start, Next1)
  <2> HIDE DEF T, start, Next1
  <2> QED
    BY ONLY <1>r
<1>4. /\ \A i \in 0 .. K : W[i] \in T
      /\ \A i \in 1 .. K : \A c \in C : W[i][c] = F[<<c, W[i - 1]>>]
  <2>1. W \in [0 .. K -> T] /\ \A i \in 1 .. K : W[i] = Next1[<<i, W[i - 1]>>]
    <3> HIDE DEF T, start, Next1
    <3> QED
      BY <1>3, Zenon DEF Runs
  <2>2. \A i \in 1 .. K : i - 1 \in 0 .. K
    BY <1>0
  <2> HIDE DEF T
  <2>3. ASSUME NEW i \in 1 .. K PROVE W[i] = [c \in C |-> F[<<c, W[i - 1]>>]]
    <3>1. <<i, W[i - 1]>> \in (1 .. K) \X T
      BY <2>1, <2>2
    <3> QED
      BY <2>1, <3>1
  <2>4. ASSUME NEW i \in 1 .. K, NEW c \in C PROVE W[i][c] = F[<<c, W[i - 1]>>]
    BY <2>3
  <2>5. \A i \in 0 .. K : W[i] \in T
    BY <2>1
  <2> QED
    BY <2>4, <2>5
<1> HIDE DEF T, Next1, start
<1> DEFINE S == {i \in 0 .. K : i # 0 => \A c \in C : rank[c] < i - 1 => W[i][c] = W[i - 1][c]}
<1>5. 0 \in S
  BY <1>0
<1>6. ASSUME NEW i \in 1 .. K, i - 1 \in S PROVE i \in S
  <2> SUFFICES ASSUME NEW c \in C, rank[c] < i - 1 PROVE W[i][c] = W[i - 1][c]
    BY <1>0
  <2>0. rank[c] \in Nat
    BY <1>0
  <2>1. i - 1 \in 1 .. K /\ i - 1 \in 0 .. K /\ i - 2 \in 0 .. K /\ (i - 1) - 1 = i - 2
    BY <1>0, <2>0
  <2>2. W[i][c] = F[<<c, W[i - 1]>>] /\ W[i - 1][c] = F[<<c, W[i - 2]>>]
    BY <1>4, <2>1
  <2>3. ASSUME NEW b \in C, rank[b] < rank[c] PROVE W[i - 1][b] = W[i - 2][b]
    <3>1. rank[b] \in Nat
      BY <1>0
    <3>2. rank[b] < (i - 1) - 1
      BY <2>0, <2>3, <3>1
    <3> QED
      BY <1>6, <2>1, <3>2
  <2>4. W[i - 1] \in T /\ W[i - 2] \in T
    BY <1>4, <2>1
  <2>5. F[<<c, W[i - 1]>>] = F[<<c, W[i - 2]>>]
    BY <2>3, <2>4 DEF Recursive, T
  <2> QED
    BY <2>2, <2>5
<1>7. \A i \in 0 .. K : i \in S
  <2> HIDE DEF S
  <2> QED
    BY <1>0, <1>5, <1>6, IntervalInduction
<1>9. /\ W[K] \in T
      /\ \A c \in C : W[K][c] = F[<<c, W[K]>>]
  <2>1. K \in 1 .. K /\ K \in 0 .. K /\ K - 1 \in 0 .. K
    BY <1>0 DEF K
  <2>2. W[K] \in T /\ W[K - 1] \in T
    BY <1>4, <2>1
  <2>3. ASSUME NEW c \in C PROVE W[K][c] = F[<<c, W[K]>>]
    <3>1. \A b \in C : rank[b] < rank[c] => W[K - 1][b] = W[K][b]
      <4> SUFFICES ASSUME NEW b \in C, rank[b] < rank[c] PROVE W[K - 1][b] = W[K][b]
        OBVIOUS
      <4>1. rank[b] \in Nat /\ rank[c] \in Nat /\ rank[c] < K
        BY <1>0
      <4>2. rank[b] < K - 1
        BY <1>0, <4>1
      <4>3. K \in S
        BY <1>7, <2>1
      <4> QED
        BY <2>1, <4>2, <4>3
    <3>2. F[<<c, W[K - 1]>>] = F[<<c, W[K]>>]
      BY <2>2, <3>1 DEF Recursive, T
    <3>3. W[K][c] = F[<<c, W[K - 1]>>]
      BY <1>4, <2>1
    <3> QED
      BY <3>2, <3>3
  <2> QED
    BY <2>2, <2>3
<1> QED
  BY <1>9 DEF Solutions, T
=============================================================================

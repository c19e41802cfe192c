----------------------------- MODULE Recursion -----------------------------
(***************************************************************************)
(* Induction on the natural numbers and recursive functions on them, for   *)
(* the proofs about loops of the source that the modules write as          *)
(* recursive functions over the characters or bytes they have read.        *)
(*                                                                         *)
(* Both facts are stated with sets and functions: the library's take       *)
(* operators as parameters, which the provers do not instantiate.          *)
(***************************************************************************)
EXTENDS Integers, WellFoundedInduction, TLAPS

\* Strong induction: a set that contains a number whenever it contains the
\* smaller ones of D contains D.
LEMMA StrongInduction ==
  ASSUME NEW D \in SUBSET Nat, NEW P,
         \A k \in D : (\A j \in D : j < k => j \in P) => k \in P
  PROVE  D \subseteq P
<1> DEFINE T == D \ P
<1>1. SUFFICES ASSUME T # {} PROVE FALSE
  OBVIOUS
<1>2. PICK d \in T : \A e \in T : ~(<<e, d>> \in OpToRel(<, Nat))
  BY <1>1, NatLessThanWellFounded, WFMin
<1>3. \A j \in D : j < d => j \in P
  BY <1>2 DEF OpToRel
<1> QED
  BY <1>2, <1>3

\* A set of numbers that is not empty has a least one.
LEMMA LeastExists ==
  ASSUME NEW T \in SUBSET Nat, T # {}
  PROVE  \E i \in T : \A j \in T : i <= j
<1> DEFINE P == Nat \ T
<1>1. SUFFICES ASSUME \A i \in T : \E j \in T : ~(i <= j) PROVE FALSE
  OBVIOUS
<1>2. ASSUME NEW k \in Nat, \A j \in Nat : j < k => j \in P PROVE k \in P
  <2>1. CASE k \in T
    <3>1. PICK j \in T : ~(k <= j)
      BY <1>1, <2>1
    <3>2. j \in Nat /\ j < k
      BY <3>1
    <3> QED
      BY <1>2, <3>1, <3>2
  <2> QED
    BY <2>1
<1>3. Nat \subseteq P
  <2> HIDE DEF P
  <2> QED
    BY <1>2, StrongInduction
<1> QED
  BY <1>3

\* Induction along the numbers up to n.
LEMMA InductionTo ==
  ASSUME NEW n \in Nat, NEW P,
         0 \in P, \A i \in 1 .. n : i - 1 \in P => i \in P
  PROVE  \A i \in 0 .. n : i \in P
<1> DEFINE D == 0 .. n
<1>1. D \in SUBSET Nat
  OBVIOUS
<1>2. ASSUME NEW k \in D, \A j \in D : j < k => j \in P PROVE k \in P
  <2>1. CASE k = 0
    BY <2>1
  <2>2. CASE k # 0
    <3>1. k \in 1 .. n /\ k - 1 \in D /\ k - 1 < k
      BY <2>2
    <3> QED
      BY <1>2, <3>1
  <2> QED
    BY <2>1, <2>2
<1> HIDE DEF D
<1>3. D \subseteq P
  BY <1>1, <1>2, StrongInduction
<1> QED
  BY <1>3 DEF D

\* A function on D that is given on Base, and elsewhere by a step from its value
\* at another number.
IsRecursive(f, D, S, Base, first, prev, step) ==
  /\ f \in [D -> S]
  /\ \A k \in D : f[k] = IF k \in Base THEN first[k] ELSE step[k][f[prev[k]]]

\* There is one if the other number is smaller.
LEMMA RecursionExists ==
  ASSUME NEW D \in SUBSET Nat, NEW S, NEW Base \in SUBSET D,
         NEW first \in [Base -> S],
         NEW prev \in [D \ Base -> D], \A k \in D \ Base : prev[k] < k,
         NEW step \in [D \ Base -> [S -> S]]
  PROVE  \E f : IsRecursive(f, D, S, Base, first, prev, step)
<1> DEFINE Rest == D \ Base
           UpTo(n) == {k \in D : k <= n}
           IsSolution(g, n) ==
             \A k \in UpTo(n) : g[k] = IF k \in Base THEN first[k] ELSE step[k][g[prev[k]]]
\* Two solutions agree as far as both go.
<1>1. ASSUME NEW m \in Nat, NEW n \in Nat,
             NEW g \in [UpTo(m) -> S], NEW h \in [UpTo(n) -> S],
             IsSolution(g, m), IsSolution(h, n)
      PROVE  \A k \in UpTo(m) \cap UpTo(n) : g[k] = h[k]
  <2> DEFINE Both == UpTo(m) \cap UpTo(n)
             P == {k \in Both : g[k] = h[k]}
  <2>1. Both \in SUBSET Nat
    OBVIOUS
  <2>2. ASSUME NEW k \in Both, \A j \in Both : j < k => j \in P PROVE k \in P
    <3>1. CASE k \in Base
      BY <1>1, <3>1
    <3>2. CASE k \notin Base
      <4>1. prev[k] \in D /\ prev[k] < k /\ k \in Nat /\ prev[k] \in Nat
        BY <3>2
      <4>2. prev[k] \in Both
        BY <4>1
      <4>3. g[prev[k]] = h[prev[k]]
        BY <2>2, <4>1, <4>2
      <4>4. g[k] = step[k][g[prev[k]]] /\ h[k] = step[k][h[prev[k]]]
        BY <1>1, <3>2
      <4> QED
        BY <4>3, <4>4
    <3> QED
      BY <3>1, <3>2
  <2>3. Both \subseteq P
    <3> HIDE DEF Both, P
    <3> QED
      BY <2>1, <2>2, StrongInduction
  <2> QED
    BY <2>3
\* There is one up to every n.
<1> DEFINE Solved == {n \in Nat : \E g \in [UpTo(n) -> S] : IsSolution(g, n)}
<1>2. ASSUME NEW n \in Nat, \A j \in Nat : j < n => j \in Solved PROVE n \in Solved
  <2>1. PICK h : h \in [{k \in D : k < n} -> S] /\
                 \A k \in {k \in D : k < n} :
                   h[k] = IF k \in Base THEN first[k] ELSE step[k][h[prev[k]]]
    <3>1. CASE n = 0
      <4>1. {k \in D : k < n} = {}
        <5> SUFFICES ASSUME NEW k \in D, k < 0 PROVE FALSE
          BY <3>1
        <5>1. k \in Nat
          OBVIOUS
        <5> QED
          BY <5>1
      <4>2. PICK h : h \in [{} -> S]
        <5>1. [k \in {} |-> k] \in [{} -> S]
          OBVIOUS
        <5> QED
          BY <5>1
      <4> QED
        BY <4>1, <4>2
    <3>2. CASE n # 0
      <4>1. n - 1 \in Nat /\ n - 1 < n
        BY <3>2
      <4>2. PICK g \in [UpTo(n - 1) -> S] : IsSolution(g, n - 1)
        BY <1>2, <4>1
      <4>3. UpTo(n - 1) = {k \in D : k < n}
        <5>1. \A k \in D : k \in Nat
          OBVIOUS
        <5>2. \A k \in D : k <= n - 1 <=> k < n
          BY <4>1, <5>1
        <5> QED
          BY <5>2
      <4> QED
        BY <4>2, <4>3
    <3> QED
      BY <3>1, <3>2
  <2> DEFINE g == [k \in UpTo(n) |-> IF k < n THEN h[k]
                                     ELSE IF k \in Base THEN first[k] ELSE step[k][h[prev[k]]]]
  <2>2. ASSUME NEW k \in UpTo(n), k \notin Base
        PROVE  prev[k] \in D /\ prev[k] < n /\ h[prev[k]] \in S /\ prev[k] \in UpTo(n)
               /\ g[prev[k]] = h[prev[k]]
    <3>1. prev[k] \in D /\ prev[k] < k /\ k <= n /\ k \in Nat /\ prev[k] \in Nat
      BY <2>2
    <3>2. prev[k] < n
      BY <3>1
    <3> QED
      BY <2>1, <3>1, <3>2
  <2>3. g \in [UpTo(n) -> S]
    <3> SUFFICES ASSUME NEW k \in UpTo(n)
                 PROVE  (IF k < n THEN h[k] ELSE IF k \in Base THEN first[k] ELSE step[k][h[prev[k]]]) \in S
      OBVIOUS
    <3>1. CASE k < n
      BY <2>1, <3>1
    <3>2. CASE ~(k < n) /\ k \in Base
      BY <3>2
    <3>3. CASE ~(k < n) /\ k \notin Base
      <4>1. step[k] \in [S -> S] /\ h[prev[k]] \in S
        BY <2>2, <3>3
      <4> QED
        BY <3>3, <4>1
    <3> QED
      BY <3>1, <3>2, <3>3
  <2>4. IsSolution(g, n)
    <3> SUFFICES ASSUME NEW k \in UpTo(n)
                 PROVE  g[k] = IF k \in Base THEN first[k] ELSE step[k][g[prev[k]]]
      OBVIOUS
    <3>1. CASE k < n
      <4>1. g[k] = h[k] /\ h[k] = IF k \in Base THEN first[k] ELSE step[k][h[prev[k]]]
        BY <2>1, <3>1
      <4> QED
        BY <2>2, <4>1
    <3>2. CASE ~(k < n)
      <4>1. g[k] = IF k \in Base THEN first[k] ELSE step[k][h[prev[k]]]
        BY <3>2
      <4> QED
        BY <2>2, <4>1
    <3> QED
      BY <3>1, <3>2
  <2> QED
    BY <2>3, <2>4
<1>3. \A n \in Nat : n \in Solved
  <2> HIDE DEF Solved
  <2> QED
    BY <1>2, StrongInduction
\* Together they are the function.
<1> DEFINE sol == [n \in Nat |-> CHOOSE g : g \in [UpTo(n) -> S] /\ IsSolution(g, n)]
           f == [k \in D |-> sol[k][k]]
<1>4. \A n \in Nat : sol[n] \in [UpTo(n) -> S] /\ IsSolution(sol[n], n)
  BY <1>3
<1>5. f \in [D -> S]
  <2> SUFFICES ASSUME NEW k \in D PROVE sol[k][k] \in S
    OBVIOUS
  <2>1. k \in Nat /\ k \in UpTo(k)
    OBVIOUS
  <2> HIDE DEF sol, UpTo, IsSolution
  <2>2. sol[k] \in [UpTo(k) -> S]
    BY <1>4, <2>1
  <2> QED
    BY <2>1, <2>2
<1>6. \A k \in D : f[k] = IF k \in Base THEN first[k] ELSE step[k][f[prev[k]]]
  <2> SUFFICES ASSUME NEW k \in D
               PROVE  f[k] = IF k \in Base THEN first[k] ELSE step[k][f[prev[k]]]
    OBVIOUS
  <2>1. k \in Nat /\ k \in UpTo(k)
    OBVIOUS
  <2>2. sol[k][k] = IF k \in Base THEN first[k] ELSE step[k][sol[k][prev[k]]]
    <3> HIDE DEF sol
    <3>1. IsSolution(sol[k], k)
      BY <1>4, <2>1
    <3> QED
      BY <2>1, <3>1
  <2>3. CASE k \in Base
    BY <2>2, <2>3
  <2>4. CASE k \notin Base
    <3>1. prev[k] \in D /\ prev[k] < k /\ prev[k] \in Nat
      BY <2>4
    <3>2. prev[k] \in UpTo(prev[k]) \cap UpTo(k)
      BY <3>1, <2>1
    <3> HIDE DEF sol, UpTo, IsSolution
    <3>3. sol[prev[k]][prev[k]] = sol[k][prev[k]]
      BY <1>1, <1>4, <2>1, <3>1, <3>2
    <3> QED
      BY <2>2, <2>4, <3>1, <3>3
  <2> QED
    BY <2>3, <2>4
<1> QED
  BY <1>5, <1>6 DEF IsRecursive

\* The functions over the prefixes of a sequence or the turns of a loop: the
\* value for no element, and a step for each.
IsLoop(f, n, S, s0, step) ==
  /\ f \in [0 .. n -> S]
  /\ f[0] = s0
  /\ \A i \in 1 .. n : f[i] = step[i][f[i - 1]]

LEMMA LoopExists ==
  ASSUME NEW n \in Nat, NEW S, NEW s0 \in S, NEW step \in [1 .. n -> [S -> S]]
  PROVE  \E f : IsLoop(f, n, S, s0, step)
<1> DEFINE D == 0 .. n
           Base == {0}
           first == [k \in Base |-> s0]
           prev == [k \in D \ Base |-> k - 1]
<1>1. D \in SUBSET Nat /\ Base \in SUBSET D /\ D \ Base = 1 .. n
  OBVIOUS
<1>2. first \in [Base -> S] /\ first[0] = s0
  OBVIOUS
<1>3. prev \in [D \ Base -> D] /\ \A k \in D \ Base : prev[k] = k - 1 /\ prev[k] < k
  OBVIOUS
<1>4. step \in [D \ Base -> [S -> S]]
  BY <1>1
<1> HIDE DEF D, Base, first, prev
<1>5. PICK f : IsRecursive(f, D, S, Base, first, prev, step)
  <2>1. \A k \in D \ Base : prev[k] < k
    BY <1>3
  <2>2. D \in SUBSET Nat /\ Base \in SUBSET D
    BY <1>1
  <2>3. first \in [Base -> S] /\ prev \in [D \ Base -> D]
    BY <1>2, <1>3
  <2> QED
    BY <1>4, <2>1, <2>2, <2>3, RecursionExists
<1>6. f[0] = s0
  BY <1>2, <1>5 DEF D, Base, IsRecursive
<1>7. ASSUME NEW i \in 1 .. n PROVE f[i] = step[i][f[i - 1]]
  <2>1. i \in D /\ i \notin Base
    BY DEF D, Base
  <2> QED
    BY <1>3, <1>5, <2>1 DEF IsRecursive
<1> QED
  BY <1>5, <1>6, <1>7 DEF D, IsRecursive, IsLoop
=============================================================================

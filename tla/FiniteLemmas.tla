---------------------------- MODULE FiniteLemmas ----------------------------
(***************************************************************************)
(* Induction and recursion over naturals and finite sets, stated for sets  *)
(* and functions instead of predicates and operators, so that they can be  *)
(* cited with first-order instances.  The proofs about the Blockchain rest *)
(* on them, as its greedy colouring, its topological sort and the cascade  *)
(* of ProcessOrphans are recursive functions over 0..n, and so do those    *)
(* about queries, frames and links: a loop that is a recursive function    *)
(* has a course, and keeps what each of its turns keeps.                   *)
(***************************************************************************)
EXTENDS Integers, FiniteSets, FiniteSetTheorems, WellFoundedInduction, TLAPS

(***************************************************************************)
(* Induction on finite sets: a family G of subsets of U that has the empty *)
(* set and admits one more element at a time has every finite subset.      *)
(***************************************************************************)
LEMMA FiniteInduction ==
  ASSUME NEW U, NEW G, {} \in G,
         \A T \in SUBSET U : \A x \in U \ T :
           IsFiniteSet(T) /\ T \in G => T \cup {x} \in G
  PROVE  \A T \in SUBSET U : IsFiniteSet(T) => T \in G
<1> DEFINE Bad == {T \in FiniteSubsetsOf(U) : T \notin G}
<1> SUFFICES ASSUME Bad # {} PROVE FALSE
  BY DEF FiniteSubsetsOf
<1>1. IsWellFoundedOn(StrictSubsetOrdering(U), FiniteSubsetsOf(U))
  BY FS_StrictSubsetOrderingWellFounded
<1>2. PICK m \in Bad : \A y \in Bad : <<y, m>> \notin StrictSubsetOrdering(U)
  <2> HIDE DEF Bad
  <2>1. Bad \subseteq FiniteSubsetsOf(U)
    BY DEF Bad
  <2> QED BY <1>1, <2>1, WFMin
<1>3. m # {} /\ m \in SUBSET U /\ IsFiniteSet(m)
  BY DEF FiniteSubsetsOf
<1>4. PICK x \in m : TRUE
  BY <1>3
<1>5. IsFiniteSet(m \ {x})
  BY <1>3, FS_RemoveElement
<1>6. (m \ {x}) \cup {x} = m
  BY <1>4
<1>7. m \ {x} \notin G
  BY <1>3, <1>4, <1>5, <1>6
<1>8. m \ {x} \in Bad
  BY <1>3, <1>5, <1>7 DEF FiniteSubsetsOf
<1>9. <<m \ {x}, m>> \in StrictSubsetOrdering(U)
  BY <1>3, <1>4 DEF StrictSubsetOrdering
<1> QED BY <1>2, <1>8, <1>9

\* A nonempty finite set of naturals, or any nonempty one, has a least element.
LEMMA LeastNatural ==
  ASSUME NEW T \in SUBSET Nat, T # {}
  PROVE  \E x \in T : \A y \in T : x <= y
<1>1. IsWellFoundedOn(OpToRel(<, Nat), Nat)
  BY NatLessThanWellFounded
<1>2. PICK x \in T : \A y \in T : <<y, x>> \notin OpToRel(<, Nat)
  BY <1>1, WFMin
<1>3. \A y \in T : ~ (y < x)
  BY <1>2 DEF OpToRel
<1> QED BY <1>3

\* Induction on the naturals.
LEMMA SetInduction ==
  ASSUME NEW G, 0 \in G, \A n \in Nat : n \in G => n + 1 \in G
  PROVE  Nat \subseteq G
<1> DEFINE Bad == Nat \ G
<1> SUFFICES ASSUME Bad # {} PROVE FALSE
  OBVIOUS
<1>1. PICK x \in Bad : \A y \in Bad : x <= y
  <2> HIDE DEF Bad
  <2>1. Bad \in SUBSET Nat
    BY DEF Bad
  <2> QED BY <2>1, LeastNatural
<1>2. x # 0 /\ x \in Nat
  OBVIOUS
<1>3. x - 1 \in Nat /\ x - 1 \in G /\ (x - 1) + 1 = x
  BY <1>1, <1>2
<1> QED BY <1>3

IsIteration(f, S, a, g) ==
  /\ f \in [Nat -> S]
  /\ f[0] = a
  /\ \A i \in Nat : f[i + 1] = g[<<i, f[i]>>]

\* Every step function can be iterated from every starting point.
LEMMA Iteration ==
  ASSUME NEW S, NEW a \in S, NEW g \in [Nat \X S -> S]
  PROVE  \E f : IsIteration(f, S, a, g)
<1> DEFINE Run(n) == {f \in [0..n -> S] :
                        f[0] = a /\ \A i \in 0..(n - 1) : f[i + 1] = g[<<i, f[i]>>]}
           G == {n \in Nat : Run(n) # {}}
<1>1. Nat \subseteq G
  <2>1. 0 \in G
    <3>1. [i \in 0..0 |-> a] \in Run(0)
      OBVIOUS
    <3> QED BY <3>1
  <2>2. ASSUME NEW n \in Nat, n \in G PROVE n + 1 \in G
    <3>1. PICK f \in Run(n) : TRUE
      BY <2>2
    <3> DEFINE h == [i \in 0..(n + 1) |-> IF i = n + 1 THEN g[<<n, f[n]>>] ELSE f[i]]
    <3>2. f[n] \in S
      OBVIOUS
    <3>3. h \in [0..(n + 1) -> S]
      BY <3>2
    <3>4. h[0] = a
      OBVIOUS
    <3>5. ASSUME NEW i \in 0..n PROVE h[i + 1] = g[<<i, h[i]>>]
      <4>1. CASE i = n
        <5>1. n # n + 1 /\ n \in 0..(n + 1) /\ n + 1 \in 0..(n + 1)
          OBVIOUS
        <5>2. h[n + 1] = g[<<n, f[n]>>]
          BY <5>1
        <5>3. h[n] = f[n]
          BY <5>1
        <5> QED BY <4>1, <5>2, <5>3
      <4>2. CASE i # n
        <5>1. i \in 0..(n - 1) /\ i + 1 \in 0..n
          BY <4>2
        <5>2. h[i + 1] = f[i + 1] /\ h[i] = f[i]
          BY <5>1
        <5> QED BY <5>1, <5>2
      <4> QED BY <4>1, <4>2
    <3>6. (n + 1) - 1 = n
      OBVIOUS
    <3>7. h \in Run(n + 1)
      <4> HIDE DEF h
      <4> QED BY <3>3, <3>4, <3>5, <3>6
    <3>8. n + 1 \in Nat
      OBVIOUS
    <3> HIDE DEF h, Run
    <3> QED BY <3>7, <3>8
  <2> HIDE DEF G
  <2> QED BY <2>1, <2>2, SetInduction
<1>2. ASSUME NEW n \in Nat, NEW f \in Run(n), NEW h \in Run(n + 1)
      PROVE  \A i \in 0..n : f[i] = h[i]
  <2> DEFINE E == {i \in Nat : i \in 0..n => f[i] = h[i]}
  <2>1. 0 \in E
    OBVIOUS
  <2>2. ASSUME NEW i \in Nat, i \in E PROVE i + 1 \in E
    <3> SUFFICES ASSUME i + 1 \in 0..n PROVE f[i + 1] = h[i + 1]
      OBVIOUS
    <3>1. i \in 0..(n - 1) /\ i \in 0..((n + 1) - 1) /\ i \in 0..n
      OBVIOUS
    <3>2. f[i + 1] = g[<<i, f[i]>>]
      BY <3>1
    <3>3. h[i + 1] = g[<<i, h[i]>>]
      BY <3>1
    <3>4. f[i] = h[i]
      BY <2>2, <3>1
    <3> QED BY <3>2, <3>3, <3>4
  <2>3. Nat \subseteq E
    <3> HIDE DEF E
    <3> QED BY <2>1, <2>2, SetInduction
  <2> QED BY <2>3
<1> DEFINE run == [n \in Nat |-> CHOOSE f : f \in Run(n)]
           F   == [n \in Nat |-> run[n][n]]
<1>3. \A n \in Nat : run[n] \in Run(n)
  BY <1>1
<1>4. ASSUME NEW n \in Nat
      PROVE  /\ run[n] \in [0..n -> S] /\ run[n][0] = a
             /\ \A i \in 0..(n - 1) : run[n][i + 1] = g[<<i, run[n][i]>>]
  <2>1. run[n] \in Run(n)
    BY <1>3
  <2> HIDE DEF run
  <2> QED BY <2>1
<1>5. ASSUME NEW n \in Nat PROVE F[n + 1] = g[<<n, F[n]>>]
  <2>1. run[n + 1][n + 1] = g[<<n, run[n + 1][n]>>]
    <3>1. n + 1 \in Nat /\ n \in 0..((n + 1) - 1)
      OBVIOUS
    <3> HIDE DEF run
    <3> QED BY <1>4, <3>1
  <2>2. run[n + 1][n] = run[n][n]
    <3>1. run[n] \in Run(n) /\ run[n + 1] \in Run(n + 1)
      <4>1. n + 1 \in Nat
        OBVIOUS
      <4> HIDE DEF Run, run
      <4> QED BY <1>3, <4>1
    <3>2. n \in 0..n
      OBVIOUS
    <3> HIDE DEF Run, run
    <3> QED BY <1>2, <3>1, <3>2
  <2>3. F[n + 1] = run[n + 1][n + 1] /\ F[n] = run[n][n]
    <3> HIDE DEF run
    <3> QED OBVIOUS
  <2> QED BY <2>1, <2>2, <2>3
<1>6. F \in [Nat -> S] /\ F[0] = a
  <2>1. \A n \in Nat : run[n][n] \in S
    <3>1. \A n \in Nat : n \in 0..n
      OBVIOUS
    <3> HIDE DEF run
    <3> QED BY <1>4, <3>1
  <2>2. run[0][0] = a
    <3> HIDE DEF run
    <3> QED BY <1>4
  <2> HIDE DEF run
  <2> QED BY <2>1, <2>2
<1> HIDE DEF F
<1>7. IsIteration(F, S, a, g)
  BY <1>5, <1>6 DEF IsIteration
<1> QED BY <1>7

\* f starts in a and goes on by g for n turns, in S.
IsRecursion(f, n, S, a, g) ==
  /\ f \in [0..n -> S]
  /\ f[0] = a
  /\ \A i \in 1..n : f[i] = g[<<i - 1, f[i - 1]>>]

\* Every step function can be followed for n turns from every start.
LEMMA Recursion ==
  ASSUME NEW S, NEW a \in S, NEW g \in [Nat \X S -> S], NEW n \in Nat
  PROVE  \E f : IsRecursion(f, n, S, a, g)
<1>1. PICK f : IsIteration(f, S, a, g)
  BY Iteration
<1>2. f \in [Nat -> S] /\ f[0] = a /\ \A i \in Nat : f[i + 1] = g[<<i, f[i]>>]
  BY <1>1 DEF IsIteration
<1> DEFINE h == [i \in 0..n |-> f[i]]
<1>3. ASSUME NEW i \in 1..n PROVE h[i] = g[<<i - 1, h[i - 1]>>]
  <2>1. i - 1 \in Nat /\ i - 1 \in 0..n /\ (i - 1) + 1 = i /\ i \in 0..n
    OBVIOUS
  <2>2. h[i - 1] = f[i - 1] /\ h[i] = f[i]
    BY <2>1
  <2> HIDE DEF h
  <2> QED BY <1>2, <2>1, <2>2
<1>4. h \in [0..n -> S] /\ h[0] = a
  BY <1>2
<1> HIDE DEF h
<1> QED BY <1>3, <1>4 DEF IsRecursion

\* Induction as far as n.
LEMMA InductionUpTo ==
  ASSUME NEW n \in Nat, NEW G, 0 \in G, \A i \in 1..n : i - 1 \in G => i \in G
  PROVE  \A i \in 0..n : i \in G
<1> DEFINE H == {i \in Nat : i \in 0..n => i \in G}
<1>1. 0 \in H
  OBVIOUS
<1>2. ASSUME NEW i \in Nat, i \in H PROVE i + 1 \in H
  <2> SUFFICES ASSUME i + 1 \in 0..n PROVE i + 1 \in G
    OBVIOUS
  <2>1. i + 1 \in 1..n /\ (i + 1) - 1 = i /\ i \in 0..n
    OBVIOUS
  <2> QED BY <1>2, <2>1
<1> HIDE DEF H
<1>3. Nat \subseteq H
  BY <1>1, <1>2, SetInduction
<1> QED BY <1>3 DEF H

\* f starts in a, goes on by g for n turns, and is in T[i] after i of them.
IsCourse(f, n, U, T, a, g) ==
  /\ f \in [0..n -> U]
  /\ f[0] = a
  /\ \A i \in 0..n : f[i] \in T[i]
  /\ \A i \in 1..n : f[i] = g[<<i, f[i - 1]>>]

(***************************************************************************)
(* Recursion along an invariant: a step g that leads from T[i - 1] to T[i] *)
(* can be followed from any a in T[0], and stays in T.                     *)
(***************************************************************************)
LEMMA CourseExists ==
  ASSUME NEW n \in Nat, NEW U, NEW T \in [0..n -> SUBSET U], NEW a \in T[0], NEW g,
         \A i \in 1..n : \A s \in T[i - 1] : g[<<i, s>>] \in T[i]
  PROVE  \E f : IsCourse(f, n, U, T, a, g)
<1> DEFINE h == [p \in Nat \X U |->
                   IF p[1] + 1 \in 1..n /\ p[2] \in T[p[1]] THEN g[<<p[1] + 1, p[2]>>] ELSE a]
<1>1. a \in U
  OBVIOUS
<1>2. ASSUME NEW p \in Nat \X U PROVE h[p] \in U
  <2>1. CASE p[1] + 1 \in 1..n /\ p[2] \in T[p[1]]
    <3>1. (p[1] + 1) - 1 = p[1] /\ p[1] + 1 \in 0..n
      BY <2>1
    <3>2. g[<<p[1] + 1, p[2]>>] \in T[p[1] + 1]
      BY <2>1, <3>1
    <3>3. T[p[1] + 1] \subseteq U
      BY <3>1
    <3> QED BY <2>1, <3>2, <3>3
  <2>2. CASE ~ (p[1] + 1 \in 1..n /\ p[2] \in T[p[1]])
    BY <1>1, <2>2
  <2> QED BY <2>1, <2>2
<1>3. h \in [Nat \X U -> U]
  BY <1>2
<1>4. \E f : IsRecursion(f, n, U, a, h)
  <2> HIDE DEF h
  <2> QED BY <1>1, <1>3, Recursion
<1>5. PICK f : IsRecursion(f, n, U, a, h)
  BY <1>4
<1>6. /\ f \in [0..n -> U] /\ f[0] = a
      /\ \A i \in 1..n : f[i] = h[<<i - 1, f[i - 1]>>]
  <2> HIDE DEF h
  <2> QED BY <1>5 DEF IsRecursion
<1>7. ASSUME NEW i \in 1..n, f[i - 1] \in T[i - 1] PROVE f[i] = g[<<i, f[i - 1]>>]
  <2>1. i - 1 \in Nat /\ i - 1 \in 0..n /\ (i - 1) + 1 = i
    OBVIOUS
  <2>2. f[i - 1] \in U
    BY <1>6, <2>1
  <2>3. h[<<i - 1, f[i - 1]>>] = g[<<i, f[i - 1]>>]
    BY <1>7, <2>1, <2>2
  <2> QED BY <1>6, <2>3
<1> HIDE DEF h
<1> DEFINE G == {i \in 0..n : f[i] \in T[i]}
<1>8. 0 \in G
  BY <1>6
<1>9. ASSUME NEW i \in 1..n, i - 1 \in G PROVE i \in G
  <2>1. f[i - 1] \in T[i - 1] /\ i \in 0..n
    BY <1>9
  <2>2. g[<<i, f[i - 1]>>] \in T[i]
    BY <2>1
  <2>3. f[i] \in T[i]
    BY <1>7, <2>1, <2>2
  <2> QED BY <2>1, <2>3
<1> HIDE DEF G
<1>10. \A i \in 0..n : i \in G
  BY <1>8, <1>9, InductionUpTo
<1>11. \A i \in 0..n : f[i] \in T[i]
  BY <1>10 DEF G
<1>12. \A i \in 1..n : f[i] = g[<<i, f[i - 1]>>]
  BY <1>7, <1>11
<1> QED BY <1>6, <1>11, <1>12 DEF IsCourse

\* f folds g over the subsets of S, starting in a.
IsFold(f, S, U, a, g) ==
  /\ f \in [SUBSET S -> U]
  /\ \A s \in SUBSET S :
       f[s] = IF s = {} THEN a
              ELSE LET x == CHOOSE x \in s : TRUE IN g[<<x, f[s \ {x}]>>]

\* Every step function can be folded over a finite set: by iteration, a
\* subset of i elements is folded after i steps.
LEMMA FoldExists ==
  ASSUME NEW S, IsFiniteSet(S), NEW U, NEW a \in U, NEW g \in [S \X U -> U]
  PROVE  \E f : IsFold(f, S, U, a, g)
<1> DEFINE Any(s) == CHOOSE x \in s : TRUE
           V == [SUBSET S -> U]
           More(h) == [s \in SUBSET S |->
                         IF s = {} THEN a ELSE g[<<Any(s), h[s \ {Any(s)}]>>]]
           G == [p \in Nat \X V |-> More(p[2])]
           A == [s \in SUBSET S |-> a]
<1>1. ASSUME NEW s \in SUBSET S, s # {}
      PROVE  Any(s) \in s /\ s \ {Any(s)} \in SUBSET S /\ Any(s) \in S
  BY <1>1
<1>2. ASSUME NEW h \in V PROVE More(h) \in V
  <2> SUFFICES ASSUME NEW s \in SUBSET S, s # {} PROVE g[<<Any(s), h[s \ {Any(s)}]>>] \in U
    OBVIOUS
  <2>1. Any(s) \in S /\ s \ {Any(s)} \in SUBSET S
    BY <1>1
  <2> HIDE DEF Any
  <2> QED BY <2>1
<1>3. A \in V
  OBVIOUS
<1>4. G \in [Nat \X V -> V]
  <2> HIDE DEF V, More
  <2> QED BY <1>2
<1>5. PICK it : IsIteration(it, V, A, G)
  <2> HIDE DEF V, A, G
  <2> QED BY <1>3, <1>4, Iteration
<1>6. it \in [Nat -> V] /\ it[0] = A /\ \A i \in Nat : it[i + 1] = More(it[i])
  <2>1. it \in [Nat -> V] /\ it[0] = A /\ \A i \in Nat : it[i + 1] = G[<<i, it[i]>>]
    BY <1>5 DEF IsIteration
  <2> HIDE DEF V, A, More
  <2> QED BY <2>1
<1> DEFINE f == [s \in SUBSET S |-> it[Cardinality(s)][s]]
<1>7. \A s \in SUBSET S : IsFiniteSet(s) /\ Cardinality(s) \in Nat
  BY FS_Subset, FS_CardinalityType
<1>8. f \in [SUBSET S -> U]
  BY <1>6, <1>7
<1>9. ASSUME NEW s \in SUBSET S
      PROVE  f[s] = IF s = {} THEN a ELSE g[<<Any(s), f[s \ {Any(s)}]>>]
  <2>1. CASE s = {}
    <3>1. Cardinality(s) = 0
      BY <2>1, FS_EmptySet
    <3> QED BY <1>6, <2>1, <3>1
  <2>2. CASE s # {}
    <3> DEFINE r == s \ {Any(s)}
               i == Cardinality(r)
    <3>1. Any(s) \in s /\ r \in SUBSET S
      BY <1>1, <2>2
    <3> HIDE DEF Any
    <3>2. i \in Nat /\ Cardinality(s) = i + 1
      <4>1. Cardinality(r) = Cardinality(s) - 1
        BY <1>7, <3>1, FS_RemoveElement
      <4> QED BY <1>7, <3>1, <4>1
    <3>3. f[s] = it[i + 1][s] /\ f[r] = it[i][r]
      BY <3>1, <3>2
    <3> HIDE DEF f, i, r
    <3>4. it[i + 1] = More(it[i])
      BY <1>6, <3>2
    <3>5. f[s] = g[<<Any(s), it[i][r]>>]
      BY <2>2, <3>3, <3>4 DEF r
    <3> QED BY <2>2, <3>3, <3>5 DEF r
  <2> QED BY <2>1, <2>2
<1> HIDE DEF f
<1> QED BY <1>8, <1>9 DEF IsFold

\* Induction on a finite set along any order in which its elements go.
LEMMA RemovalInduction ==
  ASSUME NEW S, IsFiniteSet(S), NEW G, {} \in G,
         \A T \in (SUBSET S) \ {{}} : \E x \in T : T \ {x} \in G => T \in G
  PROVE  S \in G
<1> DEFINE H == {i \in Nat : \A T \in SUBSET S : Cardinality(T) = i => T \in G}
<1>1. \A T \in SUBSET S : IsFiniteSet(T) /\ Cardinality(T) \in Nat
  BY FS_Subset, FS_CardinalityType
<1>2. 0 \in H
  BY <1>1, FS_EmptySet
<1>3. ASSUME NEW i \in Nat, i \in H PROVE i + 1 \in H
  <2> SUFFICES ASSUME NEW T \in SUBSET S, Cardinality(T) = i + 1 PROVE T \in G
    OBVIOUS
  <2>1. T # {}
    <3>1. i + 1 # 0
      OBVIOUS
    <3> QED BY <3>1, FS_EmptySet
  <2>2. PICK x \in T : T \ {x} \in G => T \in G
    BY <2>1
  <2>3. Cardinality(T \ {x}) = i
    <3>1. Cardinality(T \ {x}) = Cardinality(T) - 1
      BY <1>1, FS_RemoveElement
    <3> QED BY <3>1
  <2>4. T \ {x} \in G
    BY <1>3, <2>3
  <2> QED BY <2>2, <2>4
<1> HIDE DEF H
<1>4. Nat \subseteq H
  BY <1>2, <1>3, SetInduction
<1> QED BY <1>1, <1>4 DEF H
=============================================================================

--------------------------- MODULE BlockDag_proofs ---------------------------
(***************************************************************************)
(* The properties of BlockDag, for any number of nodes and miners, any K   *)
(* and any number of blocks.  First the operators of Blockchain: what      *)
(* choosing, sorting and colouring return, and what Insert and AddBlock    *)
(* preserve.  Then the inductive invariant (IInv): every chain is a        *)
(* well-formed colouring of mined blocks (ChainInv), the cascade has run   *)
(* to its end (no orphan is ready), and which ids are used.                *)
(***************************************************************************)
EXTENDS BlockDag, FiniteLemmas

-----------------------------------------------------------------------------
(* Choosing among blocks *)

\* The least id of a nonempty set of ids.
LEMMA LeastProperty ==
  ASSUME NEW T \in SUBSET Nat, T # {}
  PROVE  Least(T) \in T /\ \A y \in T : Least(T) <= y
BY LeastNatural DEF Least

\* A finite nonempty set of blocks has a heaviest one.
LEMMA HeaviestProperty ==
  ASSUME NEW S \in SUBSET Nat, IsFiniteSet(S), S # {},
         NEW score, \A x \in S : score[x] \in Nat
  PROVE  /\ Heaviest(S, score) \in S
         /\ \A y \in S : \/ score[Heaviest(S, score)] > score[y]
                         \/ /\ score[Heaviest(S, score)] = score[y]
                            /\ Heaviest(S, score) <= y
<1> DEFINE Top(x, y) == score[x] > score[y] \/ (score[x] = score[y] /\ x <= y)
           G == {T \in SUBSET S : T # {} => \E x \in T : \A y \in T : Top(x, y)}
<1>1. {} \in G
  OBVIOUS
<1>2. ASSUME NEW T \in SUBSET S, NEW z \in S \ T, T \in G
      PROVE  T \cup {z} \in G
  <2>1. CASE T = {}
    <3>1. Top(z, z)
      OBVIOUS
    <3> QED BY <2>1, <3>1
  <2>2. CASE T # {}
    <3>1. PICK x \in T : \A y \in T : Top(x, y)
      BY <1>2, <2>2
    <3>2. Top(x, z) \/ Top(z, x)
      OBVIOUS
    <3>3. CASE Top(x, z)
      <4>1. \A y \in T \cup {z} : Top(x, y)
        BY <3>1, <3>3
      <4> HIDE DEF Top
      <4> QED BY <4>1
    <3>4. CASE Top(z, x)
      <4>1. ASSUME NEW y \in T PROVE Top(z, y)
        <5>1. Top(x, y)
          BY <3>1
        <5> QED BY <3>4, <5>1
      <4>2. Top(z, z)
        OBVIOUS
      <4> HIDE DEF Top
      <4> QED BY <4>1, <4>2
    <3> QED BY <3>2, <3>3, <3>4
  <2> QED BY <2>1, <2>2
<1>3. S \in G
  <2> HIDE DEF G
  <2> QED BY <1>1, <1>2, FiniteInduction
<1>4. \E x \in S : \A y \in S : Top(x, y)
  BY <1>3
<1> QED BY <1>4 DEF Heaviest

\* Every position of the ascending enumeration is taken.
LEMMA Rank ==
  ASSUME NEW T \in SUBSET Nat, IsFiniteSet(T)
  PROVE  \A i \in Nat : i < Cardinality(T) =>
           \E x \in T : Cardinality({y \in T : y < x}) = i
<1> DEFINE Below(x) == {y \in T : y < x}
           G == {i \in Nat : i < Cardinality(T) => \E x \in T : Cardinality(Below(x)) = i}
<1>0. Cardinality(T) \in Nat
  BY FS_CardinalityType
<1>1. 0 \in G
  <2> SUFFICES ASSUME 0 < Cardinality(T) PROVE \E x \in T : Cardinality(Below(x)) = 0
    OBVIOUS
  <2>1. T # {}
    BY FS_EmptySet
  <2>2. PICK x \in T : \A y \in T : x <= y
    BY <2>1, LeastNatural
  <2>3. Below(x) = {}
    <3> SUFFICES ASSUME NEW y \in T, y < x PROVE FALSE
      OBVIOUS
    <3>1. x <= y /\ x \in Nat /\ y \in Nat
      BY <2>2
    <3> QED BY <3>1
  <2> QED BY <2>3, FS_EmptySet
<1>2. ASSUME NEW i \in Nat, i \in G PROVE i + 1 \in G
  <2> SUFFICES ASSUME i + 1 < Cardinality(T)
               PROVE  \E x \in T : Cardinality(Below(x)) = i + 1
    OBVIOUS
  <2>1. PICK x \in T : Cardinality(Below(x)) = i
    BY <1>0, <1>2
  <2> DEFINE L == Below(x) \cup {x}
  <2>2. L \subseteq T /\ x \notin Below(x) /\ IsFiniteSet(Below(x))
    BY FS_Subset
  <2>3. Cardinality(L) = i + 1 /\ IsFiniteSet(L)
    BY <2>1, <2>2, FS_AddElement
  <2>4. T \ L # {}
    BY <1>0, <2>2, <2>3, FS_Subset
  <2>5. PICK z \in T \ L : \A y \in T \ L : z <= y
    BY <2>4, LeastNatural
  <2>6. Below(z) = L
    <3>1. x \in Nat /\ z \in Nat /\ z > x
      BY <2>5
    <3>2. ASSUME NEW y \in Below(z) PROVE y \in L
      BY <2>5
    <3>3. ASSUME NEW y \in L PROVE y \in Below(z)
      BY <3>1
    <3> QED BY <3>2, <3>3
  <2> QED BY <2>3, <2>5, <2>6
<1>3. Nat \subseteq G
  <2> HIDE DEF G
  <2> QED BY <1>1, <1>2, SetInduction
<1> QED BY <1>3

\* Ascending enumerates members of its set.
LEMMA AscendingType ==
  ASSUME NEW S, NEW T \in SUBSET S, T \subseteq Nat, IsFiniteSet(T)
  PROVE  Ascending(T) \in Seq(S)
<1>1. Cardinality(T) \in Nat
  BY FS_CardinalityType
<1>2. ASSUME NEW i \in 1..Cardinality(T)
      PROVE  (CHOOSE x \in T : Cardinality({y \in T : y < x}) = i - 1) \in T
  <2>1. i - 1 \in Nat /\ i - 1 < Cardinality(T)
    BY <1>1
  <2>2. \E x \in T : Cardinality({y \in T : y < x}) = i - 1
    BY <2>1, Rank
  <2> QED BY <2>2
<1>3. Ascending(T) \in [1..Cardinality(T) -> S]
  BY <1>2 DEF Ascending
<1> QED BY <1>1, <1>3

-----------------------------------------------------------------------------
(* Kahn's algorithm and the greedy colouring *)

\* The queue of TopologicalSort never holds anything but members of S.
LEMMA TopologicalSortType ==
  ASSUME NEW S \in SUBSET Nat, IsFiniteSet(S), NEW parents
  PROVE  TopologicalSort(parents, S) \in Seq(S)
<1> DEFINE Free(done) == {c \in S : (parents[c] \cap S) \subseteq done}
           Taken(i, q) == {q[j] : j \in 1..(i - 1)}
           Step(i, q)  == IF i > Len(q) THEN q
                          ELSE q \o Ascending(Free(Taken(i, q) \cup {q[i]}) \ Free(Taken(i, q)))
           n == Cardinality(S)
           Queue == CHOOSE f : f = [i \in 0..n |->
                      IF i = 0 THEN Ascending(Free({})) ELSE Step(i, f[i - 1])]
<1>1. \A T \in SUBSET S : Ascending(T) \in Seq(S)
  <2> TAKE T \in SUBSET S
  <2>1. IsFiniteSet(T) /\ T \subseteq Nat
    BY FS_Subset
  <2> QED BY <2>1, AscendingType
<1>2. Ascending(Free({})) \in Seq(S)
  BY <1>1
<1>3. ASSUME NEW i \in Nat, NEW q \in Seq(S) PROVE Step(i, q) \in Seq(S)
  <2>1. Ascending(Free(Taken(i, q) \cup {q[i]}) \ Free(Taken(i, q))) \in Seq(S)
    <3>1. (Free(Taken(i, q) \cup {q[i]}) \ Free(Taken(i, q))) \in SUBSET S
      OBVIOUS
    <3> HIDE DEF Free, Taken
    <3> QED BY <1>1, <3>1
  <2> HIDE DEF Free, Taken
  <2> QED BY <2>1
<1> HIDE DEF Step, Free
<1> DEFINE g == [p \in Nat \X Seq(S) |-> Step(p[1] + 1, p[2])]
<1>4. g \in [Nat \X Seq(S) -> Seq(S)]
  BY <1>3
<1>5. PICK f \in [Nat -> Seq(S)] :
        f[0] = Ascending(Free({})) /\ \A i \in Nat : f[i + 1] = g[<<i, f[i]>>]
  <2> DEFINE Q == Seq(S)
             a == Ascending(Free({}))
  <2>1. a \in Q /\ g \in [Nat \X Q -> Q]
    BY <1>2, <1>4
  <2>2. \E f : IsIteration(f, Q, a, g)
    <3> HIDE DEF g, Q, a
    <3> QED BY <2>1, Iteration
  <2> HIDE DEF g
  <2> QED BY <2>2 DEF IsIteration
<1>6. \A i \in Nat : f[i + 1] = Step(i + 1, f[i])
  BY <1>5
<1> DEFINE h == [i \in 0..n |-> f[i]]
<1>7. n \in Nat
  BY FS_CardinalityType
<1>8. h = [i \in 0..n |-> IF i = 0 THEN Ascending(Free({})) ELSE Step(i, h[i - 1])]
  <2> SUFFICES ASSUME NEW i \in 0..n, i # 0 PROVE f[i] = Step(i, h[i - 1])
    BY <1>5
  <2>1. i - 1 \in Nat /\ i - 1 \in 0..n /\ (i - 1) + 1 = i
    BY <1>7
  <2>2. h[i - 1] = f[i - 1]
    BY <2>1
  <2> QED BY <1>6, <2>1, <2>2
<1>9. Queue = [i \in 0..n |-> IF i = 0 THEN Ascending(Free({})) ELSE Step(i, Queue[i - 1])]
  <2> HIDE DEF h, n
  <2> QED BY <1>8
<1>10. \A i \in Nat : i \in 0..n => Queue[i] \in Seq(S)
  <2> DEFINE G == {i \in Nat : i \in 0..n => Queue[i] \in Seq(S)}
  <2> HIDE DEF Queue
  <2>1. 0 \in G
    BY <1>2, <1>9
  <2>2. ASSUME NEW i \in Nat, i \in G PROVE i + 1 \in G
    <3> SUFFICES ASSUME i + 1 \in 0..n PROVE Queue[i + 1] \in Seq(S)
      OBVIOUS
    <3>1. i \in 0..n /\ (i + 1) - 1 = i /\ i + 1 # 0
      BY <1>7
    <3>2. Queue[i + 1] = Step(i + 1, Queue[i])
      BY <1>9, <3>1
    <3>3. Queue[i] \in Seq(S)
      BY <2>2, <3>1
    <3> QED BY <1>3, <3>2, <3>3
  <2> HIDE DEF G
  <2>3. Nat \subseteq G
    BY <2>1, <2>2, SetInduction
  <2> QED BY <2>3 DEF G
<1>11. TopologicalSort(parents, S) = Queue[n]
  BY DEF TopologicalSort, Step, Free
<1>12. Queue[n] \in Seq(S)
  <2>1. n \in 0..n
    BY <1>7
  <2> HIDE DEF Queue, n
  <2> QED BY <1>7, <1>10, <2>1
<1> HIDE DEF Queue, n
<1> QED BY <1>11, <1>12

\* The blues before the first and after each candidate.
IsColouring(blue, past, U, base, cand) ==
  /\ blue \in [0..Len(cand) -> SUBSET U]
  /\ blue[0] = base
  /\ \A i \in 1..Len(cand) :
       \/ blue[i] = blue[i - 1]
       \/ /\ Cardinality(BlueAnticone(past, blue[i - 1], cand[i])) <= K
          /\ blue[i] = blue[i - 1] \cup {cand[i]}
  /\ ColourInTurn(past, base, cand) = blue[Len(cand)]

\* The recursion of ColourInTurn has a solution, and ends in its value.
LEMMA ColourSteps ==
  ASSUME NEW past, NEW U, NEW base \in SUBSET U, NEW cand \in Seq(U)
  PROVE  \E blue : IsColouring(blue, past, U, base, cand)
<1> DEFINE n == Len(cand)
           Step(i, s) == IF Cardinality(BlueAnticone(past, s, cand[i])) <= K
                           THEN s \cup {cand[i]} ELSE s
           Blue == CHOOSE f : f = [i \in 0..n |->
                     IF i = 0 THEN base ELSE Step(i, f[i - 1])]
           g == [p \in Nat \X SUBSET U |-> IF p[1] + 1 \in 1..n THEN Step(p[1] + 1, p[2]) ELSE p[2]]
<1>1. n \in Nat /\ \A i \in 1..n : cand[i] \in U
  OBVIOUS
<1>2. ASSUME NEW i \in 1..n, NEW s \in SUBSET U PROVE Step(i, s) \in SUBSET U
  BY <1>1
<1>3. ColourInTurn(past, base, cand) = Blue[n]
  BY DEF ColourInTurn
<1> HIDE DEF n
<1>4. g \in [Nat \X SUBSET U -> SUBSET U]
  <2> HIDE DEF Step
  <2> QED BY <1>2
<1>5. PICK f \in [Nat -> SUBSET U] :
        f[0] = base /\ \A i \in Nat : f[i + 1] = g[<<i, f[i]>>]
  <2> DEFINE Q == SUBSET U
  <2>1. base \in Q /\ g \in [Nat \X Q -> Q]
    BY <1>4
  <2>2. \E f : IsIteration(f, Q, base, g)
    <3> HIDE DEF g, Q
    <3> QED BY <2>1, Iteration
  <2> HIDE DEF g
  <2> QED BY <2>2 DEF IsIteration
<1>6. \A i \in Nat : i + 1 \in 1..n => f[i + 1] = Step(i + 1, f[i])
  <2> HIDE DEF Step
  <2> QED BY <1>5
<1> DEFINE h == [i \in 0..n |-> f[i]]
<1>7. h = [i \in 0..n |-> IF i = 0 THEN base ELSE Step(i, h[i - 1])]
  <2> SUFFICES ASSUME NEW i \in 0..n, i # 0 PROVE f[i] = Step(i, h[i - 1])
    BY <1>5
  <2>1. i - 1 \in Nat /\ i - 1 \in 0..n /\ (i - 1) + 1 = i /\ i \in 1..n
    BY <1>1
  <2>2. h[i - 1] = f[i - 1]
    BY <2>1
  <2> HIDE DEF Step, h
  <2> QED BY <1>6, <2>1, <2>2
<1>8. Blue = [i \in 0..n |-> IF i = 0 THEN base ELSE Step(i, Blue[i - 1])]
  <2> HIDE DEF h, Step
  <2> QED BY <1>7
<1> HIDE DEF Blue
<1>9. \A i \in 1..n : Blue[i] = Step(i, Blue[i - 1])
  <2> HIDE DEF Step
  <2> QED BY <1>1, <1>8
<1>10. Blue[0] = base
  BY <1>1, <1>8
<1>11. \A i \in Nat : i \in 0..n => Blue[i] \in SUBSET U
  <2> DEFINE G == {i \in Nat : i \in 0..n => Blue[i] \in SUBSET U}
  <2>1. 0 \in G
    BY <1>10
  <2>2. ASSUME NEW i \in Nat, i \in G PROVE i + 1 \in G
    <3> SUFFICES ASSUME i + 1 \in 0..n PROVE Blue[i + 1] \in SUBSET U
      OBVIOUS
    <3>1. i \in 0..n /\ (i + 1) - 1 = i /\ i + 1 \in 1..n
      BY <1>1
    <3>2. Blue[i + 1] = Step(i + 1, Blue[i]) /\ Blue[i] \in SUBSET U
      BY <1>9, <2>2, <3>1
    <3> HIDE DEF Step
    <3> QED BY <1>2, <3>1, <3>2
  <2> HIDE DEF G
  <2>3. Nat \subseteq G
    BY <2>1, <2>2, SetInduction
  <2> QED BY <2>3 DEF G
<1>12. Blue \in [0..n -> SUBSET U]
  <2>1. DOMAIN Blue = 0..n /\ Blue = [i \in 0..n |-> Blue[i]]
    <3> HIDE DEF Step
    <3> QED BY <1>8
  <2>2. \A i \in 0..n : Blue[i] \in SUBSET U
    BY <1>1, <1>11
  <2> QED BY <2>1, <2>2
<1>13. IsColouring(Blue, past, U, base, cand)
  <2>1. \A i \in 1..n :
          \/ Blue[i] = Blue[i - 1]
          \/ /\ Cardinality(BlueAnticone(past, Blue[i - 1], cand[i])) <= K
             /\ Blue[i] = Blue[i - 1] \cup {cand[i]}
    BY <1>9
  <2> QED BY <1>3, <1>10, <1>12, <2>1 DEF n, IsColouring
<1> QED BY <1>13

\* The greedy pass keeps the inherited blues, adds candidates only, and
\* keeps the blue set narrow: a candidate joins next to K unrelated blues
\* at most, and those include all members of any antichain it completes.
LEMMA ColourInTurnProperty ==
  ASSUME NEW past, NEW U, IsFiniteSet(U), NEW base \in SUBSET U,
         NEW M \in SUBSET U, NEW cand \in Seq(M), Narrow(past, base)
  PROVE  LET R == ColourInTurn(past, base, cand)
         IN  base \subseteq R /\ R \subseteq base \cup M /\ Narrow(past, R)
<1> DEFINE n == Len(cand)
<1>1. n \in Nat /\ cand \in Seq(U) /\ \A i \in 1..n : cand[i] \in M
  OBVIOUS
<1>a. PICK blue : IsColouring(blue, past, U, base, cand)
  BY <1>1, ColourSteps
<1>2. /\ blue \in [0..n -> SUBSET U]
      /\ blue[0] = base
      /\ \A i \in 1..n :
           \/ blue[i] = blue[i - 1]
           \/ /\ Cardinality(BlueAnticone(past, blue[i - 1], cand[i])) <= K
              /\ blue[i] = blue[i - 1] \cup {cand[i]}
      /\ ColourInTurn(past, base, cand) = blue[n]
  BY <1>a DEF IsColouring
<1> HIDE DEF n
<1> DEFINE Good(R) == base \subseteq R /\ R \subseteq base \cup M /\ Narrow(past, R)
           G == {i \in Nat : i \in 0..n => Good(blue[i])}
<1>3. 0 \in G
  BY <1>2
<1>4. ASSUME NEW i \in Nat, i \in G PROVE i + 1 \in G
  <2> SUFFICES ASSUME i + 1 \in 0..n PROVE Good(blue[i + 1])
    OBVIOUS
  <2>1. i \in 0..n /\ i + 1 \in 1..n /\ (i + 1) - 1 = i
    BY <1>1
  <2> DEFINE c == cand[i + 1]
             B == blue[i]
  <2>2. Good(B) /\ B \in SUBSET U /\ c \in M
    BY <1>1, <1>2, <1>4, <2>1
  <2>3. CASE blue[i + 1] = B
    BY <2>2, <2>3
  <2>4. CASE /\ Cardinality(BlueAnticone(past, B, c)) <= K
             /\ blue[i + 1] = B \cup {c}
    <3> HIDE DEF c, B
    <3>1. Narrow(past, B \cup {c})
      <4> SUFFICES ASSUME NEW A \in SUBSET (B \cup {c}),
                          \A x, y \in A : x = y \/ Unrelated(past, x, y)
                   PROVE  Cardinality(A) <= K + 1
        BY DEF Narrow
      <4>1. CASE c \notin A
        <5>1. A \in SUBSET B
          BY <4>1
        <5> QED BY <2>2, <5>1 DEF Narrow
      <4>2. CASE c \in A
        <5>1. A \ {c} \subseteq BlueAnticone(past, B, c)
          BY <4>2 DEF BlueAnticone, Unrelated
        <5>2. IsFiniteSet(BlueAnticone(past, B, c))
          BY <2>2, FS_Subset DEF BlueAnticone
        <5>3. /\ IsFiniteSet(A \ {c})
              /\ Cardinality(A \ {c}) <= Cardinality(BlueAnticone(past, B, c))
          BY <5>1, <5>2, FS_Subset
        <5>4. (A \ {c}) \cup {c} = A /\ c \notin A \ {c}
          BY <4>2
        <5>5. Cardinality(A) = Cardinality(A \ {c}) + 1
          BY <5>3, <5>4, FS_AddElement
        <5>6. /\ Cardinality(A \ {c}) \in Nat
              /\ Cardinality(BlueAnticone(past, B, c)) \in Nat
          BY <5>2, <5>3, FS_CardinalityType
        <5> QED BY <2>4, <5>3, <5>5, <5>6, KIsNat
      <4> QED BY <4>1, <4>2
    <3> QED BY <2>2, <2>4, <3>1
  <2> HIDE DEF B, Good
  <2>5. \/ blue[i + 1] = B
        \/ /\ Cardinality(BlueAnticone(past, B, c)) <= K
           /\ blue[i + 1] = B \cup {c}
    BY <1>2, <2>1 DEF B
  <2> QED BY <2>3, <2>4, <2>5
<1>5. Nat \subseteq G
  <2> HIDE DEF G
  <2> QED BY <1>3, <1>4, SetInduction
<1>6. Good(blue[n])
  <2>1. n \in Nat /\ n \in 0..n
    BY <1>1
  <2> HIDE DEF Good
  <2> QED BY <1>5, <2>1
<1> QED BY <1>2, <1>6

-----------------------------------------------------------------------------
(* The inductive invariant of one Blockchain *)

Maps(V) == UNION {[B -> V] : B \in SUBSET Nat}

BlockchainType ==
  [ parents : Maps(SUBSET Nat), past : Maps(SUBSET Nat), blue : Maps(SUBSET Nat),
    score : Maps(Nat), sparent : Maps(Int), tips : SUBSET Nat,
    isBlue : SUBSET Nat, orphans : Maps(SUBSET Nat), next : Nat ]

\* hdr holds the parents of every block there is; genesis alone has none.
HeaderOK(hdr) ==
  /\ DOMAIN hdr \subseteq Nat /\ Genesis \in DOMAIN hdr
  /\ \A b \in DOMAIN hdr : hdr[b] \subseteq DOMAIN hdr
  /\ \A b \in DOMAIN hdr : hdr[b] = {} <=> b = Genesis

BlocksOK(d, hdr) ==
  /\ d \in BlockchainType
  /\ IsFiniteSet(Blocks(d)) /\ Genesis \in Blocks(d) /\ Blocks(d) \subseteq DOMAIN hdr
  /\ DOMAIN d.past = Blocks(d) /\ DOMAIN d.blue = Blocks(d)
  /\ DOMAIN d.score = Blocks(d) /\ DOMAIN d.sparent = Blocks(d)
  /\ \A b \in Blocks(d) : d.parents[b] = hdr[b] /\ hdr[b] \subseteq Blocks(d)

OrphansOK(d, hdr) ==
  /\ IsFiniteSet(DOMAIN d.orphans)
  /\ DOMAIN d.orphans \subseteq DOMAIN hdr \ Blocks(d)
  /\ \A o \in DOMAIN d.orphans : d.orphans[o] = hdr[o]

PastOK(d) ==
  \A b \in Blocks(d) :
    /\ d.past[b] = PastOf(d, d.parents[b])
    /\ d.past[b] \subseteq Blocks(d)
    /\ b \notin d.past[b]
    /\ \A c \in d.past[b] : d.past[c] \subseteq d.past[b]

BlueOK(d) ==
  \A b \in Blocks(d) :
    /\ b \in d.blue[b] /\ d.blue[b] \subseteq d.past[b] \cup {b}
    /\ d.score[b] = Cardinality(d.past[b] \cap d.blue[b]) + 1
    /\ Narrow(d.past, d.blue[b])

\* The colour of b is what Colouring computes from its ancestors, and it
\* extends that of the selected parent.
ColourOK(d) ==
  \A b \in Blocks(d) \ {Genesis} :
    /\ [sparent |-> d.sparent[b], blue |-> d.blue[b], score |-> d.score[b]]
         = Colouring(View(d, d.past[b]), b, d.parents[b])
    /\ d.sparent[b] \in d.parents[b]
    /\ d.blue[d.sparent[b]] \subseteq d.blue[b]
    /\ \A p \in d.parents[b] : /\ d.score[p] <= d.score[d.sparent[b]]
                               /\ d.score[p] < d.score[b]

GenesisOK(d) == d.sparent[Genesis] = NoBlock /\ d.past[Genesis] = {}

TipsOK(d) ==
  /\ d.tips # {}
  /\ d.tips = {b \in Blocks(d) : \A c \in Blocks(d) : b \notin d.past[c]}

FlagsOK(d) == d.isBlue = d.blue[SelectTip(d)]

ChainInv(d, hdr) ==
  /\ BlocksOK(d, hdr) /\ OrphansOK(d, hdr) /\ PastOK(d) /\ GenesisOK(d)
  /\ BlueOK(d) /\ ColourOK(d) /\ TipsOK(d) /\ FlagsOK(d)

\* e holds all d holds, with the same data.
Extends(e, d) ==
  /\ Blocks(d) \subseteq Blocks(e)
  /\ \A b \in Blocks(d) :
       /\ e.past[b] = d.past[b]   /\ e.blue[b] = d.blue[b]
       /\ e.score[b] = d.score[b] /\ e.sparent[b] = d.sparent[b]
  /\ e.next = d.next

\* Accepted or set aside: what HandleBlock takes for a duplicate.
Holding(d) == Blocks(d) \cup DOMAIN d.orphans

\* The selected tip of e ranks no lower than that of d.
TipRises(e, d) ==
  \/ e.score[SelectTip(e)] > d.score[SelectTip(d)]
  \/ e.score[SelectTip(e)] = d.score[SelectTip(d)] /\ SelectTip(e) <= SelectTip(d)

\* Maps stay maps when an entry is written.
LEMMA PutMaps ==
  ASSUME NEW V, NEW f \in Maps(V), NEW x \in Nat, NEW v \in V
  PROVE  Put(f, x, v) \in Maps(V)
<1>1. PICK B \in SUBSET Nat : f \in [B -> V]
  BY DEF Maps
<1>2. Put(f, x, v) \in [B \cup {x} -> V] /\ B \cup {x} \in SUBSET Nat
  BY <1>1 DEF Put
<1> QED BY <1>2 DEF Maps

\* Maps stay maps when an entry is taken out.
LEMMA WithoutMaps ==
  ASSUME NEW V, NEW f \in Maps(V), NEW x
  PROVE  Without(f, x) \in Maps(V)
<1>1. PICK B \in SUBSET Nat : f \in [B -> V]
  BY DEF Maps
<1>2. Without(f, x) \in [B \ {x} -> V] /\ B \ {x} \in SUBSET Nat
  BY <1>1 DEF Without
<1> QED BY <1>2 DEF Maps

\* The selected tip is an accepted block that no tip outranks.
LEMMA SelectTipProperty ==
  ASSUME NEW d, NEW hdr, HeaderOK(hdr), BlocksOK(d, hdr), TipsOK(d)
  PROVE  /\ SelectTip(d) \in d.tips /\ d.tips \subseteq Blocks(d)
         /\ \A y \in d.tips : \/ d.score[SelectTip(d)] > d.score[y]
                              \/ /\ d.score[SelectTip(d)] = d.score[y]
                                 /\ SelectTip(d) <= y
<1>1. d.tips \subseteq Blocks(d) /\ d.tips # {} /\ d.tips \subseteq Nat
  BY DEF TipsOK, BlocksOK, HeaderOK
<1>2. IsFiniteSet(d.tips)
  BY <1>1, FS_Subset DEF BlocksOK
<1>3. d.score \in Maps(Nat) /\ DOMAIN d.score = Blocks(d)
  BY DEF BlocksOK, BlockchainType
<1>4. \A x \in d.tips : d.score[x] \in Nat
  BY <1>1, <1>3 DEF Maps
<1> QED BY <1>1, <1>2, <1>4, HeaviestProperty DEF SelectTip

\* An entry of a map.
LEMMA MapsEntry ==
  ASSUME NEW V, NEW f \in Maps(V), NEW y \in DOMAIN f
  PROVE  y \in Nat /\ f[y] \in V
BY DEF Maps

\* Types of the maps, block by block.
LEMMA EntryTypes ==
  ASSUME NEW d, NEW hdr, BlocksOK(d, hdr), NEW b \in Blocks(d)
  PROVE  /\ d.score[b] \in Nat /\ d.past[b] \subseteq Nat /\ d.blue[b] \subseteq Nat
         /\ d.sparent[b] \in Int /\ b \in Nat
<1>1. /\ d.score \in Maps(Nat) /\ d.past \in Maps(SUBSET Nat)
      /\ d.blue \in Maps(SUBSET Nat) /\ d.sparent \in Maps(Int)
      /\ d.parents \in Maps(SUBSET Nat)
  BY DEF BlocksOK, BlockchainType
<1>2. /\ b \in DOMAIN d.score /\ b \in DOMAIN d.past /\ b \in DOMAIN d.blue
      /\ b \in DOMAIN d.sparent
  BY DEF BlocksOK
<1>3. d.score[b] \in Nat /\ b \in Nat
  BY <1>1, <1>2, MapsEntry
<1>4. d.past[b] \in SUBSET Nat
  BY <1>1, <1>2, MapsEntry
<1>5. d.blue[b] \in SUBSET Nat
  BY <1>1, <1>2, MapsEntry
<1>6. d.sparent[b] \in Int
  BY <1>1, <1>2, MapsEntry
<1> QED BY <1>3, <1>4, <1>5, <1>6

\* The ancestors of accepted parents: accepted, and closed under past.
LEMMA PastOfProperty ==
  ASSUME NEW d, NEW hdr, BlocksOK(d, hdr), PastOK(d),
         NEW ps \in SUBSET Blocks(d)
  PROVE  /\ PastOf(d, ps) \subseteq Blocks(d) /\ ps \subseteq PastOf(d, ps)
         /\ IsFiniteSet(PastOf(d, ps))
         /\ \A x \in PastOf(d, ps) : d.past[x] \subseteq PastOf(d, ps)
         /\ \A p \in ps : d.past[p] \subseteq PastOf(d, ps)
<1>1. PastOf(d, ps) \subseteq Blocks(d) /\ ps \subseteq PastOf(d, ps)
  BY DEF PastOf, PastOK
<1>2. IsFiniteSet(PastOf(d, ps))
  BY <1>1, FS_Subset DEF BlocksOK
<1>3. \A p \in ps : d.past[p] \subseteq PastOf(d, ps)
  BY DEF PastOf
<1>4. ASSUME NEW x \in PastOf(d, ps) PROVE d.past[x] \subseteq PastOf(d, ps)
  <2>1. CASE x \in ps
    BY <1>3, <2>1
  <2>2. CASE x \notin ps
    <3>1. PICK p \in ps : x \in d.past[p]
      BY <2>2 DEF PastOf
    <3>2. d.past[x] \subseteq d.past[p]
      BY <3>1 DEF PastOK
    <3> QED BY <1>3, <3>2
  <2> QED BY <2>1, <2>2
<1> QED BY <1>1, <1>2, <1>3, <1>4

\* Narrow depends on the ancestors of the members only.
LEMMA NarrowTransfer ==
  ASSUME NEW past, NEW other, NEW S, \A x \in S : past[x] = other[x],
         Narrow(past, S)
  PROVE  Narrow(other, S)
<1> SUFFICES ASSUME NEW A \in SUBSET S,
                    \A x, y \in A : x = y \/ Unrelated(other, x, y)
             PROVE  Cardinality(A) <= K + 1
  BY DEF Narrow
<1>1. \A x, y \in A : x = y \/ Unrelated(past, x, y)
  BY DEF Unrelated
<1> QED BY <1>1 DEF Narrow

\* What Colouring computes for a block on accepted parents.
LEMMA ColouringProperty ==
  ASSUME NEW d, NEW hdr, HeaderOK(hdr), BlocksOK(d, hdr), PastOK(d), BlueOK(d),
         NEW ps \in SUBSET Blocks(d), ps # {}, NEW b \in Nat \ Blocks(d)
  PROVE  LET P == PastOf(d, ps)
             c == Colouring(View(d, P), b, ps)
         IN  /\ c = [sparent |-> c.sparent, blue |-> c.blue, score |-> c.score]
             /\ c.sparent \in ps
             /\ d.blue[c.sparent] \subseteq c.blue
             /\ b \in c.blue /\ c.blue \subseteq P \cup {b}
             /\ c.score = Cardinality(P \cap c.blue) + 1 /\ c.score \in Nat
             /\ \A p \in ps : /\ d.score[p] <= d.score[c.sparent]
                              /\ d.score[p] < c.score
             /\ Narrow(d.past, c.blue \ {b})
<1> DEFINE P == PastOf(d, ps)
           v == View(d, P)
           c == Colouring(v, b, ps)
           sp == c.sparent
           M == (P \ d.past[sp]) \ {sp}
           order == TopologicalSort(v.parents, M)
           R == ColourInTurn(v.past, d.blue[sp], order)
<1>1. /\ P \subseteq Blocks(d) /\ ps \subseteq P /\ IsFiniteSet(P)
      /\ P \subseteq Nat /\ \A p \in ps : d.past[p] \subseteq P
  BY PastOfProperty DEF BlocksOK, HeaderOK
<1>2. /\ v.past = [x \in P |-> d.past[x]] /\ v.blue = [x \in P |-> d.blue[x]]
      /\ v.score = [x \in P |-> d.score[x]] /\ DOMAIN v.past = P
  BY DEF View, Only
<1>3. sp = Heaviest(ps, v.score) /\ c.blue = GreedyBlueSet(v, b, sp)
      /\ c.score = Cardinality(P \cap c.blue) + 1
      /\ c = [sparent |-> c.sparent, blue |-> c.blue, score |-> c.score]
  BY <1>2 DEF Colouring
<1>4. sp \in ps /\ \A p \in ps : d.score[p] <= d.score[sp]
  <2>1. IsFiniteSet(ps) /\ ps \in SUBSET Nat
    BY <1>1, FS_Subset
  <2>2. \A x \in ps : v.score[x] = d.score[x] /\ v.score[x] \in Nat
    BY <1>1, <1>2, EntryTypes
  <2>3. /\ sp \in ps
        /\ \A y \in ps : v.score[sp] > v.score[y] \/ v.score[sp] = v.score[y]
    BY <1>3, <2>1, <2>2, HeaviestProperty
  <2> HIDE DEF sp, v
  <2> QED BY <2>2, <2>3
<1>5. c.blue = R \cup {b}
  <2>1. v.past[sp] = d.past[sp] /\ v.blue[sp] = d.blue[sp]
    BY <1>1, <1>2, <1>4
  <2>2. c.blue = GreedyBlueSet(v, b, sp) /\ DOMAIN v.past = P
    BY <1>2, <1>3
  <2> HIDE DEF v, sp, P, c
  <2> QED BY <2>1, <2>2 DEF GreedyBlueSet
<1>6. d.blue[sp] \subseteq R /\ R \subseteq d.blue[sp] \cup M /\ Narrow(v.past, R)
  <2>1. sp \in Blocks(d) /\ d.blue[sp] \subseteq d.past[sp] \cup {sp}
    BY <1>1, <1>4 DEF BlueOK
  <2>2. d.blue[sp] \in SUBSET P /\ M \in SUBSET P /\ M \in SUBSET Nat
    BY <1>1, <1>4, <2>1
  <2>3. order \in Seq(M)
    <3>1. IsFiniteSet(M)
      BY <1>1, <2>2, FS_Subset
    <3> HIDE DEF M, v
    <3> QED BY <2>2, <3>1, TopologicalSortType
  <2>4. Narrow(v.past, d.blue[sp])
    <3>1. Narrow(d.past, d.blue[sp])
      BY <2>1 DEF BlueOK
    <3>2. \A x \in d.blue[sp] : d.past[x] = v.past[x]
      BY <1>2, <2>2
    <3> HIDE DEF v, sp
    <3> QED BY <3>1, <3>2, NarrowTransfer
  <2> DEFINE base == d.blue[sp]
             pst == v.past
             RR == ColourInTurn(pst, base, order)
  <2>5. base \subseteq RR /\ RR \subseteq base \cup M /\ Narrow(pst, RR)
    <3>1. /\ IsFiniteSet(P) /\ base \in SUBSET P /\ M \in SUBSET P
          /\ order \in Seq(M) /\ Narrow(pst, base)
      <4> HIDE DEF M, order, v, sp, P
      <4> QED BY <1>1, <2>2, <2>3, <2>4
    <3> HIDE DEF M, order, pst, P, base
    <3> QED BY <3>1, ColourInTurnProperty
  <2> HIDE DEF v, sp, order, M
  <2> QED BY <2>5
<1>7. R \subseteq P /\ b \notin P
  <2>1. sp \in Blocks(d) /\ d.blue[sp] \subseteq d.past[sp] \cup {sp}
    BY <1>1, <1>4 DEF BlueOK
  <2> HIDE DEF R, P, sp
  <2> QED BY <1>1, <1>4, <1>6, <2>1
<1>8. c.blue \ {b} = R /\ P \cap c.blue = R
  <2> HIDE DEF R, P, c
  <2> QED BY <1>5, <1>7
<1>9. Narrow(d.past, R)
  <2>1. \A x \in R : v.past[x] = d.past[x]
    <3> HIDE DEF R, P, v
    <3> QED BY <1>2, <1>7
  <2> HIDE DEF R, v
  <2> QED BY <1>6, <2>1, NarrowTransfer
<1>10. IsFiniteSet(R) /\ Cardinality(R) \in Nat
  <2> HIDE DEF R, P
  <2> QED BY <1>1, <1>7, FS_Subset, FS_CardinalityType
<1>11. d.score[sp] \in Nat /\ d.score[sp] <= Cardinality(R)
  <2>1. /\ sp \in Blocks(d) /\ d.blue[sp] \subseteq d.past[sp] \cup {sp}
        /\ sp \in d.blue[sp] /\ sp \notin d.past[sp]
        /\ d.score[sp] = Cardinality(d.past[sp] \cap d.blue[sp]) + 1
    BY <1>1, <1>4 DEF BlueOK, PastOK
  <2> DEFINE Q == d.past[sp] \cap d.blue[sp]
  <2>2. d.blue[sp] = Q \cup {sp} /\ sp \notin Q /\ Q \subseteq R
    <3> HIDE DEF R, sp
    <3> QED BY <1>6, <2>1
  <2>3. IsFiniteSet(d.blue[sp]) /\ Cardinality(d.blue[sp]) <= Cardinality(R)
    <3> HIDE DEF R, sp
    <3> QED BY <1>6, <1>10, FS_Subset
  <2>4. IsFiniteSet(Q)
    <3> HIDE DEF R, Q
    <3> QED BY <1>10, <2>2, FS_Subset
  <2>5. Cardinality(d.blue[sp]) = Cardinality(Q) + 1
    <3> HIDE DEF Q, sp
    <3> QED BY <2>2, <2>4, FS_AddElement
  <2>6. d.score[sp] \in Nat
    BY <2>1, EntryTypes
  <2> HIDE DEF sp, R
  <2> QED BY <2>1, <2>3, <2>5, <2>6
<1>12. c.score = Cardinality(R) + 1
  BY <1>3, <1>8
<1>13. \A p \in ps : d.score[p] \in Nat
  BY EntryTypes
<1>14. \A p \in ps : d.score[p] < c.score
  <2> HIDE DEF c, R, P, sp
  <2> QED BY <1>4, <1>10, <1>11, <1>12, <1>13
<1>15. b \in c.blue /\ c.blue \subseteq P \cup {b} /\ d.blue[sp] \subseteq c.blue
  <2> HIDE DEF c, R, P, sp
  <2> QED BY <1>5, <1>6, <1>7
<1>16. c.score \in Nat
  BY <1>10, <1>12
<1> HIDE DEF R
<1> QED BY <1>3, <1>4, <1>8, <1>9, <1>14, <1>15, <1>16

\* Field by field, what Insert returns.
LEMMA InsertFields ==
  ASSUME NEW d, NEW b, NEW ps
  PROVE  LET e == Insert(d, b, ps)
             P == PastOf(d, ps)
             c == Colouring(View(d, P), b, ps)
         IN  /\ e = [ parents |-> Put(d.parents, b, ps), past |-> Put(d.past, b, P),
                      blue |-> Put(d.blue, b, c.blue), score |-> Put(d.score, b, c.score),
                      sparent |-> Put(d.sparent, b, c.sparent),
                      tips |-> (d.tips \ ps) \cup {b}, isBlue |-> e.isBlue,
                      orphans |-> d.orphans, next |-> d.next ]
             /\ e.isBlue = e.blue[SelectTip(e)] \cap Blocks(e)
<1> DEFINE r == Record(d, b, ps)
           e == Insert(d, b, ps)
<1>1. e = [r EXCEPT !.isBlue = r.blue[SelectTip(r)] \cap Blocks(r)]
  BY DEF Insert, Reflag
<1>2. SelectTip(e) = SelectTip(r) /\ e.blue = r.blue /\ Blocks(e) = Blocks(r)
  BY <1>1 DEF SelectTip, Record, Blocks
<1>3. e.isBlue = e.blue[SelectTip(e)] \cap Blocks(e)
  <2>1. e.isBlue = r.blue[SelectTip(r)] \cap Blocks(r)
    BY <1>1 DEF Record
  <2> HIDE DEF e, r
  <2> QED BY <1>2, <2>1
<1> QED BY <1>1, <1>3 DEF Record, NewBlue, NewTips

\* Insert adds one block on accepted parents, keeps the invariant and the
\* data of the other blocks, and does not lower the selected tip.
LEMMA InsertProperty ==
  ASSUME NEW d, NEW hdr, HeaderOK(hdr), ChainInv(d, hdr),
         NEW b \in DOMAIN hdr, b \notin Blocks(d), b \notin DOMAIN d.orphans,
         hdr[b] \subseteq Blocks(d)
  PROVE  LET e == Insert(d, b, hdr[b])
         IN  /\ ChainInv(e, hdr) /\ Extends(e, d) /\ TipRises(e, d)
             /\ Blocks(e) = Blocks(d) \cup {b} /\ e.orphans = d.orphans
<1> DEFINE ps == hdr[b]
           P  == PastOf(d, ps)
           c  == Colouring(View(d, P), b, ps)
           e  == Insert(d, b, ps)
           B  == Blocks(d)
<1> USE DEF ChainInv
<1>1. b # Genesis /\ b \in Nat /\ ps # {} /\ ps \in SUBSET B /\ B \subseteq Nat
  BY DEF HeaderOK, BlocksOK
<1>2. /\ e = [ parents |-> Put(d.parents, b, ps), past |-> Put(d.past, b, P),
               blue |-> Put(d.blue, b, c.blue), score |-> Put(d.score, b, c.score),
               sparent |-> Put(d.sparent, b, c.sparent),
               tips |-> (d.tips \ ps) \cup {b}, isBlue |-> e.isBlue,
               orphans |-> d.orphans, next |-> d.next ]
      /\ e.isBlue = e.blue[SelectTip(e)] \cap Blocks(e)
  BY InsertFields
<1>3. /\ P \subseteq B /\ ps \subseteq P /\ IsFiniteSet(P)
      /\ \A x \in P : d.past[x] \subseteq P
  BY <1>1, PastOfProperty
<1>4. /\ c = [sparent |-> c.sparent, blue |-> c.blue, score |-> c.score]
      /\ c.sparent \in ps /\ d.blue[c.sparent] \subseteq c.blue
      /\ b \in c.blue /\ c.blue \subseteq P \cup {b}
      /\ c.score = Cardinality(P \cap c.blue) + 1 /\ c.score \in Nat
      /\ \A p \in ps : d.score[p] <= d.score[c.sparent] /\ d.score[p] < c.score
      /\ Narrow(d.past, c.blue \ {b})
  <2>1. b \in Nat \ Blocks(d)
    BY <1>1
  <2> QED BY <1>1, <2>1, ColouringProperty
<1> HIDE DEF c, e, P
<1>5. /\ DOMAIN d.parents = B /\ DOMAIN d.past = B /\ DOMAIN d.blue = B
      /\ DOMAIN d.score = B /\ DOMAIN d.sparent = B
  BY DEF BlocksOK, Blocks
<1>6. /\ e.parents = Put(d.parents, b, ps) /\ e.past = Put(d.past, b, P)
      /\ e.blue = Put(d.blue, b, c.blue) /\ e.score = Put(d.score, b, c.score)
      /\ e.sparent = Put(d.sparent, b, c.sparent)
      /\ e.tips = (d.tips \ ps) \cup {b} /\ e.orphans = d.orphans /\ e.next = d.next
  BY <1>2
<1>7. /\ e.parents[b] = ps /\ e.past[b] = P /\ e.blue[b] = c.blue
      /\ e.score[b] = c.score /\ e.sparent[b] = c.sparent
  BY <1>6 DEF Put
<1>8. \A x \in B : /\ e.parents[x] = d.parents[x] /\ e.past[x] = d.past[x]
                   /\ e.blue[x] = d.blue[x] /\ e.score[x] = d.score[x]
                   /\ e.sparent[x] = d.sparent[x] /\ x # b
  BY <1>5, <1>6 DEF Put
<1>9. /\ Blocks(e) = B \cup {b} /\ DOMAIN e.past = B \cup {b}
      /\ DOMAIN e.blue = B \cup {b} /\ DOMAIN e.score = B \cup {b}
      /\ DOMAIN e.sparent = B \cup {b}
  <2>1. Blocks(e) = DOMAIN Put(d.parents, b, ps)
    BY <1>6 DEF Blocks
  <2> QED BY <1>5, <1>6, <2>1 DEF Put
<1>10. Extends(e, d)
  BY <1>6, <1>8, <1>9 DEF Extends
<1>11. PastOK(e)
  <2> SUFFICES ASSUME NEW x \in B \cup {b}
               PROVE  /\ e.past[x] = PastOf(e, e.parents[x])
                      /\ e.past[x] \subseteq B \cup {b}
                      /\ x \notin e.past[x]
                      /\ \A y \in e.past[x] : e.past[y] \subseteq e.past[x]
    BY <1>9 DEF PastOK
  <2>1. \A qs \in SUBSET B : PastOf(e, qs) = PastOf(d, qs)
    BY <1>8 DEF PastOf
  <2>2. CASE x = b
    <3>1. PastOf(e, ps) = P
      BY <1>1, <2>1 DEF P
    <3>2. \A y \in P : e.past[y] \subseteq P
      BY <1>3, <1>8
    <3> QED BY <1>3, <1>7, <2>2, <3>1, <3>2
  <2>3. CASE x \in B
    <3>1. /\ d.past[x] = PastOf(d, d.parents[x]) /\ d.past[x] \subseteq B
          /\ x \notin d.past[x] /\ \A y \in d.past[x] : d.past[y] \subseteq d.past[x]
      BY <2>3 DEF PastOK
    <3>2. d.parents[x] \subseteq B
      BY <2>3 DEF BlocksOK
    <3> QED BY <1>8, <2>1, <2>3, <3>1, <3>2
  <2> QED BY <2>2, <2>3
<1>12. BlueOK(e)
  <2> SUFFICES ASSUME NEW x \in B \cup {b}
               PROVE  /\ x \in e.blue[x] /\ e.blue[x] \subseteq e.past[x] \cup {x}
                      /\ e.score[x] = Cardinality(e.past[x] \cap e.blue[x]) + 1
                      /\ Narrow(e.past, e.blue[x])
    BY <1>9 DEF BlueOK
  <2>1. CASE x = b
    <3>1. Narrow(e.past, c.blue)
      <4> SUFFICES ASSUME NEW A \in SUBSET c.blue,
                          \A u, w \in A : u = w \/ Unrelated(e.past, u, w)
                   PROVE  Cardinality(A) <= K + 1
        BY DEF Narrow
      <4>1. CASE b \in A
        <5>1. \A u \in A : u = b
          <6> SUFFICES ASSUME NEW u \in A, u # b PROVE FALSE
            OBVIOUS
          <6>1. u \in P
            BY <1>4
          <6>2. Unrelated(e.past, u, b)
            BY <4>1
          <6> QED BY <1>7, <6>1, <6>2 DEF Unrelated
        <5>2. A = {b}
          BY <4>1, <5>1
        <5>3. Cardinality(A) = 1
          BY <5>2, FS_Singleton
        <5> QED BY <5>3, KIsNat
      <4>2. CASE b \notin A
        <5>1. A \in SUBSET (c.blue \ {b})
          BY <4>2
        <5>2. \A u \in c.blue \ {b} : d.past[u] = e.past[u]
          BY <1>3, <1>4, <1>8
        <5>3. Narrow(e.past, c.blue \ {b})
          BY <1>4, <5>2, NarrowTransfer
        <5> QED BY <5>1, <5>3 DEF Narrow
      <4> QED BY <4>1, <4>2
    <3> QED BY <1>4, <1>7, <2>1, <3>1
  <2>2. CASE x \in B
    <3>1. /\ x \in d.blue[x] /\ d.blue[x] \subseteq d.past[x] \cup {x}
          /\ d.score[x] = Cardinality(d.past[x] \cap d.blue[x]) + 1
          /\ Narrow(d.past, d.blue[x]) /\ d.past[x] \subseteq B
      BY <2>2 DEF BlueOK, PastOK
    <3>2. \A u \in d.blue[x] : d.past[u] = e.past[u]
      BY <1>8, <2>2, <3>1
    <3>3. Narrow(e.past, d.blue[x])
      BY <3>1, <3>2, NarrowTransfer
    <3> QED BY <1>8, <2>2, <3>1, <3>3
  <2> QED BY <2>1, <2>2
<1>13. ASSUME NEW S \in SUBSET B PROVE View(e, S) = View(d, S)
  <2>1. /\ Only(e.parents, S) = Only(d.parents, S) /\ Only(e.past, S) = Only(d.past, S)
        /\ Only(e.blue, S) = Only(d.blue, S) /\ Only(e.score, S) = Only(d.score, S)
    BY <1>8 DEF Only
  <2> QED BY <2>1 DEF View
<1>14. ColourOK(e)
  <2> SUFFICES ASSUME NEW x \in B \cup {b}, x # Genesis
               PROVE  /\ [sparent |-> e.sparent[x], blue |-> e.blue[x], score |-> e.score[x]]
                           = Colouring(View(e, e.past[x]), x, e.parents[x])
                      /\ e.sparent[x] \in e.parents[x]
                      /\ e.blue[e.sparent[x]] \subseteq e.blue[x]
                      /\ \A p \in e.parents[x] : /\ e.score[p] <= e.score[e.sparent[x]]
                                                 /\ e.score[p] < e.score[x]
    BY <1>9 DEF ColourOK
  <2>1. CASE x = b
    <3>1. View(e, P) = View(d, P)
      BY <1>3, <1>13
    <3>2. Colouring(View(e, P), b, ps) = c
      BY <3>1 DEF c, P
    <3>3. [sparent |-> e.sparent[b], blue |-> e.blue[b], score |-> e.score[b]] = c
      BY <1>4, <1>7
    <3>4. c.sparent \in B
      BY <1>1, <1>4
    <3>5. \A p \in ps : e.score[p] = d.score[p]
      BY <1>1, <1>8
    <3> QED BY <1>4, <1>7, <1>8, <2>1, <3>2, <3>3, <3>4, <3>5
  <2>2. CASE x \in B
    <3>1. /\ [sparent |-> d.sparent[x], blue |-> d.blue[x], score |-> d.score[x]]
               = Colouring(View(d, d.past[x]), x, d.parents[x])
          /\ d.sparent[x] \in d.parents[x]
          /\ d.blue[d.sparent[x]] \subseteq d.blue[x]
          /\ \A p \in d.parents[x] : /\ d.score[p] <= d.score[d.sparent[x]]
                                     /\ d.score[p] < d.score[x]
      BY <2>2 DEF ColourOK
    <3>2. d.past[x] \subseteq B /\ d.parents[x] \subseteq B
      BY <2>2 DEF PastOK, BlocksOK
    <3>3. View(e, d.past[x]) = View(d, d.past[x])
      BY <1>13, <3>2
    <3>4. \A p \in d.parents[x] : e.score[p] = d.score[p] /\ e.blue[p] = d.blue[p]
      BY <1>8, <3>2
    <3> QED BY <1>8, <2>2, <3>1, <3>3, <3>4
  <2> QED BY <2>1, <2>2
<1>15. GenesisOK(e)
  BY <1>8 DEF GenesisOK, BlocksOK
<1>16. TipsOK(e)
  <2>1. ASSUME NEW y \in B
        PROVE  (\A x \in B \cup {b} : y \notin e.past[x]) <=> y \in d.tips \ ps
    <3>1. y \in d.tips <=> \A x \in B : y \notin d.past[x]
      BY DEF TipsOK
    <3>2. (\A x \in B \cup {b} : y \notin e.past[x]) <=> y \in d.tips /\ y \notin P
      BY <1>7, <1>8, <3>1
    <3>3. y \in d.tips => (y \in P <=> y \in ps)
      BY <1>1, <1>3, <3>1 DEF P, PastOf
    <3> QED BY <3>2, <3>3
  <2>2. \A x \in B \cup {b} : b \notin e.past[x]
    BY <1>3, <1>7, <1>8 DEF PastOK
  <2>3. d.tips \subseteq B
    BY DEF TipsOK
  <2>4. e.tips = {y \in B \cup {b} : \A x \in B \cup {b} : y \notin e.past[x]}
    BY <1>6, <2>1, <2>2, <2>3
  <2> QED BY <1>6, <1>9, <2>4 DEF TipsOK
<1>17. BlocksOK(e, hdr)
  <2>1. IsFiniteSet(B \cup {b}) /\ Genesis \in B /\ B \subseteq DOMAIN hdr
    BY FS_AddElement DEF BlocksOK
  <2>2. \A x \in B \cup {b} : e.parents[x] = hdr[x] /\ hdr[x] \subseteq B \cup {b}
    BY <1>1, <1>7, <1>8 DEF BlocksOK
  <2>3. /\ P \in SUBSET Nat /\ c.blue \in SUBSET Nat /\ c.score \in Nat
        /\ c.sparent \in Int /\ ps \in SUBSET Nat
    BY <1>1, <1>3, <1>4
  <2>4. /\ d.parents \in Maps(SUBSET Nat) /\ d.past \in Maps(SUBSET Nat)
        /\ d.blue \in Maps(SUBSET Nat) /\ d.score \in Maps(Nat)
        /\ d.sparent \in Maps(Int) /\ d.tips \in SUBSET Nat
        /\ d.orphans \in Maps(SUBSET Nat) /\ d.next \in Nat
    BY DEF BlocksOK, BlockchainType
  <2>5. e.parents \in Maps(SUBSET Nat) /\ e.past \in Maps(SUBSET Nat)
    <3>1. Put(d.parents, b, ps) \in Maps(SUBSET Nat)
      BY <1>1, <2>3, <2>4, PutMaps
    <3>2. Put(d.past, b, P) \in Maps(SUBSET Nat)
      BY <1>1, <2>3, <2>4, PutMaps
    <3> QED BY <1>6, <3>1, <3>2
  <2>6. e.blue \in Maps(SUBSET Nat) /\ e.score \in Maps(Nat)
    <3>1. Put(d.blue, b, c.blue) \in Maps(SUBSET Nat)
      BY <1>1, <2>3, <2>4, PutMaps
    <3>2. Put(d.score, b, c.score) \in Maps(Nat)
      BY <1>1, <2>3, <2>4, PutMaps
    <3> QED BY <1>6, <3>1, <3>2
  <2>7. e.sparent \in Maps(Int) /\ e.tips \in SUBSET Nat
    <3>1. Put(d.sparent, b, c.sparent) \in Maps(Int)
      BY <1>1, <2>3, <2>4, PutMaps
    <3> QED BY <1>1, <1>6, <2>4, <3>1
  <2>8. e.isBlue \in SUBSET Nat
    BY <1>1, <1>2, <1>9
  <2>9. e \in BlockchainType
    BY <1>2, <1>6, <2>4, <2>5, <2>6, <2>7, <2>8 DEF BlockchainType
  <2> QED BY <1>9, <2>1, <2>2, <2>9 DEF BlocksOK
<1>18. OrphansOK(e, hdr)
  BY <1>6, <1>9 DEF OrphansOK
<1>19. /\ SelectTip(e) \in e.tips /\ e.tips \subseteq B \cup {b}
       /\ \A y \in e.tips : \/ e.score[SelectTip(e)] > e.score[y]
                            \/ /\ e.score[SelectTip(e)] = e.score[y]
                               /\ SelectTip(e) <= y
  BY <1>9, <1>16, <1>17, SelectTipProperty
<1>20. FlagsOK(e)
  <2>1. ASSUME NEW u \in B \cup {b} PROVE e.blue[u] \subseteq B \cup {b}
    <3>1. e.past[u] \subseteq B \cup {b}
      BY <1>9, <1>11 DEF PastOK
    <3>2. e.blue[u] \subseteq e.past[u] \cup {u}
      BY <1>9, <1>12 DEF BlueOK
    <3> QED BY <3>1, <3>2
  <2> QED BY <1>2, <1>9, <1>19, <2>1 DEF FlagsOK
<1>21. TipRises(e, d)
  <2>1. SelectTip(d) \in d.tips /\ d.tips \subseteq B
    BY SelectTipProperty
  <2>2. \A x \in B \cup {b} : e.score[x] \in Nat
    BY <1>9, <1>17, EntryTypes
  <2>3. e.score[SelectTip(d)] = d.score[SelectTip(d)]
    BY <1>8, <2>1
  <2>4. CASE SelectTip(d) \in ps
    <3>1. d.score[SelectTip(d)] < e.score[b]
      BY <1>4, <1>7, <2>4
    <3>2. e.score[SelectTip(e)] >= e.score[b]
      BY <1>6, <1>19, <2>2
    <3>3. /\ d.score[SelectTip(d)] \in Nat /\ e.score[b] \in Nat
          /\ e.score[SelectTip(e)] \in Nat
      BY <1>19, <2>1, <2>2, <2>3
    <3> QED BY <3>1, <3>2, <3>3 DEF TipRises
  <2>5. CASE SelectTip(d) \notin ps
    <3>1. SelectTip(d) \in e.tips
      BY <1>6, <2>1, <2>5
    <3> QED BY <1>19, <2>3, <3>1 DEF TipRises
  <2> QED BY <2>4, <2>5
<1> QED BY <1>6, <1>9, <1>10, <1>11, <1>12, <1>14, <1>15, <1>16, <1>17, <1>18, <1>20, <1>21
       DEF e

-----------------------------------------------------------------------------
(* Orphans *)

\* The invariant speaks of next_block_id and of the orphan map only in
\* BlocksOK and OrphansOK.
LEMMA SameBlocks ==
  ASSUME NEW d, NEW hdr, ChainInv(d, hdr), NEW e \in BlockchainType,
         e.parents = d.parents, e.past = d.past, e.blue = d.blue,
         e.score = d.score, e.sparent = d.sparent, e.tips = d.tips,
         e.isBlue = d.isBlue, OrphansOK(e, hdr)
  PROVE  ChainInv(e, hdr) /\ SelectTip(e) = SelectTip(d) /\ Blocks(e) = Blocks(d)
<1>1. Blocks(e) = Blocks(d) /\ SelectTip(e) = SelectTip(d)
  BY DEF Blocks, SelectTip
<1>2. BlocksOK(e, hdr)
  BY <1>1 DEF ChainInv, BlocksOK
<1>3. PastOK(e)
  BY <1>1 DEF ChainInv, PastOK, PastOf
<1>4. GenesisOK(e) /\ BlueOK(e)
  BY <1>1 DEF ChainInv, GenesisOK, BlueOK
<1>5. \A S : View(e, S) = View(d, S)
  BY DEF View
<1>6. ColourOK(e)
  BY <1>1, <1>5 DEF ChainInv, ColourOK
<1>7. TipsOK(e)
  BY <1>1 DEF ChainInv, TipsOK
<1>8. FlagsOK(e)
  BY <1>1 DEF ChainInv, FlagsOK
<1> QED BY <1>1, <1>2, <1>3, <1>4, <1>6, <1>7, <1>8 DEF ChainInv

\* Rank of the selected tip, and the data it rests on, only ever grow.
LEMMA ExtendsTransitive ==
  ASSUME NEW d, NEW e, NEW f, NEW hdr, HeaderOK(hdr),
         ChainInv(d, hdr), ChainInv(e, hdr), ChainInv(f, hdr),
         Extends(e, d), TipRises(e, d), Extends(f, e), TipRises(f, e)
  PROVE  Extends(f, d) /\ TipRises(f, d)
<1>1. Extends(f, d)
  BY DEF Extends
<1>2. /\ SelectTip(d) \in Blocks(d) /\ SelectTip(e) \in Blocks(e)
      /\ SelectTip(f) \in Blocks(f)
  BY SelectTipProperty DEF ChainInv
<1>3. /\ d.score[SelectTip(d)] \in Nat /\ e.score[SelectTip(e)] \in Nat
      /\ f.score[SelectTip(f)] \in Nat /\ SelectTip(d) \in Nat
      /\ SelectTip(e) \in Nat /\ SelectTip(f) \in Nat
  BY <1>2, EntryTypes DEF ChainInv
<1>4. TipRises(f, d)
  BY <1>3 DEF TipRises
<1> QED BY <1>1, <1>4

\* A Blockchain extends itself.
LEMMA ExtendsReflexive ==
  ASSUME NEW d, NEW hdr, HeaderOK(hdr), ChainInv(d, hdr)
  PROVE  Extends(d, d) /\ TipRises(d, d)
<1>1. SelectTip(d) \in Nat
  BY SelectTipProperty, EntryTypes DEF ChainInv
<1> QED BY <1>1 DEF Extends, TipRises

\* Adopting a ready orphan: one block more, one orphan fewer.
LEMMA AdoptProperty ==
  ASSUME NEW d, NEW hdr, HeaderOK(hdr), ChainInv(d, hdr), NEW o \in ReadyOrphans(d)
  PROVE  LET e == Adopt(d, o)
         IN  /\ ChainInv(e, hdr) /\ Extends(e, d) /\ TipRises(e, d)
             /\ DOMAIN e.orphans = DOMAIN d.orphans \ {o}
             /\ Holding(e) = Holding(d)
<1> DEFINE w == [d EXCEPT !.orphans = Without(@, o)]
           e == Adopt(d, o)
<1>1. d \in BlockchainType /\ d.orphans \in Maps(SUBSET Nat)
  BY DEF ChainInv, BlocksOK, BlockchainType
<1>2. /\ w.parents = d.parents /\ w.past = d.past /\ w.blue = d.blue
      /\ w.score = d.score /\ w.sparent = d.sparent /\ w.tips = d.tips
      /\ w.isBlue = d.isBlue /\ w.next = d.next /\ w.orphans = Without(d.orphans, o)
  BY <1>1 DEF BlockchainType
<1>3. w \in BlockchainType
  <2>1. Without(d.orphans, o) \in Maps(SUBSET Nat)
    BY <1>1, WithoutMaps
  <2> QED BY <1>1, <2>1 DEF BlockchainType
<1> HIDE DEF w
<1>4. /\ DOMAIN w.orphans = DOMAIN d.orphans \ {o}
      /\ \A x \in DOMAIN w.orphans : w.orphans[x] = d.orphans[x]
  BY <1>2 DEF Without
<1>5. OrphansOK(w, hdr)
  <2>1. IsFiniteSet(DOMAIN w.orphans)
    BY <1>4, FS_RemoveElement DEF ChainInv, OrphansOK
  <2>2. Blocks(w) = Blocks(d)
    BY <1>2 DEF Blocks
  <2> QED BY <1>4, <2>1, <2>2 DEF ChainInv, OrphansOK
<1>6. ChainInv(w, hdr) /\ SelectTip(w) = SelectTip(d) /\ Blocks(w) = Blocks(d)
  BY <1>2, <1>3, <1>5, SameBlocks
<1>7. /\ o \in DOMAIN hdr /\ o \notin Blocks(w) /\ o \notin DOMAIN w.orphans
      /\ d.orphans[o] = hdr[o] /\ hdr[o] \subseteq Blocks(w)
  BY <1>4, <1>6 DEF ReadyOrphans, ChainInv, OrphansOK
<1>8. e = Insert(w, o, hdr[o])
  BY <1>7 DEF Adopt, w
<1> HIDE DEF e
<1>9. /\ ChainInv(e, hdr) /\ Extends(e, w) /\ TipRises(e, w) /\ e.orphans = w.orphans
      /\ Blocks(e) = Blocks(w) \cup {o}
  BY <1>6, <1>7, <1>8, InsertProperty
<1>10. Extends(e, d) /\ TipRises(e, d)
  BY <1>2, <1>6, <1>9 DEF Extends, TipRises
<1>11. Holding(e) = Holding(d)
  <2>1. o \in DOMAIN d.orphans
    BY DEF ReadyOrphans
  <2> QED BY <1>4, <1>6, <1>9, <2>1 DEF Holding
<1> QED BY <1>4, <1>9, <1>10, <1>11 DEF e

\* The cascade ends with no ready orphan.
LEMMA ProcessOrphansProperty ==
  ASSUME NEW d, NEW hdr, HeaderOK(hdr), ChainInv(d, hdr)
  PROVE  LET e == ProcessOrphans(d)
         IN  /\ ChainInv(e, hdr) /\ Extends(e, d) /\ TipRises(e, d)
             /\ ReadyOrphans(e) = {} /\ Holding(e) = Holding(d)
<1> DEFINE Turn(e) == IF ReadyOrphans(e) = {} THEN e ELSE Adopt(e, Least(ReadyOrphans(e)))
           S == {e \in BlockchainType :
                   /\ ChainInv(e, hdr) /\ Extends(e, d) /\ TipRises(e, d)
                   /\ Holding(e) = Holding(d)}
           After == CHOOSE f : f = [i \in Nat |-> IF i = 0 THEN d ELSE Turn(f[i - 1])]
           n == Cardinality(DOMAIN d.orphans)
           g == [p \in Nat \X S |-> Turn(p[2])]
<1>1. ProcessOrphans(d) = After[n]
  BY DEF ProcessOrphans
<1>2. ASSUME NEW e \in S
      PROVE  /\ Turn(e) \in S
             /\ ReadyOrphans(e) = {} => Turn(e) = e
             /\ ReadyOrphans(e) # {} =>
                  \E o \in DOMAIN e.orphans :
                    DOMAIN Turn(e).orphans = DOMAIN e.orphans \ {o}
  <2>1. CASE ReadyOrphans(e) = {}
    BY <2>1
  <2>2. CASE ReadyOrphans(e) # {}
    <3> DEFINE o == Least(ReadyOrphans(e))
               t == Adopt(e, o)
    <3>1. ReadyOrphans(e) \in SUBSET Nat
      BY DEF ReadyOrphans, ChainInv, OrphansOK, HeaderOK
    <3>2. o \in ReadyOrphans(e) /\ o \in DOMAIN e.orphans
      BY <2>2, <3>1, LeastProperty DEF ReadyOrphans
    <3> HIDE DEF o
    <3>3. /\ ChainInv(t, hdr) /\ Extends(t, e) /\ TipRises(t, e)
          /\ DOMAIN t.orphans = DOMAIN e.orphans \ {o}
          /\ Holding(t) = Holding(e)
      BY <3>2, AdoptProperty
    <3>4. Turn(e) = t
      BY <2>2 DEF o
    <3> HIDE DEF t, Turn
    <3>5. Extends(t, d) /\ TipRises(t, d) /\ t \in BlockchainType
      BY <3>3, ExtendsTransitive DEF ChainInv, BlocksOK
    <3> QED BY <2>2, <3>2, <3>3, <3>4, <3>5
  <2> QED BY <2>1, <2>2
<1>3. d \in S
  BY ExtendsReflexive DEF ChainInv, BlocksOK
<1>4. \E f : IsIteration(f, S, d, g)
  <2>1. g \in [Nat \X S -> S]
    <3> HIDE DEF S, Turn
    <3> QED BY <1>2
  <2> HIDE DEF S, g
  <2> QED BY <1>3, <2>1, Iteration
<1>5. PICK f : IsIteration(f, S, d, g)
  BY <1>4
<1> HIDE DEF Turn, S
<1>6. f \in [Nat -> S] /\ f[0] = d /\ \A i \in Nat : f[i + 1] = Turn(f[i])
  BY <1>5 DEF IsIteration
<1>7. f = [i \in Nat |-> IF i = 0 THEN d ELSE Turn(f[i - 1])]
  <2> SUFFICES ASSUME NEW i \in Nat, i # 0 PROVE f[i] = Turn(f[i - 1])
    BY <1>6
  <2>1. i - 1 \in Nat /\ (i - 1) + 1 = i
    OBVIOUS
  <2> QED BY <1>6, <2>1
<1>8. After = [i \in Nat |-> IF i = 0 THEN d ELSE Turn(After[i - 1])]
  BY <1>7
<1> HIDE DEF After
<1>9. After[0] = d /\ \A i \in Nat : After[i + 1] = Turn(After[i])
  <2>1. After[0] = d
    BY <1>8
  <2>2. ASSUME NEW i \in Nat PROVE After[i + 1] = Turn(After[i])
    <3>1. i + 1 \in Nat /\ i + 1 # 0 /\ (i + 1) - 1 = i
      OBVIOUS
    <3> QED BY <1>8, <3>1
  <2> QED BY <2>1, <2>2
<1>10. n \in Nat /\ IsFiniteSet(DOMAIN d.orphans)
  BY FS_CardinalityType DEF ChainInv, OrphansOK
<1> DEFINE Fewer(e, i) == /\ IsFiniteSet(DOMAIN e.orphans)
                          /\ ReadyOrphans(e) = {} \/ Cardinality(DOMAIN e.orphans) + i <= n
           G == {i \in Nat : After[i] \in S /\ Fewer(After[i], i)}
<1>11. 0 \in G
  BY <1>3, <1>9, <1>10
<1>12. ASSUME NEW i \in Nat, i \in G PROVE i + 1 \in G
  <2> DEFINE e == After[i]
             t == After[i + 1]
  <2>1. e \in S /\ Fewer(e, i) /\ t = Turn(e) /\ t \in S
    BY <1>2, <1>9, <1>12
  <2> HIDE DEF e, t
  <2>2. CASE ReadyOrphans(e) = {}
    BY <1>2, <2>1, <2>2 DEF t
  <2>3. CASE ReadyOrphans(e) # {}
    <3>1. PICK o \in DOMAIN e.orphans : DOMAIN t.orphans = DOMAIN e.orphans \ {o}
      BY <1>2, <2>1, <2>3
    <3>2. /\ IsFiniteSet(DOMAIN t.orphans)
          /\ Cardinality(DOMAIN t.orphans) = Cardinality(DOMAIN e.orphans) - 1
      BY <2>1, <3>1, FS_RemoveElement
    <3>3. Cardinality(DOMAIN e.orphans) \in Nat
      BY <2>1, FS_CardinalityType
    <3>4. Fewer(t, i + 1)
      BY <1>10, <2>1, <2>3, <3>2, <3>3
    <3> QED BY <2>1, <3>4 DEF t
  <2> QED BY <2>2, <2>3
<1>13. n \in G
  <2> HIDE DEF G, n
  <2> QED BY <1>10, <1>11, <1>12, SetInduction
<1> DEFINE e == After[n]
<1>14. e \in S /\ Fewer(e, n)
  <2> HIDE DEF n
  <2> QED BY <1>13
<1> HIDE DEF e
<1>15. ReadyOrphans(e) = {}
  <2> SUFFICES ASSUME Cardinality(DOMAIN e.orphans) + n <= n PROVE ReadyOrphans(e) = {}
    BY <1>14
  <2>1. Cardinality(DOMAIN e.orphans) \in Nat
    BY <1>14, FS_CardinalityType
  <2>2. Cardinality(DOMAIN e.orphans) = 0
    <3> HIDE DEF n
    <3> QED BY <1>10, <2>1
  <2>3. DOMAIN e.orphans = {}
    BY <1>14, <2>2, FS_EmptySet
  <2> QED BY <2>3 DEF ReadyOrphans
<1> QED BY <1>1, <1>14, <1>15 DEF e, S

\* AddBlock, orphan check and cascade included.
LEMMA AddBlockProperty ==
  ASSUME NEW d, NEW hdr, HeaderOK(hdr), ChainInv(d, hdr), ReadyOrphans(d) = {},
         NEW b \in DOMAIN hdr, b \notin Blocks(d), b \notin DOMAIN d.orphans
  PROVE  LET e == AddBlock(d, b, hdr[b])
         IN  /\ ChainInv(e, hdr) /\ Extends(e, d) /\ TipRises(e, d)
             /\ ReadyOrphans(e) = {}
             /\ Holding(e) = Holding(d) \cup {b}
             /\ hdr[b] \subseteq Blocks(d) => b \in Blocks(e)
<1> DEFINE e == AddBlock(d, b, hdr[b])
<1>1. CASE hdr[b] \subseteq Blocks(d)
  <2> DEFINE i == Insert(d, b, hdr[b])
  <2>1. /\ ChainInv(i, hdr) /\ Extends(i, d) /\ TipRises(i, d)
        /\ Blocks(i) = Blocks(d) \cup {b} /\ i.orphans = d.orphans
    BY <1>1, InsertProperty
  <2>2. e = ProcessOrphans(i)
    BY <1>1 DEF AddBlock
  <2> HIDE DEF e, i
  <2>3. /\ ChainInv(e, hdr) /\ Extends(e, i) /\ TipRises(e, i) /\ ReadyOrphans(e) = {}
        /\ Holding(e) = Holding(i)
    BY <2>1, <2>2, ProcessOrphansProperty
  <2>4. Extends(e, d) /\ TipRises(e, d)
    BY <2>1, <2>3, ExtendsTransitive
  <2>5. b \in Blocks(e)
    BY <2>1, <2>3 DEF Extends
  <2>6. Holding(e) = Holding(d) \cup {b}
    BY <2>1, <2>3 DEF Holding
  <2> QED BY <2>3, <2>4, <2>5, <2>6 DEF e
<1>2. CASE ~ (hdr[b] \subseteq Blocks(d))
  <2>1. d \in BlockchainType /\ d.orphans \in Maps(SUBSET Nat)
    BY DEF ChainInv, BlocksOK, BlockchainType
  <2>2. e = [d EXCEPT !.orphans = Put(@, b, hdr[b])]
    BY <1>2 DEF AddBlock
  <2> HIDE DEF e
  <2>3. /\ e.parents = d.parents /\ e.past = d.past /\ e.blue = d.blue
        /\ e.score = d.score /\ e.sparent = d.sparent /\ e.tips = d.tips
        /\ e.isBlue = d.isBlue /\ e.next = d.next
        /\ e.orphans = Put(d.orphans, b, hdr[b])
    BY <2>1, <2>2 DEF BlockchainType
  <2>4. e \in BlockchainType
    <3>1. b \in Nat /\ hdr[b] \in SUBSET Nat
      BY DEF HeaderOK
    <3>2. Put(d.orphans, b, hdr[b]) \in Maps(SUBSET Nat)
      BY <2>1, <3>1, PutMaps
    <3> QED BY <2>1, <2>2, <3>2 DEF BlockchainType
  <2>5. /\ DOMAIN e.orphans = DOMAIN d.orphans \cup {b} /\ e.orphans[b] = hdr[b]
        /\ \A x \in DOMAIN d.orphans : e.orphans[x] = d.orphans[x]
    BY <2>3 DEF Put
  <2>6. Blocks(e) = Blocks(d)
    BY <2>3 DEF Blocks
  <2>7. OrphansOK(e, hdr)
    <3>1. IsFiniteSet(DOMAIN e.orphans)
      BY <2>5, FS_AddElement DEF ChainInv, OrphansOK
    <3> QED BY <2>5, <2>6, <3>1 DEF ChainInv, OrphansOK
  <2>8. ChainInv(e, hdr) /\ SelectTip(e) = SelectTip(d)
    BY <2>3, <2>4, <2>7, SameBlocks
  <2>9. ReadyOrphans(e) = {}
    BY <1>2, <2>5, <2>6 DEF ReadyOrphans
  <2>10. Extends(e, d) /\ TipRises(e, d)
    <3>1. Extends(d, d) /\ TipRises(d, d)
      BY ExtendsReflexive
    <3> QED BY <2>3, <2>6, <2>8, <3>1 DEF Extends, TipRises
  <2>11. Holding(e) = Holding(d) \cup {b}
    BY <2>5, <2>6 DEF Holding
  <2> QED BY <1>2, <2>8, <2>9, <2>10, <2>11 DEF e
<1> QED BY <1>1, <1>2

\* A longer header table with the old entries keeps the invariant.
LEMMA HeaderGrows ==
  ASSUME NEW d, NEW hdr, ChainInv(d, hdr), HeaderOK(hdr), NEW hdr2, HeaderOK(hdr2),
         DOMAIN hdr \subseteq DOMAIN hdr2, \A x \in DOMAIN hdr : hdr2[x] = hdr[x]
  PROVE  ChainInv(d, hdr2)
<1>1. BlocksOK(d, hdr2)
  BY DEF ChainInv, BlocksOK
<1>2. OrphansOK(d, hdr2)
  BY DEF ChainInv, OrphansOK
<1> QED BY <1>1, <1>2 DEF ChainInv

\* Two Blockchains over the same headers hold a common block with the same
\* ancestors and the same colour.  Otherwise take, among the blocks they
\* differ on, one with an inclusion-minimal past: they agree on all of its
\* ancestors, so Colouring was given the same view of them in both.
LEMMA SameColour ==
  ASSUME NEW d, NEW e, NEW hdr, HeaderOK(hdr), ChainInv(d, hdr), ChainInv(e, hdr)
  PROVE  \A b \in Blocks(d) \cap Blocks(e) :
           /\ d.past[b] = e.past[b]   /\ d.sparent[b] = e.sparent[b]
           /\ d.blue[b] = e.blue[b]   /\ d.score[b] = e.score[b]
<1> DEFINE Same(b) == /\ d.past[b] = e.past[b] /\ d.sparent[b] = e.sparent[b]
                      /\ d.blue[b] = e.blue[b] /\ d.score[b] = e.score[b]
           Bad == {b \in Blocks(d) \cap Blocks(e) : ~ Same(b)}
           Pasts == {d.past[b] : b \in Bad}
<1> SUFFICES ASSUME Bad # {} PROVE FALSE
  OBVIOUS
<1>1. PICK b \in Bad : \A a \in Bad : a \notin d.past[b]
  <2>1. \A b \in Blocks(d) : d.past[b] \subseteq Blocks(d) /\ IsFiniteSet(d.past[b])
    BY FS_Subset DEF ChainInv, BlocksOK, PastOK
  <2>2. Pasts \subseteq FiniteSubsetsOf(Blocks(d)) /\ Pasts # {}
    BY <2>1 DEF FiniteSubsetsOf
  <2>3. IsWellFoundedOn(StrictSubsetOrdering(Blocks(d)), FiniteSubsetsOf(Blocks(d)))
    BY FS_StrictSubsetOrderingWellFounded
  <2>4. PICK m \in Pasts : \A p \in Pasts : <<p, m>> \notin StrictSubsetOrdering(Blocks(d))
    <3> HIDE DEF Pasts
    <3> QED BY <2>2, <2>3, WFMin
  <2>5. PICK b \in Bad : m = d.past[b]
    BY <2>4
  <2>6. ASSUME NEW a \in Bad, a \in d.past[b] PROVE FALSE
    <3>1. d.past[a] \subseteq d.past[b] /\ a \notin d.past[a]
      BY <2>5, <2>6 DEF ChainInv, PastOK
    <3>2. <<d.past[a], d.past[b]>> \in StrictSubsetOrdering(Blocks(d))
      BY <2>1, <2>6, <3>1 DEF StrictSubsetOrdering
    <3> QED BY <2>4, <2>5, <2>6, <3>2
  <2> QED BY <2>6
<1>2. b \in Blocks(d) /\ b \in Blocks(e)
  BY <1>1
<1>3. /\ d.parents[b] = hdr[b] /\ e.parents[b] = hdr[b]
      /\ hdr[b] \subseteq Blocks(d) /\ hdr[b] \subseteq Blocks(e)
  BY <1>2 DEF ChainInv, BlocksOK
<1>4. /\ d.past[b] = PastOf(d, hdr[b]) /\ e.past[b] = PastOf(e, hdr[b])
      /\ d.past[b] \subseteq Blocks(d) /\ e.past[b] \subseteq Blocks(e)
  BY <1>2, <1>3 DEF ChainInv, PastOK
<1>5. \A p \in hdr[b] : Same(p)
  BY <1>1, <1>3, <1>4 DEF PastOf
<1>6. d.past[b] = e.past[b]
  BY <1>4, <1>5 DEF PastOf
<1>7. \A a \in d.past[b] : Same(a)
  BY <1>1, <1>4, <1>6
<1>8. View(d, d.past[b]) = View(e, e.past[b])
  <2>1. \A a \in d.past[b] : d.parents[a] = e.parents[a]
    BY <1>4, <1>6 DEF ChainInv, BlocksOK
  <2>2. /\ Only(d.parents, d.past[b]) = Only(e.parents, e.past[b])
        /\ Only(d.past, d.past[b]) = Only(e.past, e.past[b])
        /\ Only(d.blue, d.past[b]) = Only(e.blue, e.past[b])
        /\ Only(d.score, d.past[b]) = Only(e.score, e.past[b])
    BY <1>6, <1>7, <2>1 DEF Only
  <2> QED BY <2>2 DEF View
<1>9. CASE b = Genesis
  <2>1. d.past[b] = {} /\ e.past[b] = {}
    BY <1>9 DEF ChainInv, GenesisOK
  <2>2. b \in d.blue[b] /\ d.blue[b] \subseteq d.past[b] \cup {b}
    BY <1>2 DEF ChainInv, BlueOK
  <2>3. b \in e.blue[b] /\ e.blue[b] \subseteq e.past[b] \cup {b}
    BY <1>2 DEF ChainInv, BlueOK
  <2>4. d.blue[b] = {b} /\ e.blue[b] = {b}
    BY <2>1, <2>2, <2>3
  <2>5. d.score[b] = e.score[b]
    <3>1. d.score[b] = Cardinality(d.past[b] \cap d.blue[b]) + 1
      BY <1>2 DEF ChainInv, BlueOK
    <3>2. e.score[b] = Cardinality(e.past[b] \cap e.blue[b]) + 1
      BY <1>2 DEF ChainInv, BlueOK
    <3>3. d.past[b] \cap d.blue[b] = e.past[b] \cap e.blue[b]
      BY <2>1
    <3> QED BY <3>1, <3>2, <3>3
  <2>6. d.sparent[b] = e.sparent[b]
    BY <1>9 DEF ChainInv, GenesisOK
  <2> QED BY <1>1, <1>6, <2>4, <2>5, <2>6
<1>10. CASE b # Genesis
  <2>1. [sparent |-> d.sparent[b], blue |-> d.blue[b], score |-> d.score[b]]
          = [sparent |-> e.sparent[b], blue |-> e.blue[b], score |-> e.score[b]]
    BY <1>2, <1>3, <1>8, <1>10 DEF ChainInv, ColourOK
  <2>2. d.sparent[b] = e.sparent[b] /\ d.blue[b] = e.blue[b] /\ d.score[b] = e.score[b]
    BY <2>1
  <2> QED BY <1>1, <1>6, <2>2
<1> QED BY <1>9, <1>10

-----------------------------------------------------------------------------
(* The inductive invariant *)

IInv ==
  /\ HeaderOK(header) /\ header \in [Mined -> SUBSET Nat]
  /\ chain \in [Nodes -> BlockchainType]
  /\ \A n \in Nodes : /\ ChainInv(chain[n], header)
                      /\ ReadyOrphans(chain[n]) = {}
                      /\ chain[n].next \in 1..IdSpan
  /\ MinersHoldTheirOwn

-----------------------------------------------------------------------------
(* Block ids *)

\* Multiples of the id span keep their distance.
LEMMA SpanProduct ==
  ASSUME NEW m \in Nat, NEW n \in Nat, m < n, NEW S \in Nat
  PROVE  m * S + S <= n * S
<1> DEFINE k == n - m - 1
<1>1. k \in Nat /\ n = m + 1 + k
  OBVIOUS
<1>2. k * S \in Nat /\ m * S \in Nat
  BY <1>1, SMT
<1>3. (m + 1 + k) * S = m * S + S + k * S
  BY <1>1, SMT
<1> QED
  <2> HIDE DEF k
  <2> QED BY <1>1, <1>2, <1>3

\* No two miners share an id, no miner makes one twice, none is genesis.
LEMMA BlockIdInjective ==
  ASSUME NEW m \in Nodes, NEW n \in Nodes,
         NEW i \in 1..(IdSpan - 1), NEW j \in 1..(IdSpan - 1)
  PROVE  /\ BlockId(m, i) = BlockId(n, j) => m = n /\ i = j
         /\ BlockId(m, i) \in Nat /\ BlockId(m, i) # Genesis
<1>1. m \in Nat /\ n \in Nat /\ IdSpan \in Nat
  BY NodesAreNat, IdsFit
<1>2. m * IdSpan \in Nat /\ n * IdSpan \in Nat
  BY <1>1, SMT
<1>3. CASE m < n
  <2>1. m * IdSpan + IdSpan <= n * IdSpan
    BY <1>1, <1>3, SpanProduct
  <2> QED BY <1>1, <1>2, <2>1 DEF BlockId, Genesis
<1>4. CASE n < m
  <2>1. n * IdSpan + IdSpan <= m * IdSpan
    BY <1>1, <1>4, SpanProduct
  <2> QED BY <1>1, <1>2, <2>1 DEF BlockId, Genesis
<1>5. CASE m = n
  BY <1>1, <1>2, <1>5 DEF BlockId, Genesis
<1> QED BY <1>1, <1>3, <1>4, <1>5

-----------------------------------------------------------------------------
(* The initial state *)

\* The constructor of Blockchain leaves the genesis block alone, in good order.
LEMMA EmptyChain ==
  ASSUME NEW hdr, hdr = [b \in {Genesis} |-> {}]
  PROVE  /\ HeaderOK(hdr) /\ EmptyBlockchain \in BlockchainType
         /\ ChainInv(EmptyBlockchain, hdr)
         /\ ReadyOrphans(EmptyBlockchain) = {}
<1> DEFINE d == EmptyBlockchain
<1>1. HeaderOK(hdr)
  BY DEF HeaderOK, Genesis
<1>2. d \in BlockchainType
  <2>1. \A V : \A f : DOMAIN f \subseteq Nat /\ f \in [DOMAIN f -> V] => f \in Maps(V)
    BY DEF Maps
  <2>2. [b \in {Genesis} |-> {}] \in Maps(SUBSET Nat)
    BY MapsEntry, <2>1 DEF Genesis, Maps
  <2>3. [b \in {Genesis} |-> {Genesis}] \in Maps(SUBSET Nat)
    BY <2>1 DEF Genesis, Maps
  <2>4. [b \in {Genesis} |-> 1] \in Maps(Nat) /\ [b \in {Genesis} |-> NoBlock] \in Maps(Int)
    BY <2>1 DEF Genesis, NoBlock, Maps
  <2>5. [b \in {} |-> {}] \in Maps(SUBSET Nat)
    BY <2>1 DEF Maps
  <2> QED BY <2>2, <2>3, <2>4, <2>5 DEF EmptyBlockchain, BlockchainType, Genesis
<1>3. Blocks(d) = {Genesis} /\ d.tips = {Genesis} /\ d.isBlue = {Genesis}
  BY DEF EmptyBlockchain, Blocks
<1>4. /\ d.parents[Genesis] = {} /\ d.past[Genesis] = {} /\ d.blue[Genesis] = {Genesis}
      /\ d.score[Genesis] = 1 /\ d.sparent[Genesis] = NoBlock
  BY DEF EmptyBlockchain
<1>5. /\ DOMAIN d.past = {Genesis} /\ DOMAIN d.blue = {Genesis}
      /\ DOMAIN d.score = {Genesis} /\ DOMAIN d.sparent = {Genesis}
      /\ DOMAIN d.orphans = {}
  BY DEF EmptyBlockchain
<1> HIDE DEF d
<1>6. BlocksOK(d, hdr)
  <2>1. IsFiniteSet({Genesis})
    BY FS_Singleton
  <2> QED BY <1>2, <1>3, <1>4, <1>5, <2>1 DEF BlocksOK
<1>7. OrphansOK(d, hdr)
  BY <1>5, FS_EmptySet DEF OrphansOK
<1>8. PastOK(d)
  BY <1>3, <1>4 DEF PastOK, PastOf
<1>9. GenesisOK(d)
  BY <1>4 DEF GenesisOK
<1>10. BlueOK(d)
  <2>1. Cardinality({}) = 0
    BY FS_EmptySet
  <2>2. Narrow(d.past, {Genesis})
    <3> SUFFICES ASSUME NEW A \in SUBSET {Genesis} PROVE Cardinality(A) <= K + 1
      BY DEF Narrow
    <3>1. A = {} \/ A = {Genesis}
      OBVIOUS
    <3>2. Cardinality({}) = 0 /\ Cardinality({Genesis}) = 1
      BY FS_EmptySet, FS_Singleton
    <3> QED BY <3>1, <3>2, KIsNat
  <2>3. d.past[Genesis] \cap d.blue[Genesis] = {}
    BY <1>4
  <2>4. d.score[Genesis] = Cardinality(d.past[Genesis] \cap d.blue[Genesis]) + 1
    BY <1>4, <2>1, <2>3
  <2> QED BY <1>3, <1>4, <2>2, <2>4 DEF BlueOK
<1>11. ColourOK(d)
  BY <1>3 DEF ColourOK
<1>12. TipsOK(d)
  BY <1>3, <1>4 DEF TipsOK
<1>13. FlagsOK(d)
  <2>1. SelectTip(d) = Genesis
    BY <1>1, <1>3, <1>6, <1>12, SelectTipProperty
  <2> QED BY <1>3, <1>4, <2>1 DEF FlagsOK
<1>14. ReadyOrphans(d) = {}
  BY <1>5 DEF ReadyOrphans
<1> QED BY <1>1, <1>2, <1>6, <1>7, <1>8, <1>9, <1>10, <1>11, <1>12, <1>13, <1>14
        DEF ChainInv, d

-----------------------------------------------------------------------------
(* The steps *)

\* What a step does to one chain, the header staying valid.
Stepped(n) ==
  /\ ChainInv(chain'[n], header')
  /\ ReadyOrphans(chain'[n]) = {}
  /\ chain'[n].next \in 1..IdSpan
  /\ Blocks(chain[n]) \subseteq Blocks(chain'[n])
  /\ \A b \in Blocks(chain[n]) :
       /\ chain'[n].past[b] = chain[n].past[b]
       /\ chain'[n].blue[b] = chain[n].blue[b]
       /\ chain'[n].score[b] = chain[n].score[b]
       /\ chain'[n].sparent[b] = chain[n].sparent[b]
  /\ TipRises(chain'[n], chain[n])

\* A step by which node n comes to hold b, and no other node anything.
Takes(n, b) ==
  /\ b \notin Holding(chain[n])
  /\ Holding(chain'[n]) = Holding(chain[n]) \cup {b}
  /\ \A m \in Nodes \ {n} : chain'[m] = chain[m]

\* A chain that a step leaves alone.
LEMMA ChainUnchanged ==
  ASSUME IInv, NEW n \in Nodes, chain'[n] = chain[n], HeaderOK(header'),
         Mined \subseteq DOMAIN header', \A x \in Mined : header'[x] = header[x]
  PROVE  Stepped(n)
<1>1. ChainInv(chain[n], header) /\ HeaderOK(header)
  BY DEF IInv
<1>2. ChainInv(chain'[n], header')
  BY <1>1, HeaderGrows DEF Mined
<1>3. TipRises(chain[n], chain[n])
  BY <1>1, ExtendsReflexive
<1> QED BY <1>2, <1>3 DEF IInv, Stepped

\* MineBlock: the id is fresh, the parents are the miner's own tips.
LEMMA MineBlockStep ==
  ASSUME IInv, NEW n \in Miners, MineBlock(n)
  PROVE  /\ IInv' /\ \A m \in Nodes : Stepped(m)
         /\ Takes(n, BlockId(n, chain[n].next))
         /\ BlockId(n, chain[n].next) \notin Mined
<1> DEFINE d  == chain[n]
           b  == BlockId(n, d.next)
           ps == d.tips
           d1 == WithNextId(d)
           e  == AddBlock(d1, b, ps)
<1>1. n \in Nodes /\ d.next \in 1..(IdSpan - 1) /\ IdSpan \in Nat
  BY MinersAreNodes, IdsFit DEF IInv, MineBlock
<1>2. /\ HeaderOK(header) /\ d \in BlockchainType /\ ChainInv(d, header)
      /\ ReadyOrphans(d) = {} /\ MinersHoldTheirOwn
  BY <1>1 DEF IInv
<1>3. b \notin Mined /\ b \in Nat /\ b # Genesis
  BY <1>1, <1>2, BlockIdInjective DEF MinersHoldTheirOwn
<1>4. ps \subseteq Blocks(d) /\ ps # {} /\ Blocks(d) \subseteq Mined /\ DOMAIN d.orphans \subseteq Mined
  BY <1>2 DEF ChainInv, BlocksOK, OrphansOK, TipsOK, Mined
<1>5. header' = Put(header, b, ps) /\ chain' = [chain EXCEPT ![n] = e]
  BY DEF MineBlock
<1>6. /\ DOMAIN header' = Mined \cup {b} /\ header'[b] = ps
      /\ \A x \in Mined : header'[x] = header[x]
  BY <1>3, <1>5 DEF Put, Mined
<1>7. HeaderOK(header')
  <2>1. \A x \in Mined : header'[x] \subseteq Mined /\ (header'[x] = {} <=> x = Genesis)
    BY <1>2, <1>6 DEF HeaderOK, Mined
  <2> QED BY <1>2, <1>3, <1>4, <1>6, <2>1 DEF HeaderOK, Mined
<1>8. /\ d1 \in BlockchainType /\ d1.next = d.next + 1
      /\ d1.parents = d.parents /\ d1.past = d.past /\ d1.blue = d.blue
      /\ d1.score = d.score /\ d1.sparent = d.sparent /\ d1.tips = d.tips
      /\ d1.isBlue = d.isBlue /\ d1.orphans = d.orphans
  BY <1>1, <1>2 DEF BlockchainType, WithNextId
<1>9. ChainInv(d, header')
  BY <1>2, <1>6, <1>7, HeaderGrows DEF Mined
<1>10. /\ ChainInv(d1, header') /\ SelectTip(d1) = SelectTip(d) /\ Blocks(d1) = Blocks(d)
       /\ ReadyOrphans(d1) = {}
  <2> HIDE DEF d, d1
  <2>1. OrphansOK(d1, header')
    BY <1>8, <1>9 DEF ChainInv, OrphansOK, Blocks
  <2>2. ChainInv(d1, header') /\ SelectTip(d1) = SelectTip(d) /\ Blocks(d1) = Blocks(d)
    BY <1>8, <1>9, <2>1, SameBlocks
  <2> QED BY <1>2, <1>8, <2>2 DEF ReadyOrphans
<1>11. /\ ChainInv(e, header') /\ Extends(e, d1) /\ TipRises(e, d1)
       /\ ReadyOrphans(e) = {} /\ b \in Blocks(e)
       /\ Holding(e) = Holding(d1) \cup {b}
  <2> HIDE DEF d, d1, b
  <2> QED BY <1>3, <1>4, <1>6, <1>7, <1>8, <1>10, AddBlockProperty DEF e
<1>12. e \in BlockchainType
  BY <1>11 DEF ChainInv, BlocksOK
<1>13. chain \in [Nodes -> BlockchainType]
  BY DEF IInv
<1>14. chain'[n] = e /\ \A m \in Nodes : m # n => chain'[m] = chain[m]
  BY <1>1, <1>5, <1>13
<1>15. Stepped(n)
  <2>1. e.next \in 1..IdSpan
    BY <1>1, <1>8, <1>11 DEF Extends
  <2>2. /\ Blocks(d) \subseteq Blocks(e)
        /\ \A x \in Blocks(d) : /\ e.past[x] = d.past[x] /\ e.blue[x] = d.blue[x]
                                 /\ e.score[x] = d.score[x] /\ e.sparent[x] = d.sparent[x]
    BY <1>8, <1>10, <1>11 DEF Extends
  <2>3. TipRises(e, d)
    BY <1>8, <1>10, <1>11 DEF TipRises
  <2> HIDE DEF e
  <2> QED BY <1>11, <1>14, <2>1, <2>2, <2>3 DEF Stepped
<1>16. \A m \in Nodes : Stepped(m)
  BY <1>6, <1>7, <1>14, <1>15, ChainUnchanged
<1>17. chain' \in [Nodes -> BlockchainType]
  BY <1>1, <1>5, <1>12, <1>13
<1>18. MinersHoldTheirOwn'
  <2> SUFFICES ASSUME NEW m \in Miners, NEW i \in 1..(IdSpan - 1)
               PROVE  BlockId(m, i) \in DOMAIN header' <=>
                        i < chain'[m].next /\ HasBlock(chain'[m], BlockId(m, i))
    BY DEF MinersHoldTheirOwn, Mined
  <2> DEFINE a == BlockId(m, i)
  <2>1. a \in Mined <=> i < chain[m].next /\ a \in Blocks(chain[m])
    BY <1>2 DEF MinersHoldTheirOwn, HasBlock
  <2>2. m \in Nodes /\ chain[m].next \in Nat
    BY MinersAreNodes DEF IInv
  <2>3. CASE m # n
    <3>1. chain'[m] = chain[m] /\ a # b
      BY <1>1, <1>14, <2>2, <2>3, BlockIdInjective
    <3> QED BY <1>6, <2>1, <3>1 DEF HasBlock
  <2>4. CASE m = n /\ i = d.next
    <3>1. i < e.next
      BY <1>1, <1>8, <1>11, <2>4 DEF Extends
    <3> QED BY <1>6, <1>11, <1>14, <2>4, <3>1 DEF HasBlock
  <2>5. CASE m = n /\ i # d.next
    <3>1. a # b
      BY <1>1, <2>5, BlockIdInjective
    <3>2. e.next = d.next + 1 /\ Blocks(d) \subseteq Blocks(e)
      BY <1>8, <1>10, <1>11 DEF Extends
    <3>3. i < e.next <=> i < d.next
      BY <1>1, <2>5, <3>2
    <3>4. a \in Blocks(e) => a \in Mined
      BY <1>6, <1>11, <3>1 DEF ChainInv, BlocksOK
    <3> HIDE DEF e, a
    <3> QED BY <1>6, <1>14, <2>1, <2>5, <3>1, <3>2, <3>3, <3>4 DEF HasBlock, a
  <2> QED BY <2>3, <2>4, <2>5
<1>19. header' \in [DOMAIN header' -> SUBSET Nat]
  <2>1. header \in [Mined -> SUBSET Nat] /\ ps \in SUBSET Nat
    BY <1>2, <1>4 DEF IInv, HeaderOK, Mined
  <2> QED BY <1>5, <2>1 DEF Put, Mined
<1>20. Takes(n, b)
  <2>1. Holding(d1) = Holding(d) /\ b \notin Holding(d)
    BY <1>3, <1>4, <1>8, <1>10 DEF Holding
  <2> HIDE DEF e, d1, b
  <2> QED BY <1>11, <1>14, <2>1 DEF Takes
<1> QED BY <1>3, <1>7, <1>16, <1>17, <1>18, <1>19, <1>20 DEF IInv, Stepped, Mined

\* HandleBlock: a mined block the node has neither accepted nor set aside.
LEMMA HandleBlockStep ==
  ASSUME IInv, NEW n \in Nodes, NEW b \in Mined, HandleBlock(n, b)
  PROVE  IInv' /\ (\A m \in Nodes : Stepped(m)) /\ Takes(n, b)
<1> DEFINE d == chain[n]
           e == AddBlock(d, b, header[b])
<1>1. /\ HeaderOK(header) /\ ChainInv(d, header) /\ ReadyOrphans(d) = {}
      /\ d.next \in 1..IdSpan /\ chain \in [Nodes -> BlockchainType]
      /\ MinersHoldTheirOwn
      /\ header \in [Mined -> SUBSET Nat]
  BY DEF IInv
<1>2. /\ b \notin Blocks(d) /\ b \notin DOMAIN d.orphans
      /\ header' = header /\ chain' = [chain EXCEPT ![n] = e]
  BY DEF HandleBlock, HasBlock, IsOrphan
<1>3. /\ ChainInv(e, header) /\ Extends(e, d) /\ TipRises(e, d) /\ ReadyOrphans(e) = {}
      /\ Holding(e) = Holding(d) \cup {b}
  <2> HIDE DEF d
  <2> QED BY <1>1, <1>2, AddBlockProperty DEF Mined, e
<1>4. chain'[n] = e /\ \A m \in Nodes : m # n => chain'[m] = chain[m]
  BY <1>1, <1>2
<1>5. Stepped(n)
  <2> HIDE DEF e
  <2> QED BY <1>1, <1>2, <1>3, <1>4 DEF Stepped, Extends
<1>6. \A m \in Nodes : Stepped(m)
  BY <1>1, <1>2, <1>4, <1>5, ChainUnchanged DEF Mined
<1>7. chain' \in [Nodes -> BlockchainType]
  <2>1. e \in BlockchainType
    BY <1>3 DEF ChainInv, BlocksOK
  <2> QED BY <1>1, <1>2, <2>1
<1>8. MinersHoldTheirOwn'
  <2> SUFFICES ASSUME NEW m \in Miners, NEW i \in 1..(IdSpan - 1)
               PROVE  BlockId(m, i) \in Mined <=>
                        i < chain'[m].next /\ HasBlock(chain'[m], BlockId(m, i))
    BY <1>2 DEF MinersHoldTheirOwn, Mined
  <2> DEFINE a == BlockId(m, i)
  <2>1. a \in Mined <=> i < chain[m].next /\ a \in Blocks(chain[m])
    BY <1>1 DEF MinersHoldTheirOwn, HasBlock
  <2>2. chain'[m].next = chain[m].next /\ Blocks(chain[m]) \subseteq Blocks(chain'[m])
    <3> HIDE DEF e
    <3>1. m \in Nodes /\ (m # n => chain'[m] = chain[m])
      BY <1>4, MinersAreNodes
    <3> QED BY <1>3, <1>4, <3>1 DEF Extends
  <2>3. Blocks(chain'[m]) \subseteq Mined
    BY <1>2, <1>6, MinersAreNodes DEF Stepped, ChainInv, BlocksOK, Mined
  <2> HIDE DEF a
  <2> QED BY <2>1, <2>2, <2>3 DEF HasBlock, a
<1>9. Takes(n, b)
  <2> HIDE DEF e
  <2> QED BY <1>2, <1>3, <1>4 DEF Takes, Holding
<1> QED BY <1>1, <1>2, <1>6, <1>7, <1>8, <1>9 DEF IInv, Stepped, Mined

\* Every node starts with the genesis block.
LEMMA Initially == Init => IInv
<1> SUFFICES ASSUME Init PROVE IInv
  OBVIOUS
<1>1. /\ HeaderOK(header) /\ EmptyBlockchain \in BlockchainType
      /\ ChainInv(EmptyBlockchain, header) /\ ReadyOrphans(EmptyBlockchain) = {}
  BY EmptyChain DEF Init
<1>2. chain = [n \in Nodes |-> EmptyBlockchain] /\ Mined = {Genesis}
  BY DEF Init, Mined
<1>3. EmptyBlockchain.next = 1 /\ 1 \in 1..IdSpan
  BY IdsFit DEF EmptyBlockchain
<1>4. MinersHoldTheirOwn
  <2> SUFFICES ASSUME NEW n \in Miners, NEW i \in 1..(IdSpan - 1)
               PROVE  BlockId(n, i) \notin Mined /\ ~ (i < chain[n].next)
    BY DEF MinersHoldTheirOwn
  <2>1. BlockId(n, i) # Genesis
    BY MinersAreNodes, BlockIdInjective
  <2> QED BY <1>2, <1>3, <2>1, MinersAreNodes
<1>5. header \in [Mined -> SUBSET Nat]
  BY DEF Init, Mined
<1> QED BY <1>1, <1>2, <1>3, <1>4, <1>5 DEF IInv

\* Mining a block and handling one keep the invariant, and each node takes a step.
LEMMA Step == IInv /\ [Next]_vars => IInv' /\ \A n \in Nodes : Stepped(n)
<1> SUFFICES ASSUME IInv, [Next]_vars PROVE IInv' /\ \A n \in Nodes : Stepped(n)
  OBVIOUS
<1>1. CASE UNCHANGED vars
  <2>1. header' = header /\ chain' = chain
    BY <1>1 DEF vars
  <2>2. \A n \in Nodes : Stepped(n)
    BY <2>1, ChainUnchanged DEF IInv, Mined
  <2>3. MinersHoldTheirOwn'
    BY <2>1 DEF IInv, MinersHoldTheirOwn, Mined
  <2> QED BY <2>1, <2>2, <2>3 DEF IInv, Mined
<1>2. ASSUME NEW n \in Miners, MineBlock(n) PROVE IInv' /\ \A m \in Nodes : Stepped(m)
  BY <1>2, MineBlockStep
<1>3. ASSUME NEW n \in Nodes, NEW b \in Mined, HandleBlock(n, b)
      PROVE  IInv' /\ \A m \in Nodes : Stepped(m)
  BY <1>3, HandleBlockStep
<1> QED BY <1>1, <1>2, <1>3 DEF Next

\* The invariant that carries every theorem below: AddBlock and the cascade
\* of ProcessOrphans keep each chain a well-formed colouring.
THEOREM Invariance == Spec => []IInv
BY Initially, Step, PTL DEF Spec

-----------------------------------------------------------------------------
(* The invariants of BlockDag *)

\* Every map of a Blockchain covers exactly the accepted blocks (AddBlock).
LEMMA InvariantTypes == IInv => TypeOK
<1> SUFFICES ASSUME IInv PROVE TypeOK
  OBVIOUS
<1>1. ASSUME NEW n \in Nodes PROVE BlockchainOK(chain[n])
  <2> DEFINE d == chain[n]
             B == Blocks(d)
  <2>1. ChainInv(d, header) /\ d \in BlockchainType /\ d.next \in 1..IdSpan
    BY DEF IInv
  <2> HIDE DEF d
  <2>2. /\ B \subseteq Mined /\ Genesis \in B
        /\ DOMAIN d.past = B /\ DOMAIN d.blue = B /\ DOMAIN d.score = B
        /\ DOMAIN d.sparent = B /\ DOMAIN d.parents = B
    BY <2>1 DEF ChainInv, BlocksOK, Mined, Blocks
  <2>3. /\ d.parents \in Maps(SUBSET Nat) /\ d.past \in Maps(SUBSET Nat)
        /\ d.blue \in Maps(SUBSET Nat) /\ d.score \in Maps(Nat)
        /\ d.sparent \in Maps(Int) /\ d.orphans \in Maps(SUBSET Nat)
    BY <2>1 DEF BlockchainType
  <2>4. \A V : \A f \in Maps(V) : f \in [DOMAIN f -> V]
    BY DEF Maps
  <2>5. \A b \in B : d.parents[b] \subseteq B /\ d.past[b] \subseteq B
    BY <2>1 DEF ChainInv, BlocksOK, PastOK
  <2>6. \A b \in B : d.blue[b] \subseteq B
    BY <2>1, <2>5 DEF ChainInv, BlueOK
  <2>7. \A b \in B : d.sparent[b] \in B \cup {NoBlock}
    BY <2>1, <2>5 DEF ChainInv, ColourOK, GenesisOK
  <2>8. d.parents \in [B -> SUBSET B] /\ d.past \in [B -> SUBSET B]
    <3> HIDE DEF B
    <3> QED BY <2>2, <2>3, <2>4, <2>5
  <2>9. d.blue \in [B -> SUBSET B] /\ d.sparent \in [B -> B \cup {NoBlock}]
    <3> HIDE DEF B
    <3> QED BY <2>2, <2>3, <2>4, <2>6, <2>7
  <2>10. d.score \in [B -> Nat]
    <3> HIDE DEF B
    <3> QED BY <2>2, <2>3, <2>4
  <2>11. SelectTip(d) \in B /\ d.tips \subseteq B
    BY <2>1, SelectTipProperty DEF ChainInv, IInv
  <2>12. d.isBlue \subseteq B
    BY <2>1, <2>6, <2>11 DEF ChainInv, FlagsOK
  <2>13. DOMAIN d.orphans \subseteq Mined
    BY <2>1 DEF ChainInv, OrphansOK, Mined
  <2>14. \A o \in DOMAIN d.orphans : d.orphans[o] \subseteq Mined
    BY <2>1 DEF ChainInv, OrphansOK, Mined, IInv, HeaderOK
  <2>15. d.orphans \in [DOMAIN d.orphans -> SUBSET Mined]
    BY <2>3, <2>4, <2>14
  <2> QED BY <2>1, <2>2, <2>8, <2>9, <2>10, <2>11, <2>12, <2>13, <2>15
          DEF BlockchainOK, d
<1>2. Mined \subseteq Nat /\ Genesis \in Mined /\ \A b \in Mined : header[b] \subseteq Mined
  BY DEF IInv, HeaderOK, Mined
<1>3. DOMAIN chain = Nodes
  BY DEF IInv
<1>4. header \in [Mined -> SUBSET Mined]
  BY <1>2 DEF IInv
<1> QED BY <1>1, <1>2, <1>3, <1>4 DEF TypeOK

\* The type invariant holds in every state.
THEOREM TypeCorrect == Spec => []TypeOK
BY InvariantTypes, Invariance, PTL

\* No orphan whose parents are all accepted outlasts ProcessOrphans.
THEOREM OrphansAreUnready == Spec => []OrphansWait
<1>1. IInv => OrphansWait
  BY DEF IInv, OrphansWait, ReadyOrphans, ChainInv, OrphansOK
<1> QED BY <1>1, Invariance, PTL

\* The tips AddBlock maintains are the accepted blocks nothing builds on.
THEOREM TipsAreExact == Spec => []TipsAreChildless
<1>1. IInv => TipsAreChildless
  BY DEF IInv, TipsAreChildless, ChainInv, TipsOK
<1> QED BY <1>1, Invariance, PTL

\* The is_blue flags describe the blue set of the tip SelectTip returns.
THEOREM FlagsAreExact == Spec => []FlagsFollowTip
<1>1. IInv => FlagsFollowTip
  BY DEF IInv, FlagsFollowTip, ChainInv, FlagsOK
<1> QED BY <1>1, Invariance, PTL

\* GreedyBlueSet never lets K + 2 pairwise unrelated blocks be blue.
THEOREM BlueSetsAreNarrow == Spec => []BlueWidth
<1>1. IInv => BlueWidth
  BY DEF IInv, BlueWidth, ChainInv, BlueOK
<1> QED BY <1>1, Invariance, PTL

\* Colour, score and ancestors of a block do not depend on the order in
\* which a node's AddBlock calls came.
THEOREM ColouringsAgree == Spec => []Agreement
<1>1. IInv => Agreement
  <2> SUFFICES ASSUME IInv, NEW n \in Nodes, NEW m \in Nodes,
                      NEW b \in Blocks(chain[n]) \cap Blocks(chain[m])
               PROVE  /\ chain[n].past[b]    = chain[m].past[b]
                      /\ chain[n].sparent[b] = chain[m].sparent[b]
                      /\ chain[n].blue[b]    = chain[m].blue[b]
                      /\ chain[n].score[b]   = chain[m].score[b]
    BY DEF Agreement
  <2> QED BY SameColour DEF IInv
<1> QED BY <1>1, Invariance, PTL

\* Blue sets grow along selected parents, and scores along all parents.
THEOREM ParentsAreExtended == Spec => []ExtendsSelectedParent
<1>1. IInv => ExtendsSelectedParent
  <2> SUFFICES ASSUME IInv, NEW n \in Nodes, NEW b \in Blocks(chain[n]) \ {Genesis}
               PROVE  LET d  == chain[n]
                          sp == d.sparent[b]
                      IN  /\ sp \in d.parents[b]
                          /\ d.blue[sp] \subseteq d.blue[b]
                          /\ d.blue[b] \subseteq d.past[b] \cup {b}
                          /\ \A p \in d.parents[b] : /\ d.score[p] <= d.score[sp]
                                                     /\ d.score[p] < d.score[b]
    BY DEF ExtendsSelectedParent
  <2> QED BY DEF IInv, ChainInv, ColourOK, BlueOK
<1> QED BY <1>1, Invariance, PTL

\* A miner's own blocks are in its DAG, and its ids are the ones it has used.
THEOREM MinersAreComplete == Spec => []MinersHoldTheirOwn
<1>1. IInv => MinersHoldTheirOwn
  BY DEF IInv
<1> QED BY <1>1, Invariance, PTL

-----------------------------------------------------------------------------
(* Parents come before their children *)

\* Every set of mined blocks has one without a parent in the set.
Grounded ==
  \A S \in SUBSET Mined : S # {} => \E x \in S : header[x] \cap S = {}

\* The genesis block has no parents.
LEMMA InitiallyGrounded == Init => Grounded
<1> SUFFICES ASSUME Init, NEW S \in SUBSET Mined, S # {}
             PROVE  \E x \in S : header[x] \cap S = {}
  BY DEF Grounded
<1>1. Mined = {Genesis} /\ header[Genesis] = {}
  BY DEF Init, Mined
<1> QED BY <1>1

\* A block is mined on tips, which were mined before it.
LEMMA GroundedStep == IInv /\ Grounded /\ [Next]_vars => Grounded'
<1> SUFFICES ASSUME IInv, Grounded, [Next]_vars PROVE Grounded'
  OBVIOUS
<1>1. CASE header' = header
  BY <1>1 DEF Grounded, Mined
<1>2. ASSUME NEW n \in Miners, MineBlock(n) PROVE Grounded'
  <2> DEFINE b == BlockId(n, chain[n].next)
             ps == chain[n].tips
  <2>1. b \notin Mined /\ header' = Put(header, b, ps)
    BY <1>2, MineBlockStep DEF MineBlock
  <2> HIDE DEF b
  <2>2. /\ DOMAIN header' = Mined \cup {b} /\ header'[b] = ps
        /\ \A x \in Mined : header'[x] = header[x]
    BY <2>1 DEF Put, Mined
  <2>3. ps \subseteq Mined /\ \A x \in Mined : header[x] \subseteq Mined
    BY MinersAreNodes DEF IInv, ChainInv, TipsOK, BlocksOK, HeaderOK, Mined
  <2>4. SUFFICES ASSUME NEW S \in SUBSET (Mined \cup {b}), S # {}
                 PROVE  \E x \in S : header'[x] \cap S = {}
    BY <2>2 DEF Grounded, Mined
  <2>5. CASE S = {b}
    BY <2>1, <2>2, <2>3, <2>5
  <2>6. CASE S # {b}
    <3>1. S \ {b} \in SUBSET Mined /\ S \ {b} # {}
      BY <2>4, <2>6
    <3>2. PICK x \in S \ {b} : header[x] \cap (S \ {b}) = {}
      BY <3>1 DEF Grounded
    <3> QED BY <2>1, <2>2, <2>3, <3>1, <3>2
  <2> QED BY <2>5, <2>6
<1> QED BY <1>1, <1>2 DEF Next, HandleBlock, vars

\* With all mined blocks at hand, a first one among the orphans would have
\* all its parents accepted, and ProcessOrphans would have adopted it.
LEMMA OrphansMissOne == IInv /\ Grounded => OrphansMeanMissing
<1> SUFFICES ASSUME IInv, Grounded, NEW n \in Nodes, DOMAIN chain[n].orphans # {},
                    \A b \in Mined : b \in Holding(chain[n])
             PROVE  FALSE
  BY DEF OrphansMeanMissing, HasBlock, IsOrphan, Holding
<1> DEFINE O == DOMAIN chain[n].orphans
<1>1. /\ O \subseteq Mined /\ (\A o \in O : chain[n].orphans[o] = header[o])
      /\ (\A b \in Mined : header[b] \subseteq Mined) /\ ReadyOrphans(chain[n]) = {}
  BY DEF IInv, ChainInv, OrphansOK, HeaderOK, Mined
<1>2. PICK x \in O : header[x] \cap O = {}
  BY <1>1 DEF Grounded
<1>3. header[x] \subseteq Blocks(chain[n])
  BY <1>1, <1>2 DEF Holding
<1> QED BY <1>1, <1>2, <1>3 DEF ReadyOrphans

\* Orphans are left only while some mined block has not come (I9).
THEOREM OrphansGo == Spec => []OrphansMeanMissing
BY InitiallyGrounded, GroundedStep, OrphansMissOne, Invariance, PTL DEF Spec

-----------------------------------------------------------------------------
(* The action properties of BlockDag *)

\* AddBlock never changes what it recorded of a block before.
THEOREM ColouringsStay == Spec => ColouringIsFinal
<1>1. IInv /\ [Next]_vars =>
        [\A n \in Nodes : \A b \in Blocks(chain[n]) :
           /\ b \in Blocks(chain'[n])
           /\ chain'[n].past[b]  = chain[n].past[b]
           /\ chain'[n].blue[b]  = chain[n].blue[b]
           /\ chain'[n].score[b] = chain[n].score[b]]_vars
  BY Step DEF Stepped
<1> QED BY <1>1, Invariance, PTL DEF Spec, ColouringIsFinal

\* No AddBlock, with the orphans it unlocks, moves SelectTip to a block
\* that ranks lower.
THEOREM TipsOnlyRise == Spec => TipNeverRegresses
<1>1. IInv /\ [Next]_vars =>
        [\A n \in Nodes :
           LET t == SelectTip(chain[n])
               u == SelectTip(chain'[n])
           IN  \/ chain'[n].score[u] > chain[n].score[t]
               \/ chain'[n].score[u] = chain[n].score[t] /\ u <= t]_vars
  BY Step DEF Stepped, TipRises
<1> QED BY <1>1, Invariance, PTL DEF Spec, TipNeverRegresses
=============================================================================

------------------------- MODULE Confirmation_proofs -------------------------
(***************************************************************************)
(* First the queries of Ordering: the walk to the future and the GHOSTDAG  *)
(* order return what they should, and nodes order alike what they share.   *)
(* Then mempools: which transactions of blue blocks one may still hold,    *)
(* and which a block may repeat.  For any number of nodes, any K and       *)
(* whatever order blocks come in.  The heart of the second part is what a  *)
(* miner's own block looks like to the miner (OwnBlock): it is the one     *)
(* tip, on top of all else, and extends the block whose colouring the      *)
(* flags showed before.                                                    *)
(***************************************************************************)
EXTENDS Confirmation, BlockDag_proofs

-----------------------------------------------------------------------------
(* GetFuture *)

\* The turns of the walk from b, as the recursion has them.
IsWalk(future, d, b) ==
  future = [i \in 0..Cardinality(Blocks(d)) |->
              IF i = 0 THEN Children(d, b)
              ELSE future[i - 1] \cup UNION {Children(d, c) : c \in future[i - 1]}]

\* The recursion of GetFuture has a solution, and ends in its value.
LEMMA WalkExists ==
  ASSUME NEW d, IsFiniteSet(Blocks(d)), NEW b
  PROVE  \E future \in [0..Cardinality(Blocks(d)) -> SUBSET Blocks(d)] :
           IsWalk(future, d, b) /\ GetFuture(d, b) = future[Cardinality(Blocks(d))]
<1> DEFINE n == Cardinality(Blocks(d))
           S == SUBSET Blocks(d)
           Wider(T) == T \cup UNION {Children(d, c) : c \in T}
           g == [p \in Nat \X S |-> Wider(p[2])]
           a == Children(d, b)
           Walk == CHOOSE f : f = [i \in 0..n |-> IF i = 0 THEN a ELSE Wider(f[i - 1])]
<1>1. n \in Nat
  BY FS_CardinalityType
<1>2. a \in S /\ \A T \in S : Wider(T) \in S
  BY DEF Children
<1>3. GetFuture(d, b) = Walk[n]
  BY DEF GetFuture
<1>4. IsWalk(Walk, d, b) <=> Walk = [i \in 0..n |-> IF i = 0 THEN a ELSE Wider(Walk[i - 1])]
  BY DEF IsWalk
<1> HIDE DEF n, S, a, Wider
<1>5. g \in [Nat \X S -> S]
  BY <1>2
<1>6. \E f : IsRecursion(f, n, S, a, g)
  <2> HIDE DEF g
  <2> QED BY <1>1, <1>2, <1>5, Recursion
<1>7. \E f : f = [i \in 0..n |-> IF i = 0 THEN a ELSE Wider(f[i - 1])]
  <2>1. PICK f : IsRecursion(f, n, S, a, g)
    BY <1>6
  <2>2. f \in [0..n -> S] /\ f[0] = a
    BY <2>1 DEF IsRecursion
  <2>3. \A i \in 1..n : f[i] = Wider(f[i - 1])
    <3> TAKE i \in 1..n
    <3>1. i - 1 \in Nat /\ i - 1 \in 0..n
      BY <1>1
    <3>2. f[i] = g[<<i - 1, f[i - 1]>>]
      BY <2>1 DEF IsRecursion
    <3> QED BY <2>2, <3>1, <3>2
  <2>4. f = [i \in 0..n |-> IF i = 0 THEN a ELSE Wider(f[i - 1])]
    BY <1>1, <2>2, <2>3
  <2> QED BY <2>4
<1>8. Walk = [i \in 0..n |-> IF i = 0 THEN a ELSE Wider(Walk[i - 1])]
  BY <1>7
<1> HIDE DEF Walk
<1>9. \A i \in Nat : i \in 0..n => Walk[i] \in S
  <2> DEFINE G == {i \in Nat : i \in 0..n => Walk[i] \in S}
  <2>1. 0 \in G
    BY <1>2, <1>8
  <2>2. ASSUME NEW i \in Nat, i \in G PROVE i + 1 \in G
    <3> SUFFICES ASSUME i + 1 \in 0..n PROVE Walk[i + 1] \in S
      OBVIOUS
    <3>1. i \in 0..n /\ (i + 1) - 1 = i /\ i + 1 # 0
      BY <1>1
    <3>2. Walk[i + 1] = Wider(Walk[i]) /\ Walk[i] \in S
      BY <1>8, <2>2, <3>1
    <3> QED BY <1>2, <3>2
  <2> HIDE DEF G
  <2>3. Nat \subseteq G
    BY <2>1, <2>2, SetInduction
  <2> QED BY <2>3 DEF G
<1>10. Walk \in [0..n -> S]
  <2>1. DOMAIN Walk = 0..n /\ Walk = [i \in 0..n |-> Walk[i]]
    BY <1>8
  <2>2. \A i \in 0..n : Walk[i] \in S
    BY <1>1, <1>9
  <2> QED BY <2>1, <2>2
<1> QED BY <1>3, <1>4, <1>8, <1>10 DEF n, S

\* Among any blocks of a node there is one none of whose parents is.
LEMMA ChainGrounded ==
  ASSUME IInv, Grounded, NEW n \in Nodes, NEW T \in SUBSET Blocks(chain[n]), T # {}
  PROVE  \E x \in T : chain[n].parents[x] \cap T = {}
<1>1. T \in SUBSET Mined /\ \A x \in T : chain[n].parents[x] = header[x]
  BY DEF IInv, ChainInv, BlocksOK, Mined
<1> QED BY <1>1 DEF Grounded

\* What a walk along the children has found at the end has no other children.
LEMMA WalkIsClosed ==
  ASSUME NEW d, IsFiniteSet(Blocks(d)), NEW b,
         NEW future \in [0..Cardinality(Blocks(d)) -> SUBSET Blocks(d)],
         IsWalk(future, d, b)
  PROVE  LET found == future[Cardinality(Blocks(d))]
         IN  /\ Children(d, b) \subseteq found
             /\ \A c \in found : Children(d, c) \subseteq found
<1> DEFINE n == Cardinality(Blocks(d))
           Closed(T) == \A c \in T : Children(d, c) \subseteq T
           Wider(T) == T \cup UNION {Children(d, c) : c \in T}
           G == {i \in Nat : i \in 0..n =>
                   /\ Children(d, b) \subseteq future[i]
                   /\ Closed(future[i]) \/ Cardinality(future[i]) >= i}
<1>1. n \in Nat
  BY FS_CardinalityType
<1>2. /\ future[0] = Children(d, b)
      /\ \A i \in 1..n : future[i] = Wider(future[i - 1])
  <2>1. future = [i \in 0..n |-> IF i = 0 THEN Children(d, b) ELSE Wider(future[i - 1])]
    BY DEF IsWalk
  <2> HIDE DEF n, Wider
  <2> QED BY <1>1, <2>1
<1>3. \A i \in 0..n : /\ future[i] \subseteq Blocks(d) /\ IsFiniteSet(future[i])
                      /\ Cardinality(future[i]) \in Nat
  <2> TAKE i \in 0..n
  <2>1. future[i] \subseteq Blocks(d)
    OBVIOUS
  <2>2. IsFiniteSet(future[i])
    BY <2>1, FS_Subset
  <2> QED BY <2>1, <2>2, FS_CardinalityType
<1>4. 0 \in G
  BY <1>1, <1>2, <1>3
<1>5. ASSUME NEW i \in Nat, i \in G PROVE i + 1 \in G
  <2> SUFFICES ASSUME i + 1 \in 0..n
               PROVE  /\ Children(d, b) \subseteq future[i + 1]
                      /\ Closed(future[i + 1]) \/ Cardinality(future[i + 1]) >= i + 1
    OBVIOUS
  <2>1. i \in 0..n /\ i + 1 \in 1..n /\ (i + 1) - 1 = i
    BY <1>1
  <2> DEFINE T == future[i]
             U == future[i + 1]
  <2>2. Children(d, b) \subseteq T /\ (Closed(T) \/ Cardinality(T) >= i)
    BY <1>5, <2>1
  <2>3. U = Wider(T)
    BY <1>2, <2>1
  <2>4. /\ IsFiniteSet(T) /\ Cardinality(T) \in Nat
        /\ IsFiniteSet(U) /\ Cardinality(U) \in Nat
    BY <1>3, <2>1
  <2> HIDE DEF T, U
  <2>5. Children(d, b) \subseteq U /\ T \subseteq U
    BY <2>2, <2>3
  <2>6. CASE Closed(T)
    <3>1. U = T
      BY <2>3, <2>6
    <3> QED BY <2>5, <2>6, <3>1 DEF U
  <2>7. CASE ~ Closed(T)
    <3>1. U # T
      BY <2>3, <2>7
    <3>2. Cardinality(T) < Cardinality(U)
      BY <2>4, <2>5, <3>1, FS_Subset
    <3>3. Cardinality(U) >= i + 1
      BY <2>2, <2>4, <2>7, <3>2
    <3> QED BY <2>5, <3>3 DEF U
  <2> QED BY <2>6, <2>7
<1>6. n \in G
  <2> HIDE DEF G, n
  <2>1. Nat \subseteq G
    BY <1>4, <1>5, SetInduction
  <2> QED BY <1>1, <2>1
<1>7. CASE Closed(future[n])
  BY <1>1, <1>6, <1>7
<1>8. CASE Cardinality(future[n]) >= n
  <2>1. n \in 0..n
    BY <1>1
  <2>2. future[n] \subseteq Blocks(d) /\ Cardinality(future[n]) \in Nat
    BY <1>3, <2>1
  <2>3. future[n] = Blocks(d)
    BY <1>1, <1>8, <2>2, FS_Subset
  <2>4. Children(d, b) \subseteq Blocks(d) /\ \A c : Children(d, c) \subseteq Blocks(d)
    BY DEF Children
  <2> QED BY <2>3, <2>4
<1> QED BY <1>1, <1>6, <1>7, <1>8

\* The walk from b finds the blocks that have b in their past.
LEMMA FutureProperty ==
  ASSUME IInv, Grounded, NEW n \in Nodes, NEW b \in Blocks(chain[n])
  PROVE  GetFuture(chain[n], b) = {a \in Blocks(chain[n]) : b \in chain[n].past[a]}
<1> DEFINE d == chain[n]
           F == {a \in Blocks(d) : b \in d.past[a]}
           N == Cardinality(Blocks(d))
<1>1. ChainInv(d, header)
  BY DEF IInv
<1>2. \A T \in SUBSET Blocks(d) : T # {} => \E x \in T : d.parents[x] \cap T = {}
  BY ChainGrounded
<1> HIDE DEF d
<1>3. /\ IsFiniteSet(Blocks(d))
      /\ \A a \in Blocks(d) : d.parents[a] \subseteq Blocks(d)
      /\ \A a \in Blocks(d) : d.past[a] = PastOf(d, d.parents[a])
  BY <1>1 DEF ChainInv, BlocksOK, PastOK
<1>4. PICK future \in [0..N -> SUBSET Blocks(d)] :
        IsWalk(future, d, b) /\ GetFuture(d, b) = future[N]
  BY <1>3, WalkExists
<1>5. N \in Nat
  BY <1>3, FS_CardinalityType
<1>6. future[N] \subseteq F
  <2> DEFINE G == {i \in Nat : i \in 0..N => future[i] \subseteq F}
  <2>1. \A c : Children(d, c) = {a \in Blocks(d) : c \in d.parents[a]}
    BY DEF Children
  <2>2. \A a \in Blocks(d) : \A p \in d.parents[a] : p \in d.past[a] /\ d.past[p] \subseteq d.past[a]
    BY <1>3 DEF PastOf
  <2>3. 0 \in G
    BY <1>4, <1>5, <2>1, <2>2 DEF IsWalk
  <2>4. ASSUME NEW i \in Nat, i \in G PROVE i + 1 \in G
    <3> SUFFICES ASSUME i + 1 \in 0..N PROVE future[i + 1] \subseteq F
      OBVIOUS
    <3>1. i \in 0..N /\ i + 1 # 0 /\ (i + 1) - 1 = i
      BY <1>5
    <3>2. future[i] \subseteq F
      BY <2>4, <3>1
    <3>3. future[i + 1] = future[i] \cup UNION {Children(d, c) : c \in future[i]}
      BY <1>4, <3>1 DEF IsWalk
    <3>4. \A c \in F : Children(d, c) \subseteq F
      BY <2>1, <2>2
    <3> HIDE DEF F
    <3> QED BY <3>2, <3>3, <3>4
  <2> HIDE DEF G
  <2>5. Nat \subseteq G
    BY <2>3, <2>4, SetInduction
  <2>6. N \in G
    BY <1>5, <2>5
  <2> QED BY <1>5, <2>6 DEF G
<1>7. F \subseteq future[N]
  <2> DEFINE T == F \ future[N]
  <2> SUFFICES ASSUME T # {} PROVE FALSE
    OBVIOUS
  <2>1. /\ Children(d, b) \subseteq future[N]
        /\ \A c \in future[N] : Children(d, c) \subseteq future[N]
    BY <1>3, <1>4, WalkIsClosed
  <2>2. PICK x \in T : d.parents[x] \cap T = {}
    <3>1. T \in SUBSET Blocks(d)
      OBVIOUS
    <3> HIDE DEF T
    <3> QED BY <1>2, <3>1
  <2>3. x \in Blocks(d) /\ b \in PastOf(d, d.parents[x]) /\ x \notin future[N]
    BY <1>3
  <2>4. CASE b \in d.parents[x]
    BY <2>1, <2>3, <2>4 DEF Children
  <2>5. ASSUME NEW p \in d.parents[x], b \in d.past[p] PROVE FALSE
    <3>1. p \in F
      BY <1>3, <2>3, <2>5
    <3>2. p \in future[N]
      BY <2>2, <2>5, <3>1
    <3> QED BY <2>1, <2>3, <3>2 DEF Children
  <2> QED BY <2>3, <2>4, <2>5 DEF PastOf
<1> QED BY <1>4, <1>6, <1>7 DEF d

-----------------------------------------------------------------------------
(* ComputeGHOSTDAGOrdering *)

\* What is taken before place j.
Earlier(s, j) == {s[k] : k \in 1..(j - 1)}

\* The block the priority queue q gives.
First(d, time, q) == CHOOSE a \in q : \A b \in q \ {a} : Precedes(d, time, a, b)

\* Each block is taken once, after its parents, and goes before every other
\* one that could have been taken.
IsGreedy(s, d, time) ==
  /\ s \in Seq(Blocks(d))
  /\ \A j \in 1..Len(s) :
       /\ s[j] \in Queued(d, Earlier(s, j))
       /\ \A b \in Queued(d, Earlier(s, j)) \ {s[j]} : Precedes(d, time, s[j], b)

\* Score, time and id of each block compare.
Ranked(d, time) == \A b \in Blocks(d) : b \in Nat /\ d.score[b] \in Nat /\ time[b] \in Nat

\* A nonempty queue has a first block.
LEMMA FirstProperty ==
  ASSUME NEW d, NEW time, Ranked(d, time),
         NEW q \in SUBSET Blocks(d), IsFiniteSet(q), q # {}
  PROVE  /\ First(d, time, q) \in q
         /\ \A b \in q \ {First(d, time, q)} : Precedes(d, time, First(d, time, q), b)
<1> DEFINE P(a, b) == Precedes(d, time, a, b)
           G == {T \in SUBSET q : T # {} => \E a \in T : \A b \in T \ {a} : P(a, b)}
<1>1. {} \in G
  OBVIOUS
<1>2. ASSUME NEW T \in SUBSET q, NEW z \in q \ T, T \in G
      PROVE  T \cup {z} \in G
  <2>1. CASE T = {}
    BY <2>1
  <2>2. CASE T # {}
    <3>1. PICK a \in T : \A b \in T \ {a} : P(a, b)
      BY <1>2, <2>2
    <3>2. \A b \in q : b \in Nat /\ d.score[b] \in Nat /\ time[b] \in Nat
      BY DEF Ranked
    <3>3. a # z /\ (P(a, z) \/ P(z, a))
      BY <3>1, <3>2 DEF Precedes
    <3>4. CASE P(a, z)
      BY <3>1, <3>4
    <3>5. CASE P(z, a)
      <4>1. ASSUME NEW b \in T PROVE P(z, b)
        <5>1. b = a \/ P(a, b)
          BY <3>1
        <5> QED BY <3>2, <3>5, <5>1 DEF Precedes
      <4> HIDE DEF P
      <4> QED BY <4>1
    <3> HIDE DEF P
    <3> QED BY <3>3, <3>4, <3>5
  <2> QED BY <2>1, <2>2
<1>3. q \in G
  <2> HIDE DEF G
  <2> QED BY <1>1, <1>2, FiniteInduction
<1> QED BY <1>3 DEF First

\* Taking the first of the queue leaves the order greedy.
LEMMA TakeFirst ==
  ASSUME NEW d, NEW time, Ranked(d, time), IsFiniteSet(Blocks(d)),
         NEW s, IsGreedy(s, d, time), NEW q, q = Queued(d, Members(s)), q # {}
  PROVE  LET t == Append(s, First(d, time, q))
         IN  /\ IsGreedy(t, d, time) /\ Len(t) = Len(s) + 1
             /\ First(d, time, q) \notin Members(s)
             /\ Members(t) = Members(s) \cup {First(d, time, q)}
<1> DEFINE a == First(d, time, q)
           t == Append(s, a)
<1>1. q \in SUBSET Blocks(d) /\ IsFiniteSet(q)
  BY FS_Subset DEF Queued
<1>2. a \in q /\ \A b \in q \ {a} : Precedes(d, time, a, b)
  BY <1>1, FirstProperty
<1> HIDE DEF a
<1>3. s \in Seq(Blocks(d)) /\ Len(s) \in Nat /\ a \in Blocks(d) \ Members(s)
  BY <1>1, <1>2 DEF IsGreedy, Queued
<1>4. /\ t \in Seq(Blocks(d)) /\ Len(t) = Len(s) + 1 /\ t[Len(s) + 1] = a
      /\ \A k \in 1..Len(s) : t[k] = s[k]
  BY <1>3
<1> HIDE DEF t
<1>5. \A j \in 1..Len(s) : Earlier(t, j) = Earlier(s, j)
  <2> TAKE j \in 1..Len(s)
  <2>1. \A k \in 1..(j - 1) : t[k] = s[k]
    BY <1>3, <1>4
  <2> QED BY <2>1 DEF Earlier
<1>6. Earlier(t, Len(s) + 1) = Members(s)
  <2>1. (Len(s) + 1) - 1 = Len(s)
    BY <1>3
  <2> QED BY <1>4, <2>1 DEF Earlier, Members
<1>7. IsGreedy(t, d, time)
  <2> SUFFICES ASSUME NEW j \in 1..(Len(s) + 1)
               PROVE  /\ t[j] \in Queued(d, Earlier(t, j))
                      /\ \A b \in Queued(d, Earlier(t, j)) \ {t[j]} : Precedes(d, time, t[j], b)
    BY <1>4 DEF IsGreedy
  <2>1. CASE j = Len(s) + 1
    BY <1>2, <1>4, <1>6, <2>1
  <2>2. CASE j # Len(s) + 1
    <3>1. j \in 1..Len(s)
      BY <1>3, <2>2
    <3>2. t[j] = s[j] /\ Earlier(t, j) = Earlier(s, j)
      BY <1>4, <1>5, <3>1
    <3> QED BY <3>1, <3>2 DEF IsGreedy
  <2> QED BY <2>1, <2>2
<1>8. Members(t) = Members(s) \cup {a}
  <2>1. 1..Len(t) = 1..Len(s) \cup {Len(s) + 1}
    BY <1>3, <1>4
  <2> QED BY <1>4, <2>1 DEF Members
<1> QED BY <1>3, <1>4, <1>7, <1>8 DEF a, t

\* The order of a node is greedy and has each of its blocks.
LEMMA OrderingProperty ==
  ASSUME IInv, Grounded, NEW n \in Nodes,
         NEW time, \A b \in Mined : time[b] \in Nat
  PROVE  LET d == chain[n]
             s == ComputeGHOSTDAGOrdering(d, time)
         IN  /\ IsGreedy(s, d, time) /\ Members(s) = Blocks(d)
             /\ Len(s) = Cardinality(Blocks(d)) /\ Len(s) \in Nat
<1> DEFINE d == chain[n]
           N == Cardinality(Blocks(d))
           S == Seq(Blocks(d))
           Grown(s) == LET queue == Queued(d, Members(s))
                       IN  IF queue = {} THEN s ELSE Append(s, First(d, time, queue))
           Order == CHOOSE f : f = [i \in 0..N |-> IF i = 0 THEN <<>> ELSE Grown(f[i - 1])]
           g == [p \in Nat \X S |-> Grown(p[2])]
<1>1. ComputeGHOSTDAGOrdering(d, time) = Order[N]
  BY DEF ComputeGHOSTDAGOrdering, First
<1>2. ChainInv(d, header) /\ HeaderOK(header)
  BY DEF IInv
<1>3. \A T \in SUBSET Blocks(d) : T # {} => \E x \in T : d.parents[x] \cap T = {}
  BY ChainGrounded
<1> HIDE DEF d
<1>4. IsFiniteSet(Blocks(d)) /\ \A b \in Blocks(d) : d.parents[b] \subseteq Blocks(d)
  BY <1>2 DEF ChainInv, BlocksOK
<1>5. Ranked(d, time)
  <2>1. Blocks(d) \subseteq Mined /\ Mined \subseteq Nat
    BY <1>2 DEF ChainInv, BlocksOK, HeaderOK, Mined
  <2>2. \A b \in Blocks(d) : d.score[b] \in Nat
    BY <1>2, EntryTypes DEF ChainInv, BlocksOK
  <2> QED BY <2>1, <2>2 DEF Ranked
<1>6. N \in Nat
  BY <1>4, FS_CardinalityType
<1>7. <<>> \in S /\ \A s \in S : Grown(s) \in S
  <2>1. ASSUME NEW s \in S PROVE Grown(s) \in S
    <3> DEFINE q == Queued(d, Members(s))
    <3>1. CASE q = {}
      BY <3>1
    <3>2. CASE q # {}
      <4>1. q \in SUBSET Blocks(d) /\ IsFiniteSet(q)
        BY <1>4, FS_Subset DEF Queued
      <4>2. First(d, time, q) \in Blocks(d)
        BY <1>5, <3>2, <4>1, FirstProperty
      <4> HIDE DEF q
      <4>3. Append(s, First(d, time, q)) \in S
        BY <4>2
      <4> QED BY <3>2, <4>3 DEF q
    <3> QED BY <3>1, <3>2
  <2> HIDE DEF Grown
  <2> QED BY <2>1
<1> HIDE DEF Grown, N
<1>8. \E f : f = [i \in 0..N |-> IF i = 0 THEN <<>> ELSE Grown(f[i - 1])]
  <2> DEFINE a == <<>>
  <2>1. g \in [Nat \X S -> S] /\ a \in S
    BY <1>7
  <2>2. \E f : IsRecursion(f, N, S, a, g)
    <3> HIDE DEF g, S, a
    <3> QED BY <1>6, <2>1, Recursion
  <2>3. PICK f : IsRecursion(f, N, S, a, g)
    BY <2>2
  <2>4. f \in [0..N -> S] /\ f[0] = <<>>
    BY <2>3 DEF IsRecursion
  <2>5. \A i \in 1..N : f[i] = Grown(f[i - 1])
    <3> TAKE i \in 1..N
    <3>1. i - 1 \in Nat /\ i - 1 \in 0..N
      BY <1>6
    <3>2. f[i] = g[<<i - 1, f[i - 1]>>]
      BY <2>3 DEF IsRecursion
    <3> HIDE DEF S
    <3> QED BY <2>4, <3>1, <3>2
  <2>6. f = [i \in 0..N |-> IF i = 0 THEN <<>> ELSE Grown(f[i - 1])]
    <3> HIDE DEF S
    <3> QED BY <1>6, <2>4, <2>5
  <2> QED BY <2>6
<1>9. Order = [i \in 0..N |-> IF i = 0 THEN <<>> ELSE Grown(Order[i - 1])]
  BY <1>8
<1> HIDE DEF Order
<1> DEFINE Good(s, i) == /\ IsGreedy(s, d, time) /\ Len(s) = i
                         /\ IsFiniteSet(Members(s)) /\ Cardinality(Members(s)) = i
                         /\ Members(s) \subseteq Blocks(d)
           G == {i \in Nat : i \in 0..N => Good(Order[i], i)}
<1>10. 0 \in G
  <2>1. Order[0] = <<>>
    BY <1>6, <1>9
  <2>2. Members(<<>>) = {} /\ IsGreedy(<<>>, d, time) /\ Len(<<>>) = 0
    BY DEF Members, IsGreedy
  <2>3. IsFiniteSet({}) /\ Cardinality({}) = 0
    BY FS_EmptySet
  <2> QED BY <2>1, <2>2, <2>3
<1>11. ASSUME NEW i \in Nat, i \in G PROVE i + 1 \in G
  <2> SUFFICES ASSUME i + 1 \in 0..N PROVE Good(Order[i + 1], i + 1)
    OBVIOUS
  <2>1. i \in 0..N /\ i + 1 # 0 /\ (i + 1) - 1 = i /\ i < N
    BY <1>6
  <2> DEFINE s == Order[i]
             q == Queued(d, Members(s))
             a == First(d, time, q)
  <2>2. Good(s, i)
    BY <1>11, <2>1
  <2>3. Order[i + 1] = Grown(s)
    BY <1>9, <2>1
  <2> HIDE DEF s
  <2>4. q # {}
    <3>1. Members(s) # Blocks(d)
      BY <2>1, <2>2 DEF N
    <3>2. (Blocks(d) \ Members(s)) \in SUBSET Blocks(d) /\ Blocks(d) \ Members(s) # {}
      BY <2>2, <3>1
    <3>3. PICK x \in Blocks(d) \ Members(s) : d.parents[x] \cap (Blocks(d) \ Members(s)) = {}
      BY <1>3, <3>2
    <3> QED BY <1>4, <3>3 DEF Queued
  <2>5. Grown(s) = Append(s, a)
    BY <2>4 DEF Grown
  <2>6. /\ IsGreedy(Append(s, a), d, time) /\ Len(Append(s, a)) = Len(s) + 1
        /\ a \notin Members(s) /\ Members(Append(s, a)) = Members(s) \cup {a}
    <3> HIDE DEF q
    <3>1. IsGreedy(s, d, time)
      BY <2>2
    <3>2. q = Queued(d, Members(s))
      BY DEF q
    <3> QED BY <1>4, <1>5, <2>4, <3>1, <3>2, TakeFirst
  <2>7. a \in Blocks(d)
    <3>1. q \in SUBSET Blocks(d) /\ IsFiniteSet(q)
      BY <1>4, FS_Subset DEF Queued
    <3> QED BY <1>5, <2>4, <3>1, FirstProperty
  <2> HIDE DEF a
  <2>8. IsFiniteSet(Members(s) \cup {a}) /\ Cardinality(Members(s) \cup {a}) = i + 1
    BY <2>2, <2>6, FS_AddElement
  <2> QED BY <2>2, <2>3, <2>5, <2>6, <2>7, <2>8
<1>12. Good(Order[N], N)
  <2> HIDE DEF G
  <2>1. Nat \subseteq G
    BY <1>10, <1>11, SetInduction
  <2>2. N \in G
    BY <1>6, <2>1
  <2> HIDE DEF Good
  <2> QED BY <1>6, <2>2 DEF G
<1>13. Members(Order[N]) = Blocks(d)
  BY <1>4, <1>12, FS_Subset DEF N
<1> QED BY <1>1, <1>6, <1>12, <1>13 DEF d, N

\* A greedy order has each block at one place.
LEMMA GreedyOnce ==
  ASSUME NEW d, NEW time, NEW s, IsGreedy(s, d, time),
         NEW i \in 1..Len(s), NEW j \in 1..Len(s), s[i] = s[j]
  PROVE  i = j
<1>1. Len(s) \in Nat /\ i \in Nat /\ j \in Nat
  BY DEF IsGreedy
<1>2. s[i] \notin Earlier(s, i) /\ s[j] \notin Earlier(s, j)
  BY DEF IsGreedy, Queued
<1>3. ~ (i < j)
  BY <1>1, <1>2 DEF Earlier
<1>4. ~ (j < i)
  BY <1>1, <1>2 DEF Earlier
<1> QED BY <1>1, <1>3, <1>4

\* Of two blocks that both nodes have, the one that is first in one greedy
\* order is first in the other.  Otherwise take the first block x of s that
\* comes too late in t, and the first block y of t that s has after x and t
\* before it.  Nothing held y back in s, nor x in t, so each precedes the other.
LEMMA GreedyAgree ==
  ASSUME NEW d, NEW e, NEW time, Ranked(d, time), Ranked(e, time),
         NEW C, C = Blocks(d) \cap Blocks(e),
         \A x \in C : /\ d.parents[x] = e.parents[x] /\ d.parents[x] \subseteq C
                     /\ d.score[x] = e.score[x],
         NEW s, IsGreedy(s, d, time), Members(s) = Blocks(d),
         NEW t, IsGreedy(t, e, time), Members(t) = Blocks(e),
         NEW a \in C, NEW b \in C, InOrder(s, a, b)
  PROVE  InOrder(t, a, b)
<1> DEFINE Swapped(x, y) == InOrder(s, x, y) /\ InOrder(t, y, x)
           BadS == {i \in 1..Len(s) : s[i] \in C /\ \E y \in C : Swapped(s[i], y)}
<1> SUFFICES ASSUME ~ InOrder(t, a, b) PROVE FALSE
  OBVIOUS
<1>1. Len(s) \in Nat /\ Len(t) \in Nat
  BY DEF IsGreedy
<1>2. /\ \A x \in C : \E i \in 1..Len(s) : s[i] = x
      /\ \A x \in C : \E k \in 1..Len(t) : t[k] = x
  BY DEF Members
<1>3. /\ \A i, j \in 1..Len(s) : s[i] = s[j] => i = j
      /\ \A k, l \in 1..Len(t) : t[k] = t[l] => k = l
  BY GreedyOnce
<1>4. /\ \A i, j \in 1..Len(s) : i < j => InOrder(s, s[i], s[j])
      /\ \A k, l \in 1..Len(t) : k < l => InOrder(t, t[k], t[l])
  <2>1. ASSUME NEW u, Len(u) \in Nat, NEW i \in 1..Len(u), NEW j \in 1..Len(u), i < j
        PROVE  InOrder(u, u[i], u[j])
    <3>1. i \in 1..(j - 1)
      BY <2>1
    <3> QED BY <3>1 DEF InOrder
  <2> QED BY <1>1, <2>1
<1>5. /\ \A x, y : InOrder(s, x, y) => \E i, j \in 1..Len(s) : i < j /\ s[i] = x /\ s[j] = y
      /\ \A x, y : InOrder(t, x, y) => \E k, l \in 1..Len(t) : k < l /\ t[k] = x /\ t[l] = y
  <2>1. ASSUME NEW u, Len(u) \in Nat, NEW x, NEW y, InOrder(u, x, y)
        PROVE  \E i, j \in 1..Len(u) : i < j /\ u[i] = x /\ u[j] = y
    <3>1. PICK j \in 1..Len(u) : u[j] = y /\ \E i \in 1..(j - 1) : u[i] = x
      BY <2>1 DEF InOrder
    <3>2. PICK i \in 1..(j - 1) : u[i] = x
      BY <3>1
    <3>3. i \in 1..Len(u) /\ i < j
      BY <2>1
    <3> QED BY <3>1, <3>2, <3>3
  <2> QED BY <1>1, <2>1
<1>6. Swapped(a, b)
  <2>1. PICK i \in 1..Len(s), j \in 1..Len(s) : i < j /\ s[i] = a /\ s[j] = b
    BY <1>5
  <2>2. a # b
    BY <1>1, <1>3, <2>1
  <2>3. PICK k \in 1..Len(t), l \in 1..Len(t) : t[k] = a /\ t[l] = b
    BY <1>2
  <2>4. k # l /\ ~ (k < l)
    BY <1>4, <2>2, <2>3
  <2>5. l < k
    BY <1>1, <2>4
  <2> QED BY <1>4, <2>3, <2>5
<1>7. PICK i \in BadS : \A i1 \in BadS : i <= i1
  <2>1. \E i \in 1..Len(s) : s[i] = a
    BY <1>2
  <2>2. BadS # {}
    <3> HIDE DEF Swapped
    <3> QED BY <1>6, <2>1
  <2>3. BadS \in SUBSET Nat
    BY <1>1
  <2> HIDE DEF BadS
  <2> QED BY <2>2, <2>3, LeastNatural
<1> DEFINE x == s[i]
           BadT == {k \in 1..Len(t) : t[k] \in C /\ Swapped(x, t[k])}
<1>8. PICK k \in BadT : \A k1 \in BadT : k <= k1
  <2>1. PICK y \in C : Swapped(x, y)
    BY <1>7
  <2>2. \E k \in 1..Len(t) : t[k] = y
    BY <1>2
  <2>3. BadT # {}
    <3> HIDE DEF Swapped, x
    <3> QED BY <2>1, <2>2
  <2>4. BadT \in SUBSET Nat
    BY <1>1
  <2> HIDE DEF BadT
  <2> QED BY <2>3, <2>4, LeastNatural
<1> DEFINE y == t[k]
<1>9. /\ i \in 1..Len(s) /\ x \in C /\ k \in 1..Len(t) /\ y \in C
      /\ InOrder(s, x, y) /\ InOrder(t, y, x)
  BY <1>7, <1>8
<1>10. PICK j \in 1..Len(s) : i < j /\ s[j] = y
  <2>1. PICK i1 \in 1..Len(s), j \in 1..Len(s) : i1 < j /\ s[i1] = x /\ s[j] = y
    <3>1. InOrder(s, x, y)
      BY <1>9
    <3>2. \A v, w : InOrder(s, v, w) => \E g, h \in 1..Len(s) : g < h /\ s[g] = v /\ s[h] = w
      BY <1>5
    <3> HIDE DEF x, y
    <3> QED BY <3>1, <3>2
  <2>2. i1 = i
    BY <1>3, <1>9, <2>1
  <2> QED BY <2>1, <2>2
<1>11. PICK l \in 1..Len(t) : k < l /\ t[l] = x
  <2>1. PICK k1 \in 1..Len(t), l \in 1..Len(t) : k1 < l /\ t[k1] = y /\ t[l] = x
    <3>1. InOrder(t, y, x)
      BY <1>9
    <3>2. \A v, w : InOrder(t, v, w) => \E g, h \in 1..Len(t) : g < h /\ t[g] = v /\ t[h] = w
      BY <1>5
    <3> HIDE DEF x, y
    <3> QED BY <3>1, <3>2
  <2>2. k1 = k
    BY <1>3, <1>9, <2>1
  <2> QED BY <2>1, <2>2
<1>12. \A i1 \in 1..Len(s) : \A z \in C : s[i1] \in C /\ Swapped(s[i1], z) => i <= i1
  <2> HIDE DEF Swapped
  <2> QED BY <1>7
<1>13. \A k1 \in 1..Len(t) : t[k1] \in C /\ Swapped(x, t[k1]) => k <= k1
  <2> HIDE DEF Swapped, x
  <2> QED BY <1>8
<1>14. x \in Queued(e, Earlier(t, k))
  <2>1. ASSUME NEW p \in e.parents[x] PROVE p \in Earlier(t, k)
    <3>1. p \in C /\ p \in d.parents[x]
      BY <1>9, <2>1
    <3>2. p \in Earlier(s, i)
      BY <1>9, <3>1 DEF IsGreedy, Queued
    <3>3. PICK i1 \in 1..(i - 1) : s[i1] = p
      BY <3>2 DEF Earlier
    <3>4. i1 \in 1..Len(s) /\ i1 < i /\ i1 < j
      BY <1>1, <1>9, <1>10
    <3>5. PICK k1 \in 1..Len(t) : t[k1] = p
      BY <1>2, <3>1
    <3>6. k1 # k
      BY <1>3, <1>10, <3>3, <3>4, <3>5
    <3>7. ~ (k < k1)
      <4> SUFFICES ASSUME k < k1 PROVE FALSE
        OBVIOUS
      <4>1. InOrder(t, y, p)
        BY <1>4, <1>9, <3>5
      <4>2. InOrder(s, p, y)
        BY <1>4, <1>10, <3>3, <3>4
      <4>3. i <= i1
        BY <1>9, <1>12, <3>1, <3>3, <3>4, <4>1, <4>2
      <4> QED BY <1>1, <1>9, <3>4, <4>3
    <3>8. k1 \in 1..(k - 1)
      BY <1>1, <1>9, <3>6, <3>7
    <3> QED BY <3>5, <3>8 DEF Earlier
  <2>2. x \notin Earlier(t, k)
    <3> SUFFICES ASSUME NEW k1 \in 1..(k - 1), t[k1] = x PROVE FALSE
      BY DEF Earlier
    <3>1. k1 \in 1..Len(t) /\ k1 < l
      BY <1>1, <1>9, <1>11
    <3> QED BY <1>1, <1>3, <1>11, <3>1
  <2> QED BY <1>9, <2>1, <2>2 DEF Queued
<1>15. y \in Queued(d, Earlier(s, i))
  <2>1. ASSUME NEW p \in d.parents[y] PROVE p \in Earlier(s, i)
    <3>1. p \in C /\ p \in e.parents[y]
      BY <1>9, <2>1
    <3>2. p \in Earlier(t, k)
      BY <1>9, <3>1 DEF IsGreedy, Queued
    <3>3. PICK k1 \in 1..(k - 1) : t[k1] = p
      BY <3>2 DEF Earlier
    <3>4. k1 \in 1..Len(t) /\ k1 < k /\ k1 < l
      BY <1>1, <1>9, <1>11
    <3>5. PICK i1 \in 1..Len(s) : s[i1] = p
      BY <1>2, <3>1
    <3>6. i1 # i
      BY <1>3, <1>11, <3>3, <3>4, <3>5
    <3>7. ~ (i < i1)
      <4> SUFFICES ASSUME i < i1 PROVE FALSE
        OBVIOUS
      <4>1. InOrder(s, x, p)
        BY <1>4, <1>9, <3>5
      <4>2. InOrder(t, p, x)
        BY <1>4, <1>11, <3>3, <3>4
      <4>3. k <= k1
        BY <1>9, <1>13, <3>1, <3>3, <3>4, <4>1, <4>2
      <4> QED BY <1>1, <1>9, <3>4, <4>3
    <3>8. i1 \in 1..(i - 1)
      BY <1>1, <1>9, <3>6, <3>7
    <3> QED BY <3>5, <3>8 DEF Earlier
  <2>2. y \notin Earlier(s, i)
    <3> SUFFICES ASSUME NEW i1 \in 1..(i - 1), s[i1] = y PROVE FALSE
      BY DEF Earlier
    <3>1. i1 \in 1..Len(s) /\ i1 < j
      BY <1>1, <1>9, <1>10
    <3> QED BY <1>1, <1>3, <1>10, <3>1
  <2> QED BY <1>9, <2>1, <2>2 DEF Queued
<1>16. x # y
  BY <1>1, <1>3, <1>9, <1>10
<1>17. Precedes(e, time, y, x) /\ Precedes(d, time, x, y)
  BY <1>9, <1>14, <1>15, <1>16 DEF IsGreedy
<1>18. /\ x \in Nat /\ y \in Nat /\ time[x] \in Nat /\ time[y] \in Nat
       /\ d.score[x] \in Nat /\ d.score[y] \in Nat
       /\ d.score[x] = e.score[x] /\ d.score[y] = e.score[y]
  BY <1>9 DEF Ranked
<1> DEFINE sx == d.score[x]
           sy == d.score[y]
           tx == time[x]
           ty == time[y]
<1>19. \/ sx > sy
       \/ sx = sy /\ tx < ty
       \/ sx = sy /\ tx = ty /\ x < y
  BY <1>17 DEF Precedes
<1>20. \/ sy > sx
       \/ sy = sx /\ ty < tx
       \/ sy = sx /\ ty = tx /\ y < x
  <2>1. \/ e.score[y] > e.score[x]
        \/ e.score[y] = e.score[x] /\ ty < tx
        \/ e.score[y] = e.score[x] /\ ty = tx /\ y < x
    BY <1>17 DEF Precedes
  <2>2. e.score[y] = sy /\ e.score[x] = sx
    BY <1>18
  <2> HIDE DEF sx, sy, tx, ty, x, y
  <2> QED BY <2>1, <2>2
<1>21. sx \in Nat /\ sy \in Nat /\ tx \in Nat /\ ty \in Nat /\ x \in Nat /\ y \in Nat
  BY <1>18
<1> HIDE DEF x, y, sx, sy, tx, ty
<1> QED BY <1>19, <1>20, <1>21

-----------------------------------------------------------------------------
(* The theorems about the queries *)

\* Every mined block has a time.
OrderingInv ==
  /\ IInv /\ Grounded
  /\ IsFiniteSet(Mined) /\ DOMAIN created = Mined
  /\ \A b \in Mined : created[b] \in Nat

\* Blocks keep the time they were mined at.
THEOREM OrderingInvariance == OrderingSpec => []OrderingInv
<1>1. OrderingInit => OrderingInv
  <2> SUFFICES ASSUME OrderingInit PROVE OrderingInv
    OBVIOUS
  <2>1. Init /\ IInv /\ Grounded /\ created = [b \in {Genesis} |-> 0]
    BY Initially, InitiallyGrounded DEF OrderingInit
  <2>2. Mined = {Genesis} /\ IsFiniteSet({Genesis})
    BY <2>1, FS_Singleton DEF Init, Mined
  <2> QED BY <2>1, <2>2 DEF OrderingInv
<1>2. OrderingInv /\ [OrderingNext]_orderingVars => OrderingInv'
  <2> SUFFICES ASSUME OrderingInv, [OrderingNext]_orderingVars PROVE OrderingInv'
    OBVIOUS
  <2>1. [Next]_vars
    BY DEF OrderingNext, orderingVars, vars
  <2>2. IInv' /\ Grounded'
    BY <2>1, Step, GroundedStep DEF OrderingInv
  <2>3. CASE UNCHANGED orderingVars
    BY <2>2, <2>3 DEF orderingVars, OrderingInv, Mined
  <2>4. CASE OrderingNext
    <3>1. Mined' = Mined \/ \E b : Mined' = Mined \cup {b}
      BY <2>4 DEF OrderingNext, Next, MineBlock, HandleBlock, Put, Mined
    <3>2. IsFiniteSet(Mined')
      BY <3>1, FS_AddElement DEF OrderingInv
    <3>3. Cardinality(Mined) \in Nat
      BY FS_CardinalityType DEF OrderingInv
    <3>4. created' = [b \in Mined' |-> IF b \in Mined THEN created[b] ELSE Cardinality(Mined)]
      BY <2>4 DEF OrderingNext, Stamp, OrderingInv, Mined
    <3> QED BY <2>2, <3>2, <3>3, <3>4 DEF OrderingInv
  <2> QED BY <2>3, <2>4
<1> QED BY <1>1, <1>2, PTL DEF OrderingSpec

\* GetFuture finds the blocks that have a block in their past, and no other.
THEOREM FutureIsExact == OrderingSpec => []FutureIsConverse
<1>1. OrderingInv => FutureIsConverse
  BY FutureProperty DEF OrderingInv, FutureIsConverse
<1> QED BY <1>1, OrderingInvariance, PTL

\* Each accepted block is in the order, once, after its parents.
THEOREM OrdersAreTopological == OrderingSpec => []OrderingIsTopological
<1>1. OrderingInv => OrderingIsTopological
  <2> SUFFICES ASSUME OrderingInv, NEW n \in Nodes
               PROVE  LET d == chain[n]
                          order == ComputeGHOSTDAGOrdering(d, created)
                      IN  /\ Len(order) = Cardinality(Blocks(d)) /\ Members(order) = Blocks(d)
                          /\ \A i, j \in 1..Len(order) : order[i] \in d.parents[order[j]] => i < j
    BY DEF OrderingIsTopological
  <2> DEFINE d == chain[n]
             s == ComputeGHOSTDAGOrdering(d, created)
  <2>1. /\ IsGreedy(s, d, created) /\ Members(s) = Blocks(d)
        /\ Len(s) = Cardinality(Blocks(d)) /\ Len(s) \in Nat
    BY OrderingProperty DEF OrderingInv
  <2> HIDE DEF s, d
  <2>2. ASSUME NEW i \in 1..Len(s), NEW j \in 1..Len(s), s[i] \in d.parents[s[j]]
        PROVE  i < j
    <3>1. s[i] \in Earlier(s, j)
      BY <2>1, <2>2 DEF IsGreedy, Queued
    <3>2. PICK k \in 1..(j - 1) : s[k] = s[i]
      BY <3>1 DEF Earlier
    <3>3. k \in 1..Len(s)
      BY <2>1
    <3>4. k = i
      BY <2>1, <3>2, <3>3, GreedyOnce
    <3> QED BY <2>1, <3>4
  <2> QED BY <2>1, <2>2 DEF s, d
<1> QED BY <1>1, OrderingInvariance, PTL

\* Nodes order alike what they share.
THEOREM OrdersAgree == OrderingSpec => []OrderingsAgree
<1>1. ASSUME OrderingInv, NEW m \in Nodes, NEW n \in Nodes,
             NEW a \in Blocks(chain[m]) \cap Blocks(chain[n]),
             NEW b \in Blocks(chain[m]) \cap Blocks(chain[n]),
             InOrder(ComputeGHOSTDAGOrdering(chain[m], created), a, b)
      PROVE  InOrder(ComputeGHOSTDAGOrdering(chain[n], created), a, b)
  <2> DEFINE d == chain[m]
             e == chain[n]
             C == Blocks(d) \cap Blocks(e)
             s == ComputeGHOSTDAGOrdering(d, created)
             t == ComputeGHOSTDAGOrdering(e, created)
  <2>1. ChainInv(d, header) /\ ChainInv(e, header) /\ HeaderOK(header)
    BY <1>1 DEF OrderingInv, IInv
  <2>2. /\ IsGreedy(s, d, created) /\ Members(s) = Blocks(d)
        /\ IsGreedy(t, e, created) /\ Members(t) = Blocks(e)
    BY <1>1, OrderingProperty DEF OrderingInv
  <2> HIDE DEF d, e
  <2>3. /\ \A x \in Blocks(d) : x \in Nat /\ d.score[x] \in Nat /\ x \in Mined
        /\ \A x \in Blocks(e) : x \in Nat /\ e.score[x] \in Nat /\ x \in Mined
    BY <2>1, EntryTypes DEF ChainInv, BlocksOK, Mined
  <2>4. Ranked(d, created) /\ Ranked(e, created)
    BY <1>1, <2>3 DEF Ranked, OrderingInv
  <2>5. \A x \in C : d.score[x] = e.score[x]
    BY <2>1, SameColour
  <2>6. \A x \in C : d.parents[x] = e.parents[x] /\ d.parents[x] \subseteq C
    BY <2>1 DEF ChainInv, BlocksOK
  <2>7. a \in C /\ b \in C /\ InOrder(s, a, b)
    BY <1>1 DEF d, e
  <2> HIDE DEF s, t
  <2>8. PICK D : D = C
    OBVIOUS
  <2>9. InOrder(t, a, b)
    BY <2>2, <2>4, <2>5, <2>6, <2>7, <2>8, GreedyAgree
  <2> QED BY <2>9 DEF t, e
<1>2. OrderingInv => OrderingsAgree
  BY <1>1 DEF OrderingsAgree
<1> QED BY <1>2, OrderingInvariance, PTL

-----------------------------------------------------------------------------
(* The inductive invariant *)

\* The miner's part of a block id.
Owner(b) == b \div IdSpan

\* A block is held by its miner.
OwnersHold ==
  \A b \in Mined \ {Genesis} : Owner(b) \in Miners /\ b \in Blocks(chain[Owner(b)])

\* A node knows what its mempool and its blocks contain.
BodiesKnown ==
  \A n \in Nodes : /\ pool[n] \subseteq known[n]
                   /\ \A c \in Holding(chain[n]) : body[c] \subseteq known[n]

\* A miner's blocks have taken their transactions out of its mempool.
OwnSpent == \A n \in Nodes : \A a \in OwnBlocks(n) : body[a] \cap pool[n] = {}

\* StaleOnlyByOwnBlock, with own blocks that the node has accepted.
StaleCovered ==
  \A n \in Nodes : \A c \in chain[n].isBlue :
    body[c] \cap pool[n] # {} =>
      \E a \in OwnBlocks(n) \cap Blocks(chain[n]) : c \in chain[n].past[a]

\* RepeatsOnlyAfterOwnBlock of block b, in the DAG d.
RepeatsCovered(d, b) ==
  LET own == d.past[b] \cap OwnBlocks(Owner(b))
  IN  /\ \A c \in d.blue[d.sparent[b]] :
           body[b] \cap body[c] # {} => \E a \in own : c \in d.past[a]
      /\ \A a \in own : body[a] \cap body[b] = {}

ConfirmationInv ==
  /\ IInv /\ Grounded /\ DOMAIN body = Mined
  /\ pool \in [Nodes -> SUBSET Txs] /\ known \in [Nodes -> SUBSET Txs]
  /\ OwnersHold /\ BodiesKnown /\ OwnSpent /\ StaleCovered
  /\ \A b \in Mined \ {Genesis} : RepeatsCovered(chain[Owner(b)], b)

-----------------------------------------------------------------------------
(* A miner's own block *)

\* The miner can be read off a block's id.
LEMMA OwnerOfId ==
  ASSUME NEW n \in Nodes, NEW i \in 1..(IdSpan - 1)
  PROVE  Owner(BlockId(n, i)) = n
<1> DEFINE a == n * IdSpan + i
           q == a \div IdSpan
<1>1. n \in Nat /\ IdSpan \in Nat \ {0}
  BY NodesAreNat, IdsFit
<1>2. n * IdSpan \in Nat
  BY <1>1, SMT
<1>3. a \in Nat /\ a < n * IdSpan + IdSpan /\ n * IdSpan <= a
  BY <1>1, <1>2
<1>4. q \in Nat /\ q * IdSpan <= a /\ a < q * IdSpan + IdSpan
  <2> HIDE DEF a
  <2> QED BY <1>1, <1>3, SMT
<1> HIDE DEF q, a
<1>5. q * IdSpan \in Nat
  BY <1>1, <1>4, SMT
<1>6. ~ (q < n)
  <2> SUFFICES ASSUME q < n PROVE FALSE
    OBVIOUS
  <2>1. q * IdSpan + IdSpan <= n * IdSpan
    BY <1>1, <1>4, SpanProduct
  <2> QED BY <1>1, <1>2, <1>3, <1>4, <1>5, <2>1
<1>7. ~ (n < q)
  <2> SUFFICES ASSUME n < q PROVE FALSE
    OBVIOUS
  <2>1. n * IdSpan + IdSpan <= q * IdSpan
    BY <1>1, <1>4, SpanProduct
  <2> QED BY <1>1, <1>2, <1>3, <1>4, <1>5, <2>1
<1> QED BY <1>1, <1>4, <1>6, <1>7 DEF q, a, Owner, BlockId

\* A block on all tips is the one tip and has all other blocks in its past.
LEMMA TopBlock ==
  ASSUME NEW e, NEW hdr, HeaderOK(hdr), ChainInv(e, hdr), NEW b \in Blocks(e),
         e.tips = {b}
  PROVE  e.past[b] = Blocks(e) \ {b} /\ e.isBlue = e.blue[b] /\ SelectTip(e) = b
<1>1. /\ BlocksOK(e, hdr) /\ PastOK(e) /\ TipsOK(e) /\ FlagsOK(e)
      /\ IsFiniteSet(Blocks(e))
  BY DEF ChainInv, BlocksOK
<1>2. SelectTip(e) = b
  BY <1>1, SelectTipProperty
<1>3. e.past[b] \subseteq Blocks(e) \ {b}
  BY <1>1 DEF PastOK
<1> DEFINE X == Blocks(e) \ (e.past[b] \cup {b})
           Above == {Blocks(e) \ e.past[x] : x \in X}
           U == Blocks(e)
<1>4. X = {}
  <2> SUFFICES ASSUME X # {} PROVE FALSE
    OBVIOUS
  <2>1. IsWellFoundedOn(StrictSubsetOrdering(U), FiniteSubsetsOf(U))
    BY FS_StrictSubsetOrderingWellFounded
  <2>2. Above \subseteq FiniteSubsetsOf(U) /\ Above # {}
    <3>1. \A T \in SUBSET U : IsFiniteSet(T)
      BY <1>1, FS_Subset
    <3> QED BY <3>1 DEF FiniteSubsetsOf
  <2>3. PICK s \in Above : \A y \in Above : <<y, s>> \notin StrictSubsetOrdering(U)
    <3> HIDE DEF Above, U
    <3> QED BY <2>1, <2>2, WFMin
  <2>4. PICK x \in X : s = Blocks(e) \ e.past[x]
    BY <2>3
  <2>5. PICK c \in Blocks(e) : x \in e.past[c]
    BY <1>1, <2>4 DEF TipsOK
  <2>6. c \in X
    BY <1>1, <2>4, <2>5 DEF PastOK
  <2>7. e.past[x] \subseteq e.past[c] /\ x \notin e.past[x]
    BY <1>1, <2>4, <2>5 DEF PastOK
  <2>8. /\ Blocks(e) \ e.past[c] \subseteq s /\ Blocks(e) \ e.past[c] # s
        /\ s \in SUBSET U
    BY <2>4, <2>5, <2>7
  <2>9. Blocks(e) \ e.past[c] \in Above
    BY <2>6
  <2> QED BY <2>3, <2>8, <2>9 DEF StrictSubsetOrdering
<1> QED BY <1>1, <1>2, <1>3, <1>4 DEF FlagsOK

\* What MineBlock makes: the one tip, on all that the miner has accepted, with
\* the tip that was selected for its selected parent.  It unlocks no orphan.
LEMMA OwnBlock ==
  ASSUME IInv, Grounded, NEW n \in Miners, MineBlock(n)
  PROVE  LET d == chain[n]
             e == chain'[n]
             b == BlockId(n, d.next)
         IN  /\ b \notin Mined /\ DOMAIN header' = Mined \cup {b} /\ Takes(n, b)
             /\ Blocks(e) = Blocks(d) \cup {b} /\ e.past[b] = Blocks(d)
             /\ e.isBlue = e.blue[b] /\ e.blue[b] \subseteq Blocks(d) \cup {b}
             /\ e.sparent[b] = SelectTip(d)
             /\ Owner(b) = n /\ b # Genesis
<1> DEFINE d == chain[n]
           e == chain'[n]
           b == BlockId(n, d.next)
<1>1. n \in Nodes /\ d.next \in 1..(IdSpan - 1)
  BY MinersAreNodes, IdsFit DEF IInv, MineBlock
<1>2. /\ b \notin Mined /\ header' = Put(header, b, d.tips) /\ IInv' /\ Takes(n, b)
      /\ \A m \in Nodes : Stepped(m)
  BY MineBlockStep DEF MineBlock
<1>3. Owner(b) = n /\ b # Genesis
  BY <1>1, OwnerOfId, BlockIdInjective
<1>4. /\ ChainInv(d, header) /\ ReadyOrphans(d) = {} /\ HeaderOK(header)
      /\ ChainInv(e, header') /\ HeaderOK(header')
      /\ Blocks(d) \subseteq Blocks(e) /\ b \in Blocks(e)
  <2>1. HasBlock(e, b)
    <3>1. b \in Mined'
      BY <1>2 DEF Put, Mined
    <3> QED BY <1>1, <1>2, <3>1 DEF IInv, MinersHoldTheirOwn
  <2> QED BY <1>1, <1>2, <2>1 DEF IInv, Stepped, HasBlock
<1>5. /\ DOMAIN header' = Mined \cup {b} /\ header'[b] = d.tips
      /\ \A x \in Mined : header'[x] = header[x]
  <2> HIDE DEF b, d
  <2> QED BY <1>2 DEF Put, Mined
<1>6. \A x \in Blocks(d) : /\ e.past[x] = d.past[x] /\ e.score[x] = d.score[x]
  BY <1>1, <1>2 DEF Stepped
<1> HIDE DEF e, d, b
<1>7. Blocks(e) = Blocks(d) \cup {b}
  <2> DEFINE S == Blocks(e) \ (Blocks(d) \cup {b})
  <2> SUFFICES ASSUME S # {} PROVE FALSE
    BY <1>4
  <2>1. S \subseteq DOMAIN d.orphans
    BY <1>2 DEF Takes, Holding, d, e
  <2>2. \A x \in S : /\ x \in Mined /\ d.orphans[x] = header[x] /\ header[x] \subseteq Mined
                     /\ header[x] \subseteq Blocks(e)
    <3>1. \A x \in S : x \in Mined /\ d.orphans[x] = header[x] /\ header[x] \subseteq Mined
      BY <1>4, <2>1 DEF ChainInv, OrphansOK, HeaderOK, Mined
    <3>2. \A x \in S : header'[x] \subseteq Blocks(e)
      BY <1>4 DEF ChainInv, BlocksOK
    <3> QED BY <1>5, <3>1, <3>2
  <2>3. PICK x \in S : header[x] \cap S = {}
    BY <2>2 DEF Grounded
  <2>4. header[x] \subseteq Blocks(d)
    BY <1>2, <2>2, <2>3
  <2>5. x \in ReadyOrphans(d)
    BY <2>1, <2>2, <2>3, <2>4 DEF ReadyOrphans
  <2> QED BY <1>4, <2>5
<1>8. d.tips \subseteq e.past[b]
  <2>1. e.past[b] = PastOf(e, d.tips)
    BY <1>4, <1>5 DEF ChainInv, PastOK, BlocksOK
  <2> QED BY <2>1 DEF PastOf
<1>9. e.tips = {b}
  <2>1. \A x \in Blocks(d) : \E c \in Blocks(e) : x \in e.past[c]
    <3> SUFFICES ASSUME NEW x \in Blocks(d) PROVE \E c \in Blocks(e) : x \in e.past[c]
      OBVIOUS
    <3>1. CASE x \in d.tips
      BY <1>4, <1>8, <3>1
    <3>2. CASE x \notin d.tips
      BY <1>4, <1>6, <3>2 DEF ChainInv, TipsOK
    <3> QED BY <3>1, <3>2
  <2> QED BY <1>4, <1>7, <2>1 DEF ChainInv, TipsOK
<1>10. e.past[b] = Blocks(e) \ {b} /\ e.isBlue = e.blue[b]
  BY <1>4, <1>9, TopBlock
<1>11. b \notin Blocks(d)
  BY <1>2, <1>4 DEF ChainInv, BlocksOK, Mined
<1>12. e.blue[b] \subseteq e.past[b] \cup {b}
  BY <1>4 DEF ChainInv, BlueOK
<1>13. e.sparent[b] = SelectTip(d)
  <2> DEFINE v == View(e, e.past[b])
  <2>1. e.sparent[b] = Colouring(v, b, d.tips).sparent
    <3>1. e.parents[b] = d.tips
      BY <1>4, <1>5 DEF ChainInv, BlocksOK
    <3>2. [sparent |-> e.sparent[b], blue |-> e.blue[b], score |-> e.score[b]]
            = Colouring(v, b, d.tips)
      BY <1>3, <1>4, <3>1 DEF ChainInv, ColourOK
    <3> QED BY <3>2
  <2>2. d.tips # {} /\ d.tips \subseteq Blocks(d)
    BY <1>4 DEF ChainInv, TipsOK
  <2>3. e.sparent[b] = Heaviest(d.tips, v.score)
    BY <2>1, <2>2 DEF Colouring
  <2>4. \A x \in d.tips : v.score[x] = d.score[x]
    BY <1>4, <1>6, <1>8, <2>2 DEF View, Only, ChainInv, BlocksOK
  <2> DEFINE P(x, score) == \A y \in d.tips : \/ score[x] > score[y]
                                              \/ score[x] = score[y] /\ x <= y
  <2>5. \A x \in d.tips : P(x, v.score) <=> P(x, d.score)
    BY <2>4
  <2>6. Heaviest(d.tips, v.score) = Heaviest(d.tips, d.score)
    <3> HIDE DEF v
    <3> QED BY <2>5, Zenon DEF Heaviest
  <2> QED BY <2>3, <2>6 DEF SelectTip
<1> QED BY <1>2, <1>3, <1>5, <1>7, <1>10, <1>11, <1>12, <1>13 DEF b, d, e

-----------------------------------------------------------------------------
(* The steps *)

\* All that a node holds was mined, and the pasts, blue sets and selected
\* parents of its accepted blocks are accepted blocks.
LEMMA OwnAreMined ==
  ASSUME IInv, NEW n \in Nodes
  PROVE  /\ Holding(chain[n]) \subseteq Mined /\ Blocks(chain[n]) \subseteq Mined
         /\ chain[n].isBlue \subseteq Blocks(chain[n])
         /\ \A b \in Blocks(chain[n]) : chain[n].past[b] \subseteq Blocks(chain[n])
         /\ \A b \in Blocks(chain[n]) \ {Genesis} :
              /\ chain[n].sparent[b] \in Blocks(chain[n])
              /\ chain[n].blue[chain[n].sparent[b]] \subseteq Blocks(chain[n])
<1> DEFINE d == chain[n]
<1>1. ChainInv(d, header) /\ HeaderOK(header)
  BY DEF IInv
<1> HIDE DEF d
<1>2. Blocks(d) \subseteq Mined /\ DOMAIN d.orphans \subseteq Mined
  BY <1>1 DEF ChainInv, BlocksOK, OrphansOK, Mined
<1>3. \A b \in Blocks(d) : d.past[b] \subseteq Blocks(d)
  BY <1>1 DEF ChainInv, PastOK
<1>4. \A b \in Blocks(d) : d.blue[b] \subseteq Blocks(d)
  BY <1>1, <1>3 DEF ChainInv, BlueOK
<1>5. d.isBlue \subseteq Blocks(d)
  BY <1>1, <1>4, SelectTipProperty DEF ChainInv, FlagsOK
<1>6. \A b \in Blocks(d) \ {Genesis} : d.sparent[b] \in Blocks(d)
  BY <1>1 DEF ChainInv, ColourOK, BlocksOK
<1> QED BY <1>2, <1>3, <1>4, <1>5, <1>6 DEF d, Holding

\* What holds of an accepted block stays true of it.
LEMMA RepeatsStay ==
  ASSUME IInv, NEW m \in Nodes, Stepped(m), NEW x \in Blocks(chain[m]) \ {Genesis},
         RepeatsCovered(chain[m], x), Mined \subseteq Mined',
         \A y \in Mined : body'[y] = body[y]
  PROVE  RepeatsCovered(chain[m], x)'
<1> DEFINE d == chain[m]
           e == chain'[m]
           own == d.past[x] \cap OwnBlocks(Owner(x))
           sp == d.sparent[x]
<1>1. /\ Blocks(d) \subseteq Mined /\ (\A b \in Blocks(d) : d.past[b] \subseteq Blocks(d))
      /\ sp \in Blocks(d) /\ d.blue[sp] \subseteq Blocks(d)
  BY OwnAreMined
<1>2. \A b \in Blocks(d) : /\ e.past[b] = d.past[b] /\ e.blue[b] = d.blue[b]
                           /\ e.sparent[b] = d.sparent[b]
  BY DEF Stepped
<1>3. e.past[x] \cap OwnBlocks(Owner(x))' = own
  BY <1>1, <1>2 DEF OwnBlocks
<1>4. e.blue[e.sparent[x]] = d.blue[sp]
  BY <1>1, <1>2
<1>5. /\ \A c \in d.blue[sp] : body[x] \cap body[c] # {} => \E a \in own : c \in d.past[a]
      /\ \A a \in own : body[a] \cap body[x] = {}
  BY DEF RepeatsCovered
<1>6. own \subseteq Blocks(d)
  BY <1>1
<1> HIDE DEF d, e, own, sp
<1>7. /\ \A c \in d.blue[sp] : body'[x] \cap body'[c] # {} => \E a \in own : c \in e.past[a]
      /\ \A a \in own : body'[a] \cap body'[x] = {}
  BY <1>1, <1>2, <1>5, <1>6 DEF d
<1> QED BY <1>3, <1>4, <1>7 DEF RepeatsCovered, e

\* A transaction that comes in is in no block that the node holds.
LEMMA AcceptStep ==
  ASSUME ConfirmationInv, NEW n \in Nodes, NEW tx \in Txs, AcceptTransaction(n, tx)
  PROVE  ConfirmationInv'
<1>1. /\ header' = header /\ chain' = chain /\ body' = body /\ tx \notin known[n]
      /\ known' = [known EXCEPT ![n] = @ \cup {tx}] /\ pool' = [pool EXCEPT ![n] = @ \cup {tx}]
  BY DEF AcceptTransaction
<1>2. /\ IInv /\ Grounded /\ DOMAIN body = Mined
      /\ pool \in [Nodes -> SUBSET Txs] /\ known \in [Nodes -> SUBSET Txs]
      /\ OwnersHold /\ BodiesKnown /\ OwnSpent /\ StaleCovered
      /\ \A b \in Mined \ {Genesis} : RepeatsCovered(chain[Owner(b)], b)
  BY DEF ConfirmationInv
<1>3. /\ pool' \in [Nodes -> SUBSET Txs] /\ known' \in [Nodes -> SUBSET Txs]
      /\ \A m \in Nodes : m # n => pool'[m] = pool[m] /\ known'[m] = known[m]
      /\ pool'[n] = pool[n] \cup {tx} /\ known'[n] = known[n] \cup {tx}
  BY <1>1, <1>2
<1>4. \A c \in Holding(chain[n]) : tx \notin body[c]
  BY <1>1, <1>2 DEF BodiesKnown
<1>5. IInv' /\ Grounded' /\ (DOMAIN body = Mined)' /\ OwnersHold'
  <2>1. IInv'
    BY <1>1, <1>2, Step DEF vars
  <2>2. Mined' = Mined
    BY <1>1 DEF Mined
  <2> QED BY <1>1, <1>2, <2>1, <2>2 DEF Grounded, OwnersHold
<1>6. BodiesKnown'
  BY <1>1, <1>2, <1>3 DEF BodiesKnown
<1>7. OwnSpent'
  <2> SUFFICES ASSUME NEW m \in Nodes, NEW a \in OwnBlocks(m) PROVE body[a] \cap pool'[m] = {}
    BY <1>1 DEF OwnSpent, OwnBlocks, Mined
  <2>1. body[a] \cap pool[m] = {}
    BY <1>2 DEF OwnSpent
  <2>2. CASE m = n
    <3>1. a \in Blocks(chain[n])
      BY <1>2, <2>2 DEF OwnersHold, OwnBlocks, Owner
    <3> QED BY <1>3, <1>4, <2>1, <2>2, <3>1 DEF Holding
  <2> QED BY <1>3, <2>1, <2>2
<1>8. StaleCovered'
  <2> SUFFICES ASSUME NEW m \in Nodes, NEW c \in chain[m].isBlue, body[c] \cap pool'[m] # {}
               PROVE  \E a \in OwnBlocks(m) \cap Blocks(chain[m]) : c \in chain[m].past[a]
    BY <1>1 DEF StaleCovered, OwnBlocks, Mined
  <2>1. c \in Holding(chain[m])
    BY <1>2, OwnAreMined DEF Holding
  <2>2. body[c] \cap pool[m] # {}
    BY <1>3, <1>4, <2>1
  <2> QED BY <1>2, <2>2 DEF StaleCovered
<1>9. (\A b \in Mined \ {Genesis} : RepeatsCovered(chain[Owner(b)], b))'
  BY <1>1, <1>2 DEF RepeatsCovered, OwnBlocks, Mined
<1> QED BY <1>3, <1>5, <1>6, <1>7, <1>8, <1>9 DEF ConfirmationInv

\* Mining: the one step that turns blocks blue and leaves their transactions
\* in the mempool, and all of them are in the past of the new block.
LEMMA MineStep ==
  ASSUME ConfirmationInv, NEW n \in Miners, MineBody(n)
  PROVE  ConfirmationInv'
<1> DEFINE d == chain[n]
           e == chain'[n]
           b == BlockId(n, d.next)
<1>1. MineBlock(n) /\ n \in Nodes
  BY MinersAreNodes DEF MineBody
<1>2. PICK txs \in SUBSET pool[n] : /\ pool' = [pool EXCEPT ![n] = @ \ txs]
                                    /\ body' = Put(body, b, txs) /\ known' = known
  BY DEF MineBody, SelectTransactions
<1>3. /\ IInv /\ Grounded /\ DOMAIN body = Mined
      /\ pool \in [Nodes -> SUBSET Txs] /\ known \in [Nodes -> SUBSET Txs]
      /\ OwnersHold /\ BodiesKnown /\ OwnSpent /\ StaleCovered
      /\ \A x \in Mined \ {Genesis} : RepeatsCovered(chain[Owner(x)], x)
  BY DEF ConfirmationInv
<1>4. IInv' /\ Grounded' /\ \A m \in Nodes : Stepped(m)
  <2>1. [Next]_vars
    BY <1>1 DEF Next
  <2> QED BY <1>3, <2>1, Step, GroundedStep
<1>5. /\ b \notin Mined /\ Mined' = Mined \cup {b} /\ Takes(n, b)
      /\ Blocks(e) = Blocks(d) \cup {b} /\ e.past[b] = Blocks(d)
      /\ e.isBlue = e.blue[b] /\ e.blue[b] \subseteq Blocks(d) \cup {b}
      /\ e.sparent[b] = SelectTip(d) /\ Owner(b) = n /\ b # Genesis
  BY <1>1, <1>3, OwnBlock DEF Mined
<1>6. \A x \in Blocks(d) : e.past[x] = d.past[x] /\ e.blue[x] = d.blue[x]
  BY <1>1, <1>4 DEF Stepped
<1> HIDE DEF e, b
<1>7. /\ DOMAIN body' = Mined' /\ body'[b] = txs /\ \A x \in Mined : body'[x] = body[x]
  BY <1>2, <1>3, <1>5 DEF Put
<1>8. /\ pool' \in [Nodes -> SUBSET Txs] /\ pool'[n] = pool[n] \ txs
      /\ \A m \in Nodes : m # n => pool'[m] = pool[m]
  BY <1>1, <1>2, <1>3
<1>9. \A m \in Nodes : m # n => chain'[m] = chain[m] /\ b \notin Blocks(chain[m])
  BY <1>3, <1>5, OwnAreMined DEF Takes
<1>10. /\ \A m : m # n => OwnBlocks(m)' = OwnBlocks(m)
       /\ OwnBlocks(n)' = OwnBlocks(n) \cup {b} /\ \A m : OwnBlocks(m) \subseteq Mined
  BY <1>5 DEF OwnBlocks, Owner
<1>11. OwnersHold'
  <2> SUFFICES ASSUME NEW x \in Mined' \ {Genesis}
               PROVE  Owner(x) \in Miners /\ x \in Blocks(chain'[Owner(x)])
    BY DEF OwnersHold
  <2>1. CASE x \in Mined
    <3>1. Owner(x) \in Miners /\ Owner(x) \in Nodes /\ x \in Blocks(chain[Owner(x)])
      BY <1>3, <2>1, MinersAreNodes DEF OwnersHold
    <3> QED BY <1>4, <3>1 DEF Stepped
  <2> QED BY <1>5, <2>1 DEF e
<1>12. BodiesKnown'
  <2> SUFFICES ASSUME NEW m \in Nodes
               PROVE  /\ pool'[m] \subseteq known[m]
                      /\ \A c \in Holding(chain'[m]) : body'[c] \subseteq known[m]
    BY <1>2 DEF BodiesKnown
  <2>1. pool'[m] \subseteq known[m] /\ txs \subseteq known[n]
    BY <1>1, <1>3, <1>8 DEF BodiesKnown
  <2>2. \A c \in Holding(chain[m]) : body'[c] \subseteq known[m]
    BY <1>3, <1>7, OwnAreMined DEF BodiesKnown
  <2>3. \A c \in Holding(chain'[m]) : c \in Holding(chain[m]) \/ (c = b /\ m = n)
    BY <1>5, <1>9 DEF Takes
  <2> QED BY <1>7, <2>1, <2>2, <2>3
<1>13. OwnSpent'
  <2> SUFFICES ASSUME NEW m \in Nodes, NEW a \in OwnBlocks(m)'
               PROVE  body'[a] \cap pool'[m] = {}
    BY DEF OwnSpent
  <2>1. CASE a \in OwnBlocks(m)
    <3>1. body[a] \cap pool[m] = {} /\ body'[a] = body[a]
      BY <1>3, <1>7, <1>10, <2>1 DEF OwnSpent
    <3> QED BY <1>8, <3>1
  <2>2. CASE m = n /\ a = b
    BY <1>7, <1>8, <2>2
  <2> QED BY <1>10, <2>1, <2>2
<1>14. StaleCovered'
  <2> SUFFICES ASSUME NEW m \in Nodes, NEW c \in chain'[m].isBlue,
                      body'[c] \cap pool'[m] # {}
               PROVE  \E a \in OwnBlocks(m)' \cap Blocks(chain'[m]) : c \in chain'[m].past[a]
    BY DEF StaleCovered
  <2>1. CASE m # n
    <3>1. c \in Mined /\ c \in chain[m].isBlue
      BY <1>3, <1>9, <2>1, OwnAreMined
    <3>2. body[c] \cap pool[m] # {}
      BY <1>7, <1>8, <2>1, <3>1
    <3>3. PICK a \in OwnBlocks(m) \cap Blocks(chain[m]) : c \in chain[m].past[a]
      BY <1>3, <3>1, <3>2 DEF StaleCovered
    <3> QED BY <1>9, <1>10, <2>1, <3>3
  <2>2. CASE m = n
    <3>1. c \in Blocks(d) \cup {b}
      BY <1>5, <2>2 DEF e
    <3>2. c # b
      BY <1>7, <1>8, <2>2
    <3>3. b \in OwnBlocks(n)' /\ b \in Blocks(e) /\ c \in e.past[b]
      BY <1>5, <1>10, <3>1, <3>2
    <3> QED BY <2>2, <3>3 DEF e
  <2> QED BY <2>1, <2>2
<1>15. ASSUME NEW x \in Mined' \ {Genesis} PROVE RepeatsCovered(chain[Owner(x)], x)'
  <2>1. CASE x \in Mined
    <3> DEFINE m == Owner(x)
    <3>1. m \in Nodes /\ x \in Blocks(chain[m]) /\ RepeatsCovered(chain[m], x)
      BY <1>3, <2>1, MinersAreNodes DEF OwnersHold
    <3>2. Stepped(m) /\ Mined \subseteq Mined' /\ \A y \in Mined : body'[y] = body[y]
      BY <1>4, <1>5, <1>7, <3>1
    <3> HIDE DEF m
    <3>3. RepeatsCovered(chain[m], x)'
      BY <1>3, <3>1, <3>2, RepeatsStay
    <3> QED BY <3>3 DEF m
  <2>2. CASE x = b
    <3> DEFINE own == e.past[b] \cap OwnBlocks(n)'
    <3>1. own = Blocks(d) \cap OwnBlocks(n)
      BY <1>1, <1>3, <1>5, <1>10, OwnAreMined
    <3>2. e.blue[SelectTip(d)] = d.isBlue /\ d.isBlue \subseteq Mined
      <4>1. SelectTip(d) \in Blocks(d) /\ d.isBlue = d.blue[SelectTip(d)]
        BY <1>1, <1>3, SelectTipProperty DEF IInv, ChainInv, FlagsOK
      <4> QED BY <1>1, <1>3, <1>6, <4>1, OwnAreMined
    <3> HIDE DEF d, own
    <3>3. ASSUME NEW c \in e.blue[e.sparent[b]], body'[b] \cap body'[c] # {}
          PROVE  \E a \in own : c \in e.past[a]
      <4>1. c \in d.isBlue /\ body[c] \cap pool[n] # {}
        BY <1>5, <1>7, <3>2, <3>3
      <4>2. PICK a \in OwnBlocks(n) \cap Blocks(d) : c \in d.past[a]
        BY <1>1, <1>3, <4>1 DEF StaleCovered, d
      <4> QED BY <1>6, <3>1, <4>2
    <3>4. ASSUME NEW a \in own PROVE body'[a] \cap body'[b] = {}
      <4>1. body[a] \cap pool[n] = {} /\ body'[a] = body[a]
        BY <1>1, <1>3, <1>7, <1>10, <3>1 DEF OwnSpent
      <4> QED BY <1>7, <4>1
    <3> QED BY <1>5, <2>2, <3>3, <3>4 DEF RepeatsCovered, own, e
  <2> QED BY <1>5, <2>1, <2>2
<1> QED BY <1>2, <1>3, <1>4, <1>7, <1>8, <1>11, <1>12, <1>13, <1>14, <1>15
        DEF ConfirmationInv

\* A block that comes in: what turns blue leaves the mempool at once.
LEMMA HandleStep ==
  ASSUME ConfirmationInv, NEW n \in Nodes, NEW b \in Mined, HandleBody(n, b)
  PROVE  ConfirmationInv'
<1> DEFINE d == chain[n]
           e == chain'[n]
           confirmed == UNION {body[c] : c \in NewlyBlue(e, d.isBlue)}
<1>1. /\ HandleBlock(n, b) /\ body' = body /\ header' = header
      /\ known' = [known EXCEPT ![n] = @ \cup body[b]]
      /\ pool' = [pool EXCEPT ![n] = @ \ confirmed]
  BY DEF HandleBody, HandleBlock
<1>2. /\ IInv /\ Grounded /\ DOMAIN body = Mined
      /\ pool \in [Nodes -> SUBSET Txs] /\ known \in [Nodes -> SUBSET Txs]
      /\ OwnersHold /\ BodiesKnown /\ OwnSpent /\ StaleCovered
      /\ \A x \in Mined \ {Genesis} : RepeatsCovered(chain[Owner(x)], x)
  BY DEF ConfirmationInv
<1>3. IInv' /\ Grounded' /\ (\A m \in Nodes : Stepped(m)) /\ Takes(n, b) /\ Mined' = Mined
  <2>1. [Next]_vars
    BY <1>1 DEF Next
  <2> QED BY <1>1, <1>2, <2>1, Step, GroundedStep, HandleBlockStep DEF Mined
<1>4. body[b] \subseteq Txs
  <2>1. b # Genesis
    BY <1>1, <1>2 DEF HandleBlock, HasBlock, IInv, ChainInv, BlocksOK
  <2>2. Owner(b) \in Nodes /\ b \in Holding(chain[Owner(b)])
    BY <1>2, <2>1, MinersAreNodes DEF OwnersHold, Holding
  <2> QED BY <1>2, <2>2 DEF BodiesKnown
<1> HIDE DEF confirmed
<1>5. /\ pool' \in [Nodes -> SUBSET Txs] /\ known' \in [Nodes -> SUBSET Txs]
      /\ pool'[n] = pool[n] \ confirmed /\ known'[n] = known[n] \cup body[b]
      /\ \A m \in Nodes : m # n => pool'[m] = pool[m] /\ known'[m] = known[m]
  BY <1>1, <1>2, <1>4
<1>6. \A m \in Nodes : m # n => chain'[m] = chain[m]
  BY <1>3 DEF Takes
<1>7. \A m : OwnBlocks(m)' = OwnBlocks(m)
  BY <1>3 DEF OwnBlocks
<1>8. OwnersHold'
  <2> SUFFICES ASSUME NEW x \in Mined \ {Genesis}
               PROVE  Owner(x) \in Miners /\ x \in Blocks(chain'[Owner(x)])
    BY <1>3 DEF OwnersHold
  <2>1. Owner(x) \in Miners /\ Owner(x) \in Nodes /\ x \in Blocks(chain[Owner(x)])
    BY <1>2, MinersAreNodes DEF OwnersHold
  <2> QED BY <1>3, <2>1 DEF Stepped
<1>9. BodiesKnown'
  <2>1. \A m \in Nodes : \A c \in Holding(chain'[m]) :
          c \in Holding(chain[m]) \/ (c = b /\ m = n)
    BY <1>3, <1>6 DEF Takes
  <2> QED BY <1>1, <1>2, <1>5, <2>1 DEF BodiesKnown
<1>10. OwnSpent'
  BY <1>1, <1>2, <1>5, <1>7 DEF OwnSpent
<1>11. StaleCovered'
  <2> SUFFICES ASSUME NEW m \in Nodes, NEW c \in chain'[m].isBlue, body[c] \cap pool'[m] # {}
               PROVE  \E a \in OwnBlocks(m) \cap Blocks(chain'[m]) : c \in chain'[m].past[a]
    BY <1>1, <1>7 DEF StaleCovered
  <2>1. c \in chain[m].isBlue /\ body[c] \cap pool[m] # {}
    BY <1>5, <1>6 DEF confirmed, NewlyBlue
  <2>2. PICK a \in OwnBlocks(m) \cap Blocks(chain[m]) : c \in chain[m].past[a]
    BY <1>2, <2>1 DEF StaleCovered
  <2> QED BY <1>3, <2>2 DEF Stepped
<1>12. ASSUME NEW x \in Mined \ {Genesis} PROVE RepeatsCovered(chain[Owner(x)], x)'
  <2> DEFINE m == Owner(x)
  <2>1. m \in Nodes /\ x \in Blocks(chain[m]) /\ RepeatsCovered(chain[m], x)
    BY <1>2, MinersAreNodes DEF OwnersHold
  <2>2. Stepped(m) /\ Mined \subseteq Mined' /\ \A y \in Mined : body'[y] = body[y]
    BY <1>1, <1>3, <2>1
  <2> HIDE DEF m
  <2>3. RepeatsCovered(chain[m], x)'
    BY <1>2, <2>1, <2>2, RepeatsStay
  <2> QED BY <2>3 DEF m
<1> QED BY <1>1, <1>2, <1>3, <1>5, <1>8, <1>9, <1>10, <1>11, <1>12 DEF ConfirmationInv

-----------------------------------------------------------------------------
(* The theorems *)

\* The invariant of mempools and blocks.
THEOREM ConfirmationInvariance == ConfirmationSpec => []ConfirmationInv
<1>1. ConfirmationInit => ConfirmationInv
  <2> SUFFICES ASSUME ConfirmationInit PROVE ConfirmationInv
    OBVIOUS
  <2>1. /\ Init /\ IInv /\ Grounded /\ body = [b \in {Genesis} |-> {}]
        /\ pool = [n \in Nodes |-> {}] /\ known = [n \in Nodes |-> {}]
    BY Initially, InitiallyGrounded DEF ConfirmationInit, OrderingInit
  <2>2. Mined = {Genesis} /\ \A n \in Nodes : Holding(chain[n]) = {Genesis}
    BY <2>1 DEF Init, Mined, Holding, Blocks, EmptyBlockchain
  <2>3. OwnersHold /\ \A b \in Mined \ {Genesis} : RepeatsCovered(chain[Owner(b)], b)
    BY <2>2 DEF OwnersHold
  <2>4. BodiesKnown /\ OwnSpent /\ StaleCovered
    BY <2>1, <2>2 DEF BodiesKnown, OwnSpent, StaleCovered
  <2> QED BY <2>1, <2>2, <2>3, <2>4 DEF ConfirmationInv
<1>2. ConfirmationInv /\ [ConfirmationNext]_confirmationVars => ConfirmationInv'
  <2> SUFFICES ASSUME ConfirmationInv, [ConfirmationNext]_confirmationVars
               PROVE  ConfirmationInv'
    OBVIOUS
  <2>1. CASE UNCHANGED confirmationVars
    <3>1. IInv'
      BY <2>1, Step DEF ConfirmationInv, confirmationVars, vars
    <3> QED BY <2>1, <3>1
            DEF ConfirmationInv, confirmationVars, Mined, Grounded, OwnersHold, BodiesKnown,
                OwnSpent, StaleCovered, RepeatsCovered, OwnBlocks
  <2> QED BY <2>1, AcceptStep, MineStep, HandleStep DEF ConfirmationNext
<1> QED BY <1>1, <1>2, PTL DEF ConfirmationSpec

\* Mempools and bodies are an addition to Ordering: each step of Confirmation
\* is one of Ordering or leaves the DAG alone.
THEOREM ConfirmationImplementsOrdering == ConfirmationSpec => OrderingSpec
<1>1. ConfirmationInit => OrderingInit
  BY DEF ConfirmationInit
<1>2. [ConfirmationNext]_confirmationVars => [OrderingNext]_orderingVars
  <2>1. ASSUME NEW n \in Nodes, NEW tx \in Txs, AcceptTransaction(n, tx)
        PROVE  UNCHANGED orderingVars
    BY <2>1 DEF AcceptTransaction, orderingVars
  <2>2. ASSUME NEW n \in Miners, MineBody(n) PROVE OrderingNext
    BY <2>2 DEF MineBody, OrderingNext, Next
  <2>3. ASSUME NEW n \in Nodes, NEW b \in Mined, HandleBody(n, b) PROVE OrderingNext
    BY <2>3 DEF HandleBody, OrderingNext, Next
  <2>4. UNCHANGED confirmationVars => UNCHANGED orderingVars
    BY DEF confirmationVars, orderingVars
  <2> QED BY <2>1, <2>2, <2>3, <2>4 DEF ConfirmationNext
<1> QED BY <1>1, <1>2, PTL DEF ConfirmationSpec, OrderingSpec

\* Only its own mining makes a miner keep what a blue block has.
THEOREM StaleOnlyByMining == ConfirmationSpec => []StaleOnlyByOwnBlock
<1>1. ConfirmationInv => StaleOnlyByOwnBlock
  BY DEF ConfirmationInv, StaleCovered, StaleOnlyByOwnBlock
<1> QED BY <1>1, ConfirmationInvariance, PTL

\* A block repeats a transaction of a block that was blue to its miner only
\* after another of the miner's; its miner's own blocks it never repeats.
THEOREM RepeatsOnlyByMining == ConfirmationSpec => []RepeatsOnlyAfterOwnBlock
<1>1. ConfirmationInv => RepeatsOnlyAfterOwnBlock
  <2> SUFFICES ASSUME ConfirmationInv, NEW n \in Nodes, NEW b \in Blocks(chain[n]) \ {Genesis}
               PROVE  RepeatsCovered(chain[n], b)
    BY DEF RepeatsOnlyAfterOwnBlock, RepeatsCovered, Owner
  <2> DEFINE d == chain[n]
             e == chain[Owner(b)]
             own == d.past[b] \cap OwnBlocks(Owner(b))
  <2>1. IInv /\ b \in Mined \ {Genesis}
    BY OwnAreMined DEF ConfirmationInv
  <2>2. Owner(b) \in Nodes /\ b \in Blocks(e) /\ RepeatsCovered(e, b)
    BY <2>1, MinersAreNodes DEF ConfirmationInv, OwnersHold
  <2>3. \A x \in Blocks(d) \cap Blocks(e) :
          e.past[x] = d.past[x] /\ e.sparent[x] = d.sparent[x] /\ e.blue[x] = d.blue[x]
    BY <2>1, <2>2, SameColour DEF IInv
  <2>4. /\ d.past[b] \subseteq Blocks(d) /\ e.past[b] \subseteq Blocks(e)
        /\ d.sparent[b] \in Blocks(d) /\ e.sparent[b] \in Blocks(e)
    BY <2>1, <2>2, OwnAreMined
  <2> HIDE DEF d, e
  <2>5. e.past[b] \cap OwnBlocks(Owner(b)) = own /\ e.blue[e.sparent[b]] = d.blue[d.sparent[b]]
    BY <2>2, <2>3, <2>4 DEF d
  <2>6. \A a \in own : e.past[a] = d.past[a]
    BY <2>2, <2>3, <2>4, <2>5
  <2> HIDE DEF own
  <2>7. /\ \A c \in d.blue[d.sparent[b]] :
             body[b] \cap body[c] # {} => \E a \in own : c \in d.past[a]
        /\ \A a \in own : body[a] \cap body[b] = {}
    BY <2>2, <2>5, <2>6 DEF RepeatsCovered
  <2> QED BY <2>7 DEF RepeatsCovered, own, d
<1> QED BY <1>1, ConfirmationInvariance, PTL
=============================================================================

---------------------------- MODULE Mempool_proofs ----------------------------
(***************************************************************************)
(* For every number of buckets, every hash and every set of transactions:  *)
(* the two indexes of a mempool agree, and the search from a random bucket *)
(* misses no transaction.                                                  *)
(***************************************************************************)
EXTENDS Mempool, FiniteLemmas

\* The inductive invariant: type, agreement, and what makes the count fit.
PoolInv ==
  /\ MempoolTypeOK
  /\ IndexesAgree
  /\ IsFiniteSet(Stored)
  /\ itemCount <= inserted
  /\ \A x \in Stored : x.serial <= inserted
  /\ \A x, y \in Stored : x.serial = y.serial => x = y

-----------------------------------------------------------------------------
(* The search *)

\* Every bucket is looked at within Probes turns, from wherever they start.
LEMMA Coverage ==
  ASSUME NEW index \in Buckets, NEW b \in Buckets
  PROVE  \E i \in 0..(Probes - 1) : Down(index, i) = b \/ Up(index, i) = b
<1>1. arrSize \in Nat \ {0} /\ index \in 0..(arrSize - 1) /\ b \in 0..(arrSize - 1)
  BY BucketsOK DEF Buckets
<1>2. Probes \in Nat /\ arrSize + 1 <= 2 * Probes
  BY <1>1 DEF Probes
<1>3. CASE b <= index /\ index - b < Probes
  BY <1>1, <1>2, <1>3 DEF Down
<1>4. CASE b <= index /\ Probes <= index - b
  <2>1. (arrSize + b - index - 1) \in 0..(Probes - 1)
    BY <1>1, <1>2, <1>4
  <2>2. Up(index, arrSize + b - index - 1) = b
    BY <1>1 DEF Up
  <2> QED BY <2>1, <2>2
<1>5. CASE index < b /\ b - index - 1 < Probes
  <2>1. (b - index - 1) \in 0..(Probes - 1)
    BY <1>1, <1>2, <1>5
  <2>2. Up(index, b - index - 1) = b
    BY <1>1 DEF Up
  <2> QED BY <2>1, <2>2
<1>6. CASE index < b /\ Probes <= b - index - 1
  <2>1. (arrSize + index - b) \in 0..(Probes - 1)
    BY <1>1, <1>2, <1>6
  <2>2. Down(index, arrSize + index - b) = b
    BY <1>1, <1>6 DEF Down
  <2> QED BY <2>1, <2>2
<1> QED BY <1>1, <1>2, <1>3, <1>4, <1>5, <1>6

\* The turns stay within the array.
LEMMA TurnsInRange ==
  ASSUME NEW index \in Buckets, NEW i \in 0..(Probes - 1)
  PROVE  Down(index, i) \in Buckets /\ Up(index, i) \in Buckets
<1>1. arrSize \in Nat \ {0} /\ index \in 0..(arrSize - 1)
  BY BucketsOK DEF Buckets
<1>2. Probes \in Nat /\ Probes - 1 <= arrSize
  BY <1>1 DEF Probes
<1>3. i \in Nat /\ i <= Probes - 1 /\ 2 * (Probes - 1) <= arrSize
  BY <1>1 DEF Probes
<1>4. Down(index, i) \in Buckets
  BY <1>1, <1>2, <1>3 DEF Down, Buckets
<1>5. Up(index, i) \in Buckets
  BY <1>1, <1>2, <1>3 DEF Up, Buckets
<1> QED BY <1>4, <1>5

\* The search stops at a bucket with an item unless all are empty.
LEMMA SearchIsComplete ==
  ASSUME NEW buckets, NEW index \in Buckets
  PROVE  /\ Probed(buckets, index) = NoBucket <=> \A i \in Buckets : buckets[i] = {}
         /\ Probed(buckets, index) # NoBucket =>
              /\ Probed(buckets, index) \in Buckets
              /\ buckets[Probed(buckets, index)] # {}
<1> DEFINE Turns == 0..(Probes - 1)
           First(j) == /\ Hits(buckets, index, j)
                       /\ \A k \in 0..(j - 1) : ~ Hits(buckets, index, k)
<1>1. CASE \A i \in Turns : ~ Hits(buckets, index, i)
  <2>1. Probed(buckets, index) = NoBucket
    BY <1>1 DEF Probed
  <2>2. ASSUME NEW b \in Buckets PROVE buckets[b] = {}
    BY <1>1, Coverage DEF Hits
  <2> QED BY <2>1, <2>2
<1>2. CASE \E i \in Turns : Hits(buckets, index, i)
  <2>1. \E j \in Turns : First(j)
    <3> DEFINE H == {j \in Turns : Hits(buckets, index, j)}
    <3>1. Turns \subseteq Nat
      OBVIOUS
    <3>2. PICK j \in H : \A k \in H : j <= k
      <4>1. H \in SUBSET Nat /\ H # {}
        BY <3>1, <1>2
      <4> HIDE DEF H
      <4> QED BY <4>1, LeastNatural
    <3>3. \A k \in 0..(j - 1) : k \in Turns /\ ~ (j <= k)
      BY <3>1, <3>2, BucketsOK DEF Probes
    <3> QED BY <3>2, <3>3
  <2> DEFINE i == CHOOSE j \in Turns : First(j)
  <2>2. i \in Turns /\ Hits(buckets, index, i)
    BY <2>1
  <2>3. Probed(buckets, index) = IF buckets[Down(index, i)] # {} THEN Down(index, i)
                                                                  ELSE Up(index, i)
    BY <1>2 DEF Probed
  <2> HIDE DEF i
  <2>4. Down(index, i) \in Buckets /\ Up(index, i) \in Buckets
    BY <2>2, TurnsInRange
  <2>5. Probed(buckets, index) \in Buckets /\ buckets[Probed(buckets, index)] # {}
    BY <2>2, <2>3, <2>4 DEF Hits
  <2>6. NoBucket \notin Buckets
    BY BucketsOK DEF NoBucket, Buckets
  <2> QED BY <2>5, <2>6
<1> QED BY <1>1, <1>2

-----------------------------------------------------------------------------
(* The indexes *)

\* Under the invariant the fee index ranges over the stored items.
LEMMA IndexedIsStored ==
  ASSUME IndexesAgree PROVE Indexed = Stored
<1>1. multimapItems = {[item |-> x, index |-> Hash[x.tx]] : x \in Stored}
  BY DEF IndexesAgree
<1>2. Indexed \subseteq Stored
  BY <1>1 DEF Indexed
<1>3. ASSUME NEW x \in Stored PROVE x \in Indexed
  <2> DEFINE p == [item |-> x, index |-> Hash[x.tx]]
  <2>1. p \in multimapItems /\ p.item = x
    BY <1>1
  <2> HIDE DEF p
  <2> QED BY <2>1 DEF Indexed
<1> QED BY <1>2, <1>3

\* Erasing stored items, however they were picked.
LEMMA TakeStep ==
  ASSUME PoolInv, NEW S, S \subseteq Stored, Take(S)
  PROVE  PoolInv'
<1>1. Stored' = Stored \ S
  BY DEF Take, Left, Stored
<1>2. IsFiniteSet(S) /\ IsFiniteSet(Stored')
  BY <1>1, FS_Subset DEF PoolInv
<1>3. Cardinality(Stored') = Cardinality(Stored) - Cardinality(S)
  <2>1. Cardinality(Stored \ S) = Cardinality(Stored) - Cardinality(Stored \cap S)
    BY FS_Difference DEF PoolInv
  <2>2. Stored \cap S = S
    OBVIOUS
  <2> QED BY <1>1, <2>1, <2>2
<1>4. Cardinality(Stored') \in Nat /\ Cardinality(S) \in Nat
  BY <1>2, FS_CardinalityType
<1>5. itemCount' = Cardinality(Stored')
  BY <1>3 DEF Take, PoolInv, IndexesAgree
<1>6. itemCount' <= inserted' /\ itemCount' \in 0..MaxInserts /\ inserted' \in 0..MaxInserts
  BY <1>4, <1>5, MaxInsertsOK DEF Take, PoolInv, MempoolTypeOK
<1>7. htabItems' \in [Buckets -> SUBSET Items]
  BY DEF Take, Left, PoolInv, MempoolTypeOK
<1>8. \A i \in Buckets : \A x \in htabItems'[i] : Hash[x.tx] = i
  BY DEF Take, Left, PoolInv, MempoolTypeOK
<1>9. multimapItems' = {[item |-> x, index |-> Hash[x.tx]] : x \in Stored'}
  <2>1. multimapItems = {[item |-> x, index |-> Hash[x.tx]] : x \in Stored}
    BY DEF PoolInv, IndexesAgree
  <2>2. multimapItems' = {p \in multimapItems : p.item \notin S}
    BY DEF Take
  <2> HIDE DEF Stored
  <2> QED BY <1>1, <2>1, <2>2
<1>10. \A x \in Stored' : x.serial <= inserted'
  BY <1>1 DEF Take, PoolInv
<1>11. \A x, y \in Stored' : x.serial = y.serial => x = y
  BY <1>1 DEF PoolInv
<1> QED
  BY <1>2, <1>5, <1>6, <1>7, <1>8, <1>9, <1>10, <1>11 DEF PoolInv, MempoolTypeOK, IndexesAgree

\* A new item, its serial above all others.
LEMMA InsertStep ==
  ASSUME PoolInv, NEW tx \in Txs, NEW fee \in Fees, Insert(tx, fee)
  PROVE  PoolInv'
<1> DEFINE item == [serial |-> inserted + 1, tx |-> tx, fee |-> fee]
<1>1. Hash[tx] \in Buckets /\ inserted \in 0..MaxInserts /\ inserted < MaxInserts
  BY BucketsOK DEF Buckets, Insert, PoolInv, MempoolTypeOK
<1>2. item \in Items /\ item.tx = tx /\ item.serial = inserted + 1
  BY <1>1, MaxInsertsOK DEF Items
<1>3. /\ htabItems' = [htabItems EXCEPT ![Hash[tx]] = @ \cup {item}]
      /\ multimapItems' = multimapItems \cup {[item |-> item, index |-> Hash[tx]]}
      /\ itemCount' = itemCount + 1 /\ inserted' = inserted + 1
  BY DEF Insert, InsertAt
<1> HIDE DEF item
<1>4. htabItems \in [Buckets -> SUBSET Items]
  BY DEF PoolInv, MempoolTypeOK
<1>5. Stored' = Stored \cup {item}
  BY <1>1, <1>3, <1>4 DEF Stored
<1>6. item \notin Stored
  BY <1>1, <1>2 DEF PoolInv
<1>7. IsFiniteSet(Stored') /\ Cardinality(Stored') = Cardinality(Stored) + 1
  BY <1>5, <1>6, FS_AddElement DEF PoolInv
<1>8. itemCount' = Cardinality(Stored')
  BY <1>3, <1>7 DEF PoolInv, IndexesAgree
<1>9. itemCount' <= inserted' /\ itemCount' \in 0..MaxInserts /\ inserted' \in 0..MaxInserts
  BY <1>1, <1>3, MaxInsertsOK DEF PoolInv, MempoolTypeOK
<1>10. htabItems' \in [Buckets -> SUBSET Items]
  BY <1>1, <1>2, <1>3, <1>4
<1>11. \A i \in Buckets : \A x \in htabItems'[i] : Hash[x.tx] = i
  BY <1>1, <1>2, <1>3, <1>4 DEF PoolInv, MempoolTypeOK
<1>12. multimapItems' = {[item |-> x, index |-> Hash[x.tx]] : x \in Stored'}
  <2>1. multimapItems = {[item |-> x, index |-> Hash[x.tx]] : x \in Stored}
    BY DEF PoolInv, IndexesAgree
  <2> QED BY <1>2, <1>3, <1>5, <2>1
<1>13. \A x \in Stored' : x.serial <= inserted'
  <2>1. \A x \in Stored : x.serial \in Int
    BY <1>4, MaxInsertsOK DEF Stored, Items
  <2> QED BY <1>1, <1>2, <1>3, <1>5, <2>1 DEF PoolInv
<1>14. \A x, y \in Stored' : x.serial = y.serial => x = y
  <2>1. \A x \in Stored : x.serial # item.serial
    BY <1>1, <1>2, <1>4, MaxInsertsOK DEF PoolInv, Stored, Items
  <2> QED BY <1>5, <2>1 DEF PoolInv
<1> QED
  BY <1>7, <1>8, <1>9, <1>10, <1>11, <1>12, <1>13, <1>14 DEF PoolInv, MempoolTypeOK, IndexesAgree

\* clear leaves both indexes empty.
LEMMA ClearStep ==
  ASSUME PoolInv, Clear PROVE PoolInv'
<1>1. Stored' = {}
  BY DEF Clear, Stored
<1>2. Cardinality({}) = 0 /\ IsFiniteSet({})
  BY FS_EmptySet
<1> QED
  BY <1>1, <1>2, MaxInsertsOK DEF Clear, PoolInv, MempoolTypeOK, IndexesAgree

\* The newest item of a transaction exists.
LEMMA FindIsStored ==
  ASSUME PoolInv, NEW tx \in Txs, Matching(tx) # {}
  PROVE  Find(tx) \in Stored
<1> DEFINE M == Matching(tx)
           Age == {MaxInserts - x.serial : x \in M}
<1>1. Hash[tx] \in Buckets
  BY BucketsOK DEF Buckets
<1>2. M \subseteq htabItems[Hash[tx]]
  BY DEF Matching
<1>3. M \subseteq Stored /\ M \subseteq Items
  BY <1>1, <1>2 DEF Stored, PoolInv, MempoolTypeOK
<1>4. \A x \in M : x.serial \in 1..MaxInserts
  BY <1>3 DEF Items
<1> HIDE DEF M
<1>5. Age \subseteq Nat
  BY <1>4, MaxInsertsOK
<1>6. Age # {}
  BY DEF M
<1>7. PICK a \in Age : \A b \in Age : a <= b
  <2> HIDE DEF Age
  <2> QED BY <1>5, <1>6, LeastNatural
<1>8. PICK x \in M : a = MaxInserts - x.serial
  BY <1>7
<1>9. \A y \in M : y.serial <= x.serial
  <2> TAKE y \in M
  <2>1. MaxInserts - x.serial <= MaxInserts - y.serial
    BY <1>7, <1>8
  <2> QED BY <1>4, <2>1, MaxInsertsOK
<1>10. Find(tx) = CHOOSE z \in M : \A y \in M : y.serial <= z.serial
  BY DEF Find, M
<1>11. Find(tx) \in M
  BY <1>8, <1>9, <1>10
<1> QED BY <1>3, <1>11

\* What SelectTransactions picks is in the mempool.
LEMMA PicksAreStored ==
  ASSUME NEW start, NEW run \in RandomRuns(start)
  PROVE  Picked(run) \subseteq Stored
BY DEF RandomRuns, Picked

\* Every operation keeps the invariant.
LEMMA PoolStep ==
  ASSUME PoolInv, [Next]_poolVars PROVE PoolInv'
<1>1. CASE UNCHANGED poolVars
  BY <1>1 DEF poolVars, PoolInv, MempoolTypeOK, IndexesAgree, Stored
<1>2. CASE \E tx \in Txs, fee \in Fees : Insert(tx, fee)
  BY <1>2, InsertStep
<1>3. ASSUME NEW tx \in Txs, EraseTransaction(tx) PROVE PoolInv'
  <2>1. {Find(tx)} \subseteq Stored
    BY <1>3, FindIsStored DEF EraseTransaction
  <2>2. Take({Find(tx)})
    BY <1>3 DEF EraseTransaction
  <2> QED BY <2>1, <2>2, TakeStep
<1>4. ASSUME NEW n \in 1..MaxInserts, EraseTransactionsAscending(n) PROVE PoolInv'
  <2> DEFINE S == {x \in Indexed : Cardinality({y \in Indexed : Below(y, x)}) < n}
  <2>1. S \subseteq Stored
    BY IndexedIsStored DEF PoolInv
  <2>2. Take(S)
    BY <1>4 DEF EraseTransactionsAscending
  <2> HIDE DEF S
  <2> QED BY <2>1, <2>2, TakeStep
<1>5. ASSUME NEW n \in 1..MaxInserts, EraseRandomTransactions(n) PROVE PoolInv'
  BY <1>5, PicksAreStored, TakeStep DEF EraseRandomTransactions
<1>6. ASSUME NEW n \in 1..MaxInserts, SelectTransactions(n) PROVE PoolInv'
  <2>1. \A index : \A S \in RandomSelections(n, index) : S \subseteq Stored
    BY PicksAreStored DEF RandomSelections
  <2>2. \A S \in RationalSelections(n) : S \subseteq Stored
    <3>1. \A m : \A run \in FeeRuns(m) : Picked(run) \subseteq Stored
      BY DEF FeeRuns, Picked
    <3> QED BY <3>1 DEF RationalSelections
  <2> QED BY <1>6, <2>1, <2>2, TakeStep DEF SelectTransactions
<1>7. CASE Clear
  BY <1>7, ClearStep
<1> QED BY <1>1, <1>2, <1>3, <1>4, <1>5, <1>6, <1>7 DEF Next

\* An empty mempool is in good order.
LEMMA PoolInitially == MempoolInit => PoolInv
<1> SUFFICES ASSUME MempoolInit PROVE PoolInv
  OBVIOUS
<1>1. Stored = {}
  BY DEF MempoolInit, Stored
<1>2. Cardinality({}) = 0 /\ IsFiniteSet({})
  BY FS_EmptySet
<1> QED
  BY <1>1, <1>2, MaxInsertsOK DEF MempoolInit, PoolInv, MempoolTypeOK, IndexesAgree

\* Every operation of mempool.cc keeps the invariant.
THEOREM PoolInvariance == Spec => []PoolInv
<1>1. PoolInv /\ [Next]_poolVars => PoolInv'
  BY PoolStep
<1> QED BY PoolInitially, <1>1, PTL DEF Spec

-----------------------------------------------------------------------------
\* Items are in the buckets find looks in, and counts fit.
THEOREM PoolTypeCorrect == Spec => []MempoolTypeOK
<1>1. PoolInv => MempoolTypeOK
  BY DEF PoolInv
<1> QED BY <1>1, PoolInvariance, PTL

\* Hash table, fee index and count never part.
THEOREM PoolIndexesAgree == Spec => []IndexesAgree
<1>1. PoolInv => IndexesAgree
  BY DEF PoolInv
<1> QED BY <1>1, PoolInvariance, PTL

\* A random search finds a transaction from every start, for every size of
\* the array.
THEOREM SearchFinds == Spec => []EveryStartFinds
<1>1. ASSUME PoolInv PROVE EveryStartFinds
  <2>1. itemCount = 0 <=> Stored = {}
    BY <1>1, FS_EmptySet DEF PoolInv, IndexesAgree
  <2>2. Stored = {} <=> \A i \in Buckets : htabItems[i] = {}
    BY DEF Stored
  <2> QED BY <2>1, <2>2, SearchIsComplete DEF EveryStartFinds
<1> QED BY <1>1, PoolInvariance, PTL

-----------------------------------------------------------------------------
(* Selections *)

\* Serials and fees of stored items are numbers.
LEMMA StoredNumbers ==
  ASSUME PoolInv
  PROVE  \A x \in Stored : x.serial \in Nat /\ x.fee \in Nat
<1> SUFFICES ASSUME NEW x \in Stored PROVE x.serial \in Nat /\ x.fee \in Nat
  OBVIOUS
<1>1. PICK i \in Buckets : x \in htabItems[i]
  BY DEF Stored
<1>2. htabItems \in [Buckets -> SUBSET Items]
  BY DEF PoolInv, MempoolTypeOK
<1>3. x \in Items
  BY <1>1, <1>2
<1>4. x.serial \in 1..MaxInserts /\ x.fee \in Fees
  BY <1>3 DEF Items
<1>5. \A k \in 1..MaxInserts : k \in Nat
  BY MaxInsertsOK
<1>6. x.serial \in Nat
  BY <1>4, <1>5, Zenon
<1>7. x.fee \in Nat
  BY <1>4, FeesAreNat, Zenon
<1> QED BY <1>6, <1>7

\* Picks that are new as long as anything is left are all different.
LEMMA PicksDiffer ==
  ASSUME IsFiniteSet(Stored), NEW m \in Nat, m <= Cardinality(Stored),
         NEW run, DOMAIN run = 1..m,
         \A k \in 1..m : Stored \ Before(run, k) # {} => run[k] \in Stored \ Before(run, k)
  PROVE  /\ \A k \in 1..m : run[k] \in Stored \ Before(run, k)
         /\ Cardinality({run[k] : k \in 1..m}) = m
<1> DEFINE G == {k \in Nat : k <= m => /\ IsFiniteSet(Before(run, k + 1))
                                     /\ Cardinality(Before(run, k + 1)) = k}
<1>1. Cardinality(Stored) \in Nat
  BY FS_CardinalityType
<1>2. 0 \in G
  <2>1. Before(run, 0 + 1) = {}
    BY DEF Before
  <2>2. IsFiniteSet({}) /\ Cardinality({}) = 0
    BY FS_EmptySet
  <2> HIDE DEF Before
  <2> QED BY <2>1, <2>2
<1>3. ASSUME NEW k \in Nat, k + 1 <= m,
             IsFiniteSet(Before(run, k + 1)), Cardinality(Before(run, k + 1)) = k
      PROVE  run[k + 1] \in Stored \ Before(run, k + 1)
  <2>1. Stored \ Before(run, k + 1) # {}
    <3> SUFFICES ASSUME Stored \subseteq Before(run, k + 1) PROVE FALSE
      OBVIOUS
    <3>1. Cardinality(Stored) <= k
      BY <1>3, FS_Subset
    <3> QED BY <1>1, <1>3, <3>1
  <2>2. k + 1 \in 1..m
    BY <1>3
  <2> QED BY <2>1, <2>2
<1>4. ASSUME NEW k \in Nat, k \in G PROVE k + 1 \in G
  <2> SUFFICES ASSUME k + 1 <= m
               PROVE  /\ IsFiniteSet(Before(run, (k + 1) + 1))
                      /\ Cardinality(Before(run, (k + 1) + 1)) = k + 1
    OBVIOUS
  <2>1. IsFiniteSet(Before(run, k + 1)) /\ Cardinality(Before(run, k + 1)) = k
    BY <1>4
  <2>2. run[k + 1] \notin Before(run, k + 1)
    BY <1>3, <2>1
  <2>3. Before(run, (k + 1) + 1) = Before(run, k + 1) \cup {run[k + 1]}
    <3>1. 1..(((k + 1) + 1) - 1) = 1..((k + 1) - 1) \cup {k + 1}
      OBVIOUS
    <3> QED BY <3>1 DEF Before
  <2> QED BY <2>1, <2>2, <2>3, FS_AddElement
<1>5. \A k \in Nat : k <= m => /\ IsFiniteSet(Before(run, k + 1))
                              /\ Cardinality(Before(run, k + 1)) = k
  <2>1. Nat \subseteq G
    <3> HIDE DEF G
    <3> QED BY <1>2, <1>4, SetInduction
  <2> QED BY <2>1
<1>6. ASSUME NEW k \in 1..m PROVE run[k] \in Stored \ Before(run, k)
  <2>1. k - 1 \in Nat /\ k - 1 <= m /\ (k - 1) + 1 = k
    OBVIOUS
  <2>2. IsFiniteSet(Before(run, (k - 1) + 1)) /\ Cardinality(Before(run, (k - 1) + 1)) = k - 1
    BY <1>5, <2>1
  <2> QED BY <1>3, <2>1, <2>2
<1>7. {run[k] : k \in 1..m} = Before(run, m + 1)
  BY DEF Before
<1>8. Cardinality({run[k] : k \in 1..m}) = m
  BY <1>5, <1>7
<1>9. \A k \in 1..m : run[k] \in Stored \ Before(run, k)
  BY <1>6
<1> QED BY <1>8, <1>9

\* As many can be selected as there are.
LEMMA ToSelectFits ==
  ASSUME PoolInv, NEW n \in 1..MaxInserts
  PROVE  ToSelect(n) \in Nat /\ ToSelect(n) <= Cardinality(Stored)
BY FS_CardinalityType, MaxInsertsOK DEF PoolInv, IndexesAgree, ToSelect

\* Random picks from one bucket.
LEMMA RandomIsWhole ==
  ASSUME PoolInv, NEW n \in 1..MaxInserts, NEW index \in Buckets,
         NEW S \in RandomSelections(n, index)
  PROVE  Cardinality(S) = ToSelect(n)
<1> DEFINE m == ToSelect(n)
           start == [k \in 1..m |-> index]
<1>1. m \in Nat /\ m <= Cardinality(Stored)
  BY ToSelectFits
<1>2. PICK run \in RandomRuns(start) : S = Picked(run)
  BY DEF RandomSelections
<1>3. DOMAIN start = 1..m /\ \A k \in 1..m : start[k] = index
  OBVIOUS
<1> HIDE DEF m, start
<1>4. /\ run \in [1..m -> Stored \cup {NoItem}]
      /\ \A k \in 1..m : run[k] \in RandomItems(Left(Before(run, k)), index)
  BY <1>2, <1>3 DEF RandomRuns
<1>5. ASSUME NEW k \in 1..m, Stored \ Before(run, k) # {}
      PROVE  run[k] \in Stored \ Before(run, k)
  <2> DEFINE rest == Left(Before(run, k))
  <2>1. \A i \in Buckets : rest[i] = htabItems[i] \ Before(run, k)
    BY DEF Left
  <2>2. \E i \in Buckets : rest[i] # {}
    BY <1>5, <2>1 DEF Stored
  <2>3. run[k] \in RandomItems(rest, index)
    BY <1>4
  <2> HIDE DEF rest
  <2>4. Probed(rest, index) # NoBucket /\ Probed(rest, index) \in Buckets
    BY <2>2, SearchIsComplete
  <2>5. run[k] \in rest[Probed(rest, index)]
    BY <2>3, <2>4 DEF RandomItems
  <2> QED BY <2>1, <2>4, <2>5 DEF Stored
<1>6. /\ \A k \in 1..m : run[k] \in Stored \ Before(run, k)
      /\ Cardinality({run[k] : k \in 1..m}) = m
  <2>1. DOMAIN run = 1..m /\ IsFiniteSet(Stored)
    BY <1>4 DEF PoolInv
  <2>2. \A k \in 1..m : Stored \ Before(run, k) # {} => run[k] \in Stored \ Before(run, k)
    BY <1>5
  <2> QED BY <1>1, <2>1, <2>2, PicksDiffer
<1>7. NoItem \notin Stored
  BY MaxInsertsOK DEF NoItem, PoolInv, MempoolTypeOK, Stored, Items
<1>8. Picked(run) = {run[k] : k \in 1..m}
  BY <1>4, <1>6, <1>7 DEF Picked
<1> QED BY <1>2, <1>6, <1>8 DEF m

\* Items in the fee index have a highest one.
LEMMA HighestProperty ==
  ASSUME PoolInv, NEW T \in SUBSET Stored, T # {}
  PROVE  /\ Highest(T) \in T
         /\ \A y \in T : Highest(T) = y \/ Below(y, Highest(T))
<1> DEFINE Top(x, y) == x = y \/ Below(y, x)
           G == {U \in SUBSET T : U # {} => \E x \in U : \A y \in U : Top(x, y)}
<1>1. \A x \in T : x.serial \in Nat /\ x.fee \in Nat
  BY StoredNumbers
<1>2. \A x, y \in T : Top(x, y) \/ Top(y, x)
  BY <1>1 DEF Below, PoolInv
<1>3. \A x, y, z \in T : Top(x, y) /\ Top(y, z) => Top(x, z)
  BY <1>1 DEF Below
<1>4. \A x \in T : Top(x, x)
  OBVIOUS
<1>5. {} \in G
  OBVIOUS
<1>6. ASSUME NEW U \in SUBSET T, NEW z \in T \ U, U \in G
      PROVE  U \cup {z} \in G
  <2>1. CASE U = {}
    <3> HIDE DEF Top
    <3> QED BY <1>4, <2>1
  <2>2. CASE U # {}
    <3> HIDE DEF Top
    <3>1. PICK x \in U : \A y \in U : Top(x, y)
      BY <1>6, <2>2
    <3>2. CASE Top(x, z)
      BY <3>1, <3>2
    <3>3. CASE Top(z, x)
      <4>1. \A y \in U : Top(z, y)
        BY <1>3, <3>1, <3>3
      <4> QED BY <1>4, <4>1
    <3> QED BY <1>2, <3>1, <3>2, <3>3
  <2> QED BY <2>1, <2>2
<1>7. T \in G
  <2>1. IsFiniteSet(T)
    BY FS_Subset DEF PoolInv
  <2> HIDE DEF G
  <2> QED BY <1>5, <1>6, <2>1, FiniteInduction
<1> QED BY <1>7 DEF Highest

\* Picks from the top of the fee index.
LEMMA RationalIsWhole ==
  ASSUME PoolInv, NEW n \in 1..MaxInserts, NEW S \in RationalSelections(n)
  PROVE  /\ Cardinality(S) = ToSelect(n)
         /\ \A x \in S, y \in Stored \ S : y.fee <= x.fee
<1> DEFINE m == ToSelect(n)
<1>1. m \in Nat /\ m <= Cardinality(Stored)
  BY ToSelectFits
<1>2. PICK run \in FeeRuns(m) : S = Picked(run)
  BY DEF RationalSelections
<1> HIDE DEF m
<1>3. Indexed = Stored
  BY IndexedIsStored DEF PoolInv
<1>4. run \in [1..m -> Stored] /\ \A k \in 1..m : run[k] = Highest(Stored \ Before(run, k))
  BY <1>2, <1>3 DEF FeeRuns
<1>5. ASSUME NEW k \in 1..m, Stored \ Before(run, k) # {}
      PROVE  /\ run[k] \in Stored \ Before(run, k)
             /\ \A y \in Stored \ Before(run, k) : run[k] = y \/ Below(y, run[k])
  BY <1>4, <1>5, HighestProperty
<1>6. /\ \A k \in 1..m : run[k] \in Stored \ Before(run, k)
      /\ Cardinality({run[k] : k \in 1..m}) = m
  <2>1. DOMAIN run = 1..m /\ IsFiniteSet(Stored)
    BY <1>4 DEF PoolInv
  <2>2. \A k \in 1..m : Stored \ Before(run, k) # {} => run[k] \in Stored \ Before(run, k)
    BY <1>5
  <2> QED BY <1>1, <2>1, <2>2, PicksDiffer
<1>7. NoItem \notin Stored
  BY MaxInsertsOK DEF NoItem, PoolInv, MempoolTypeOK, Stored, Items
<1>8. S = {run[k] : k \in 1..m}
  BY <1>2, <1>4, <1>6, <1>7 DEF Picked
<1>9. ASSUME NEW k \in 1..m, NEW y \in Stored \ S PROVE y.fee <= run[k].fee
  <2>1. Before(run, k) \subseteq S
    BY <1>1, <1>8 DEF Before
  <2>2. Below(y, run[k])
    BY <1>5, <1>8, <2>1
  <2>3. y.fee \in Nat /\ run[k].fee \in Nat
    BY <1>4, StoredNumbers
  <2> QED BY <2>2, <2>3 DEF Below
<1> QED BY <1>6, <1>8, <1>9 DEF m

\* A block is filled as far as the mempool allows, under either strategy, and
\* under the rational one with the highest fees.
THEOREM BlocksAreFilled == Spec => []SelectionsAreWhole
<1>1. PoolInv => SelectionsAreWhole
  BY RandomIsWhole, RationalIsWhole DEF SelectionsAreWhole
<1> QED BY <1>1, PoolInvariance, PTL
=============================================================================

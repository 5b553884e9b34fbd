------------------------------- MODULE Mempool -------------------------------
(***************************************************************************)
(* The Mempool of mempool.cc and the choice of transactions for a block    *)
(* (GhostDagMiner::SelectTransactions).  Transactions live in a hash table *)
(* of buckets and, as iterators, in a multimap ordered by fee.             *)
(*                                                                         *)
(* A list node is an item [serial, tx, fee]: serial counts the insertions, *)
(* so that a transaction inserted twice is two items.  In a bucket the     *)
(* newest item comes first; in the multimap equal fees are in order of     *)
(* insertion.  A hash collision is a choice of Hash.                       *)
(***************************************************************************)
EXTENDS Integers, FiniteSets

CONSTANTS Txs,          \* (minerId, txId)
          Fees,
          arrSize,      \* number of buckets
          Hash,         \* bucket of each transaction
          MaxInserts    \* bound

ASSUME FeesAreNat  == Fees \subseteq Nat
ASSUME BucketsOK   == arrSize \in Nat \ {0} /\ Hash \in [Txs -> 0..(arrSize - 1)]
ASSUME MaxInsertsOK == MaxInserts \in Nat

VARIABLES htabItems,      \* the items of each bucket
          multimapItems,  \* the pairs (item, bucket) of the fee index
          itemCount,
          inserted        \* insertions so far

poolVars == <<htabItems, multimapItems, itemCount, inserted>>

Buckets == 0..(arrSize - 1)
Items   == [serial : 1..MaxInserts, tx : Txs, fee : Fees]
Stored  == UNION {htabItems[i] : i \in Buckets}

MempoolInit ==
  /\ htabItems     = [i \in Buckets |-> {}]
  /\ multimapItems = {}
  /\ itemCount     = 0
  /\ inserted      = 0

-----------------------------------------------------------------------------
(* Looking for items *)

\* Fee order of the multimap, oldest first among equals.
Below(x, y) == x.fee < y.fee \/ (x.fee = y.fee /\ x.serial < y.serial)

Lowest(S)  == CHOOSE x \in S : \A y \in S : x = y \/ Below(x, y)
Highest(S) == CHOOSE x \in S : \A y \in S : x = y \/ Below(y, x)

Indexed == {p.item : p \in multimapItems}

\* find: the newest item of tx in its bucket.
Matching(tx) == {x \in htabItems[Hash[tx]] : x.tx = tx}
Find(tx)     == CHOOSE x \in Matching(tx) : \A y \in Matching(tx) : y.serial <= x.serial

\* Mutant of Probes: half the array each way, without the extra turn.
ProbesFloor == arrSize \div 2

\* max in getRandomTransaction and eraseRandomTransactions.
Probes == (arrSize \div 2) + 1

\* down_i after i turns from index; below zero it wraps to the last bucket.
Down(index, i) == IF i <= index THEN index - i ELSE arrSize + index - i

\* up_i after i turns: it starts one above index and wraps to zero.
Up(index, i) == IF index + 1 + i < arrSize THEN index + 1 + i
                                           ELSE index + 1 + i - arrSize

\* Does turn i, looking down and then up, come upon an item?
Hits(buckets, index, i) ==
  buckets[Down(index, i)] # {} \/ buckets[Up(index, i)] # {}

\* The bucket of the first hit from index, or none.
NoBucket == -1
Probed(buckets, index) ==
  IF \A i \in 0..(Probes - 1) : ~ Hits(buckets, index, i) THEN NoBucket
  ELSE LET i == CHOOSE j \in 0..(Probes - 1) :
                  /\ Hits(buckets, index, j)
                  /\ \A k \in 0..(j - 1) : ~ Hits(buckets, index, k)
       IN  IF buckets[Down(index, i)] # {} THEN Down(index, i) ELSE Up(index, i)

\* What getRandomTransaction may return: any item of the bucket it stops at,
\* or end().
NoItem == [serial |-> 0]
RandomItems(buckets, index) ==
  IF Probed(buckets, index) = NoBucket THEN {NoItem} ELSE buckets[Probed(buckets, index)]

-----------------------------------------------------------------------------
(* Runs of picks, each taken out before the next *)

Before(run, k) == {run[j] : j \in 1..(k - 1)}

Left(S) == [i \in Buckets |-> htabItems[i] \ S]

\* Random picks, the k-th from bucket start[k].
RandomRuns(start) ==
  {run \in [DOMAIN start -> Stored \cup {NoItem}] :
     \A k \in DOMAIN start : run[k] \in RandomItems(Left(Before(run, k)), start[k])}

\* Mutant of FeeRuns: begin() in place of rbegin().
RunsFromBelow(n) ==
  {run \in [1..n -> Stored] :
     \A k \in 1..n : run[k] = Lowest(Indexed \ Before(run, k))}

\* Picks of getSortedTransactionDescending.
FeeRuns(n) ==
  {run \in [1..n -> Stored] :
     \A k \in 1..n : run[k] = Highest(Indexed \ Before(run, k))}

Picked(run) == {run[k] : k \in DOMAIN run} \ {NoItem}

ToSelect(txsPerBlock) == IF txsPerBlock < itemCount THEN txsPerBlock ELSE itemCount

\* SelectTransactions, strategy 0.  The generator is passed by value, so each
\* pick of one block starts from the same bucket.
RandomSelections(txsPerBlock, index) ==
  {Picked(run) : run \in RandomRuns([k \in 1..ToSelect(txsPerBlock) |-> index])}

\* SelectTransactions, strategy 1.
RationalSelections(txsPerBlock) == {Picked(run) : run \in FeeRuns(ToSelect(txsPerBlock))}

-----------------------------------------------------------------------------
(* Operations *)

InsertAt(tx, fee, index) ==
  LET item == [serial |-> inserted + 1, tx |-> tx, fee |-> fee]
  IN  /\ htabItems' = [htabItems EXCEPT ![index] = @ \cup {item}]
      /\ multimapItems' = multimapItems \cup {[item |-> item, index |-> index]}

Insert(tx, fee) ==
  /\ inserted < MaxInserts
  /\ InsertAt(tx, fee, Hash[tx])
  /\ itemCount' = itemCount + 1
  /\ inserted'  = inserted + 1

\* Mutant of Take: the fee index keeps its entries.
TakeFromBuckets(S) ==
  /\ htabItems' = Left(S)
  /\ itemCount' = itemCount - Cardinality(S)
  /\ UNCHANGED <<multimapItems, inserted>>

\* The items of S are erased one by one, each from its bucket, the fee index
\* and the count.
Take(S) ==
  /\ htabItems' = Left(S)
  /\ multimapItems' = {p \in multimapItems : p.item \notin S}
  /\ itemCount' = itemCount - Cardinality(S)
  /\ UNCHANGED inserted

\* find, then eraseTransaction.
EraseTransaction(tx) == Matching(tx) # {} /\ Take({Find(tx)})

EraseTransactionsAscending(size) ==
  Take({x \in Indexed : Cardinality({y \in Indexed : Below(y, x)}) < size})

\* Each pick starts from a bucket of its own.
EraseRandomTransactions(size) ==
  \E start \in [1..size -> Buckets] : \E run \in RandomRuns(start) : Take(Picked(run))

SelectTransactions(txsPerBlock) ==
  \/ \E index \in Buckets : \E S \in RandomSelections(txsPerBlock, index) : Take(S)
  \/ \E S \in RationalSelections(txsPerBlock) : Take(S)

Clear ==
  /\ htabItems' = [i \in Buckets |-> {}]
  /\ multimapItems' = {}
  /\ itemCount' = 0
  /\ UNCHANGED inserted

Next ==
  \/ \E tx \in Txs, fee \in Fees : Insert(tx, fee)
  \/ \E tx \in Txs : EraseTransaction(tx)
  \/ \E n \in 1..MaxInserts : \/ EraseTransactionsAscending(n)
                              \/ EraseRandomTransactions(n)
                              \/ SelectTransactions(n)
  \/ Clear

Spec == MempoolInit /\ [][Next]_poolVars

-----------------------------------------------------------------------------
(* Properties *)

\* Type invariant; every item is in the bucket find looks in.
MempoolTypeOK ==
  /\ htabItems \in [Buckets -> SUBSET Items]
  /\ \A i \in Buckets : \A x \in htabItems[i] : Hash[x.tx] = i
  /\ itemCount \in 0..MaxInserts
  /\ inserted \in 0..MaxInserts

\* The fee index holds exactly the items of the buckets, with their buckets,
\* and itemCount is their number: no iterator dangles.
IndexesAgree ==
  /\ multimapItems = {[item |-> x, index |-> Hash[x.tx]] : x \in Stored}
  /\ itemCount = Cardinality(Stored)

\* From whatever bucket the search starts, getRandomTransaction finds a
\* transaction unless there is none: half the array each way, and one, is
\* enough for every size of the array.
EveryStartFinds ==
  \A index \in Buckets : Probed(htabItems, index) = NoBucket <=> itemCount = 0

\* A block's transactions are as many as it may take and the pool has, under
\* either strategy, and under strategy 1 no fee left behind is higher.
SelectionsAreWhole ==
  \A n \in 1..MaxInserts :
    /\ \A index \in Buckets : \A S \in RandomSelections(n, index) :
         Cardinality(S) = ToSelect(n)
    /\ \A S \in RationalSelections(n) :
         /\ Cardinality(S) = ToSelect(n)
         /\ \A x \in S, y \in Stored \ S : y.fee <= x.fee
=============================================================================

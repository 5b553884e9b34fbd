--------------------------------- MODULE Iblt ---------------------------------
(***************************************************************************)
(* The table of thirdparty/iblt.h, cell by cell: a sender and a receiver   *)
(* each insert their transactions, one table is subtracted from the other, *)
(* and listEntries walks the difference until a pass finds no pure cell.   *)
(*                                                                         *)
(* The xor of keys is the set of those with an odd number of occurrences,  *)
(* and likewise that of values; the value inserted with a key is U64ToVec  *)
(* of it, so it is named by the key.  A value also has its number of       *)
(* bytes, since a vector that is empty is not added.  Checks of keys do    *)
(* not collide: a xor has the check of a key if it is that key.            *)
(***************************************************************************)
EXTENDS Listing, FiniteSetsExt

CONSTANTS NumHashes,
          Expected, Hedge,  \* of the sender's table; Hedge is a pair, a quotient
          ValueSize,        \* IBLT_VALUE_SIZE
          KeyBytes          \* sizeof(uint64_t): the size U64ToVec gives a value

ASSUME IbltConstants ==
  /\ IsFiniteSet(Txs)
  /\ NumHashes \in Nat \ {0, 1}
  /\ Expected \in Nat \ {0} /\ Hedge \in Nat \X (Nat \ {0}) /\ Hedge[1] >= Hedge[2]
  /\ ValueSize \in Nat /\ KeyBytes \in Nat \ {0}

VARIABLES sent, had,   \* what the sender and the receiver insert
          hash,        \* the bucket of each key in each part of the table
          table,       \* hashTable: of the sender, of the difference, peeled
          own,         \* hashTable of the receiver
          cursor,      \* -1 until the tables are subtracted; the cell looked at next
          erased,      \* has this pass taken an entry out?
          positive, negative,
          answer,      \* what listEntries returns: <<>> until it does
          argBytes     \* history: the sizes of the values passed to _insert

ibltVars == <<sent, had, hash, table, own, cursor, erased, positive, negative, answer, argBytes>>

Xor(S, T) == (S \ T) \cup (T \ S)

NoValue   == [bytes |-> 0, of |-> {}]
EmptyCell == [count |-> 0, keySum |-> {}, valueSum |-> NoValue]

U64ToVec(k) == [bytes |-> KeyBytes, of |-> {k}]

IsEmpty(e) == e.count = 0 /\ e.keySum = {}
IsPure(e)  == e.count \in {1, -1} /\ Cardinality(e.keySum) = 1

AddValue(sum, v) ==
  IF v.bytes = 0 THEN sum
  ELSE [bytes |-> IF sum.bytes < v.bytes THEN v.bytes ELSE sum.bytes, of |-> Xor(sum.of, v.of)]

\* The value of an empty cell is cleared.
Added(e, count, keys, v) ==
  LET f == [e EXCEPT !.count = @ + count, !.keySum = Xor(@, keys)]
  IN  [f EXCEPT !.valueSum = IF IsEmpty(f) THEN NoValue ELSE AddValue(@, v)]

\* The number of cells is a multiple of the number of hashes.
RoundedUp(n) == n + ((NumHashes - (n % NumHashes)) % NumHashes)

NewTable(expected, hedge) ==
  [i \in 0..(RoundedUp((expected * hedge[1]) \div hedge[2]) - 1) |-> EmptyCell]

Size(t)     == Cardinality(DOMAIN t)
PerHash(t)  == Size(t) \div NumHashes
Cell(t, k, i) == (i - 1) * PerHash(t) + hash[k][i]
Cells(t, k) == {Cell(t, k, i) : i \in 1..NumHashes}

(***************************************************************************)
(* _insert: the value goes by reference, so that one that lies in a cell   *)
(* of this table is seen by a cell as the cells before have left it:       *)
(* value[c] is what is added to cell c.                                    *)
(***************************************************************************)
Insert(t, sign, k, value) ==
  LET cells == Cells(t, k)
  IN  [c \in DOMAIN t |-> IF c \in cells THEN Added(t[c], sign, {k}, value[c]) ELSE t[c]]

InsertOne(k, t) == Insert(t, 1, k, [c \in DOMAIN t |-> U64ToVec(k)])

WithAll(t, S) == FoldSet(InsertOne, t, S)

\* Mutant of Minus: counts are subtracted, keys are not.
CountsOnly(t, u) ==
  [i \in DOMAIN t |-> Added(t[i], - u[i].count, {}, u[i].valueSum)]

\* operator-
Minus(t, u) ==
  [i \in DOMAIN t |-> Added(t[i], - u[i].count, u[i].keySum, u[i].valueSum)]

-----------------------------------------------------------------------------
\* The sender's table is made and sent; the receiver makes one of its size.
IbltInit ==
  /\ sent \in SUBSET Txs /\ had \in SUBSET Txs
  /\ LET empty == NewTable(Expected, Hedge)
     IN  /\ hash \in [Txs -> [1..NumHashes -> 0..(PerHash(empty) - 1)]]
         /\ table = WithAll(empty, sent)
         /\ own = WithAll(NewTable(Size(table), <<1, 1>>), had)
  /\ cursor = -1 /\ erased = FALSE
  /\ positive = {} /\ negative = {}
  /\ answer = <<>>
  /\ argBytes = {U64ToVec(k).bytes : k \in sent \cup had}

Subtract ==
  /\ cursor = -1
  /\ table' = Minus(table, own)
  /\ cursor' = 0
  /\ UNCHANGED <<sent, had, hash, own, erased, positive, negative, answer, argBytes>>

\* One turn of the inner loop of listEntries: the entry of a pure cell is
\* listed and taken out, with the value that the cell itself holds.
Look ==
  LET e    == table[cursor]
      key  == CHOOSE k \in e.keySum : TRUE
      value == [c \in DOMAIN table |->
                  IF c <= cursor THEN e.valueSum
                  ELSE Added(e, - e.count, {key}, e.valueSum).valueSum]
  IN  /\ cursor \in DOMAIN table /\ answer = <<>>
      /\ cursor' = cursor + 1
      /\ IF IsPure(e)
           THEN /\ IF e.count = 1
                     THEN positive' = positive \cup {<<key, e.valueSum>>} /\ UNCHANGED negative
                     ELSE negative' = negative \cup {<<key, e.valueSum>>} /\ UNCHANGED positive
                /\ table' = Insert(table, - e.count, key, value)
                /\ erased' = TRUE
                /\ argBytes' = argBytes \cup {e.valueSum.bytes}
           ELSE UNCHANGED <<table, erased, positive, negative, argBytes>>
      /\ UNCHANGED <<sent, had, hash, own, answer>>

\* Mutant of EndPass: nErased is not reset.
NotReset ==
  /\ cursor = Size(table) /\ answer = <<>>
  /\ IF erased
       THEN cursor' = 0 /\ UNCHANGED answer
       ELSE /\ answer' = <<\A i \in 0..(PerHash(table) - 1) : IsEmpty(table[i])>>
            /\ UNCHANGED cursor
  /\ UNCHANGED <<sent, had, hash, table, own, erased, positive, negative, argBytes>>

\* Another pass, or the answer: the cells of the first hash decide it, since
\* every entry has one there.
EndPass ==
  /\ cursor = Size(table) /\ answer = <<>>
  /\ IF erased
       THEN cursor' = 0 /\ erased' = FALSE /\ UNCHANGED answer
       ELSE /\ answer' = <<\A i \in 0..(PerHash(table) - 1) : IsEmpty(table[i])>>
            /\ UNCHANGED <<cursor, erased>>
  /\ UNCHANGED <<sent, had, hash, table, own, positive, negative, argBytes>>

IbltNext == Subtract \/ Look \/ EndPass

\* listEntries is one call: it runs on.
IbltSpec == IbltInit /\ [][IbltNext]_ibltVars /\ WF_ibltVars(IbltNext)

-----------------------------------------------------------------------------
(* Properties *)

\* Of the two sets listEntries lists the difference as far as it can be
\* peeled, each key under its sign, and says whether that is all.
Keys(listing) == {e[1] : e \in listing}
Peeled == INSTANCE Peeling WITH
  cells     <- [k \in Txs |-> Cells(table, k)],
  counts    <- Difference(sent, had),
  positives <- Keys(positive),
  negatives <- Keys(negative),
  outcome   <- answer
PeelsTheDifference == Peeled!PeelingSpec

\* The passes come to an end.
ListingEnds == <>(answer # <<>>)

\* The assertion of _insert: values have the size the table was made for.
ValuesFit == argBytes \subseteq {ValueSize}
=============================================================================

------------------------------- MODULE Listing -------------------------------
(***************************************************************************)
(* What an IBLT tells of the transactions in it, as sets: a table is the   *)
(* count of each transaction, `p' gives the cells each transaction is      *)
(* hashed to.  Graphene decodes with these operators; Peeling and Iblt     *)
(* say why the cells of thirdparty/iblt.h come to the same.                *)
(***************************************************************************)
EXTENDS Integers

CONSTANT Txs            \* ids of transactions

Difference(S, R) ==
  [k \in Txs |-> (IF k \in S THEN 1 ELSE 0) - (IF k \in R THEN 1 ELSE 0)]

EmptyTable == Difference({}, {})

Entries(t) == {k \in Txs : t[k] # 0}

\* Entries each of whose cells holds another one of them never become pure.
Stuck(p, T) == \A k \in T : \A c \in p[k] : \E j \in T \ {k} : c \in p[j]

Core(p, t) == UNION {T \in SUBSET Entries(t) : Stuck(p, T)}

\* What listEntries lists, and whether it says that this is all.
Listed(p, t)   == Entries(t) \ Core(p, t)
Positive(p, t) == {k \in Listed(p, t) : t[k] = 1}
Negative(p, t) == Listed(p, t) \ Positive(p, t)
AllListed(p, t) == Core(p, t) = {}
=============================================================================

----------------------------- MODULE Confirmation -----------------------------
(***************************************************************************)
(* The DAG, the miners and the mempools together: a miner fills a block    *)
(* from its mempool, and a node takes out of its mempool what blocks that  *)
(* turn blue contain.  Colours change as blocks come in, in any order, so  *)
(* a block may turn blue long after it came, and turn red again.           *)
(*                                                                         *)
(* BlockDag says how blocks get about; transactions get to any node at any *)
(* time or never, and one that a full mempool drops is one that does not   *)
(* get there.  The order of a mempool is left open, so that both selection *)
(* strategies are among the choices.                                       *)
(***************************************************************************)
EXTENDS Ordering

CONSTANTS Txs,
          TxsPerBlock   \* m_txsPerBlock

ASSUME TxsPerBlockOK == TxsPerBlock \in Nat

VARIABLES body,    \* transactions() of every mined block
          pool,    \* the transactions in m_mempool
          known    \* m_known_txs
confirmationVars == <<header, chain, created, body, pool, known>>

ConfirmationInit ==
  /\ OrderingInit
  /\ body = [b \in {Genesis} |-> {}]
  /\ pool = [n \in Nodes |-> {}] /\ known = [n \in Nodes |-> {}]

\* A transaction comes in, generated or from a peer.
AcceptTransaction(n, tx) ==
  /\ tx \notin known[n]
  /\ known' = [known EXCEPT ![n] = @ \cup {tx}]
  /\ pool'  = [pool EXCEPT ![n] = @ \cup {tx}]
  /\ UNCHANGED <<header, chain, created, body>>

\* Mutant of SelectTransactions: they stay in the mempool.
SelectACopy(n, txs) ==
  /\ Cardinality(txs) = IF Cardinality(pool[n]) < TxsPerBlock THEN Cardinality(pool[n])
                                                              ELSE TxsPerBlock
  /\ UNCHANGED pool

\* As many as a block may have, erased one by one as they are taken.
SelectTransactions(n, txs) ==
  /\ Cardinality(txs) = IF Cardinality(pool[n]) < TxsPerBlock THEN Cardinality(pool[n])
                                                              ELSE TxsPerBlock
  /\ pool' = [pool EXCEPT ![n] = @ \ txs]

\* GhostDagMiner::MineBlock: blocks that it turns blue are not looked at.
MineBody(n) ==
  /\ MineBlock(n) /\ Stamp
  /\ \E txs \in SUBSET pool[n] :
       /\ SelectTransactions(n, txs)
       /\ body' = Put(body, BlockId(n, chain[n].next), txs)
  /\ UNCHANGED known

\* Mutant of HandleBody: only the block that comes in is looked at.
HandleOwnBody(n, b) ==
  /\ HandleBlock(n, b) /\ Stamp
  /\ known' = [known EXCEPT ![n] = @ \cup body[b]]
  /\ pool'  = [pool EXCEPT ![n] = IF b \in chain'[n].isBlue THEN @ \ body[b] ELSE @]
  /\ UNCHANGED body

\* GhostDagNode::HandleBlock: whatever has turned blue, orphans included that
\* the block has unlocked, confirms its transactions.
HandleBody(n, b) ==
  /\ HandleBlock(n, b) /\ Stamp
  /\ known' = [known EXCEPT ![n] = @ \cup body[b]]
  /\ LET confirmed == UNION {body[c] : c \in NewlyBlue(chain'[n], chain[n].isBlue)}
     IN  pool' = [pool EXCEPT ![n] = @ \ confirmed]
  /\ UNCHANGED body

ConfirmationNext ==
  \/ \E n \in Nodes, tx \in Txs : AcceptTransaction(n, tx)
  \/ \E n \in Miners : MineBody(n)
  \/ \E n \in Nodes, b \in Mined : HandleBody(n, b)

ConfirmationSpec == ConfirmationInit /\ [][ConfirmationNext]_confirmationVars

-----------------------------------------------------------------------------
(* Properties *)

OwnBlocks(n) == {b \in Mined \ {Genesis} : b \div IdSpan = n}

\* A node's mempool may hold a transaction of a block that is blue to it, but
\* only if the node is a miner and has mined on top of that block: MineBlock
\* is the one place where blocks turn blue and mempools are not looked at.
StaleOnlyByOwnBlock ==
  \A n \in Nodes : \A c \in chain[n].isBlue :
    body[c] \cap pool[n] # {} =>
      \E b \in OwnBlocks(n) : c \in chain[n].past[b]

\* A block repeats a transaction of a block that was blue to its miner only
\* if that miner had mined on top of it before; and no miner ever puts a
\* transaction in two blocks of its own.
RepeatsOnlyAfterOwnBlock ==
  \A n \in Nodes : \A b \in Blocks(chain[n]) \ {Genesis} :
    LET d   == chain[n]
        own == d.past[b] \cap OwnBlocks(b \div IdSpan)
    IN  /\ \A c \in d.blue[d.sparent[b]] :
             body[b] \cap body[c] # {} => \E a \in own : c \in d.past[a]
        /\ \A a \in own : body[a] \cap body[b] = {}
=============================================================================

------------------------------- MODULE TxRelay -------------------------------
(***************************************************************************)
(* The transaction relay of node.cc: transactions are announced in batches *)
(* (INV), requested from their first announcer (REQ) and delivered (TXS).  *)
(* One timer per node serves a FIFO of request deadlines.                  *)
(*                                                                         *)
(* What blocks do to the relay is kept: a miner takes transactions out of  *)
(* its mempool, and a block that comes in makes its transactions known and *)
(* may take them out of the mempool.  Which blocks are blue is left open.  *)
(* Messages from m to n travel in order and are not lost.                  *)
(*                                                                         *)
(* The deadline of a request is the number of requests made before it: the *)
(* timeout is the same for all, so deadlines are in the order of requests. *)
(* Requests made by one message share a deadline and one FIFO entry.       *)
(***************************************************************************)
EXTENDS Integers, FiniteSets, Sequences, SequencesExt

CONSTANTS Nodes,
          Peers,        \* m_peers_addresses of each node
          TxIds,        \* TxIds[n]: ids of the transactions n may generate, bounded
          Miners,
          MempoolSize,  \* m_mempoolSize
          MaxMined,     \* bound: blocks with transactions
          SlowRequests  \* bound: so many first requests of a node may time out
                        \* before their answer is in

ASSUME TxPeersAreNodes ==
  Peers \in [Nodes -> SUBSET Nodes] /\ \A n \in Nodes : n \notin Peers[n]
ASSUME TxIdsDiffer ==
  /\ \A n \in Nodes : TxIds[n] \subseteq Nat
  /\ \A n, m \in Nodes : n # m => TxIds[n] \cap TxIds[m] = {}
ASSUME TxConstants ==
  Miners \subseteq Nodes /\ MempoolSize \in Nat /\ {MaxMined, SlowRequests} \subseteq Nat

VARIABLES known,       \* m_known_txs
          mempool,     \* the transactions in m_mempool
          queueTx,     \* m_queue_inv_tx: announcers (front = asked) and deadline
          timeouts,    \* m_tx_timeout_queue
          timer,       \* is m_txTimeoutEvent pending?
          requests,    \* requests made so far: the clock of the deadlines
          pendingInv,  \* m_pending_inv_tx
          batchEvent,  \* m_invBatchEvent: pending?, and the exclude it will pass
          net,         \* net[m][n]: messages under way
          mined,       \* the transactions of each block made so far
          leftOut      \* history: <<node, transaction>> of the announcements that
                       \* passed over a node that did not know the transaction

requestVars == <<queueTx, timeouts, timer, requests>>
batchVars   == <<pendingInv, batchEvent>>
txVars      == <<known, mempool, requestVars, batchVars, net, mined, leftOut>>

Without(f, S) == [y \in DOMAIN f \ S |-> f[y]]

Inv(txs) == [type |-> "INV", txs |-> txs]
Req(txs) == [type |-> "REQ", txs |-> txs]
Txs(txs) == [type |-> "TXS", txs |-> txs]

NoBatch == [pending |-> FALSE, exclude |-> {}]

TxInit ==
  /\ known      = [n \in Nodes |-> {}]
  /\ mempool    = [n \in Nodes |-> {}]
  /\ queueTx    = [n \in Nodes |-> <<>>]
  /\ timeouts   = [n \in Nodes |-> <<>>]
  /\ timer      = [n \in Nodes |-> FALSE]
  /\ requests   = [n \in Nodes |-> 0]
  /\ pendingInv = [n \in Nodes |-> {}]
  /\ batchEvent = [n \in Nodes |-> NoBatch]
  /\ net        = [m \in Nodes |-> [n \in Nodes |-> <<>>]]
  /\ mined      = <<>>
  /\ leftOut    = {}

Arrived(m, n, type) == net[m][n] # <<>> /\ Head(net[m][n]).type = type

Read(m, n) == [net EXCEPT ![m][n] = Tail(@)]

\* n sends to each p the messages out[p].
Sent(channels, n, out) ==
  [channels EXCEPT ![n] = [p \in Nodes |-> @[p] \o out[p]]]

To(S, msg) == [p \in Nodes |-> IF p \in S THEN <<msg>> ELSE <<>>]

-----------------------------------------------------------------------------
(* Accepting and announcing *)

\* A batch is scheduled unless one is; who sent the first of its
\* transactions will be left out.
ScheduleBatch(n, new, exclude) ==
  /\ pendingInv' = [pendingInv EXCEPT ![n] = @ \cup new]
  /\ batchEvent' = [batchEvent EXCEPT ![n] =
       IF pendingInv'[n] # {} /\ ~ @.pending
         THEN [pending |-> TRUE, exclude |-> exclude] ELSE @]

\* Mutant of RoomIn: one too many.
RoomAndOne(n) == MempoolSize + 1 - Cardinality(mempool[n])

RoomIn(n) == MempoolSize - Cardinality(mempool[n])

New(n, txs) == txs \ known[n]

\* A full mempool generates nothing. Nodes that mine generate too: the default of the
\* attribute GenerateTransactions overwrites what the miner's constructor set.
GenerateTransaction(n) ==
  \E tx \in TxIds[n] :
    /\ tx \notin known[n] /\ \A t \in TxIds[n] : t < tx => t \in known[n]
    /\ RoomIn(n) > 0
    /\ mempool' = [mempool EXCEPT ![n] = @ \cup {tx}]
    /\ known'   = [known EXCEPT ![n] = @ \cup {tx}]
    /\ ScheduleBatch(n, {tx}, {})
    /\ UNCHANGED <<requestVars, net, mined, leftOut>>

\* Mutant of BroadcastInvTransactions: the loop over the peers ends early.
BroadcastToAllButLast(n, txs, exclude) ==
  net' = Sent(net, n, To({p \in Peers[n] \ exclude : \E q \in Peers[n] : p < q}, Inv(txs)))

BroadcastInvTransactions(n, txs, exclude) ==
  net' = Sent(net, n, To(Peers[n] \ exclude, Inv(txs)))

PassOver(n) ==
  leftOut' = leftOut \cup
    {out \in batchEvent[n].exclude \X pendingInv[n] : out[2] \notin known[out[1]]}

\* Mutant of FlushInvBatch: the batch is not cleared.
FlushAndKeep(n) ==
  /\ batchEvent[n].pending
  /\ batchEvent' = [batchEvent EXCEPT ![n] = NoBatch]
  /\ BroadcastInvTransactions(n, pendingInv[n], batchEvent[n].exclude)
  /\ PassOver(n)
  /\ UNCHANGED <<known, mempool, requestVars, pendingInv, mined>>

FlushInvBatch(n) ==
  /\ batchEvent[n].pending
  /\ batchEvent' = [batchEvent EXCEPT ![n] = NoBatch]
  /\ pendingInv' = [pendingInv EXCEPT ![n] = {}]
  /\ IF pendingInv[n] = {} THEN UNCHANGED net
     ELSE BroadcastInvTransactions(n, pendingInv[n], batchEvent[n].exclude)
  /\ PassOver(n)
  /\ UNCHANGED <<known, mempool, requestVars, mined>>

-----------------------------------------------------------------------------
(* Requesting *)

Announcers(n, tx) ==
  IF tx \in DOMAIN queueTx[n] THEN queueTx[n][tx].announcers ELSE <<>>

\* Deadlines at the end of the FIFO for the requests made now; the timer is
\* armed for the front.
Queued(n, rest, txs) ==
  /\ timeouts' = [timeouts EXCEPT ![n] =
       IF txs = {} THEN rest ELSE Append(rest, [deadline |-> requests[n], txs |-> txs])]
  /\ requests' = [requests EXCEPT ![n] = IF txs = {} THEN @ ELSE @ + 1]

ArmTxTimeoutTimer(n) == timer' = [timer EXCEPT ![n] = timeouts'[n] # <<>>]

\* Of a known transaction an announcement changes nothing; the first
\* announcer of another one is asked, the later ones are kept for a timeout.
HandleInvTransactions(m, n) ==
  LET new    == New(n, Head(net[m][n]).txs)
      wanted == {tx \in new : Announcers(n, tx) = <<>>}
      Request(tx) == [ announcers |-> Append(Announcers(n, tx), m),
                       deadline   |-> IF tx \in wanted THEN requests[n]
                                                       ELSE queueTx[n][tx].deadline ]
  IN  /\ Arrived(m, n, "INV")
      /\ queueTx' = [queueTx EXCEPT ![n] =
           [tx \in DOMAIN @ \cup new |-> IF tx \in new THEN Request(tx) ELSE @[tx]]]
      /\ Queued(n, timeouts[n], wanted)
      /\ IF wanted = {}
           THEN net' = Read(m, n) /\ UNCHANGED timer
           ELSE net' = Sent(Read(m, n), n, To({m}, Req(wanted))) /\ ArmTxTimeoutTimer(n)
      /\ UNCHANGED <<known, mempool, batchVars, mined, leftOut>>

\* What the mempool has of the request; nothing, if it has none of it.
HandleReqTransactions(m, n) ==
  LET found == Head(net[m][n]).txs \cap mempool[n]
  IN  /\ Arrived(m, n, "REQ")
      /\ net' = IF found = {} THEN Read(m, n) ELSE Sent(Read(m, n), n, To({m}, Txs(found)))
      /\ UNCHANGED <<known, mempool, requestVars, batchVars, mined, leftOut>>

\* The requests are over.  What is new becomes known, and goes to the mempool
\* and into the next batch while there is room; the rest is dropped.
HandleTransactions(m, n) ==
  LET txs == Head(net[m][n]).txs
      new == New(n, txs)
  IN  /\ Arrived(m, n, "TXS")
      /\ queueTx' = [queueTx EXCEPT ![n] = Without(@, txs)]
      /\ known'   = [known EXCEPT ![n] = @ \cup new]
      /\ \E taken \in SUBSET new :
           /\ Cardinality(taken) = IF Cardinality(new) <= RoomIn(n) THEN Cardinality(new)
                                   ELSE RoomIn(n)
           /\ mempool' = [mempool EXCEPT ![n] = @ \cup taken]
           /\ ScheduleBatch(n, taken, {m})
      /\ net' = Read(m, n)
      /\ UNCHANGED <<timeouts, timer, requests, mined, leftOut>>

\* The deadline of a request that is neither over nor superseded.
Live(n, entry) ==
  {tx \in entry.txs : tx \in DOMAIN queueTx[n] /\ queueTx[n][tx].deadline = entry.deadline}

\* The timer may fire; once the slow requests are made, only when nothing is
\* under way.
TimerFires(n) ==
  /\ timer[n]
  /\ requests[n] <= SlowRequests \/ \A p \in Nodes : net[n][p] = <<>> /\ net[p][n] = <<>>

\* Mutant of ProcessTxTimeouts: the timer is not armed again.
ProcessOnce(n) ==
  /\ TimerFires(n)
  /\ timer'    = [timer EXCEPT ![n] = FALSE]
  /\ timeouts' = [timeouts EXCEPT ![n] = Tail(@)]
  /\ queueTx'  = [queueTx EXCEPT ![n] = Without(@, Live(n, Head(timeouts[n])))]
  /\ UNCHANGED <<known, mempool, requests, batchVars, net, mined, leftOut>>

(***************************************************************************)
(* The first k entries of the FIFO are due.  Of each live request the      *)
(* announcer asked is dropped; another one is swapped to the front and     *)
(* asked, with a new deadline, or the transaction is given up.  Requests   *)
(* to one announcer may be in any order.                                   *)
(***************************************************************************)
ProcessTxTimeouts(n) ==
  \E k \in 1..Len(timeouts[n]) :
    LET due     == UNION {Live(n, timeouts[n][i]) : i \in 1..k}
        Rest(tx) == Tail(queueTx[n][tx].announcers)
        retried == {tx \in due : Rest(tx) # <<>>}
        Swapped(tx, i) == [Rest(tx) EXCEPT ![1] = Rest(tx)[i], ![i] = Rest(tx)[1]]
    IN  /\ TimerFires(n)
        /\ \E pick \in [retried -> 1..Cardinality(Nodes)] :
             /\ \A tx \in retried : pick[tx] \in 1..Len(Rest(tx))
             /\ queueTx' = [queueTx EXCEPT ![n] =
                  [tx \in DOMAIN @ \ (due \ retried) |->
                     IF tx \in retried
                       THEN [announcers |-> Swapped(tx, pick[tx]), deadline |-> requests[n]]
                       ELSE @[tx]]]
             /\ \E out \in [Nodes -> SetToAllKPermutations({Req({tx}) : tx \in retried})] :
                  /\ \A p \in Nodes :
                       LET asked == {tx \in retried : Rest(tx)[pick[tx]] = p}
                       IN  out[p] \in SetToSeqs({Req({tx}) : tx \in asked})
                  /\ net' = Sent(net, n, out)
        /\ Queued(n, SubSeq(timeouts[n], k + 1, Len(timeouts[n])), retried)
        /\ ArmTxTimeoutTimer(n)
        /\ UNCHANGED <<known, mempool, batchVars, mined, leftOut>>

-----------------------------------------------------------------------------
(* Blocks *)

\* A miner's block takes transactions out of its mempool.
MineTransactions(n) ==
  /\ Len(mined) < MaxMined
  /\ \E txs \in (SUBSET mempool[n]) \ {{}} :
       /\ mined' = Append(mined, txs)
       /\ mempool' = [mempool EXCEPT ![n] = @ \ txs]
  /\ UNCHANGED <<known, requestVars, batchVars, net, leftOut>>

\* HandleBlock: the block's transactions are known from now on; those of
\* newly blue blocks leave the mempool.  Their requests stay.
HandleBlockBody(n, i) ==
  LET here == {j \in DOMAIN mined : j = i \/ mined[j] \subseteq known[n]}
  IN  /\ known' = [known EXCEPT ![n] = @ \cup mined[i]]
      /\ \E blue \in SUBSET here :
           mempool' = [mempool EXCEPT ![n] = @ \ UNION {mined[j] : j \in blue}]
      /\ UNCHANGED <<requestVars, batchVars, net, mined, leftOut>>

-----------------------------------------------------------------------------
TxReceive(m, n) ==
  \/ HandleInvTransactions(m, n)
  \/ HandleReqTransactions(m, n)
  \/ HandleTransactions(m, n)

TxNext ==
  \/ \E n \in Nodes : GenerateTransaction(n)
  \/ \E n \in Nodes : FlushInvBatch(n)
  \/ \E m, n \in Nodes : TxReceive(m, n)
  \/ \E n \in Nodes : ProcessTxTimeouts(n)
  \/ \E n \in Miners : MineTransactions(n)
  \/ \E n \in Nodes : \E i \in DOMAIN mined : HandleBlockBody(n, i)

\* Weak fairness of what the event queue holds, written out: messages on
\* their way are read, and scheduled events happen.
TxProgress ==
  /\ \A m, n \in Nodes :
       []<>(net[m][n] = <<>>) \/ []<><<TxReceive(m, n)>>_txVars
  /\ \A n \in Nodes :
       /\ []<>(~ batchEvent[n].pending) \/ []<><<FlushInvBatch(n)>>_txVars
       /\ []<>(~ timer[n]) \/ []<><<ProcessTxTimeouts(n)>>_txVars

TxSpec == TxInit /\ [][TxNext]_txVars

FairTxSpec == TxSpec /\ TxProgress

-----------------------------------------------------------------------------
(* Properties *)

AllTxs == UNION {TxIds[n] : n \in Nodes}

TxMessages == [type : {"INV", "REQ", "TXS"}, txs : (SUBSET AllTxs) \ {{}}]

\* Type invariant; a mempool holds known transactions, and no more than it may.
TxTypeOK ==
  /\ known \in [Nodes -> SUBSET AllTxs]
  /\ \A n \in Nodes : mempool[n] \subseteq known[n] /\ Cardinality(mempool[n]) <= MempoolSize
  /\ \A n \in Nodes : DOMAIN queueTx[n] \subseteq AllTxs
  /\ \A n \in Nodes : \A tx \in DOMAIN queueTx[n] :
       /\ queueTx[n][tx].announcers \in Seq(Nodes) \ {<<>>}
       /\ queueTx[n][tx].deadline \in 0..(requests[n] - 1)
  /\ \A n \in Nodes : \A i \in 1..Len(timeouts[n]) : timeouts[n][i].txs \subseteq AllTxs
  /\ timer \in [Nodes -> BOOLEAN]
  /\ pendingInv \in [Nodes -> SUBSET AllTxs]
  /\ \A m, n \in Nodes : \A i \in 1..Len(net[m][n]) : net[m][n][i] \in TxMessages
  /\ \A i \in 1..Len(mined) : mined[i] \subseteq AllTxs

\* The comment on ProcessTxTimeouts in node.h: the FIFO of deadlines is
\* sorted, and one event serves them all.  Every request in flight has one
\* deadline in it, and while there are deadlines the timer is armed.
OneTimerServesAll ==
  \A n \in Nodes :
    /\ timer[n] = (timeouts[n] # <<>>)
    /\ \A i, j \in 1..Len(timeouts[n]) :
         i < j => timeouts[n][i].deadline < timeouts[n][j].deadline
    /\ \A tx \in DOMAIN queueTx[n] :
         Cardinality({i \in 1..Len(timeouts[n]) : tx \in Live(n, timeouts[n][i])}) = 1

\* No peer announces a transaction to a node twice.
TxAnnouncedOnce ==
  \A m, n \in Nodes : \A tx \in AllTxs :
      Cardinality({i \in 1..Len(net[m][n]) :
                     net[m][n][i].type = "INV" /\ tx \in net[m][n][i].txs})
    + Cardinality({i \in 1..Len(Announcers(n, tx)) : Announcers(n, tx)[i] = m}) <= 1

\* Each transaction generated gets to every node, if requests are asked again
\* of other announcers after they time out; but for those that a block has
\* taken along, which the block brings, and for the nodes that were passed
\* over for having sent another transaction of the same batch.
EveryTxArrives ==
  \A tx \in AllTxs :
    (\E m \in Nodes : tx \in known[m])
      ~> (\A n \in Nodes : \/ tx \in known[n] \cup UNION {mined[i] : i \in 1..Len(mined)}
                           \/ <<n, tx>> \in leftOut)
=============================================================================

---------------------------- MODULE TxRelay_proofs ----------------------------
(***************************************************************************)
(* Invariants of the transaction relay, on any network, with any number of *)
(* transactions, blocks and requests that time out: one timer serves all   *)
(* requests, and no transaction is announced twice on a connection.        *)
(***************************************************************************)
EXTENDS TxRelay, FiniteSetTheorems, SequenceTheorems, TLAPS

\* Messages name finitely many transactions.
Messages == {msg \in TxMessages : IsFiniteSet(msg.txs)}

\* What is under way from each node to each other one.
Channels == [Nodes -> [Nodes -> Seq(Messages)]]

\* An entry of m_tx_timeouts, and one of m_queue_tx.
Deadlines == [deadline : Nat, txs : SUBSET AllTxs]

Queues == [announcers : Seq(Nodes) \ {<<>>}, deadline : Nat]

\* What is known, in the mempool and waiting to be announced.
BooksTyped ==
  /\ known \in [Nodes -> SUBSET AllTxs]
  /\ mempool \in [Nodes -> SUBSET AllTxs]
  /\ pendingInv \in [Nodes -> SUBSET AllTxs]
  /\ \A n \in Nodes : /\ mempool[n] \subseteq known[n] /\ pendingInv[n] \subseteq known[n]
                      /\ IsFiniteSet(mempool[n]) /\ Cardinality(mempool[n]) <= MempoolSize
                      /\ IsFiniteSet(pendingInv[n])
  /\ batchEvent \in [Nodes -> [pending : BOOLEAN, exclude : SUBSET Nodes]]
  /\ mined \in Seq(SUBSET AllTxs)

\* The requests of each node.
RequestsTyped ==
  /\ DOMAIN queueTx = Nodes
  /\ \A n \in Nodes : /\ DOMAIN queueTx[n] \subseteq AllTxs
                      /\ IsFiniteSet(DOMAIN queueTx[n])
                      /\ queueTx[n] \in [DOMAIN queueTx[n] -> Queues]
  /\ timeouts \in [Nodes -> Seq(Deadlines)]
  /\ timer \in [Nodes -> BOOLEAN]
  /\ requests \in [Nodes -> Nat]

\* All of the state is typed.
Typed == BooksTyped /\ RequestsTyped /\ net \in Channels

\* The FIFO of deadlines, the timer and the requests in flight agree.
Timers ==
  \A n \in Nodes :
    /\ timer[n] = (timeouts[n] # <<>>)
    /\ \A i \in 1..Len(timeouts[n]) : timeouts[n][i].deadline < requests[n]
    /\ \A i, j \in 1..Len(timeouts[n]) :
         i < j => timeouts[n][i].deadline < timeouts[n][j].deadline
    /\ \A tx \in DOMAIN queueTx[n] :
         \E i \in 1..Len(timeouts[n]) : tx \in Live(n, timeouts[n][i])

\* Where a channel announces tx, and where m is booked as an announcer.
Invs(s, tx)      == {i \in 1..Len(s) : s[i].type = "INV" /\ tx \in s[i].txs}
Booked(m, n, tx) == {i \in 1..Len(Announcers(n, tx)) : Announcers(n, tx)[i] = m}

Single(S) == \A i, j \in S : i = j

\* m may still announce tx.
ToAnnounce(m, tx) == tx \notin known[m] \/ tx \in pendingInv[m]

\* An announcement is to be made, or under way, or booked, or gone.
Singly ==
  \A m, n \in Nodes : \A tx \in AllTxs :
    /\ Single(Invs(net[m][n], tx)) /\ Single(Booked(m, n, tx))
    /\ Invs(net[m][n], tx) = {} \/ Booked(m, n, tx) = {}
    /\ ToAnnounce(m, tx) => Invs(net[m][n], tx) = {} /\ Booked(m, n, tx) = {}

\* The inductive invariant.
TxInv == Typed /\ Timers /\ Singly

-----------------------------------------------------------------------------
(* Channels *)

\* What n sends comes last.
LEMMA SentProperty ==
  ASSUME NEW c \in Channels, NEW n \in Nodes, NEW out \in [Nodes -> Seq(Messages)]
  PROVE  /\ Sent(c, n, out) \in Channels
         /\ \A p, q \in Nodes :
              Sent(c, n, out)[p][q] = IF p = n THEN c[p][q] \o out[q] ELSE c[p][q]
BY DEF Channels, Sent

\* One message to some nodes.
LEMMA ToProperty ==
  ASSUME NEW S, NEW msg \in Messages
  PROVE  /\ To(S, msg) \in [Nodes -> Seq(Messages)]
         /\ \A p \in Nodes : To(S, msg)[p] = IF p \in S THEN <<msg>> ELSE <<>>
BY DEF To

\* The first message is read.
LEMMA ReadProperty ==
  ASSUME net \in Channels, NEW m \in Nodes, NEW n \in Nodes, net[m][n] # <<>>
  PROVE  /\ Read(m, n) \in Channels
         /\ Head(net[m][n]) \in Messages
         /\ \A p, q \in Nodes :
              Read(m, n)[p][q] = IF p = m /\ q = n THEN Tail(net[p][q]) ELSE net[p][q]
<1>1. net[m][n] \in Seq(Messages)
  BY DEF Channels
<1>2. Head(net[m][n]) \in Messages /\ Tail(net[m][n]) \in Seq(Messages)
  BY <1>1
<1> QED BY <1>2 DEF Channels, Read

\* Announcements in a longer channel, unless it is an announcement.
LEMMA InvsAppended ==
  ASSUME NEW s \in Seq(Messages), NEW t \in Seq(Messages), NEW tx, Invs(t, tx) = {}
  PROVE  Invs(s \o t, tx) = Invs(s, tx)
<1>1. Len(s) \in Nat /\ Len(t) \in Nat /\ Len(s \o t) = Len(s) + Len(t)
  OBVIOUS
<1>2. ASSUME NEW i \in 1..Len(s \o t), i > Len(s) PROVE i \notin Invs(s \o t, tx)
  <2>1. i - Len(s) \in 1..Len(t) /\ (s \o t)[i] = t[i - Len(s)]
    BY <1>1, <1>2
  <2>2. i - Len(s) \notin Invs(t, tx)
    OBVIOUS
  <2> QED BY <2>1, <2>2 DEF Invs
<1>3. ASSUME NEW i \in 1..Len(s) PROVE i \in 1..Len(s \o t) /\ (s \o t)[i] = s[i]
  BY <1>1
<1>4. \A i \in Invs(s \o t, tx) : i \in Invs(s, tx)
  <2> TAKE i \in Invs(s \o t, tx)
  <2>1. i \in 1..Len(s \o t) /\ (s \o t)[i].type = "INV" /\ tx \in (s \o t)[i].txs
    BY DEF Invs
  <2>2. i \in 1..Len(s)
    BY <1>1, <1>2, <2>1
  <2> QED BY <1>3, <2>1, <2>2 DEF Invs
<1>5. \A i \in Invs(s, tx) : i \in Invs(s \o t, tx)
  BY <1>3 DEF Invs
<1> QED BY <1>4, <1>5

\* Announcements when a first one is sent.
LEMMA InvsAnnounced ==
  ASSUME NEW s \in Seq(Messages), NEW msg \in Messages, NEW tx, Invs(s, tx) = {}
  PROVE  Single(Invs(s \o <<msg>>, tx))
<1>1. Len(s) \in Nat /\ Len(s \o <<msg>>) = Len(s) + 1
  OBVIOUS
<1>2. ASSUME NEW i \in Invs(s \o <<msg>>, tx) PROVE i = Len(s) + 1
  <2> SUFFICES ASSUME i # Len(s) + 1 PROVE FALSE
    OBVIOUS
  <2>1. i \in 1..Len(s) /\ (s \o <<msg>>)[i] = s[i]
    BY <1>1 DEF Invs
  <2> QED BY <2>1 DEF Invs
<1> QED BY <1>2 DEF Single

\* Announcements when the first message is read.
LEMMA InvsRead ==
  ASSUME NEW s \in Seq(Messages), s # <<>>, NEW tx
  PROVE  /\ \A i \in Invs(Tail(s), tx) : i + 1 \in Invs(s, tx)
         /\ Single(Invs(s, tx)) => Single(Invs(Tail(s), tx))
         /\ Single(Invs(s, tx)) /\ 1 \in Invs(s, tx) => Invs(Tail(s), tx) = {}
<1>1. ASSUME NEW i \in Invs(Tail(s), tx) PROVE i + 1 \in Invs(s, tx) /\ i \in Nat \ {0}
  <2>1. i \in 1..Len(Tail(s)) /\ Tail(s)[i].type = "INV" /\ tx \in Tail(s)[i].txs
    BY DEF Invs
  <2>2. i + 1 \in 1..Len(s) /\ s[i + 1] = Tail(s)[i]
    BY <2>1
  <2> QED BY <2>1, <2>2 DEF Invs
<1>2. ASSUME Single(Invs(s, tx)) PROVE Single(Invs(Tail(s), tx))
  <2> SUFFICES ASSUME NEW i \in Invs(Tail(s), tx), NEW j \in Invs(Tail(s), tx) PROVE i = j
    BY DEF Single
  <2>1. i + 1 = j + 1
    BY <1>1, <1>2 DEF Single
  <2> QED BY <1>1, <2>1
<1>3. ASSUME Single(Invs(s, tx)), 1 \in Invs(s, tx), NEW i \in Invs(Tail(s), tx) PROVE FALSE
  <2>1. i + 1 = 1
    BY <1>1, <1>3 DEF Single
  <2> QED BY <1>1, <2>1
<1> QED BY <1>1, <1>2, <1>3

\* Nothing in t is an announcement.
Quiet(t) == t \in Seq(Messages) /\ \A i \in 1..Len(t) : t[i].type # "INV"

\* The channels d are those of c, perhaps with requests or answers sent.
Follows(c, d) == \A p, q \in Nodes : \E t : Quiet(t) /\ d[p][q] = c[p][q] \o t

\* No message, or one that is not an announcement.
LEMMA QuietMessages ==
  /\ Quiet(<<>>)
  /\ \A msg \in Messages : msg.type # "INV" => Quiet(<<msg>>)
<1>1. Quiet(<<>>)
  BY DEF Quiet
<1>2. ASSUME NEW msg \in Messages, msg.type # "INV" PROVE Quiet(<<msg>>)
  <2>1. <<msg>> \in Seq(Messages) /\ Len(<<msg>>) = 1 /\ <<msg>>[1] = msg
    OBVIOUS
  <2> QED BY <1>2, <2>1 DEF Quiet
<1> QED BY <1>1, <1>2

\* Nothing is sent.
LEMMA FollowsItself ==
  ASSUME NEW c \in Channels
  PROVE  Follows(c, c)
<1>1. \A p, q \in Nodes : c[p][q] \in Seq(Messages)
  BY DEF Channels
<1>2. \A p, q \in Nodes : c[p][q] = c[p][q] \o <<>>
  BY <1>1
<1> QED BY <1>2, QuietMessages DEF Follows

\* n sends requests or answers.
LEMMA SentQuietly ==
  ASSUME NEW c \in Channels, NEW n \in Nodes, NEW out \in [Nodes -> Seq(Messages)],
         \A q \in Nodes : Quiet(out[q])
  PROVE  Sent(c, n, out) \in Channels /\ Follows(c, Sent(c, n, out))
<1> DEFINE d == Sent(c, n, out)
<1>1. d \in Channels /\ \A p, q \in Nodes : d[p][q] = IF p = n THEN c[p][q] \o out[q] ELSE c[p][q]
  BY SentProperty
<1> HIDE DEF d
<1>2. \A p, q \in Nodes : c[p][q] \in Seq(Messages)
  BY DEF Channels
<1>3. \A p, q \in Nodes : c[p][q] = c[p][q] \o <<>>
  BY <1>2
<1>4. Follows(c, d)
  <2> SUFFICES ASSUME NEW p \in Nodes, NEW q \in Nodes
               PROVE  \E t : Quiet(t) /\ d[p][q] = c[p][q] \o t
    BY DEF Follows
  <2>1. CASE p = n
    BY <1>1, <2>1
  <2>2. CASE p # n
    BY <1>1, <1>3, <2>2, QuietMessages
  <2> QED BY <2>1, <2>2
<1> QED BY <1>1, <1>4 DEF d

\* n sends one request or answer.
LEMMA SentOne ==
  ASSUME NEW c \in Channels, NEW n \in Nodes, NEW S, NEW msg \in Messages, msg.type # "INV"
  PROVE  Sent(c, n, To(S, msg)) \in Channels /\ Follows(c, Sent(c, n, To(S, msg)))
<1>1. /\ To(S, msg) \in [Nodes -> Seq(Messages)]
      /\ \A p \in Nodes : To(S, msg)[p] = IF p \in S THEN <<msg>> ELSE <<>>
  BY ToProperty
<1>2. \A q \in Nodes : Quiet(To(S, msg)[q])
  BY <1>1, QuietMessages
<1> QED BY <1>1, <1>2, SentQuietly

-----------------------------------------------------------------------------
(* Types *)

\* Nothing is known, asked for or under way at first.
LEMMA Initially == TxInit => TxInv
<1> SUFFICES ASSUME TxInit PROVE TxInv
  OBVIOUS
<1>1. IsFiniteSet({}) /\ Cardinality({}) = 0
  BY FS_EmptySet
<1>2. BooksTyped
  BY <1>1, TxConstants DEF TxInit, BooksTyped, NoBatch
<1>3. RequestsTyped
  BY <1>1 DEF TxInit, RequestsTyped
<1>4. net \in Channels
  BY DEF TxInit, Channels
<1>5. Timers
  <2>1. \A n \in Nodes : timeouts[n] = <<>> /\ queueTx[n] = <<>> /\ timer[n] = FALSE
    BY DEF TxInit
  <2>2. Len(<<>>) = 0 /\ DOMAIN <<>> = {} /\ 1..0 = {}
    OBVIOUS
  <2>3. ASSUME NEW n \in Nodes
        PROVE  /\ timer[n] = (timeouts[n] # <<>>)
               /\ 1..Len(timeouts[n]) = {} /\ DOMAIN queueTx[n] = {}
    BY <2>1, <2>2
  <2> QED BY <2>3 DEF Timers
<1>6. \A m, n \in Nodes : \A tx \in AllTxs : Invs(net[m][n], tx) = {} /\ Booked(m, n, tx) = {}
  BY DEF TxInit, Invs, Booked, Announcers
<1>7. Singly
  BY <1>6 DEF Singly, Single
<1> QED BY <1>2, <1>3, <1>4, <1>5, <1>7 DEF TxInv, Typed

\* What goes into a batch.
LEMMA Scheduled ==
  ASSUME BooksTyped, NEW n \in Nodes, NEW new \in SUBSET AllTxs, IsFiniteSet(new),
         NEW exclude \in SUBSET Nodes, ScheduleBatch(n, new, exclude)
  PROVE  /\ pendingInv' \in [Nodes -> SUBSET AllTxs]
         /\ \A p \in Nodes : /\ IsFiniteSet(pendingInv'[p])
                             /\ pendingInv'[p] = pendingInv[p] \cup (IF p = n THEN new ELSE {})
         /\ batchEvent' \in [Nodes -> [pending : BOOLEAN, exclude : SUBSET Nodes]]
<1>1. pendingInv' = [pendingInv EXCEPT ![n] = pendingInv[n] \cup new]
  BY DEF ScheduleBatch
<1>2. pendingInv \in [Nodes -> SUBSET AllTxs]
  BY DEF BooksTyped
<1>3. \A p \in Nodes : pendingInv'[p] = pendingInv[p] \cup (IF p = n THEN new ELSE {})
  BY <1>1, <1>2
<1>4. \A p \in Nodes : IsFiniteSet(pendingInv'[p])
  <2> TAKE p \in Nodes
  <2>1. IsFiniteSet(pendingInv[p])
    BY DEF BooksTyped
  <2>2. IsFiniteSet(pendingInv[p] \cup new)
    BY <2>1, FS_Union
  <2> QED BY <1>3, <2>1, <2>2
<1>5. batchEvent' \in [Nodes -> [pending : BOOLEAN, exclude : SUBSET Nodes]]
  BY DEF BooksTyped, ScheduleBatch
<1> QED BY <1>1, <1>2, <1>3, <1>4, <1>5

\* The mempool has room for one more or for some.
LEMMA RoomForMore ==
  ASSUME BooksTyped, NEW n \in Nodes, NEW new \in SUBSET AllTxs, IsFiniteSet(new),
         Cardinality(new) <= RoomIn(n), mempool' = [mempool EXCEPT ![n] = @ \cup new]
  PROVE  /\ mempool' \in [Nodes -> SUBSET AllTxs]
         /\ \A p \in Nodes : /\ mempool'[p] = mempool[p] \cup (IF p = n THEN new ELSE {})
                             /\ IsFiniteSet(mempool'[p])
                             /\ Cardinality(mempool'[p]) <= MempoolSize
<1>1. /\ mempool \in [Nodes -> SUBSET AllTxs]
      /\ \A p \in Nodes : IsFiniteSet(mempool[p]) /\ Cardinality(mempool[p]) <= MempoolSize
  BY DEF BooksTyped
<1>2. \A p \in Nodes : mempool'[p] = mempool[p] \cup (IF p = n THEN new ELSE {})
  BY <1>1
<1>3. IsFiniteSet(mempool[n] \cup new) /\ Cardinality(mempool[n] \cup new) <= MempoolSize
  <2>1. /\ IsFiniteSet(mempool[n] \cup new)
        /\ Cardinality(mempool[n] \cup new) =
             Cardinality(mempool[n]) + Cardinality(new) - Cardinality(mempool[n] \cap new)
    BY <1>1, FS_Union
  <2>2. /\ Cardinality(mempool[n]) \in Nat /\ Cardinality(new) \in Nat
        /\ Cardinality(mempool[n] \cap new) \in Nat
    BY <1>1, FS_Intersection, FS_CardinalityType
  <2> QED BY <2>1, <2>2, TxConstants DEF RoomIn
<1> QED BY <1>1, <1>2, <1>3

\* A new transaction is known and waits to be announced.
LEMMA GenerateTyped ==
  ASSUME Typed, NEW n \in Nodes, GenerateTransaction(n)
  PROVE  Typed'
<1> USE DEF Typed
<1>1. PICK tx \in TxIds[n] :
        /\ RoomIn(n) > 0
        /\ mempool' = [mempool EXCEPT ![n] = @ \cup {tx}]
        /\ known'   = [known EXCEPT ![n] = @ \cup {tx}]
        /\ ScheduleBatch(n, {tx}, {})
  BY DEF GenerateTransaction
<1>2. UNCHANGED <<queueTx, timeouts, timer, requests, net, mined>>
  BY DEF GenerateTransaction, requestVars
<1>3. {tx} \in SUBSET AllTxs /\ IsFiniteSet({tx}) /\ Cardinality({tx}) = 1
  <2>1. tx \in AllTxs
    BY DEF AllTxs
  <2>2. IsFiniteSet({tx}) /\ Cardinality({tx}) = 1
    BY FS_Singleton
  <2> QED BY <2>1, <2>2
<1>4. RoomIn(n) \in Int
  BY FS_CardinalityType, TxConstants DEF BooksTyped, RoomIn
<1>5. /\ mempool' \in [Nodes -> SUBSET AllTxs]
      /\ \A p \in Nodes : /\ mempool'[p] = mempool[p] \cup (IF p = n THEN {tx} ELSE {})
                          /\ IsFiniteSet(mempool'[p])
                          /\ Cardinality(mempool'[p]) <= MempoolSize
  <2>1. Cardinality({tx}) <= RoomIn(n)
    BY <1>1, <1>3, <1>4
  <2> QED BY <1>1, <1>3, <2>1, RoomForMore
<1>6. /\ pendingInv' \in [Nodes -> SUBSET AllTxs]
      /\ \A p \in Nodes : /\ IsFiniteSet(pendingInv'[p])
                          /\ pendingInv'[p] = pendingInv[p] \cup (IF p = n THEN {tx} ELSE {})
      /\ batchEvent' \in [Nodes -> [pending : BOOLEAN, exclude : SUBSET Nodes]]
  BY <1>1, <1>3, Scheduled
<1>7. /\ known' \in [Nodes -> SUBSET AllTxs]
      /\ \A p \in Nodes : known'[p] = known[p] \cup (IF p = n THEN {tx} ELSE {})
  BY <1>1, <1>3 DEF BooksTyped
<1>8. BooksTyped'
  BY <1>2, <1>5, <1>6, <1>7 DEF BooksTyped
<1> QED BY <1>2, <1>8 DEF RequestsTyped

\* A batch is sent to all peers but those it leaves out.
LEMMA FlushTyped ==
  ASSUME Typed, NEW n \in Nodes, FlushInvBatch(n)
  PROVE  /\ Typed' /\ pendingInv' = [pendingInv EXCEPT ![n] = {}]
         /\ \/ net' = net
            \/ /\ Inv(pendingInv[n]) \in Messages
               /\ \A p, q \in Nodes : net'[p][q] = net[p][q] \o
                    (IF p = n /\ q \in Peers[n] \ batchEvent[n].exclude
                       THEN <<Inv(pendingInv[n])>> ELSE <<>>)
<1> USE DEF Typed
<1>1. /\ UNCHANGED <<known, mempool, queueTx, timeouts, timer, requests, mined>>
      /\ batchEvent' = [batchEvent EXCEPT ![n] = NoBatch]
      /\ pendingInv' = [pendingInv EXCEPT ![n] = {}]
  BY DEF FlushInvBatch, requestVars
<1>2. BooksTyped'
  BY <1>1, FS_EmptySet DEF BooksTyped, NoBatch
<1>3. /\ net' \in Channels
      /\ \/ net' = net
         \/ /\ Inv(pendingInv[n]) \in Messages
            /\ \A p, q \in Nodes : net'[p][q] = net[p][q] \o
                 (IF p = n /\ q \in Peers[n] \ batchEvent[n].exclude
                    THEN <<Inv(pendingInv[n])>> ELSE <<>>)
  <2> DEFINE out == To(Peers[n] \ batchEvent[n].exclude, Inv(pendingInv[n]))
  <2>1. CASE pendingInv[n] = {}
    BY <2>1 DEF FlushInvBatch
  <2>2. CASE pendingInv[n] # {}
    <3>1. Inv(pendingInv[n]) \in Messages
      <4>1. pendingInv[n] \in (SUBSET AllTxs) \ {{}} /\ IsFiniteSet(pendingInv[n])
        BY <2>2 DEF BooksTyped
      <4>2. Inv(pendingInv[n]) \in TxMessages /\ Inv(pendingInv[n]).txs = pendingInv[n]
        BY <4>1 DEF Inv, TxMessages
      <4> QED BY <4>1, <4>2 DEF Messages
    <3>2. net' = Sent(net, n, out)
      BY <2>2 DEF FlushInvBatch, BroadcastInvTransactions
    <3>3. /\ out \in [Nodes -> Seq(Messages)]
          /\ \A q \in Nodes : out[q] = IF q \in Peers[n] \ batchEvent[n].exclude
                                         THEN <<Inv(pendingInv[n])>> ELSE <<>>
      BY <3>1, ToProperty
    <3> HIDE DEF out
    <3>4. /\ net' \in Channels
          /\ \A p, q \in Nodes : net'[p][q] = IF p = n THEN net[p][q] \o out[q] ELSE net[p][q]
      BY <3>2, <3>3, SentProperty
    <3>5. \A p, q \in Nodes : net[p][q] \in Seq(Messages) /\ net[p][q] \o <<>> = net[p][q]
      BY DEF Channels
    <3>6. ASSUME NEW p \in Nodes, NEW q \in Nodes
          PROVE  net'[p][q] = net[p][q] \o
                    (IF p = n /\ q \in Peers[n] \ batchEvent[n].exclude
                       THEN <<Inv(pendingInv[n])>> ELSE <<>>)
      <4>1. CASE p = n /\ q \in Peers[n] \ batchEvent[n].exclude
        <5>1. out[q] = <<Inv(pendingInv[n])>> /\ net'[p][q] = net[p][q] \o out[q]
          BY <3>3, <3>4, <4>1
        <5> QED BY <4>1, <5>1
      <4>2. CASE p = n /\ q \notin Peers[n] \ batchEvent[n].exclude
        <5>1. out[q] = <<>> /\ net'[p][q] = net[p][q] \o out[q]
          BY <3>3, <3>4, <4>2
        <5> QED BY <4>2, <5>1
      <4>3. CASE p # n
        <5>1. net'[p][q] = net[p][q] /\ net[p][q] \o <<>> = net[p][q]
          BY <3>4, <3>5, <4>3
        <5> QED BY <4>3, <5>1
      <4> QED BY <4>1, <4>2, <4>3
    <3> QED BY <3>1, <3>4, <3>6
  <2> QED BY <2>1, <2>2
<1>4. RequestsTyped'
  BY <1>1 DEF RequestsTyped
<1> QED BY <1>1, <1>2, <1>3, <1>4

\* The request for some transactions, and the answer with them.
LEMMA RequestsAreMessages ==
  ASSUME NEW txs \in SUBSET AllTxs, txs # {}, IsFiniteSet(txs)
  PROVE  /\ Req(txs) \in Messages /\ Req(txs).type # "INV"
         /\ Txs(txs) \in Messages /\ Txs(txs).type # "INV"
<1>1. /\ Req(txs) \in TxMessages /\ Req(txs).txs = txs /\ Req(txs).type = "REQ"
      /\ Txs(txs) \in TxMessages /\ Txs(txs).txs = txs /\ Txs(txs).type = "TXS"
  BY DEF Req, Txs, TxMessages
<1> QED BY <1>1 DEF Messages

\* The transactions announced that are new to n, and those n asks for.
Announced(m, n) == New(n, Head(net[m][n]).txs)
Wanted(m, n)    == Announced(m, n) \ DOMAIN queueTx[n]

\* An announcement read by n, with all that n does about it.
LEMMA InvShape ==
  ASSUME Typed, NEW m \in Nodes, NEW n \in Nodes, HandleInvTransactions(m, n)
  PROVE  /\ net[m][n] # <<>> /\ Head(net[m][n]).type = "INV" /\ net' \in Channels
         /\ Follows(Read(m, n), net')
         /\ Announced(m, n) \in SUBSET AllTxs /\ IsFiniteSet(Announced(m, n))
         /\ DOMAIN queueTx' = Nodes /\ \A p \in Nodes \ {n} : queueTx'[p] = queueTx[p]
         /\ DOMAIN queueTx'[n] = DOMAIN queueTx[n] \cup Announced(m, n)
         /\ \A tx \in DOMAIN queueTx[n] \ Announced(m, n) : queueTx'[n][tx] = queueTx[n][tx]
         /\ \A tx \in Announced(m, n) : queueTx'[n][tx] =
              [announcers |-> Append(Announcers(n, tx), m),
               deadline   |-> IF tx \in Wanted(m, n) THEN requests[n] ELSE queueTx[n][tx].deadline]
         /\ queueTx'[n] = [tx \in DOMAIN queueTx'[n] |-> queueTx'[n][tx]]
         /\ Queued(n, timeouts[n], Wanted(m, n))
         /\ IF Wanted(m, n) = {} THEN UNCHANGED timer ELSE ArmTxTimeoutTimer(n)
         /\ UNCHANGED <<known, mempool, pendingInv, batchEvent, mined>>
<1> USE DEF Typed
<1> DEFINE txs == Head(net[m][n]).txs
           new == Announced(m, n)
           wanted == Wanted(m, n)
           Unasked == {tx \in new : Announcers(n, tx) = <<>>}
           Request(tx) == [ announcers |-> Append(Announcers(n, tx), m),
                            deadline   |-> IF tx \in Unasked THEN requests[n]
                                                            ELSE queueTx[n][tx].deadline ]
           book == [tx \in DOMAIN queueTx[n] \cup new |->
                      IF tx \in new THEN Request(tx) ELSE queueTx[n][tx]]
<1>1. /\ net[m][n] # <<>> /\ Head(net[m][n]).type = "INV"
      /\ queueTx' = [queueTx EXCEPT ![n] = book]
      /\ Queued(n, timeouts[n], Unasked)
      /\ IF Unasked = {} THEN net' = Read(m, n) /\ UNCHANGED timer
         ELSE net' = Sent(Read(m, n), n, To({m}, Req(Unasked))) /\ ArmTxTimeoutTimer(n)
      /\ UNCHANGED <<known, mempool, pendingInv, batchEvent, mined>>
  BY DEF HandleInvTransactions, Arrived, batchVars, Announced
<1>2. Unasked = wanted
  <2>1. \A tx \in new : Announcers(n, tx) = <<>> <=> tx \notin DOMAIN queueTx[n]
    <3> TAKE tx \in new
    <3>1. CASE tx \in DOMAIN queueTx[n]
      <4>1. queueTx[n][tx] \in Queues
        BY <3>1 DEF RequestsTyped
      <4>2. queueTx[n][tx].announcers # <<>>
        BY <4>1 DEF Queues
      <4> QED BY <3>1, <4>2 DEF Announcers
    <3> QED BY <3>1 DEF Announcers
  <2> QED BY <2>1 DEF Wanted
<1>3. Head(net[m][n]) \in Messages /\ Read(m, n) \in Channels
  BY <1>1, ReadProperty
<1>4. txs \in SUBSET AllTxs /\ IsFiniteSet(txs)
  BY <1>3 DEF Messages, TxMessages
<1>5. /\ new \in SUBSET AllTxs /\ IsFiniteSet(new)
      /\ wanted \in SUBSET AllTxs /\ IsFiniteSet(wanted)
  BY <1>4, FS_Difference DEF New, Announced, Wanted
<1> HIDE DEF Unasked, new, wanted, txs
<1>6. net' \in Channels /\ Follows(Read(m, n), net')
  <2>1. CASE wanted = {}
    BY <1>1, <1>2, <1>3, <2>1, FollowsItself
  <2>2. CASE wanted # {}
    <3>1. Req(wanted) \in Messages /\ Req(wanted).type # "INV"
      BY <1>5, <2>2, RequestsAreMessages
    <3>2. net' = Sent(Read(m, n), n, To({m}, Req(wanted)))
      BY <1>1, <1>2, <2>2
    <3> QED BY <1>3, <3>1, <3>2, SentOne
  <2> QED BY <2>1, <2>2
<1>7. /\ DOMAIN queueTx' = Nodes /\ \A p \in Nodes \ {n} : queueTx'[p] = queueTx[p]
      /\ queueTx'[n] = book
  BY <1>1 DEF RequestsTyped
<1>8. /\ DOMAIN queueTx'[n] = DOMAIN queueTx[n] \cup new
      /\ queueTx'[n] = [tx \in DOMAIN queueTx'[n] |-> queueTx'[n][tx]]
      /\ \A tx \in DOMAIN queueTx[n] \ new : queueTx'[n][tx] = queueTx[n][tx]
  BY <1>7
<1>9. \A tx \in new : queueTx'[n][tx] =
        [announcers |-> Append(Announcers(n, tx), m),
         deadline   |-> IF tx \in wanted THEN requests[n] ELSE queueTx[n][tx].deadline]
  BY <1>2, <1>7
<1>10. /\ Queued(n, timeouts[n], wanted)
       /\ IF wanted = {} THEN UNCHANGED timer ELSE ArmTxTimeoutTimer(n)
  BY <1>1, <1>2
<1> HIDE DEF book
<1> QED BY <1>1, <1>5, <1>6, <1>7, <1>8, <1>9, <1>10 DEF new, wanted

\* Deadlines are put behind those that stay.
LEMMA QueuedProperty ==
  ASSUME RequestsTyped, NEW n \in Nodes, NEW rest \in Seq(Deadlines),
         NEW txs \in SUBSET AllTxs, Queued(n, rest, txs)
  PROVE  /\ timeouts' \in [Nodes -> Seq(Deadlines)] /\ requests' \in [Nodes -> Nat]
         /\ \A p \in Nodes \ {n} : timeouts'[p] = timeouts[p] /\ requests'[p] = requests[p]
         /\ timeouts'[n] = IF txs = {} THEN rest
                           ELSE Append(rest, [deadline |-> requests[n], txs |-> txs])
         /\ requests'[n] = IF txs = {} THEN requests[n] ELSE requests[n] + 1
<1>1. timeouts \in [Nodes -> Seq(Deadlines)] /\ requests \in [Nodes -> Nat]
  BY DEF RequestsTyped
<1>2. [deadline |-> requests[n], txs |-> txs] \in Deadlines
  BY <1>1 DEF Deadlines
<1> QED BY <1>1, <1>2 DEF Queued

\* An announcement read keeps the types.
LEMMA InvTyped ==
  ASSUME Typed, NEW m \in Nodes, NEW n \in Nodes, HandleInvTransactions(m, n)
  PROVE  Typed'
<1> DEFINE new == Announced(m, n)
           wanted == Wanted(m, n)
<1>1. /\ net' \in Channels /\ new \in SUBSET AllTxs /\ IsFiniteSet(new)
      /\ DOMAIN queueTx' = Nodes /\ \A p \in Nodes \ {n} : queueTx'[p] = queueTx[p]
      /\ DOMAIN queueTx'[n] = DOMAIN queueTx[n] \cup new
      /\ \A tx \in DOMAIN queueTx[n] \ new : queueTx'[n][tx] = queueTx[n][tx]
      /\ \A tx \in new : queueTx'[n][tx] =
           [announcers |-> Append(Announcers(n, tx), m),
            deadline   |-> IF tx \in wanted THEN requests[n] ELSE queueTx[n][tx].deadline]
      /\ queueTx'[n] = [tx \in DOMAIN queueTx'[n] |-> queueTx'[n][tx]]
      /\ Queued(n, timeouts[n], wanted)
      /\ IF wanted = {} THEN UNCHANGED timer ELSE ArmTxTimeoutTimer(n)
      /\ UNCHANGED <<known, mempool, pendingInv, batchEvent, mined>>
  BY InvShape
<1> HIDE DEF new, wanted
<1>2. RequestsTyped
  BY DEF Typed
<1>3. wanted \in SUBSET AllTxs /\ timeouts[n] \in Seq(Deadlines)
  BY <1>1, <1>2 DEF wanted, Wanted, new, RequestsTyped
<1>4. timeouts' \in [Nodes -> Seq(Deadlines)] /\ requests' \in [Nodes -> Nat]
  BY <1>1, <1>2, <1>3, QueuedProperty
<1>5. timer' \in [Nodes -> BOOLEAN]
  BY <1>1, <1>2 DEF RequestsTyped, ArmTxTimeoutTimer
<1>6. ASSUME NEW tx \in DOMAIN queueTx'[n] PROVE queueTx'[n][tx] \in Queues
  <2>1. CASE tx \in new
    <3>1. /\ tx \in DOMAIN queueTx[n] => queueTx[n][tx] \in Queues
          /\ requests[n] \in Nat
      BY <1>2 DEF RequestsTyped
    <3>2. Announcers(n, tx) \in Seq(Nodes)
      BY <3>1 DEF Announcers, Queues
    <3>3. Append(Announcers(n, tx), m) \in Seq(Nodes) \ {<<>>}
      <4>1. /\ Append(Announcers(n, tx), m) \in Seq(Nodes)
            /\ Len(Append(Announcers(n, tx), m)) = Len(Announcers(n, tx)) + 1
            /\ Len(Announcers(n, tx)) \in Nat
        BY <3>2
      <4>2. Len(<<>>) = 0
        OBVIOUS
      <4> QED BY <4>1, <4>2
    <3>4. (IF tx \in wanted THEN requests[n] ELSE queueTx[n][tx].deadline) \in Nat
      BY <2>1, <3>1 DEF wanted, Wanted, new, Queues
    <3> QED BY <1>1, <2>1, <3>3, <3>4 DEF Queues
  <2>2. CASE tx \notin new
    BY <1>1, <1>2, <2>2 DEF RequestsTyped
  <2> QED BY <2>1, <2>2
<1>7. IsFiniteSet(DOMAIN queueTx[n] \cup new)
  BY <1>1, <1>2, FS_Union DEF RequestsTyped
<1>8. ASSUME NEW p \in Nodes
      PROVE  /\ DOMAIN queueTx'[p] \subseteq AllTxs
             /\ IsFiniteSet(DOMAIN queueTx'[p])
             /\ queueTx'[p] \in [DOMAIN queueTx'[p] -> Queues]
  <2>1. CASE p = n
    <3>1. queueTx'[n] \in [DOMAIN queueTx'[n] -> Queues]
      BY <1>1, <1>6
    <3>2. DOMAIN queueTx[n] \subseteq AllTxs
      BY <1>2 DEF RequestsTyped
    <3> QED BY <1>1, <1>7, <2>1, <3>1, <3>2
  <2>2. CASE p # n
    BY <1>1, <1>2, <2>2 DEF RequestsTyped
  <2> QED BY <2>1, <2>2
<1>9. RequestsTyped'
  BY <1>1, <1>4, <1>5, <1>8 DEF RequestsTyped
<1>10. BooksTyped'
  BY <1>1 DEF Typed, BooksTyped
<1> QED BY <1>1, <1>9, <1>10 DEF Typed

\* A request read and answered keeps the types.
LEMMA ReqTyped ==
  ASSUME Typed, NEW m \in Nodes, NEW n \in Nodes, HandleReqTransactions(m, n)
  PROVE  Typed' /\ net[m][n] # <<>> /\ Follows(Read(m, n), net')
<1> USE DEF Typed
<1> DEFINE found == Head(net[m][n]).txs \cap mempool[n]
<1>1. /\ net[m][n] # <<>>
      /\ net' = IF found = {} THEN Read(m, n) ELSE Sent(Read(m, n), n, To({m}, Txs(found)))
      /\ UNCHANGED <<known, mempool, queueTx, timeouts, timer, requests, pendingInv,
                     batchEvent, mined>>
  BY DEF HandleReqTransactions, Arrived, batchVars, requestVars
<1>2. Read(m, n) \in Channels
  BY <1>1, ReadProperty
<1>3. found \in SUBSET AllTxs /\ IsFiniteSet(found)
  <2>1. mempool[n] \in SUBSET AllTxs /\ IsFiniteSet(mempool[n])
    BY DEF BooksTyped
  <2> QED BY <2>1, FS_Intersection
<1> HIDE DEF found
<1>4. net' \in Channels /\ Follows(Read(m, n), net')
  <2>1. CASE found = {}
    BY <1>1, <1>2, <2>1, FollowsItself
  <2>2. CASE found # {}
    <3>1. Txs(found) \in Messages /\ Txs(found).type # "INV"
      BY <1>3, <2>2, RequestsAreMessages
    <3> QED BY <1>1, <1>2, <2>2, <3>1, SentOne
  <2> QED BY <2>1, <2>2
<1>5. BooksTyped' /\ RequestsTyped'
  BY <1>1 DEF BooksTyped, RequestsTyped
<1> QED BY <1>1, <1>4, <1>5

\* Transactions read by n, with all that n does about them.
LEMMA TxsShape ==
  ASSUME Typed, NEW m \in Nodes, NEW n \in Nodes, HandleTransactions(m, n)
  PROVE  /\ Typed' /\ net[m][n] # <<>> /\ net' = Read(m, n)
         /\ \A p \in Nodes : /\ known[p] \subseteq known'[p]
                             /\ pendingInv'[p] \ pendingInv[p] \subseteq known'[p] \ known[p]
         /\ \A p \in Nodes : /\ DOMAIN queueTx'[p] \subseteq DOMAIN queueTx[p]
                             /\ \A tx \in DOMAIN queueTx'[p] : queueTx'[p][tx] = queueTx[p][tx]
         /\ UNCHANGED <<timeouts, timer, requests>>
<1> USE DEF Typed
<1> DEFINE txs == Head(net[m][n]).txs
           new == New(n, txs)
<1>1. /\ net[m][n] # <<>> /\ net' = Read(m, n)
      /\ queueTx' = [queueTx EXCEPT ![n] = Without(queueTx[n], txs)]
      /\ known' = [known EXCEPT ![n] = @ \cup new]
      /\ UNCHANGED <<timeouts, timer, requests, mined>>
  BY DEF HandleTransactions, Arrived
<1>2. PICK taken \in SUBSET new :
        /\ Cardinality(taken) = IF Cardinality(new) <= RoomIn(n) THEN Cardinality(new)
                                ELSE RoomIn(n)
        /\ mempool' = [mempool EXCEPT ![n] = @ \cup taken]
        /\ ScheduleBatch(n, taken, {m})
  BY DEF HandleTransactions
<1>3. Head(net[m][n]) \in Messages /\ Read(m, n) \in Channels
  BY <1>1, ReadProperty
<1>4. new \in SUBSET AllTxs /\ IsFiniteSet(new)
  <2>1. txs \in SUBSET AllTxs /\ IsFiniteSet(txs)
    BY <1>3 DEF Messages, TxMessages
  <2> QED BY <2>1, FS_Difference DEF New
<1>5. new \cap known[n] = {}
  BY DEF New
<1> HIDE DEF new, txs
<1>6. taken \in SUBSET AllTxs /\ IsFiniteSet(taken)
  BY <1>4, FS_Subset
<1>7. Cardinality(taken) <= RoomIn(n)
  <2>1. Cardinality(new) \in Nat /\ RoomIn(n) \in Int
    BY <1>4, FS_CardinalityType, TxConstants DEF BooksTyped, RoomIn
  <2> QED BY <1>2, <2>1
<1>8. /\ mempool' \in [Nodes -> SUBSET AllTxs]
      /\ \A p \in Nodes : /\ mempool'[p] = mempool[p] \cup (IF p = n THEN taken ELSE {})
                          /\ IsFiniteSet(mempool'[p])
                          /\ Cardinality(mempool'[p]) <= MempoolSize
  BY <1>2, <1>6, <1>7, RoomForMore
<1>9. /\ pendingInv' \in [Nodes -> SUBSET AllTxs]
      /\ \A p \in Nodes : /\ IsFiniteSet(pendingInv'[p])
                          /\ pendingInv'[p] = pendingInv[p] \cup (IF p = n THEN taken ELSE {})
      /\ batchEvent' \in [Nodes -> [pending : BOOLEAN, exclude : SUBSET Nodes]]
  BY <1>2, <1>6, Scheduled
<1>10. /\ known' \in [Nodes -> SUBSET AllTxs]
       /\ \A p \in Nodes : known'[p] = known[p] \cup (IF p = n THEN new ELSE {})
  BY <1>1, <1>4 DEF BooksTyped
<1>11. BooksTyped'
  <2>1. \A p \in Nodes : mempool[p] \subseteq known[p] /\ pendingInv[p] \subseteq known[p]
    BY DEF BooksTyped
  <2>2. \A p \in Nodes : mempool'[p] \subseteq known'[p] /\ pendingInv'[p] \subseteq known'[p]
    BY <1>8, <1>9, <1>10, <2>1
  <2>3. mined' \in Seq(SUBSET AllTxs)
    BY <1>1 DEF BooksTyped
  <2> QED BY <1>8, <1>9, <1>10, <2>2, <2>3 DEF BooksTyped
<1>12. /\ DOMAIN queueTx' = Nodes
       /\ queueTx'[n] = [tx \in DOMAIN queueTx[n] \ txs |-> queueTx[n][tx]]
       /\ \A p \in Nodes \ {n} : queueTx'[p] = queueTx[p]
  BY <1>1 DEF RequestsTyped, Without
<1>13. ASSUME NEW p \in Nodes
       PROVE  /\ DOMAIN queueTx'[p] \subseteq DOMAIN queueTx[p]
              /\ \A tx \in DOMAIN queueTx'[p] : queueTx'[p][tx] = queueTx[p][tx]
              /\ queueTx'[p] \in [DOMAIN queueTx'[p] -> Queues]
  <2>1. CASE p = n
    BY <1>12, <2>1 DEF RequestsTyped
  <2>2. CASE p # n
    BY <1>12, <2>2 DEF RequestsTyped
  <2> QED BY <2>1, <2>2
<1>14. \A p \in Nodes : IsFiniteSet(DOMAIN queueTx'[p]) /\ DOMAIN queueTx'[p] \subseteq AllTxs
  BY <1>13, FS_Subset DEF RequestsTyped
<1>15. RequestsTyped'
  BY <1>1, <1>12, <1>13, <1>14 DEF RequestsTyped
<1>16. \A p \in Nodes : /\ known[p] \subseteq known'[p]
                        /\ pendingInv'[p] \ pendingInv[p] \subseteq known'[p] \ known[p]
  BY <1>2, <1>5, <1>9, <1>10
<1> QED BY <1>1, <1>3, <1>11, <1>13, <1>15, <1>16

\* The announcers left of a request that timed out, the i-th of them asked.
Rotated(s, i) == [Tail(s) EXCEPT ![1] = Tail(s)[i], ![i] = Tail(s)[1]]

\* What the first k deadlines of the FIFO of n do.
Due(n, k) == UNION {Live(n, timeouts[n][i]) : i \in 1..k}
Retried(n, k) == {tx \in Due(n, k) : Tail(queueTx[n][tx].announcers) # <<>>}

\* Rotating keeps what the announcers left are.
LEMMA RotatedProperty ==
  ASSUME NEW s \in Seq(Nodes), Tail(s) # <<>>, s # <<>>, NEW i \in 1..Len(Tail(s))
  PROVE  /\ Rotated(s, i) \in Seq(Nodes) \ {<<>>}
         /\ Len(Rotated(s, i)) = Len(s) - 1
         /\ \A j \in 1..Len(Rotated(s, i)) :
              Rotated(s, i)[j] = s[IF j = i THEN 2 ELSE IF j = 1 THEN i + 1 ELSE j + 1]
<1> DEFINE r == Tail(s)
<1>1. /\ r \in Seq(Nodes) /\ Len(r) = Len(s) - 1 /\ Len(r) \in Nat \ {0} /\ Len(s) \in Nat
      /\ \A j \in 1..Len(r) : r[j] = s[j + 1]
  OBVIOUS
<1> HIDE DEF r
<1>2. 1 \in 1..Len(r) /\ i \in 1..Len(r) /\ r[1] \in Nodes /\ r[i] \in Nodes
  <2>1. 1 \in 1..Len(r) /\ i \in 1..Len(r)
    BY <1>1 DEF r
  <2> QED BY <1>1, <2>1, ElementOfSeq
<1> DEFINE u == [r EXCEPT ![1] = r[i]]
<1>3. Rotated(s, i) = [u EXCEPT ![i] = r[1]]
  BY DEF Rotated, r
<1>4. /\ u \in Seq(Nodes) /\ Len(u) = Len(r)
      /\ \A j \in 1..Len(r) : u[j] = IF j = 1 THEN r[i] ELSE r[j]
  BY <1>1, <1>2, ExceptSeq
<1> HIDE DEF u
<1>5. /\ Rotated(s, i) \in Seq(Nodes) /\ Len(Rotated(s, i)) = Len(r)
      /\ \A j \in 1..Len(r) :
           Rotated(s, i)[j] = IF j = i THEN r[1] ELSE IF j = 1 THEN r[i] ELSE r[j]
  <2>1. i \in 1..Len(u)
    BY <1>2, <1>4
  <2> QED BY <1>2, <1>3, <1>4, <2>1, ExceptSeq
<1>6. Len(<<>>) = 0
  OBVIOUS
<1>7. Rotated(s, i) # <<>>
  BY <1>1, <1>5, <1>6
<1>8. ASSUME NEW j \in 1..Len(Rotated(s, i))
      PROVE  Rotated(s, i)[j] = s[IF j = i THEN 2 ELSE IF j = 1 THEN i + 1 ELSE j + 1]
  BY <1>1, <1>2, <1>5
<1> QED BY <1>1, <1>5, <1>7, <1>8

\* Requests sent after a timeout, in any order.
LEMMA RetriesAreQuiet ==
  ASSUME NEW txs \in SUBSET AllTxs, NEW s \in SetToSeqs({Req({tx}) : tx \in txs}), IsFiniteSet(txs)
  PROVE  Quiet(s)
<1> DEFINE R == {Req({tx}) : tx \in txs}
<1>1. \A tx \in txs : Req({tx}) \in Messages /\ Req({tx}).type # "INV"
  <2> TAKE tx \in txs
  <2>1. {tx} \in SUBSET AllTxs /\ {tx} # {} /\ IsFiniteSet({tx})
    BY FS_Singleton
  <2> QED BY <2>1, RequestsAreMessages
<1>2. IsFiniteSet(R)
  <2> DEFINE f == [tx \in txs |-> Req({tx})]
  <2>1. f \in Surjection(txs, R)
    BY DEF Surjection
  <2> QED BY <2>1, FS_Surjection
<1>3. \A msg \in R : msg \in Messages /\ msg.type # "INV"
  BY <1>1
<1> HIDE DEF R
<1>4. Cardinality(R) \in Nat
  BY <1>2, FS_CardinalityType
<1>5. s \in [1..Cardinality(R) -> R]
  BY DEF SetToSeqs, R
<1>6. s \in Seq(Messages) /\ Len(s) = Cardinality(R)
  <2>1. s \in Seq(R)
    BY <1>4, <1>5
  <2>2. s \in [1..Cardinality(R) -> Messages]
    BY <1>3, <1>5
  <2>3. s \in Seq(Messages)
    BY <1>4, <2>2
  <2>4. Len(s) \in Nat /\ DOMAIN s = 1..Len(s) /\ DOMAIN s = 1..Cardinality(R)
    BY <1>5, <2>1
  <2> QED BY <1>4, <2>3, <2>4
<1> QED BY <1>3, <1>5, <1>6 DEF Quiet

\* Requests that time out are in flight.
LEMMA DueInFlight ==
  ASSUME Typed, NEW n \in Nodes, NEW k
  PROVE  /\ Due(n, k) \subseteq DOMAIN queueTx[n]
         /\ Retried(n, k) \in SUBSET AllTxs /\ IsFiniteSet(Retried(n, k))
<1>1. Due(n, k) \subseteq DOMAIN queueTx[n]
  BY DEF Due, Live
<1>2. Retried(n, k) \subseteq DOMAIN queueTx[n]
  BY <1>1 DEF Retried
<1> QED BY <1>1, <1>2, FS_Subset DEF Typed, RequestsTyped

\* A timeout of n, with all that n does about it.
LEMMA TimeoutShape ==
  ASSUME Typed, NEW n \in Nodes, ProcessTxTimeouts(n)
  PROVE  \E k \in 1..Len(timeouts[n]) :
         /\ net' \in Channels /\ Follows(net, net')
         /\ DOMAIN queueTx' = Nodes /\ \A p \in Nodes \ {n} : queueTx'[p] = queueTx[p]
         /\ DOMAIN queueTx'[n] = DOMAIN queueTx[n] \ (Due(n, k) \ Retried(n, k))
         /\ \A tx \in DOMAIN queueTx'[n] \ Retried(n, k) : queueTx'[n][tx] = queueTx[n][tx]
         /\ \A tx \in Retried(n, k) : \E i \in 1..Len(Tail(queueTx[n][tx].announcers)) :
              queueTx'[n][tx] = [announcers |-> Rotated(queueTx[n][tx].announcers, i),
                                 deadline   |-> requests[n]]
         /\ queueTx'[n] = [tx \in DOMAIN queueTx'[n] |-> queueTx'[n][tx]]
         /\ Queued(n, SubSeq(timeouts[n], k + 1, Len(timeouts[n])), Retried(n, k))
         /\ ArmTxTimeoutTimer(n)
         /\ UNCHANGED <<known, mempool, pendingInv, batchEvent, mined>>
<1> DEFINE rest(tx) == Tail(queueTx[n][tx].announcers)
<1>1. PICK k \in 1..Len(timeouts[n]) :
        /\ \E pick \in [Retried(n, k) -> 1..Cardinality(Nodes)] :
             /\ \A tx \in Retried(n, k) : pick[tx] \in 1..Len(rest(tx))
             /\ queueTx' = [queueTx EXCEPT ![n] =
                  [tx \in DOMAIN queueTx[n] \ (Due(n, k) \ Retried(n, k)) |->
                     IF tx \in Retried(n, k)
                       THEN [ announcers |-> Rotated(queueTx[n][tx].announcers, pick[tx]),
                              deadline   |-> requests[n] ]
                       ELSE queueTx[n][tx]]]
             /\ \E out \in [Nodes -> SetToAllKPermutations({Req({tx}) : tx \in Retried(n, k)})] :
                  /\ \A p \in Nodes : \E asked \in SUBSET Retried(n, k) :
                       out[p] \in SetToSeqs({Req({tx}) : tx \in asked})
                  /\ net' = Sent(net, n, out)
        /\ Queued(n, SubSeq(timeouts[n], k + 1, Len(timeouts[n])), Retried(n, k))
        /\ ArmTxTimeoutTimer(n)
        /\ UNCHANGED <<known, mempool, batchVars, mined, leftOut>>
  BY DEF ProcessTxTimeouts, Rotated, Due, Retried
<1>2. PICK pick \in [Retried(n, k) -> 1..Cardinality(Nodes)] :
        /\ \A tx \in Retried(n, k) : pick[tx] \in 1..Len(rest(tx))
        /\ queueTx' = [queueTx EXCEPT ![n] =
             [tx \in DOMAIN queueTx[n] \ (Due(n, k) \ Retried(n, k)) |->
                IF tx \in Retried(n, k)
                  THEN [ announcers |-> Rotated(queueTx[n][tx].announcers, pick[tx]),
                         deadline   |-> requests[n] ]
                  ELSE queueTx[n][tx]]]
        /\ \E out \in [Nodes -> SetToAllKPermutations({Req({tx}) : tx \in Retried(n, k)})] :
             /\ \A p \in Nodes : \E asked \in SUBSET Retried(n, k) :
                  out[p] \in SetToSeqs({Req({tx}) : tx \in asked})
             /\ net' = Sent(net, n, out)
  BY <1>1
<1>3. PICK out \in [Nodes -> SetToAllKPermutations({Req({tx}) : tx \in Retried(n, k)})] :
        /\ \A p \in Nodes : \E asked \in SUBSET Retried(n, k) :
             out[p] \in SetToSeqs({Req({tx}) : tx \in asked})
        /\ net' = Sent(net, n, out)
  BY <1>2
<1>4. /\ Due(n, k) \subseteq DOMAIN queueTx[n]
      /\ Retried(n, k) \in SUBSET AllTxs /\ IsFiniteSet(Retried(n, k))
      /\ Retried(n, k) \subseteq Due(n, k)
  BY DueInFlight DEF Retried
<1>5. \A p \in Nodes : Quiet(out[p])
  <2> TAKE p \in Nodes
  <2>1. PICK asked \in SUBSET Retried(n, k) : out[p] \in SetToSeqs({Req({tx}) : tx \in asked})
    BY <1>3
  <2>2. asked \in SUBSET AllTxs /\ IsFiniteSet(asked)
    BY <1>4, FS_Subset
  <2> QED BY <2>1, <2>2, RetriesAreQuiet
<1>6. out \in [Nodes -> Seq(Messages)]
  <2>1. \A p \in Nodes : out[p] \in Seq(Messages)
    BY <1>5 DEF Quiet
  <2> QED BY <1>3, <2>1
<1>7. net' \in Channels /\ Follows(net, net')
  <2>1. net \in Channels
    BY DEF Typed
  <2> QED BY <1>3, <1>5, <1>6, <2>1, SentQuietly
<1>8. /\ DOMAIN queueTx' = Nodes /\ \A p \in Nodes \ {n} : queueTx'[p] = queueTx[p]
      /\ queueTx'[n] = [tx \in DOMAIN queueTx[n] \ (Due(n, k) \ Retried(n, k)) |->
                          IF tx \in Retried(n, k)
                            THEN [ announcers |-> Rotated(queueTx[n][tx].announcers, pick[tx]),
                                   deadline   |-> requests[n] ]
                            ELSE queueTx[n][tx]]
  BY <1>2 DEF Typed, RequestsTyped
<1>9. /\ DOMAIN queueTx'[n] = DOMAIN queueTx[n] \ (Due(n, k) \ Retried(n, k))
      /\ queueTx'[n] = [tx \in DOMAIN queueTx'[n] |-> queueTx'[n][tx]]
      /\ \A tx \in DOMAIN queueTx'[n] \ Retried(n, k) : queueTx'[n][tx] = queueTx[n][tx]
  BY <1>8
<1>10. ASSUME NEW tx \in Retried(n, k)
       PROVE  \E i \in 1..Len(Tail(queueTx[n][tx].announcers)) :
                queueTx'[n][tx] = [announcers |-> Rotated(queueTx[n][tx].announcers, i),
                                   deadline   |-> requests[n]]
  <2>1. queueTx'[n][tx] = [announcers |-> Rotated(queueTx[n][tx].announcers, pick[tx]),
                           deadline   |-> requests[n]]
    BY <1>4, <1>8
  <2>2. pick[tx] \in 1..Len(Tail(queueTx[n][tx].announcers))
    BY <1>2
  <2> QED BY <2>1, <2>2
<1>11. UNCHANGED <<known, mempool, pendingInv, batchEvent, mined>>
  BY <1>1 DEF batchVars
<1> WITNESS k \in 1..Len(timeouts[n])
<1> QED BY <1>1, <1>7, <1>8, <1>9, <1>10, <1>11

\* A timeout keeps the types.
LEMMA TimeoutTyped ==
  ASSUME Typed, NEW n \in Nodes, ProcessTxTimeouts(n)
  PROVE  Typed'
<1>1. PICK k \in 1..Len(timeouts[n]) :
         /\ net' \in Channels
         /\ DOMAIN queueTx' = Nodes /\ \A p \in Nodes \ {n} : queueTx'[p] = queueTx[p]
         /\ DOMAIN queueTx'[n] = DOMAIN queueTx[n] \ (Due(n, k) \ Retried(n, k))
         /\ \A tx \in DOMAIN queueTx'[n] \ Retried(n, k) : queueTx'[n][tx] = queueTx[n][tx]
         /\ \A tx \in Retried(n, k) : \E i \in 1..Len(Tail(queueTx[n][tx].announcers)) :
              queueTx'[n][tx] = [announcers |-> Rotated(queueTx[n][tx].announcers, i),
                                 deadline   |-> requests[n]]
         /\ queueTx'[n] = [tx \in DOMAIN queueTx'[n] |-> queueTx'[n][tx]]
         /\ Queued(n, SubSeq(timeouts[n], k + 1, Len(timeouts[n])), Retried(n, k))
         /\ ArmTxTimeoutTimer(n)
         /\ UNCHANGED <<known, mempool, pendingInv, batchEvent, mined>>
  BY TimeoutShape
<1>2. RequestsTyped
  BY DEF Typed
<1>3. Retried(n, k) \in SUBSET AllTxs /\ Due(n, k) \subseteq DOMAIN queueTx[n]
  BY DueInFlight
<1>4. timeouts' \in [Nodes -> Seq(Deadlines)] /\ requests' \in [Nodes -> Nat]
  <2>1. timeouts[n] \in Seq(Deadlines)
    BY <1>2 DEF RequestsTyped
  <2>2. SubSeq(timeouts[n], k + 1, Len(timeouts[n])) \in Seq(Deadlines)
    BY <2>1
  <2> QED BY <1>1, <1>2, <1>3, <2>2, QueuedProperty
<1>5. timer' \in [Nodes -> BOOLEAN]
  BY <1>1, <1>2 DEF RequestsTyped, ArmTxTimeoutTimer
<1>6. ASSUME NEW tx \in DOMAIN queueTx'[n] PROVE queueTx'[n][tx] \in Queues
  <2>1. queueTx[n][tx] \in Queues /\ requests[n] \in Nat
    BY <1>1, <1>2 DEF RequestsTyped
  <2>2. CASE tx \in Retried(n, k)
    <3>1. PICK i \in 1..Len(Tail(queueTx[n][tx].announcers)) :
            queueTx'[n][tx] = [announcers |-> Rotated(queueTx[n][tx].announcers, i),
                               deadline   |-> requests[n]]
      BY <1>1, <2>2
    <3>2. /\ queueTx[n][tx].announcers \in Seq(Nodes) /\ queueTx[n][tx].announcers # <<>>
          /\ Tail(queueTx[n][tx].announcers) # <<>>
      BY <2>1, <2>2 DEF Queues, Retried
    <3>3. Rotated(queueTx[n][tx].announcers, i) \in Seq(Nodes) \ {<<>>}
      BY <3>2, RotatedProperty
    <3> QED BY <2>1, <3>1, <3>3 DEF Queues
  <2>3. CASE tx \notin Retried(n, k)
    BY <1>1, <2>1, <2>3
  <2> QED BY <2>2, <2>3
<1>7. IsFiniteSet(DOMAIN queueTx'[n])
  BY <1>1, <1>2, FS_Subset DEF RequestsTyped
<1>8. ASSUME NEW p \in Nodes
      PROVE  /\ DOMAIN queueTx'[p] \subseteq AllTxs
             /\ IsFiniteSet(DOMAIN queueTx'[p])
             /\ queueTx'[p] \in [DOMAIN queueTx'[p] -> Queues]
  <2>1. CASE p = n
    <3>1. queueTx'[n] \in [DOMAIN queueTx'[n] -> Queues]
      BY <1>1, <1>6
    <3>2. DOMAIN queueTx[n] \subseteq AllTxs
      BY <1>2 DEF RequestsTyped
    <3> QED BY <1>1, <1>7, <2>1, <3>1, <3>2
  <2>2. CASE p # n
    BY <1>1, <1>2, <2>2 DEF RequestsTyped
  <2> QED BY <2>1, <2>2
<1>9. RequestsTyped'
  BY <1>1, <1>4, <1>5, <1>8 DEF RequestsTyped
<1>10. BooksTyped'
  BY <1>1 DEF Typed, BooksTyped
<1> QED BY <1>1, <1>9, <1>10 DEF Typed

\* Mempools that have lost transactions.
LEMMA FewerInMempool ==
  ASSUME BooksTyped, NEW n \in Nodes, NEW S, mempool' = [mempool EXCEPT ![n] = @ \ S]
  PROVE  /\ mempool' \in [Nodes -> SUBSET AllTxs]
         /\ \A p \in Nodes : /\ mempool'[p] \subseteq mempool[p] /\ IsFiniteSet(mempool'[p])
                             /\ Cardinality(mempool'[p]) <= MempoolSize
<1>1. mempool \in [Nodes -> SUBSET AllTxs]
  BY DEF BooksTyped
<1>2. \A p \in Nodes : mempool'[p] \subseteq mempool[p]
  BY <1>1
<1>3. ASSUME NEW p \in Nodes
      PROVE  IsFiniteSet(mempool'[p]) /\ Cardinality(mempool'[p]) <= MempoolSize
  <2>1. IsFiniteSet(mempool[p]) /\ Cardinality(mempool[p]) <= MempoolSize
    BY DEF BooksTyped
  <2>2. IsFiniteSet(mempool'[p]) /\ Cardinality(mempool'[p]) <= Cardinality(mempool[p])
    BY <1>2, <2>1, FS_Subset
  <2>3. Cardinality(mempool'[p]) \in Nat /\ Cardinality(mempool[p]) \in Nat
    BY <2>1, <2>2, FS_CardinalityType
  <2> QED BY <2>1, <2>2, <2>3, TxConstants
<1> QED BY <1>1, <1>2, <1>3

\* Mining takes transactions out of the mempool, no more.
LEMMA MineTyped ==
  ASSUME Typed, NEW n \in Nodes, MineTransactions(n)
  PROVE  Typed'
<1> USE DEF Typed
<1>1. PICK txs \in (SUBSET mempool[n]) \ {{}} :
        mined' = Append(mined, txs) /\ mempool' = [mempool EXCEPT ![n] = @ \ txs]
  BY DEF MineTransactions
<1>2. UNCHANGED <<known, queueTx, timeouts, timer, requests, pendingInv, batchEvent, net>>
  BY DEF MineTransactions, requestVars, batchVars
<1>3. /\ mempool' \in [Nodes -> SUBSET AllTxs]
      /\ \A p \in Nodes : /\ mempool'[p] \subseteq mempool[p] /\ IsFiniteSet(mempool'[p])
                          /\ Cardinality(mempool'[p]) <= MempoolSize
  BY <1>1, FewerInMempool
<1>4. mined' \in Seq(SUBSET AllTxs)
  <2>1. txs \in SUBSET AllTxs /\ mined \in Seq(SUBSET AllTxs)
    BY <1>1 DEF BooksTyped
  <2> QED BY <1>1, <2>1
<1>5. BooksTyped'
  BY <1>2, <1>3, <1>4 DEF BooksTyped
<1> QED BY <1>2, <1>5 DEF RequestsTyped

\* So does a block's body, which may make some known.
LEMMA BodyTyped ==
  ASSUME Typed, NEW n \in Nodes, NEW i \in DOMAIN mined, HandleBlockBody(n, i)
  PROVE  Typed' /\ \A p \in Nodes : known[p] \subseteq known'[p]
<1> USE DEF Typed
<1>1. /\ known' = [known EXCEPT ![n] = @ \cup mined[i]]
      /\ UNCHANGED <<queueTx, timeouts, timer, requests, pendingInv, batchEvent, net, mined>>
  BY DEF HandleBlockBody, requestVars, batchVars
<1>2. \E S : mempool' = [mempool EXCEPT ![n] = @ \ S]
  BY DEF HandleBlockBody
<1>3. /\ mempool' \in [Nodes -> SUBSET AllTxs]
      /\ \A p \in Nodes : /\ mempool'[p] \subseteq mempool[p] /\ IsFiniteSet(mempool'[p])
                          /\ Cardinality(mempool'[p]) <= MempoolSize
  BY <1>2, FewerInMempool
<1>4. known' \in [Nodes -> SUBSET AllTxs] /\ \A p \in Nodes : known[p] \subseteq known'[p]
  <2>1. mined[i] \in SUBSET AllTxs
    BY DEF BooksTyped
  <2> QED BY <1>1, <2>1 DEF BooksTyped
<1>5. \A p \in Nodes : mempool'[p] \subseteq known'[p] /\ pendingInv'[p] \subseteq known'[p]
  <2>1. \A p \in Nodes : mempool[p] \subseteq known[p] /\ pendingInv[p] \subseteq known[p]
    BY DEF BooksTyped
  <2> QED BY <1>1, <1>3, <1>4, <2>1
<1>6. BooksTyped'
  BY <1>1, <1>3, <1>4, <1>5 DEF BooksTyped
<1> QED BY <1>1, <1>4, <1>6 DEF RequestsTyped

\* Every handler keeps the types.
LEMMA TypedStep == Typed /\ [TxNext]_txVars => Typed'
<1> SUFFICES ASSUME Typed, [TxNext]_txVars PROVE Typed'
  OBVIOUS
<1>1. ASSUME NEW n \in Nodes, GenerateTransaction(n) PROVE Typed'
  BY <1>1, GenerateTyped
<1>2. ASSUME NEW n \in Nodes, FlushInvBatch(n) PROVE Typed'
  BY <1>2, FlushTyped
<1>3. ASSUME NEW m \in Nodes, NEW n \in Nodes, TxReceive(m, n) PROVE Typed'
  BY <1>3, InvTyped, ReqTyped, TxsShape DEF TxReceive
<1>4. ASSUME NEW n \in Nodes, ProcessTxTimeouts(n) PROVE Typed'
  BY <1>4, TimeoutTyped
<1>5. ASSUME NEW n \in Miners, MineTransactions(n) PROVE Typed'
  BY <1>5, MineTyped, TxConstants
<1>6. ASSUME NEW n \in Nodes, NEW i \in DOMAIN mined, HandleBlockBody(n, i) PROVE Typed'
  BY <1>6, BodyTyped
<1>7. ASSUME UNCHANGED txVars PROVE Typed'
  BY <1>7 DEF txVars, requestVars, batchVars, Typed, BooksTyped, RequestsTyped
<1> QED BY <1>1, <1>2, <1>3, <1>4, <1>5, <1>6, <1>7 DEF TxNext

-----------------------------------------------------------------------------
(* Timers *)

\* Each part of Timers, for one node.
NodeTimers(n) ==
  /\ timer[n] = (timeouts[n] # <<>>)
  /\ \A i \in 1..Len(timeouts[n]) : timeouts[n][i].deadline < requests[n]
  /\ \A i, j \in 1..Len(timeouts[n]) :
       i < j => timeouts[n][i].deadline < timeouts[n][j].deadline
  /\ \A tx \in DOMAIN queueTx[n] :
       \E i \in 1..Len(timeouts[n]) : tx \in Live(n, timeouts[n][i])

\* A node keeps its timers when it forgets requests.
LEMMA ForgettingKeepsTimers ==
  ASSUME NEW n \in Nodes, NodeTimers(n),
         timer'[n] = timer[n], timeouts'[n] = timeouts[n], requests'[n] = requests[n],
         DOMAIN queueTx'[n] \subseteq DOMAIN queueTx[n],
         \A tx \in DOMAIN queueTx'[n] : queueTx'[n][tx] = queueTx[n][tx]
  PROVE  NodeTimers(n)'
<1>1. ASSUME NEW tx \in DOMAIN queueTx'[n]
      PROVE  (\E i \in 1..Len(timeouts[n]) : tx \in Live(n, timeouts[n][i]))'
  <2>1. PICK i \in 1..Len(timeouts[n]) : tx \in Live(n, timeouts[n][i])
    BY DEF NodeTimers
  <2>2. tx \in timeouts'[n][i].txs /\ queueTx'[n][tx].deadline = timeouts'[n][i].deadline
    BY <2>1 DEF Live
  <2>3. i \in 1..Len(timeouts'[n])
    OBVIOUS
  <2> QED BY <2>2, <2>3 DEF Live
<1> QED BY <1>1 DEF NodeTimers

\* A node takes deadlines off its FIFO and puts one behind for its requests;
\* those whose deadline was taken off are made anew or over.
LEMMA RequestingKeepsTimers ==
  ASSUME Typed, NEW n \in Nodes, NodeTimers(n), NEW k \in 0..Len(timeouts[n]),
         NEW txs \in SUBSET AllTxs,
         Queued(n, SubSeq(timeouts[n], k + 1, Len(timeouts[n])), txs),
         timer'[n] = (timeouts'[n] # <<>>),
         \A tx \in txs : queueTx'[n][tx].deadline = requests[n],
         \A tx \in DOMAIN queueTx'[n] \ txs :
           /\ tx \in DOMAIN queueTx[n] /\ tx \notin Due(n, k)
           /\ queueTx'[n][tx].deadline = queueTx[n][tx].deadline
  PROVE  NodeTimers(n)'
<1> DEFINE t == timeouts[n]
           rest == SubSeq(t, k + 1, Len(t))
           u == timeouts'[n]
<1>1. RequestsTyped /\ t \in Seq(Deadlines) /\ requests[n] \in Nat
  BY DEF Typed, RequestsTyped
<1>2. /\ rest \in Seq(Deadlines) /\ Len(rest) = Len(t) - k /\ Len(t) \in Nat
      /\ \A i \in 1..Len(rest) : rest[i] = t[i + k]
  BY <1>1
<1>3. /\ u = IF txs = {} THEN rest ELSE Append(rest, [deadline |-> requests[n], txs |-> txs])
      /\ requests'[n] = IF txs = {} THEN requests[n] ELSE requests[n] + 1
  BY <1>1, <1>2, QueuedProperty
<1>4. /\ \A i \in 1..Len(t) : t[i].deadline < requests[n]
      /\ \A i, j \in 1..Len(t) : i < j => t[i].deadline < t[j].deadline
      /\ \A tx \in DOMAIN queueTx[n] : \E i \in 1..Len(t) : tx \in Live(n, t[i])
  BY DEF NodeTimers
<1> HIDE DEF t, rest, u
<1>5. \A i \in 1..Len(rest) : i + k \in 1..Len(t)
  BY <1>2
<1>6. \A i \in 1..Len(t) : t[i].deadline \in Nat
  <2> TAKE i \in 1..Len(t)
  <2>1. t[i] \in Deadlines
    BY <1>1
  <2> QED BY <2>1 DEF Deadlines
<1>7. /\ \A i \in 1..Len(rest) : u[i] = t[i + k] /\ i \in 1..Len(u)
      /\ \A i \in 1..Len(u) : \/ i \in 1..Len(rest)
                              \/ /\ txs # {} /\ i = Len(rest) + 1
                                 /\ u[i] = [deadline |-> requests[n], txs |-> txs]
      /\ txs # {} => Len(rest) + 1 \in 1..Len(u)
  <2>1. CASE txs = {}
    BY <1>2, <1>3, <2>1
  <2>2. CASE txs # {}
    <3>1. [deadline |-> requests[n], txs |-> txs] \in Deadlines
      BY <1>1 DEF Deadlines
    <3>2. u = Append(rest, [deadline |-> requests[n], txs |-> txs])
      BY <1>3, <2>2
    <3>3. /\ Len(u) = Len(rest) + 1 /\ Len(rest) \in Nat
          /\ \A i \in 1..Len(rest) : u[i] = rest[i]
          /\ u[Len(rest) + 1] = [deadline |-> requests[n], txs |-> txs]
      BY <1>2, <3>1, <3>2
    <3> QED BY <1>2, <2>2, <3>3
  <2> QED BY <2>1, <2>2
<1>8. ASSUME NEW i \in 1..Len(u) PROVE u[i].deadline < requests'[n]
  <2>1. CASE i \in 1..Len(rest)
    <3>1. t[i + k].deadline < requests[n] /\ t[i + k].deadline \in Nat
      BY <1>4, <1>5, <1>6, <2>1
    <3>2. requests[n] <= requests'[n] /\ requests'[n] \in Nat
      BY <1>1, <1>3
    <3> QED BY <1>1, <1>7, <2>1, <3>1, <3>2
  <2>2. CASE i \notin 1..Len(rest)
    BY <1>1, <1>3, <1>7, <2>2
  <2> QED BY <2>1, <2>2
<1>9. ASSUME NEW i \in 1..Len(u), NEW j \in 1..Len(u), i < j
      PROVE  u[i].deadline < u[j].deadline
  <2>1. i \in 1..Len(rest)
    BY <1>2, <1>7, <1>9
  <2>2. u[i] = t[i + k] /\ i + k \in 1..Len(t)
    BY <1>5, <1>7, <2>1
  <2>3. CASE j \in 1..Len(rest)
    <3>1. u[j] = t[j + k] /\ j + k \in 1..Len(t) /\ i + k < j + k
      BY <1>5, <1>7, <1>9, <2>3
    <3> QED BY <1>4, <2>2, <3>1
  <2>4. CASE j \notin 1..Len(rest)
    BY <1>4, <1>7, <2>2, <2>4
  <2> QED BY <2>3, <2>4
<1>10. ASSUME NEW tx \in DOMAIN queueTx'[n]
       PROVE  \E i \in 1..Len(u) : tx \in u[i].txs /\ queueTx'[n][tx].deadline = u[i].deadline
  <2>1. CASE tx \in txs
    <3>1. Len(rest) + 1 \in 1..Len(u) /\ Len(rest) + 1 \notin 1..Len(rest)
      BY <1>2, <1>7, <2>1
    <3>2. u[Len(rest) + 1] = [deadline |-> requests[n], txs |-> txs]
      BY <1>7, <3>1
    <3> QED BY <2>1, <3>1, <3>2
  <2>2. CASE tx \notin txs
    <3>1. PICK i \in 1..Len(t) : tx \in Live(n, t[i])
      BY <1>4, <2>2
    <3>2. ~ (i <= k)
      <4> SUFFICES ASSUME i <= k PROVE FALSE
        OBVIOUS
      <4>1. i \in 1..k
        OBVIOUS
      <4>2. tx \in Due(n, k)
        BY <3>1, <4>1 DEF Due, t
      <4> QED BY <2>2, <4>2
    <3>3. i - k \in 1..Len(rest) /\ (i - k) + k = i
      BY <1>2, <3>2
    <3>4. u[i - k] = t[i] /\ i - k \in 1..Len(u)
      BY <1>7, <3>3
    <3>5. tx \in t[i].txs /\ queueTx[n][tx].deadline = t[i].deadline
      BY <3>1 DEF Live
    <3> QED BY <2>2, <3>4, <3>5
  <2> QED BY <2>1, <2>2
<1>11. (\A tx \in DOMAIN queueTx[n] : \E i \in 1..Len(timeouts[n]) :
         tx \in Live(n, timeouts[n][i]))'
  BY <1>10 DEF u, Live
<1> QED BY <1>8, <1>9, <1>11 DEF NodeTimers, u

\* An announcement read keeps the timers: new requests get the last deadline.
LEMMA InvTimers ==
  ASSUME Typed, Timers, NEW m \in Nodes, NEW n \in Nodes, HandleInvTransactions(m, n)
  PROVE  \A p \in Nodes : NodeTimers(p)'
<1>1. /\ \A p \in Nodes \ {n} : queueTx'[p] = queueTx[p]
      /\ DOMAIN queueTx'[n] = DOMAIN queueTx[n] \cup Announced(m, n)
      /\ \A tx \in DOMAIN queueTx[n] \ Announced(m, n) : queueTx'[n][tx] = queueTx[n][tx]
      /\ \A tx \in Announced(m, n) : queueTx'[n][tx] =
           [announcers |-> Append(Announcers(n, tx), m),
            deadline   |-> IF tx \in Wanted(m, n) THEN requests[n] ELSE queueTx[n][tx].deadline]
      /\ Queued(n, timeouts[n], Wanted(m, n))
      /\ IF Wanted(m, n) = {} THEN UNCHANGED timer ELSE ArmTxTimeoutTimer(n)
      /\ Announced(m, n) \in SUBSET AllTxs
  BY InvShape
<1>2. /\ RequestsTyped /\ timeouts[n] \in Seq(Deadlines) /\ Wanted(m, n) \in SUBSET AllTxs
      /\ \A p \in Nodes : NodeTimers(p)
  BY <1>1 DEF Typed, RequestsTyped, Timers, NodeTimers, Wanted
<1>3. /\ \A p \in Nodes \ {n} : timeouts'[p] = timeouts[p] /\ requests'[p] = requests[p]
      /\ timeouts'[n] = IF Wanted(m, n) = {} THEN timeouts[n]
                        ELSE Append(timeouts[n], [deadline |-> requests[n], txs |-> Wanted(m, n)])
  BY <1>1, <1>2, QueuedProperty
<1>4. /\ \A p \in Nodes \ {n} : timer'[p] = timer[p]
      /\ timer'[n] = (timeouts'[n] # <<>>)
  <2>1. timer \in [Nodes -> BOOLEAN] /\ timer[n] = (timeouts[n] # <<>>)
    BY <1>2 DEF RequestsTyped, NodeTimers
  <2>2. CASE Wanted(m, n) = {}
    BY <1>1, <1>3, <2>1, <2>2
  <2>3. CASE Wanted(m, n) # {}
    BY <1>1, <2>1, <2>3 DEF ArmTxTimeoutTimer
  <2> QED BY <2>2, <2>3
<1>5. NodeTimers(n)'
  <2>1. SubSeq(timeouts[n], 0 + 1, Len(timeouts[n])) = timeouts[n] /\ 0 \in 0..Len(timeouts[n])
    BY <1>2
  <2>2. Due(n, 0) = {}
    BY DEF Due
  <2>3. ASSUME NEW tx \in Announced(m, n)
        PROVE  queueTx'[n][tx].deadline =
                 IF tx \in Wanted(m, n) THEN requests[n] ELSE queueTx[n][tx].deadline
    <3> DEFINE a == Append(Announcers(n, tx), m)
               e == IF tx \in Wanted(m, n) THEN requests[n] ELSE queueTx[n][tx].deadline
    <3>1. queueTx'[n][tx] = [announcers |-> a, deadline |-> e]
      BY <1>1
    <3> HIDE DEF a, e
    <3>2. queueTx'[n][tx].deadline = e
      BY <3>1
    <3> QED BY <3>2 DEF e
  <2>4. ASSUME NEW tx \in DOMAIN queueTx'[n] \ Wanted(m, n)
        PROVE  /\ tx \in DOMAIN queueTx[n] /\ tx \notin Due(n, 0)
               /\ queueTx'[n][tx].deadline = queueTx[n][tx].deadline
    <3>1. tx \in DOMAIN queueTx[n]
      BY <1>1 DEF Wanted
    <3>2. queueTx'[n][tx].deadline = queueTx[n][tx].deadline
      BY <1>1, <2>3, <3>1
    <3> QED BY <2>2, <3>1, <3>2
  <2>5. Queued(n, SubSeq(timeouts[n], 0 + 1, Len(timeouts[n])), Wanted(m, n))
    BY <1>1, <2>1
  <2>6. \A tx \in Wanted(m, n) : queueTx'[n][tx].deadline = requests[n]
    BY <2>3 DEF Wanted
  <2> QED BY <1>2, <1>4, <2>1, <2>4, <2>5, <2>6, RequestingKeepsTimers
<1>6. ASSUME NEW p \in Nodes, p # n PROVE NodeTimers(p)'
  BY <1>1, <1>2, <1>3, <1>4, <1>6, ForgettingKeepsTimers
<1> QED BY <1>5, <1>6

\* A timeout keeps the timers: retries get the last deadline.
LEMMA TimeoutTimers ==
  ASSUME Typed, Timers, NEW n \in Nodes, ProcessTxTimeouts(n)
  PROVE  \A p \in Nodes : NodeTimers(p)'
<1>1. PICK k \in 1..Len(timeouts[n]) :
         /\ \A p \in Nodes \ {n} : queueTx'[p] = queueTx[p]
         /\ DOMAIN queueTx'[n] = DOMAIN queueTx[n] \ (Due(n, k) \ Retried(n, k))
         /\ \A tx \in DOMAIN queueTx'[n] \ Retried(n, k) : queueTx'[n][tx] = queueTx[n][tx]
         /\ \A tx \in Retried(n, k) : \E i \in 1..Len(Tail(queueTx[n][tx].announcers)) :
              queueTx'[n][tx] = [announcers |-> Rotated(queueTx[n][tx].announcers, i),
                                 deadline   |-> requests[n]]
         /\ Queued(n, SubSeq(timeouts[n], k + 1, Len(timeouts[n])), Retried(n, k))
         /\ ArmTxTimeoutTimer(n)
  BY TimeoutShape
<1>2. /\ RequestsTyped /\ timeouts[n] \in Seq(Deadlines) /\ Retried(n, k) \in SUBSET AllTxs
      /\ \A p \in Nodes : NodeTimers(p)
  BY DueInFlight DEF Typed, RequestsTyped, Timers, NodeTimers
<1>3. \A p \in Nodes \ {n} : timeouts'[p] = timeouts[p] /\ requests'[p] = requests[p]
  <2>1. SubSeq(timeouts[n], k + 1, Len(timeouts[n])) \in Seq(Deadlines)
    BY <1>2
  <2> QED BY <1>1, <1>2, <2>1, QueuedProperty
<1>4. /\ \A p \in Nodes \ {n} : timer'[p] = timer[p]
      /\ timer'[n] = (timeouts'[n] # <<>>)
  BY <1>1, <1>2 DEF RequestsTyped, ArmTxTimeoutTimer
<1>5. NodeTimers(n)'
  <2>1. k \in 0..Len(timeouts[n])
    OBVIOUS
  <2>2. ASSUME NEW tx \in Retried(n, k) PROVE queueTx'[n][tx].deadline = requests[n]
    <3>1. PICK i \in 1..Len(Tail(queueTx[n][tx].announcers)) :
            queueTx'[n][tx] = [announcers |-> Rotated(queueTx[n][tx].announcers, i),
                               deadline   |-> requests[n]]
      BY <1>1
    <3> DEFINE a == Rotated(queueTx[n][tx].announcers, i)
    <3>2. queueTx'[n][tx] = [announcers |-> a, deadline |-> requests[n]]
      BY <3>1
    <3> HIDE DEF a
    <3> QED BY <3>2
  <2>3. \A tx \in DOMAIN queueTx'[n] \ Retried(n, k) :
          /\ tx \in DOMAIN queueTx[n] /\ tx \notin Due(n, k)
          /\ queueTx'[n][tx].deadline = queueTx[n][tx].deadline
    BY <1>1
  <2> QED BY <1>1, <1>2, <1>4, <2>1, <2>2, <2>3, RequestingKeepsTimers
<1>6. ASSUME NEW p \in Nodes, p # n PROVE NodeTimers(p)'
  BY <1>1, <1>2, <1>3, <1>4, <1>6, ForgettingKeepsTimers
<1> QED BY <1>5, <1>6

\* Every handler keeps the timers.
LEMMA TimersStep == Typed /\ Timers /\ [TxNext]_txVars => Timers'
<1> SUFFICES ASSUME Typed, Timers, [TxNext]_txVars PROVE \A p \in Nodes : NodeTimers(p)'
  BY DEF Timers, NodeTimers
<1>1. ASSUME UNCHANGED requestVars PROVE \A p \in Nodes : NodeTimers(p)'
  <2>1. \A p \in Nodes : NodeTimers(p)
    BY DEF Timers, NodeTimers
  <2> QED BY <1>1, <2>1, ForgettingKeepsTimers DEF requestVars
<1>2. ASSUME NEW m \in Nodes, NEW n \in Nodes, HandleTransactions(m, n)
      PROVE  \A p \in Nodes : NodeTimers(p)'
  <2>1. \A p \in Nodes : NodeTimers(p)
    BY DEF Timers, NodeTimers
  <2> QED BY <1>2, <2>1, TxsShape, ForgettingKeepsTimers
<1>3. ASSUME NEW m \in Nodes, NEW n \in Nodes, HandleInvTransactions(m, n)
      PROVE  \A p \in Nodes : NodeTimers(p)'
  BY <1>3, InvTimers
<1>4. ASSUME NEW n \in Nodes, ProcessTxTimeouts(n) PROVE \A p \in Nodes : NodeTimers(p)'
  BY <1>4, TimeoutTimers
<1>5. ASSUME NEW n \in Nodes, GenerateTransaction(n) \/ FlushInvBatch(n) \/ MineTransactions(n)
      PROVE  UNCHANGED requestVars
  BY <1>5 DEF GenerateTransaction, FlushInvBatch, MineTransactions
<1>6. ASSUME NEW m, NEW n, HandleReqTransactions(m, n) PROVE UNCHANGED requestVars
  BY <1>6 DEF HandleReqTransactions
<1>7. ASSUME NEW n, NEW i, HandleBlockBody(n, i) PROVE UNCHANGED requestVars
  BY <1>7 DEF HandleBlockBody
<1>8. UNCHANGED txVars => UNCHANGED requestVars
  BY DEF txVars
<1> QED BY <1>1, <1>2, <1>3, <1>4, <1>5, <1>6, <1>7, <1>8, TxConstants DEF TxNext, TxReceive

-----------------------------------------------------------------------------
(* Announcements *)

\* T has elements only if S has, and is single if S is.
Fewer(S, T) == (S = {} => T = {}) /\ (Single(S) => Single(T))

\* No more announcements are under way than before; no more are booked.
FewerInvs == \A m, n \in Nodes, tx \in AllTxs : Fewer(Invs(net[m][n], tx), Invs(net'[m][n], tx))

FewerBooked == \A m, n \in Nodes, tx \in AllTxs : Fewer(Booked(m, n, tx), Booked(m, n, tx)')

\* What a node may announce it may have announced before.
FewerToAnnounce == \A m \in Nodes, tx \in AllTxs : ToAnnounce(m, tx)' => ToAnnounce(m, tx)

\* Announcements stay single where there are no more of them.
LEMMA SinglyKept == Singly /\ FewerInvs /\ FewerBooked /\ FewerToAnnounce => Singly'
BY DEF Singly, FewerInvs, FewerBooked, FewerToAnnounce, Fewer

\* What becomes pending becomes known.
LEMMA KnownFirst ==
  ASSUME \A p \in Nodes : /\ known[p] \subseteq known'[p]
                          /\ pendingInv'[p] \ pendingInv[p] \subseteq known'[p] \ known[p]
  PROVE  FewerToAnnounce
BY DEF FewerToAnnounce, ToAnnounce

\* Nothing is announced in requests and answers.
LEMMA QuietInvs ==
  ASSUME NEW s \in Seq(Messages), NEW t, Quiet(t), NEW tx
  PROVE  Invs(s \o t, tx) = Invs(s, tx)
<1>1. t \in Seq(Messages) /\ Invs(t, tx) = {}
  BY DEF Quiet, Invs
<1> QED BY <1>1, InvsAppended

\* n sends requests or answers, or nothing.
LEMMA FollowingInvs ==
  ASSUME net \in Channels, Follows(net, net')
  PROVE  FewerInvs
<1> SUFFICES ASSUME NEW p \in Nodes, NEW q \in Nodes, NEW tx \in AllTxs
             PROVE  Fewer(Invs(net[p][q], tx), Invs(net'[p][q], tx))
  BY DEF FewerInvs
<1>1. PICK t : Quiet(t) /\ net'[p][q] = net[p][q] \o t
  BY DEF Follows
<1>2. net[p][q] \in Seq(Messages)
  BY DEF Channels
<1>3. Invs(net'[p][q], tx) = Invs(net[p][q], tx)
  BY <1>1, <1>2, QuietInvs
<1> QED BY <1>3 DEF Fewer

\* n reads a message and sends requests or answers, or nothing.
LEMMA ReadingInvs ==
  ASSUME net \in Channels, NEW m \in Nodes, NEW n \in Nodes, net[m][n] # <<>>,
         Follows(Read(m, n), net')
  PROVE  /\ \A p, q \in Nodes : (p # m \/ q # n) =>
              \A tx \in AllTxs : Invs(net'[p][q], tx) = Invs(net[p][q], tx)
         /\ \A tx \in AllTxs : Invs(net'[m][n], tx) = Invs(Tail(net[m][n]), tx)
         /\ FewerInvs
<1>1. /\ Read(m, n) \in Channels
      /\ \A p, q \in Nodes :
           Read(m, n)[p][q] = IF p = m /\ q = n THEN Tail(net[p][q]) ELSE net[p][q]
  BY ReadProperty
<1>2. ASSUME NEW p \in Nodes, NEW q \in Nodes, NEW tx \in AllTxs
      PROVE  Invs(net'[p][q], tx) = Invs(Read(m, n)[p][q], tx)
  <2>1. PICK t : Quiet(t) /\ net'[p][q] = Read(m, n)[p][q] \o t
    BY DEF Follows
  <2>2. Read(m, n)[p][q] \in Seq(Messages)
    BY <1>1 DEF Channels
  <2> QED BY <2>1, <2>2, QuietInvs
<1>3. \A p, q \in Nodes : (p # m \/ q # n) =>
        \A tx \in AllTxs : Invs(net'[p][q], tx) = Invs(net[p][q], tx)
  BY <1>1, <1>2
<1>4. \A tx \in AllTxs : Invs(net'[m][n], tx) = Invs(Tail(net[m][n]), tx)
  BY <1>1, <1>2
<1>5. ASSUME NEW p \in Nodes, NEW q \in Nodes, NEW tx \in AllTxs
      PROVE  Fewer(Invs(net[p][q], tx), Invs(net'[p][q], tx))
  <2>1. CASE p # m \/ q # n
    BY <1>3, <2>1 DEF Fewer
  <2>2. CASE p = m /\ q = n
    <3>1. net[m][n] \in Seq(Messages)
      BY DEF Channels
    <3>2. /\ \A i \in Invs(Tail(net[m][n]), tx) : i + 1 \in Invs(net[m][n], tx)
          /\ Single(Invs(net[m][n], tx)) => Single(Invs(Tail(net[m][n]), tx))
      BY <3>1, InvsRead
    <3> QED BY <1>4, <2>2, <3>2 DEF Fewer
  <2> QED BY <2>1, <2>2
<1>6. FewerInvs
  BY <1>5 DEF FewerInvs
<1> QED BY <1>3, <1>4, <1>6

\* Requests stay as they are or are over.
LEMMA ForgettingBooked ==
  ASSUME \A p \in Nodes : /\ DOMAIN queueTx'[p] \subseteq DOMAIN queueTx[p]
                          /\ \A tx \in DOMAIN queueTx'[p] : queueTx'[p][tx] = queueTx[p][tx]
  PROVE  FewerBooked
<1> SUFFICES ASSUME NEW m \in Nodes, NEW n \in Nodes, NEW tx \in AllTxs
             PROVE  Fewer(Booked(m, n, tx), Booked(m, n, tx)')
  BY DEF FewerBooked
<1>1. CASE tx \in DOMAIN queueTx'[n]
  <2>1. Announcers(n, tx)' = Announcers(n, tx)
    BY <1>1 DEF Announcers
  <2> QED BY <2>1 DEF Booked, Fewer
<1>2. CASE tx \notin DOMAIN queueTx'[n]
  <2>1. Announcers(n, tx)' = <<>>
    BY <1>2 DEF Announcers
  <2>2. Booked(m, n, tx)' = {}
    BY <2>1 DEF Booked
  <2> QED BY <2>2 DEF Fewer, Single
<1> QED BY <1>1, <1>2

\* An announcer dropped and another one asked.
LEMMA RotatingBooked ==
  ASSUME NEW s \in Seq(Nodes), Tail(s) # <<>>, s # <<>>, NEW i \in 1..Len(Tail(s)), NEW m
  PROVE  Fewer({j \in 1..Len(s) : s[j] = m},
               {j \in 1..Len(Rotated(s, i)) : Rotated(s, i)[j] = m})
<1> DEFINE r == Rotated(s, i)
           from(j) == IF j = i THEN 2 ELSE IF j = 1 THEN i + 1 ELSE j + 1
           S == {j \in 1..Len(s) : s[j] = m}
           T == {j \in 1..Len(r) : r[j] = m}
<1>1. /\ Len(r) = Len(s) - 1 /\ \A j \in 1..Len(r) : r[j] = s[from(j)]
      /\ Len(Tail(s)) = Len(s) - 1 /\ Len(s) \in Nat
  BY RotatedProperty
<1> HIDE DEF r
<1>2. \A j \in 1..Len(r) : from(j) \in 1..Len(s)
  BY <1>1
<1>3. \A j, k \in 1..Len(r) : from(j) = from(k) => j = k
  BY <1>1
<1> HIDE DEF from
<1>4. \A j \in T : from(j) \in S /\ j \in 1..Len(r)
  BY <1>1, <1>2
<1> HIDE DEF S, T
<1>5. Fewer(S, T)
  BY <1>3, <1>4 DEF Fewer, Single
<1> QED BY <1>5 DEF S, T, r

\* A timeout books nobody: it drops announcers and rotates the others.
LEMMA TimeoutBooked ==
  ASSUME Typed, NEW n \in Nodes, ProcessTxTimeouts(n)
  PROVE  FewerBooked
<1>1. PICK k \in 1..Len(timeouts[n]) :
         /\ \A p \in Nodes \ {n} : queueTx'[p] = queueTx[p]
         /\ DOMAIN queueTx'[n] = DOMAIN queueTx[n] \ (Due(n, k) \ Retried(n, k))
         /\ \A tx \in DOMAIN queueTx'[n] \ Retried(n, k) : queueTx'[n][tx] = queueTx[n][tx]
         /\ \A tx \in Retried(n, k) : \E i \in 1..Len(Tail(queueTx[n][tx].announcers)) :
              queueTx'[n][tx] = [announcers |-> Rotated(queueTx[n][tx].announcers, i),
                                 deadline   |-> requests[n]]
  BY TimeoutShape
<1> SUFFICES ASSUME NEW m \in Nodes, NEW q \in Nodes, NEW tx \in AllTxs
             PROVE  Fewer(Booked(m, q, tx), Booked(m, q, tx)')
  BY DEF FewerBooked
<1>2. CASE q # n \/ tx \in DOMAIN queueTx'[n] \ Retried(n, k)
  <2>1. Announcers(q, tx)' = Announcers(q, tx)
    BY <1>1, <1>2 DEF Announcers
  <2> QED BY <2>1 DEF Booked, Fewer
<1>3. CASE q = n /\ tx \notin DOMAIN queueTx'[n]
  <2>1. Announcers(q, tx)' = <<>>
    BY <1>3 DEF Announcers
  <2>2. Booked(m, q, tx)' = {}
    BY <2>1 DEF Booked
  <2> QED BY <2>2 DEF Fewer, Single
<1>4. CASE q = n /\ tx \in DOMAIN queueTx'[n] /\ tx \in Retried(n, k)
  <2> DEFINE s == queueTx[n][tx].announcers
  <2>1. PICK i \in 1..Len(Tail(s)) :
          queueTx'[n][tx] = [announcers |-> Rotated(s, i), deadline |-> requests[n]]
    BY <1>1, <1>4
  <2>2. tx \in DOMAIN queueTx[n]
    BY <1>1, <1>4
  <2>3. queueTx[n][tx] \in Queues
    BY <2>2 DEF Typed, RequestsTyped
  <2>4. s \in Seq(Nodes) /\ s # <<>> /\ Tail(s) # <<>>
    BY <1>4, <2>3 DEF Queues, Retried
  <2>5. Announcers(n, tx) = s
    BY <2>2 DEF Announcers
  <2> HIDE DEF s
  <2>6. Announcers(n, tx)' = Rotated(s, i)
    BY <1>4, <2>1 DEF Announcers
  <2>7. Fewer({j \in 1..Len(s) : s[j] = m}, {j \in 1..Len(Rotated(s, i)) : Rotated(s, i)[j] = m})
    BY <2>4, RotatingBooked
  <2> QED BY <1>4, <2>5, <2>6, <2>7 DEF Booked
<1> QED BY <1>2, <1>3, <1>4

\* A batch is announced once: none of it was.
LEMMA FlushSingly ==
  ASSUME Typed, Singly, NEW n \in Nodes, FlushInvBatch(n)
  PROVE  Singly'
<1> DEFINE P == pendingInv[n]
<1>1. /\ pendingInv' = [pendingInv EXCEPT ![n] = {}]
      /\ \/ net' = net
         \/ /\ Inv(P) \in Messages
            /\ \A p, q \in Nodes : net'[p][q] = net[p][q] \o
                 (IF p = n /\ q \in Peers[n] \ batchEvent[n].exclude THEN <<Inv(P)>> ELSE <<>>)
  BY FlushTyped
<1>2. UNCHANGED <<known, queueTx>>
  BY DEF FlushInvBatch, requestVars
<1>3. /\ pendingInv \in [Nodes -> SUBSET AllTxs] /\ P \subseteq known[n] /\ net \in Channels
  BY DEF Typed, BooksTyped
<1> SUFFICES ASSUME NEW p \in Nodes, NEW q \in Nodes, NEW tx \in AllTxs
             PROVE  /\ Single(Invs(net'[p][q], tx)) /\ Single(Booked(p, q, tx)')
                    /\ Invs(net'[p][q], tx) = {} \/ Booked(p, q, tx)' = {}
                    /\ ToAnnounce(p, tx)' => Invs(net'[p][q], tx) = {} /\ Booked(p, q, tx)' = {}
  BY DEF Singly
<1>4. /\ Single(Invs(net[p][q], tx)) /\ Single(Booked(p, q, tx))
      /\ Invs(net[p][q], tx) = {} \/ Booked(p, q, tx) = {}
      /\ ToAnnounce(p, tx) => Invs(net[p][q], tx) = {} /\ Booked(p, q, tx) = {}
  BY DEF Singly
<1>5. Booked(p, q, tx)' = Booked(p, q, tx)
  BY <1>2 DEF Booked, Announcers
<1>6. ToAnnounce(p, tx)' => ToAnnounce(p, tx)
  BY <1>1, <1>2, <1>3 DEF ToAnnounce
<1>7. net[p][q] \in Seq(Messages) /\ net[p][q] \o <<>> = net[p][q]
  BY <1>3 DEF Channels
<1>8. ASSUME net'[p][q] = net[p][q] \o <<Inv(P)>>, p = n, Inv(P) \in Messages
      PROVE  /\ Single(Invs(net'[p][q], tx)) /\ Single(Booked(p, q, tx)')
             /\ Invs(net'[p][q], tx) = {} \/ Booked(p, q, tx)' = {}
             /\ ToAnnounce(p, tx)' => Invs(net'[p][q], tx) = {} /\ Booked(p, q, tx)' = {}
  <2>1. CASE tx \in P
    <3>1. ToAnnounce(p, tx)
      BY <1>8, <2>1 DEF ToAnnounce
    <3>2. ~ ToAnnounce(p, tx)'
      BY <1>1, <1>2, <1>3, <1>8, <2>1 DEF ToAnnounce
    <3>3. Single(Invs(net[p][q] \o <<Inv(P)>>, tx))
      BY <1>4, <1>7, <1>8, <3>1, InvsAnnounced
    <3> QED BY <1>4, <1>5, <1>8, <3>1, <3>2, <3>3
  <2>2. CASE tx \notin P
    <3>1. Invs(<<Inv(P)>>, tx) = {}
      <4>1. Inv(P).txs = P
        BY DEF Inv
      <4>2. \A i \in 1..Len(<<Inv(P)>>) : <<Inv(P)>>[i] = Inv(P)
        OBVIOUS
      <4> QED BY <2>2, <4>1, <4>2 DEF Invs
    <3>2. <<Inv(P)>> \in Seq(Messages)
      BY <1>8
    <3>3. Invs(net[p][q] \o <<Inv(P)>>, tx) = Invs(net[p][q], tx)
      <4> DEFINE s == net[p][q]
                 t == <<Inv(P)>>
      <4>1. s \in Seq(Messages) /\ t \in Seq(Messages) /\ Invs(t, tx) = {}
        BY <1>7, <3>1, <3>2
      <4> HIDE DEF s, t
      <4>2. Invs(s \o t, tx) = Invs(s, tx)
        BY <4>1, InvsAppended
      <4> QED BY <4>2 DEF s, t
    <3> QED BY <1>4, <1>5, <1>6, <1>8, <3>3
  <2> QED BY <2>1, <2>2
<1>9. ASSUME net'[p][q] = net[p][q]
      PROVE  /\ Single(Invs(net'[p][q], tx)) /\ Single(Booked(p, q, tx)')
             /\ Invs(net'[p][q], tx) = {} \/ Booked(p, q, tx)' = {}
             /\ ToAnnounce(p, tx)' => Invs(net'[p][q], tx) = {} /\ Booked(p, q, tx)' = {}
  BY <1>4, <1>5, <1>6, <1>9
<1>10. \/ net'[p][q] = net[p][q]
       \/ net'[p][q] = net[p][q] \o <<Inv(P)>> /\ p = n /\ Inv(P) \in Messages
  BY <1>1, <1>7
<1> QED BY <1>8, <1>9, <1>10

\* An announcement is booked when it is read, if the transaction is new.
LEMMA InvSingly ==
  ASSUME Typed, Singly, NEW m \in Nodes, NEW n \in Nodes, HandleInvTransactions(m, n)
  PROVE  Singly'
<1> DEFINE txs == Head(net[m][n]).txs
           new == Announced(m, n)
<1>1. /\ net[m][n] # <<>> /\ Head(net[m][n]).type = "INV" /\ Follows(Read(m, n), net')
      /\ \A p \in Nodes \ {n} : queueTx'[p] = queueTx[p]
      /\ DOMAIN queueTx'[n] = DOMAIN queueTx[n] \cup new
      /\ \A tx \in DOMAIN queueTx[n] \ new : queueTx'[n][tx] = queueTx[n][tx]
      /\ \A tx \in new : queueTx'[n][tx] =
           [announcers |-> Append(Announcers(n, tx), m),
            deadline   |-> IF tx \in Wanted(m, n) THEN requests[n] ELSE queueTx[n][tx].deadline]
      /\ UNCHANGED <<known, pendingInv>>
  <2>1. net[m][n] # <<>> /\ Head(net[m][n]).type = "INV" /\ Follows(Read(m, n), net')
    BY InvShape
  <2>2. UNCHANGED <<known, pendingInv>>
    BY InvShape
  <2>3. /\ \A p \in Nodes \ {n} : queueTx'[p] = queueTx[p]
        /\ DOMAIN queueTx'[n] = DOMAIN queueTx[n] \cup Announced(m, n)
        /\ \A tx \in DOMAIN queueTx[n] \ Announced(m, n) : queueTx'[n][tx] = queueTx[n][tx]
        /\ \A tx \in Announced(m, n) : queueTx'[n][tx] =
             [announcers |-> Append(Announcers(n, tx), m),
              deadline   |-> IF tx \in Wanted(m, n) THEN requests[n] ELSE queueTx[n][tx].deadline]
    BY InvShape
  <2> QED BY <2>1, <2>2, <2>3
<1>2. RequestsTyped /\ net \in Channels /\ net[m][n] \in Seq(Messages) /\ new \subseteq txs
  BY DEF Typed, Channels, Announced, New
<1>3. /\ \A p, q \in Nodes : (p # m \/ q # n) =>
           \A tx \in AllTxs : Invs(net'[p][q], tx) = Invs(net[p][q], tx)
      /\ \A tx \in AllTxs : Invs(net'[m][n], tx) = Invs(Tail(net[m][n]), tx)
      /\ FewerInvs
  BY <1>1, <1>2, ReadingInvs
<1> HIDE DEF new
<1>4. ASSUME NEW tx \in new
      PROVE  /\ Announcers(n, tx)' = Append(Announcers(n, tx), m)
             /\ Announcers(n, tx) \in Seq(Nodes)
  <2> DEFINE a == Append(Announcers(n, tx), m)
             e == IF tx \in Wanted(m, n) THEN requests[n] ELSE queueTx[n][tx].deadline
  <2>1. queueTx'[n][tx] = [announcers |-> a, deadline |-> e] /\ tx \in DOMAIN queueTx'[n]
    BY <1>1
  <2> HIDE DEF a, e
  <2>2. Announcers(n, tx)' = a
    BY <2>1 DEF Announcers
  <2>3. tx \in DOMAIN queueTx[n] => queueTx[n][tx] \in Queues
    BY <1>2 DEF RequestsTyped
  <2>4. Announcers(n, tx) \in Seq(Nodes)
    BY <2>3 DEF Announcers, Queues
  <2> QED BY <2>2, <2>4 DEF a
<1> SUFFICES ASSUME NEW p \in Nodes, NEW q \in Nodes, NEW tx \in AllTxs
             PROVE  /\ Single(Invs(net'[p][q], tx)) /\ Single(Booked(p, q, tx)')
                    /\ Invs(net'[p][q], tx) = {} \/ Booked(p, q, tx)' = {}
                    /\ ToAnnounce(p, tx)' => Invs(net'[p][q], tx) = {} /\ Booked(p, q, tx)' = {}
  BY DEF Singly
<1>5. /\ Single(Invs(net[p][q], tx)) /\ Single(Booked(p, q, tx))
      /\ Invs(net[p][q], tx) = {} \/ Booked(p, q, tx) = {}
      /\ ToAnnounce(p, tx) => Invs(net[p][q], tx) = {} /\ Booked(p, q, tx) = {}
  BY DEF Singly
<1>6. Fewer(Invs(net[p][q], tx), Invs(net'[p][q], tx))
  BY <1>3 DEF FewerInvs
<1>7. ToAnnounce(p, tx)' = ToAnnounce(p, tx)
  BY <1>1 DEF ToAnnounce
<1>8. ASSUME q # n \/ tx \notin new \/ p # m
      PROVE  Booked(p, q, tx)' = Booked(p, q, tx)
  <2>1. CASE q # n \/ tx \notin new
    <3>1. Announcers(q, tx)' = Announcers(q, tx)
      BY <1>1, <2>1 DEF Announcers
    <3> QED BY <3>1 DEF Booked
  <2>2. CASE q = n /\ tx \in new /\ p # m
    <3> DEFINE s == Announcers(n, tx)
               r == Append(s, m)
    <3>1. s \in Seq(Nodes) /\ Announcers(n, tx)' = r
      BY <1>4, <2>2
    <3>2. /\ Len(r) = Len(s) + 1 /\ r[Len(s) + 1] = m /\ Len(s) \in Nat
          /\ \A j \in 1..Len(s) : r[j] = s[j]
      BY <3>1
    <3> HIDE DEF s, r
    <3>3. {j \in 1..Len(r) : r[j] = p} = {j \in 1..Len(s) : s[j] = p}
      BY <2>2, <3>2
    <3> QED BY <2>2, <3>1, <3>3 DEF Booked, s
  <2> QED BY <1>8, <2>1, <2>2
<1>9. CASE q # n \/ tx \notin new \/ p # m
  BY <1>5, <1>6, <1>7, <1>8, <1>9 DEF Fewer
<1>10. CASE q = n /\ tx \in new /\ p = m
  <2>1. 1 \in Invs(net[m][n], tx)
    <3>1. 1 \in 1..Len(net[m][n]) /\ net[m][n][1] = Head(net[m][n])
      BY <1>1, <1>2
    <3> QED BY <1>1, <1>2, <1>10, <3>1 DEF Invs
  <2>2. Booked(m, n, tx) = {} /\ ~ ToAnnounce(m, tx)
    BY <1>5, <1>10, <2>1
  <2>3. Invs(net'[m][n], tx) = {}
    BY <1>1, <1>2, <1>3, <1>5, <1>10, <2>1, InvsRead
  <2>4. Single(Booked(m, n, tx)')
    <3> DEFINE s == Announcers(n, tx)
               r == Append(s, m)
    <3>1. s \in Seq(Nodes) /\ Announcers(n, tx)' = r
      BY <1>4, <1>10
    <3>2. /\ Len(r) = Len(s) + 1 /\ Len(s) \in Nat
          /\ \A j \in 1..Len(s) : r[j] = s[j]
      BY <3>1
    <3>3. \A j \in 1..Len(s) : s[j] # m
      BY <2>2 DEF Booked
    <3> HIDE DEF s, r
    <3>4. \A j \in 1..Len(r) : r[j] = m => j = Len(s) + 1
      BY <3>2, <3>3
    <3> QED BY <3>1, <3>4 DEF Booked, Single
  <2> QED BY <1>6, <1>5, <1>7, <1>10, <2>2, <2>3, <2>4 DEF Fewer
<1> QED BY <1>9, <1>10

\* Every handler keeps announcements single.
LEMMA SinglyStep == Typed /\ Singly /\ [TxNext]_txVars => Singly'
<1> SUFFICES ASSUME Typed, Singly, [TxNext]_txVars PROVE Singly'
  OBVIOUS
<1>1. net \in Channels /\ Follows(net, net)
  BY FollowsItself DEF Typed
<1>2. ASSUME UNCHANGED net PROVE FewerInvs
  BY <1>2 DEF FewerInvs, Fewer
<1>3. ASSUME UNCHANGED queueTx PROVE FewerBooked
  BY <1>3, ForgettingBooked
<1>4. ASSUME NEW n \in Nodes, GenerateTransaction(n) PROVE Singly'
  <2>1. PICK tx \in TxIds[n] : /\ tx \notin known[n]
                               /\ known' = [known EXCEPT ![n] = @ \cup {tx}]
                               /\ pendingInv' = [pendingInv EXCEPT ![n] = @ \cup {tx}]
    BY <1>4 DEF GenerateTransaction, ScheduleBatch
  <2>2. \A p \in Nodes : /\ known[p] \subseteq known'[p]
                         /\ pendingInv'[p] \ pendingInv[p] \subseteq known'[p] \ known[p]
    BY <2>1 DEF Typed, BooksTyped
  <2>3. UNCHANGED <<net, queueTx>>
    BY <1>4 DEF GenerateTransaction, requestVars
  <2> QED BY <1>2, <1>3, <2>2, <2>3, KnownFirst, SinglyKept
<1>5. ASSUME NEW m \in Nodes, NEW n \in Nodes, HandleReqTransactions(m, n) PROVE Singly'
  <2>1. UNCHANGED <<queueTx, known, pendingInv>>
    BY <1>5 DEF HandleReqTransactions, requestVars, batchVars
  <2>2. FewerInvs
    BY <1>1, <1>5, ReqTyped, ReadingInvs
  <2> QED BY <1>3, <2>1, <2>2, KnownFirst, SinglyKept
<1>6. ASSUME NEW m \in Nodes, NEW n \in Nodes, HandleTransactions(m, n) PROVE Singly'
  <2>1. /\ net[m][n] # <<>> /\ net' = Read(m, n)
        /\ \A p \in Nodes : /\ known[p] \subseteq known'[p]
                            /\ pendingInv'[p] \ pendingInv[p] \subseteq known'[p] \ known[p]
        /\ \A p \in Nodes : /\ DOMAIN queueTx'[p] \subseteq DOMAIN queueTx[p]
                            /\ \A tx \in DOMAIN queueTx'[p] : queueTx'[p][tx] = queueTx[p][tx]
    BY <1>6, TxsShape
  <2>2. Read(m, n) \in Channels
    BY <1>1, <2>1, ReadProperty
  <2>3. Follows(Read(m, n), net')
    BY <2>1, <2>2, FollowsItself
  <2> QED BY <1>1, <2>1, <2>3, ReadingInvs, ForgettingBooked, KnownFirst, SinglyKept
<1>7. ASSUME NEW n \in Nodes, ProcessTxTimeouts(n) PROVE Singly'
  <2>1. Follows(net, net') /\ UNCHANGED <<known, pendingInv>>
    BY <1>7, TimeoutShape
  <2> QED BY <1>1, <1>7, <2>1, FollowingInvs, TimeoutBooked, KnownFirst, SinglyKept
<1>8. ASSUME NEW n \in Nodes, MineTransactions(n) PROVE Singly'
  <2>1. UNCHANGED <<net, queueTx, known, pendingInv>>
    BY <1>8 DEF MineTransactions, requestVars, batchVars
  <2> QED BY <1>2, <1>3, <2>1, KnownFirst, SinglyKept
<1>9. ASSUME NEW n \in Nodes, NEW i \in DOMAIN mined, HandleBlockBody(n, i) PROVE Singly'
  <2>1. UNCHANGED <<net, queueTx, pendingInv>> /\ \A p \in Nodes : known[p] \subseteq known'[p]
    BY <1>9, BodyTyped DEF HandleBlockBody, requestVars, batchVars
  <2> QED BY <1>2, <1>3, <2>1, KnownFirst, SinglyKept
<1>10. ASSUME UNCHANGED txVars PROVE Singly'
  <2>1. UNCHANGED <<net, queueTx, known, pendingInv>>
    BY <1>10 DEF txVars, requestVars, batchVars
  <2> QED BY <1>2, <1>3, <2>1, KnownFirst, SinglyKept
<1> QED BY <1>4, <1>5, <1>6, <1>7, <1>8, <1>9, <1>10, FlushSingly, InvSingly, TxConstants
        DEF TxNext, TxReceive

-----------------------------------------------------------------------------
\* The invariant holds in every reachable state of the transaction relay.
THEOREM TxInvariance == TxSpec => []TxInv
<1>1. TxInv /\ [TxNext]_txVars => TxInv'
  BY TypedStep, TimersStep, SinglyStep DEF TxInv
<1> QED BY Initially, <1>1, PTL DEF TxSpec

\* Mempools hold known transactions and no more than they may; what is booked
\* and under way is typed.
THEOREM TxTypesCorrect == TxSpec => []TxTypeOK
<1>1. ASSUME TxInv PROVE TxTypeOK
  <2>1. Typed /\ Timers
    BY <1>1 DEF TxInv
  <2>2. ASSUME NEW n \in Nodes, NEW tx \in DOMAIN queueTx[n]
        PROVE  /\ queueTx[n][tx].announcers \in Seq(Nodes) \ {<<>>}
               /\ queueTx[n][tx].deadline \in 0..(requests[n] - 1)
    <3>1. queueTx[n][tx] \in Queues /\ requests[n] \in Nat
      BY <2>1 DEF Typed, RequestsTyped
    <3>2. PICK i \in 1..Len(timeouts[n]) : tx \in Live(n, timeouts[n][i])
      BY <2>1 DEF Timers
    <3>3. queueTx[n][tx].deadline < requests[n]
      BY <2>1, <3>2 DEF Timers, Live
    <3> QED BY <3>1, <3>3 DEF Queues
  <2>3. ASSUME NEW n \in Nodes, NEW i \in 1..Len(timeouts[n])
        PROVE  timeouts[n][i].txs \subseteq AllTxs
    <3>1. timeouts[n] \in Seq(Deadlines)
      BY <2>1 DEF Typed, RequestsTyped
    <3>2. timeouts[n][i] \in Deadlines
      BY <3>1
    <3> QED BY <3>2 DEF Deadlines
  <2>4. ASSUME NEW m \in Nodes, NEW n \in Nodes, NEW i \in 1..Len(net[m][n])
        PROVE  net[m][n][i] \in TxMessages
    <3>1. net[m][n] \in Seq(Messages)
      BY <2>1 DEF Typed, Channels
    <3>2. net[m][n][i] \in Messages
      BY <3>1
    <3> QED BY <3>2 DEF Messages
  <2>5. ASSUME NEW i \in 1..Len(mined) PROVE mined[i] \subseteq AllTxs
    BY <2>1 DEF Typed, BooksTyped
  <2>6. /\ known \in [Nodes -> SUBSET AllTxs] /\ timer \in [Nodes -> BOOLEAN]
        /\ pendingInv \in [Nodes -> SUBSET AllTxs]
        /\ \A n \in Nodes : /\ mempool[n] \subseteq known[n]
                            /\ Cardinality(mempool[n]) <= MempoolSize
                            /\ DOMAIN queueTx[n] \subseteq AllTxs
    BY <2>1 DEF Typed, BooksTyped, RequestsTyped
  <2> QED BY <2>2, <2>3, <2>4, <2>5, <2>6 DEF TxTypeOK
<1> QED BY <1>1, TxInvariance, PTL

\* The FIFO of deadlines is sorted, the timer is armed while there are any,
\* and every request in flight has exactly one of them: none is forgotten.
THEOREM NoRequestForgotten == TxSpec => []OneTimerServesAll
<1>1. ASSUME TxInv PROVE OneTimerServesAll
  <2>1. Typed /\ Timers
    BY <1>1 DEF TxInv
  <2>2. ASSUME NEW n \in Nodes, NEW tx \in DOMAIN queueTx[n]
        PROVE  Cardinality({i \in 1..Len(timeouts[n]) : tx \in Live(n, timeouts[n][i])}) = 1
    <3>1. PICK i \in 1..Len(timeouts[n]) : tx \in Live(n, timeouts[n][i])
      BY <2>1 DEF Timers
    <3>2. ASSUME NEW j \in 1..Len(timeouts[n]), tx \in Live(n, timeouts[n][j]) PROVE j = i
      <4>1. timeouts[n][i].deadline = timeouts[n][j].deadline
        BY <3>1, <3>2 DEF Live
      <4>2. timeouts[n][i] \in Deadlines /\ Len(timeouts[n]) \in Nat
        BY <2>1 DEF Typed, RequestsTyped
      <4>3. timeouts[n][i].deadline \in Nat
        BY <4>2 DEF Deadlines
      <4>4. ~ (i < j) /\ ~ (j < i)
        BY <2>1, <4>1, <4>3 DEF Timers
      <4> QED BY <4>2, <4>4
    <3>3. {k \in 1..Len(timeouts[n]) : tx \in Live(n, timeouts[n][k])} = {i}
      BY <3>1, <3>2
    <3> QED BY <3>3, FS_Singleton
  <2> QED BY <2>1, <2>2 DEF OneTimerServesAll, Timers
<1> QED BY <1>1, TxInvariance, PTL

\* A peer's announcement of a transaction is under way or booked at most once.
THEOREM NoDoubleInv == TxSpec => []TxAnnouncedOnce
<1>1. ASSUME TxInv PROVE TxAnnouncedOnce
  <2> SUFFICES ASSUME NEW m \in Nodes, NEW n \in Nodes, NEW tx \in AllTxs
               PROVE  Cardinality(Invs(net[m][n], tx)) + Cardinality(Booked(m, n, tx)) <= 1
    BY DEF TxAnnouncedOnce, Invs, Booked
  <2>1. /\ Single(Invs(net[m][n], tx)) /\ Single(Booked(m, n, tx))
        /\ Invs(net[m][n], tx) = {} \/ Booked(m, n, tx) = {}
    BY <1>1 DEF TxInv, Singly
  <2>2. ASSUME NEW S, Single(S) PROVE Cardinality(S) \in {0, 1}
    <3>1. CASE S = {}
      BY <3>1, FS_EmptySet
    <3>2. CASE S # {}
      <4>1. PICK x : S = {x}
        BY <2>2, <3>2 DEF Single
      <4> QED BY <4>1, FS_Singleton
    <3> QED BY <3>1, <3>2
  <2>3. Cardinality({}) = 0
    BY FS_EmptySet
  <2> QED BY <2>1, <2>2, <2>3
<1> QED BY <1>1, TxInvariance, PTL
=============================================================================

----------------------------- MODULE BlockRelay -----------------------------
(***************************************************************************)
(* The block relay of node.cc: announce (INV), request (REQ), deliver      *)
(* (BLOCK), with request timeouts and, when Graphene is on, the compact    *)
(* block (GBLOCK) and its recovery round (RREQ, RRESP).  It implements     *)
(* BlockDag: header and chain are the same variables.                      *)
(*                                                                         *)
(* Messages from m to n travel in order and are not lost (one TCP stream   *)
(* per direction).  A block message carries the block's parents; bodies,   *)
(* Bloom filters and IBLTs are left out, and whether a compact block can   *)
(* be decoded, at once or from the recovery answer, is a free choice: it   *)
(* depends on the receiver's mempool and on hash collisions.               *)
(***************************************************************************)
EXTENDS BlockDag

CONSTANTS Peers,            \* m_peers_addresses of each node
          GrapheneEnabled,  \* m_graphene_enabled, the same on every node
          SlowAnswers       \* may a request time out before its answer is in?

ASSUME PeersAreNodes ==
  Peers \in [Nodes -> SUBSET Nodes] /\ \A n \in Nodes : n \notin Peers[n]
ASSUME Switches == GrapheneEnabled \in BOOLEAN /\ SlowAnswers \in BOOLEAN

VARIABLES net,         \* net[m][n]: messages under way from m to n
          queueInv,    \* m_queue_inv: who announced a block, front = asked
          invTimers,   \* m_inv_timeouts: blocks with a pending timeout event
          recovery,    \* m_graphene_state and m_graphene_senders
          recTimers    \* m_graphene_timeouts

relayVars == <<header, chain, net, queueInv, invTimers, recovery, recTimers>>

-----------------------------------------------------------------------------
(* Messages *)

Inv(b)       == [type |-> "INV",    block |-> b]
Req(b, full) == [type |-> "REQ",    block |-> b, graphene_failed |-> full]
Blk(b, ps)   == [type |-> "BLOCK",  block |-> b, parents |-> ps]
GBlk(b, ps)  == [type |-> "GBLOCK", block |-> b, parents |-> ps]
RReq(b)      == [type |-> "RREQ",   block |-> b]
RResp(b)     == [type |-> "RRESP",  block |-> b]

\* The head of the stream from m to n is a message of this type.
Arrived(m, n, type) == net[m][n] # <<>> /\ Head(net[m][n]).type = type

\* Channels after n has read the head of the stream from m ...
Read(m, n) == [net EXCEPT ![m][n] = Tail(@)]

\* ... and sent msg to each node of S.
SendTo(channels, n, S, msg) ==
  [channels EXCEPT ![n] =
     [p \in Nodes |-> IF p \in S THEN Append(@[p], msg) ELSE @[p]]]

\* Mutant of BroadcastInvBlock: "break" where the loop has "continue".
BroadcastUntilExcluded(channels, n, b, exclude) ==
  SendTo(channels, n, {p \in Peers[n] : \A e \in exclude : p < e}, Inv(b))

BroadcastInvBlock(channels, n, b, exclude) ==
  SendTo(channels, n, Peers[n] \ exclude, Inv(b))

-----------------------------------------------------------------------------
(* What a node knows of a block *)

\* Mutant of Known: orphans do not count.
KnownAccepted(n, b) == HasBlock(chain[n], b)

Known(n, b) == HasBlock(chain[n], b) \/ IsOrphan(chain[n], b)

\* Mutant of ParentsAt: only the parents the node has accepted.
AcceptedParentsAt(n, b) ==
  IF HasBlock(chain[n], b) THEN chain[n].parents[b]
                           ELSE chain[n].orphans[b] \cap Blocks(chain[n])

\* The parents in the node's copy of a block, accepted or orphaned.
ParentsAt(n, b) ==
  IF HasBlock(chain[n], b) THEN chain[n].parents[b] ELSE chain[n].orphans[b]

\* m_queue_inv[b], which operator[] makes empty when it is absent.
Announcers(n, b) ==
  IF b \in DOMAIN queueInv[n] THEN queueInv[n][b] ELSE <<>>

FirstAnnouncement(n, b) == Announcers(n, b) = <<>>

\* The timeout is cancelled, or over, and the announcers are erased.
ForgetAnnouncers(n, b) ==
  /\ invTimers' = [invTimers EXCEPT ![n] = @ \ {b}]
  /\ queueInv'  = [queueInv EXCEPT ![n] = Without(@, b)]

RelayInit ==
  /\ Init
  /\ net       = [m \in Nodes |-> [n \in Nodes |-> <<>>]]
  /\ queueInv  = [n \in Nodes |-> [b \in {} |-> <<>>]]
  /\ invTimers = [n \in Nodes |-> {}]
  /\ recovery  = [n \in Nodes |-> [b \in {} |-> 0]]
  /\ recTimers = [n \in Nodes |-> {}]

\* Mutant of MinedId: the counter is read after its increment.
MinedIdLate(n) == BlockId(n, chain[n].next + 1)

MinedId(n) == BlockId(n, chain[n].next)

\* GhostDagMiner::MineBlock, with the announcement to all peers.
RelayMine(n) ==
  /\ MineBlock(n)
  /\ net' = BroadcastInvBlock(net, n, MinedId(n), {})
  /\ UNCHANGED <<queueInv, invTimers, recovery, recTimers>>

-----------------------------------------------------------------------------
(* The plain relay *)

\* An announcement: the first announcer is asked at once, the others are
\* kept for a timeout; of a block the node has, it changes nothing.
HandleInvRelayBlock(m, n) ==
  LET b == Head(net[m][n]).block
  IN  /\ Arrived(m, n, "INV")
      /\ IF Known(n, b)
           THEN net' = Read(m, n) /\ UNCHANGED <<queueInv, invTimers>>
           ELSE /\ queueInv' = [queueInv EXCEPT ![n] =
                                  Put(@, b, Append(Announcers(n, b), m))]
                /\ IF FirstAnnouncement(n, b)
                     THEN /\ net' = SendTo(Read(m, n), n, {m}, Req(b, FALSE))
                          /\ invTimers' = [invTimers EXCEPT ![n] = @ \cup {b}]
                     ELSE net' = Read(m, n) /\ UNCHANGED invTimers
      /\ UNCHANGED <<header, chain, recovery, recTimers>>

\* With Graphene the answer may be compact; it is not after a failed attempt
\* and need not be when the receiver's mempool would make it no smaller.
HandleReqRelayBlock(m, n) ==
  LET msg == Head(net[m][n])
      b   == msg.block
      ps  == ParentsAt(n, b)
  IN  /\ Arrived(m, n, "REQ")
      /\ IF Known(n, b)
           THEN \/ net' = SendTo(Read(m, n), n, {m}, Blk(b, ps))
                \/ /\ GrapheneEnabled /\ ~ msg.graphene_failed
                   /\ net' = SendTo(Read(m, n), n, {m}, GBlk(b, ps))
           ELSE net' = Read(m, n)
      /\ UNCHANGED <<header, chain, queueInv, invTimers, recovery, recTimers>>

\* Mutant of HandleBlockFrom: no early return for a block the node has.
HandleBlockAgain(m, n, b, ps) ==
  /\ chain' = [chain EXCEPT ![n] = AddBlock(@, b, ps)]
  /\ ForgetAnnouncers(n, b)
  /\ net' = BroadcastInvBlock(Read(m, n), n, b, {m})

\* GhostDagNode::HandleBlock on a block that came from m.
HandleBlockFrom(m, n, b, ps) ==
  IF Known(n, b)
    THEN net' = Read(m, n) /\ UNCHANGED <<chain, queueInv, invTimers>>
    ELSE /\ chain' = [chain EXCEPT ![n] = AddBlock(@, b, ps)]
         /\ ForgetAnnouncers(n, b)
         /\ net' = BroadcastInvBlock(Read(m, n), n, b, {m})

ReceiveBlock(m, n) ==
  /\ Arrived(m, n, "BLOCK")
  /\ HandleBlockFrom(m, n, Head(net[m][n]).block, Head(net[m][n]).parents)
  /\ UNCHANGED <<header, recovery, recTimers>>

\* The announcer asked is dropped.  One of the others is swapped to the front
\* and asked, with a new timeout; without others the block is given up.
InvTimeoutExpired(n, b) ==
  LET rest == Tail(queueInv[n][b])
      Moved(i) == [rest EXCEPT ![1] = rest[i], ![i] = rest[1]]
  IN  /\ SlowAnswers
      /\ b \in invTimers[n] /\ b \in DOMAIN queueInv[n]
      /\ \/ rest = <<>> /\ ForgetAnnouncers(n, b) /\ UNCHANGED net
         \/ \E i \in 1..Len(rest) :
              /\ queueInv' = [queueInv EXCEPT ![n] = Put(@, b, Moved(i))]
              /\ net' = SendTo(net, n, {rest[i]}, Req(b, FALSE))
              /\ UNCHANGED invTimers
      /\ UNCHANGED <<header, chain, recovery, recTimers>>

-----------------------------------------------------------------------------
(* Graphene *)

\* Mutant of EndRecovery: the timeout stays.
EndButTimer(n, b) ==
  /\ recovery' = [recovery EXCEPT ![n] = Without(@, b)]
  /\ UNCHANGED recTimers

\* A recovery attempt ends: state, sender and timeout are erased.
EndRecovery(n, b) ==
  /\ recovery'  = [recovery EXCEPT ![n] = Without(@, b)]
  /\ recTimers' = [recTimers EXCEPT ![n] = @ \ {b}]

\* A compact block decodes from the mempool, or starts a recovery attempt;
\* a second one during an attempt is dropped.
HandleGrapheneBlock(m, n) ==
  LET msg == Head(net[m][n])
      b   == msg.block
  IN  /\ Arrived(m, n, "GBLOCK")
      /\ UNCHANGED header
      /\ IF Known(n, b) \/ b \in DOMAIN recovery[n]
           THEN net' = Read(m, n)
                /\ UNCHANGED <<chain, queueInv, invTimers, recovery, recTimers>>
           ELSE \/ /\ HandleBlockFrom(m, n, b, msg.parents)
                   /\ UNCHANGED <<recovery, recTimers>>
                \/ /\ recovery' = [recovery EXCEPT ![n] =
                                     Put(@, b, [sender |-> m, parents |-> msg.parents])]
                   /\ recTimers' = [recTimers EXCEPT ![n] = @ \cup {b}]
                   /\ net' = SendTo(Read(m, n), n, {m}, RReq(b))
                   /\ UNCHANGED <<chain, queueInv, invTimers>>

HandleGrapheneRecoveryRequest(m, n) ==
  LET b == Head(net[m][n]).block
  IN  /\ Arrived(m, n, "RREQ")
      /\ net' = IF Known(n, b) THEN SendTo(Read(m, n), n, {m}, RResp(b))
                               ELSE Read(m, n)
      /\ UNCHANGED <<header, chain, queueInv, invTimers, recovery, recTimers>>

\* The answer completes the attempt's block, or the whole block is requested
\* from the node that sent the answer.
HandleGrapheneRecoveryResponse(m, n) ==
  LET b == Head(net[m][n]).block
  IN  /\ Arrived(m, n, "RRESP")
      /\ UNCHANGED header
      /\ IF b \notin DOMAIN recovery[n]
           THEN net' = Read(m, n)
                /\ UNCHANGED <<chain, queueInv, invTimers, recovery, recTimers>>
           ELSE /\ EndRecovery(n, b)
                /\ \/ HandleBlockFrom(m, n, b, recovery[n][b].parents)
                   \/ /\ net' = SendTo(Read(m, n), n, {m}, Req(b, TRUE))
                      /\ UNCHANGED <<chain, queueInv, invTimers>>

\* Mutant of GrapheneRecoveryTimeout: the attempt ends without a request.
RecoveryGivenUp(n, b) ==
  /\ SlowAnswers /\ b \in recTimers[n]
  /\ EndRecovery(n, b)
  /\ UNCHANGED <<header, chain, net, queueInv, invTimers>>

\* No answer in time: the whole block is requested from the sender of the
\* compact one, unless the block has come another way.
GrapheneRecoveryTimeout(n, b) ==
  /\ SlowAnswers /\ b \in recTimers[n]
  /\ EndRecovery(n, b)
  /\ net' = IF Known(n, b) THEN net
                           ELSE SendTo(net, n, {recovery[n][b].sender}, Req(b, TRUE))
  /\ UNCHANGED <<header, chain, queueInv, invTimers>>

-----------------------------------------------------------------------------
Receive(m, n) ==
  \/ HandleInvRelayBlock(m, n)
  \/ HandleReqRelayBlock(m, n)
  \/ ReceiveBlock(m, n)
  \/ HandleGrapheneBlock(m, n)
  \/ HandleGrapheneRecoveryRequest(m, n)
  \/ HandleGrapheneRecoveryResponse(m, n)

RelayNext ==
  \/ \E n \in Miners : RelayMine(n)
  \/ \E m, n \in Nodes : Receive(m, n)
  \/ \E n \in Nodes : \E b \in invTimers[n] : InvTimeoutExpired(n, b)
  \/ \E n \in Nodes : \E b \in recTimers[n] : GrapheneRecoveryTimeout(n, b)

RelaySpec == RelayInit /\ [][RelayNext]_relayVars

Quiet == \A m, n \in Nodes : net[m][n] = <<>>

\* From every node there is a path to every other one.
Connected ==
  \A S \in SUBSET Nodes : S # {} /\ (\A n \in S : Peers[n] \subseteq S) => S = Nodes

Delivered == \E m, n \in Nodes : net[m][n] # <<>> /\ net'[m][n] = Tail(net[m][n])

(***************************************************************************)
(* Weak fairness of \E m, n : Receive(m, n), written out: the simulator    *)
(* keeps delivering while messages are under way.  Receive is enabled      *)
(* unless Quiet, and Delivered is what only Receive does to net.  Miners   *)
(* and timeouts owe nothing.                                               *)
(***************************************************************************)
Delivery == []<>Quiet \/ []<><<Delivered>>_net

FairRelaySpec == RelaySpec /\ Delivery

-----------------------------------------------------------------------------
(* Properties *)

MessageTypes ==
       [type : {"INV", "RREQ", "RRESP"}, block : Mined]
  \cup [type : {"REQ"}, block : Mined, graphene_failed : BOOLEAN]
  \cup {msg \in [type : {"BLOCK", "GBLOCK"}, block : Mined, parents : SUBSET Mined] :
          msg.parents = header[msg.block]}

\* Type invariant; a block message carries the parents the miner gave it.
RelayTypeOK ==
  /\ TypeOK
  /\ \A m, n \in Nodes : \A i \in 1..Len(net[m][n]) : net[m][n][i] \in MessageTypes
  /\ \A n \in Nodes :
       /\ DOMAIN queueInv[n] \subseteq Mined /\ invTimers[n] \subseteq Mined
       /\ \A b \in DOMAIN queueInv[n] : queueInv[n][b] \in Seq(Nodes)
       /\ DOMAIN recovery[n] \subseteq Mined /\ recTimers[n] \subseteq Mined
       /\ \A b \in DOMAIN recovery[n] :
            recovery[n][b].sender \in Nodes /\ recovery[n][b].parents = header[b]

\* The two maps of a pending request never part: a timeout event is pending
\* for exactly the blocks with announcers and the blocks under recovery.
TimersMatchRequests ==
  \A n \in Nodes :
    /\ invTimers[n] = DOMAIN queueInv[n]
    /\ \A b \in DOMAIN queueInv[n] : queueInv[n][b] # <<>>
    /\ recTimers[n] = DOMAIN recovery[n]

\* Nothing is on request that the node has, however the block came to it.
RequestsAreForMissing ==
  \A n \in Nodes : \A b \in DOMAIN queueInv[n] :
    b \notin Blocks(chain[n]) /\ b \notin DOMAIN chain[n].orphans

Holds(n, b) == b \in Blocks(chain[n]) \cup DOMAIN chain[n].orphans

\* A node that announces a block holds it, so no request of a node is ever
\* left without an answer.
RequestsAreAnswerable ==
  /\ \A m, n \in Nodes : \A i \in 1..Len(net[m][n]) :
       LET msg == net[m][n][i]
       IN  /\ msg.type \in {"INV", "BLOCK", "GBLOCK", "RRESP"} => Holds(m, msg.block)
           /\ msg.type \in {"REQ", "RREQ"} => Holds(n, msg.block)
  /\ \A n \in Nodes : \A b \in DOMAIN queueInv[n] :
       \A i \in 1..Len(queueInv[n][b]) : Holds(queueInv[n][b][i], b)

\* No peer announces a block to a node twice: the queue of announcers holds
\* none of them twice and is never longer than the node's list of peers.
AnnouncedOnce ==
  \A m, n \in Nodes : \A b \in Mined :
      Cardinality({i \in 1..Len(net[m][n]) : net[m][n][i] = Inv(b)})
    + Cardinality({i \in 1..Len(Announcers(n, b)) : Announcers(n, b)[i] = m}) <= 1

\* Once nothing is under way, every node has accepted every block and has no
\* orphan, no request and no recovery attempt left, whatever timed out.
QuietMeansSynced ==
  Quiet =>
    \A n \in Nodes :
      /\ Blocks(chain[n]) = Mined /\ chain[n].orphans = <<>>
      /\ queueInv[n] = <<>> /\ recovery[n] = <<>>

\* The relay implements BlockDag: whatever is announced, asked for twice or
\* recovered, a node only takes in blocks that were mined, each once and with
\* the parents it was mined with.  The refinement mapping is the identity.
DagSpec == Spec

\* Every mined block is accepted by every node.
EveryBlockArrives ==
  \A n \in Nodes, k \in Miners : \A i \in 1..MaxBlocks[k] :
    BlockId(k, i) \in Mined ~> HasBlock(chain[n], BlockId(k, i))
=============================================================================

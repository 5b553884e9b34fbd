------------------------------ MODULE BlockDag ------------------------------
(***************************************************************************)
(* Nodes that each keep a Blockchain, miners that extend it, and a network *)
(* that hands any mined block to any node, in any order and at any time.   *)
(* This is what the block relay of node.cc promises to the DAG and what it *)
(* does not: no order of arrival, no delivery of a parent before its       *)
(* child, no delivery at all; but a delivered block is one a miner made,   *)
(* and HandleBlock hands no block to AddBlock twice.                       *)
(***************************************************************************)
EXTENDS Blockchain

CONSTANTS Nodes,        \* node ids
          Miners,       \* the nodes that run a GhostDagMiner
          IdSpan,       \* 2^32 in the code: ids of one miner per node id
          MaxBlocks     \* bound: blocks each miner may make

ASSUME NodesAreNat   == Nodes \subseteq Nat
ASSUME MinersAreNodes == Miners \subseteq Nodes
ASSUME IdsFit ==
  IdSpan \in Nat \ {0} /\ MaxBlocks \in [Miners -> 0..(IdSpan - 1)]

VARIABLES header,       \* parents of every block mined so far, genesis included
          chain         \* m_blockchain of each node

vars == <<header, chain>>

\* (minerId << 32) | next_block_id
BlockId(n, i) == n * IdSpan + i

Mined == DOMAIN header

Init ==
  /\ header = [b \in {Genesis} |-> {}]
  /\ chain  = [n \in Nodes |-> EmptyBlockchain]

\* ++next_block_id
WithNextId(d) == [d EXCEPT !.next = @ + 1]

\* GhostDagMiner::MineBlock: a block on top of all current tips.
MineBlock(n) ==
  LET b  == BlockId(n, chain[n].next)
      ps == chain[n].tips
  IN  /\ chain[n].next <= MaxBlocks[n]
      /\ header' = Put(header, b, ps)
      /\ chain'  = [chain EXCEPT ![n] = AddBlock(WithNextId(@), b, ps)]

\* GhostDagNode::HandleBlock, as far as the DAG is concerned.
HandleBlock(n, b) ==
  /\ ~ HasBlock(chain[n], b)
  /\ ~ IsOrphan(chain[n], b)
  /\ chain' = [chain EXCEPT ![n] = AddBlock(@, b, header[b])]
  /\ UNCHANGED header

Next ==
  \/ \E n \in Miners : MineBlock(n)
  \/ \E n \in Nodes, b \in Mined : HandleBlock(n, b)

Spec == Init /\ [][Next]_vars

-----------------------------------------------------------------------------
(* Properties *)

(***************************************************************************)
(* Type invariant: every map of a Blockchain covers exactly the accepted   *)
(* blocks, and ids, scores, flags and orphans range over mined blocks.     *)
(***************************************************************************)
BlockchainOK(d) ==
  LET B == Blocks(d)
  IN  /\ B \subseteq Mined /\ Genesis \in B
      /\ d.parents \in [B -> SUBSET B]
      /\ d.past \in [B -> SUBSET B]
      /\ d.blue \in [B -> SUBSET B]
      /\ d.score \in [B -> Nat]
      /\ d.sparent \in [B -> B \cup {NoBlock}]
      /\ d.tips \subseteq B
      /\ d.isBlue \subseteq B
      /\ DOMAIN d.orphans \subseteq Mined
      /\ d.orphans \in [DOMAIN d.orphans -> SUBSET Mined]
      /\ d.next \in 1..IdSpan

TypeOK ==
  /\ Mined \subseteq Nat /\ Genesis \in Mined
  /\ header \in [Mined -> SUBSET Mined]
  /\ DOMAIN chain = Nodes
  /\ \A n \in Nodes : BlockchainOK(chain[n])

\* AddBlock and the cascade of ProcessOrphans leave no orphan behind whose
\* parents are all accepted, and none that is accepted itself.
OrphansWait ==
  \A n \in Nodes : \A o \in DOMAIN chain[n].orphans :
    /\ o \notin Blocks(chain[n])
    /\ ~ (chain[n].orphans[o] \subseteq Blocks(chain[n]))

\* tips, kept up to date by erasing parents and inserting the new block, are
\* exactly the accepted blocks that are in no accepted block's past.
TipsAreChildless ==
  \A n \in Nodes :
    chain[n].tips = {b \in Blocks(chain[n]) :
                       \A c \in Blocks(chain[n]) : b \notin chain[n].past[c]}

\* is_blue of every accepted block is membership in the blue set of the tip
\* SelectTip returns, however many orphans the last call has unlocked.
FlagsFollowTip ==
  \A n \in Nodes : chain[n].isBlue = chain[n].blue[SelectTip(chain[n])]

\* What the greedy colouring of GreedyBlueSet does guarantee: no more than
\* K + 1 blocks of a blue set are pairwise unrelated.
BlueWidth ==
  \A n \in Nodes : \A b \in Blocks(chain[n]) :
    Narrow(chain[n].past, chain[n].blue[b])

\* What the tests and their header say of it (I4): every blue set is a
\* k-cluster, IsKCluster of dag.cc.
BlueSetsAreKClusters ==
  \A n \in Nodes : \A b \in Blocks(chain[n]) :
    \A x \in chain[n].blue[b] :
      Cardinality({y \in chain[n].blue[b] : Unrelated(chain[n].past, x, y)}) <= K

\* Two nodes that both accepted a block gave it the same ancestors, selected
\* parent, blue set and score, whatever the order their blocks came in.
Agreement ==
  \A n, m \in Nodes :
    \A b \in Blocks(chain[n]) \cap Blocks(chain[m]) :
      /\ chain[n].past[b]    = chain[m].past[b]
      /\ chain[n].sparent[b] = chain[m].sparent[b]
      /\ chain[n].blue[b]    = chain[m].blue[b]
      /\ chain[n].score[b]   = chain[m].score[b]

\* The selected parent is a parent of highest score (I6); a block inherits
\* its blue set, adds blocks of its own past only (I13) and outscores every
\* parent (I7).
ExtendsSelectedParent ==
  \A n \in Nodes : \A b \in Blocks(chain[n]) \ {Genesis} :
    LET d  == chain[n]
        sp == d.sparent[b]
    IN  /\ sp \in d.parents[b]
        /\ d.blue[sp] \subseteq d.blue[b]
        /\ d.blue[b] \subseteq d.past[b] \cup {b}
        /\ \A p \in d.parents[b] : d.score[p] <= d.score[sp] /\ d.score[p] < d.score[b]

\* A node can only be left with orphans while a mined block has not reached
\* it: nothing stays orphaned once everything has been delivered (I9).
OrphansMeanMissing ==
  \A n \in Nodes :
    DOMAIN chain[n].orphans # {} =>
      \E b \in Mined : ~ HasBlock(chain[n], b) /\ ~ IsOrphan(chain[n], b)

\* A miner has accepted every block it made, and made no id twice.
MinersHoldTheirOwn ==
  \A n \in Miners :
    \A i \in 1..(IdSpan - 1) :
      BlockId(n, i) \in Mined <=>
        i < chain[n].next /\ HasBlock(chain[n], BlockId(n, i))

\* Recorded data of an accepted block never changes again (I1, I2).
ColouringIsFinal ==
  [][\A n \in Nodes : \A b \in Blocks(chain[n]) :
       /\ b \in Blocks(chain'[n])
       /\ chain'[n].past[b]  = chain[n].past[b]
       /\ chain'[n].blue[b]  = chain[n].blue[b]
       /\ chain'[n].score[b] = chain[n].score[b]]_vars

\* A node never moves its selected tip to one that ranks lower: a call of
\* AddBlock keeps the tip or moves to a higher score, or to a lower id at
\* the same score.
TipNeverRegresses ==
  [][\A n \in Nodes :
       LET t == SelectTip(chain[n])
           u == SelectTip(chain'[n])
       IN  \/ chain'[n].score[u] > chain[n].score[t]
           \/ chain'[n].score[u] = chain[n].score[t] /\ u <= t]_vars
=============================================================================

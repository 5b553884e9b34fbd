# TLA+ project for ghostdagsim

ghostdagsim simulates a block-DAG network (GHOSTDAG, with Graphene compact blocks) on
the ns-3 discrete-event simulator. This directory models its protocol core, checks the
models with TLC on small instances, and proves with TLAPS, for every size, what matters
most of the block DAG, the mempool, the decoding of compact blocks and the peer graph.

## 1. Inventory

Line numbers are those of the source tree next to this directory.

| Component | State | Operations |
|---|---|---|
| `Blockchain` (dag.cc, dag.h) | per accepted block: header, past, blue set, score, selected parent; tips, `is_blue` flags, orphans, `next_block_id` | constructor, `AddBlock`, `ProcessOrphans`, `SelectTip`, `NewlyBlueBlocks`, `ComputeGHOSTDAGOrdering`, queries |
| `GhostDagMiner` (miner.cc) | miner id, next mining event, statistics | `ScheduleNextMiningEvent`, `MineBlock`, `SelectTransactions` |
| Block relay of `GhostDagNode` (node.cc 815-1266) | `m_queue_inv`, `m_inv_timeouts`, `m_graphene_state`, `m_graphene_senders`, `m_graphene_timeouts` | handlers of INV, REQ, BLOCK, GRAPHENE_BLOCK, GRAPHENE_RECOVERY_REQ and _RESP; `InvTimeoutExpired`, `GrapheneRecoveryTimeout`, `BroadcastInvBlock` |
| Transaction relay (node.cc 1268-1545) | known set, `m_queue_inv_tx`, timeout FIFO with one timer, pending batch | handlers of transaction INV, REQ, TX; `FlushInvBatch`, timeout, generation |
| `Mempool` (mempool.cc) | hash buckets, fee index | insert, erase, random choice, choice by fee |
| Connections and framing (node.cc 403-689, 1570-1640) | sockets per peer, pending messages, send queues, receive buffers | connect, send, `HandleSendReady`, `HandleRead` |
| Graphene coding (graphene.cc, thirdparty/iblt.h) | the cells of a table; the state of a decoding attempt is the node's | sizing, encoding and decoding of Bloom filters and IBLTs, `listEntries` |
| Topology and set-up (helpers/, main.cc) | peer graph, devices, addresses | `NodeTopologyHelper`, `NodeHelper`, address assignment |
| Metrics, tests, third-party, build | | |

**How they interact.** A node owns one `Blockchain` and one `Mempool`; a miner is
attached to a node and works on both. A handler runs to its end: the simulator calls one
event at a time, so the interleavings that exist are those of events: messages of
different streams, timeouts, mining. Nodes share no state but what messages carry and
the store of block bodies (`BlockBodyStore`), which is a cache. Chain and mempool of a
node meet in three places: a block is filled from the mempool, a block that comes in
makes its transactions known, and blocks that turn blue erase theirs.
`MineBlock` and `HandleBlock` call `AddBlock` and then `BroadcastInvBlock`;
`HandleBlock` cancels the request's timeout and erases its announcers; the Graphene
handlers end in `HandleBlock` or in a request for the whole block.

**What is hard.** Blocks arrive in any order, children before their parents, and each
node indexes them in its own order; `AddBlock` and `ProcessOrphans` call each other over
a list collected earlier; flags and tips are cached and must follow. In the relay, two
maps describe one pending request, requests time out while their answer is under way, a
compact block can fail to decode in two places, and a node serves blocks that are
orphans to itself. `PROJECT.json` lists these and the other hazards, each at its line.

**What makes each component correct.** *Blockchain*: the data of a block is a function
of its past alone, so nodes agree; no orphan is left that could be accepted; tips and
flags are exact. *Block relay*: bookkeeping in step, no request without an answer, and
every mined block accepted everywhere. *Transaction relay*: a known transaction is not
asked for, an asked-for one is retried until it comes. *Mempool*: buckets and fee index
hold the same transactions; the random choice finds one whenever there is one.
*Framing*: the receiver reads the messages the sender wrote, whole and in order.
*Graphene*: what decodes is the block, and every compact block ends in the block; the
table lists what can be told apart, under the right sign, and ends. *Chain and mempool*:
what blue blocks hold is not mined again, but for what a miner's own blocks turned blue.
*Topology*: links are mutual, installed once, lead to applications, and the construction
ends.

## 2. Modules

| Module | What it is |
|---|---|
| `Blockchain` | the `Blockchain` object as operators on a record: colouring, `AddBlock`, cascade |
| `BlockDag` | nodes with one `Blockchain` each, miners, and a network that may deliver any mined block to any node at any time. It is also the abstract specification of the relay |
| `MCBlockDag` | instance for TLC |
| `BlockRelay` | the relay's handlers over ordered channels, with timeouts and Graphene; implements `BlockDag` |
| `MCBlockRelay` | small networks for TLC |
| `Ordering` | `BlockDag` with the times of blocks: `GetFuture` and `ComputeGHOSTDAGOrdering` against what they should return |
| `Confirmation`, `MCConfirmation` | `Ordering` with block bodies and mempools: which transactions leave a mempool when, and which are mined twice |
| `Mempool`, `MCMempool` | buckets and fee index of one mempool, the probing search, the two ways of selecting transactions |
| `Channel` | abstract specification: what a connection promises to the handlers |
| `Framing`, `MCFraming` | sockets, queues, frames and their reassembly; implements `Channel` |
| `TxRelay`, `MCTxRelay` | transaction relay between nodes, with the effects of mining and of incoming blocks |
| `Listing` | what an IBLT tells of the transactions in it, as operators on sets |
| `Peeling` | abstract specification: entries are peeled in any order while one has a cell to itself |
| `Iblt`, `MCIblt` | the cells of iblt.h: inserting, subtracting and the passes of `listEntries`; implements `Peeling` |
| `Graphene`, `MCGraphene` | how one node decodes one compact block: both protocols and ping-pong, over `Listing` |
| `Topology`, `MCTopology` | how the peer graph, its devices and its addresses are made |
| `FiniteLemmas` | lemmas on finite sets, induction and recursive functions |
| `BlockDag_proofs`, `BlockRelay_proofs`, `Confirmation_proofs`, `Mempool_proofs`, `Graphene_proofs`, `Network_proofs`, `TxRelay_proofs` | theorems, see section 5 |

How the modules fit together: `Framing` implements `Channel`, and a `Channel` whose
attempts to connect succeed is what `BlockRelay` and `TxRelay` have between each two
nodes. `BlockRelay` implements `BlockDag`. It leaves open whether a compact block
decodes, and `Graphene` says when it does and that what decodes is the block. `Graphene`
reckons with tables as `Listing` defines them; `Iblt` implements `Peeling`, and
`PeelingIsOrderFree` (in `Graphene_proofs`) says that whatever `Peeling` lists is what
`Listing` says. `TxRelay` keeps of a mempool the set of its transactions, `Mempool` says
what the two indexes make of such a set. `TxRelay` leaves open which blocks are blue and
`Confirmation` how transactions travel; each has in full what the other leaves open.
`Topology` makes the peer graph that the relays take as a constant.

### Blockchain and BlockDag

A `Blockchain` value has one map per per-block attribute; the code's bit sets over
insertion indices (`past_`, `blue_`) are sets of block ids. `Record` is the part of
`AddBlock` behind the orphan check, `Reflag` the pass over `is_blue` at its end,
`Insert` the two together. `ProcessOrphans` collects the ready orphans in id order and
calls `AddBlock` on each, and each call ends in a `ProcessOrphans` of its own. An inner
call adopts the lowest ready orphan first and leaves none ready, so the recursion
amounts to adopting the lowest ready orphan until there is none, which is how the module
writes it. `TopologicalSort` is Kahn's queue as the sequence of blocks taken and still
queued.

`GreedyBlueSet` is given a `View`: the data of the block's ancestors and nothing else.
That the code reads nothing else is what agreement between nodes rests on, and the
mutant `ViewOfAll` shows that it matters. Block ids are `minerId << 32 | next_block_id`;
`IdSpan` stands for 2^32 and `MaxBlocks` bounds the blocks of each miner.

### BlockRelay

`net[m][n]` is the stream of messages from m to n, in order and without loss (one TCP
connection; what a failed connection loses is in `Framing`).
`HandleBlockFrom` is `HandleBlock` with everything it calls; it is used by BLOCK,
GRAPHENE_BLOCK and GRAPHENE_RECOVERY_RESP as in the code. Whether a compact block
decodes, and whether a node answers with one, depends on mempools and hash collisions
and is a free choice. The random choice of the next announcer in `InvTimeoutExpired` is
a choice over all of them. `SlowAnswers = FALSE` describes networks whose answers always
beat the timeout.

`BlockRelay` extends `BlockDag` by the network and the books of each node, and the
variables `header` and `chain` stay those of `BlockDag`. The refinement mapping is so
the identity, and `DagSpec`, which the `relay` run checks and `BlockRelay_proofs`
proves, is the specification of `BlockDag`: each step of the relay is a `MineBlock`
step, a `HandleBlock` step, or leaves both variables alone.

### Ordering

`created` gives each block its rank in time, since no two blocks of a run are made at
the same moment. The priority queue of `ComputeGHOSTDAGOrdering` is the set of blocks
whose parents are all taken; its top is the first by score, time and id. The two queries
are recursive functions over the number of blocks taken or levels walked.

### Confirmation

`Ordering` with the body of each block and, for each node, the transactions in its
mempool and those it knows. `MineBody` is `MineBlock` with `SelectTransactions`: what it
selects leaves the mempool, and blocks that its own block turns blue are not looked at
(miner.cc:202). `HandleBody` is `HandleBlock` with the erasure of what `NewlyBlue`
returns: the colours before `AddBlock` against those after it, a cascade of orphans and
older blocks that turn blue included. A transaction comes to a node at any time or
never, so a mempool's bound needs no action of its own.

### Mempool

A list node is an item with a serial number; the serial orders a bucket (newest first,
as `push_front` leaves it) and equal fees in the multimap (oldest first). The iterators
in the multimap are pairs of an item and its bucket, so a dangling iterator is a pair
without its item. `Probed` is the search of `getRandomTransaction` and
`eraseRandomTransactions`, down and up from a random bucket with indices that wrap at
both ends.

### Framing

One direction between two nodes. A byte is a pair of a frame and a position, so that
reassembly errors are visible; the bytes of the prefix, the payload and the padding are
told apart only by position, as the reader does. Sizes are constants: the MC module has
an inline padded frame, a frame too large for its modelled size whose payload travels as
a tag, and one that fits to the byte. `HandleSendReady` writes as much as there is room,
`Read` takes any number of bytes and runs the whole loop of `HandleRead`. Sender and
reader may each stop for good, which drops what they keep in maps and leaves what TCP
has. TCP is external: attempts succeed or fail, and a connection that is up does not
break (the source handles neither its close nor its errors, it only logs them).

### TxRelay

Deadlines are the number of requests made before, since the timeout is the same for all;
requests of one message share an entry. `ProcessTxTimeouts` handles as many expired
entries as it likes, at least one (which deadlines have passed by then is a matter of
time), and re-arms the timer. `SlowRequests` bounds how many of a node's requests may
time out while something is under way. `leftOut` is history: who was passed over by a
batch with a transaction it did not know. A miner may generate transactions too (section
4). `MineTransactions` and `HandleBlockBody` are what `MineBlock` and `HandleBlock` do
to the mempool and the known set; which transactions are selected, and which blocks turn
blue, is open.

### Listing, Peeling and Iblt

The xor of the keys in a cell is the set of those inserted an odd number of times, and
likewise the xor of values; checks of keys do not collide. `Iblt` makes the sender's
table with its rounding, the receiver's of the same size, and subtracts; `Look` is one
turn of the inner loop of `listEntries`, which may take an entry out of cells before and
behind the one looked at, and `EndPass` the end of a pass. The value of a cell goes to
`_insert` by reference while `_insert` changes that cell, so cells of later hashes are
given what is left of it: `Look` models that, and the mapping to `Peeling` forgets
values, as both callers of `listEntries` do.

`Peeling` says what this amounts to: as long as an entry is alone in one of its cells it
may be listed, and the answer is whether none is left. `Listing` says where it ends: an
entry is listed unless it is in a set of entries each of whose cells holds another one
of them (`Core`).

### Graphene

One node, one block, and peers that know the block. A Bloom filter is any superset of
what was put in; an IBLT is the count of each transaction and the cells it is hashed to,
listed as `Listing` says. Each call of `TryPingPong` is a step, and its depth is
compared with the size of the table that is `first` in that call (`TableSizes`, four and
six cells in the run). The mempool of the receiver changes between messages, so its
candidates are chosen anew for each.

### Topology

One action per loop body of the constructor: a try of the loop that draws peers is
`TryPeer`, the end of a node's loop `NextNode`. A draw by `rand()` is any member of the
pool. The 10 tries per connection and the 700 to 800 connections of a miner are
constants. `TopologyAssumption` has `min_conn` at most `max_conn`, as
`uniform_int_distribution` asks; main.cc does not check it, and a run with the two
swapped is undefined and not modelled.

## 3. Runs

| Run | What it shows |
|---|---|
| `dag_safety` | three miners, five blocks, K = 1, any delivery order: orphan cascade, tips, flags, agreement, finality |
| `dag_kcluster` | (violation) blue sets are not k-clusters |
| `relay` | two blocks over a triangle with a tail, answers slower than their timeout: answerable requests for missing blocks only, single announcement, refinement of `BlockDag`, delivery |
| `relay_graphene` | one compact block over a diamond, decoding failures at every place, both kinds of timeout: the two maps of a request in step, synchrony when quiet, delivery |
| `mempool` | three buckets, three transactions, two of them in one bucket, equal fees: the indexes agree, every search finds, selections are as large as they should be |
| `framing` | four messages of three kinds, frames longer than the send buffer, reads of any size, failed attempts, either end stops: the refinement of `Channel`, no corrupt prefix, everything sent is handled |
| `tx_relay` | two sources on a triangle, mempools of one, a slow answer at each node, one block with transactions: timer, single announcement, arrival |
| `graphene` | four transactions, two compact blocks, late answers: exact decoding, what ping-pong can decode, and every compact block ends in the block |
| `confirmation` | five blocks of two miners, two transactions, any delivery order: the order is topological and alike at all nodes, the walk to the future finds what the pasts say, and what mempools may still hold of blue blocks |
| `iblt` | three keys, every way two hashes place them, every pair of sets: the refinement of `Peeling`, and the listing ends |
| `iblt_sizes` | (violation) the assertion on the size of values does not hold |
| `topology` | four nodes, two of them miners, two ranges of connections, every draw: the peer graph is sound, its links and addresses fit it, and the construction ends |

`TypeOK`, `ExtendsSelectedParent`, `MinersHoldTheirOwn`, `MempoolTypeOK`,
`GrapheneTypeOK` and `PoolNeverEmpty` are in no run: they are proved, and no run is
needed for them.

**Bounds.** Five blocks of three miners are the least with which a wide merge, an orphan
cascade of length two and a merge of merges can all occur, and K = 1 is the least K that
keeps some merged blocks blue and turns others red. `dag_kcluster` needs K = 2, since
with K = 1 the violating shape takes more blocks. In `relay`, node 3 hangs on node 2
alone, so it hears of the second block from a node that may hold it only as an orphan;
node 2 hears of every block from two sides, so announcer queues of length two, their
rotation and giving up all happen. A second miner would add orders that `dag_safety`
covers at the DAG level. Compact blocks multiply the states: `relay_graphene` has one
block and a diamond, in which the far node has two announcers, and so two recovery
attempts, to choose from.

`confirmation` has three blocks of one miner and two of the other, so that a block of
one turns blue by a later block of the other and red again by a third, blocks of equal
score are ordered by time, and a miner mines on top of blocks that its own block turned
blue; two transactions with one to a block let a miner repeat one and take a fresh one.
Three buckets are the least at which down and up from a start differ from a full circle.
In `framing` the prefix has two bytes and the buffer three, so that every frame is cut,
a prefix too, and a buffer can hold the end of one frame and the start of the next; two
attempts to connect allow one failure and a later success, and the fourth message may be
the one that a frame filled to the byte waits for. In `tx_relay` a triangle gives each
node two announcers, and mempools of one transaction are full as soon as possible; with
two sources a batch may hold a transaction that the peer it leaves out does not know.
The first request of each node may be slow, later ones time out when nothing is under
way. Four transactions are the least for ping-pong to succeed in more than one round,
and two requests let an answer to the first attempt meet the second one. In `iblt` two
hashes with two cells each give three keys every shape that matters: alone, two that
share one cell or both, and a chain that takes several passes; an expected number of two
with overhead 3/2 is rounded up to four. Four nodes with two miners are the least for
which ordinary nodes compete for each other and for miners, and three tries let a node
end its loop by count as well as by being full. The mutants (below) show that the bounds
reach the case in question.

**Deadlock** is not checked in runs whose system rightly stops: mining, insertions,
messages and requests are bounded, and when all of them have been made and handled
nothing is left to do.

**Fairness.** The simulator executes its event queue until it is empty, so what is in
the queue happens in the end; a function that runs, runs on.

* `Framing`: TCP delivers what it was given, calls back when there is room, and an
  attempt to connect ends, one way or the other: `WF_stream(TakeBytes)`,
  `WF_stream(AddBytes)`, `WF_socket(ConnectingEnds)`. These are what the actions do to
  the stream and to the socket, so that TLC need not evaluate the whole of `HandleRead`
  to know whether it is enabled.
* `Iblt` and `Topology` are sequential: weak fairness of the next-state relation.
* `BlockRelay`: messages under way are delivered in the end. `Delivery` is weak fairness
  of the delivery of any message, written out as "infinitely often nothing under way, or
  infinitely often a message read", which is the same since some message can be read
  whenever one is under way, and which spares TLC the evaluation of `ENABLED` (with
  `WF_` the `relay` run takes hours instead of a minute). Nothing is required of miners
  or of timeouts: every block that is mined arrives even when timeouts fire at the worst
  moment or never.
* `TxRelay` (`TxProgress`, written out likewise): messages are read, batch events and
  the timer fire. The timer is the only way to a second announcer; blocks are not
  required to arrive.
* `Graphene` (`GrapheneProgress`, written out likewise): the block or a compact block
  that is under way comes in, the recovery timeout fires, `TryPingPong` runs on; nothing
  obliges recovery messages to arrive.

**Mutants.** For every property of every passing run a `Mutant of ...` operator stands
before the definition it alters, and `PROJECT.json` pairs the two; the altered model
violates the property.

## 4. Findings

Two are checked, each by a run that finds the violation:

* `GreedyBlueSet` checks that a candidate has at most K blues in its anticone and does
  not check what it adds to the anticones of the blues already there. The test header
  (tests/ghostdagtest.cc:4) says every blue set is a k-cluster; the run finds a block
  that has more than K. What the code does guarantee is `BlueWidth`: at most K + 1
  pairwise unrelated blocks.
* Tables are made for values of `IBLT_VALUE_SIZE` = 12 bytes (graphene.h:115), and every
  value inserted is `U64ToVec(id)`, which has 8. `assert(v.size() == valueSize)`
  (iblt.h:302) fails on the first insertion when assertions are compiled in. Nothing
  else reads `valueSize`, so an optimised build works.

Others follow from the code, or from the code and its libraries, and are described
rather than checked:

* node.cc:930 says that a duplicate block "should never happen". It happens when an
  answer is slower than the request's timeout, which `relay` covers; the early return
  handles it, and `DagSpec` shows that a block is still taken in once.
* A frame whose payload ends with the frame (no padding) is handled only when the next
  byte is read: the reader's loop ends with the data (node.cc:430) before it looks
  whether the frame is complete. It takes a message whose modelled size is exactly
  prefix plus payload; `AllHandled` says that such a message, and no other, may wait for
  the next one.
* main.cc:219 says that only non-miners generate transactions, and reckons the offered
  load so. The constructor of `GhostDagMiner` turns generation off (miner.cc:82), but
  ns-3 gives attributes their values after the constructor has run, and the default of
  the attribute `GenerateTransactions` (node.cc:187) is true; nobody sets it. So miners
  generate as well. `TxRelay` therefore allows a node to be both.
* `FlushInvBatch` leaves out of a whole batch the peer whose message started it, though
  the batch may hold transactions that peer never saw. `EveryTxArrives` shows that this,
  and blocks that take a transaction along, are all that keep one from a node.
* A miner may mine a transaction again that a blue block has: `MineBlock` does not look
  at the blocks its own block turns blue. `StaleOnlyByOwnBlock` and
  `RepeatsOnlyAfterOwnBlock` show that it happens in no other way. And a transaction
  erased with a block that turned red again is not put back.
* The values that `listEntries` returns with the keys may be wrong (the reference above,
  iblt.h:413); the keys and the answer are right, and no caller reads the values.
* A transaction that was sent as missing ends as a "false positive" of ping-pong
  (graphene.cc:477); ping-pong then fails, as `PingPongNeedsNothingMissing` says, and
  the block is asked for whole.
* A node whose candidates are all full, or whose tries are used up, stays below
  `min_conn`.

## 5. Proofs

All theorems hold for every value of their module's constants under its named
assumptions. TLC evaluates these in each run. For the block DAG: any `Nodes`, `Miners`,
`K`, `IdSpan` and `MaxBlocks` under `KIsNat`, `NodesAreNat`, `MinersAreNodes` and
`IdsFit`.

`BlockDag_proofs` proves each invariant of `dag_safety`, both action properties,
`ExtendsSelectedParent` and `MinersHoldTheirOwn`. None is inductive alone. The inductive
invariant `IInv` adds: the recorded header of a block agrees with `header`; pasts are
transitively closed and contain no block that contains them; the recorded colouring of
every block is `Colouring` of the view of its past; ids are bounded by the miner's
counter. The argument has three layers:

1. `FiniteLemmas`: induction on finite sets and on naturals, iteration of a step
   function, recursive functions that keep an invariant, least elements.
2. One `Blockchain` value: `Record`, `Reflag`, `Insert` and `Adopt` preserve the
   invariant. The turns of `ProcessOrphans` are counted by induction over the naturals
   on an explicit set of "good" values, ending with no ready orphan, because each turn
   takes one orphan away. `BlueWidth` is an induction over the candidates: the last
   block of an antichain to be coloured has all the others in its blue anticone.
   Agreement follows because `Colouring` is a function of the view, and two nodes' views
   of one past are equal, by induction over the size of the past.
3. All nodes: `MineBlock` and `HandleBlock` preserve the invariant, and each theorem is
   read off it. For `OrphansMeanMissing`, `Grounded` says that among any mined blocks
   there is one none of whose parents is among them. Of a node's orphans it is one that
   waits for no other orphan, so for a block that the node misses.

`BlockRelay_proofs` proves that the relay implements `BlockDag` and every invariant of
the two relay runs, on any network and for any number of slow answers.
`QuietMeansSynced` has the hypothesis `Connected` (there is a path from each node to
each other one), which TLC evaluates for the networks of the runs. The invariant
is `RelayInv`, and a handler is first brought to one of a few shapes (`Does`): what it
reads, what it sends to whom, and which of the books it changes. Then each part of the
invariant is shown for the shapes:

* `Typed`: the books name mined blocks that the node does not hold, announcers are never
  an empty queue, a timer runs for each request; headers in messages are the block's.
* `Answerable`: each message has its block at one of its ends, and each announcer or
  sender in the books holds the block. Nobody ever loses a block, so it stays so.
* `AnnouncedSingly`: a peer's announcement of a block is under way at most once or
  booked at most once, not both. A node announces a block when it first holds it, and
  what it announces it held.
* `NothingLost`: of a block that a peer holds, an announcement is under way, or the node
  holds it, or it is `Coming`: a request, an answer or a recovery attempt is under way.
  In a quiet state nothing is, so neighbours hold the same blocks, hence all nodes; and
  a node that holds all blocks has no orphans (`OrphansMeanMissing`).

`Confirmation_proofs` proves the three properties of `Ordering` for `OrderingSpec`, and
that `ConfirmationSpec` implements it (`ConfirmationImplementsOrdering`). The turns of
both queries are recursive functions, whose existence is the lemma `Recursion`. The set
that `GetFuture` collects only grows, so after as many turns as there are blocks it is
closed under children; that a block with `b` in its past is in a closed set follows from
`Grounded`, applied to the blocks that are not. The order is an `IsGreedy` sequence:
each block comes after its parents and goes before every other block that could have
been taken. If two nodes took shared pairs the other way round (`GreedyAgree`), let x be
the first block of the one order that is in such a pair, and y the first of the other
order that is in one with x. The nodes share the parents of both, and neither node has
put one of them behind the block it took, or the pair of this parent would be an earlier
one. So the first node could have taken y when it took x, and the second x when it took
y; but `Precedes` says the same to both, since scores are part of `Agreement` and the
times are in the headers.

The same module proves `StaleOnlyByOwnBlock` and `RepeatsOnlyAfterOwnBlock` for
any number of miners, transactions and blocks. The step that matters is `MineBody`: a
miner's own block lies on all its tips, so after it every accepted block is in the past
of a block of its own, and whatever `MineBody` has turned blue without looking at
mempools is excused by it (`OwnBlock`). `ConfirmationInv` adds that the bodies of held
blocks are known to the node and that what a miner has spent in its own blocks is
neither in its mempool nor comes back. What the miner saw when it made a block is what
every other node records of it, by `Agreement`.

`Mempool_proofs` proves type correctness, `IndexesAgree`, `EveryStartFinds` and
`SelectionsAreWhole`, for any number of buckets and any hash. The invariant `PoolInv`
adds that serial numbers are bounded by the counter, hence fresh for each insertion and
different for different items, and that the stored items are finite. The search is the
lemma `Coverage`: from each start each bucket is met within `arrSize / 2 + 1` turns,
going down or going up. A selection is a run of picks, and `PicksDiffer` counts them: as
long as each pick is new while anything is left, the run is as long as it should be. A
random pick is new by `Coverage` on what is left; a pick from the fee index is new
because serials tell items with equal fees apart, so a highest one exists
(`HighestProperty`).

`Graphene_proofs` proves `DecodedIsExact` for any transactions, placements and numbers
of requests. Without ping-pong it rests on `AdjustedIsExact`: a difference listed in
full turns the set subtracted into the other. With ping-pong the invariant `GrapheneInv`
says of each transaction that its counts in the two tables differ by 0, or by 1 if it
was sent as missing, and that one on which they agree is either untouched, or listed
once and settled correctly. When both tables are empty, nothing was missing and
everything is settled. `MissingDefeatsPingPong` is the other half: what the tables
disagree on is what was sent as missing, and canceling in both keeps it.

It also proves `ListsAllButTheCore` of `Peeling`, for any transactions, cells, counts:
the order of peeling does not matter. The invariant says that what was listed is outside
the core, under its sign: an entry alone in a cell among those left cannot be in a set
of entries that are stuck, since the core is always among those left. When no entry has
a cell to itself, those left are themselves stuck, hence the core.

`CellsPeel` of the same module proves that `Iblt` implements `Peeling`, for any finite
set of keys, any number of hashes, any sizes and any values: together, they are why
`Graphene` may reckon with `Listing`. The invariant `IbltInv` says what is in a cell
(`Has`): its count is the number of entries there that are left of the sender's, less
those of the receiver's, and the xor of its keys is the set of both. So a cell is pure
if and only if one entry is alone in it, and the count is the sign of that entry
(`PureCell`). Tables are made by inserting one key after the other (`WithAllHas`, a fold
over a set, which is unfolded by `RemovalInduction`), subtracting leaves what is in one
table only (`MinusHas`), and inserting a listed entry with its count turned round takes
it out of its cells (`InsertOld`), those before the cursor too. A pass that has taken
nothing out has therefore left the table as it was, and at its end no cell is pure:
no entry left has a cell to itself. That the cells of the first hash are empty then says
that nothing is left, since each entry has a cell there.

`TxRelay_proofs` proves `TxTypeOK`, `OneTimerServesAll` and `TxAnnouncedOnce` on any
network, for any number of transactions, blocks and requests that time out. `TxInv` is
their strengthening, in three parts. Handlers are first brought to shapes (`InvShape`,
`TxsShape`, `TimeoutShape`) that say which requests are new, over or made again.

* `Typed`: messages name finitely many transactions, announcers are never an empty
  queue, and what waits to be announced is known.
* `Timers`: deadlines are below the node's next one, so that a new one goes behind all
  others; each request in flight has a live entry under its deadline and in no other,
  and the timer is armed exactly while there are entries.
  An announcement, and a timeout that asks others, put one new entry behind what they
  leave of the queue, for exactly the requests made or made again
  (`RequestingKeepsTimers`); transactions that arrive only make entries stale.
* `Singly`: of a node and a transaction, an announcement is still to be made, or it is
  under way once, or booked once, or gone. It is still to be made while the transaction
  is unknown to the node or in its batch, and nodes never forget what they knew. A
  timeout only drops announcers and rotates the others (`RotatingBooked`).

`Network_proofs` proves the three safety properties of `Topology` for any number of
nodes, miners and tries and any ranges. `DrawingInv` is for `PoolNeverEmpty` and
`PeerGraphIsSound` (`LinksAreMutual` and `DegreesAreBounded`): a node outside the pool
is full and a node's minimum is at most its maximum, so a node that still wants peers is
itself in the pool. `BuildInv` is for `AddressesLeadToPeers`:

* The mesh of the miners stays in front of their lists, which only grow at their ends
  (`MeshStays`); so the loop over the first entries meets each other miner once.
* The devices list, each once, the pairs of peers that the two loops have come to
  (`DevicesFit`): what a node adds is not there yet, as its lower end is the node and
  the node was not visited before. At the end of the second loop these are all pairs.
* A node's addresses list, each once, what the devices visited so far tell it
  (`AddressesFit`). In the end the owners of a node's addresses therefore list its peers
  once each, like its list of peers, and two such lists have the same length.

The same module proves `NeverCorrupt` of `Framing` and that `Framing` implements
`Channel` (`ConnectionIsChannel`), for any messages, any sizes of prefix, messages and
send buffer, and any way of TCP to cut the stream into chunks. `FramingInv` says where
in the sequence of messages sent each byte has its place:

* `SocketInv`: the bytes in the socket are a stretch of the messages' frames, and the
  packets queued go on where it ends, up to the end of the last message sent. `DoSend`
  moves the border (`WriteOneInTurn`), an attempt that succeeds frames what is pending
  behind what is queued.
* `InPlace`: the reader is where the bytes in the socket begin. It either has the first
  bytes of a prefix (`Opening`) or is past it, and then what it reckons as left of body
  and payload is what is left of that frame (`Inside`).
* `HandledSoFar`: what it handed to the handlers are the messages before that place.

A read is a loop over a chunk, a recursive function. Its turns are the cases of
`TurnCase`, one for each branch of the code, and each keeps the reader in its place; the
lemma `CourseExists` of `FiniteLemmas` carries this to the end of the chunk. A corrupt
prefix would be one that differs from the frame in whose place it is read, so there is
none.

Only model-checked: every liveness property, as fairness is out of reach of the prover.
Each safety property, action property and refinement of the passing runs is stated by a
theorem.

## 6. Not modelled, and plan

Not modelled:

* The sizes of Graphene's filters and tables: `OptimalSymDiff`, `SearchX`, `CBbound`,
  the rates of `BuildRecoveryBloom` and the table of parameters in iblt.h are searches
  in floating point, and decide how often decoding fails, which the models leave open.
  The bits of a Bloom filter (any superset of what was put in stands for it), hash
  collisions of key checks, `IBLT::get` and `peelEntries` (never called), JSON and CBOR.
* `BlockBodyStore`. A body is replaced by the one interned under the same id when number
  and xor of transaction ids agree; that the two are then the same rests on
  `DecodedIsExact`.
* A connection that breaks after it was up: links of the simulation do not fail, and the
  code does not react.
* When blocks are mined and transactions generated, and when mining stops: the models
  let them happen at any time, or no more. Propagation times, regions, bandwidths and
  latencies decide which of the modelled orders happens. Metrics and statistics are only
  reported.
* Which process of a parallel run has which node, the command line, tests, build files,
  and the JSON and Bloom filter libraries. json.h alone has three quarters of the lines
  of the repository.

Planned, in this order:

1. The tables' sizes in `graphene.cc`, on small integers in place of floating point.
2. A `BlockBodyStore` of its own, with bodies interned under the same id.

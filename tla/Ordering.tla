------------------------------ MODULE Ordering ------------------------------
(***************************************************************************)
(* The queries of dag.cc that walk the DAG of one node: GetFuture and      *)
(* ComputeGHOSTDAGOrdering, on the DAGs that BlockDag reaches.  The order  *)
(* looks at header.time_created, so BlockDag gets a clock: `created' gives *)
(* each mined block its rank in time (no two blocks are made at once).     *)
(***************************************************************************)
EXTENDS BlockDag

VARIABLE created
orderingVars == <<header, chain, created>>

OrderingInit == Init /\ created = [b \in {Genesis} |-> 0]

\* A block carries its time of creation in its header from then on.
Stamp == created' = [b \in DOMAIN header' |->
                       IF b \in DOMAIN created THEN created[b]
                                               ELSE Cardinality(DOMAIN header)]

OrderingNext == Next /\ Stamp
OrderingSpec == OrderingInit /\ [][OrderingNext]_orderingVars

Children(d, b) == {c \in Blocks(d) : b \in d.parents[c]}

\* Mutant of GetFuture: the queue is not worked off.
OnlyChildren(d, b) == Children(d, b)

\* A breadth-first walk along the children: one level at each turn.
GetFuture(d, b) ==
  LET future[i \in 0 .. Cardinality(Blocks(d))] ==
        IF i = 0 THEN Children(d, b)
        ELSE LET found == future[i - 1]
             IN  found \cup UNION {Children(d, c) : c \in found}
  IN  future[Cardinality(Blocks(d))]

\* Mutant of Precedes: blocks that are blue to this node go first.
BlueFirst(d, time, a, b) ==
  \/ a \in d.isBlue /\ b \notin d.isBlue
  \/ (a \in d.isBlue <=> b \in d.isBlue) /\ time[a] < time[b]

\* The comparison of the priority queue: blue score, time, id.
Precedes(d, time, a, b) ==
  \/ d.score[a] > d.score[b]
  \/ d.score[a] = d.score[b] /\ time[a] < time[b]
  \/ d.score[a] = d.score[b] /\ time[a] = time[b] /\ a < b

\* Mutant of Queued: a block is pushed with its first parent.
QueuedEarly(d, done) ==
  {b \in Blocks(d) \ done : d.parents[b] = {} \/ d.parents[b] \cap done # {}}

\* The queue once the blocks of done are taken: in-degree zero.
Queued(d, done) == {b \in Blocks(d) \ done : d.parents[b] \subseteq done}

Members(order) == {order[i] : i \in 1 .. Len(order)}

ComputeGHOSTDAGOrdering(d, time) ==
  LET First(q) == CHOOSE a \in q : \A b \in q \ {a} : Precedes(d, time, a, b)
      order[i \in 0 .. Cardinality(Blocks(d))] ==
        IF i = 0 THEN <<>>
        ELSE LET taken == order[i - 1]
                 queue == Queued(d, Members(taken))
             IN  IF queue = {} THEN taken ELSE Append(taken, First(queue))
  IN  order[Cardinality(Blocks(d))]

-----------------------------------------------------------------------------
\* (I8) The walk along the children finds the blocks whose past has b.
FutureIsConverse ==
  \A n \in Nodes : \A b \in Blocks(chain[n]) :
    GetFuture(chain[n], b) = {a \in Blocks(chain[n]) : b \in chain[n].past[a]}

\* (I14) Every accepted block is ordered, once, after its parents.
OrderingIsTopological ==
  \A n \in Nodes :
    LET d     == chain[n]
        order == ComputeGHOSTDAGOrdering(d, created)
    IN  /\ Len(order) = Cardinality(Blocks(d)) /\ Members(order) = Blocks(d)
        /\ \A i, j \in 1 .. Len(order) : order[i] \in d.parents[order[j]] => i < j

\* Is a before b in the order?
InOrder(order, a, b) ==
  \E j \in 1 .. Len(order) : order[j] = b /\ \E i \in 1 .. j - 1 : order[i] = a

\* Two nodes order the blocks both have alike, whatever else each of them
\* has and in whatever order their blocks came.
OrderingsAgree ==
  \A m, n \in Nodes : m < n =>
    LET here  == ComputeGHOSTDAGOrdering(chain[m], created)
        there == ComputeGHOSTDAGOrdering(chain[n], created)
    IN  \A a, b \in Blocks(chain[m]) \cap Blocks(chain[n]) :
          InOrder(here, a, b) <=> InOrder(there, a, b)

=============================================================================

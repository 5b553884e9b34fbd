------------------------------ MODULE Topology ------------------------------
(***************************************************************************)
(* How a run's network is built (helpers/node-topology-helper.cc, the      *)
(* address helper it uses and the part of main.cc that hands the result to *)
(* the applications): miners are drawn, linked to each other, then miners  *)
(* and after them all nodes draw peers at random, within a bounded number  *)
(* of tries, until they have as many as they want; every link gets one     *)
(* device and one network, and every node is told its peers' addresses.    *)
(*                                                                         *)
(* A candidate drawn by rand() is any member of the pool `nodes'.  Regions,*)
(* bandwidths and latencies are left out: nothing below depends on them.   *)
(***************************************************************************)
EXTENDS Integers, Sequences, FiniteSets

CONSTANTS
  TotalNoNodes, NoMiners,
  Ranges,           \* the <<least, most>> connections a node may draw: one
                    \* pair when min_conn and max_conn are given, one pair
                    \* per outcome of the connections distribution otherwise
  MinPerMiner, MaxPerMiner,    \* 700 and 800 in the source
  TriesPerConnection           \* 10 in the source

Nodes == 0 .. TotalNoNodes - 1

\* least <= most is what uniform_int_distribution asks of its caller; that the
\* min_conn and max_conn of the command line are in this order is not checked.
ASSUME TopologyAssumption ==
  /\ TotalNoNodes \in Nat /\ NoMiners \in 1 .. TotalNoNodes
  /\ Ranges # {} /\ Ranges \subseteq Nat \X Nat
  /\ \A r \in Ranges : 1 <= r[1] /\ r[1] <= r[2]
  /\ MinPerMiner \in Nat /\ MaxPerMiner \in Nat /\ MinPerMiner <= MaxPerMiner
  /\ TriesPerConnection \in Nat

VARIABLES
  pc,           \* the part of the constructor, and of main, that runs
  nodes,        \* the pool that candidates are drawn from
  miners,
  minConnections, maxConnections,
  connections,  \* m_nodesConnections: node -> its peers, oldest first
  todo,         \* the nodes the current loop has yet to visit
  count,        \* the tries of the node being visited
  devices,      \* m_devices: the links installed, as <<end, other end>>
  ips,          \* m_nodesConnectionsIps: node -> its peers' addresses
  applications  \* the nodes an application is installed on
vars == <<pc, nodes, miners, minConnections, maxConnections, connections,
          todo, count, devices, ips, applications>>

Phases == {"miners", "minerPeers", "nodePeers", "minerLinks", "nodeLinks",
           "addresses", "applications", "done"}

Least(S) == CHOOSE x \in S : \A y \in S : x <= y
Current == Least(todo)
Degree(n) == Len(connections[n])
Peers(n) == {connections[n][k] : k \in 1 .. Degree(n)}

Init ==
  /\ pc = "miners" /\ nodes = Nodes /\ miners = {}
  /\ minConnections = [n \in Nodes |-> 0]
  /\ maxConnections = [n \in Nodes |-> 0]
  /\ connections = [n \in Nodes |-> <<>>]
  /\ todo = {} /\ count = 0 /\ devices = <<>>
  /\ ips = [n \in Nodes |-> <<>>] /\ applications = {}

\* No miner is chosen twice: a chosen one leaves the pool.
ChooseMiner ==
  /\ pc = "miners" /\ Cardinality(miners) < NoMiners
  /\ \E n \in nodes : miners' = miners \cup {n} /\ nodes' = nodes \ {n}
  /\ UNCHANGED <<pc, minConnections, maxConnections, connections, todo,
                 count, devices, ips, applications>>

\* The lists after the miners' mesh: each miner's holds the other miners, in
\* the order of the (sorted) miners, and every other node's is empty.
Meshes ==
  {mesh \in [Nodes -> {<<>>} \cup [1 .. NoMiners - 1 -> miners]] :
     \A n \in Nodes :
       /\ n \notin miners => mesh[n] = <<>>
       /\ n \in miners =>
            /\ DOMAIN mesh[n] = 1 .. NoMiners - 1
            /\ {mesh[n][k] : k \in 1 .. NoMiners - 1} = miners \ {n}
            /\ \A j, k \in 1 .. NoMiners - 1 : j < k => mesh[n][j] < mesh[n][k]}

\* The miners' full mesh, the pool of all nodes, and each node's bounds.
InterconnectMiners ==
  /\ pc = "miners" /\ Cardinality(miners) = NoMiners
  /\ connections' \in Meshes
  /\ nodes' = Nodes
  /\ \E range \in [Nodes -> Ranges] :
       /\ maxConnections' = [n \in Nodes |->
            IF n \in miners THEN MaxPerMiner ELSE range[n][2]]
       /\ minConnections' \in
            {f \in [Nodes -> {MinPerMiner} \cup
                             UNION {r[1] .. r[2] : r \in Ranges}] :
               \A n \in Nodes : IF n \in miners
                                THEN f[n] = MinPerMiner
                                ELSE f[n] \in range[n][1] .. range[n][2]}
  /\ pc' = "minerPeers" /\ todo' = miners
  /\ UNCHANGED <<miners, count, devices, ips, applications>>

\* The condition of the drawing loop.
Wants(i) ==
  /\ Degree(i) < minConnections[i]
  /\ count < TriesPerConnection * minConnections[i]

\* Mutant of Accepts: the candidate's list is not searched.
AcceptsAgain(i, candidate) ==
  candidate # i /\ Degree(candidate) < maxConnections[candidate]

\* A candidate becomes a peer unless it is the node itself, is a peer
\* already, or is full.
Accepts(i, candidate) ==
  /\ candidate # i
  /\ candidate \notin Peers(i)
  /\ Degree(candidate) < maxConnections[candidate]

\* Mutant of AfterLink: a linked candidate is not drawn again.
LinkedOnce(candidate) == nodes \ {candidate}

\* The candidate leaves the pool when the link filled it; the node that
\* drew it stays, full or not.
AfterLink(candidate) ==
  IF Degree(candidate) + 1 = maxConnections[candidate]
  THEN nodes \ {candidate} ELSE nodes

\* One turn of the drawing loop; a try counts whether it succeeds or not.
TryPeer ==
  /\ pc \in {"minerPeers", "nodePeers"} /\ todo # {} /\ Wants(Current)
  /\ \E candidate \in nodes :
       IF Accepts(Current, candidate)
       THEN /\ connections' = [connections EXCEPT
                 ![Current] = Append(@, candidate),
                 ![candidate] = Append(@, Current)]
            /\ nodes' = AfterLink(candidate)
       ELSE UNCHANGED <<connections, nodes>>
  /\ count' = count + 1
  /\ UNCHANGED <<pc, miners, minConnections, maxConnections, todo, devices,
                 ips, applications>>

NextNode ==
  /\ pc \in {"minerPeers", "nodePeers"} /\ todo # {} /\ ~Wants(Current)
  /\ todo' = todo \ {Current} /\ count' = 0
  /\ UNCHANGED <<pc, nodes, miners, minConnections, maxConnections,
                 connections, devices, ips, applications>>

\* The devices that a loop over a list of n's peers installs, in its order:
\* one for each of the chosen.
Links(n, peers, chosen) ==
  LET links[k \in 0 .. Len(peers)] ==
        IF k = 0 THEN <<>>
        ELSE IF peers[k] \in chosen THEN Append(links[k - 1], <<n, peers[k]>>)
             ELSE links[k - 1]
  IN  links[Len(peers)]

\* Mutant of MinerLinks: pairs are installed from both ends.
FromBothEnds(m) == Links(m, SubSeq(connections[m], 1, NoMiners - 1), Nodes)

\* The links among miners: the first entries of a miner's list are the
\* other miners, and each pair is installed from its lower end.
MinerLinks(m) ==
  Links(m, SubSeq(connections[m], 1, NoMiners - 1), {p \in Nodes : p > m})

\* All other links, also from their lower end.
NodeLinks(n) ==
  Links(n, connections[n],
        {p \in Nodes : p > n /\ (p \notin miners \/ n \notin miners)})

InstallLinks ==
  /\ pc \in {"minerLinks", "nodeLinks"} /\ todo # {}
  /\ devices' = devices \o (IF pc = "minerLinks" THEN MinerLinks(Current)
                                                 ELSE NodeLinks(Current))
  /\ todo' = todo \ {Current}
  /\ UNCHANGED <<pc, nodes, miners, minConnections, maxConnections,
                 connections, count, ips, applications>>

\* One loop ends and the next one starts from the first of its nodes.
NextLoop ==
  /\ todo = {}
  /\ \/ pc = "minerPeers" /\ pc' = "nodePeers" /\ todo' = Nodes
     \/ pc = "nodePeers" /\ pc' = "minerLinks" /\ todo' = miners
     \/ pc = "minerLinks" /\ pc' = "nodeLinks" /\ todo' = Nodes
     \/ pc = "nodeLinks" /\ pc' = "addresses" /\ todo' = 1 .. Len(devices)
  /\ UNCHANGED <<nodes, miners, minConnections, maxConnections, connections,
                 count, devices, ips, applications>>

\* NewNetwork after each device: the d-th device has the d-th network, and
\* its two ends the first two addresses there.
Address(d, end) == <<d, end>>

\* Each end of the device is told the other end's address.
AssignIpv4Address ==
  /\ pc = "addresses" /\ todo # {}
  /\ LET d == Current
         one == devices[d][1]
         two == devices[d][2]
     IN  ips' = [ips EXCEPT ![one] = Append(@, Address(d, 2)),
                            ![two] = Append(@, Address(d, 1))]
  /\ todo' = todo \ {Current}
  /\ UNCHANGED <<pc, nodes, miners, minConnections, maxConnections,
                 connections, count, devices, applications>>

\* main installs an application on every miner, and on every other node that
\* the table of peers' addresses has an entry for.
MinerApplications == miners
NodeApplications == {n \in Nodes \ miners : ips[n] # <<>>}

InstallApplications ==
  /\ pc = "addresses" /\ todo = {}
  /\ applications' = MinerApplications \cup NodeApplications
  /\ pc' = "done"
  /\ UNCHANGED <<nodes, miners, minConnections, maxConnections, connections,
                 todo, count, devices, ips>>

Next ==
  \/ ChooseMiner \/ InterconnectMiners
  \/ TryPeer \/ NextNode
  \/ InstallLinks \/ NextLoop
  \/ AssignIpv4Address \/ InstallApplications

Spec == Init /\ [][Next]_vars

\* The constructor and main run on.
FairSpec == Spec /\ WF_vars(Next)
-----------------------------------------------------------------------------
\* Drawing.  Whenever a node draws, the pool has a member (`rand() %
\* nodes.size()' would divide by zero): a node leaves it only when full, and
\* the node that draws is not.
PoolNeverEmpty ==
  pc \in {"minerPeers", "nodePeers"} /\ todo # {} /\ Wants(Current)
    => nodes # {}

\* Links are mutual, never to oneself and never double, whatever was drawn.
LinksAreMutual ==
  \A n \in Nodes :
    /\ n \notin Peers(n)
    /\ \A p \in Peers(n) : n \in Peers(p)
    /\ \A j, k \in 1 .. Degree(n) :
         connections[n][j] = connections[n][k] => j = k

\* No node is given more peers than its bound; a miner also keeps the mesh.
DegreesAreBounded ==
  pc # "miners" =>
    \A n \in Nodes :
      \/ Degree(n) <= maxConnections[n]
      \/ n \in miners /\ Degree(n) = NoMiners - 1

\* The peer graph, whatever was drawn, from the first draw to the last.
PeerGraphIsSound == LinksAreMutual /\ DegreesAreBounded

Owner(a) == devices[a[1]][a[2]]

\* In the end every node's addresses are those of its peers, one each, and
\* each of them runs an application that has an address of the node.  So
\* every link has one device, though two loops install the links and the
\* first relies on where the miners are in the lists.
AddressesLeadToPeers ==
  pc = "done" =>
    \A n \in Nodes :
      /\ Len(ips[n]) = Degree(n)
      /\ {Owner(ips[n][k]) : k \in 1 .. Len(ips[n])} = Peers(n)
      /\ Peers(n) \subseteq applications

\* Whatever is drawn, and though all candidates left may be full or peers
\* already, every draw finds the pool with a member and the construction
\* ends with the applications installed.
IsBuilt == <>(pc = "done")
=============================================================================

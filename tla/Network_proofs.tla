--------------------------- MODULE Network_proofs ---------------------------
(***************************************************************************)
(* The network: who is connected, and what a connection carries.           *)
(*                                                                         *)
(* The construction, for every number of nodes, miners and tries and every *)
(* range of connections: the pool never runs empty under a node that draws,*)
(* links are mutual and single, no node gets more than its bound, and the  *)
(* devices and addresses installed are those of the links.                 *)
(*                                                                         *)
(* A connection, for all sizes of messages, of the prefix and of the send  *)
(* buffer, and all the chunks that TCP may make of the stream: the reader  *)
(* never meets a prefix it did not expect, and the connection is a channel *)
(* (Channel.tla).                                                          *)
(***************************************************************************)
EXTENDS Topology, Framing, FiniteLemmas, SequenceTheorems

-----------------------------------------------------------------------------
(* Topology: the drawing of peers *)

Drawing == pc \in {"minerPeers", "nodePeers"}

\* What is carried along: besides types, that a node outside the pool is
\* full, and that a node never wants more than it may have.
DrawingTypes ==
  /\ pc \in Phases
  /\ nodes \subseteq Nodes /\ miners \subseteq Nodes
  /\ minConnections \in [Nodes -> Nat] /\ maxConnections \in [Nodes -> Nat]
  /\ connections \in [Nodes -> Seq(Nodes)]
  /\ count \in Nat
  /\ Drawing => todo \subseteq Nodes
BoundsFit ==
  pc # "miners" => \A n \in Nodes : minConnections[n] <= maxConnections[n]
OutsideIsFull ==
  Drawing => \A n \in Nodes \ nodes : Degree(n) >= maxConnections[n]
NothingDrawnYet == pc = "miners" => connections = [n \in Nodes |-> <<>>]

DrawingInv ==
  /\ DrawingTypes /\ BoundsFit /\ OutsideIsFull /\ NothingDrawnYet
  /\ LinksAreMutual /\ DegreesAreBounded

\* The loop visits a node it has yet to visit.
LEMMA CurrentIsMember ==
  ASSUME todo \subseteq Nodes, todo # {}
  PROVE  Current \in todo
<1>1. todo \in SUBSET Nat
  BY TopologyAssumption DEF Nodes
<1>2. \E x \in todo : \A y \in todo : x <= y
  BY <1>1, LeastNatural
<1> QED BY <1>2 DEF Current, Least

\* Whoever draws is in the pool.
LEMMA DrawerIsInPool ==
  ASSUME DrawingInv, Drawing, todo # {}, Wants(Current)
  PROVE  Current \in nodes
<1>1. Current \in Nodes
  BY CurrentIsMember DEF DrawingInv, DrawingTypes
<1>2. /\ minConnections[Current] \in Nat /\ maxConnections[Current] \in Nat
      /\ minConnections[Current] <= maxConnections[Current]
  BY <1>1 DEF DrawingInv, DrawingTypes, BoundsFit, Drawing
<1>3. Degree(Current) \in Nat /\ Degree(Current) < minConnections[Current]
  BY <1>1 DEF DrawingInv, DrawingTypes, Degree, Wants
<1> QED BY <1>1, <1>2, <1>3 DEF DrawingInv, OutsideIsFull

-----------------------------------------------------------------------------
\* Nothing is drawn at the start.
LEMMA DrawingInit ==
  ASSUME Init
  PROVE  DrawingInv
<1>1. DrawingTypes
  BY TopologyAssumption DEF Init, DrawingTypes, Drawing, Phases, Nodes
<1>2. LinksAreMutual
  BY DEF Init, LinksAreMutual, Peers, Degree
<1> QED
  BY <1>1, <1>2 DEF Init, DrawingInv, BoundsFit, OutsideIsFull, Drawing,
     NothingDrawnYet, DegreesAreBounded

\* The meshes are mutual, single and of NoMiners - 1 links.
LEMMA MeshIsMutual ==
  ASSUME DrawingInv, InterconnectMiners
  PROVE  DrawingInv'
<1>1. connections' \in Meshes /\ miners' = miners /\ nodes' = Nodes
      /\ pc = "miners" /\ pc' = "minerPeers" /\ todo' = miners /\ count' = count
  BY DEF InterconnectMiners
<1>n. NoMiners \in Nat /\ NoMiners - 1 \in Nat /\ miners \subseteq Nodes
  BY TopologyAssumption DEF DrawingInv, DrawingTypes
<1>2. connections' \in [Nodes -> Seq(Nodes)]
  <2>1. [1 .. NoMiners - 1 -> miners] \subseteq Seq(Nodes)
    <3> SUFFICES ASSUME NEW f \in [1 .. NoMiners - 1 -> miners]
                 PROVE  f \in Seq(Nodes)
      OBVIOUS
    <3> QED BY <1>n
  <2>2. <<>> \in Seq(Nodes)
    OBVIOUS
  <2>3. connections' \in [Nodes -> {<<>>} \cup [1 .. NoMiners - 1 -> miners]]
    BY <1>1 DEF Meshes
  <2>4. {<<>>} \cup [1 .. NoMiners - 1 -> miners] \subseteq Seq(Nodes)
    BY <2>1, <2>2
  <2> QED BY <2>3, <2>4
<1>3. PICK range \in [Nodes -> Ranges] :
       /\ maxConnections' = [n \in Nodes |->
            IF n \in miners THEN MaxPerMiner ELSE range[n][2]]
       /\ minConnections' \in
            {f \in [Nodes -> {MinPerMiner} \cup
                             UNION {r[1] .. r[2] : r \in Ranges}] :
               \A n \in Nodes : IF n \in miners
                                THEN f[n] = MinPerMiner
                                ELSE f[n] \in range[n][1] .. range[n][2]}
  BY DEF InterconnectMiners
<1>4. \A n \in Nodes : range[n][1] \in Nat /\ range[n][2] \in Nat
  BY <1>3, TopologyAssumption
<1>5. maxConnections' \in [Nodes -> Nat]
  BY <1>3, <1>4, TopologyAssumption
<1>6. minConnections' \in [Nodes -> Nat]
  <2>1. \A r \in Ranges : r[1] .. r[2] \subseteq Nat
    BY TopologyAssumption
  <2> QED BY <1>3, <2>1, TopologyAssumption
<1>7. \A n \in Nodes : minConnections'[n] <= maxConnections'[n]
  BY <1>3, <1>4, TopologyAssumption
<1>8. DrawingTypes'
  BY <1>1, <1>2, <1>5, <1>6 DEF DrawingInv, DrawingTypes, Drawing, Phases
<1>9. \A n \in Nodes : n \notin miners => connections'[n] = <<>>
  BY <1>1 DEF Meshes
<1>10. \A n \in miners :
         /\ DOMAIN connections'[n] = 1 .. NoMiners - 1
         /\ {connections'[n][k] : k \in 1 .. NoMiners - 1} = miners \ {n}
         /\ \A j, k \in 1 .. NoMiners - 1 :
              j < k => connections'[n][j] < connections'[n][k]
  BY <1>1, <1>n DEF Meshes
<1>11. \A n \in miners : Len(connections'[n]) = NoMiners - 1
  BY <1>2, <1>10, <1>n
<1>12. \A n \in miners : Peers(n)' = miners \ {n}
  BY <1>10, <1>11 DEF Peers, Degree
<1>13. \A n \in Nodes \ miners : Peers(n)' = {} /\ Degree(n)' = 0
  BY <1>9 DEF Peers, Degree
<1>14. LinksAreMutual'
  <2> SUFFICES ASSUME NEW n \in Nodes
               PROVE  /\ n \notin Peers(n)'
                      /\ \A p \in Peers(n)' : n \in Peers(p)'
                      /\ \A j, k \in 1 .. Degree(n)' :
                           connections'[n][j] = connections'[n][k] => j = k
    BY DEF LinksAreMutual
  <2>1. CASE n \notin miners
    BY <2>1, <1>13
  <2>2. CASE n \in miners
    <3>1. \A p \in Peers(n)' : n \in Peers(p)'
      BY <2>2, <1>12
    <3>2. ASSUME NEW j \in 1 .. NoMiners - 1, NEW k \in 1 .. NoMiners - 1,
                 connections'[n][j] = connections'[n][k]
          PROVE  j = k
      <4>1. connections'[n][j] \in Int /\ connections'[n][k] \in Int
        <5>1. connections'[n][j] \in miners /\ connections'[n][k] \in miners
          BY <2>2, <1>10
        <5>2. connections'[n][j] \in Nodes /\ connections'[n][k] \in Nodes
          BY <5>1, <1>n
        <5> QED BY <5>2 DEF Nodes
      <4>2. ~(j < k) /\ ~(k < j)
        BY <2>2, <1>10, <3>2, <4>1
      <4> QED BY <4>2
    <3>3. Degree(n)' = NoMiners - 1
      BY <2>2, <1>11 DEF Degree
    <3> QED BY <2>2, <1>12, <3>1, <3>2, <3>3
  <2> QED BY <2>1, <2>2
<1>15. DegreesAreBounded'
  BY <1>1, <1>5, <1>11, <1>13 DEF DegreesAreBounded, Degree
<1> QED
  BY <1>1, <1>7, <1>8, <1>14, <1>15
  DEF DrawingInv, BoundsFit, OutsideIsFull, NothingDrawnYet

\* A try keeps all of it: the only step that changes the links.
LEMMA TryKeeps ==
  ASSUME DrawingInv, TryPeer
  PROVE  DrawingInv'
<1>1. /\ Drawing /\ todo # {} /\ Wants(Current)
      /\ count' = count + 1
      /\ UNCHANGED <<pc, miners, minConnections, maxConnections, todo>>
  BY DEF TryPeer, Drawing
<1>2. PICK i \in Nodes : i = Current
  BY <1>1, CurrentIsMember DEF DrawingInv, DrawingTypes
<1>3. i \in nodes /\ Wants(i)
  BY <1>1, <1>2, DrawerIsInPool
<1>4. PICK c \in nodes :
       IF Accepts(i, c)
       THEN /\ connections' = [connections EXCEPT
                 ![i] = Append(@, c), ![c] = Append(@, i)]
            /\ nodes' = AfterLink(c)
       ELSE UNCHANGED <<connections, nodes>>
  BY <1>2 DEF TryPeer
<1>5. CASE ~Accepts(i, c)
  <2>1. connections' = connections /\ nodes' = nodes
    BY <1>4, <1>5
  <2> QED
    BY <1>1, <2>1
    DEF DrawingInv, DrawingTypes, Drawing, BoundsFit, OutsideIsFull,
        NothingDrawnYet, LinksAreMutual, DegreesAreBounded, Degree, Peers
<1>6. CASE Accepts(i, c)
  <2>1. /\ c \in Nodes /\ c # i /\ c \notin Peers(i)
        /\ Degree(c) < maxConnections[c]
    BY <1>6 DEF Accepts, DrawingInv, DrawingTypes
  <2>2. connections' = [connections EXCEPT
           ![i] = Append(@, c), ![c] = Append(@, i)]
    BY <1>4, <1>6
  <2>3. connections \in [Nodes -> Seq(Nodes)]
    BY DEF DrawingInv, DrawingTypes
  <2>4. /\ connections'[i] = Append(connections[i], c)
        /\ connections'[c] = Append(connections[c], i)
        /\ \A n \in Nodes : n # i /\ n # c => connections'[n] = connections[n]
    BY <1>2, <2>1, <2>2, <2>3
  <2>5. connections' \in [Nodes -> Seq(Nodes)]
    <3>1. \A n \in Nodes : connections'[n] \in Seq(Nodes)
      <4>1. Append(connections[i], c) \in Seq(Nodes)
        BY <1>2, <2>1, <2>3
      <4>2. Append(connections[c], i) \in Seq(Nodes)
        BY <1>2, <2>1, <2>3
      <4> QED BY <2>3, <2>4, <4>1, <4>2
    <3>2. connections' = [n \in Nodes |-> connections'[n]]
      BY <2>2, <2>3
    <3> QED BY <3>1, <3>2
  <2>6. /\ Degree(i)' = Degree(i) + 1 /\ Degree(c)' = Degree(c) + 1
        /\ \A n \in Nodes : n # i /\ n # c => Degree(n)' = Degree(n)
        /\ \A n \in Nodes : Degree(n) \in Nat
    <3>1. \A n \in Nodes : connections[n] \in Seq(Nodes)
      BY <2>3
    <3>2. /\ Len(Append(connections[i], c)) = Len(connections[i]) + 1
          /\ Len(Append(connections[c], i)) = Len(connections[c]) + 1
      BY <1>2, <2>1, <3>1
    <3> QED BY <1>2, <2>1, <2>4, <3>1, <3>2 DEF Degree
  <2>7. /\ Peers(i)' = Peers(i) \cup {c} /\ Peers(c)' = Peers(c) \cup {i}
        /\ \A n \in Nodes : n # i /\ n # c => Peers(n)' = Peers(n)
    <3>1. ASSUME NEW a \in Nodes, NEW b \in Nodes,
                 connections'[a] = Append(connections[a], b)
          PROVE  Peers(a)' = Peers(a) \cup {b}
      <4>1. connections[a] \in Seq(Nodes) /\ Len(connections[a]) \in Nat
        BY <2>3
      <4>2. /\ Len(connections'[a]) = Len(connections[a]) + 1
            /\ connections'[a][Len(connections[a]) + 1] = b
            /\ \A k \in 1 .. Len(connections[a]) :
                 connections'[a][k] = connections[a][k]
        BY <3>1, <4>1
      <4> QED BY <4>1, <4>2 DEF Peers, Degree
    <3>2. Peers(i)' = Peers(i) \cup {c}
      BY <3>1, <1>2, <2>1, <2>4
    <3>3. Peers(c)' = Peers(c) \cup {i}
      BY <3>1, <1>2, <2>1, <2>4
    <3>4. \A n \in Nodes : n # i /\ n # c => Peers(n)' = Peers(n)
      BY <2>4 DEF Peers, Degree
    <3> QED BY <3>2, <3>3, <3>4
  <2>8. nodes' = AfterLink(c) /\ nodes' \subseteq nodes
    BY <1>4, <1>6 DEF AfterLink
  <2>9. DrawingTypes'
    BY <1>1, <2>5, <2>8 DEF DrawingInv, DrawingTypes, Drawing
  <2>10. BoundsFit'
    BY <1>1 DEF DrawingInv, BoundsFit
  <2>11. OutsideIsFull'
    <3> SUFFICES ASSUME NEW n \in Nodes, n \notin nodes'
                 PROVE  Degree(n)' >= maxConnections[n]
      BY <1>1 DEF OutsideIsFull
    <3>1. maxConnections[n] \in Nat
      BY DEF DrawingInv, DrawingTypes
    <3>2. CASE n \notin nodes
      <4>1. Degree(n) >= maxConnections[n]
        BY <1>1, <3>2 DEF DrawingInv, OutsideIsFull
      <4> QED BY <2>6, <3>1, <4>1
    <3>3. CASE n \in nodes
      <4>1. n = c /\ Degree(c) + 1 = maxConnections[c]
        BY <2>8, <3>3 DEF AfterLink
      <4> QED BY <2>6, <3>1, <4>1
    <3> QED BY <3>2, <3>3
  <2>12. NothingDrawnYet'
    BY <1>1 DEF NothingDrawnYet, Drawing
  <2>13. LinksAreMutual'
    <3>1. i \notin Peers(i) /\ c \notin Peers(c) /\ i \notin Peers(c)
      BY <1>2, <2>1 DEF DrawingInv, LinksAreMutual
    <3>2. ASSUME NEW n \in Nodes
          PROVE  n \notin Peers(n)' /\ \A p \in Peers(n)' : n \in Peers(p)'
      <4>1. n \notin Peers(n) /\ \A p \in Peers(n) : n \in Peers(p)
        BY DEF DrawingInv, LinksAreMutual
      <4>2. \A p \in Peers(n) : p \in Nodes
        BY <2>3 DEF Peers, Degree
      <4> QED BY <1>2, <2>1, <2>7, <3>1, <4>1, <4>2
    <3>3. ASSUME NEW a \in Nodes, NEW b \in Nodes, b \notin Peers(a),
                 connections'[a] = Append(connections[a], b),
                 NEW j \in 1 .. Degree(a)', NEW k \in 1 .. Degree(a)',
                 connections'[a][j] = connections'[a][k]
          PROVE  j = k
      <4> DEFINE s == connections[a]
      <4>1. s \in Seq(Nodes) /\ Len(s) \in Nat
        BY <2>3
      <4>2. \A x, y \in 1 .. Len(s) : s[x] = s[y] => x = y
        BY DEF DrawingInv, LinksAreMutual, Degree
      <4>3. \A x \in 1 .. Len(s) : s[x] # b
        BY <3>3 DEF Peers, Degree
      <4> HIDE DEF s
      <4>4. /\ j \in 1 .. Len(s) + 1 /\ k \in 1 .. Len(s) + 1
            /\ Append(s, b)[j] = Append(s, b)[k]
        BY <3>3, <4>1 DEF Degree, s
      <4>5. /\ Append(s, b)[Len(s) + 1] = b
            /\ \A x \in 1 .. Len(s) : Append(s, b)[x] = s[x]
        BY <4>1
      <4>6. CASE j = Len(s) + 1
        BY <4>1, <4>3, <4>4, <4>5, <4>6
      <4>7. CASE k = Len(s) + 1
        BY <4>1, <4>3, <4>4, <4>5, <4>7
      <4>8. CASE j # Len(s) + 1 /\ k # Len(s) + 1
        <5>1. j \in 1 .. Len(s) /\ k \in 1 .. Len(s)
          BY <4>1, <4>4, <4>8
        <5> QED BY <4>2, <4>4, <4>5, <5>1
      <4> QED BY <4>6, <4>7, <4>8
    <3>4. ASSUME NEW n \in Nodes,
                 NEW j \in 1 .. Degree(n)', NEW k \in 1 .. Degree(n)',
                 connections'[n][j] = connections'[n][k]
          PROVE  j = k
      <4>1. CASE n = i
        BY <1>2, <2>1, <2>4, <3>3, <3>4, <4>1
      <4>2. CASE n = c
        BY <1>2, <2>1, <2>4, <3>1, <3>3, <3>4, <4>2
      <4>3. CASE n # i /\ n # c
        BY <2>4, <2>6, <3>4, <4>3 DEF DrawingInv, LinksAreMutual
      <4> QED BY <4>1, <4>2, <4>3
    <3> QED BY <3>2, <3>4 DEF LinksAreMutual
  <2>14. DegreesAreBounded'
    <3>1. pc # "miners" /\ pc' = pc
      BY <1>1 DEF Drawing
    <3> SUFFICES ASSUME NEW n \in Nodes
                 PROVE  \/ Degree(n)' <= maxConnections[n]
                        \/ n \in miners /\ Degree(n)' = NoMiners - 1
      BY <1>1 DEF DegreesAreBounded
    <3>2. maxConnections[n] \in Nat /\ minConnections[n] \in Nat
      BY DEF DrawingInv, DrawingTypes
    <3>3. CASE n = c
      BY <2>1, <2>6, <3>2, <3>3
    <3>4. CASE n = i
      <4>1. Degree(n) < minConnections[n]
        BY <1>3, <3>4 DEF Wants
      <4>2. minConnections[n] <= maxConnections[n]
        BY <3>1 DEF DrawingInv, BoundsFit
      <4> QED BY <2>6, <3>2, <3>4, <4>1, <4>2
    <3>5. CASE n # c /\ n # i
      BY <2>6, <3>1, <3>5 DEF DrawingInv, DegreesAreBounded
    <3> QED BY <3>3, <3>4, <3>5
  <2> QED BY <2>9, <2>10, <2>11, <2>12, <2>13, <2>14 DEF DrawingInv
<1> QED BY <1>5, <1>6

\* Every statement of the constructor keeps the invariant.
LEMMA DrawingStep ==
  ASSUME DrawingInv, [Next]_vars
  PROVE  DrawingInv'
<1> USE DEF DrawingInv, DrawingTypes, Drawing, BoundsFit, OutsideIsFull,
            NothingDrawnYet, LinksAreMutual, DegreesAreBounded, Degree, Peers
<1>1. CASE ChooseMiner
  BY <1>1 DEF ChooseMiner
<1>2. CASE InterconnectMiners
  BY <1>2, MeshIsMutual
<1>3. CASE TryPeer
  BY <1>3, TryKeeps
<1>4. CASE NextNode
  BY <1>4 DEF NextNode
<1>5. CASE InstallLinks
  BY <1>5 DEF InstallLinks
<1>6. CASE NextLoop
  BY <1>6 DEF NextLoop, Phases
<1>7. CASE AssignIpv4Address
  BY <1>7 DEF AssignIpv4Address
<1>8. CASE InstallApplications
  <2>1. /\ pc = "addresses" /\ pc' = "done"
        /\ UNCHANGED <<nodes, miners, minConnections, maxConnections,
                       connections, todo, count>>
    BY <1>8 DEF InstallApplications
  <2> QED BY <2>1 DEF Phases
<1>9. CASE UNCHANGED vars
  BY <1>9 DEF vars
<1> QED
  BY <1>1, <1>2, <1>3, <1>4, <1>5, <1>6, <1>7, <1>8, <1>9 DEF Next

\* The invariant of the construction.
THEOREM TopologyInvariance == Spec => []DrawingInv
<1>1. Init => DrawingInv
  BY DrawingInit
<1>2. DrawingInv /\ [Next]_vars => DrawingInv'
  BY DrawingStep
<1> QED BY <1>1, <1>2, PTL DEF Spec

\* `rand() % nodes.size()' never divides by zero.
THEOREM DrawingIsDefined == Spec => []PoolNeverEmpty
<1>1. DrawingInv => PoolNeverEmpty
  BY DrawerIsInPool DEF PoolNeverEmpty, Drawing
<1> QED BY <1>1, TopologyInvariance, PTL

\* Every link is in the lists of both its ends, once in each, and no node is
\* given more peers than it may have.
THEOREM PeerGraphStaysSound == Spec => []PeerGraphIsSound
<1>1. DrawingInv => PeerGraphIsSound
  BY DEF DrawingInv, PeerGraphIsSound
<1> QED BY <1>1, TopologyInvariance, PTL

-----------------------------------------------------------------------------
(* Topology: devices and addresses *)

\* s lists the members of S, each of them once.
ListsOnce(s, S) ==
  /\ s \in Seq(S)
  /\ \A x \in S : \E k \in 1..Len(s) : s[k] = x
  /\ \A j, k \in 1..Len(s) : s[j] = s[k] => j = k

\* One more.
LEMMA ListedOneMore ==
  ASSUME NEW S, NEW s, ListsOnce(s, S), NEW x, x \notin S
  PROVE  ListsOnce(Append(s, x), S \cup {x})
<1> DEFINE t == Append(s, x)
           n == Len(s)
<1>1. /\ s \in Seq(S) /\ n \in Nat
      /\ \A y \in S : \E k \in 1..n : s[k] = y
      /\ \A j, k \in 1..n : s[j] = s[k] => j = k
  BY DEF ListsOnce
<1>2. s \in Seq(S \cup {x})
  BY <1>1
<1>3. /\ t \in Seq(S \cup {x}) /\ Len(t) = n + 1 /\ t[n + 1] = x
      /\ \A k \in 1..n : t[k] = s[k] /\ s[k] \in S
  BY <1>1, <1>2
<1> HIDE DEF t, n
<1>4. ASSUME NEW y \in S \cup {x} PROVE \E k \in 1..(n + 1) : t[k] = y
  <2>1. CASE y = x
    <3>1. n + 1 \in 1..(n + 1)
      BY <1>1
    <3> QED BY <1>3, <2>1, <3>1
  <2>2. CASE y \in S
    <3>1. PICK k \in 1..n : s[k] = y
      BY <1>1, <2>2
    <3>2. k \in 1..(n + 1)
      BY <1>1
    <3> QED BY <1>3, <3>1, <3>2
  <2> QED BY <2>1, <2>2
<1>5. ASSUME NEW j \in 1..(n + 1), NEW k \in 1..(n + 1), t[j] = t[k] PROVE j = k
  <2>1. \A i \in 1..(n + 1) : i \in 1..n \/ i = n + 1
    BY <1>1
  <2>2. \A i \in 1..n : t[i] # x
    BY <1>3
  <2> QED BY <1>1, <1>3, <1>5, <2>1, <2>2
<1> QED BY <1>3, <1>4, <1>5 DEF ListsOnce, t

\* Others after them.
LEMMA ListedJoined ==
  ASSUME NEW S, NEW s, ListsOnce(s, S), NEW T, NEW t, ListsOnce(t, T), S \cap T = {}
  PROVE  ListsOnce(s \o t, S \cup T)
<1> DEFINE u == s \o t
           n == Len(s)
           l == Len(t)
<1>1. /\ s \in Seq(S) /\ n \in Nat
      /\ \A y \in S : \E k \in 1..n : s[k] = y
      /\ \A j, k \in 1..n : s[j] = s[k] => j = k
  BY DEF ListsOnce
<1>2. /\ t \in Seq(T) /\ l \in Nat
      /\ \A y \in T : \E k \in 1..l : t[k] = y
      /\ \A j, k \in 1..l : t[j] = t[k] => j = k
  BY DEF ListsOnce
<1>3. s \in Seq(S \cup T) /\ t \in Seq(S \cup T)
  BY <1>1, <1>2
<1>4. /\ u \in Seq(S \cup T) /\ Len(u) = n + l
      /\ \A k \in 1..n : u[k] = s[k] /\ s[k] \in S
      /\ \A k \in 1..l : u[n + k] = t[k] /\ t[k] \in T
  BY <1>1, <1>2, <1>3
<1> HIDE DEF u, n, l
<1>5. \A k \in 1..(n + l) : k \in 1..n \/ \E i \in 1..l : k = n + i
  <2> TAKE k \in 1..(n + l)
  <2>1. CASE k <= n
    BY <1>1, <2>1
  <2>2. CASE ~ (k <= n)
    <3>1. k - n \in 1..l /\ k = n + (k - n)
      BY <1>1, <1>2, <2>2
    <3> QED BY <3>1
  <2> QED BY <2>1, <2>2
<1>6. ASSUME NEW y \in S \cup T PROVE \E k \in 1..(n + l) : u[k] = y
  <2>1. CASE y \in S
    <3>1. PICK k \in 1..n : s[k] = y
      BY <1>1, <2>1
    <3>2. k \in 1..(n + l)
      BY <1>1, <1>2
    <3> QED BY <1>4, <3>1, <3>2
  <2>2. CASE y \in T
    <3>1. PICK k \in 1..l : t[k] = y
      BY <1>2, <2>2
    <3>2. n + k \in 1..(n + l)
      BY <1>1, <1>2
    <3> QED BY <1>4, <3>1, <3>2
  <2> QED BY <2>1, <2>2
<1>7. ASSUME NEW j \in 1..(n + l), NEW k \in 1..(n + l), u[j] = u[k] PROVE j = k
  <2>1. CASE j \in 1..n /\ k \in 1..n
    BY <1>1, <1>4, <1>7, <2>1
  <2>2. ASSUME NEW h \in 1..l, NEW i \in 1..l, j = n + h, k = n + i PROVE j = k
    <3>1. t[h] = t[i]
      BY <1>4, <1>7, <2>2
    <3> QED BY <1>2, <2>2, <3>1
  <2>3. ASSUME NEW h \in 1..n, NEW i \in 1..l PROVE u[h] # u[n + i]
    BY <1>4
  <2> QED BY <1>5, <1>7, <2>1, <2>2, <2>3
<1> QED BY <1>4, <1>6, <1>7 DEF ListsOnce, u

\* Lists of the same are of the same length.
LEMMA ListedLength ==
  ASSUME NEW S, NEW s, ListsOnce(s, S)
  PROVE  Len(s) = Cardinality(S)
<1> DEFINE n == Len(s)
<1>1. /\ s \in Seq(S) /\ n \in Nat /\ s \in [1..n -> S]
      /\ \A y \in S : \E k \in 1..n : s[k] = y
      /\ \A j, k \in 1..n : s[j] = s[k] => j = k
  BY DEF ListsOnce
<1> HIDE DEF n
<1>2. s \in Bijection(1..n, S)
  BY <1>1 DEF Bijection, Injection, Surjection, IsInjective
<1>3. ExistsBijection(1..n, S)
  BY <1>2 DEF ExistsBijection
<1>4. Cardinality(S) = n
  BY <1>1, <1>3, FS_CountingElements
<1> QED BY <1>4 DEF n

\* The devices of a loop: one to each chosen peer.
Pairs(n, peers, chosen, k) == {<<n, p>> : p \in {peers[i] : i \in 1..k} \cap chosen}

\* One turn of the loop.
LinkOne(n, peers, chosen, s, k) ==
  IF peers[k] \in chosen THEN Append(s, <<n, peers[k]>>) ELSE s

\* The loop installs each of its pairs once.
LEMMA LinksListed ==
  ASSUME NEW n, NEW S, NEW peers \in Seq(S), NEW chosen,
         \A j, k \in 1..Len(peers) : peers[j] = peers[k] => j = k
  PROVE  ListsOnce(Links(n, peers, chosen), Pairs(n, peers, chosen, Len(peers)))
<1> DEFINE len == Len(peers)
           P(k) == Pairs(n, peers, chosen, k)
           U == Seq(Pairs(n, peers, chosen, len))
           T == [k \in 0..len |-> {s \in U : ListsOnce(s, P(k))}]
           One(s, k) == LinkOne(n, peers, chosen, s, k)
           a == <<>>
           g == [x \in (1..len) \X U |-> One(x[2], x[1])]
           links == CHOOSE f : f = [k \in 0..len |-> IF k = 0 THEN a ELSE One(f[k - 1], k)]
<1>1. len \in Nat
  OBVIOUS
<1>2. Links(n, peers, chosen) = links[len]
  BY Zenon DEF Links, LinkOne
<1> HIDE DEF len
<1>3. a \in T[0]
  <2>1. P(0) = {}
    BY DEF Pairs
  <2>2. ListsOnce(<<>>, {})
    BY DEF ListsOnce
  <2>3. <<>> \in U /\ 0 \in 0..len
    BY <1>1
  <2> HIDE DEF P, U
  <2> QED BY <2>1, <2>2, <2>3
<1> HIDE DEF a
<1>4. ASSUME NEW k \in 1..len, NEW s \in T[k - 1] PROVE One(s, k) \in T[k]
  <2>1. k - 1 \in 0..len /\ k \in 0..len /\ k \in Nat
    BY <1>1
  <2>2. s \in U /\ ListsOnce(s, P(k - 1))
    BY <2>1
  <2>3. P(k) = IF peers[k] \in chosen THEN P(k - 1) \cup {<<n, peers[k]>>} ELSE P(k - 1)
    <3>1. \A i : i \in 1..k <=> i \in 1..(k - 1) \/ i = k
      BY <1>1
    <3>2. {peers[i] : i \in 1..k} = {peers[i] : i \in 1..(k - 1)} \cup {peers[k]}
      BY <3>1
    <3> QED BY <3>2 DEF Pairs
  <2>4. P(k) \subseteq P(len)
    <3>1. \A i \in 1..k : i \in 1..len
      BY <1>1
    <3> QED BY <3>1 DEF Pairs
  <2>5. ListsOnce(One(s, k), P(k))
    <3>1. CASE peers[k] \in chosen
      <4>1. <<n, peers[k]>> \notin P(k - 1)
        <5>1. \A i \in 1..(k - 1) : i \in 1..len /\ i # k
          BY <1>1
        <5>2. \A i \in 1..(k - 1) : peers[i] # peers[k]
          BY <5>1 DEF len
        <5> QED BY <5>2 DEF Pairs
      <4> DEFINE R == P(k - 1)
                 x == <<n, peers[k]>>
      <4>2. One(s, k) = Append(s, x) /\ P(k) = R \cup {x}
        BY <2>3, <3>1 DEF LinkOne
      <4>3. ListsOnce(s, R) /\ x \notin R
        BY <2>2, <4>1
      <4> HIDE DEF R, x, One, P
      <4>4. ListsOnce(Append(s, x), R \cup {x})
        BY <4>3, ListedOneMore
      <4> QED BY <4>2, <4>4
    <3>2. CASE peers[k] \notin chosen
      <4>1. One(s, k) = s /\ P(k) = P(k - 1)
        BY <2>3, <3>2 DEF LinkOne
      <4> HIDE DEF One, P
      <4> QED BY <2>2, <4>1
    <3> QED BY <3>1, <3>2
  <2> DEFINE t == One(s, k)
  <2> HIDE DEF P, t
  <2>6. t \in Seq(P(len))
    <3>1. t \in Seq(P(k))
      BY <2>5 DEF ListsOnce, t
    <3> QED BY <2>4, <3>1
  <2>7. t \in T[k]
    BY <2>1, <2>5, <2>6 DEF P, t
  <2> QED BY <2>7 DEF t
<1>5. ASSUME NEW k \in 1..len, NEW s \in T[k - 1] PROVE g[<<k, s>>] = One(s, k)
  <2>1. k - 1 \in 0..len
    BY <1>1
  <2>2. s \in U
    BY <2>1
  <2> HIDE DEF One, U
  <2> QED BY <2>2
<1>6. T \in [0..len -> SUBSET U]
  OBVIOUS
<1>7. \A k \in 1..len : \A s \in T[k - 1] : g[<<k, s>>] \in T[k]
  <2> HIDE DEF T, g, One
  <2> QED BY <1>4, <1>5
<1> HIDE DEF T, g, U
<1>8. PICK f : IsCourse(f, len, U, T, a, g)
  BY <1>1, <1>3, <1>6, <1>7, CourseExists
<1>9. /\ f \in [0..len -> U] /\ f[0] = a
      /\ \A k \in 0..len : f[k] \in T[k]
      /\ \A k \in 1..len : f[k] = g[<<k, f[k - 1]>>]
  BY <1>8 DEF IsCourse
<1>10. \A k \in 1..len : f[k] = One(f[k - 1], k)
  <2> TAKE k \in 1..len
  <2>1. k - 1 \in 0..len
    BY <1>1
  <2> HIDE DEF One
  <2> QED BY <1>5, <1>9, <2>1
<1>11. f = [k \in 0..len |-> IF k = 0 THEN a ELSE One(f[k - 1], k)]
  <2> HIDE DEF One
  <2> QED BY <1>1, <1>9, <1>10
<1>12. links = [k \in 0..len |-> IF k = 0 THEN a ELSE One(links[k - 1], k)]
  BY <1>11
<1> HIDE DEF links
<1> DEFINE G == {k \in 0..len : links[k] \in T[k]}
<1>13. 0 \in G
  BY <1>1, <1>3, <1>12
<1>14. ASSUME NEW k \in 1..len, k - 1 \in G PROVE k \in G
  <2> HIDE DEF One
  <2>1. links[k] = One(links[k - 1], k) /\ k \in 0..len
    BY <1>1, <1>12
  <2> QED BY <1>4, <1>14, <2>1
<1> HIDE DEF G
<1>15. len \in G
  <2>1. len \in 0..len
    BY <1>1
  <2> QED BY <1>1, <1>13, <1>14, <2>1, InductionUpTo
<1>16. links[len] \in T[len] /\ len \in 0..len
  BY <1>1, <1>15 DEF G
<1>17. ListsOnce(links[len], P(len))
  BY <1>16 DEF T
<1> QED BY <1>2, <1>17 DEF len

\* The pairs of peers, from their lower ends: those with a device so far, as
\* the loop over the miners and then the one over all nodes get on.
PeerPairs == {x \in Nodes \X Nodes : x[1] < x[2] /\ x[2] \in Peers(x[1])}
AmongMiners(x) == x[1] \in miners /\ x[2] \in miners
Paired ==
  IF pc = "minerLinks" THEN {x \in PeerPairs : AmongMiners(x) /\ x[1] \notin todo}
  ELSE IF pc = "nodeLinks" THEN {x \in PeerPairs : AmongMiners(x) \/ x[1] \notin todo}
  ELSE IF pc \in {"addresses", "done"} THEN PeerPairs ELSE {}

\* The addresses that n has been told: of the other ends of its devices.
Told(n) ==
  {a \in (1..Len(devices)) \X {1, 2} :
     a[1] \notin todo /\ devices[a[1]][3 - a[2]] = n}

\* The mesh stays in front of the miners' lists.
MeshStays ==
  pc # "miners" =>
    \A m \in miners :
      /\ NoMiners - 1 <= Degree(m)
      /\ {connections[m][k] : k \in 1..(NoMiners - 1)} = miners \ {m}
TodoFits ==
  todo \subseteq (IF pc = "minerLinks" THEN miners
                  ELSE IF pc = "addresses" THEN 1..Len(devices)
                  ELSE IF pc = "done" THEN {} ELSE Nodes)
DevicesFit == ListsOnce(devices, Paired)
AddressesFit ==
  /\ ips \in [Nodes -> Seq(Nat \X {1, 2})]
  /\ \A n \in Nodes : IF pc \in {"addresses", "done"} THEN ListsOnce(ips[n], Told(n))
                      ELSE ips[n] = <<>>
ApplicationsFit == pc = "done" => applications = MinerApplications \cup NodeApplications

BuildInv ==
  /\ DrawingInv /\ MeshStays /\ TodoFits /\ DevicesFit /\ AddressesFit /\ ApplicationsFit

-----------------------------------------------------------------------------
\* Nothing is installed at the start.
LEMMA BuildInit ==
  ASSUME Init
  PROVE  BuildInv
<1>1. DrawingInv
  BY DrawingInit
<1>2. /\ pc = "miners" /\ todo = {} /\ devices = <<>>
      /\ ips = [n \in Nodes |-> <<>>]
  BY DEF Init
<1>3. MeshStays /\ TodoFits /\ ApplicationsFit
  BY <1>2 DEF MeshStays, TodoFits, ApplicationsFit
<1>4. DevicesFit
  <2>1. Paired = {} /\ ListsOnce(<<>>, {})
    BY <1>2 DEF Paired, ListsOnce
  <2> QED BY <1>2, <2>1 DEF DevicesFit
<1>5. AddressesFit
  <2>1. <<>> \in Seq(Nat \X {1, 2})
    OBVIOUS
  <2> QED BY <1>2, <2>1 DEF AddressesFit
<1> QED BY <1>1, <1>3, <1>4, <1>5 DEF BuildInv

\* While lists are drawn nothing is installed, and lists only grow.
LEMMA DrawingBuilds ==
  ASSUME BuildInv, ChooseMiner \/ InterconnectMiners \/ TryPeer \/ NextNode
  PROVE  BuildInv'
<1>1. DrawingInv /\ DrawingInv'
  BY DrawingStep DEF BuildInv, Next
<1>2. /\ pc \in {"miners", "minerPeers", "nodePeers"}
      /\ pc' \in {"miners", "minerPeers", "nodePeers"}
      /\ devices' = devices /\ ips' = ips
  BY DEF ChooseMiner, InterconnectMiners, TryPeer, NextNode
<1>3. MeshStays'
  <2>1. CASE ChooseMiner
    <3>1. pc' = "miners"
      BY <2>1 DEF ChooseMiner
    <3> QED BY <3>1 DEF MeshStays
  <2>2. CASE InterconnectMiners
    <3>1. connections' \in Meshes /\ miners' = miners /\ miners \subseteq Nodes
      BY <1>1, <2>2 DEF InterconnectMiners, DrawingInv, DrawingTypes
    <3>2. NoMiners - 1 \in Nat /\ connections' \in [Nodes -> Seq(Nodes)]
      BY <1>1, TopologyAssumption DEF DrawingInv, DrawingTypes
    <3>3. \A m \in miners :
            /\ DOMAIN connections'[m] = 1..(NoMiners - 1)
            /\ {connections'[m][k] : k \in 1..(NoMiners - 1)} = miners \ {m}
      BY <3>1 DEF Meshes
    <3>4. \A m \in miners : Len(connections'[m]) = NoMiners - 1
      <4> TAKE m \in miners
      <4>1. connections'[m] \in Seq(Nodes) /\ DOMAIN connections'[m] = 1..(NoMiners - 1)
        BY <3>1, <3>2, <3>3
      <4> QED BY <3>2, <4>1, LenProperties
    <3> QED BY <3>1, <3>2, <3>3, <3>4 DEF MeshStays, Degree
  <2>3. CASE TryPeer
    <3>1. pc # "miners" /\ pc' = pc /\ miners' = miners /\ miners \subseteq Nodes
      BY <1>1, <2>3 DEF TryPeer, DrawingInv, DrawingTypes
    <3>2. NoMiners - 1 \in Nat /\ connections \in [Nodes -> Seq(Nodes)]
      BY <1>1, TopologyAssumption DEF DrawingInv, DrawingTypes
    <3>3. \A m \in Nodes : \/ connections'[m] = connections[m]
                           \/ \E c \in Nodes : connections'[m] = Append(connections[m], c)
      <4>1. todo \subseteq Nodes /\ todo # {} /\ nodes \subseteq Nodes
        BY <1>1, <2>3 DEF TryPeer, DrawingInv, DrawingTypes, Drawing
      <4>2. PICK i \in Nodes : i = Current
        BY <4>1, CurrentIsMember
      <4>3. PICK c \in Nodes :
              IF Accepts(i, c)
              THEN connections' = [connections EXCEPT
                     ![i] = Append(@, c), ![c] = Append(@, i)]
              ELSE connections' = connections
        BY <2>3, <4>1, <4>2 DEF TryPeer
      <4>4. CASE ~ Accepts(i, c)
        BY <4>3, <4>4
      <4>5. CASE Accepts(i, c)
        <5>1. c # i
          BY <4>5 DEF Accepts
        <5> QED BY <3>2, <4>3, <4>5, <5>1
      <4> QED BY <4>4, <4>5
    <3>4. ASSUME NEW m \in miners
          PROVE  /\ NoMiners - 1 <= Len(connections'[m])
                 /\ \A k \in 1..(NoMiners - 1) : connections'[m][k] = connections[m][k]
      <4> DEFINE s == connections[m]
                 t == connections'[m]
      <4>1. s \in Seq(Nodes) /\ Len(s) \in Nat /\ NoMiners - 1 <= Len(s)
        BY <3>1, <3>2 DEF BuildInv, MeshStays, Degree
      <4>2. t = s \/ \E c \in Nodes : t = Append(s, c)
        BY <3>1, <3>3
      <4> HIDE DEF s, t
      <4>3. Len(s) <= Len(t) /\ \A k \in 1..Len(s) : t[k] = s[k]
        BY <4>1, <4>2
      <4>4. \A k \in 1..(NoMiners - 1) : k \in 1..Len(s)
        BY <3>2, <4>1
      <4>5. Len(t) \in Nat
        BY <4>1, <4>2
      <4> QED BY <3>2, <4>1, <4>3, <4>4, <4>5 DEF s, t
    <3> QED BY <3>1, <3>4 DEF BuildInv, MeshStays, Degree
  <2>4. CASE NextNode
    BY <2>4 DEF NextNode, BuildInv, MeshStays, Degree
  <2> QED BY <2>1, <2>2, <2>3, <2>4
<1>4. TodoFits'
  <2>1. todo' \subseteq Nodes
    <3>1. CASE ChooseMiner
      BY <3>1 DEF ChooseMiner, BuildInv, TodoFits
    <3>2. CASE InterconnectMiners
      BY <1>1, <3>2 DEF InterconnectMiners, DrawingInv, DrawingTypes
    <3>3. CASE TryPeer \/ NextNode
      <4>1. todo \subseteq Nodes
        BY <1>2, <3>3 DEF BuildInv, TodoFits
      <4> QED BY <3>3, <4>1 DEF TryPeer, NextNode
    <3> QED BY <3>1, <3>2, <3>3
  <2> QED BY <1>2, <2>1 DEF TodoFits
<1>5. DevicesFit'
  <2>1. Paired = {} /\ Paired' = {}
    BY <1>2 DEF Paired
  <2> QED BY <1>2, <2>1 DEF BuildInv, DevicesFit
<1>6. AddressesFit' /\ ApplicationsFit'
  BY <1>2 DEF BuildInv, AddressesFit, ApplicationsFit
<1> QED BY <1>1, <1>3, <1>4, <1>5, <1>6 DEF BuildInv

\* The two loops over lists, as sets of pairs.
LEMMA LoopsListed ==
  ASSUME BuildInv, pc # "miners", NEW m \in Nodes
  PROVE  /\ ListsOnce(NodeLinks(m),
              {x \in PeerPairs : x[1] = m /\ ~ AmongMiners(x)})
         /\ m \in miners =>
              ListsOnce(MinerLinks(m), {x \in PeerPairs : x[1] = m /\ AmongMiners(x)})
<1>1. /\ connections[m] \in Seq(Nodes) /\ Degree(m) \in Nat /\ miners \subseteq Nodes
      /\ NoMiners - 1 \in Nat /\ Degree(m) = Len(connections[m])
      /\ \A j, k \in 1..Degree(m) : connections[m][j] = connections[m][k] => j = k
  BY TopologyAssumption DEF BuildInv, DrawingInv, DrawingTypes, LinksAreMutual, Degree
<1>2. ListsOnce(NodeLinks(m), {x \in PeerPairs : x[1] = m /\ ~ AmongMiners(x)})
  <2> DEFINE C == {p \in Nodes : p > m /\ (p \notin miners \/ m \notin miners)}
             s == connections[m]
             N == Pairs(m, s, C, Len(s))
  <2>1. s \in Seq(Nodes) /\ \A j, k \in 1..Len(s) : s[j] = s[k] => j = k
    BY <1>1
  <2>2. NodeLinks(m) = Links(m, s, C)
    BY DEF NodeLinks
  <2> HIDE DEF s, C
  <2>3. ListsOnce(Links(m, s, C), N)
    BY <2>1, LinksListed
  <2>4. {s[i] : i \in 1..Len(s)} = Peers(m)
    BY <1>1 DEF Peers, s
  <2>5. N = {x \in PeerPairs : x[1] = m /\ ~ AmongMiners(x)}
    <3>1. \A x \in N : /\ x \in PeerPairs /\ x[1] = m /\ ~ AmongMiners(x)
      <4> TAKE x \in N
      <4>1. PICK p \in Peers(m) \cap C : x = <<m, p>>
        BY <2>4 DEF Pairs
      <4>2. /\ p \in Nodes /\ p \in Int /\ m \in Int /\ m < p /\ p \in Peers(m)
            /\ p \notin miners \/ m \notin miners
        BY <4>1, TopologyAssumption DEF C, Nodes
      <4> QED BY <4>1, <4>2 DEF PeerPairs, AmongMiners
    <3>2. ASSUME NEW x \in PeerPairs, x[1] = m, ~ AmongMiners(x) PROVE x \in N
      <4>1. /\ x = <<m, x[2]>> /\ x[2] \in Nodes /\ m < x[2] /\ x[2] \in Peers(m)
        BY <3>2 DEF PeerPairs
      <4>2. x[2] \in Int /\ m \in Int
        BY <4>1, TopologyAssumption DEF Nodes
      <4>3. x[2] \in C
        BY <3>2, <4>1, <4>2 DEF C, AmongMiners
      <4> QED BY <2>4, <4>1, <4>3 DEF Pairs
    <3> QED BY <3>1, <3>2
  <2> QED BY <2>2, <2>3, <2>5
<1>3. ASSUME m \in miners
      PROVE  ListsOnce(MinerLinks(m), {x \in PeerPairs : x[1] = m /\ AmongMiners(x)})
  <2> DEFINE C == {p \in Nodes : p > m}
             l == NoMiners - 1
             c == connections[m]
             s == SubSeq(c, 1, l)
             N == Pairs(m, s, C, Len(s))
  <2>1. l <= Len(c) /\ {c[k] : k \in 1..l} = miners \ {m}
    BY <1>1, <1>3 DEF BuildInv, MeshStays
  <2>2. MinerLinks(m) = Links(m, s, C)
    BY DEF MinerLinks
  <2>3. c \in Seq(Nodes) /\ l \in Nat /\ Len(c) \in Nat
    BY <1>1
  <2> HIDE DEF c, C, l
  <2>4. s \in Seq(Nodes) /\ Len(s) = l /\ \A k \in 1..l : s[k] = c[k]
    BY <2>1, <2>3
  <2>5. \A j, k \in 1..l : s[j] = s[k] => j = k
    <3>1. \A k \in 1..l : k \in 1..Degree(m)
      BY <1>1, <2>1, <2>3 DEF c
    <3> QED BY <1>1, <2>4, <3>1 DEF c
  <2>6. {s[k] : k \in 1..l} = miners \ {m}
    BY <2>1, <2>4
  <2>7. miners \ {m} \subseteq Peers(m)
    <3>1. \A k \in 1..l : k \in 1..Degree(m)
      BY <1>1, <2>1, <2>3 DEF c
    <3> QED BY <2>1, <3>1 DEF Peers, c
  <2> HIDE DEF s
  <2>8. ListsOnce(Links(m, s, C), N)
    BY <2>4, <2>5, LinksListed
  <2>9. N = {x \in PeerPairs : x[1] = m /\ AmongMiners(x)}
    <3>1. \A x \in N : x \in PeerPairs /\ x[1] = m /\ AmongMiners(x)
      <4> TAKE x \in N
      <4>1. PICK p \in (miners \ {m}) \cap C : x = <<m, p>>
        BY <2>4, <2>6 DEF Pairs
      <4>2. /\ p \in Nodes /\ p \in Int /\ m \in Int /\ m < p /\ p \in Peers(m)
            /\ p \in miners
        BY <4>1, <2>7, TopologyAssumption DEF C, Nodes
      <4> QED BY <1>3, <4>1, <4>2 DEF PeerPairs, AmongMiners
    <3>2. ASSUME NEW x \in PeerPairs, x[1] = m, AmongMiners(x) PROVE x \in N
      <4>1. /\ x = <<m, x[2]>> /\ x[2] \in Nodes /\ m < x[2] /\ x[2] \in miners
        BY <3>2 DEF PeerPairs, AmongMiners
      <4>2. x[2] \in Int /\ m \in Int
        BY <4>1, TopologyAssumption DEF Nodes
      <4>3. x[2] \in C /\ x[2] \in miners \ {m}
        BY <4>1, <4>2 DEF C
      <4> QED BY <2>4, <2>6, <4>1, <4>3 DEF Pairs
    <3> QED BY <3>1, <3>2
  <2> QED BY <2>2, <2>8, <2>9
<1> QED BY <1>2, <1>3

\* What a node of the loops adds to the devices.
LEMMA InstallBuilds ==
  ASSUME BuildInv, InstallLinks
  PROVE  BuildInv'
<1>1. DrawingInv /\ DrawingInv'
  BY DrawingStep DEF BuildInv, Next
<1>2. /\ pc \in {"minerLinks", "nodeLinks"} /\ pc' = pc /\ todo # {}
      /\ UNCHANGED <<miners, connections, ips>>
      /\ todo \subseteq Nodes
      /\ pc = "minerLinks" => todo \subseteq miners
  <2>1. miners \subseteq Nodes
    BY <1>1 DEF DrawingInv, DrawingTypes
  <2> QED BY <2>1 DEF InstallLinks, BuildInv, TodoFits
<1>3. PICK m : m = Current
  OBVIOUS
<1>4. m \in todo /\ m \in Nodes
  BY <1>2, <1>3, CurrentIsMember
<1>5. /\ todo' = todo \ {m}
      /\ devices' = devices \o (IF pc = "minerLinks" THEN MinerLinks(m) ELSE NodeLinks(m))
  BY <1>3 DEF InstallLinks
<1>6. PeerPairs' = PeerPairs /\ \A x : AmongMiners(x)' <=> AmongMiners(x)
  BY <1>2 DEF PeerPairs, AmongMiners, Peers, Degree
<1>7. MeshStays' /\ TodoFits' /\ AddressesFit' /\ ApplicationsFit'
  <2>1. MeshStays'
    BY <1>2 DEF BuildInv, MeshStays, Degree
  <2>2. TodoFits'
    BY <1>2, <1>5 DEF TodoFits
  <2>3. AddressesFit'
    BY <1>2 DEF BuildInv, AddressesFit
  <2>4. ApplicationsFit'
    BY <1>2 DEF ApplicationsFit
  <2> QED BY <2>1, <2>2, <2>3, <2>4
<1>8. DevicesFit'
  <2> DEFINE New == IF pc = "minerLinks" THEN {x \in PeerPairs : x[1] = m /\ AmongMiners(x)}
                    ELSE {x \in PeerPairs : x[1] = m /\ ~ AmongMiners(x)}
             t == IF pc = "minerLinks" THEN MinerLinks(m) ELSE NodeLinks(m)
             S == Paired
  <2>1. ListsOnce(t, New)
    <3>1. pc # "miners"
      BY <1>2
    <3>2. pc = "minerLinks" => m \in miners
      BY <1>2, <1>4
    <3> QED BY <1>4, <3>1, <3>2, LoopsListed
  <2>2. S \cap New = {}
    BY <1>2, <1>4 DEF Paired
  <2>3. Paired' = S \cup New
    <3>1. CASE pc = "minerLinks"
      <4>1. /\ S = {x \in PeerPairs : AmongMiners(x) /\ x[1] \notin todo}
            /\ Paired' = {x \in PeerPairs : AmongMiners(x) /\ x[1] \notin todo'}
        BY <1>2, <1>6, <3>1 DEF Paired
      <4> QED BY <1>4, <1>5, <3>1, <4>1
    <3>2. CASE pc = "nodeLinks"
      <4>1. /\ S = {x \in PeerPairs : AmongMiners(x) \/ x[1] \notin todo}
            /\ Paired' = {x \in PeerPairs : AmongMiners(x) \/ x[1] \notin todo'}
        BY <1>2, <1>6, <3>2 DEF Paired
      <4> QED BY <1>4, <1>5, <3>2, <4>1
    <3> QED BY <1>2, <3>1, <3>2
  <2>4. ListsOnce(devices, S)
    BY DEF BuildInv, DevicesFit
  <2>5. devices' = devices \o t
    BY <1>5
  <2> HIDE DEF S, t, New
  <2>6. ListsOnce(devices \o t, S \cup New)
    BY <2>1, <2>2, <2>4, ListedJoined
  <2> QED BY <2>3, <2>5, <2>6 DEF DevicesFit
<1> QED BY <1>1, <1>7, <1>8 DEF BuildInv

\* A loop that has visited all of its nodes has made all of its pairs.
LEMMA NextLoopBuilds ==
  ASSUME BuildInv, NextLoop
  PROVE  BuildInv'
<1>1. DrawingInv /\ DrawingInv'
  BY DrawingStep DEF BuildInv, Next
<1>2. todo = {} /\ UNCHANGED <<miners, connections, devices, ips, applications>>
  BY DEF NextLoop
<1>3. \/ pc = "minerPeers" /\ pc' = "nodePeers" /\ todo' = Nodes
      \/ pc = "nodePeers" /\ pc' = "minerLinks" /\ todo' = miners
      \/ pc = "minerLinks" /\ pc' = "nodeLinks" /\ todo' = Nodes
      \/ pc = "nodeLinks" /\ pc' = "addresses" /\ todo' = 1 .. Len(devices)
  BY DEF NextLoop
<1>4. PeerPairs' = PeerPairs /\ \A x : AmongMiners(x)' <=> AmongMiners(x)
  BY <1>2 DEF PeerPairs, AmongMiners, Peers, Degree
<1>5. MeshStays'
  <2>1. pc # "miners" /\ pc' # "miners"
    BY <1>3
  <2> QED BY <1>2, <2>1 DEF BuildInv, MeshStays, Degree
<1>6. TodoFits' /\ ApplicationsFit'
  BY <1>2, <1>3 DEF TodoFits, ApplicationsFit
<1>7. DevicesFit'
  <2>1. Paired' = Paired
    <3>1. \A x \in PeerPairs : x[1] \in Nodes /\ (AmongMiners(x) => x[1] \in miners)
      BY DEF PeerPairs, AmongMiners
    <3>2. CASE pc = "minerPeers" /\ pc' = "nodePeers"
      BY <3>2 DEF Paired
    <3>3. CASE pc = "nodePeers" /\ pc' = "minerLinks" /\ todo' = miners
      <4>1. /\ Paired = {}
            /\ Paired' = {x \in PeerPairs : AmongMiners(x) /\ x[1] \notin miners}
        BY <1>4, <3>3 DEF Paired
      <4> QED BY <3>1, <4>1
    <3>4. CASE pc = "minerLinks" /\ pc' = "nodeLinks" /\ todo' = Nodes
      <4>1. /\ Paired = {x \in PeerPairs : AmongMiners(x)}
            /\ Paired' = {x \in PeerPairs : AmongMiners(x) \/ x[1] \notin Nodes}
        BY <1>2, <1>4, <3>4 DEF Paired
      <4> QED BY <3>1, <4>1
    <3>5. CASE pc = "nodeLinks" /\ pc' = "addresses"
      BY <1>2, <1>4, <3>5 DEF Paired
    <3> QED BY <1>3, <3>2, <3>3, <3>4, <3>5
  <2> QED BY <1>2, <2>1 DEF BuildInv, DevicesFit
<1>8. AddressesFit'
  <2>1. /\ ips \in [Nodes -> Seq(Nat \X {1, 2})]
        /\ \A n \in Nodes : ips[n] = <<>>
    BY <1>3 DEF BuildInv, AddressesFit
  <2>2. CASE pc' # "addresses"
    BY <1>2, <1>3, <2>1, <2>2 DEF AddressesFit
  <2>3. CASE pc' = "addresses"
    <3>1. \A n \in Nodes : Told(n)' = {}
      BY <1>2, <1>3, <2>3 DEF Told
    <3>2. ListsOnce(<<>>, {})
      BY DEF ListsOnce
    <3> QED BY <1>2, <2>1, <2>3, <3>1, <3>2 DEF AddressesFit
  <2> QED BY <2>2, <2>3
<1> QED BY <1>1, <1>5, <1>6, <1>7, <1>8 DEF BuildInv

\* A device tells each of its ends the other's address.
LEMMA AssignBuilds ==
  ASSUME BuildInv, AssignIpv4Address
  PROVE  BuildInv'
<1>1. DrawingInv /\ DrawingInv'
  BY DrawingStep DEF BuildInv, Next
<1>2. /\ pc = "addresses" /\ pc' = pc /\ todo # {}
      /\ UNCHANGED <<miners, connections, devices>>
      /\ todo \subseteq 1..Len(devices)
  BY DEF AssignIpv4Address, BuildInv, TodoFits
<1>3. PICK d : d = Current
  OBVIOUS
<1>4. ListsOnce(devices, PeerPairs)
  BY <1>2 DEF BuildInv, DevicesFit, Paired
<1>5. devices \in Seq(PeerPairs) /\ Len(devices) \in Nat
  BY <1>4 DEF ListsOnce
<1>6. d \in todo /\ d \in 1..Len(devices)
  <2>1. todo \in SUBSET Nat
    BY <1>2, <1>5
  <2>2. \E x \in todo : \A y \in todo : x <= y
    BY <1>2, <2>1, LeastNatural
  <2> QED BY <1>2, <1>3, <2>2 DEF Current, Least
<1>7. PICK one \in Nodes, two \in Nodes :
        devices[d][1] = one /\ devices[d][2] = two /\ one # two
  <2>1. devices[d] \in PeerPairs
    BY <1>5, <1>6
  <2>2. \A n \in Nodes : n \in Int
    BY TopologyAssumption DEF Nodes
  <2> QED BY <2>1, <2>2 DEF PeerPairs
<1>8. /\ todo' = todo \ {d}
      /\ ips' = [ips EXCEPT ![one] = Append(@, <<d, 2>>), ![two] = Append(@, <<d, 1>>)]
  BY <1>3, <1>7 DEF AssignIpv4Address, Address
<1>9. ips \in [Nodes -> Seq(Nat \X {1, 2})] /\ \A n \in Nodes : ListsOnce(ips[n], Told(n))
  BY <1>2 DEF BuildInv, AddressesFit
<1>10. /\ ips'[one] = Append(ips[one], <<d, 2>>)
       /\ ips'[two] = Append(ips[two], <<d, 1>>)
       /\ \A n \in Nodes : n # one /\ n # two => ips'[n] = ips[n]
       /\ DOMAIN ips' = Nodes /\ ips' = [n \in Nodes |-> ips'[n]]
  BY <1>7, <1>8, <1>9
<1>11. /\ Told(one)' = Told(one) \cup {<<d, 2>>} /\ <<d, 2>> \notin Told(one)
       /\ Told(two)' = Told(two) \cup {<<d, 1>>} /\ <<d, 1>> \notin Told(two)
       /\ \A n \in Nodes : n # one /\ n # two => Told(n)' = Told(n)
  <2> DEFINE New(n) == {a \in {d} \X {1, 2} : devices[d][3 - a[2]] = n}
  <2>1. ASSUME NEW n PROVE Told(n)' = Told(n) \cup New(n) /\ Told(n) \cap New(n) = {}
    <3>1. Told(n)' = {a \in (1..Len(devices)) \X {1, 2} :
                        a[1] \notin todo \ {d} /\ devices[a[1]][3 - a[2]] = n}
      BY <1>2, <1>8 DEF Told
    <3> QED BY <1>6, <3>1 DEF Told
  <2>2. 3 - 1 = 2 /\ 3 - 2 = 1
    OBVIOUS
  <2>3. New(one) = {<<d, 2>>} /\ New(two) = {<<d, 1>>}
    BY <1>7, <2>2
  <2>4. \A n \in Nodes : n # one /\ n # two => New(n) = {}
    BY <1>7, <2>2
  <2> HIDE DEF New
  <2> QED BY <2>1, <2>3, <2>4
<1>12. /\ ListsOnce(ips'[one], Told(one)')
       /\ ListsOnce(ips'[two], Told(two)')
  <2> DEFINE S == Told(one)
             T == Told(two)
             x == <<d, 2>>
             y == <<d, 1>>
  <2>1. ListsOnce(ips[one], S) /\ ListsOnce(ips[two], T)
    BY <1>7, <1>9
  <2>2. x \notin S /\ y \notin T
    BY <1>11
  <2>3. /\ ips'[one] = Append(ips[one], x) /\ Told(one)' = S \cup {x}
        /\ ips'[two] = Append(ips[two], y) /\ Told(two)' = T \cup {y}
    BY <1>10, <1>11
  <2> HIDE DEF S, T, x, y
  <2>4. ListsOnce(Append(ips[one], x), S \cup {x})
    BY <2>1, <2>2, ListedOneMore
  <2>5. ListsOnce(Append(ips[two], y), T \cup {y})
    BY <2>1, <2>2, ListedOneMore
  <2> QED BY <2>3, <2>4, <2>5
<1>13. \A n \in Nodes : ListsOnce(ips'[n], Told(n)')
  BY <1>9, <1>10, <1>11, <1>12
<1>14. ips' \in [Nodes -> Seq(Nat \X {1, 2})]
  <2>1. \A n \in Nodes : ips'[n] \in Seq(Nat \X {1, 2})
    <3>1. <<d, 1>> \in Nat \X {1, 2} /\ <<d, 2>> \in Nat \X {1, 2}
      <4>1. d \in Nat
        BY <1>5, <1>6
      <4> QED BY <4>1
    <3>2. ips[one] \in Seq(Nat \X {1, 2}) /\ ips[two] \in Seq(Nat \X {1, 2})
      BY <1>7, <1>9
    <3>3. ips'[one] \in Seq(Nat \X {1, 2}) /\ ips'[two] \in Seq(Nat \X {1, 2})
      BY <1>10, <3>1, <3>2
    <3> QED BY <1>9, <1>10, <3>3
  <2> QED BY <1>10, <2>1
<1>15. AddressesFit'
  BY <1>2, <1>13, <1>14 DEF AddressesFit
<1>16. MeshStays' /\ TodoFits' /\ ApplicationsFit'
  <2>1. MeshStays'
    BY <1>2 DEF BuildInv, MeshStays, Degree
  <2> QED BY <1>2, <1>8, <2>1 DEF TodoFits, ApplicationsFit
<1>17. DevicesFit'
  <2>1. Paired' = PeerPairs /\ Paired = PeerPairs
    BY <1>2 DEF Paired, PeerPairs, Peers, Degree
  <2> QED BY <1>2, <1>4, <2>1 DEF DevicesFit
<1> QED BY <1>1, <1>15, <1>16, <1>17 DEF BuildInv

\* The statements after the drawing, and a step that changes nothing.
LEMMA BuildStep ==
  ASSUME BuildInv, [Next]_vars
  PROVE  BuildInv'
<1>1. CASE ChooseMiner \/ InterconnectMiners \/ TryPeer \/ NextNode
  BY <1>1, DrawingBuilds
<1>2. CASE InstallLinks
  BY <1>2, InstallBuilds
<1>3. CASE NextLoop
  BY <1>3, NextLoopBuilds
<1>4. CASE AssignIpv4Address
  BY <1>4, AssignBuilds
<1>5. CASE InstallApplications
  <2>1. DrawingInv'
    BY <1>5, DrawingStep DEF BuildInv, Next
  <2>2. /\ pc = "addresses" /\ pc' = "done" /\ todo = {} /\ todo' = {}
        /\ UNCHANGED <<miners, connections, devices, ips>>
        /\ applications' = MinerApplications \cup NodeApplications
    BY <1>5 DEF InstallApplications
  <2>3. MeshStays' /\ TodoFits' /\ ApplicationsFit'
    <3>1. MeshStays'
      BY <2>2 DEF BuildInv, MeshStays, Degree
    <3>2. ApplicationsFit'
      BY <2>2 DEF ApplicationsFit, MinerApplications, NodeApplications
    <3> QED BY <2>2, <3>1, <3>2 DEF TodoFits
  <2>4. DevicesFit'
    BY <2>2 DEF BuildInv, DevicesFit, Paired, PeerPairs, Peers, Degree
  <2>5. AddressesFit'
    BY <2>2 DEF BuildInv, AddressesFit, Told
  <2> QED BY <2>1, <2>3, <2>4, <2>5 DEF BuildInv
<1>6. CASE UNCHANGED vars
  <2>1. DrawingInv'
    BY <1>6, DrawingStep DEF BuildInv
  <2>2. UNCHANGED <<pc, todo, miners, connections, devices, ips, applications>>
    BY <1>6 DEF vars
  <2>3. MeshStays' /\ TodoFits'
    BY <2>2 DEF BuildInv, MeshStays, TodoFits, Degree
  <2>4. DevicesFit'
    BY <2>2 DEF BuildInv, DevicesFit, Paired, PeerPairs, AmongMiners, Peers, Degree
  <2>5. AddressesFit' /\ ApplicationsFit'
    BY <2>2 DEF BuildInv, AddressesFit, ApplicationsFit, Told, MinerApplications,
       NodeApplications
  <2> QED BY <2>1, <2>3, <2>4, <2>5 DEF BuildInv
<1> QED BY <1>1, <1>2, <1>3, <1>4, <1>5, <1>6 DEF Next

\* The devices and the addresses handed out, at every statement of the
\* constructor and of main.
THEOREM BuildInvariance == Spec => []BuildInv
<1>1. Init => BuildInv
  BY BuildInit
<1>2. BuildInv /\ [Next]_vars => BuildInv'
  BY BuildStep
<1> QED BY <1>1, <1>2, PTL DEF Spec

\* Every node has one address of each of its peers in the end.
LEMMA OwnersArePeers ==
  ASSUME BuildInv, pc = "done", NEW n \in Nodes
  PROVE  /\ Len(ips[n]) = Degree(n)
         /\ {Owner(ips[n][k]) : k \in 1..Len(ips[n])} = Peers(n)
<1> DEFINE s == ips[n]
           o == [k \in 1..Len(s) |-> Owner(s[k])]
           P == Peers(n)
<1>1. /\ s \in Seq(Told(n)) /\ Len(s) \in Nat
      /\ \A a \in Told(n) : \E k \in 1..Len(s) : s[k] = a
      /\ \A j, k \in 1..Len(s) : s[j] = s[k] => j = k
  BY DEF BuildInv, AddressesFit, ListsOnce
<1>2. /\ devices \in Seq(PeerPairs)
      /\ \A x \in PeerPairs : \E d \in 1..Len(devices) : devices[d] = x
      /\ \A c, d \in 1..Len(devices) : devices[c] = devices[d] => c = d
  BY DEF BuildInv, DevicesFit, Paired, ListsOnce
<1>3. Told(n) = {a \in (1..Len(devices)) \X {1, 2} : devices[a[1]][3 - a[2]] = n}
  BY DEF BuildInv, TodoFits, Told
<1>4. /\ connections \in [Nodes -> Seq(Nodes)]
      /\ n \notin P /\ P \subseteq Nodes
      /\ \A x, y \in Nodes : x \in Peers(y) => y \in Peers(x)
      /\ \A j, k \in 1..Degree(n) : connections[n][j] = connections[n][k] => j = k
  <2>1. connections \in [Nodes -> Seq(Nodes)] /\ LinksAreMutual
    BY DEF BuildInv, DrawingInv, DrawingTypes
  <2>2. \A x \in Nodes : Peers(x) \subseteq Nodes
    BY <2>1 DEF Peers, Degree
  <2>3. \A x \in Nodes : x \notin Peers(x) /\ \A y \in Peers(x) : x \in Peers(y)
    BY <2>1 DEF LinksAreMutual
  <2>4. \A j, k \in 1..Degree(n) : connections[n][j] = connections[n][k] => j = k
    BY <2>1 DEF LinksAreMutual
  <2> QED BY <2>1, <2>2, <2>3, <2>4
<1>5. \A x, y \in Nodes : x < y \/ y < x \/ x = y
  BY TopologyAssumption DEF Nodes
<1>n. 3 - 1 = 2 /\ 3 - 2 = 1
  OBVIOUS
\* An end of a device that n has been told of is a peer, and the device is
\* between the two.
<1>6. ASSUME NEW a \in Told(n)
      PROVE  /\ Owner(a) \in P
             /\ \/ a[2] = 2 /\ devices[a[1]] = <<n, Owner(a)>> /\ n < Owner(a)
                \/ a[2] = 1 /\ devices[a[1]] = <<Owner(a), n>> /\ Owner(a) < n
  <2>1. a[1] \in 1..Len(devices) /\ a[2] \in {1, 2} /\ devices[a[1]][3 - a[2]] = n
    BY <1>3
  <2>2. devices[a[1]] \in PeerPairs
    BY <1>2, <2>1
  <2>3. CASE a[2] = 2
    BY <1>n, <2>1, <2>2, <2>3 DEF PeerPairs, Owner
  <2>4. CASE a[2] = 1
    BY <1>4, <1>n, <2>1, <2>2, <2>4 DEF PeerPairs, Owner
  <2> QED BY <2>1, <2>3, <2>4
<1>7. ASSUME NEW a \in Told(n), NEW b \in Told(n), Owner(a) = Owner(b) PROVE a = b
  <2>1. /\ a \in (1..Len(devices)) \X {1, 2} /\ b \in (1..Len(devices)) \X {1, 2}
    BY <1>3
  <2>2. PICK p \in Nodes : Owner(a) = p /\ Owner(b) = p
    BY <1>4, <1>6, <1>7
  <2>3. a[2] = b[2] /\ devices[a[1]] = devices[b[1]]
    <3>1. ~ (n < p /\ p < n)
      BY <2>2, TopologyAssumption DEF Nodes
    <3>2. \/ a[2] = 2 /\ devices[a[1]] = <<n, p>> /\ n < p
          \/ a[2] = 1 /\ devices[a[1]] = <<p, n>> /\ p < n
      BY <1>6, <2>2
    <3>3. \/ b[2] = 2 /\ devices[b[1]] = <<n, p>> /\ n < p
          \/ b[2] = 1 /\ devices[b[1]] = <<p, n>> /\ p < n
      BY <1>6, <2>2
    <3> QED BY <3>1, <3>2, <3>3
  <2>4. a[1] = b[1]
    BY <1>2, <2>1, <2>3
  <2> QED BY <2>1, <2>3, <2>4
<1>8. ASSUME NEW p \in P PROVE \E a \in Told(n) : Owner(a) = p
  <2>1. p \in Nodes /\ n \in Peers(p)
    BY <1>4
  <2>2. n < p \/ p < n
    BY <1>4, <1>5, <2>1
  <2>3. CASE n < p
    <3>1. PICK d \in 1..Len(devices) : devices[d] = <<n, p>>
      <4>1. <<n, p>> \in PeerPairs
        BY <2>1, <2>3 DEF PeerPairs
      <4> QED BY <1>2, <4>1
    <3>2. <<d, 2>> \in Told(n) /\ Owner(<<d, 2>>) = p
      BY <1>3, <1>n, <3>1 DEF Owner
    <3> QED BY <3>2
  <2>4. CASE p < n
    <3>1. PICK d \in 1..Len(devices) : devices[d] = <<p, n>>
      <4>1. <<p, n>> \in PeerPairs
        BY <2>1, <2>4 DEF PeerPairs
      <4> QED BY <1>2, <4>1
    <3>2. <<d, 1>> \in Told(n) /\ Owner(<<d, 1>>) = p
      BY <1>3, <1>n, <3>1 DEF Owner
    <3> QED BY <3>2
  <2> QED BY <2>2, <2>3, <2>4
<1> HIDE DEF s, P
<1>9. \A k \in 1..Len(s) : s[k] \in Told(n) /\ o[k] = Owner(s[k]) /\ o[k] \in P
  BY <1>1, <1>6
<1>10. o \in Seq(P) /\ Len(o) = Len(s)
  <2>1. o \in [1..Len(s) -> P]
    BY <1>9
  <2> HIDE DEF o
  <2> QED BY <1>1, <2>1
<1>11. \A p \in P : \E k \in 1..Len(s) : o[k] = p
  <2> TAKE p \in P
  <2>1. PICK a \in Told(n) : Owner(a) = p
    BY <1>8
  <2>2. PICK k \in 1..Len(s) : s[k] = a
    BY <1>1
  <2> QED BY <1>9, <2>1, <2>2
<1>12. \A j, k \in 1..Len(s) : o[j] = o[k] => j = k
  BY <1>1, <1>7, <1>9
<1>13. ListsOnce(o, P)
  <2> HIDE DEF o
  <2> QED BY <1>10, <1>11, <1>12 DEF ListsOnce
<1>14. Len(s) = Cardinality(P)
  <2> HIDE DEF o
  <2> QED BY <1>10, <1>13, ListedLength
<1>15. ListsOnce(connections[n], P)
  <2>1. connections[n] \in Seq(P)
    <3>1. connections[n] \in Seq(Nodes) /\ Len(connections[n]) \in Nat
      BY <1>4
    <3>2. \A k \in 1..Len(connections[n]) : connections[n][k] \in P
      BY DEF P, Peers, Degree
    <3> QED BY <3>1, <3>2
  <2> QED BY <1>4, <2>1 DEF ListsOnce, P, Peers, Degree
<1>16. Degree(n) = Cardinality(P)
  BY <1>15, ListedLength DEF Degree
<1>17. {Owner(s[k]) : k \in 1..Len(s)} = P
  BY <1>9, <1>11
<1> QED BY <1>14, <1>16, <1>17 DEF s, P

\* Every node has one address of each of its peers in the end, and an
\* application runs there.
THEOREM AddressesLead == Spec => []AddressesLeadToPeers
<1>1. ASSUME BuildInv, pc = "done" PROVE AddressesLeadToPeers
  <2>1. \A n \in Nodes : /\ Len(ips[n]) = Degree(n)
                         /\ {Owner(ips[n][k]) : k \in 1..Len(ips[n])} = Peers(n)
    BY <1>1, OwnersArePeers
  <2>2. ASSUME NEW n \in Nodes, NEW p \in Peers(n) PROVE p \in applications
    <3>1. LinksAreMutual /\ connections \in [Nodes -> Seq(Nodes)]
      BY <1>1 DEF BuildInv, DrawingInv, DrawingTypes
    <3>2. p \in Nodes /\ n \in Peers(p)
      BY <3>1 DEF LinksAreMutual, Peers, Degree
    <3>3. Len(ips[p]) # 0
      <4>1. Degree(p) \in Nat
        BY <3>1, <3>2 DEF Degree
      <4>2. PICK k \in 1..Degree(p) : connections[p][k] = n
        BY <3>2 DEF Peers
      <4> QED BY <2>1, <3>2, <4>1, <4>2
    <3>4. ips[p] # <<>>
      BY <3>3
    <3> QED BY <1>1, <3>2, <3>4 DEF BuildInv, ApplicationsFit, MinerApplications,
            NodeApplications
  <2> QED BY <2>1, <2>2 DEF AddressesLeadToPeers
<1>2. BuildInv => AddressesLeadToPeers
  BY <1>1 DEF AddressesLeadToPeers
<1> QED BY <1>2, BuildInvariance, PTL

-----------------------------------------------------------------------------
(* Connections: the bytes of frames *)

Frames == [msg : Msgs, seq : Nat, len : Nat, payload_len : Nat]
Octets == Frames \X Nat

\* A byte of the frame that a message of m has as the b[1].seq-th.
Valid(m, b) ==
  /\ b[1].seq + 1 \in 1..Len(m) /\ b[1] = Frame(m[b[1].seq + 1], b[1].seq)
  /\ b[2] \in 1..b[1].len

\* Where a byte is, and where the next one is.
Place(b)  == <<b[1].seq, b[2]>>
Beyond(b) == IF b[2] < b[1].len THEN <<b[1].seq, b[2] + 1>> ELSE <<b[1].seq + 1, 1>>

\* Where bytes that start at place p go on after the first j of them.
PlaceIn(s, p, j) == IF j = 0 THEN p ELSE Beyond(s[j])
End(s, p) == PlaceIn(s, p, Len(s))

\* The bytes s are those of the frames of m from place p.
Run(m, s, p) ==
  \A j \in 1..Len(s) : Valid(m, s[j]) /\ Place(s[j]) = PlaceIn(s, p, j - 1)

\* So are those of the packets in q.
Packet == Seq(Octets) \ {<<>>}
ChainEnd(q, p) == IF q = <<>> THEN p ELSE End(q[Len(q)], p)
Chain(m, q, p) ==
  \A j \in 1..Len(q) : Run(m, q[j], IF j = 1 THEN p ELSE End(q[j - 1], p))

-----------------------------------------------------------------------------
(* Bytes one after another *)

\* The frame of a message has its prefix, its payload unless that is a tag,
\* and at least one byte more than the prefix.
LEMMA FrameProperty ==
  ASSUME NEW msg \in Msgs, NEW i \in Nat
  PROVE  /\ Frame(msg, i) \in Frames
         /\ Frame(msg, i).msg = msg /\ Frame(msg, i).seq = i
         /\ Frame(msg, i).len >= FRAME_PREFIX_SIZE + 1
         /\ Frame(msg, i).payload_len + FRAME_PREFIX_SIZE <= Frame(msg, i).len
<1> DEFINE len == Max2(WireBytes[msg], FRAME_PREFIX_SIZE + 1)
           pl  == IF FRAME_PREFIX_SIZE + PayloadSize[msg] <= len THEN PayloadSize[msg] ELSE 0
<1>1. /\ WireBytes[msg] \in Nat /\ PayloadSize[msg] \in Nat
      /\ FRAME_PREFIX_SIZE \in Nat
  BY SizesOK
<1>2. len \in Nat /\ len >= FRAME_PREFIX_SIZE + 1
  BY <1>1 DEF Max2
<1>3. pl \in Nat /\ pl + FRAME_PREFIX_SIZE <= len
  BY <1>1, <1>2
<1>4. Frame(msg, i) = [msg |-> msg, seq |-> i, len |-> len, payload_len |-> pl]
  BY DEF Frame
<1> HIDE DEF len, pl
<1> QED BY <1>1, <1>2, <1>3, <1>4 DEF Frames

\* Bytes of a frame.
LEMMA BytesProperty ==
  ASSUME NEW f \in Frames, NEW a \in Nat, NEW b \in Nat, a <= b + 1
  PROVE  /\ Bytes(f, a, b) \in Seq(Octets)
         /\ Len(Bytes(f, a, b)) = b - a + 1
         /\ \A k \in 1..(b - a + 1) : Bytes(f, a, b)[k] = <<f, a + k - 1>>
<1>1. b - a + 1 \in Nat
  OBVIOUS
<1>2. \A k \in 1..(b - a + 1) : <<f, a + k - 1>> \in Octets
  BY DEF Octets
<1>3. Bytes(f, a, b) \in [1..(b - a + 1) -> Octets]
  BY <1>2 DEF Bytes
<1>4. Bytes(f, a, b) \in Seq(Octets)
  BY <1>1, <1>3, SeqDef
<1>5. Len(Bytes(f, a, b)) = b - a + 1
  BY <1>1, <1>3, <1>4
<1> QED BY <1>4, <1>5 DEF Bytes

\* The places of bytes joined.
LEMMA PlaceInJoined ==
  ASSUME NEW s \in Seq(Octets), NEW t \in Seq(Octets), NEW p
  PROVE  /\ \A j \in 0..Len(s) : PlaceIn(s \o t, p, j) = PlaceIn(s, p, j)
         /\ \A j \in 0..Len(t) : PlaceIn(s \o t, p, Len(s) + j) = PlaceIn(t, End(s, p), j)
         /\ End(s \o t, p) = End(t, End(s, p))
<1>1. /\ Len(s) \in Nat /\ Len(t) \in Nat /\ Len(s \o t) = Len(s) + Len(t)
      /\ \A j \in 1..Len(s) : (s \o t)[j] = s[j]
      /\ \A j \in 1..Len(t) : (s \o t)[Len(s) + j] = t[j]
  OBVIOUS
<1>2. ASSUME NEW j \in 0..Len(s) PROVE PlaceIn(s \o t, p, j) = PlaceIn(s, p, j)
  BY <1>1 DEF PlaceIn
<1>3. ASSUME NEW j \in 0..Len(t)
      PROVE  PlaceIn(s \o t, p, Len(s) + j) = PlaceIn(t, End(s, p), j)
  <2>1. CASE j = 0
    <3>1. PlaceIn(s \o t, p, Len(s)) = PlaceIn(s, p, Len(s)) /\ Len(s) + 0 = Len(s)
      BY <1>1, <1>2
    <3> QED BY <2>1, <3>1 DEF PlaceIn, End
  <2>2. CASE j # 0
    BY <1>1, <2>2 DEF PlaceIn
  <2> QED BY <2>1, <2>2
<1>4. End(s \o t, p) = End(t, End(s, p))
  <2>1. Len(t) \in 0..Len(t) /\ Len(s \o t) = Len(s) + Len(t)
    BY <1>1
  <2>2. PlaceIn(s \o t, p, Len(s) + Len(t)) = PlaceIn(t, End(s, p), Len(t))
    BY <1>3, <2>1
  <2> QED BY <2>1, <2>2 DEF End
<1> QED BY <1>2, <1>3, <1>4

\* Bytes joined follow each other if the second ones follow the first.
LEMMA RunJoined ==
  ASSUME NEW m, NEW s \in Seq(Octets), NEW t \in Seq(Octets), NEW p
  PROVE  Run(m, s \o t, p) <=> Run(m, s, p) /\ Run(m, t, End(s, p))
<1>1. /\ Len(s) \in Nat /\ Len(t) \in Nat /\ Len(s \o t) = Len(s) + Len(t)
      /\ \A j \in 1..Len(s) : (s \o t)[j] = s[j]
      /\ \A j \in 1..Len(t) : (s \o t)[Len(s) + j] = t[j]
  OBVIOUS
<1> DEFINE Good(u, q, j) == Valid(m, u[j]) /\ Place(u[j]) = PlaceIn(u, q, j - 1)
<1>2. ASSUME NEW j \in 1..Len(s) PROVE Good(s \o t, p, j) = Good(s, p, j)
  <2>1. j - 1 \in 0..Len(s)
    BY <1>1
  <2>2. PlaceIn(s \o t, p, j - 1) = PlaceIn(s, p, j - 1)
    BY <2>1, PlaceInJoined
  <2> QED BY <1>1, <2>2
<1>3. ASSUME NEW j \in 1..Len(t)
      PROVE  Good(s \o t, p, Len(s) + j) = Good(t, End(s, p), j)
  <2>1. j - 1 \in 0..Len(t) /\ (Len(s) + j) - 1 = Len(s) + (j - 1)
    BY <1>1
  <2>2. PlaceIn(s \o t, p, Len(s) + (j - 1)) = PlaceIn(t, End(s, p), j - 1)
    BY <2>1, PlaceInJoined
  <2> QED BY <1>1, <2>1, <2>2
<1>4. \A j \in 1..(Len(s) + Len(t)) :
        j \in 1..Len(s) \/ \E k \in 1..Len(t) : j = Len(s) + k
  <2> TAKE j \in 1..(Len(s) + Len(t))
  <2>1. CASE j <= Len(s)
    BY <1>1, <2>1
  <2>2. CASE ~ (j <= Len(s))
    <3>1. j - Len(s) \in 1..Len(t) /\ j = Len(s) + (j - Len(s))
      BY <1>1, <2>2
    <3> QED BY <3>1
  <2> QED BY <2>1, <2>2
<1>5. /\ \A j \in 1..Len(s) : j \in 1..(Len(s) + Len(t))
      /\ \A j \in 1..Len(t) : Len(s) + j \in 1..(Len(s) + Len(t))
  BY <1>1
<1>6. /\ Run(m, s \o t, p) <=> \A j \in 1..(Len(s) + Len(t)) : Good(s \o t, p, j)
      /\ Run(m, s, p) <=> \A j \in 1..Len(s) : Good(s, p, j)
      /\ Run(m, t, End(s, p)) <=> \A j \in 1..Len(t) : Good(t, End(s, p), j)
  BY <1>1 DEF Run
<1> HIDE DEF Good
<1> QED BY <1>2, <1>3, <1>4, <1>5, <1>6

\* No bytes go nowhere.
LEMMA RunEmpty ==
  ASSUME NEW m, NEW p
  PROVE  Run(m, <<>>, p) /\ End(<<>>, p) = p
BY DEF Run, End, PlaceIn

\* When more is sent, the bytes before are those they were.
LEMMA RunLonger ==
  ASSUME NEW m \in Seq(Msgs), NEW msg \in Msgs, NEW s, NEW p, Run(m, s, p),
         \A j \in 1..Len(s) : s[j] \in Octets
  PROVE  Run(Append(m, msg), s, p)
<1>1. /\ Len(m) \in Nat /\ Len(Append(m, msg)) = Len(m) + 1
      /\ \A j \in 1..Len(m) : Append(m, msg)[j] = m[j]
  OBVIOUS
<1>2. ASSUME NEW j \in 1..Len(s) PROVE Valid(Append(m, msg), s[j])
  <2>1. Valid(m, s[j])
    BY DEF Run
  <2>2. s[j][1].seq + 1 \in 1..Len(m)
    BY <2>1 DEF Valid
  <2>3. s[j][1].seq + 1 \in 1..(Len(m) + 1)
    BY <1>1, <2>2
  <2> QED BY <1>1, <2>1, <2>2, <2>3 DEF Valid
<1> QED BY <1>2 DEF Run

-----------------------------------------------------------------------------
(* Packets one after another *)

\* What follows a packet does not depend on where it starts.
LEMMA EndOfPacket ==
  ASSUME NEW s \in Packet, NEW p, NEW q
  PROVE  Len(s) \in Nat /\ Len(s) >= 1 /\ End(s, p) = End(s, q) /\ End(s, p) = Beyond(s[Len(s)])
<1>1. s \in Seq(Octets) /\ s # <<>>
  BY DEF Packet
<1>2. Len(s) \in Nat /\ Len(s) >= 1
  BY <1>1, EmptySeq
<1> QED BY <1>2 DEF End, PlaceIn

\* Packets joined follow each other if the second ones follow the first.
LEMMA ChainJoined ==
  ASSUME NEW m, NEW q \in Seq(Packet), NEW r \in Seq(Packet), NEW p
  PROVE  /\ Chain(m, q \o r, p) <=> Chain(m, q, p) /\ Chain(m, r, ChainEnd(q, p))
         /\ ChainEnd(q \o r, p) = ChainEnd(r, ChainEnd(q, p))
<1> DEFINE e == ChainEnd(q, p)
           From(u, o, j) == IF j = 1 THEN o ELSE End(u[j - 1], o)
           Good(u, o, j) == Run(m, u[j], From(u, o, j))
<1>1. /\ Len(q) \in Nat /\ Len(r) \in Nat /\ Len(q \o r) = Len(q) + Len(r)
      /\ \A j \in 1..Len(q) : (q \o r)[j] = q[j]
      /\ \A j \in 1..Len(r) : (q \o r)[Len(q) + j] = r[j]
      /\ \A j \in 1..Len(r) : r[j] \in Packet
  OBVIOUS
<1>2. ASSUME NEW j \in 1..Len(q) PROVE Good(q \o r, p, j) = Good(q, p, j)
  <2>1. CASE j = 1
    BY <1>1, <2>1
  <2>2. CASE j # 1
    <3>1. j - 1 \in 1..Len(q)
      BY <1>1, <2>2
    <3> QED BY <1>1, <2>2, <3>1
  <2> QED BY <2>1, <2>2
<1>3. e = IF Len(q) = 0 THEN p ELSE End(q[Len(q)], p)
  <2>1. q = <<>> <=> Len(q) = 0
    BY EmptySeq
  <2> QED BY <2>1 DEF ChainEnd
<1>4. ASSUME NEW j \in 1..Len(r) PROVE From(q \o r, p, Len(q) + j) = From(r, e, j)
  <2> HIDE DEF e
  <2>1. CASE j = 1 /\ Len(q) = 0
    BY <1>1, <1>3, <2>1
  <2>2. CASE j = 1 /\ Len(q) # 0
    <3>1. Len(q) \in 1..Len(q) /\ (Len(q) + j) - 1 = Len(q) /\ Len(q) + j # 1
      BY <1>1, <2>2
    <3> QED BY <1>1, <1>3, <2>2, <3>1
  <2>3. CASE j # 1
    <3>1. j - 1 \in 1..Len(r) /\ (Len(q) + j) - 1 = Len(q) + (j - 1) /\ Len(q) + j # 1
      BY <1>1, <2>3
    <3>2. From(q \o r, p, Len(q) + j) = End(r[j - 1], p)
      BY <1>1, <3>1
    <3>3. End(r[j - 1], p) = End(r[j - 1], e)
      BY <1>1, <3>1, EndOfPacket
    <3> QED BY <2>3, <3>2, <3>3
  <2> QED BY <2>1, <2>2, <2>3
<1>5. ASSUME NEW j \in 1..Len(r) PROVE Good(q \o r, p, Len(q) + j) = Good(r, e, j)
  <2> HIDE DEF From, e
  <2> QED BY <1>1, <1>4
<1>6. \A j \in 1..(Len(q) + Len(r)) :
        j \in 1..Len(q) \/ \E k \in 1..Len(r) : j = Len(q) + k
  <2> TAKE j \in 1..(Len(q) + Len(r))
  <2>1. CASE j <= Len(q)
    BY <1>1, <2>1
  <2>2. CASE ~ (j <= Len(q))
    <3>1. j - Len(q) \in 1..Len(r) /\ j = Len(q) + (j - Len(q))
      BY <1>1, <2>2
    <3> QED BY <3>1
  <2> QED BY <2>1, <2>2
<1>7. /\ \A j \in 1..Len(q) : j \in 1..(Len(q) + Len(r))
      /\ \A j \in 1..Len(r) : Len(q) + j \in 1..(Len(q) + Len(r))
  BY <1>1
<1>8. /\ Chain(m, q \o r, p) <=> \A j \in 1..(Len(q) + Len(r)) : Good(q \o r, p, j)
      /\ Chain(m, q, p) <=> \A j \in 1..Len(q) : Good(q, p, j)
      /\ Chain(m, r, e) <=> \A j \in 1..Len(r) : Good(r, e, j)
  BY <1>1 DEF Chain
<1>9. ChainEnd(q \o r, p) = ChainEnd(r, e)
  <2> HIDE DEF e
  <2>1. CASE r = <<>>
    <3>1. q \o r = q
      BY <2>1, ConcatEmptySeq
    <3> QED BY <2>1, <3>1 DEF ChainEnd, e
  <2>2. CASE r # <<>>
    <3>1. Len(r) \in 1..Len(r) /\ q \o r # <<>>
      BY <1>1, <2>2, EmptySeq, ConcatEqualIffEmpty
    <3>2. ChainEnd(q \o r, p) = End(r[Len(r)], p)
      BY <1>1, <3>1 DEF ChainEnd
    <3>3. End(r[Len(r)], p) = End(r[Len(r)], e)
      BY <1>1, <3>1, EndOfPacket
    <3> QED BY <2>2, <3>2, <3>3 DEF ChainEnd
  <2> QED BY <2>1, <2>2
<1> HIDE DEF Good
<1>10. Chain(m, q \o r, p) <=> Chain(m, q, p) /\ Chain(m, r, e)
  <2> HIDE DEF e
  <2> QED BY <1>2, <1>5, <1>6, <1>7, <1>8
<1> QED BY <1>9, <1>10

\* A chain of no packet, and of one.
LEMMA ChainOfOne ==
  ASSUME NEW m, NEW s \in Packet, NEW p
  PROVE  /\ Chain(m, <<>>, p) /\ ChainEnd(<<>>, p) = p
         /\ Chain(m, <<s>>, p) <=> Run(m, s, p)
         /\ ChainEnd(<<s>>, p) = End(s, p)
         /\ <<s>> \in Seq(Packet) /\ <<>> \in Seq(Packet)
<1>1. Len(<<s>>) = 1 /\ <<s>>[1] = s /\ Len(<<>>) = 0 /\ <<s>> # <<>>
  OBVIOUS
<1>2. Chain(m, <<s>>, p) <=> Run(m, s, p)
  BY <1>1 DEF Chain
<1> QED BY <1>1, <1>2 DEF Chain, ChainEnd

\* When more is sent, the packets before are those they were.
LEMMA ChainLonger ==
  ASSUME NEW m \in Seq(Msgs), NEW msg \in Msgs, NEW q \in Seq(Packet), NEW p, Chain(m, q, p)
  PROVE  Chain(Append(m, msg), q, p)
<1> DEFINE o(j) == IF j = 1 THEN p ELSE End(q[j - 1], p)
<1> SUFFICES ASSUME NEW j \in 1..Len(q) PROVE Run(Append(m, msg), q[j], o(j))
  BY DEF Chain
<1>1. Run(m, q[j], o(j))
  BY DEF Chain
<1>2. q[j] \in Seq(Octets)
  BY ElementOfSeq DEF Packet
<1>3. \A k \in 1..Len(q[j]) : q[j][k] \in Octets
  BY <1>2, ElementOfSeq
<1> HIDE DEF o
<1> QED BY <1>1, <1>3, RunLonger

\* A packet cut in two: what is written of it, and what stays.
LEMMA Cut ==
  ASSUME NEW s \in Packet, NEW take \in Nat, take \in 1..(Len(s) - 1)
  PROVE  /\ SubSeq(s, 1, take) \in Seq(Octets) /\ Len(SubSeq(s, 1, take)) = take
         /\ SubSeq(s, take + 1, Len(s)) \in Packet
         /\ s = SubSeq(s, 1, take) \o SubSeq(s, take + 1, Len(s))
<1>1. s \in Seq(Octets) /\ Len(s) \in Nat
  BY DEF Packet
<1>2. /\ SubSeq(s, 1, take) \in Seq(Octets) /\ Len(SubSeq(s, 1, take)) = take
      /\ SubSeq(s, take + 1, Len(s)) \in Seq(Octets)
      /\ Len(SubSeq(s, take + 1, Len(s))) = Len(s) - take
  BY <1>1
<1>3. SubSeq(s, take + 1, Len(s)) # <<>>
  <2> DEFINE u == SubSeq(s, take + 1, Len(s))
  <2>1. Len(s) - take # 0
    BY <1>1
  <2>2. u \in Seq(Octets) /\ Len(u) = Len(s) - take
    BY <1>2
  <2> HIDE DEF u
  <2>3. u # <<>>
    BY <2>1, <2>2, EmptySeq
  <2> QED BY <2>3 DEF u
<1>4. SubSeq(s, 1, take) \o SubSeq(s, take + 1, Len(s)) = SubSeq(s, 1, Len(s))
  BY <1>1, ConcatAdjacentSubSeq
<1>5. SubSeq(s, 1, Len(s)) = s
  BY <1>1, SubSeqFull
<1> QED BY <1>2, <1>3, <1>4, <1>5 DEF Packet

-----------------------------------------------------------------------------
(* HandleSendReady *)

Writings == [queue : Seq(Packet), bytes : Seq(Octets)]

\* One packet, or as much of it as there is room for, is written.
WriteOne(s, room) ==
  LET take == Min2(Len(Head(s.queue)), room - Len(s.bytes))
  IN  IF take = 0 THEN s
      ELSE [ queue |-> IF take = Len(Head(s.queue)) THEN Tail(s.queue)
                       ELSE << SubSeq(Head(s.queue), take + 1, Len(Head(s.queue))) >>
                            \o Tail(s.queue),
             bytes |-> s.bytes \o SubSeq(Head(s.queue), 1, take) ]

\* What is written goes on in what stays queued, as far as place e.
InTurn(m, s, room, p, e) ==
  /\ Len(s.bytes) <= room /\ Run(m, s.bytes, p)
  /\ Chain(m, s.queue, End(s.bytes, p)) /\ ChainEnd(s.queue, End(s.bytes, p)) = e

\* A write takes the next bytes of the queue, in turn.
LEMMA WriteOneInTurn ==
  ASSUME NEW m, NEW room \in Nat, NEW p, NEW e, NEW s \in Writings, s.queue # <<>>,
         InTurn(m, s, room, p, e)
  PROVE  LET t == WriteOne(s, room)
         IN  t \in Writings /\ InTurn(m, t, room, p, e) /\ Len(t.queue) >= Len(s.queue) - 1
<1> DEFINE q == s.queue
           b == s.bytes
           h == Head(q)
           r == Tail(q)
           take == Min2(Len(h), room - Len(b))
           first == SubSeq(h, 1, take)
           rest == SubSeq(h, take + 1, Len(h))
<1>1. q \in Seq(Packet) /\ b \in Seq(Octets) /\ q # <<>> /\ s = [queue |-> q, bytes |-> b]
  BY DEF Writings
<1>2. /\ Len(b) <= room /\ Run(m, b, p)
      /\ Chain(m, q, End(b, p)) /\ ChainEnd(q, End(b, p)) = e
  BY DEF InTurn
<1>3. WriteOne(s, room) = IF take = 0 THEN s
                          ELSE [queue |-> IF take = Len(h) THEN r ELSE <<rest>> \o r,
                                bytes |-> b \o first]
  BY DEF WriteOne
<1> HIDE DEF q, b
<1>4. /\ h \in Packet /\ r \in Seq(Packet) /\ q = <<h>> \o r
      /\ Len(q) \in Nat /\ Len(q) >= 1 /\ Len(r) = Len(q) - 1
  BY <1>1
<1> HIDE DEF h, r
<1>5. Len(h) \in Nat /\ Len(h) >= 1 /\ Len(b) \in Nat /\ h \in Seq(Octets)
  BY <1>1, <1>4, EndOfPacket DEF Packet
<1>6. take \in 0..Len(h) /\ take <= room - Len(b) /\ take \in Nat
  BY <1>2, <1>5 DEF Min2
<1>7. <<h>> \in Seq(Packet)
  BY <1>4, ChainOfOne
<1>8. Chain(m, <<h>>, End(b, p)) /\ Chain(m, r, ChainEnd(<<h>>, End(b, p)))
  BY <1>2, <1>4, <1>7, ChainJoined
<1>9. Run(m, h, End(b, p)) /\ ChainEnd(<<h>>, End(b, p)) = End(h, End(b, p))
  BY <1>4, <1>8, ChainOfOne
<1>10. e = ChainEnd(r, End(h, End(b, p)))
  <2>1. ChainEnd(<<h>> \o r, End(b, p)) = ChainEnd(r, ChainEnd(<<h>>, End(b, p)))
    BY <1>4, <1>7, ChainJoined
  <2> QED BY <1>2, <1>4, <1>9, <2>1
<1>11. Chain(m, r, End(h, End(b, p)))
  BY <1>8, <1>9
<1> HIDE DEF take
<1>12. CASE take = 0
  <2>1. WriteOne(s, room) = s
    BY <1>3, <1>12
  <2>2. Len(s.queue) >= Len(s.queue) - 1
    BY <1>4 DEF q
  <2> QED BY <2>1, <2>2
<1>13. CASE take # 0 /\ take = Len(h)
  <2>1. first = h
    BY <1>5, <1>13, SubSeqFull
  <2> DEFINE t == [queue |-> r, bytes |-> b \o h]
  <2>2. WriteOne(s, room) = t
    BY <1>3, <1>13, <2>1
  <2>3. b \o h \in Seq(Octets) /\ Len(b \o h) = Len(b) + Len(h)
    BY <1>1, <1>5
  <2>4. t \in Writings /\ t.queue = r /\ t.bytes = b \o h
    BY <1>4, <2>3 DEF Writings
  <2>5. Run(m, b \o h, p) /\ End(b \o h, p) = End(h, End(b, p))
    BY <1>1, <1>2, <1>5, <1>9, RunJoined, PlaceInJoined
  <2>6. Len(b \o h) <= room
    BY <1>2, <1>5, <1>6, <1>13, <2>3
  <2> HIDE DEF t
  <2>7. InTurn(m, t, room, p, e)
    BY <1>10, <1>11, <2>4, <2>5, <2>6 DEF InTurn
  <2>8. Len(t.queue) >= Len(s.queue) - 1
    BY <1>4, <2>4 DEF q
  <2> QED BY <2>2, <2>4, <2>7, <2>8
<1>14. CASE take # 0 /\ take # Len(h)
  <2>1. take \in 1..(Len(h) - 1)
    BY <1>5, <1>6, <1>14
  <2>2. /\ first \in Seq(Octets) /\ Len(first) = take
        /\ rest \in Packet /\ h = first \o rest
    BY <1>4, <1>6, <2>1, Cut
  <2> HIDE DEF first, rest
  <2> DEFINE t == [queue |-> <<rest>> \o r, bytes |-> b \o first]
  <2>3. WriteOne(s, room) = t
    BY <1>3, <1>14
  <2>4. /\ b \o first \in Seq(Octets) /\ Len(b \o first) = Len(b) + take
        /\ <<rest>> \in Seq(Packet) /\ <<rest>> \o r \in Seq(Packet)
        /\ Len(<<rest>> \o r) = Len(q)
    BY <1>1, <1>4, <2>2
  <2>5. t \in Writings /\ t.queue = <<rest>> \o r /\ t.bytes = b \o first
    BY <2>4 DEF Writings
  <2>6. Run(m, first, End(b, p)) /\ Run(m, rest, End(first, End(b, p)))
    <3>1. rest \in Seq(Octets)
      BY <2>2 DEF Packet
    <3> QED BY <1>9, <2>2, <3>1, RunJoined
  <2>7. Run(m, b \o first, p) /\ End(b \o first, p) = End(first, End(b, p))
    BY <1>1, <1>2, <2>2, <2>6, RunJoined, PlaceInJoined
  <2>8. End(h, End(b, p)) = End(rest, End(first, End(b, p)))
    <3>1. rest \in Seq(Octets)
      BY <2>2 DEF Packet
    <3> QED BY <2>2, <3>1, PlaceInJoined
  <2> DEFINE o == End(b \o first, p)
  <2>9. Run(m, rest, o) /\ End(rest, o) = End(h, End(b, p))
    BY <2>6, <2>7, <2>8
  <2>10. o = End(t.bytes, p)
    BY <2>5
  <2> HIDE DEF o, t
  <2>11. Chain(m, <<rest>>, o) /\ ChainEnd(<<rest>>, o) = End(rest, o)
    BY <2>2, <2>9, ChainOfOne
  <2>12. Chain(m, <<rest>> \o r, o) /\ ChainEnd(<<rest>> \o r, o) = e
    <3>1. Chain(m, r, ChainEnd(<<rest>>, o))
      BY <1>11, <2>9, <2>11
    <3>2. ChainEnd(r, ChainEnd(<<rest>>, o)) = e
      BY <1>10, <2>9, <2>11
    <3> QED BY <1>4, <2>4, <2>11, <3>1, <3>2, ChainJoined
  <2>13. Len(b \o first) <= room
    BY <1>2, <1>5, <1>6, <2>4
  <2>14. InTurn(m, t, room, p, e)
    BY <2>5, <2>7, <2>10, <2>12, <2>13 DEF InTurn
  <2>15. Len(t.queue) >= Len(s.queue) - 1
    BY <1>4, <2>4, <2>5 DEF q
  <2> QED BY <2>3, <2>5, <2>14, <2>15
<1> QED BY <1>12, <1>13, <1>14

\* So it is with all that is written at once.
LEMMA WrittenInTurn ==
  ASSUME NEW m, NEW room \in Nat, NEW p, NEW e, NEW queue \in Seq(Packet),
         Chain(m, queue, p), ChainEnd(queue, p) = e
  PROVE  Written(queue, room) \in Writings /\ InTurn(m, Written(queue, room), room, p, e)
<1> DEFINE n == Len(queue)
           a == [queue |-> queue, bytes |-> <<>>]
           T == [i \in 0..n |-> {s \in Writings : InTurn(m, s, room, p, e)
                                                  /\ Len(s.queue) >= n - i}]
           g == [x \in (1..n) \X Writings |-> WriteOne(x[2], room)]
           step == CHOOSE f : f = [i \in 0..n |-> IF i = 0 THEN a ELSE WriteOne(f[i - 1], room)]
<1>1. n \in Nat
  OBVIOUS
<1>2. Written(queue, room) = step[n]
  BY Zenon DEF Written, WriteOne
<1>3. a \in Writings /\ a.queue = queue /\ a.bytes = <<>>
  BY DEF Writings
<1>4. InTurn(m, a, room, p, e)
  <2> HIDE DEF a
  <2>1. Run(m, a.bytes, p) /\ End(a.bytes, p) = p /\ Len(a.bytes) <= room
    BY <1>3, RunEmpty
  <2> QED BY <1>3, <2>1 DEF InTurn
<1> HIDE DEF n, a
<1>5. a \in T[0]
  BY <1>1, <1>3, <1>4 DEF n
<1>6. ASSUME NEW i \in 1..n, NEW s \in T[i - 1] PROVE WriteOne(s, room) \in T[i]
  <2>1. i - 1 \in 0..n /\ i \in 0..n
    BY <1>1
  <2>2. s \in Writings /\ InTurn(m, s, room, p, e) /\ Len(s.queue) >= n - (i - 1)
    BY <2>1
  <2>3. s.queue \in Seq(Packet) /\ Len(s.queue) \in Nat
    BY <2>2 DEF Writings
  <2>4. s.queue # <<>>
    <3>1. Len(s.queue) # 0
      BY <1>1, <2>2, <2>3
    <3> QED BY <2>3, <3>1, EmptySeq
  <2> DEFINE t == WriteOne(s, room)
  <2>5. t \in Writings /\ InTurn(m, t, room, p, e) /\ Len(t.queue) >= Len(s.queue) - 1
    BY <2>2, <2>4, WriteOneInTurn
  <2> HIDE DEF t
  <2>6. Len(t.queue) \in Nat
    BY <2>5 DEF Writings
  <2>7. Len(t.queue) >= n - i
    BY <1>1, <2>2, <2>3, <2>5, <2>6
  <2>8. t \in T[i]
    BY <2>1, <2>5, <2>7
  <2> QED BY <2>8 DEF t
<1>7. ASSUME NEW i \in 1..n, NEW s \in T[i - 1] PROVE g[<<i, s>>] = WriteOne(s, room)
  <2>1. i - 1 \in 0..n
    BY <1>1
  <2>2. s \in Writings
    BY <2>1
  <2> QED BY <2>2
<1>8. T \in [0..n -> SUBSET Writings]
  OBVIOUS
<1>9. \A i \in 1..n : \A s \in T[i - 1] : g[<<i, s>>] \in T[i]
  <2> HIDE DEF T, g
  <2> QED BY <1>6, <1>7
<1> HIDE DEF T, g
<1>10. PICK f : IsCourse(f, n, Writings, T, a, g)
  BY <1>1, <1>5, <1>8, <1>9, CourseExists
<1>11. \A i \in 1..n : f[i] = WriteOne(f[i - 1], room)
  <2> TAKE i \in 1..n
  <2>1. f[i - 1] \in T[i - 1]
    <3>1. i - 1 \in 0..n
      BY <1>1
    <3> QED BY <1>10, <3>1 DEF IsCourse
  <2> QED BY <1>7, <1>10, <2>1 DEF IsCourse
<1>12. f = [i \in 0..n |-> IF i = 0 THEN a ELSE WriteOne(f[i - 1], room)]
  BY <1>1, <1>10, <1>11 DEF IsCourse
<1>13. step = [i \in 0..n |-> IF i = 0 THEN a ELSE WriteOne(step[i - 1], room)]
  BY <1>12
<1> HIDE DEF step
<1> DEFINE G == {i \in 0..n : step[i] \in T[i]}
<1>14. 0 \in G
  BY <1>1, <1>5, <1>13
<1>15. ASSUME NEW i \in 1..n, i - 1 \in G PROVE i \in G
  <2>1. step[i] = WriteOne(step[i - 1], room) /\ i \in 0..n
    BY <1>1, <1>13
  <2> QED BY <1>6, <1>15, <2>1
<1> HIDE DEF G
<1>16. n \in G
  <2>1. n \in 0..n
    BY <1>1
  <2> QED BY <1>1, <1>14, <1>15, <2>1, InductionUpTo
<1>17. n \in 0..n /\ step[n] \in T[n]
  BY <1>1, <1>16 DEF G
<1> QED BY <1>2, <1>17 DEF T

-----------------------------------------------------------------------------
(* EnqueueFrame *)

\* The bytes of a frame from the a-th to the b-th.
LEMMA BytesRun ==
  ASSUME NEW m \in Seq(Msgs), NEW i \in Nat, i + 1 \in 1..Len(m),
         NEW f, f = Frame(m[i + 1], i), NEW a \in 1..f.len, NEW b \in a..f.len
  PROVE  /\ Bytes(f, a, b) \in Packet
         /\ Run(m, Bytes(f, a, b), <<i, a>>)
         /\ End(Bytes(f, a, b), <<i, a>>) = IF b < f.len THEN <<i, b + 1>> ELSE <<i + 1, 1>>
<1> DEFINE s == Bytes(f, a, b)
<1>1. m[i + 1] \in Msgs
  BY ElementOfSeq
<1>2. f \in Frames /\ f.seq = i /\ f.len \in Nat
  BY <1>1, FrameProperty DEF Frames
<1>3. a \in Nat /\ b \in Nat /\ a >= 1 /\ a <= b /\ b <= f.len /\ a <= b + 1
  BY <1>2
<1>4. /\ s \in Seq(Octets) /\ Len(s) = b - a + 1
      /\ \A k \in 1..(b - a + 1) : s[k] = <<f, a + k - 1>>
  <2>1. f \in Frames
    BY <1>2
  <2> QED BY <1>3, <2>1, BytesProperty
<1> HIDE DEF s
<1>5. ASSUME NEW k \in 1..(b - a + 1)
      PROVE  Valid(m, s[k]) /\ Place(s[k]) = <<i, a + k - 1>>
  <2>1. s[k][1] = f /\ s[k][2] = a + k - 1
    BY <1>4
  <2>2. a + k - 1 \in 1..f.len
    BY <1>2, <1>3
  <2> QED BY <1>2, <2>1, <2>2 DEF Valid, Place
<1>6. ASSUME NEW k \in 0..(b - a + 1)
      PROVE  PlaceIn(s, <<i, a>>, k) =
               IF a + k - 1 < f.len THEN <<i, a + k>> ELSE <<i + 1, 1>>
  <2>1. CASE k = 0
    <3>1. a + k = a /\ a + k - 1 < f.len
      BY <1>2, <1>3, <2>1
    <3> QED BY <2>1, <3>1 DEF PlaceIn
  <2>2. CASE k # 0
    <3>1. k \in 1..(b - a + 1)
      BY <1>3, <2>2
    <3>2. s[k][1] = f /\ s[k][2] = a + k - 1 /\ (a + k - 1) + 1 = a + k
      BY <1>3, <1>4, <3>1
    <3> QED BY <1>2, <2>2, <3>2 DEF PlaceIn, Beyond
  <2> QED BY <2>1, <2>2
<1>7. Run(m, s, <<i, a>>)
  <2> SUFFICES ASSUME NEW k \in 1..(b - a + 1)
               PROVE  Valid(m, s[k]) /\ Place(s[k]) = PlaceIn(s, <<i, a>>, k - 1)
    BY <1>4 DEF Run
  <2>1. k - 1 \in 0..(b - a + 1) /\ a + (k - 1) - 1 < f.len /\ a + (k - 1) = a + k - 1
    BY <1>2, <1>3
  <2>2. PlaceIn(s, <<i, a>>, k - 1) = <<i, a + k - 1>>
    BY <1>6, <2>1
  <2> QED BY <1>5, <2>2
<1>8. End(s, <<i, a>>) = IF b < f.len THEN <<i, b + 1>> ELSE <<i + 1, 1>>
  <2>1. b - a + 1 \in 0..(b - a + 1) /\ a + (b - a + 1) - 1 = b /\ a + (b - a + 1) = b + 1
    BY <1>3
  <2> QED BY <1>4, <1>6, <2>1 DEF End
<1>9. s # <<>>
  BY <1>3, <1>4, EmptySeq
<1> QED BY <1>4, <1>7, <1>8, <1>9 DEF Packet, s

\* The packets of a frame take its place in the stream.
LEMMA PacketsChain ==
  ASSUME NEW m \in Seq(Msgs), NEW i \in Nat, i + 1 \in 1..Len(m)
  PROVE  LET q == Packets(Frame(m[i + 1], i))
         IN  /\ q \in Seq(Packet) /\ Chain(m, q, <<i, 1>>)
             /\ ChainEnd(q, <<i, 1>>) = <<i + 1, 1>>
<1> DEFINE f == Frame(m[i + 1], i)
           q == Packets(f)
<1>1. m[i + 1] \in Msgs
  BY ElementOfSeq
<1>2. f.len \in Nat /\ f.len >= FRAME_PREFIX_SIZE + 1 /\ FRAME_PREFIX_SIZE \in Nat \ {0}
  BY <1>1, FrameProperty, SizesOK DEF Frames
<1> HIDE DEF f
<1>3. CASE f.payload_len > 0
  <2> DEFINE s == Bytes(f, 1, f.len)
  <2>1. 1 \in 1..f.len /\ f.len \in 1..f.len /\ ~ (f.len < f.len)
    BY <1>2
  <2>2. s \in Packet /\ Run(m, s, <<i, 1>>) /\ End(s, <<i, 1>>) = <<i + 1, 1>>
    BY <2>1, BytesRun DEF f
  <2>3. q = <<s>>
    BY <1>3 DEF Packets
  <2> HIDE DEF s, q
  <2>4. q \in Seq(Packet) /\ Chain(m, q, <<i, 1>>) /\ ChainEnd(q, <<i, 1>>) = <<i + 1, 1>>
    BY <2>2, <2>3, ChainOfOne
  <2> QED BY <2>4 DEF q, f
<1>4. CASE ~ (f.payload_len > 0)
  <2> DEFINE s == Bytes(f, 1, f.len - 1)
             t == Bytes(f, f.len, f.len)
             l == f.len
  <2>1. /\ 1 \in 1..l /\ l - 1 \in 1..l /\ l - 1 < l /\ (l - 1) + 1 = l
        /\ l \in 1..l /\ l \in l..l /\ ~ (l < l) /\ l - 1 \in 1..l
    BY <1>2
  <2>2. s \in Packet /\ Run(m, s, <<i, 1>>) /\ End(s, <<i, 1>>) = <<i, l>>
    <3>1. End(s, <<i, 1>>) = <<i, (l - 1) + 1>> /\ s \in Packet /\ Run(m, s, <<i, 1>>)
      BY <2>1, BytesRun DEF f
    <3> QED BY <2>1, <3>1
  <2>3. t \in Packet /\ Run(m, t, <<i, l>>) /\ End(t, <<i, l>>) = <<i + 1, 1>>
    BY <2>1, BytesRun DEF f
  <2>4. q = <<s>> \o <<t>>
    BY <1>4 DEF Packets
  <2> HIDE DEF s, t, q, l
  <2>5. /\ <<s>> \in Seq(Packet) /\ Chain(m, <<s>>, <<i, 1>>)
        /\ ChainEnd(<<s>>, <<i, 1>>) = <<i, l>>
    BY <2>2, ChainOfOne
  <2>6. /\ <<t>> \in Seq(Packet) /\ Chain(m, <<t>>, <<i, l>>)
        /\ ChainEnd(<<t>>, <<i, l>>) = <<i + 1, 1>>
    BY <2>3, ChainOfOne
  <2>7. q \in Seq(Packet)
    BY <2>4, <2>5, <2>6
  <2>8. Chain(m, q, <<i, 1>>) /\ ChainEnd(q, <<i, 1>>) = <<i + 1, 1>>
    <3> DEFINE u == <<s>>
               w == <<t>>
               e == <<i, l>>
    <3>1. u \in Seq(Packet) /\ Chain(m, u, <<i, 1>>) /\ ChainEnd(u, <<i, 1>>) = e
      BY <2>5
    <3>2. w \in Seq(Packet) /\ Chain(m, w, e) /\ ChainEnd(w, e) = <<i + 1, 1>>
      BY <2>6
    <3>3. q = u \o w
      BY <2>4
    <3> HIDE DEF u, w, e
    <3>4. /\ Chain(m, u \o w, <<i, 1>>)
          /\ ChainEnd(u \o w, <<i, 1>>) = ChainEnd(w, ChainEnd(u, <<i, 1>>))
      BY <3>1, <3>2, ChainJoined
    <3> QED BY <3>1, <3>2, <3>3, <3>4
  <2> QED BY <2>7, <2>8 DEF q, f
<1> QED BY <1>3, <1>4

\* The packets of some messages, the first of which is the fs-th.
Framed(msgs, fs) ==
  FlattenSeq([i \in 1..Len(msgs) |-> Packets(Frame(msgs[i], fs + i - 1))])

\* The packets of successive messages follow one another.
LEMMA FramedChain ==
  ASSUME NEW m \in Seq(Msgs), NEW msgs \in Seq(Msgs), NEW fs \in Nat,
         fs + Len(msgs) <= Len(m), \A i \in 1..Len(msgs) : m[fs + i] = msgs[i]
  PROVE  /\ Framed(msgs, fs) \in Seq(Packet) /\ Chain(m, Framed(msgs, fs), <<fs, 1>>)
         /\ ChainEnd(Framed(msgs, fs), <<fs, 1>>) = <<fs + Len(msgs), 1>>
<1> DEFINE n == Len(msgs)
           frames == [i \in 1..n |-> Packets(Frame(msgs[i], fs + i - 1))]
           T == [i \in 0..n |-> {q \in Seq(Packet) : /\ Chain(m, q, <<fs, 1>>)
                                                      /\ ChainEnd(q, <<fs, 1>>) = <<fs + i, 1>>}]
           g == [x \in (1..n) \X Seq(Packet) |-> x[2] \o frames[x[1]]]
           flatten == CHOOSE f : f = [i \in 1..Len(frames) |->
                                        IF i = 1 THEN frames[i] ELSE f[i - 1] \o frames[i]]
<1>1. n \in Nat
  OBVIOUS
<1>2. ASSUME NEW i \in 1..n
      PROVE  /\ frames[i] \in Seq(Packet) /\ Chain(m, frames[i], <<fs + (i - 1), 1>>)
             /\ ChainEnd(frames[i], <<fs + (i - 1), 1>>) = <<fs + i, 1>>
  <2> DEFINE k == fs + (i - 1)
  <2>1. k \in Nat /\ k + 1 = fs + i /\ k + 1 \in 1..Len(m) /\ fs + i - 1 = k
    BY <1>1
  <2>2. frames[i] = Packets(Frame(m[k + 1], k))
    BY <2>1
  <2> HIDE DEF k, frames
  <2>3. /\ frames[i] \in Seq(Packet) /\ Chain(m, frames[i], <<k, 1>>)
        /\ ChainEnd(frames[i], <<k, 1>>) = <<k + 1, 1>>
    BY <2>1, <2>2, PacketsChain
  <2> QED BY <2>1, <2>3 DEF k
<1>3. Framed(msgs, fs) = FlattenSeq(frames)
  BY DEF Framed
<1>4. Len(frames) = n
  BY <1>1
<1>5. frames = <<>> <=> n = 0
  <2>1. CASE n = 0
    <3>1. frames = [i \in 1..0 |-> Packets(Frame(msgs[i], fs + i - 1))]
      BY <2>1
    <3> QED BY <2>1, <3>1
  <2>2. CASE n # 0
    BY <1>1, <1>4, <2>2, EmptySeq
  <2> QED BY <2>1, <2>2
<1>6. FlattenSeq(frames) = IF n = 0 THEN frames ELSE flatten[n]
  <2> HIDE DEF frames
  <2>1. FlattenSeq(frames) = IF Len(frames) = 0 THEN frames ELSE flatten[Len(frames)]
    BY Zenon DEF FlattenSeq
  <2> HIDE DEF flatten
  <2> QED BY <1>4, <2>1
<1> HIDE DEF frames, n
<1>7. <<>> \in T[0]
  <2>1. <<>> \in Seq(Packet) /\ Chain(m, <<>>, <<fs, 1>>) /\ ChainEnd(<<>>, <<fs, 1>>) = <<fs, 1>>
    BY DEF Chain, ChainEnd
  <2>2. 0 \in 0..n /\ fs + 0 = fs
    BY <1>1
  <2> QED BY <2>1, <2>2
<1>8. ASSUME NEW i \in 1..n, NEW q \in T[i - 1]
      PROVE  q \o frames[i] \in T[i] /\ g[<<i, q>>] = q \o frames[i]
  <2>1. i - 1 \in 0..n /\ i \in 0..n
    BY <1>1
  <2>2. /\ q \in Seq(Packet) /\ Chain(m, q, <<fs, 1>>)
        /\ ChainEnd(q, <<fs, 1>>) = <<fs + (i - 1), 1>>
    BY <2>1
  <2> DEFINE r == frames[i]
  <2>3. /\ r \in Seq(Packet) /\ Chain(m, r, <<fs + (i - 1), 1>>)
        /\ ChainEnd(r, <<fs + (i - 1), 1>>) = <<fs + i, 1>>
    BY <1>2
  <2>4. g[<<i, q>>] = q \o r
    BY <2>2
  <2> HIDE DEF r, g
  <2>5. q \o r \in Seq(Packet)
    BY <2>2, <2>3
  <2>6. Chain(m, q \o r, <<fs, 1>>) /\ ChainEnd(q \o r, <<fs, 1>>) = <<fs + i, 1>>
    <3> DEFINE o == <<fs, 1>>
               d == <<fs + (i - 1), 1>>
               e == <<fs + i, 1>>
    <3>1. Chain(m, q, o) /\ ChainEnd(q, o) = d /\ Chain(m, r, d) /\ ChainEnd(r, d) = e
      BY <2>2, <2>3
    <3> HIDE DEF o, d, e
    <3>2. Chain(m, q \o r, o) /\ ChainEnd(q \o r, o) = e
      BY <2>2, <2>3, <3>1, ChainJoined
    <3> QED BY <3>2 DEF o, e
  <2> QED BY <2>1, <2>4, <2>5, <2>6 DEF r
<1>9. T \in [0..n -> SUBSET Seq(Packet)]
  OBVIOUS
<1> HIDE DEF T, g
<1>10. \A i \in 1..n : \A q \in T[i - 1] : g[<<i, q>>] \in T[i]
  BY <1>8
<1>11. \E f : IsCourse(f, n, Seq(Packet), T, <<>>, g)
  <2> DEFINE a == <<>>
  <2>1. a \in T[0]
    BY <1>7
  <2> HIDE DEF a
  <2>2. \E f : IsCourse(f, n, Seq(Packet), T, a, g)
    BY <1>1, <1>9, <1>10, <2>1, CourseExists
  <2> QED BY <2>2 DEF a
<1>12. PICK f : IsCourse(f, n, Seq(Packet), T, <<>>, g)
  BY <1>11
<1>13. /\ f[0] = <<>> /\ \A i \in 0..n : f[i] \in T[i]
       /\ \A i \in 1..n : f[i] = f[i - 1] \o frames[i]
  <2>1. /\ f[0] = <<>> /\ \A i \in 0..n : f[i] \in T[i]
        /\ \A i \in 1..n : f[i] = g[<<i, f[i - 1]>>]
    BY <1>12 DEF IsCourse
  <2>2. \A i \in 1..n : i - 1 \in 0..n
    BY <1>1
  <2> QED BY <1>8, <2>1, <2>2
<1> DEFINE h == [i \in 1..n |-> f[i]]
<1>14. ASSUME NEW i \in 1..n
       PROVE  h[i] = IF i = 1 THEN frames[i] ELSE h[i - 1] \o frames[i]
  <2>1. CASE i = 1
    <3>1. i - 1 = 0 /\ 1 \in 1..n
      BY <2>1
    <3>2. <<>> \o frames[1] = frames[1]
      BY <1>2, <3>1, ConcatEmptySeq
    <3>3. f[1] = f[0] \o frames[1]
      BY <1>13, <2>1, <3>1
    <3> QED BY <1>13, <2>1, <3>2, <3>3
  <2>2. CASE i # 1
    <3>1. i - 1 \in 1..n
      BY <1>1, <2>2
    <3>2. h[i - 1] = f[i - 1]
      BY <3>1
    <3> QED BY <1>13, <2>2, <3>2
  <2> QED BY <2>1, <2>2
<1>15. h = [i \in 1..n |-> IF i = 1 THEN frames[i] ELSE h[i - 1] \o frames[i]]
  <2> DEFINE hh == [i \in 1..n |-> IF i = 1 THEN frames[i] ELSE h[i - 1] \o frames[i]]
  <2>1. DOMAIN h = 1..n /\ h = [i \in 1..n |-> h[i]]
    OBVIOUS
  <2> HIDE DEF h
  <2> QED BY <1>14, <2>1
<1> HIDE DEF h
<1>16. flatten = [i \in 1..n |-> IF i = 1 THEN frames[i] ELSE flatten[i - 1] \o frames[i]]
  <2>1. h = [i \in 1..Len(frames) |-> IF i = 1 THEN frames[i] ELSE h[i - 1] \o frames[i]]
    BY <1>4, <1>15
  <2>2. flatten = [i \in 1..Len(frames) |->
                     IF i = 1 THEN frames[i] ELSE flatten[i - 1] \o frames[i]]
    BY <2>1
  <2> HIDE DEF flatten
  <2> QED BY <1>4, <2>2
<1> HIDE DEF flatten
<1> DEFINE G == {i \in 0..n : i = 0 \/ flatten[i] \in T[i]}
<1>17. 0 \in G
  BY <1>1
<1>18. ASSUME NEW i \in 1..n, i - 1 \in G PROVE i \in G
  <2>1. i \in 0..n
    BY <1>1
  <2>2. CASE i = 1
    <3>1. flatten[1] = frames[1] /\ i - 1 = 0 /\ 1 \in 1..n
      BY <1>16, <2>2
    <3>2. <<>> \o frames[1] = frames[1]
      BY <1>2, <3>1, ConcatEmptySeq
    <3>3. <<>> \in T[i - 1]
      BY <1>7, <3>1
    <3>4. <<>> \o frames[i] \in T[i]
      BY <1>8, <3>3
    <3> QED BY <2>1, <2>2, <3>1, <3>2, <3>4
  <2>3. CASE i # 1
    <3>1. flatten[i] = flatten[i - 1] \o frames[i]
      BY <1>16, <2>3
    <3>2. flatten[i - 1] \in T[i - 1]
      <4>1. i - 1 # 0
        BY <1>1, <2>3
      <4> QED BY <1>18, <4>1
    <3> QED BY <1>8, <2>1, <3>1, <3>2
  <2> QED BY <2>2, <2>3
<1> HIDE DEF G
<1>19. n \in G
  <2>1. \A i \in 0..n : i \in G
    BY <1>1, <1>17, <1>18, InductionUpTo
  <2> QED BY <1>1, <2>1
<1>20. Framed(msgs, fs) \in T[n]
  <2>1. CASE n = 0
    BY <1>3, <1>5, <1>6, <1>7, <2>1
  <2>2. CASE n # 0
    BY <1>3, <1>6, <1>19, <2>2 DEF G
  <2> QED BY <2>1, <2>2
<1>21. n \in 0..n
  BY <1>1
<1> QED BY <1>20, <1>21 DEF T, n

-----------------------------------------------------------------------------
(* HandleRead *)

\* The next bytes from a place in a frame are those of the frame.
LEMMA NextByte ==
  ASSUME NEW m \in Seq(Msgs), NEW c \in Seq(Octets), NEW o, Run(m, c, o),
         NEW pos \in Nat, pos < Len(c), NEW i \in Nat, NEW k \in Nat,
         PlaceIn(c, o, pos) = <<i, k>>
  PROVE  /\ i + 1 \in 1..Len(m) /\ k \in 1..Frame(m[i + 1], i).len
         /\ c[pos + 1] = <<Frame(m[i + 1], i), k>>
<1>1. pos + 1 \in 1..Len(c) /\ (pos + 1) - 1 = pos
  OBVIOUS
<1> DEFINE b == c[pos + 1]
<1>2. Valid(m, b) /\ Place(b) = PlaceIn(c, o, (pos + 1) - 1)
  BY <1>1 DEF Run
<1>3. b \in Octets
  BY <1>1, ElementOfSeq
<1> HIDE DEF b
<1>4. Place(b) = <<i, k>>
  BY <1>1, <1>2
<1>5. b[1].seq = i /\ b[2] = k
  BY <1>4 DEF Place
<1>6. b = <<b[1], b[2]>>
  BY <1>3 DEF Octets
<1>7. /\ b[1].seq + 1 \in 1..Len(m) /\ b[1] = Frame(m[b[1].seq + 1], b[1].seq)
      /\ b[2] \in 1..b[1].len
  BY <1>2 DEF Valid
<1>8. i + 1 \in 1..Len(m) /\ b[1] = Frame(m[i + 1], i)
  BY <1>5, <1>7
<1>9. k \in 1..Frame(m[i + 1], i).len
  BY <1>5, <1>7, <1>8
<1> QED BY <1>5, <1>6, <1>8, <1>9 DEF b

\* The next h bytes are those of the i-th frame from the k-th on.
Follow(m, c, o, pos, i, k, h) ==
  LET f == Frame(m[i + 1], i)
  IN  /\ i + 1 \in 1..Len(m)
      /\ SubSeq(c, pos + 1, pos + h) = Bytes(f, k, k + h - 1)
      /\ c[pos + h] = <<f, k + h - 1>>
      /\ PlaceIn(c, o, pos + h) = IF k + h - 1 < f.len THEN <<i, k + h>> ELSE <<i + 1, 1>>

\* Some more bytes of a chunk, inside one frame, are that frame's.
LEMMA Stretch ==
  ASSUME NEW m \in Seq(Msgs), NEW c \in Seq(Octets), NEW o, Run(m, c, o),
         NEW pos \in Nat, NEW i \in Nat, NEW k \in Nat \ {0}, PlaceIn(c, o, pos) = <<i, k>>,
         NEW h \in Nat \ {0}, pos + h <= Len(c), k + h - 1 <= Frame(m[i + 1], i).len
  PROVE  Follow(m, c, o, pos, i, k, h)
<1> DEFINE f == Frame(m[i + 1], i)
<1>1. Len(c) \in Nat /\ pos < Len(c)
  OBVIOUS
<1>2. i + 1 \in 1..Len(m) /\ c[pos + 1] = <<f, k>>
  <2>1. k \in Nat
    OBVIOUS
  <2>2. i + 1 \in 1..Len(m) /\ c[pos + 1] = <<Frame(m[i + 1], i), k>>
    BY <1>1, <2>1, NextByte
  <2> QED BY <2>2
<1>3. m[i + 1] \in Msgs
  BY <1>2, ElementOfSeq
<1>4. f \in Frames /\ f.seq = i /\ f.len \in Nat
  BY <1>3, FrameProperty DEF Frames
<1>5. k + h - 1 <= f.len /\ f = Frame(m[i + 1], i)
  OBVIOUS
<1> HIDE DEF f
<1> DEFINE G == {x \in 0..(h - 1) : c[pos + (x + 1)] = <<f, k + x>>}
<1>6. 0 \in G
  <2>1. 0 \in 0..(h - 1) /\ pos + (0 + 1) = pos + 1 /\ k + 0 = k
    OBVIOUS
  <2> QED BY <1>2, <2>1
<1>7. ASSUME NEW x \in 1..(h - 1), x - 1 \in G PROVE x \in G
  <2>1. /\ pos + x \in Nat /\ pos + x < Len(c) /\ pos + x # 0 /\ k + x \in Nat
        /\ pos + ((x - 1) + 1) = pos + x /\ (pos + x) + 1 = pos + (x + 1) /\ x \in 0..(h - 1)
    BY <1>1
  <2>2. c[pos + x] = <<f, k + (x - 1)>>
    BY <1>7, <2>1
  <2>3. k + (x - 1) < f.len /\ (k + (x - 1)) + 1 = k + x
    BY <1>4, <1>5
  <2>4. PlaceIn(c, o, pos + x) = <<i, k + x>>
    <3>1. c[pos + x][1] = f /\ c[pos + x][2] = k + (x - 1)
      BY <2>2
    <3>2. Beyond(c[pos + x]) = <<i, k + x>>
      BY <1>4, <2>3, <3>1 DEF Beyond
    <3> QED BY <2>1, <3>2 DEF PlaceIn
  <2>5. c[(pos + x) + 1] = <<f, k + x>>
    <3> DEFINE y == pos + x
               z == k + x
    <3>1. y \in Nat /\ y < Len(c) /\ z \in Nat /\ PlaceIn(c, o, y) = <<i, z>>
      BY <2>1, <2>4
    <3> HIDE DEF y, z
    <3>2. c[y + 1] = <<Frame(m[i + 1], i), z>>
      BY <3>1, NextByte
    <3> QED BY <1>5, <3>2 DEF y, z
  <2> QED BY <2>1, <2>5
<1> HIDE DEF G
<1>8. \A x \in 0..(h - 1) : x \in G
  <2>1. h - 1 \in Nat
    OBVIOUS
  <2> QED BY <1>6, <1>7, <2>1, InductionUpTo
<1>9. ASSUME NEW x \in 1..h PROVE c[pos + x] = <<f, k + x - 1>>
  <2>1. x - 1 \in 0..(h - 1) /\ pos + ((x - 1) + 1) = pos + x /\ k + (x - 1) = k + x - 1
    OBVIOUS
  <2>2. c[pos + ((x - 1) + 1)] = <<f, k + (x - 1)>>
    BY <1>8, <2>1 DEF G
  <2> QED BY <2>1, <2>2
<1>10. SubSeq(c, pos + 1, pos + h) = Bytes(f, k, k + h - 1)
  <2> DEFINE s == SubSeq(c, pos + 1, pos + h)
             t == Bytes(f, k, k + h - 1)
  <2>1. /\ s \in Seq(Octets) /\ Len(s) = h
        /\ \A x \in 1..h : s[x] = c[pos + x]
    <3>1. /\ pos + 1 \in Int /\ pos + h \in Int /\ pos + 1 <= pos + h
          /\ (pos + h) - (pos + 1) + 1 = h /\ \A x \in 1..h : (pos + 1) + x - 1 = pos + x
      OBVIOUS
    <3>2. \A x \in (pos + 1)..(pos + h) : c[x] \in Octets
      BY <1>1, ElementOfSeq
    <3>3. /\ s \in Seq(Octets) /\ Len(s) = (pos + h) - (pos + 1) + 1
          /\ \A x \in 1..((pos + h) - (pos + 1) + 1) : s[x] = c[(pos + 1) + x - 1]
      BY <3>1, <3>2, SubSeqProperties
    <3> HIDE DEF s
    <3> QED BY <3>1, <3>3
  <2>2. /\ t \in Seq(Octets) /\ Len(t) = h
        /\ \A x \in 1..h : t[x] = <<f, k + x - 1>>
    <3>1. k \in Nat /\ k + h - 1 \in Nat /\ k <= (k + h - 1) + 1 /\ (k + h - 1) - k + 1 = h
      OBVIOUS
    <3>2. /\ t \in Seq(Octets) /\ Len(t) = (k + h - 1) - k + 1
          /\ \A x \in 1..((k + h - 1) - k + 1) : t[x] = <<f, k + x - 1>>
      BY <1>4, <3>1, BytesProperty
    <3> HIDE DEF t
    <3> QED BY <3>1, <3>2
  <2> HIDE DEF s, t
  <2>3. \A x \in 1..Len(s) : s[x] = t[x]
    BY <1>9, <2>1, <2>2
  <2>4. s = t
    BY <2>1, <2>2, <2>3, SeqEqual
  <2> QED BY <2>4 DEF s, t
<1>11. c[pos + h] = <<f, k + h - 1>>
  <2>1. h \in 1..h
    OBVIOUS
  <2> QED BY <1>9, <2>1
<1>12. PlaceIn(c, o, pos + h) = IF k + h - 1 < f.len THEN <<i, k + h>> ELSE <<i + 1, 1>>
  <2>1. pos + h # 0 /\ (k + h - 1) + 1 = k + h
    OBVIOUS
  <2>2. c[pos + h][1] = f /\ c[pos + h][2] = k + h - 1
    BY <1>11
  <2>3. Beyond(c[pos + h]) = IF k + h - 1 < f.len THEN <<i, k + h>> ELSE <<i + 1, 1>>
    BY <1>4, <2>1, <2>2 DEF Beyond
  <2> QED BY <2>1, <2>3 DEF PlaceIn
<1> QED BY <1>2, <1>10, <1>11, <1>12, <1>5 DEF Follow

Readers == [prefix : Seq(Octets), frame : Frames \cup {NoFrame}, payload : Seq(Octets),
            body : Nat, next : Int]

\* The reader has handled d and waits for bytes of the next prefix.
Opening(m, st, d, p) ==
  /\ st.frame = NoFrame /\ st.payload = <<>> /\ st.body = 0 /\ st.next = Len(d)
  /\ Len(st.prefix) < FRAME_PREFIX_SIZE /\ p = <<Len(d), Len(st.prefix) + 1>>
  /\ st.prefix # <<>> =>
       Len(d) < Len(m) /\ st.prefix = Bytes(Frame(m[Len(d) + 1], Len(d)), 1, Len(st.prefix))

\* It has the prefix of the next frame, and waits for the rest; a frame that
\* is complete is left for the next turn only if its payload ends with it.
Inside(m, st, d, p) ==
  LET f == Frame(m[Len(d) + 1], Len(d))
  IN  /\ Len(d) < Len(m) /\ st.frame = f /\ st.next = Len(d) + 1
      /\ Len(st.prefix) = FRAME_PREFIX_SIZE
      /\ st.body <= f.len - FRAME_PREFIX_SIZE
      /\ Len(st.payload) = Min2(f.payload_len, f.len - FRAME_PREFIX_SIZE - st.body)
      /\ st.payload = Bytes(f, FRAME_PREFIX_SIZE + 1, FRAME_PREFIX_SIZE + Len(st.payload))
      /\ p = IF st.body = 0 THEN <<Len(d) + 1, 1>> ELSE <<Len(d), f.len - st.body + 1>>
      /\ st.body = 0 => f.payload_len = f.len - FRAME_PREFIX_SIZE

\* What the reader has, when it has handled d and reads on at place p.
ReaderAt(m, st, d, p) ==
  /\ Len(d) <= Len(m) /\ \A j \in 1..Len(d) : d[j] = m[j]
  /\ Opening(m, st, d, p) \/ Inside(m, st, d, p)

\* A frame with its bytes up to here: Bytes one after another.
LEMMA BytesJoined ==
  ASSUME NEW f \in Frames, NEW a \in Nat, NEW b \in Nat, NEW e \in Nat, a <= b + 1, b <= e
  PROVE  Bytes(f, a, b) \o Bytes(f, b + 1, e) = Bytes(f, a, e)
<1> DEFINE s == Bytes(f, a, b)
           t == Bytes(f, b + 1, e)
           u == Bytes(f, a, e)
<1>1. /\ s \in Seq(Octets) /\ Len(s) = b - a + 1
      /\ \A k \in 1..(b - a + 1) : s[k] = <<f, a + k - 1>>
  BY BytesProperty
<1>2. /\ t \in Seq(Octets) /\ Len(t) = e - b
      /\ \A k \in 1..(e - b) : t[k] = <<f, (b + 1) + k - 1>>
  <2>1. b + 1 \in Nat /\ b + 1 <= e + 1 /\ e - (b + 1) + 1 = e - b
    OBVIOUS
  <2>2. /\ t \in Seq(Octets) /\ Len(t) = e - (b + 1) + 1
        /\ \A k \in 1..(e - (b + 1) + 1) : t[k] = <<f, (b + 1) + k - 1>>
    BY <2>1, BytesProperty
  <2> HIDE DEF t
  <2> QED BY <2>1, <2>2
<1>3. /\ u \in Seq(Octets) /\ Len(u) = e - a + 1
      /\ \A k \in 1..(e - a + 1) : u[k] = <<f, a + k - 1>>
  <2>1. a <= e + 1
    OBVIOUS
  <2> QED BY <2>1, BytesProperty
<1> HIDE DEF s, t, u
<1>4. /\ s \o t \in Seq(Octets) /\ Len(s \o t) = e - a + 1
      /\ \A k \in 1..(e - a + 1) :
           (s \o t)[k] = IF k <= b - a + 1 THEN s[k] ELSE t[k - (b - a + 1)]
  <2>1. Len(s) + Len(t) = e - a + 1
    BY <1>1, <1>2
  <2>2. /\ s \o t \in Seq(Octets) /\ Len(s \o t) = Len(s) + Len(t)
        /\ \A k \in 1..(Len(s) + Len(t)) :
             (s \o t)[k] = IF k <= Len(s) THEN s[k] ELSE t[k - Len(s)]
    BY <1>1, <1>2, ConcatProperties
  <2> QED BY <1>1, <2>1, <2>2
<1>5. ASSUME NEW k \in 1..(e - a + 1) PROVE (s \o t)[k] = u[k]
  <2>1. CASE k <= b - a + 1
    <3>1. k \in 1..(b - a + 1)
      BY <2>1
    <3>2. (s \o t)[k] = s[k]
      BY <1>4, <2>1
    <3> QED BY <1>1, <1>3, <3>1, <3>2
  <2>2. CASE ~ (k <= b - a + 1)
    <3> DEFINE x == k - (b - a + 1)
    <3>1. x \in 1..(e - b) /\ (b + 1) + x - 1 = a + k - 1
      BY <2>2
    <3>2. (s \o t)[k] = t[x]
      BY <1>4, <2>2
    <3>3. t[x] = <<f, (b + 1) + x - 1>>
      BY <1>2, <3>1
    <3> HIDE DEF x
    <3> QED BY <1>3, <3>1, <3>2, <3>3
  <2> QED BY <2>1, <2>2
<1>6. s \o t = u
  <2>1. \A k \in 1..Len(s \o t) : (s \o t)[k] = u[k]
    BY <1>4, <1>5
  <2> QED BY <1>3, <1>4, <2>1, SeqEqual
<1> QED BY <1>6 DEF s, t, u

\* The next frame of the reader, which has handled d.
CurrentFrame(m, d) == Frame(m[Len(d) + 1], Len(d))

\* The numbers in the prefix of the frame being read fit its length.
LEMMA CurrentFrameProperty ==
  ASSUME NEW m \in Seq(Msgs), NEW d \in Seq(Msgs), Len(d) + 1 \in 1..Len(m)
  PROVE  LET f == CurrentFrame(m, d)
         IN  /\ f \in Frames /\ f.seq = Len(d) /\ f.msg = m[Len(d) + 1]
             /\ f.len \in Nat /\ f.len >= FRAME_PREFIX_SIZE + 1
             /\ f.payload_len \in Nat /\ f.payload_len + FRAME_PREFIX_SIZE <= f.len
<1>1. m[Len(d) + 1] \in Msgs /\ Len(d) \in Nat
  BY ElementOfSeq
<1> QED BY <1>1, FrameProperty DEF Frames, CurrentFrame

\* Bytes from the first on, and no bytes.
LEMMA FirstBytes ==
  ASSUME NEW f \in Frames, NEW a \in Nat, NEW n \in Nat
  PROVE  /\ Bytes(f, a + 1, a + n) \in Seq(Octets) /\ Len(Bytes(f, a + 1, a + n)) = n
         /\ n = 0 => Bytes(f, a + 1, a + n) = <<>>
         /\ n > 0 => Bytes(f, a + 1, a + n)[1] = <<f, a + 1>>
<1> DEFINE s == Bytes(f, a + 1, a + n)
<1>1. /\ a + 1 \in Nat /\ a + n \in Nat /\ a + 1 <= (a + n) + 1
      /\ (a + n) - (a + 1) + 1 = n
  OBVIOUS
<1>2. /\ s \in Seq(Octets) /\ Len(s) = (a + n) - (a + 1) + 1
      /\ \A k \in 1..((a + n) - (a + 1) + 1) : s[k] = <<f, (a + 1) + k - 1>>
  BY <1>1, BytesProperty
<1> HIDE DEF s
<1>3. s \in Seq(Octets) /\ Len(s) = n
  BY <1>1, <1>2
<1>4. n = 0 => s = <<>>
  BY <1>3, EmptySeq
<1>5. n > 0 => s[1] = <<f, a + 1>>
  <2> SUFFICES ASSUME n > 0 PROVE s[1] = <<f, a + 1>>
    OBVIOUS
  <2>1. 1 \in 1..((a + n) - (a + 1) + 1) /\ (a + 1) + 1 - 1 = a + 1
    BY <1>1
  <2>2. s[1] = <<f, (a + 1) + 1 - 1>>
    BY <1>2, <2>1
  <2> QED BY <2>1, <2>2
<1> QED BY <1>3, <1>4, <1>5 DEF s

\* The smaller of two.
LEMMA Min2Property ==
  ASSUME NEW a \in Nat, NEW b \in Nat
  PROVE  /\ Min2(a, b) \in Nat /\ Min2(a, b) <= a /\ Min2(a, b) <= b
         /\ Min2(a, b) = a \/ Min2(a, b) = b
         /\ a <= b => Min2(a, b) = a
         /\ b <= a => Min2(a, b) = b
BY DEF Min2

\* The next bytes of the chunk go on with the prefix.
MorePrefixed(m, c, o, pos, st, d, h) ==
  /\ Len(d) + 1 \in 1..Len(m)
  /\ st.prefix \o SubSeq(c, pos + 1, pos + h)
       = Bytes(CurrentFrame(m, d), 1, Len(st.prefix) + h)
  /\ PlaceIn(c, o, pos + h) = <<Len(d), Len(st.prefix) + h + 1>>

\* Bytes that the reader takes for the prefix are of the prefix.
LEMMA MorePrefix ==
  ASSUME NEW m \in Seq(Msgs), NEW c \in Seq(Octets), NEW o, Run(m, c, o),
         NEW pos \in Nat, NEW st \in Readers, NEW d \in Seq(Msgs),
         Len(d) <= Len(m), Opening(m, st, d, PlaceIn(c, o, pos)),
         NEW h \in Nat \ {0}, pos + h <= Len(c),
         Len(st.prefix) + h <= FRAME_PREFIX_SIZE
  PROVE  MorePrefixed(m, c, o, pos, st, d, h)
<1> DEFINE x == Len(st.prefix)
           i == Len(d)
           f == CurrentFrame(m, d)
           P == FRAME_PREFIX_SIZE
<1>1. /\ Len(c) \in Nat /\ x \in Nat /\ i \in Nat /\ P \in Nat \ {0} /\ pos < Len(c)
      /\ st.prefix \in Seq(Octets)
  BY SizesOK DEF Readers
<1>2. PlaceIn(c, o, pos) = <<i, x + 1>> /\ x + h <= P
  BY DEF Opening
<1>3. st.prefix # <<>> => st.prefix = Bytes(f, 1, x)
  BY DEF Opening, CurrentFrame
<1> HIDE DEF P, x, i
<1>4. i + 1 \in 1..Len(m)
  <2>1. x + 1 \in Nat
    BY <1>1
  <2> QED BY <1>1, <1>2, <2>1, NextByte
<1>5. f \in Frames /\ f.seq = i /\ f.len \in Nat /\ f.len >= P + 1
  BY <1>4, CurrentFrameProperty DEF i, P
<1>6. f = Frame(m[i + 1], i)
  BY DEF i, CurrentFrame
<1> HIDE DEF f
<1>7. x + h < f.len /\ x + h \in Nat
  BY <1>1, <1>2, <1>5
<1>8. /\ SubSeq(c, pos + 1, pos + h) = Bytes(f, x + 1, x + h)
      /\ PlaceIn(c, o, pos + h) = <<i, x + h + 1>>
  <2> DEFINE k == x + 1
  <2>1. k \in Nat \ {0} /\ k + h - 1 = x + h /\ k + h = x + h + 1
    BY <1>1
  <2>2. PlaceIn(c, o, pos) = <<i, k>>
    BY <1>2
  <2>3. k + h - 1 <= f.len /\ k + h - 1 < f.len
    BY <1>5, <1>7, <2>1
  <2> HIDE DEF k
  <2>4. /\ SubSeq(c, pos + 1, pos + h) = Bytes(f, k, k + h - 1)
        /\ PlaceIn(c, o, pos + h) = IF k + h - 1 < f.len THEN <<i, k + h>> ELSE <<i + 1, 1>>
    <3>1. /\ pos \in Nat /\ i \in Nat /\ k \in Nat \ {0} /\ h \in Nat \ {0}
          /\ pos + h <= Len(c) /\ Run(m, c, o)
      BY <1>1, <2>1
    <3>2. k + h - 1 <= Frame(m[i + 1], i).len
      BY <1>6, <2>3
    <3>3. Follow(m, c, o, pos, i, k, h)
      BY <2>2, <3>1, <3>2, Stretch
    <3> QED BY <1>6, <3>3 DEF Follow
  <2>5. Bytes(f, k, k + h - 1) = Bytes(f, x + 1, x + h)
    BY <2>1 DEF k
  <2> QED BY <2>1, <2>3, <2>4, <2>5
<1>9. st.prefix = Bytes(f, 1, x)
  <2>1. CASE st.prefix = <<>>
    <3>1. x = 0
      BY <2>1 DEF x
    <3>2. Bytes(f, 0 + 1, 0 + 0) = <<>>
      BY <1>5, FirstBytes
    <3>3. Bytes(f, 1, 0) = <<>>
      BY <3>2
    <3> QED BY <2>1, <3>1, <3>3
  <2> QED BY <1>3, <2>1
<1>10. Bytes(f, 1, x) \o Bytes(f, x + 1, x + h) = Bytes(f, 1, x + h)
  <2>1. x <= x + h /\ 1 \in Nat /\ 1 <= x + 1
    BY <1>1, <1>7
  <2> QED BY <1>1, <1>5, <1>7, <2>1, BytesJoined
<1> QED BY <1>4, <1>8, <1>9, <1>10 DEF MorePrefixed, x, i, f

\* The prefix is not complete yet.
LEMMA StillOpening ==
  ASSUME NEW m \in Seq(Msgs), NEW st \in Readers, NEW d \in Seq(Msgs), NEW p,
         Opening(m, st, d, p), Len(d) + 1 \in 1..Len(m),
         NEW y \in 1..(FRAME_PREFIX_SIZE - 1)
  PROVE  LET u == [st EXCEPT !.prefix = Bytes(CurrentFrame(m, d), 1, y)]
         IN  u \in Readers /\ Opening(m, u, d, <<Len(d), y + 1>>) /\ Len(u.prefix) = y
<1> DEFINE f == CurrentFrame(m, d)
           w == Bytes(f, 1, y)
           u == [st EXCEPT !.prefix = w]
<1>1. FRAME_PREFIX_SIZE \in Nat /\ y \in Nat /\ y < FRAME_PREFIX_SIZE /\ 0 + y = y /\ Len(d) \in Nat
  BY SizesOK
<1>2. f \in Frames
  BY CurrentFrameProperty
<1>3. w \in Seq(Octets) /\ Len(w) = y
  <2>1. /\ Bytes(f, 0 + 1, 0 + y) \in Seq(Octets) /\ Len(Bytes(f, 0 + 1, 0 + y)) = y
    BY <1>1, <1>2, FirstBytes
  <2>2. 0 + 1 = 1
    OBVIOUS
  <2> HIDE DEF f
  <2> QED BY <1>1, <2>1, <2>2
<1>4. f = Frame(m[Len(d) + 1], Len(d)) /\ Len(d) < Len(m)
  BY <1>1 DEF CurrentFrame
<1> HIDE DEF f, w
<1>5. /\ u \in Readers /\ u.prefix = w /\ u.frame = st.frame /\ u.payload = st.payload
      /\ u.body = st.body /\ u.next = st.next
  BY <1>3 DEF Readers
<1>6. w = Bytes(f, 1, Len(w))
  BY <1>3 DEF w
<1> HIDE DEF u
<1>7. st.frame = NoFrame /\ st.payload = <<>> /\ st.body = 0 /\ st.next = Len(d)
  BY DEF Opening
<1>8. Opening(m, u, d, <<Len(d), y + 1>>)
  BY <1>1, <1>3, <1>4, <1>5, <1>6, <1>7 DEF Opening
<1> QED BY <1>3, <1>5, <1>8 DEF u, w, f

\* The prefix is complete, and passes ReadPrefix.
LEMMA PrefixComplete ==
  ASSUME NEW m \in Seq(Msgs), NEW st \in Readers, NEW d \in Seq(Msgs), NEW p,
         Opening(m, st, d, p), Len(d) + 1 \in 1..Len(m)
  PROVE  LET u == [st EXCEPT !.prefix = Bytes(CurrentFrame(m, d), 1, FRAME_PREFIX_SIZE)]
             t == ReadPrefix(u)
         IN  t \in Readers /\ Inside(m, t, d, <<Len(d), FRAME_PREFIX_SIZE + 1>>)
<1> DEFINE f == CurrentFrame(m, d)
           P == FRAME_PREFIX_SIZE
           w == Bytes(f, 1, P)
           u == [st EXCEPT !.prefix = w]
           t == [u EXCEPT !.frame = f, !.next = f.seq + 1, !.body = f.len - P]
<1>1. P \in Nat /\ P > 0 /\ 0 + P = P /\ 0 + 1 = 1 /\ Len(d) \in Nat /\ Len(d) < Len(m)
  BY SizesOK
<1>2. /\ f \in Frames /\ f.seq = Len(d) /\ f.len \in Nat /\ f.len >= P + 1
      /\ f.payload_len \in Nat
  BY CurrentFrameProperty
<1>3. f = Frame(m[Len(d) + 1], Len(d))
  BY DEF CurrentFrame
<1> HIDE DEF f
<1>4. w \in Seq(Octets) /\ Len(w) = P /\ w[1] = <<f, 1>>
  <2> HIDE DEF P
  <2> DEFINE z == 0
  <2>1. z \in Nat /\ z + P = P /\ z + 1 = 1
    BY <1>1
  <2> HIDE DEF z
  <2>2. /\ Bytes(f, z + 1, z + P) \in Seq(Octets) /\ Len(Bytes(f, z + 1, z + P)) = P
        /\ Bytes(f, z + 1, z + P)[1] = <<f, z + 1>>
    BY <1>1, <1>2, <2>1, FirstBytes
  <2> QED BY <2>1, <2>2
<1>5. st.frame = NoFrame /\ st.payload = <<>> /\ st.body = 0 /\ st.next = Len(d)
  BY DEF Opening
<1>6. w = Bytes(f, 1, P)
  OBVIOUS
<1> HIDE DEF w, P
<1>7. /\ u \in Readers /\ u.prefix = w /\ u.payload = <<>> /\ u.next = Len(d)
  BY <1>4, <1>5 DEF Readers
<1> HIDE DEF u
<1>8. ReadPrefix(u) = t
  <2>1. u.prefix[1][1] = f
    BY <1>4, <1>7
  <2>2. u.prefix = Bytes(f, 1, FRAME_PREFIX_SIZE) /\ f.seq = u.next
    BY <1>2, <1>6, <1>7 DEF P
  <2> QED BY <2>1, <2>2 DEF ReadPrefix, P
<1>9. f.len - P \in Nat /\ f.len - P # 0 /\ f.seq + 1 \in Int /\ f.seq + 1 = Len(d) + 1
  BY <1>1, <1>2
<1>10. /\ t \in Readers /\ t.prefix = w /\ t.frame = f /\ t.payload = <<>>
       /\ t.body = f.len - P /\ t.next = f.seq + 1
  BY <1>2, <1>7, <1>9 DEF Readers
<1> HIDE DEF t
<1>11. Len(t.prefix) = P /\ Len(t.payload) = 0
  BY <1>4, <1>10
<1>12. Min2(f.payload_len, f.len - P - t.body) = 0
  <2>1. f.len - P - t.body = 0
    BY <1>1, <1>2, <1>10
  <2>2. Min2(f.payload_len, 0) = 0
    <3>1. f.payload_len \in Nat /\ 0 <= f.payload_len
      BY <1>2
    <3> QED BY <3>1 DEF Min2
  <2> QED BY <2>1, <2>2
<1>13. t.payload = Bytes(f, P + 1, P + Len(t.payload))
  <2>1. Bytes(f, P + 1, P + 0) = <<>>
    BY <1>1, <1>2, FirstBytes
  <2> QED BY <1>10, <1>11, <2>1
<1>14. f.len - t.body + 1 = P + 1 /\ t.body # 0 /\ t.body <= f.len - P
  BY <1>1, <1>2, <1>9, <1>10
<1>15. Inside(m, t, d, <<Len(d), P + 1>>)
  BY <1>1, <1>3, <1>9, <1>10, <1>11, <1>12, <1>13, <1>14 DEF Inside, P
<1> QED BY <1>8, <1>10, <1>15 DEF u, w, f, P

\* Inside a frame: what the reader has of it, and where it reads on.
LEMMA InsideParts ==
  ASSUME NEW m \in Seq(Msgs), NEW st \in Readers, NEW d \in Seq(Msgs), NEW p,
         Inside(m, st, d, p)
  PROVE  LET f == CurrentFrame(m, d)
         IN  /\ Len(d) \in Nat /\ Len(d) + 1 \in 1..Len(m) /\ Len(d) < Len(m)
             /\ f = Frame(m[Len(d) + 1], Len(d)) /\ f \in Frames /\ st.frame = f
             /\ f.msg = m[Len(d) + 1]
             /\ st.payload \in Seq(Octets)
             /\ st.payload = Bytes(f, FRAME_PREFIX_SIZE + 1, FRAME_PREFIX_SIZE + Len(st.payload))
             /\ p = IF st.body = 0 THEN <<Len(d) + 1, 1>> ELSE <<Len(d), f.len - st.body + 1>>
             /\ Len(st.prefix) = FRAME_PREFIX_SIZE /\ st.next = Len(d) + 1
<1>1. Len(d) \in Nat /\ Len(m) \in Nat /\ st.payload \in Seq(Octets)
  BY DEF Readers
<1>2. Len(d) < Len(m)
  BY DEF Inside
<1>3. Len(d) + 1 \in 1..Len(m)
  BY <1>1, <1>2
<1>4. CurrentFrame(m, d) \in Frames /\ CurrentFrame(m, d).msg = m[Len(d) + 1]
  BY <1>3, CurrentFrameProperty
<1> QED BY <1>1, <1>2, <1>3, <1>4 DEF Inside, CurrentFrame

\* The sizes: of the frame, of its payload, of the prefix, of what is left of
\* the body, and of what the reader has of the payload.
Sizes(len, pl, pre, body, have) ==
  /\ len \in Nat /\ pl \in Nat /\ pre \in Nat \ {0} /\ body \in Nat /\ have \in Nat
  /\ pre < len /\ pl + pre <= len /\ have <= pl /\ have + pre + body <= len
  /\ have = pl \/ have + pre + body = len
  /\ body = 0 => pl + pre = len

\* Past the prefix, what is left of body and payload fits the frame.
LEMMA InsideSizes ==
  ASSUME NEW m \in Seq(Msgs), NEW st \in Readers, NEW d \in Seq(Msgs), NEW p,
         Inside(m, st, d, p)
  PROVE  Sizes(CurrentFrame(m, d).len, CurrentFrame(m, d).payload_len, FRAME_PREFIX_SIZE, st.body,
               Len(st.payload))
<1> DEFINE f == CurrentFrame(m, d)
           len == f.len
           pl == f.payload_len
           pre == FRAME_PREFIX_SIZE
           body == st.body
           have == Len(st.payload)
<1>1. pre \in Nat \ {0} /\ body \in Nat /\ have \in Nat
  BY SizesOK DEF Readers
<1>2. len \in Nat /\ pl \in Nat /\ pl + pre <= len /\ pre < len
  <2>1. Len(d) + 1 \in 1..Len(m)
    BY InsideParts
  <2>2. len \in Nat /\ pl \in Nat /\ pl + pre <= len /\ len >= pre + 1
    BY <2>1, CurrentFrameProperty
  <2> HIDE DEF len, pre
  <2> QED BY <1>1, <2>2
<1>3. body <= len - pre /\ have = Min2(pl, len - pre - body) /\ (body = 0 => pl = len - pre)
  BY DEF Inside, CurrentFrame
<1> HIDE DEF f, len, pl, pre, body, have
<1>4. Sizes(len, pl, pre, body, have)
  BY <1>1, <1>2, <1>3 DEF Sizes, Min2
<1> QED BY <1>4 DEF f, len, pl, pre, body, have

\* And the other way round.
LEMMA SizesInside ==
  ASSUME NEW m \in Seq(Msgs), NEW st \in Readers, NEW d \in Seq(Msgs), NEW p,
         NEW f, f = Frame(m[Len(d) + 1], Len(d)), st.frame = f,
         Len(d) < Len(m), st.next = Len(d) + 1, Len(st.prefix) = FRAME_PREFIX_SIZE,
         st.payload = Bytes(f, FRAME_PREFIX_SIZE + 1, FRAME_PREFIX_SIZE + Len(st.payload)),
         p = IF st.body = 0 THEN <<Len(d) + 1, 1>> ELSE <<Len(d), f.len - st.body + 1>>,
         Sizes(f.len, f.payload_len, FRAME_PREFIX_SIZE, st.body, Len(st.payload))
  PROVE  Inside(m, st, d, p)
<1> DEFINE len == f.len
           pl == f.payload_len
           pre == FRAME_PREFIX_SIZE
           body == st.body
           have == Len(st.payload)
<1>1. Sizes(len, pl, pre, body, have)
  OBVIOUS
<1>2. body <= len - pre /\ have = Min2(pl, len - pre - body) /\ (body = 0 => pl = len - pre)
  <2> HIDE DEF len, pl, pre, body, have
  <2> QED BY <1>1 DEF Sizes, Min2
<1> QED BY <1>2 DEF Inside

\* The next h bytes of the chunk go on with the frame.
GoesOn(m, c, o, pos, st, d, h) ==
  LET f == CurrentFrame(m, d)
      x == f.len - st.body
  IN  /\ SubSeq(c, pos + 1, pos + h) = Bytes(f, x + 1, x + h)
      /\ PlaceIn(c, o, pos + h) = IF h = st.body THEN <<Len(d) + 1, 1>>
                                  ELSE <<Len(d), x + h + 1>>
      /\ c[pos + h] = <<f, x + h>>

\* Bytes that the reader takes for the body are of the body.
LEMMA MoreBody ==
  ASSUME NEW m \in Seq(Msgs), NEW c \in Seq(Octets), NEW o, Run(m, c, o),
         NEW pos \in Nat, NEW st \in Readers, NEW d \in Seq(Msgs),
         Inside(m, st, d, PlaceIn(c, o, pos)),
         NEW h \in Nat \ {0}, pos + h <= Len(c), h <= st.body
  PROVE  GoesOn(m, c, o, pos, st, d, h)
<1> DEFINE f == CurrentFrame(m, d)
           i == Len(d)
           len == f.len
           body == st.body
           x == len - body
           k == x + 1
<1>1. len \in Nat /\ body \in Nat /\ body <= len /\ h <= body
  <2> DEFINE pl == f.payload_len
             pre == FRAME_PREFIX_SIZE
             have == Len(st.payload)
  <2>1. Sizes(len, pl, pre, body, have) /\ h <= body
    BY InsideSizes
  <2> HIDE DEF len, body, pl, pre, have
  <2> QED BY <2>1 DEF Sizes
<1>2. f = Frame(m[i + 1], i) /\ i \in Nat
  BY DEF CurrentFrame
<1>3. PlaceIn(c, o, pos) = IF body = 0 THEN <<i + 1, 1>> ELSE <<i, k>>
  BY InsideParts
<1> HIDE DEF f, i, len, body
<1>4. /\ x \in Nat /\ x + h <= len /\ (h = body <=> ~ (x + h < len)) /\ body # 0
      /\ k \in Nat \ {0} /\ k + h - 1 = x + h /\ k + h = x + h + 1
  BY <1>1
<1> HIDE DEF x, k
<1>5. Follow(m, c, o, pos, i, k, h)
  <2>1. k + h - 1 <= Frame(m[i + 1], i).len
    BY <1>2, <1>4 DEF len
  <2>2. PlaceIn(c, o, pos) = <<i, k>>
    BY <1>3, <1>4
  <2> QED BY <1>2, <1>4, <2>1, <2>2, Stretch
<1>6. /\ SubSeq(c, pos + 1, pos + h) = Bytes(f, k, k + h - 1)
      /\ c[pos + h] = <<f, k + h - 1>>
      /\ PlaceIn(c, o, pos + h) = IF k + h - 1 < len THEN <<i, k + h>> ELSE <<i + 1, 1>>
  BY <1>2, <1>5 DEF Follow, len
<1>7. /\ SubSeq(c, pos + 1, pos + h) = Bytes(f, x + 1, x + h)
      /\ c[pos + h] = <<f, x + h>>
  BY <1>4, <1>6 DEF k
<1>8. PlaceIn(c, o, pos + h) = IF h = body THEN <<i + 1, 1>> ELSE <<i, x + h + 1>>
  BY <1>4, <1>6
<1> QED BY <1>7, <1>8 DEF GoesOn, f, i, x, len, body

\* A turn of the loop that reads bytes of the payload.
LEMMA TurnInPayload ==
  ASSUME NEW m \in Seq(Msgs), NEW c \in Seq(Octets), NEW o, Run(m, c, o),
         NEW pos \in Nat, NEW st \in Readers, NEW d \in Seq(Msgs),
         Inside(m, st, d, PlaceIn(c, o, pos)),
         NEW h \in Nat \ {0}, pos + h <= Len(c),
         h <= st.frame.payload_len - Len(st.payload)
  PROVE  LET t == [st EXCEPT !.payload = @ \o SubSeq(c, pos + 1, pos + h), !.body = @ - h]
         IN  t \in Readers /\ Inside(m, t, d, PlaceIn(c, o, pos + h))
<1> DEFINE f == CurrentFrame(m, d)
           i == Len(d)
           len == f.len
           pl == f.payload_len
           pre == FRAME_PREFIX_SIZE
           body == st.body
           have == Len(st.payload)
           w == st.payload \o SubSeq(c, pos + 1, pos + h)
           t == [st EXCEPT !.payload = w, !.body = body - h]
           x == len - body
           next == have + h
           rest == body - h
<1>1. Sizes(len, pl, pre, body, have) /\ h <= pl - have
  BY InsideSizes, InsideParts
<1>2. /\ i < Len(m) /\ f = Frame(m[i + 1], i) /\ f \in Frames /\ st.frame = f
      /\ st.payload = Bytes(f, pre + 1, pre + have)
      /\ Len(st.prefix) = pre /\ st.next = i + 1
  BY InsideParts
<1> HIDE DEF f, i, len, pl, pre, body, have
<1>3. /\ x = pre + have /\ next \in Nat /\ rest \in Nat /\ h <= body
      /\ pre + 1 \in Nat /\ x \in Nat /\ x + h \in Nat /\ pre + 1 <= x + 1 /\ x <= x + h
      /\ x + h = pre + next /\ (rest = 0 <=> h = body) /\ len - rest + 1 = x + h + 1
      /\ pre \in Nat /\ Sizes(len, pl, pre, rest, next)
  BY <1>1 DEF Sizes
<1> HIDE DEF x, next, rest
<1>4. /\ SubSeq(c, pos + 1, pos + h) = Bytes(f, x + 1, x + h)
      /\ PlaceIn(c, o, pos + h) = IF h = body THEN <<i + 1, 1>> ELSE <<i, x + h + 1>>
  <2>1. h <= st.body
    BY <1>3 DEF body
  <2>2. GoesOn(m, c, o, pos, st, d, h)
    BY <2>1, MoreBody
  <2> QED BY <2>2 DEF GoesOn, f, i, x, body, len
<1>5. w = Bytes(f, pre + 1, pre + next)
  <2> DEFINE a == pre + 1
             e == x + h
  <2>1. f \in Frames /\ a \in Nat /\ x \in Nat /\ e \in Nat /\ a <= x + 1 /\ x <= e
    BY <1>2, <1>3
  <2> HIDE DEF a, e
  <2>2. Bytes(f, a, x) \o Bytes(f, x + 1, e) = Bytes(f, a, e)
    BY <2>1, BytesJoined
  <2> QED BY <1>2, <1>3, <1>4, <2>2 DEF a, e
<1>6. w \in Seq(Octets) /\ Len(w) = next
  <2>1. f \in Frames /\ pre \in Nat /\ next \in Nat
    BY <1>2, <1>3
  <2>2. /\ Bytes(f, pre + 1, pre + next) \in Seq(Octets)
        /\ Len(Bytes(f, pre + 1, pre + next)) = next
    BY <2>1, FirstBytes
  <2> QED BY <1>5, <2>2
<1> HIDE DEF w
<1>7. /\ t \in Readers /\ t.prefix = st.prefix /\ t.frame = st.frame /\ t.payload = w
      /\ t.body = rest /\ t.next = st.next
  BY <1>3, <1>6 DEF Readers, rest
<1>8. t = [st EXCEPT !.payload = @ \o SubSeq(c, pos + 1, pos + h), !.body = @ - h]
  BY DEF w, body
<1> HIDE DEF t
<1>9. PlaceIn(c, o, pos + h) = IF t.body = 0 THEN <<i + 1, 1>> ELSE <<i, len - t.body + 1>>
  BY <1>3, <1>4, <1>7
<1>10. t.payload = Bytes(f, pre + 1, pre + Len(t.payload)) /\ Len(t.prefix) = pre
  BY <1>2, <1>5, <1>6, <1>7
<1>11. Sizes(len, pl, pre, t.body, Len(t.payload))
  BY <1>3, <1>6, <1>7
<1>12. Inside(m, t, d, PlaceIn(c, o, pos + h))
  BY <1>2, <1>7, <1>9, <1>10, <1>11, SizesInside DEF i, pre, len, pl
<1> QED BY <1>7, <1>8, <1>12

\* A turn that reads bytes of the padding, and not all of them.
LEMMA TurnInPadding ==
  ASSUME NEW m \in Seq(Msgs), NEW c \in Seq(Octets), NEW o, Run(m, c, o),
         NEW pos \in Nat, NEW st \in Readers, NEW d \in Seq(Msgs),
         Inside(m, st, d, PlaceIn(c, o, pos)),
         NEW h \in Nat \ {0}, pos + h <= Len(c),
         st.frame.payload_len = Len(st.payload), h < st.body
  PROVE  LET t == [st EXCEPT !.body = @ - h]
         IN  t \in Readers /\ Inside(m, t, d, PlaceIn(c, o, pos + h))
<1> DEFINE f == CurrentFrame(m, d)
           i == Len(d)
           len == f.len
           pl == f.payload_len
           pre == FRAME_PREFIX_SIZE
           body == st.body
           have == Len(st.payload)
           t == [st EXCEPT !.body = body - h]
           x == len - body
           rest == body - h
<1>1. Sizes(len, pl, pre, body, have) /\ pl = have /\ h < body
  BY InsideSizes, InsideParts
<1>2. /\ i < Len(m) /\ f = Frame(m[i + 1], i) /\ st.frame = f
      /\ st.payload = Bytes(f, pre + 1, pre + have)
      /\ Len(st.prefix) = pre /\ st.next = i + 1
  BY InsideParts
<1> HIDE DEF f, i, len, pl, pre, body, have
<1>3. /\ rest \in Nat /\ h <= body /\ h # body /\ rest # 0
      /\ len - rest + 1 = x + h + 1 /\ Sizes(len, pl, pre, rest, have)
  BY <1>1 DEF Sizes
<1> HIDE DEF x, rest
<1>4. PlaceIn(c, o, pos + h) = IF h = body THEN <<i + 1, 1>> ELSE <<i, x + h + 1>>
  <2>1. h <= st.body
    BY <1>3 DEF body
  <2>2. GoesOn(m, c, o, pos, st, d, h)
    BY <2>1, MoreBody
  <2> QED BY <2>2 DEF GoesOn, f, i, x, body, len
<1>5. /\ t \in Readers /\ t.prefix = st.prefix /\ t.frame = st.frame
      /\ t.payload = st.payload /\ t.body = rest /\ t.next = st.next
  BY <1>3 DEF Readers, rest
<1>6. t = [st EXCEPT !.body = @ - h]
  BY DEF body
<1> HIDE DEF t
<1>7. PlaceIn(c, o, pos + h) = IF t.body = 0 THEN <<i + 1, 1>> ELSE <<i, len - t.body + 1>>
  BY <1>3, <1>4, <1>5
<1>8. t.payload = Bytes(f, pre + 1, pre + Len(t.payload)) /\ Len(t.prefix) = pre
  BY <1>2, <1>5 DEF have
<1>9. Sizes(len, pl, pre, t.body, Len(t.payload))
  BY <1>3, <1>5 DEF have
<1>10. Inside(m, t, d, PlaceIn(c, o, pos + h))
  BY <1>2, <1>5, <1>7, <1>8, <1>9, SizesInside DEF i, pre, len, pl
<1> QED BY <1>5, <1>6, <1>10

\* The turn that ends a frame: its message is the next one sent.
LEMMA TurnAtEnd ==
  ASSUME NEW m \in Seq(Msgs), NEW c \in Seq(Octets), NEW o, Run(m, c, o),
         NEW pos \in Nat, NEW st \in Readers, NEW d \in Seq(Msgs),
         Inside(m, st, d, PlaceIn(c, o, pos)),
         pos + st.body <= Len(c), st.frame.payload_len = Len(st.payload)
  PROVE  /\ ResetFrame(st.next) \in Readers
         /\ Payload(st, c, pos + st.body) = <<m[Len(d) + 1]>>
         /\ \A e \in Seq(Msgs) :
              Len(e) = Len(d) + 1 => Opening(m, ResetFrame(st.next), e, PlaceIn(c, o, pos + st.body))
<1> DEFINE f == CurrentFrame(m, d)
           i == Len(d)
           len == f.len
           pl == f.payload_len
           pre == FRAME_PREFIX_SIZE
           body == st.body
           have == Len(st.payload)
           t == ResetFrame(st.next)
           q == pos + body
<1>1. Sizes(len, pl, pre, body, have) /\ pl = have
  BY InsideSizes, InsideParts
<1>2. /\ i \in Nat /\ f = Frame(m[i + 1], i) /\ st.frame = f /\ f.msg = m[i + 1]
      /\ st.payload = Bytes(f, pre + 1, pre + have) /\ st.next = i + 1
      /\ PlaceIn(c, o, pos) = IF body = 0 THEN <<i + 1, 1>> ELSE <<i, len - body + 1>>
  BY InsideParts
<1>3. q \in Nat /\ q <= Len(c)
  BY DEF Readers
<1> HIDE DEF f, i, len, pl, pre, body, have
<1>4. /\ body \in Nat /\ (len - body) + body = len /\ (pl = 0 => body # 0)
      /\ (pl > 0 \/ pl = 0) /\ ~ (pl > 0 /\ pl = 0)
  BY <1>1 DEF Sizes
<1>5. PlaceIn(c, o, q) = <<i + 1, 1>> /\ (body # 0 => q \in 1..Len(c) /\ c[q] = <<f, len>>)
  <2>1. CASE body = 0
    <3>1. q = pos
      BY <2>1
    <3> QED BY <1>2, <2>1, <3>1
  <2>2. CASE body # 0
    <3>1. body \in Nat \ {0} /\ body <= st.body /\ pos + body <= Len(c)
      BY <1>3, <1>4, <2>2 DEF body
    <3>2. /\ PlaceIn(c, o, pos + body) = IF body = st.body THEN <<i + 1, 1>>
                                         ELSE <<i, (f.len - st.body) + body + 1>>
          /\ c[pos + body] = <<f, (f.len - st.body) + body>>
      <4> DEFINE h == body
      <4>1. h \in Nat \ {0} /\ h <= st.body /\ pos + h <= Len(c)
        BY <3>1
      <4> HIDE DEF h
      <4>2. /\ PlaceIn(c, o, pos + h) = IF h = st.body THEN <<i + 1, 1>>
                                        ELSE <<i, (f.len - st.body) + h + 1>>
            /\ c[pos + h] = <<f, (f.len - st.body) + h>>
        <5>1. GoesOn(m, c, o, pos, st, d, h)
          BY <4>1, MoreBody
        <5> QED BY <5>1 DEF GoesOn, f, i
      <4> QED BY <4>2 DEF h
    <3>3. (f.len - st.body) + body = len /\ body = st.body
      BY <1>4 DEF len, body
    <3>4. q \in 1..Len(c)
      BY <1>3, <3>1
    <3> QED BY <3>2, <3>3, <3>4
  <2> QED BY <2>1, <2>2
<1> HIDE DEF q
<1>6. Payload(st, c, q) = <<m[i + 1]>>
  <2> DEFINE inline == Bytes(f, pre + 1, pre + pl)
             tagged == {k \in DOMAIN c : c[k][1].payload_len = 0 /\ c[k][2] = c[k][1].len}
  <2>1. Payload(st, c, q) =
          CASE pl > 0 -> IF st.payload = inline THEN <<f.msg>> ELSE <<>>
            [] pl = 0 -> IF q \in tagged THEN <<c[q][1].msg>> ELSE <<>>
    BY <1>2 DEF Payload, pre, pl
  <2>2. CASE pl > 0
    <3>1. st.payload = inline
      BY <1>1, <1>2
    <3>2. ~ (pl = 0)
      BY <1>4, <2>2
    <3> HIDE DEF inline, tagged
    <3>3. Payload(st, c, q) = <<f.msg>>
      BY <2>1, <2>2, <3>1, <3>2
    <3> QED BY <1>2, <3>3
  <2>3. CASE pl = 0
    <3>1. q \in 1..Len(c) /\ c[q] = <<f, len>>
      BY <1>4, <1>5, <2>3
    <3>2. q \in DOMAIN c
      BY <3>1
    <3>3. c[q][1] = f /\ c[q][2] = len
      BY <3>1
    <3>4. q \in tagged /\ c[q][1].msg = f.msg
      BY <2>3, <3>2, <3>3 DEF pl, len
    <3>5. ~ (pl > 0)
      BY <1>4, <2>3
    <3> HIDE DEF inline, tagged
    <3>6. Payload(st, c, q) = <<f.msg>>
      BY <2>1, <2>3, <3>4, <3>5
    <3> QED BY <1>2, <3>6
  <2> QED BY <1>4, <2>2, <2>3
<1>7. t = [prefix |-> <<>>, frame |-> NoFrame, payload |-> <<>>, body |-> 0, next |-> i + 1]
  BY <1>2 DEF ResetFrame
<1>8. /\ t \in Readers /\ t.prefix = <<>> /\ t.frame = NoFrame /\ t.payload = <<>>
      /\ t.body = 0 /\ t.next = i + 1
  <2>1. i + 1 \in Int /\ <<>> \in Seq(Octets)
    BY <1>2
  <2> QED BY <1>7, <2>1 DEF Readers
<1> HIDE DEF t
<1>9. ASSUME NEW e \in Seq(Msgs), Len(e) = i + 1
      PROVE  Opening(m, t, e, PlaceIn(c, o, q))
  <2>1. Len(t.prefix) = 0 /\ 0 < FRAME_PREFIX_SIZE /\ 0 + 1 = 1
    BY <1>8, SizesOK
  <2>2. PlaceIn(c, o, q) = <<Len(e), Len(t.prefix) + 1>>
    BY <1>5, <1>9, <2>1
  <2> QED BY <1>8, <1>9, <2>1, <2>2 DEF Opening
<1> QED BY <1>6, <1>8, <1>9 DEF i, t, q, body

\* What HandleRead has after some turns over chunk c, which starts at place o.
Turnings == [st : Readers, pos : Nat, out : Seq(Msgs)]

Turning(m, c, o, d, r) ==
  r.pos <= Len(c) /\ ReaderAt(m, r.st, d \o r.out, PlaceIn(c, o, r.pos))

\* Turns read a byte at least, or hand on a frame that is complete.
IsWhole(st) ==
  /\ Len(st.prefix) = FRAME_PREFIX_SIZE /\ st.frame.payload_len = Len(st.payload)
  /\ st.body = 0
Progress(r) == 2 * r.pos + (IF IsWhole(r.st) THEN 0 ELSE 1)

\* The four cases of a turn.
TurnCase(m, c, o, D, r) ==
  LET st      == r.st
      left    == Len(c) - r.pos
      missing == FRAME_PREFIX_SIZE - Len(st.prefix)
      unread  == st.frame.payload_len - Len(st.payload)
      Ahead(n) == SubSeq(c, r.pos + 1, r.pos + n)
  IN  \/ /\ Opening(m, st, D, PlaceIn(c, o, r.pos)) /\ missing \in Nat \ {0}
         /\ LET h == Min2(missing, left)
                u == [st EXCEPT !.prefix = @ \o Ahead(h)]
            IN  ReadTurn(c, r) = [r EXCEPT !.pos = @ + h,
                                           !.st = IF missing = h THEN ReadPrefix(u) ELSE u]
      \/ /\ Inside(m, st, D, PlaceIn(c, o, r.pos)) /\ unread \in Nat \ {0}
         /\ LET h == Min2(unread, left)
            IN  ReadTurn(c, r) = [r EXCEPT !.pos = @ + h,
                                           !.st = [st EXCEPT !.payload = @ \o Ahead(h),
                                                             !.body = @ - h]]
      \/ /\ Inside(m, st, D, PlaceIn(c, o, r.pos)) /\ unread = 0 /\ st.body > left
         /\ ReadTurn(c, r) = [r EXCEPT !.pos = @ + left, !.st = [st EXCEPT !.body = @ - left]]
      \/ /\ Inside(m, st, D, PlaceIn(c, o, r.pos)) /\ unread = 0 /\ st.body <= left
         /\ ReadTurn(c, r) = [r EXCEPT !.pos = @ + st.body, !.st = ResetFrame(st.next),
                                       !.out = @ \o Payload(st, c, r.pos + st.body)]

\* The reader's turn is one of the cases, wherever the chunk was cut.
LEMMA TurnCases ==
  ASSUME NEW m \in Seq(Msgs), NEW c \in Seq(Octets), NEW o, NEW D \in Seq(Msgs),
         NEW r \in Turnings, r.pos < Len(c), ReaderAt(m, r.st, D, PlaceIn(c, o, r.pos))
  PROVE  TurnCase(m, c, o, D, r)
<1> DEFINE st      == r.st
           left    == Len(c) - r.pos
           missing == FRAME_PREFIX_SIZE - Len(st.prefix)
           unread  == st.frame.payload_len - Len(st.payload)
           p       == PlaceIn(c, o, r.pos)
           inPadding == Min2(st.body, left)
           Ahead(n) == SubSeq(c, r.pos + 1, r.pos + n)
           turn1 == LET h == Min2(missing, left)
                        u == [st EXCEPT !.prefix = @ \o Ahead(h)]
                    IN  [r EXCEPT !.pos = @ + h, !.st = IF missing = h THEN ReadPrefix(u) ELSE u]
           turn2 == LET h == Min2(unread, left)
                    IN  [r EXCEPT !.pos = @ + h,
                                  !.st = [st EXCEPT !.payload = @ \o Ahead(h), !.body = @ - h]]
           turn3 == [r EXCEPT !.pos = @ + inPadding, !.st = [st EXCEPT !.body = @ - inPadding]]
           turn4 == [r EXCEPT !.pos = @ + inPadding, !.st = ResetFrame(st.next),
                              !.out = @ \o Payload(st, c, r.pos + inPadding)]
<1>1. st \in Readers /\ st.body \in Nat /\ left \in Nat /\ Len(st.prefix) \in Nat
      /\ FRAME_PREFIX_SIZE \in Nat
  BY SizesOK DEF Turnings, Readers
<1>2. ReadTurn(c, r) =
        CASE missing > 0 -> turn1
          [] missing = 0 /\ unread > 0 -> turn2
          [] missing = 0 /\ unread = 0 /\ st.body > inPadding -> turn3
          [] missing = 0 /\ unread = 0 /\ st.body = inPadding -> turn4
  BY Zenon DEF ReadTurn
<1>3. Opening(m, st, D, p) \/ Inside(m, st, D, p)
  BY DEF ReaderAt
<1>4. CASE Opening(m, st, D, p)
  <2>1. missing \in Nat \ {0} /\ missing > 0 /\ ~ (missing = 0)
    BY <1>1, <1>4 DEF Opening
  <2>2. ReadTurn(c, r) = turn1
    <3> HIDE DEF missing, unread, turn1, turn2, turn3, turn4, inPadding, st
    <3> QED BY <1>2, <2>1
  <2> QED BY <1>4, <2>1, <2>2 DEF TurnCase
<1>5. CASE Inside(m, st, D, p)
  <2>1. /\ Sizes(CurrentFrame(m, D).len, CurrentFrame(m, D).payload_len, FRAME_PREFIX_SIZE, st.body,
                 Len(st.payload))
        /\ st.frame = CurrentFrame(m, D) /\ Len(st.prefix) = FRAME_PREFIX_SIZE
    BY <1>1, <1>5, InsideSizes, InsideParts
  <2>2. unread \in Nat /\ missing = 0 /\ ~ (missing > 0)
    <3>1. unread \in Nat
      <4> DEFINE len == CurrentFrame(m, D).len
                 pl == CurrentFrame(m, D).payload_len
                 pre == FRAME_PREFIX_SIZE
                 have == Len(st.payload)
                 b == st.body
      <4>1. Sizes(len, pl, pre, b, have) /\ unread = pl - have
        BY <2>1
      <4> HIDE DEF len, pl, pre, have, b, unread
      <4> QED BY <4>1 DEF Sizes
    <3>2. missing = 0
      BY <1>1, <2>1
    <3> HIDE DEF missing
    <3> QED BY <3>1, <3>2
  <2>3. CASE unread # 0
    <3>1. unread > 0 /\ ~ (unread = 0) /\ unread \in Nat \ {0}
      BY <2>2, <2>3
    <3>2. ReadTurn(c, r) = turn2
      <4> HIDE DEF missing, unread, turn1, turn2, turn3, turn4, inPadding, st
      <4> QED BY <1>2, <2>2, <3>1
    <3> QED BY <1>5, <3>1, <3>2 DEF TurnCase
  <2>4. CASE unread = 0 /\ st.body > left
    <3>1. inPadding = left /\ st.body > inPadding /\ ~ (st.body = inPadding)
      BY <1>1, <2>4 DEF Min2
    <3>2. ~ (unread > 0)
      BY <2>4
    <3>3. ReadTurn(c, r) = turn3
      <4> HIDE DEF missing, unread, turn1, turn2, turn3, turn4, inPadding, st
      <4> QED BY <1>2, <2>2, <2>4, <3>1, <3>2
    <3>4. turn3 = [r EXCEPT !.pos = @ + left, !.st = [st EXCEPT !.body = @ - left]]
      <4> HIDE DEF inPadding
      <4> QED BY <3>1
    <3> HIDE DEF turn3
    <3> QED BY <1>5, <2>4, <3>3, <3>4 DEF TurnCase
  <2>5. CASE unread = 0 /\ ~ (st.body > left)
    <3>1. inPadding = st.body /\ ~ (st.body > inPadding) /\ st.body <= left
      BY <1>1, <2>5 DEF Min2
    <3>2. ~ (unread > 0)
      BY <2>5
    <3>3. ReadTurn(c, r) = turn4
      <4> HIDE DEF missing, unread, turn1, turn2, turn3, turn4, inPadding, st
      <4> QED BY <1>2, <2>2, <2>5, <3>1, <3>2
    <3>4. turn4 = [r EXCEPT !.pos = @ + st.body, !.st = ResetFrame(st.next),
                            !.out = @ \o Payload(st, c, r.pos + st.body)]
      <4> HIDE DEF inPadding
      <4> QED BY <3>1
    <3> HIDE DEF turn4
    <3> QED BY <1>5, <2>5, <3>1, <3>3, <3>4 DEF TurnCase
  <2> QED BY <2>3, <2>4, <2>5
<1> QED BY <1>3, <1>4, <1>5

\* When nothing of the payload is missing.
LEMMA AllRead ==
  ASSUME NEW m \in Seq(Msgs), NEW st \in Readers, NEW d \in Seq(Msgs), NEW p,
         Inside(m, st, d, p), st.frame.payload_len - Len(st.payload) = 0
  PROVE  st.frame.payload_len = Len(st.payload)
<1> DEFINE pl == CurrentFrame(m, d).payload_len
           have == Len(st.payload)
           len == CurrentFrame(m, d).len
           body == st.body
           pre == FRAME_PREFIX_SIZE
<1>1. st.frame = CurrentFrame(m, d)
  BY InsideParts
<1>2. Sizes(len, pl, pre, body, have) /\ pl - have = 0
  BY <1>1, InsideSizes
<1> HIDE DEF pl, have, len, body, pre
<1>3. pl = have
  BY <1>2 DEF Sizes
<1> QED BY <1>1, <1>3 DEF pl, have

\* A turn keeps all that, and gets on.
LEMMA TurnKeeps ==
  ASSUME NEW m \in Seq(Msgs), NEW c \in Seq(Octets), NEW o, Run(m, c, o),
         NEW d \in Seq(Msgs), NEW r \in Turnings, Turning(m, c, o, d, r), r.pos < Len(c)
  PROVE  LET t == ReadTurn(c, r)
         IN  /\ t \in Turnings /\ Turning(m, c, o, d, t)
             /\ Progress(t) >= Progress(r) + 1
<1> DEFINE D  == d \o r.out
           st == r.st
           t  == ReadTurn(c, r)
           pos == r.pos
           left == Len(c) - pos
           missing == FRAME_PREFIX_SIZE - Len(st.prefix)
           unread == st.frame.payload_len - Len(st.payload)
           Ahead(n) == SubSeq(c, pos + 1, pos + n)
           More(x) == IF IsWhole(x) THEN 0 ELSE 1
<1>1. /\ st \in Readers /\ pos \in Nat /\ r.out \in Seq(Msgs) /\ D \in Seq(Msgs)
      /\ Len(c) \in Nat /\ pos < Len(c) /\ left \in Nat \ {0}
      /\ r = [st |-> st, pos |-> pos, out |-> r.out]
  BY DEF Turnings
<1>2. ReaderAt(m, st, D, PlaceIn(c, o, pos))
  BY DEF Turning
<1>3. Len(D) <= Len(m) /\ \A j \in 1..Len(D) : D[j] = m[j]
  BY <1>2 DEF ReaderAt
\* A turn that takes h bytes and hands nothing on.
<1>4. ASSUME NEW h \in Nat \ {0}, pos + h <= Len(c), NEW s \in Readers,
             t = [r EXCEPT !.pos = @ + h, !.st = s],
             Opening(m, s, D, PlaceIn(c, o, pos + h)) \/ Inside(m, s, D, PlaceIn(c, o, pos + h))
      PROVE  t \in Turnings /\ Turning(m, c, o, d, t) /\ Progress(t) >= Progress(r) + 1
  <2>1. t = [st |-> s, pos |-> pos + h, out |-> r.out]
    BY <1>1, <1>4
  <2> HIDE DEF t
  <2>2. t \in Turnings /\ t.st = s /\ t.pos = pos + h /\ t.out = r.out
    BY <1>1, <1>4, <2>1 DEF Turnings
  <2>3. ReaderAt(m, s, D, PlaceIn(c, o, pos + h))
    BY <1>3, <1>4 DEF ReaderAt
  <2>4. Turning(m, c, o, d, t)
    BY <1>4, <2>2, <2>3 DEF Turning
  <2>5. Progress(r) = 2 * pos + More(st) /\ Progress(t) = 2 * (pos + h) + More(s)
    BY <2>2 DEF Progress
  <2>6. 2 * (pos + h) + More(s) >= 2 * pos + More(st) + 1
    <3>1. More(s) \in {0, 1} /\ More(st) \in {0, 1} /\ h >= 1
      OBVIOUS
    <3> HIDE DEF More, pos, st
    <3> QED BY <1>1, <3>1
  <2> QED BY <2>2, <2>4, <2>5, <2>6
<1>5. CASE /\ Opening(m, st, D, PlaceIn(c, o, pos)) /\ missing \in Nat \ {0}
           /\ LET h == Min2(missing, left)
                  u == [st EXCEPT !.prefix = @ \o Ahead(h)]
              IN  t = [r EXCEPT !.pos = @ + h, !.st = IF missing = h THEN ReadPrefix(u) ELSE u]
  <2> DEFINE h == Min2(missing, left)
             u == [st EXCEPT !.prefix = @ \o Ahead(h)]
             s == IF missing = h THEN ReadPrefix(u) ELSE u
             x == Len(st.prefix)
             P == FRAME_PREFIX_SIZE
             w == Bytes(CurrentFrame(m, D), 1, x + h)
             v == [st EXCEPT !.prefix = w]
  <2>1. t = [r EXCEPT !.pos = @ + h, !.st = s]
    BY <1>5
  <2>2. /\ h \in Nat \ {0} /\ h <= missing /\ h <= left
    <3> HIDE DEF missing, left
    <3> QED BY <1>1, <1>5 DEF Min2
  <2>3. x \in Nat /\ P \in Nat /\ P - x = missing
    BY SizesOK DEF Readers
  <2>4. pos + h <= Len(c)
    <3> HIDE DEF h
    <3> QED BY <1>1, <2>2
  <2>5. x + h <= P /\ x + h >= 1 /\ (x + h = P <=> missing = h) /\ x + h \in Nat
    <3> HIDE DEF h, x, P, missing
    <3> QED BY <2>2, <2>3
  <2>6. /\ Len(D) + 1 \in 1..Len(m) /\ st.prefix \o Ahead(h) = w
        /\ PlaceIn(c, o, pos + h) = <<Len(D), x + h + 1>>
    <3> HIDE DEF h, st, pos, D
    <3>1. Len(st.prefix) + h <= FRAME_PREFIX_SIZE
      BY <2>5 DEF x, P
    <3>2. /\ st \in Readers /\ D \in Seq(Msgs) /\ pos \in Nat /\ Len(D) <= Len(m)
          /\ Opening(m, st, D, PlaceIn(c, o, pos))
      BY <1>1, <1>3, <1>5
    <3>3. h \in Nat \ {0}
      BY <2>2
    <3>4. MorePrefixed(m, c, o, pos, st, D, h)
      BY <2>4, <3>1, <3>2, <3>3, MorePrefix
    <3> QED BY <3>4 DEF MorePrefixed, w, x
  <2>7. u = v
    <3> HIDE DEF w, h, st
    <3> QED BY <2>6
  <2> HIDE DEF h, u, missing, st, D, pos, x
  <2>8. CASE missing = h
    <3>1. w = Bytes(CurrentFrame(m, D), 1, P) /\ PlaceIn(c, o, pos + h) = <<Len(D), P + 1>>
      BY <2>5, <2>6, <2>8
    <3>2. s = ReadPrefix([st EXCEPT !.prefix = Bytes(CurrentFrame(m, D), 1, P)])
      BY <2>7, <2>8, <3>1
    <3> HIDE DEF s
    <3>3. s \in Readers /\ Inside(m, s, D, <<Len(D), P + 1>>)
      BY <1>1, <1>5, <2>6, <3>2, PrefixComplete
    <3> QED BY <1>4, <2>1, <2>2, <2>4, <3>1, <3>3
  <2>9. CASE missing # h
    <3>1. s = v
      BY <2>7, <2>9
    <3> DEFINE y == x + h
    <3>2. y \in 1..(FRAME_PREFIX_SIZE - 1)
      BY <2>3, <2>5, <2>9
    <3>3. v = [st EXCEPT !.prefix = Bytes(CurrentFrame(m, D), 1, y)]
      OBVIOUS
    <3>4. PlaceIn(c, o, pos + h) = <<Len(D), y + 1>>
      BY <2>6
    <3> HIDE DEF s, v, y
    <3>5. v \in Readers /\ Opening(m, v, D, <<Len(D), y + 1>>)
      BY <1>1, <1>5, <2>6, <3>2, <3>3, StillOpening
    <3> QED BY <1>4, <2>1, <2>2, <2>4, <3>1, <3>4, <3>5
  <2> QED BY <2>8, <2>9
<1>6. CASE /\ Inside(m, st, D, PlaceIn(c, o, pos)) /\ unread \in Nat \ {0}
           /\ LET h == Min2(unread, left)
              IN  t = [r EXCEPT !.pos = @ + h,
                                !.st = [st EXCEPT !.payload = @ \o Ahead(h), !.body = @ - h]]
  <2> DEFINE h == Min2(unread, left)
             s == [st EXCEPT !.payload = @ \o Ahead(h), !.body = @ - h]
  <2>1. t = [r EXCEPT !.pos = @ + h, !.st = s]
    BY <1>6
  <2>2. h \in Nat \ {0} /\ h <= unread /\ h <= left
    <3> HIDE DEF unread, left
    <3> QED BY <1>1, <1>6 DEF Min2
  <2>3. pos + h <= Len(c)
    <3> HIDE DEF h
    <3> QED BY <1>1, <2>2
  <2> HIDE DEF h, D, pos
  <2>4. s \in Readers /\ Inside(m, s, D, PlaceIn(c, o, pos + h))
    <3>1. h <= st.frame.payload_len - Len(st.payload)
      BY <2>2
    <3> HIDE DEF st
    <3> QED BY <1>1, <1>6, <2>2, <2>3, <3>1, TurnInPayload
  <2> HIDE DEF s
  <2> QED BY <1>4, <2>1, <2>2, <2>3, <2>4
<1>7. CASE /\ Inside(m, st, D, PlaceIn(c, o, pos)) /\ unread = 0 /\ st.body > left
           /\ t = [r EXCEPT !.pos = @ + left, !.st = [st EXCEPT !.body = @ - left]]
  <2> DEFINE h == left
             s == [st EXCEPT !.body = @ - h]
  <2>1. t = [r EXCEPT !.pos = @ + h, !.st = s]
    BY <1>7
  <2>2. h \in Nat \ {0} /\ pos + h <= Len(c) /\ h < st.body
    <3>1. st.body \in Nat
      BY <1>1 DEF Readers
    <3> HIDE DEF st
    <3> QED BY <1>1, <1>7, <3>1
  <2>3. st.frame.payload_len = Len(st.payload)
    <3> HIDE DEF st, D, pos
    <3> QED BY <1>1, <1>7, AllRead
  <2> HIDE DEF h, D, pos, st
  <2>4. s \in Readers /\ Inside(m, s, D, PlaceIn(c, o, pos + h))
    BY <1>1, <1>7, <2>2, <2>3, TurnInPadding
  <2> HIDE DEF s
  <2> QED BY <1>4, <2>1, <2>2, <2>4
<1>8. CASE /\ Inside(m, st, D, PlaceIn(c, o, pos)) /\ unread = 0 /\ st.body <= left
           /\ t = [r EXCEPT !.pos = @ + st.body, !.st = ResetFrame(st.next),
                            !.out = @ \o Payload(st, c, pos + st.body)]
  <2> DEFINE b == st.body
             s == ResetFrame(st.next)
             next == m[Len(D) + 1]
  <2>1. b \in Nat /\ pos + b <= Len(c)
    <3>1. b \in Nat
      BY <1>1 DEF Readers
    <3> HIDE DEF st
    <3> QED BY <1>1, <1>8, <3>1
  <2>2. st.frame.payload_len = Len(st.payload)
    <3> HIDE DEF st, D, pos
    <3> QED BY <1>1, <1>8, AllRead
  <2>3. Len(D) + 1 \in 1..Len(m) /\ Len(D) \in Nat /\ Len(st.prefix) = FRAME_PREFIX_SIZE
    BY <1>1, <1>8, InsideParts
  <2>4. next \in Msgs
    BY <2>3, ElementOfSeq
  <2> HIDE DEF next
  <2>5. r.out \o <<next>> \in Seq(Msgs) /\ d \o (r.out \o <<next>>) = D \o <<next>>
        /\ D \o <<next>> \in Seq(Msgs) /\ <<next>> \in Seq(Msgs)
    <3>1. <<next>> \in Seq(Msgs)
      BY <2>4
    <3>2. d \o (r.out \o <<next>>) = D \o <<next>>
      BY <1>1, <3>1, ConcatAssociative
    <3> QED BY <1>1, <3>1, <3>2
  <2> DEFINE e == D \o <<next>>
  <2>6. /\ Len(e) = Len(D) + 1 /\ e[Len(D) + 1] = next
        /\ \A j \in 1..Len(D) : e[j] = D[j]
    <3> HIDE DEF D
    <3> QED BY <1>1, <2>3, <2>4
  <2>7. Len(e) <= Len(m) /\ \A j \in 1..Len(e) : e[j] = m[j]
    <3>1. \A j \in 1..(Len(D) + 1) : j \in 1..Len(D) \/ j = Len(D) + 1
      <4> DEFINE x == Len(D)
      <4>1. x \in Nat
        BY <2>3
      <4> HIDE DEF x
      <4>2. \A j \in 1..(x + 1) : j \in 1..x \/ j = x + 1
        BY <4>1
      <4> QED BY <4>2 DEF x
    <3>2. \A j \in 1..Len(D) : e[j] = m[j]
      <4> HIDE DEF e, D
      <4> QED BY <1>3, <2>6
    <3>3. e[Len(D) + 1] = m[Len(D) + 1]
      BY <2>6 DEF next
    <3>4. Len(e) <= Len(m)
      <4> HIDE DEF e, D
      <4> QED BY <2>3, <2>6
    <3> HIDE DEF e, D
    <3> QED BY <2>6, <3>1, <3>2, <3>3, <3>4
  <2>8. /\ s \in Readers /\ Payload(st, c, pos + b) = <<next>>
        /\ Opening(m, s, e, PlaceIn(c, o, pos + b))
    <3> HIDE DEF e, D, st, pos
    <3>1. e \in Seq(Msgs)
      BY <2>5 DEF e
    <3>2. /\ s \in Readers /\ Payload(st, c, pos + st.body) = <<m[Len(D) + 1]>>
          /\ \A z \in Seq(Msgs) : Len(z) = Len(D) + 1 =>
               Opening(m, ResetFrame(st.next), z, PlaceIn(c, o, pos + st.body))
      BY <1>1, <1>8, <2>1, <2>2, TurnAtEnd
    <3> QED BY <2>6, <3>1, <3>2 DEF next
  <2>9. t = [r EXCEPT !.pos = @ + b, !.st = s, !.out = @ \o <<next>>]
    BY <1>8, <2>8
  <2>10. t = [st |-> s, pos |-> pos + b, out |-> r.out \o <<next>>]
    <3>1. r = [st |-> r.st, pos |-> r.pos, out |-> r.out]
      BY DEF Turnings
    <3> HIDE DEF s, t, b, st
    <3> QED BY <2>9, <3>1
  <2>11. ~ IsWhole(s)
    <3>1. s.prefix = <<>> /\ FRAME_PREFIX_SIZE # 0
      BY SizesOK DEF ResetFrame
    <3> QED BY <3>1 DEF IsWhole
  <2>12. IsWhole(st) <=> b = 0
    BY <2>2, <2>3 DEF IsWhole
  <2> HIDE DEF s, t, e, D, b, st, pos
  <2>13. t \in Turnings /\ t.st = s /\ t.pos = pos + b /\ t.out = r.out \o <<next>>
    <3>1. s \in Readers /\ pos + b \in Nat /\ r.out \o <<next>> \in Seq(Msgs)
      BY <1>1, <2>1, <2>5, <2>8
    <3> QED BY <2>10, <3>1 DEF Turnings
  <2>14. ReaderAt(m, s, e, PlaceIn(c, o, pos + b))
    BY <2>7, <2>8 DEF ReaderAt
  <2>15. d \o t.out = e
    BY <2>5, <2>13 DEF e
  <2>16. Turning(m, c, o, d, t)
    BY <2>1, <2>13, <2>14, <2>15 DEF Turning
  <2>17. Progress(t) = 2 * (pos + b) + 1
    BY <2>11, <2>13 DEF Progress
  <2>18. Progress(r) = 2 * pos + (IF b = 0 THEN 0 ELSE 1)
    BY <2>12 DEF Progress, pos, st
  <2>19. Progress(t) >= Progress(r) + 1
    <3>1. pos \in Nat /\ b \in Nat
      BY <1>1, <2>1
    <3> DEFINE before == 2 * pos + (IF b = 0 THEN 0 ELSE 1)
               after  == 2 * (pos + b) + 1
    <3>2. after >= before + 1
      <4>1. CASE b = 0
        BY <3>1, <4>1
      <4>2. CASE b # 0
        <5>1. 2 * (pos + b) + 1 >= 2 * pos + 1 + 1
          BY <3>1, <4>2
        <5> QED BY <4>2, <5>1
      <4> QED BY <4>1, <4>2
    <3>3. Progress(t) = after /\ Progress(r) = before
      BY <2>17, <2>18
    <3> HIDE DEF after, before
    <3> QED BY <3>2, <3>3
  <2> QED BY <2>13, <2>16, <2>19 DEF t
<1>9. /\ r \in Turnings /\ pos < Len(c) /\ D \in Seq(Msgs)
  BY <1>1
<1> HIDE DEF D
<1>10. TurnCase(m, c, o, D, r)
  BY <1>2, <1>9, TurnCases
<1> QED BY <1>5, <1>6, <1>7, <1>8, <1>10 DEF TurnCase

\* Progress is a number, twice the bytes read or one more.
LEMMA ProgressProperty ==
  ASSUME NEW r \in Turnings
  PROVE  /\ r.pos \in Nat /\ Progress(r) \in Nat
         /\ Progress(r) >= 2 * r.pos /\ Progress(r) <= 2 * r.pos + 1
<1> DEFINE pos == r.pos
           more == IF IsWhole(r.st) THEN 0 ELSE 1
<1>1. pos \in Nat /\ more \in {0, 1} /\ Progress(r) = 2 * pos + more
  BY DEF Turnings, Progress
<1> HIDE DEF pos, more
<1> QED BY <1>1 DEF pos

\* The loop of HandleRead is not left for a reader that has aborted.
LEMMA NeverAborts ==
  ASSUME NEW m, NEW st, NEW d \in Seq(Msgs), NEW p, ReaderAt(m, st, d, p)
  PROVE  ~ Aborts(st)
<1>1. st.next = Len(d) \/ st.next = Len(d) + 1
  BY DEF ReaderAt, Opening, Inside
<1>2. Len(d) \in Nat
  OBVIOUS
<1>3. st.next # -1
  <2> DEFINE i == Len(d)
  <2> HIDE DEF i
  <2> QED BY <1>1, <1>2 DEF i
<1> QED BY <1>3 DEF Aborts

\* A turn, while there is something to read.
ReadOn(c, r) == IF r.pos < Len(c) /\ ~ Aborts(r.st) THEN ReadTurn(c, r) ELSE r

\* Twice as many turns as there are bytes read all of them.
LEMMA ChunkRead ==
  ASSUME NEW m \in Seq(Msgs), NEW c \in Seq(Octets), NEW o, Run(m, c, o),
         NEW d \in Seq(Msgs), rx \in Readers, ReaderAt(m, rx, d, o)
  PROVE  /\ ReadChunk(c) \in Turnings
         /\ ReaderAt(m, ReadChunk(c).st, d \o ReadChunk(c).out, End(c, o))
<1> DEFINE len == Len(c)
           n == 2 * len
           a == [st |-> rx, pos |-> 0, out |-> <<>>]
           T == [i \in 0..n |-> {r \in Turnings : /\ Turning(m, c, o, d, r)
                                                  /\ r.pos = len \/ Progress(r) >= i}]
           g == [x \in (1..n) \X Turnings |-> ReadOn(c, x[2])]
           after == CHOOSE f : f = [i \in 0..n |-> IF i = 0 THEN a ELSE ReadOn(c, f[i - 1])]
<1>1. len \in Nat /\ n \in Nat
  OBVIOUS
<1>2. ReadChunk(c) = after[n]
  BY Zenon DEF ReadChunk, ReadOn
<1>3. a \in Turnings /\ a.st = rx /\ a.pos = 0 /\ a.out = <<>>
  <2>1. <<>> \in Seq(Msgs) /\ 0 \in Nat
    OBVIOUS
  <2> QED BY <2>1 DEF Turnings
<1> HIDE DEF a
<1>4. Turning(m, c, o, d, a)
  <2>1. d \o <<>> = d /\ PlaceIn(c, o, 0) = o
    BY ConcatEmptySeq DEF PlaceIn
  <2>2. a.pos <= Len(c)
    BY <1>1, <1>3
  <2> QED BY <1>3, <2>1, <2>2 DEF Turning
<1>5. a \in T[0]
  <2>1. Progress(a) >= 0
    BY <1>3, ProgressProperty
  <2>2. 0 \in 0..n
    BY <1>1
  <2> HIDE DEF n, len
  <2> QED BY <1>3, <1>4, <2>1, <2>2
<1> HIDE DEF n
<1>6. ASSUME NEW i \in 1..n, NEW r \in T[i - 1] PROVE ReadOn(c, r) \in T[i]
  <2>1. i \in Nat /\ i - 1 \in 0..n /\ i \in 0..n
    BY <1>1
  <2>2. r \in Turnings /\ Turning(m, c, o, d, r) /\ (r.pos = len \/ Progress(r) >= i - 1)
    BY <2>1
  <2>3. r.pos \in Nat /\ r.pos <= len /\ Progress(r) \in Nat
    BY <2>2, ProgressProperty DEF Turning
  <2>4. CASE r.pos = len
    <3>1. ~ (r.pos < len)
      BY <1>1, <2>4
    <3>2. ReadOn(c, r) = r
      BY <3>1 DEF ReadOn
    <3> HIDE DEF len
    <3> QED BY <2>1, <2>2, <2>4, <3>2
  <2>5. CASE r.pos # len
    <3>1. r.pos < len
      BY <1>1, <2>3, <2>5
    <3>2. ~ Aborts(r.st)
      <4>1. d \o r.out \in Seq(Msgs)
        BY <2>2 DEF Turnings
      <4> QED BY <2>2, <4>1, NeverAborts DEF Turning
    <3> DEFINE t == ReadTurn(c, r)
    <3>3. ReadOn(c, r) = t
      BY <3>1, <3>2 DEF ReadOn
    <3>4. t \in Turnings /\ Turning(m, c, o, d, t) /\ Progress(t) >= Progress(r) + 1
      BY <2>2, <3>1, TurnKeeps
    <3> HIDE DEF t, len
    <3>5. Progress(t) \in Nat
      BY <3>4, ProgressProperty
    <3>6. Progress(t) >= i
      BY <2>1, <2>2, <2>3, <2>5, <3>4, <3>5
    <3> QED BY <2>1, <3>3, <3>4, <3>6
  <2> QED BY <2>4, <2>5
<1>7. ASSUME NEW i \in 1..n, NEW r \in T[i - 1] PROVE g[<<i, r>>] = ReadOn(c, r)
  <2>1. i - 1 \in 0..n
    BY <1>1
  <2>2. r \in Turnings
    BY <2>1
  <2> QED BY <2>2
<1>8. T \in [0..n -> SUBSET Turnings]
  <2> HIDE DEF len
  <2> QED OBVIOUS
<1>9. \A i \in 1..n : \A r \in T[i - 1] : g[<<i, r>>] \in T[i]
  <2> HIDE DEF T, g
  <2> QED BY <1>6, <1>7
<1> HIDE DEF T, g
<1>10. PICK f : IsCourse(f, n, Turnings, T, a, g)
  BY <1>1, <1>5, <1>8, <1>9, CourseExists
<1>11. \A i \in 1..n : f[i] = ReadOn(c, f[i - 1])
  <2> TAKE i \in 1..n
  <2>1. f[i - 1] \in T[i - 1]
    <3>1. i - 1 \in 0..n
      BY <1>1
    <3> QED BY <1>10, <3>1 DEF IsCourse
  <2> QED BY <1>7, <1>10, <2>1 DEF IsCourse
<1>12. f = [i \in 0..n |-> IF i = 0 THEN a ELSE ReadOn(c, f[i - 1])]
  BY <1>1, <1>10, <1>11 DEF IsCourse
<1>13. after = [i \in 0..n |-> IF i = 0 THEN a ELSE ReadOn(c, after[i - 1])]
  BY <1>12
<1> HIDE DEF after
<1> DEFINE G == {i \in 0..n : after[i] \in T[i]}
<1>14. 0 \in G
  BY <1>1, <1>5, <1>13
<1>15. ASSUME NEW i \in 1..n, i - 1 \in G PROVE i \in G
  <2>1. after[i] = ReadOn(c, after[i - 1]) /\ i \in 0..n
    BY <1>1, <1>13
  <2> QED BY <1>6, <1>15, <2>1
<1> HIDE DEF G
<1>16. n \in G
  <2>1. n \in 0..n
    BY <1>1
  <2> QED BY <1>1, <1>14, <1>15, <2>1, InductionUpTo
<1> DEFINE r == after[n]
<1>17. r \in Turnings /\ Turning(m, c, o, d, r) /\ (r.pos = len \/ Progress(r) >= n)
  <2>1. n \in 0..n /\ after[n] \in T[n]
    BY <1>1, <1>16 DEF G
  <2> HIDE DEF len
  <2> QED BY <2>1 DEF T
<1> HIDE DEF r
<1>18. r.pos = len
  <2>1. /\ r.pos \in Nat /\ Progress(r) \in Nat /\ Progress(r) <= 2 * r.pos + 1
        /\ r.pos <= len
    BY <1>17, ProgressProperty DEF Turning
  <2> SUFFICES ASSUME Progress(r) >= n PROVE r.pos = len
    BY <1>17
  <2> DEFINE pos == r.pos
  <2>2. pos \in Nat /\ n = 2 * len /\ pos <= len /\ 2 * pos + 1 >= n
    BY <1>1, <2>1 DEF n
  <2> HIDE DEF pos, len
  <2> QED BY <1>1, <2>2 DEF pos
<1> HIDE DEF after
<1>19. ReaderAt(m, r.st, d \o r.out, End(c, o))
  BY <1>17, <1>18 DEF Turning, End
<1> QED BY <1>2, <1>17, <1>19 DEF r

-----------------------------------------------------------------------------
(* The invariant of a connection *)

Sockets == {"none", "connecting", "up"}

FramingTypes ==
  /\ running \in BOOLEAN /\ reading \in BOOLEAN /\ socket \in Sockets
  /\ pending \in Seq(Seq(Msgs))
  /\ txQueue \in Seq(Packet) /\ frameSeq \in Nat
  /\ stream \in Seq(Octets) /\ Len(stream) <= TxBuffer
  /\ rx \in Readers
  /\ accepted \in Seq(Msgs) /\ delivered \in Seq(Msgs)

\* Nothing is written before the socket is connected, and what waits for it
\* is what was sent; afterwards frames are numbered like messages.
SocketInv ==
  /\ running /\ socket # "up" =>
       /\ txQueue = <<>> /\ frameSeq = 0 /\ stream = <<>>
       /\ delivered = <<>> /\ rx = ResetFrame(0)
  /\ running /\ socket = "none" => pending = NoPending /\ accepted = <<>>
  /\ running /\ socket = "connecting" => pending = <<accepted>>
  /\ running /\ socket = "up" => pending = NoPending /\ frameSeq = Len(accepted)
  /\ ~ running => socket = "none"

HandledSoFar ==
  Len(delivered) <= Len(accepted) /\ \A i \in 1..Len(delivered) : delivered[i] = accepted[i]

\* The stream starts at place p, where the reader is; the queue goes on
\* where the stream ends, as far as the next frame to be made.
InPlace(p) ==
  /\ Run(accepted, stream, p)
  /\ socket = "up" => /\ Chain(accepted, txQueue, End(stream, p))
                      /\ ChainEnd(txQueue, End(stream, p)) = <<frameSeq, 1>>
  /\ IF reading THEN ReaderAt(accepted, rx, delivered, p) ELSE rx = ResetFrame(0)

FramingInv == FramingTypes /\ SocketInv /\ HandledSoFar /\ \E p : InPlace(p)

\* A fresh reader waits for the first frame.
LEMMA FreshReader ==
  ASSUME NEW m \in Seq(Msgs)
  PROVE  ResetFrame(0) \in Readers /\ ReaderAt(m, ResetFrame(0), <<>>, <<0, 1>>)
<1> DEFINE st == ResetFrame(0)
<1>1. /\ st = [prefix |-> <<>>, frame |-> NoFrame, payload |-> <<>>, body |-> 0, next |-> 0]
      /\ <<>> \in Seq(Octets) /\ 0 \in Nat /\ 0 \in Int
  BY DEF ResetFrame
<1>2. /\ st.prefix = <<>> /\ st.frame = NoFrame /\ st.payload = <<>> /\ st.body = 0
      /\ st.next = 0
  BY <1>1
<1>3. st \in Readers
  <2> HIDE DEF st
  <2>1. NoFrame \in Frames \cup {NoFrame}
    OBVIOUS
  <2> QED BY <1>1, <2>1 DEF Readers
<1> HIDE DEF st
<1>4. Len(<<>>) = 0 /\ 0 < FRAME_PREFIX_SIZE /\ 0 + 1 = 1 /\ Len(m) \in Nat
  BY SizesOK
<1>5. Opening(m, st, <<>>, <<0, 1>>)
  BY <1>2, <1>4 DEF Opening
<1>6. Len(<<>>) <= Len(m) /\ \A j \in 1..Len(<<>>) : <<>>[j] = m[j]
  BY <1>4
<1>7. ReaderAt(m, st, <<>>, <<0, 1>>)
  BY <1>5, <1>6 DEF ReaderAt
<1> QED BY <1>3, <1>7 DEF st

\* When more is sent, the reader is where it was.
LEMMA ReaderLonger ==
  ASSUME NEW m \in Seq(Msgs), NEW msg \in Msgs, NEW st, NEW d \in Seq(Msgs), NEW p,
         ReaderAt(m, st, d, p)
  PROVE  ReaderAt(Append(m, msg), st, d, p)
<1> DEFINE n == Append(m, msg)
           i == Len(d)
<1>1. /\ i \in Nat /\ Len(m) \in Nat /\ Len(n) = Len(m) + 1
      /\ \A j \in 1..Len(m) : n[j] = m[j]
  OBVIOUS
<1>2. i <= Len(m) /\ \A j \in 1..i : d[j] = m[j]
  BY DEF ReaderAt
<1> HIDE DEF n, i
<1>3. i <= Len(n) /\ \A j \in 1..i : d[j] = n[j]
  <2>1. \A j \in 1..i : j \in 1..Len(m)
    BY <1>1, <1>2
  <2> QED BY <1>1, <1>2, <2>1
<1>4. i < Len(m) => i < Len(n) /\ n[i + 1] = m[i + 1]
  BY <1>1
<1>5. CASE Opening(m, st, d, p)
  <2>1. Opening(n, st, d, p)
    BY <1>4, <1>5 DEF Opening, i
  <2> QED BY <1>3, <2>1 DEF ReaderAt, n, i
<1>6. CASE Inside(m, st, d, p)
  <2>1. Inside(n, st, d, p)
    BY <1>4, <1>6 DEF Inside, i
  <2> QED BY <1>3, <2>1 DEF ReaderAt, n, i
<1> QED BY <1>5, <1>6 DEF ReaderAt

\* Initially.
LEMMA FramingStart ==
  ASSUME FramingInit
  PROVE  FramingInv
<1>1. /\ running = TRUE /\ reading = TRUE /\ txQueue = <<>> /\ frameSeq = 0 /\ stream = <<>>
      /\ rx = ResetFrame(0) /\ accepted = <<>> /\ delivered = <<>>
      /\ \/ socket = "none" /\ pending = <<>>
         \/ socket = "connecting" /\ pending = << <<>> >>
  BY DEF FramingInit, NoPending
<1>2. <<>> \in Seq(Msgs) /\ << <<>> >> \in Seq(Seq(Msgs)) /\ <<>> \in Seq(Seq(Msgs))
  OBVIOUS
<1>3. Len(<<>>) = 0 /\ TxBuffer \in Nat /\ 0 \in Nat
  BY SizesOK
<1>4. ResetFrame(0) \in Readers /\ ReaderAt(<<>>, ResetFrame(0), <<>>, <<0, 1>>)
  BY <1>2, FreshReader
<1>5. FramingTypes
  <2>1. <<>> \in Seq(Packet) /\ <<>> \in Seq(Octets) /\ 0 <= TxBuffer
    BY <1>3
  <2> QED BY <1>1, <1>2, <1>3, <1>4, <2>1 DEF FramingTypes, Sockets
<1>6. SocketInv
  BY <1>1, <1>3 DEF SocketInv, NoPending
<1>7. HandledSoFar
  BY <1>1, <1>3 DEF HandledSoFar
<1>8. InPlace(<<0, 1>>)
  <2>1. Run(accepted, stream, <<0, 1>>)
    BY <1>1, RunEmpty
  <2> QED BY <1>1, <1>4, <2>1 DEF InPlace
<1> QED BY <1>5, <1>6, <1>7, <1>8 DEF FramingInv

\* What Write makes of a queue that goes on where the stream ends.
LEMMA WriteGoesOn ==
  ASSUME FramingTypes, NEW m, NEW queue \in Seq(Packet), NEW p, NEW e, Run(m, stream, p),
         Chain(m, queue, End(stream, p)), ChainEnd(queue, End(stream, p)) = e, Write(queue)
  PROVE  /\ txQueue' \in Seq(Packet) /\ stream' \in Seq(Octets) /\ Len(stream') <= TxBuffer
         /\ Run(m, stream', p) /\ Chain(m, txQueue', End(stream', p))
         /\ ChainEnd(txQueue', End(stream', p)) = e
<1> DEFINE o == End(stream, p)
           w == Written(queue, Room)
<1>1. stream \in Seq(Octets) /\ Len(stream) \in Nat /\ TxBuffer \in Nat /\ Room \in Nat
      /\ Room = TxBuffer - Len(stream)
  BY SizesOK DEF FramingTypes, Room
<1>2. w \in Writings /\ InTurn(m, w, Room, o, e)
  BY <1>1, WrittenInTurn
<1>3. txQueue' = w.queue /\ stream' = stream \o w.bytes
  BY DEF Write
<1>4. /\ Len(w.bytes) <= Room /\ Run(m, w.bytes, o)
      /\ Chain(m, w.queue, End(w.bytes, o)) /\ ChainEnd(w.queue, End(w.bytes, o)) = e
  BY <1>2 DEF InTurn
<1>5. w.queue \in Seq(Packet) /\ w.bytes \in Seq(Octets)
  BY <1>2 DEF Writings
<1> HIDE DEF w
<1>6. Run(m, stream', p) /\ End(stream', p) = End(w.bytes, o)
  BY <1>1, <1>3, <1>4, <1>5, RunJoined, PlaceInJoined
<1>7. stream' \in Seq(Octets) /\ Len(stream') <= TxBuffer
  <2>1. stream' \in Seq(Octets) /\ Len(stream') = Len(stream) + Len(w.bytes)
        /\ Len(w.bytes) \in Nat
    BY <1>1, <1>3, <1>5
  <2> QED BY <1>1, <1>4, <2>1
<1> QED BY <1>3, <1>4, <1>5, <1>6, <1>7

\* EnqueueFrame, for messages that are the next ones of m.
LEMMA FramesGoOn ==
  ASSUME FramingTypes, NEW m \in Seq(Msgs), NEW msgs \in Seq(Msgs), NEW p,
         Run(m, stream, p), Chain(m, txQueue, End(stream, p)),
         ChainEnd(txQueue, End(stream, p)) = <<frameSeq, 1>>,
         frameSeq + Len(msgs) = Len(m), \A i \in 1..Len(msgs) : m[frameSeq + i] = msgs[i],
         EnqueueFrames(msgs)
  PROVE  /\ txQueue' \in Seq(Packet) /\ stream' \in Seq(Octets) /\ Len(stream') <= TxBuffer
         /\ frameSeq' = Len(m)
         /\ Run(m, stream', p) /\ Chain(m, txQueue', End(stream', p))
         /\ ChainEnd(txQueue', End(stream', p)) = <<frameSeq', 1>>
<1> DEFINE more == Framed(msgs, frameSeq)
           o == End(stream, p)
<1>1. frameSeq \in Nat /\ Len(msgs) \in Nat /\ txQueue \in Seq(Packet) /\ frameSeq + Len(msgs) <= Len(m)
  BY DEF FramingTypes
<1>2. /\ more \in Seq(Packet) /\ Chain(m, more, <<frameSeq, 1>>)
      /\ ChainEnd(more, <<frameSeq, 1>>) = <<frameSeq + Len(msgs), 1>>
  BY <1>1, FramedChain
<1>3. Write(txQueue \o more) /\ frameSeq' = frameSeq + Len(msgs)
  BY DEF EnqueueFrames, Framed
<1> HIDE DEF more
<1>4. /\ txQueue \o more \in Seq(Packet) /\ Chain(m, txQueue \o more, o)
      /\ ChainEnd(txQueue \o more, o) = <<frameSeq', 1>>
  <2> DEFINE here == <<frameSeq, 1>>
             there == <<frameSeq', 1>>
  <2>1. /\ Chain(m, txQueue, o) /\ ChainEnd(txQueue, o) = here
        /\ Chain(m, more, here) /\ ChainEnd(more, here) = there
    BY <1>2, <1>3
  <2> HIDE DEF here, there, o
  <2>2. /\ Chain(m, txQueue \o more, o) <=> Chain(m, txQueue, o) /\ Chain(m, more, ChainEnd(txQueue, o))
        /\ ChainEnd(txQueue \o more, o) = ChainEnd(more, ChainEnd(txQueue, o))
    BY <1>1, <1>2, ChainJoined
  <2>3. txQueue \o more \in Seq(Packet)
    BY <1>1, <1>2
  <2>4. Chain(m, txQueue \o more, o) /\ ChainEnd(txQueue \o more, o) = there
    BY <2>1, <2>2
  <2> QED BY <2>3, <2>4 DEF there
<1> DEFINE queue == txQueue \o more
<1>5. /\ queue \in Seq(Packet) /\ Chain(m, queue, o) /\ ChainEnd(queue, o) = <<frameSeq', 1>>
      /\ Write(queue)
  BY <1>3, <1>4
<1> HIDE DEF queue
<1> QED BY <1>3, <1>5, WriteGoesOn

\* What has been handled is still what was sent when more is.
LEMMA HandledLonger ==
  ASSUME FramingInv, NEW msg \in Msgs, accepted' = Append(accepted, msg),
         UNCHANGED delivered
  PROVE  HandledSoFar' /\ accepted' \in Seq(Msgs)
<1>1. /\ accepted \in Seq(Msgs) /\ delivered \in Seq(Msgs)
      /\ Len(delivered) <= Len(accepted)
      /\ \A i \in 1..Len(delivered) : delivered[i] = accepted[i]
  BY DEF FramingInv, FramingTypes, HandledSoFar
<1>2. /\ Len(accepted') = Len(accepted) + 1 /\ accepted' \in Seq(Msgs)
      /\ \A i \in 1..Len(accepted) : accepted'[i] = accepted[i]
      /\ Len(accepted) \in Nat /\ Len(delivered) \in Nat
  BY <1>1
<1>3. \A i \in 1..Len(delivered) : i \in 1..Len(accepted)
  BY <1>1, <1>2
<1>4. Len(delivered) <= Len(accepted')
  BY <1>1, <1>2
<1> QED BY <1>1, <1>2, <1>3, <1>4 DEF HandledSoFar

\* SendSerialized, three ways: a message waits, asks for a connection, or is
\* put in a frame.
LEMMA SendKeeps ==
  ASSUME FramingInv, NEW msg \in Msgs, SendSerialized(msg)
  PROVE  FramingInv'
<1> DEFINE m == Append(accepted, msg)
<1>1. /\ FramingTypes /\ SocketInv
      /\ running = TRUE /\ accepted' = m
      /\ running' = running /\ reading' = reading /\ rx' = rx /\ delivered' = delivered
  BY DEF FramingInv, FramingTypes, SendSerialized
<1>2. /\ accepted \in Seq(Msgs) /\ delivered \in Seq(Msgs) /\ stream \in Seq(Octets)
      /\ txQueue \in Seq(Packet) /\ frameSeq \in Nat /\ Len(accepted) \in Nat
      /\ Len(stream) <= TxBuffer /\ rx \in Readers /\ pending \in Seq(Seq(Msgs))
      /\ reading \in BOOLEAN /\ socket \in Sockets
  BY <1>1 DEF FramingTypes
<1>3. HandledSoFar' /\ m \in Seq(Msgs)
  BY <1>1, HandledLonger
<1>4. PICK p : InPlace(p)
  BY DEF FramingInv
<1>5. /\ Run(accepted, stream, p)
      /\ socket = "up" => /\ Chain(accepted, txQueue, End(stream, p))
                          /\ ChainEnd(txQueue, End(stream, p)) = <<frameSeq, 1>>
      /\ IF reading THEN ReaderAt(accepted, rx, delivered, p) ELSE rx = ResetFrame(0)
  BY <1>4 DEF InPlace
<1>6. Run(m, stream, p)
  <2>1. \A j \in 1..Len(stream) : stream[j] \in Octets
    BY <1>2, ElementOfSeq
  <2> QED BY <1>2, <1>5, <2>1, RunLonger
<1>7. IF reading' THEN ReaderAt(m, rx', delivered', p) ELSE rx' = ResetFrame(0)
  <2>1. CASE reading
    <3>1. ReaderAt(accepted, rx, delivered, p)
      BY <1>5, <2>1
    <3>2. ReaderAt(Append(accepted, msg), rx, delivered, p)
      BY <1>2, <3>1, ReaderLonger
    <3> QED BY <1>1, <2>1, <3>2
  <2>2. CASE ~ reading
    BY <1>1, <1>5, <2>2
  <2> QED BY <2>1, <2>2
<1>8. Len(m) = Len(accepted) + 1
  BY <1>2
<1>9. CASE /\ pending # NoPending /\ pending' = KeepPending(msg)
           /\ UNCHANGED <<socket, attempts, txQueue, frameSeq, stream>>
  <2>1. socket = "connecting" /\ pending = <<accepted>>
    BY <1>1, <1>2, <1>9 DEF SocketInv, Sockets
  <2>2. pending' = <<m>>
    BY <1>9, <2>1 DEF KeepPending
  <2>3. <<m>> \in Seq(Seq(Msgs))
    BY <1>3
  <2> HIDE DEF m
  <2>4. FramingTypes'
    BY <1>1, <1>2, <1>3, <1>9, <2>2, <2>3 DEF FramingTypes
  <2>5. SocketInv'
    BY <1>1, <1>9, <2>1, <2>2 DEF SocketInv
  <2>6. InPlace(p)'
    BY <1>1, <1>6, <1>7, <1>9, <2>1 DEF InPlace
  <2> QED BY <1>3, <2>4, <2>5, <2>6 DEF FramingInv
<1>10. CASE /\ pending = NoPending /\ socket = "none" /\ pending' = << <<msg>> >>
            /\ socket' = "connecting"
            /\ UNCHANGED <<txQueue, frameSeq, stream>>
  <2>1. accepted = <<>>
    BY <1>1, <1>10 DEF SocketInv
  <2>2. m = <<msg>>
    BY <2>1
  <2>3. <<m>> \in Seq(Seq(Msgs)) /\ pending' = <<m>>
    BY <1>3, <1>10, <2>2
  <2> HIDE DEF m
  <2>4. FramingTypes'
    BY <1>1, <1>2, <1>3, <1>10, <2>3 DEF FramingTypes, Sockets
  <2>5. SocketInv'
    BY <1>1, <1>10, <2>3 DEF SocketInv
  <2>6. InPlace(p)'
    BY <1>1, <1>6, <1>7, <1>10 DEF InPlace
  <2> QED BY <1>3, <2>4, <2>5, <2>6 DEF FramingInv
<1>11. CASE /\ pending = NoPending /\ socket # "none" /\ EnqueueFrames(<<msg>>)
            /\ UNCHANGED <<socket, attempts, pending>>
  <2>1. socket = "up" /\ frameSeq = Len(accepted)
    BY <1>1, <1>2, <1>11 DEF SocketInv, Sockets, NoPending
  <2>2. <<msg>> \in Seq(Msgs) /\ Len(<<msg>>) = 1 /\ <<msg>>[1] = msg
    OBVIOUS
  <2>3. frameSeq + Len(<<msg>>) = Len(m)
    BY <1>2, <1>8, <2>1, <2>2
  <2>4. \A i \in 1..Len(<<msg>>) : m[frameSeq + i] = <<msg>>[i]
    <3>1. m[Len(accepted) + 1] = msg
      BY <1>2
    <3>2. \A i \in 1..1 : i = 1
      OBVIOUS
    <3> HIDE DEF m
    <3> QED BY <2>1, <2>2, <3>1, <3>2
  <2>5. Chain(m, txQueue, End(stream, p))
    <3> DEFINE o == End(stream, p)
    <3>1. Chain(accepted, txQueue, o)
      BY <1>5, <2>1
    <3> HIDE DEF o
    <3>2. Chain(Append(accepted, msg), txQueue, o)
      BY <1>2, <3>1, ChainLonger
    <3> QED BY <3>2 DEF o
  <2> HIDE DEF m
  <2>6. /\ txQueue' \in Seq(Packet) /\ stream' \in Seq(Octets) /\ Len(stream') <= TxBuffer
        /\ frameSeq' = Len(m)
        /\ Run(m, stream', p) /\ Chain(m, txQueue', End(stream', p))
        /\ ChainEnd(txQueue', End(stream', p)) = <<frameSeq', 1>>
    <3>1. ChainEnd(txQueue, End(stream, p)) = <<frameSeq, 1>>
      BY <1>5, <2>1
    <3> DEFINE msgs == <<msg>>
    <3>2. /\ msgs \in Seq(Msgs) /\ frameSeq + Len(msgs) = Len(m) /\ EnqueueFrames(msgs)
          /\ \A i \in 1..Len(msgs) : m[frameSeq + i] = msgs[i]
      BY <1>11, <2>2, <2>3, <2>4
    <3> HIDE DEF msgs
    <3> QED BY <1>1, <1>3, <1>6, <2>5, <3>1, <3>2, FramesGoOn
  <2>7. FramingTypes'
    <3>1. Len(m) \in Nat
      BY <1>3
    <3> QED BY <1>1, <1>2, <1>3, <1>11, <2>6, <3>1 DEF FramingTypes
  <2>8. SocketInv'
    BY <1>1, <1>11, <2>1, <2>6 DEF SocketInv
  <2>9. InPlace(p)'
    BY <1>1, <1>7, <2>6 DEF InPlace
  <2> QED BY <1>3, <2>7, <2>8, <2>9 DEF FramingInv
<1> QED BY <1>9, <1>10, <1>11 DEF SendSerialized

\* What waited for the connection is written: the stream starts with the
\* first frame.
LEMMA ConnectedKeeps ==
  ASSUME FramingInv, HandleConnectionSucceeded
  PROVE  FramingInv'
<1>1. /\ FramingTypes /\ SocketInv /\ HandledSoFar
      /\ running = TRUE /\ socket = "connecting" /\ socket' = "up"
      /\ EnqueueFrames(pending[1]) /\ pending' = NoPending
      /\ running' = running /\ reading' = reading /\ rx' = rx /\ delivered' = delivered
      /\ accepted' = accepted
  BY DEF FramingInv, FramingTypes, HandleConnectionSucceeded
<1>2. /\ accepted \in Seq(Msgs) /\ delivered \in Seq(Msgs) /\ rx \in Readers
      /\ reading \in BOOLEAN
  BY <1>1 DEF FramingTypes
<1>3. /\ txQueue = <<>> /\ frameSeq = 0 /\ stream = <<>>
      /\ delivered = <<>> /\ rx = ResetFrame(0) /\ pending = <<accepted>>
  BY <1>1 DEF SocketInv
<1> DEFINE p == <<0, 1>>
<1>4. /\ Run(accepted, stream, p) /\ End(stream, p) = p
      /\ Chain(accepted, txQueue, p) /\ ChainEnd(txQueue, p) = p
  <2>1. Chain(accepted, <<>>, p) /\ ChainEnd(<<>>, p) = p
    BY DEF Chain, ChainEnd
  <2> HIDE DEF p
  <2> QED BY <1>3, <2>1, RunEmpty
<1>5. /\ pending[1] = accepted
      /\ frameSeq + Len(accepted) = Len(accepted)
      /\ \A i \in 1..Len(accepted) : accepted[frameSeq + i] = accepted[i]
  <2>1. Len(accepted) \in Nat /\ \A i \in 1..Len(accepted) : 0 + i = i
    BY <1>2
  <2> QED BY <1>3, <2>1
<1>6. p = <<frameSeq, 1>>
  BY <1>3
<1> HIDE DEF p
<1>7. /\ txQueue' \in Seq(Packet) /\ stream' \in Seq(Octets) /\ Len(stream') <= TxBuffer
      /\ frameSeq' = Len(accepted)
      /\ Run(accepted, stream', p) /\ Chain(accepted, txQueue', End(stream', p))
      /\ ChainEnd(txQueue', End(stream', p)) = <<frameSeq', 1>>
  <2>1. EnqueueFrames(accepted)
    BY <1>1, <1>5
  <2>2. /\ Run(accepted, stream, p) /\ Chain(accepted, txQueue, End(stream, p))
        /\ ChainEnd(txQueue, End(stream, p)) = <<frameSeq, 1>>
    BY <1>4, <1>6
  <2> QED BY <1>1, <1>2, <1>5, <2>1, <2>2, FramesGoOn
<1>8. FramingTypes'
  <2>1. Len(accepted) \in Nat /\ NoPending \in Seq(Seq(Msgs))
    BY <1>2 DEF NoPending
  <2> QED BY <1>1, <1>2, <1>7, <2>1 DEF FramingTypes, Sockets
<1>9. SocketInv'
  BY <1>1, <1>7 DEF SocketInv
<1>10. HandledSoFar'
  BY <1>1 DEF HandledSoFar
<1>11. InPlace(p)'
  <2>1. ReaderAt(accepted, rx, delivered, p)
    BY <1>2, <1>3, FreshReader DEF p
  <2> QED BY <1>1, <1>3, <1>7, <2>1 DEF InPlace
<1> QED BY <1>8, <1>9, <1>10, <1>11 DEF FramingInv

\* Nothing has been read, and nothing stays.
LEMMA FailedKeeps ==
  ASSUME FramingInv, HandleConnectionFailed
  PROVE  FramingInv'
<1>1. /\ FramingTypes /\ SocketInv
      /\ running = TRUE /\ socket = "connecting" /\ socket' = "none"
      /\ pending' = NoPending /\ accepted' = delivered
      /\ running' = running /\ reading' = reading /\ rx' = rx /\ delivered' = delivered
      /\ txQueue' = txQueue /\ frameSeq' = frameSeq /\ stream' = stream
  BY DEF FramingInv, FramingTypes, HandleConnectionFailed
<1>2. /\ txQueue = <<>> /\ frameSeq = 0 /\ stream = <<>>
      /\ delivered = <<>> /\ rx = ResetFrame(0)
  BY <1>1 DEF SocketInv
<1>3. delivered \in Seq(Msgs) /\ NoPending \in Seq(Seq(Msgs))
  BY <1>1 DEF FramingTypes, NoPending
<1>4. FramingTypes'
  BY <1>1, <1>3 DEF FramingTypes, Sockets
<1>5. SocketInv'
  BY <1>1, <1>2 DEF SocketInv
<1>6. HandledSoFar'
  BY <1>1, <1>2 DEF HandledSoFar
<1>7. InPlace(<<0, 1>>)'
  <2> DEFINE p == <<0, 1>>
  <2>1. ReaderAt(delivered, rx, delivered, p)
    BY <1>2, <1>3, FreshReader
  <2> HIDE DEF p
  <2>2. Run(delivered, <<>>, p)
    BY RunEmpty
  <2>3. InPlace(p)'
    BY <1>1, <1>2, <2>1, <2>2 DEF InPlace
  <2> QED BY <2>3 DEF p
<1> QED BY <1>4, <1>5, <1>6, <1>7 DEF FramingInv

\* More of the queue is written.
LEMMA SendReadyKeeps ==
  ASSUME FramingInv, HandleSendReady
  PROVE  FramingInv'
<1>1. /\ FramingTypes /\ SocketInv /\ HandledSoFar
      /\ running = TRUE /\ socket = "up" /\ Write(txQueue)
      /\ running' = running /\ socket' = socket /\ pending' = pending
      /\ frameSeq' = frameSeq /\ reading' = reading /\ rx' = rx /\ accepted' = accepted
      /\ delivered' = delivered
  BY DEF FramingInv, FramingTypes, HandleSendReady
<1>2. PICK p : InPlace(p)
  BY DEF FramingInv
<1>3. /\ Run(accepted, stream, p) /\ Chain(accepted, txQueue, End(stream, p))
      /\ ChainEnd(txQueue, End(stream, p)) = <<frameSeq, 1>>
  BY <1>1, <1>2 DEF InPlace
<1>4. /\ txQueue' \in Seq(Packet) /\ stream' \in Seq(Octets) /\ Len(stream') <= TxBuffer
      /\ Run(accepted, stream', p) /\ Chain(accepted, txQueue', End(stream', p))
      /\ ChainEnd(txQueue', End(stream', p)) = <<frameSeq, 1>>
  <2> DEFINE e == <<frameSeq, 1>>
  <2>1. ChainEnd(txQueue, End(stream, p)) = e
    BY <1>3
  <2> HIDE DEF e
  <2>2. txQueue \in Seq(Packet)
    BY <1>1 DEF FramingTypes
  <2>3. /\ txQueue' \in Seq(Packet) /\ stream' \in Seq(Octets) /\ Len(stream') <= TxBuffer
        /\ Run(accepted, stream', p) /\ Chain(accepted, txQueue', End(stream', p))
        /\ ChainEnd(txQueue', End(stream', p)) = e
    BY <1>1, <1>3, <2>1, <2>2, WriteGoesOn
  <2> QED BY <2>3 DEF e
<1>5. FramingTypes'
  BY <1>1, <1>4 DEF FramingTypes
<1>6. SocketInv' /\ HandledSoFar'
  BY <1>1 DEF SocketInv, HandledSoFar
<1>7. InPlace(p)'
  BY <1>1, <1>2, <1>4 DEF InPlace
<1> QED BY <1>5, <1>6, <1>7 DEF FramingInv

\* What has been written stays in the stream.
LEMMA StopKeeps ==
  ASSUME FramingInv, StopApplication
  PROVE  FramingInv'
<1>1. /\ FramingTypes /\ HandledSoFar
      /\ running' = FALSE /\ socket' = "none" /\ pending' = NoPending
      /\ txQueue' = <<>> /\ frameSeq' = 0
      /\ stream' = stream /\ reading' = reading /\ rx' = rx /\ accepted' = accepted
      /\ delivered' = delivered
  BY DEF FramingInv, StopApplication
<1>2. PICK p : InPlace(p)
  BY DEF FramingInv
<1>3. FramingTypes'
  <2>1. NoPending \in Seq(Seq(Msgs)) /\ <<>> \in Seq(Packet)
    BY DEF NoPending
  <2> QED BY <1>1, <2>1 DEF FramingTypes, Sockets
<1>4. SocketInv' /\ HandledSoFar' /\ InPlace(p)'
  BY <1>1, <1>2 DEF SocketInv, HandledSoFar, InPlace
<1> QED BY <1>3, <1>4 DEF FramingInv

\* Nobody reads any more.
LEMMA StopReaderKeeps ==
  ASSUME FramingInv, StopReader
  PROVE  FramingInv'
<1>1. /\ FramingTypes /\ SocketInv /\ HandledSoFar
      /\ reading' = FALSE /\ rx' = ResetFrame(0)
      /\ running' = running /\ socket' = socket /\ pending' = pending
      /\ txQueue' = txQueue /\ frameSeq' = frameSeq /\ stream' = stream
      /\ accepted' = accepted /\ delivered' = delivered
  BY DEF FramingInv, StopReader
<1>2. PICK p : InPlace(p)
  BY DEF FramingInv
<1>3. FramingTypes'
  <2>1. ResetFrame(0) \in Readers
    BY <1>1, FreshReader DEF FramingTypes
  <2> QED BY <1>1, <2>1 DEF FramingTypes
<1>4. SocketInv' /\ HandledSoFar' /\ InPlace(p)'
  BY <1>1, <1>2 DEF SocketInv, HandledSoFar, InPlace
<1> QED BY <1>3, <1>4 DEF FramingInv

\* A chunk and the rest of the stream.
LEMMA ChunkAndRest ==
  ASSUME NEW s \in Seq(Octets), NEW n \in 1..Len(s)
  PROVE  /\ SubSeq(s, 1, n) \in Seq(Octets)
         /\ SubSeq(s, n + 1, Len(s)) \in Seq(Octets)
         /\ Len(SubSeq(s, n + 1, Len(s))) <= Len(s)
         /\ s = SubSeq(s, 1, n) \o SubSeq(s, n + 1, Len(s))
<1>1. Len(s) \in Nat /\ n \in Nat /\ n <= Len(s)
  OBVIOUS
<1>2. SubSeq(s, 1, n) \in Seq(Octets) /\ SubSeq(s, n + 1, Len(s)) \in Seq(Octets)
  BY <1>1
<1>3. Len(SubSeq(s, n + 1, Len(s))) <= Len(s)
  BY <1>1
<1>4. SubSeq(s, 1, n) \o SubSeq(s, n + 1, Len(s)) = SubSeq(s, 1, Len(s))
  BY <1>1, ConcatAdjacentSubSeq
<1>5. SubSeq(s, 1, Len(s)) = s
  BY SubSeqFull
<1> QED BY <1>2, <1>3, <1>4, <1>5

\* HandleRead: the reader is where the rest of the stream starts.
LEMMA ReadKeeps ==
  ASSUME FramingInv, Read
  PROVE  /\ FramingInv'
         /\ \E out \in Seq(Msgs) : delivered' = delivered \o out
<1>1. PICK n \in 1..Len(stream) : HandleRead(n)
  BY DEF Read
<1> DEFINE c == SubSeq(stream, 1, n)
           rest == SubSeq(stream, n + 1, Len(stream))
           r == ReadChunk(c)
<1>2. /\ FramingTypes /\ SocketInv /\ reading
      /\ stream' = rest /\ rx' = r.st /\ delivered' = delivered \o r.out
      /\ running' = running /\ socket' = socket /\ pending' = pending
      /\ txQueue' = txQueue /\ frameSeq' = frameSeq /\ reading' = reading
      /\ accepted' = accepted
  BY <1>1 DEF FramingInv, HandleRead
<1>3. /\ stream \in Seq(Octets) /\ Len(stream) <= TxBuffer /\ rx \in Readers
      /\ accepted \in Seq(Msgs) /\ delivered \in Seq(Msgs)
  BY <1>2 DEF FramingTypes
<1>4. PICK p : InPlace(p)
  BY DEF FramingInv
<1>5. Run(accepted, stream, p) /\ ReaderAt(accepted, rx, delivered, p)
  BY <1>2, <1>4 DEF InPlace
<1>6. /\ c \in Seq(Octets) /\ rest \in Seq(Octets) /\ Len(rest) <= Len(stream)
      /\ stream = c \o rest
  BY <1>3, ChunkAndRest
<1> HIDE DEF c, rest
<1>7. /\ Run(accepted, c, p) /\ Run(accepted, rest, End(c, p))
      /\ End(stream, p) = End(rest, End(c, p))
  BY <1>5, <1>6, RunJoined, PlaceInJoined
<1>8. r \in Turnings /\ ReaderAt(accepted, r.st, delivered \o r.out, End(c, p))
  BY <1>3, <1>5, <1>6, <1>7, ChunkRead
<1> HIDE DEF r
<1>9. r.st \in Readers /\ r.out \in Seq(Msgs) /\ delivered \o r.out \in Seq(Msgs)
  BY <1>3, <1>8 DEF Turnings
<1>10. FramingTypes'
  <2>1. Len(rest) <= TxBuffer
    BY <1>3, <1>6, SizesOK
  <2> QED BY <1>2, <1>6, <1>9, <2>1 DEF FramingTypes
<1>11. socket = "up" \/ ~ running
  <2>1. n \in 1..Len(stream) /\ stream # <<>>
    <3>1. Len(<<>>) = 0 /\ Len(stream) \in Nat /\ Len(stream) # 0
      BY <1>3
    <3> QED BY <3>1
  <2> QED BY <1>2, <2>1 DEF SocketInv
<1>12. SocketInv'
  BY <1>2, <1>11 DEF SocketInv
<1>13. HandledSoFar'
  BY <1>2, <1>8 DEF HandledSoFar, ReaderAt
<1>14. \E o : InPlace(o)'
  <2>1. PICK o : o = End(c, p)
    OBVIOUS
  <2>2. Run(accepted, rest, o) /\ End(stream, p) = End(rest, o)
        /\ ReaderAt(accepted, r.st, delivered \o r.out, o)
    BY <1>7, <1>8, <2>1
  <2>3. socket = "up" => /\ Chain(accepted, txQueue, End(rest, o))
                         /\ ChainEnd(txQueue, End(rest, o)) = <<frameSeq, 1>>
    BY <1>4, <2>2 DEF InPlace
  <2>4. InPlace(o)'
    BY <1>2, <2>2, <2>3 DEF InPlace
  <2> QED BY <2>4
<1>15. FramingInv'
  BY <1>10, <1>12, <1>13, <1>14 DEF FramingInv
<1> QED BY <1>2, <1>9, <1>15

\* Every callback of a connection keeps the invariant.
LEMMA FramingStep ==
  ASSUME FramingInv, [FramingNext]_framingVars
  PROVE  FramingInv'
<1>1. ASSUME NEW msg \in Msgs, SendSerialized(msg) PROVE FramingInv'
  BY <1>1, SendKeeps
<1>2. CASE HandleConnectionSucceeded
  BY <1>2, ConnectedKeeps
<1>3. CASE HandleConnectionFailed
  BY <1>3, FailedKeeps
<1>4. CASE HandleSendReady
  BY <1>4, SendReadyKeeps
<1>5. CASE StopApplication
  BY <1>5, StopKeeps
<1>6. CASE Read
  BY <1>6, ReadKeeps
<1>7. CASE StopReader
  BY <1>7, StopReaderKeeps
<1>8. CASE UNCHANGED framingVars
  BY <1>8 DEF framingVars, FramingInv, FramingTypes, SocketInv, HandledSoFar, InPlace
<1> QED BY <1>1, <1>2, <1>3, <1>4, <1>5, <1>6, <1>7, <1>8 DEF FramingNext

\* Bytes are written and read in their places: the invariant of a connection.
THEOREM FramingInvariance == FramingSpec => []FramingInv
<1>1. FramingInit => FramingInv
  BY FramingStart
<1>2. FramingInv /\ [FramingNext]_framingVars => FramingInv'
  BY FramingStep
<1> QED BY <1>1, <1>2, PTL DEF FramingSpec

\* The reader's NS_ABORT_MSG_IF on a prefix never fires: whatever room the
\* send buffer has and whatever chunks TCP makes of the stream, a prefix is
\* read where one was written, and it is that of the frame expected.
THEOREM FramesAreNeverCorrupt == FramingSpec => []NeverCorrupt
<1>1. FramingInv => NeverCorrupt
  <2> SUFFICES ASSUME FramingInv PROVE ~ Aborts(rx)
    BY DEF NeverCorrupt
  <2>1. PICK p : InPlace(p)
    BY DEF FramingInv
  <2>2. delivered \in Seq(Msgs)
    BY DEF FramingInv, FramingTypes
  <2>3. CASE reading
    BY <2>1, <2>2, <2>3, NeverAborts DEF InPlace
  <2>4. CASE ~ reading
    <3>1. rx = ResetFrame(0)
      BY <2>1, <2>4 DEF InPlace
    <3>2. rx.next = 0
      BY <3>1 DEF ResetFrame
    <3> QED BY <3>2 DEF Aborts
  <2> QED BY <2>3, <2>4
<1> QED BY <1>1, FramingInvariance, PTL

\* Elements of a prefix.
LEMMA PrefixOf ==
  ASSUME NEW s \in Seq(Msgs), NEW t \in Seq(Msgs), Len(s) <= Len(t),
         \A i \in 1..Len(s) : s[i] = t[i]
  PROVE  IsPrefix(s, t)
<1> DEFINE n == Len(s)
           u == SubSeq(t, 1, n)
<1>1. n \in Nat /\ n <= Len(t) /\ Len(t) \in Nat
  OBVIOUS
<1>2. u \in Seq(Msgs) /\ Len(u) = n /\ \A i \in 1..n : u[i] = t[i]
  BY <1>1
<1>3. s = u
  <2>1. Len(s) = Len(u) /\ \A i \in 1..Len(s) : s[i] = u[i]
    BY <1>2
  <2> HIDE DEF u
  <2> QED BY <1>2, <2>1, SeqEqual
<1>4. SubSeq(s, 1, Len(s)) = s
  BY SubSeqFull
<1> QED BY <1>3, <1>4 DEF IsPrefix

\* Every step of a connection is one of the channel, or none.
LEMMA ConnectionStep ==
  ASSUME FramingInv, [FramingNext]_framingVars
  PROVE  [Connection!Next]_<<accepted, delivered>>
<1>1. ASSUME NEW msg \in Msgs, SendSerialized(msg) PROVE Connection!Send(msg)
  BY <1>1 DEF SendSerialized, Connection!Send
<1>2. CASE \/ HandleConnectionSucceeded \/ HandleSendReady \/ StopApplication \/ StopReader
           \/ UNCHANGED framingVars
  <2>1. UNCHANGED <<accepted, delivered>>
    BY <1>2 DEF HandleConnectionSucceeded, HandleSendReady, StopApplication, StopReader,
                framingVars
  <2> QED BY <2>1
<1>3. CASE HandleConnectionFailed
  <2>1. accepted' = delivered /\ delivered' = delivered
    BY <1>3 DEF HandleConnectionFailed
  <2>2. CASE accepted = delivered
    BY <2>1, <2>2
  <2>3. CASE accepted # delivered
    BY <2>1, <2>3 DEF Connection!Next, Connection!Lose
  <2> QED BY <2>2, <2>3
<1>4. CASE Read
  <2>1. accepted' = accepted
    BY <1>4 DEF Read, HandleRead
  <2>2. CASE delivered' = delivered
    BY <2>1, <2>2
  <2>3. CASE delivered' # delivered
    <3>1. PICK out \in Seq(Msgs) : delivered' = delivered \o out
      BY <1>4, ReadKeeps
    <3>2. /\ delivered \in Seq(Msgs) /\ accepted \in Seq(Msgs) /\ delivered' \in Seq(Msgs)
      BY <2>1, <3>1 DEF FramingInv, FramingTypes
    <3>3. Len(delivered') <= Len(accepted)
          /\ \A i \in 1..Len(delivered') : delivered'[i] = accepted[i]
      BY <1>4, <2>1, ReadKeeps DEF FramingInv, HandledSoFar
    <3>4. IsPrefix(delivered, delivered')
      <4>1. Len(delivered) <= Len(delivered')
            /\ \A i \in 1..Len(delivered) : delivered[i] = delivered'[i]
        BY <3>1, <3>2
      <4> QED BY <3>2, <4>1, PrefixOf
    <3>5. IsPrefix(delivered', accepted)
      BY <3>2, <3>3, PrefixOf
    <3> QED BY <2>1, <2>3, <3>4, <3>5
            DEF Connection!Next, Connection!Deliver, Connection!IsPrefix, IsPrefix
  <2> QED BY <2>2, <2>3
<1> QED BY <1>1, <1>2, <1>3, <1>4 DEF FramingNext, Connection!Next

\* The connection implements the channel: messages are handled whole, once
\* and in the order they were sent, and only a failed attempt loses any.
THEOREM ConnectionIsChannel == FramingSpec => ConnectionSpec
<1>1. FramingInit => Connection!Init
  BY DEF FramingInit, Connection!Init
<1>2. FramingInv /\ [FramingNext]_framingVars => [Connection!Next]_<<accepted, delivered>>
  BY ConnectionStep
<1> QED BY <1>1, <1>2, FramingInvariance, PTL DEF FramingSpec, ConnectionSpec, Connection!Spec
=============================================================================

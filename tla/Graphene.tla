------------------------------- MODULE Graphene -------------------------------
(***************************************************************************)
(* How a node gets the transactions of one block out of a compact block:   *)
(* graphene.cc, called by the Graphene handlers of node.cc.  BlockRelay    *)
(* leaves it open whether a compact block decodes; this module says when,  *)
(* and what the node then takes for the block's transactions.              *)
(*                                                                         *)
(* Protocol 1 subtracts an IBLT of the candidates (what of the mempool     *)
(* passes the sender's Bloom filter) from the sender's IBLT and lists the  *)
(* difference.  If that fails, protocol 2 asks for a second IBLT and for   *)
(* the transactions that are missing for sure.  If that fails too,         *)
(* TryPingPong plays the two differences against each other.               *)
(*                                                                         *)
(* A Bloom filter is the set of what passes it: all its elements and any   *)
(* others.  An IBLT is the count of each transaction in it; where the      *)
(* hashes put a transaction is one of Placements, whatever the size.  The  *)
(* checks of cells never collide.                                          *)
(***************************************************************************)
EXTENDS Listing, FiniteSets

CONSTANTS Placements,   \* the cells each transaction is put in
          TableSizes,   \* hashTableSize of the first IBLT and of the second
          MaxMissing,   \* GRAPHENE_MAX_GUARANTEED_MISSING
          MaxRequests   \* bound: requests for the block

ASSUME PlacesAssumption ==
  \A p \in Placements : DOMAIN p = Txs /\ \A k \in Txs : p[k] # {}
ASSUME GrapheneConstants ==
  TableSizes \in [1..2 -> Nat] /\ {MaxMissing, MaxRequests} \subseteq Nat

VARIABLES body,        \* the transactions of the block
          got,         \* what the node took for them; empty until the block is there
          asked,       \* how often the block was asked for
          compacts,    \* compact blocks under way
          whole,       \* is the whole block, or a request for it, under way?
          phase,       \* "idle"; "waiting": m_graphene_state is there; "pingpong"
          candidates,  \* GrapheneState::candidate_ids; in ping-pong with the missing ones
          tables,      \* diff1 and diff2
          places,      \* where they have their transactions
          turn,        \* which of them is `first` in the call of TryPingPong
          inBlock, notInBlock, depth,
          requests,    \* recovery requests under way: the candidates they name
          responses    \* recovery responses under way

pingPongVars == <<turn, inBlock, notInBlock, depth>>
stateVars    == <<phase, candidates, tables, places>>
netVars      == <<compacts, requests, responses>>
grapheneVars == <<body, got, asked, whole, stateVars, pingPongVars, netVars>>

-----------------------------------------------------------------------------
(* IBLTs *)

\* The positive ones are erased, the negative ones inserted.
Cancelled(t, pos, neg) ==
  [k \in Txs |-> t[k] - (IF k \in pos THEN 1 ELSE 0) + (IF k \in neg THEN 1 ELSE 0)]

\* Mutant of Adjusted: false positives stay.
OnlyAdded(S, pos, neg) == S \cup pos

Adjusted(S, pos, neg) == (S \ neg) \cup pos

-----------------------------------------------------------------------------
NoTables == [i \in 1..2 |-> EmptyTable]
NoPlaces == [i \in 1..2 |-> [k \in Txs |-> {}]]

GrapheneInit ==
  /\ body \in SUBSET Txs
  /\ got = {} /\ asked = 0 /\ whole = FALSE
  /\ phase = "idle" /\ candidates = {} /\ tables = NoTables /\ places = NoPlaces
  /\ turn = 1 /\ inBlock = {} /\ notInBlock = {} /\ depth = 0
  /\ compacts = 0 /\ requests = {} /\ responses = {}

\* The state of the recovery attempt is erased.
EndAttempt == phase' = "idle" /\ candidates' = {} /\ tables' = NoTables /\ places' = NoPlaces

Take(S) == got' = IF got = {} THEN {S} ELSE got

\* An answer to a request that names the size of the mempool: compact, unless
\* too many transactions are missing for sure.
HandleReqRelayBlock ==
  /\ asked < MaxRequests /\ got = {} /\ phase # "pingpong"
  /\ asked' = asked + 1
  /\ \E poolSize \in 0..Cardinality(Txs) :
       IF Cardinality(body) > poolSize + MaxMissing
         THEN whole' = TRUE /\ UNCHANGED compacts
         ELSE compacts' = compacts + 1 /\ UNCHANGED whole
  /\ UNCHANGED <<body, got, stateVars, pingPongVars, requests, responses>>

HandleBlock ==
  /\ whole /\ phase # "pingpong"
  /\ whole' = FALSE
  /\ Take(body)
  /\ UNCHANGED <<body, asked, stateVars, pingPongVars, netVars>>

\* ProcessIncomingBlock and ReconstructBlock: with the candidates Z, the block
\* or a recovery attempt.
ProcessIncomingBlock(Z, p) ==
  LET diff == Difference(body, Z)
      txs  == Adjusted(Z, Positive(p, diff), Negative(p, diff))
  IN  IF AllListed(p, diff) /\ Cardinality(txs) = Cardinality(body)
        THEN Take(txs) /\ UNCHANGED <<stateVars, requests>>
        ELSE /\ phase' = "waiting"
             /\ candidates' = Z
             /\ tables' = [tables EXCEPT ![1] = diff]
             /\ places' = [places EXCEPT ![1] = p]
             /\ requests' = requests \cup {Z}
             /\ UNCHANGED got

\* Nothing if the block or a recovery attempt is there.
HandleGrapheneBlock ==
  /\ compacts > 0 /\ phase # "pingpong"
  /\ compacts' = compacts - 1
  /\ \/ (got # {} \/ phase = "waiting") /\ UNCHANGED <<got, stateVars, requests>>
     \/ /\ got = {} /\ phase = "idle"
        /\ \E Z \in SUBSET Txs, p \in Placements : ProcessIncomingBlock(Z, p)
  /\ UNCHANGED <<body, asked, whole, pingPongVars, responses>>

\* The transactions to send with the second IBLT.
SecondIBLT(passing) == body \ passing

\* At the sender: what does not pass the receiver's Bloom filter is missing.
HandleGrapheneRecoveryRequest ==
  /\ phase # "pingpong"
  /\ \E Z \in requests :
       /\ requests' = requests \ {Z}
       /\ \E others \in SUBSET (body \ Z), p \in Placements :
            responses' = responses \cup {[missing |-> SecondIBLT(Z \cup others), places |-> p]}
  /\ UNCHANGED <<body, got, asked, whole, stateVars, pingPongVars, compacts>>

\* Up to TryPingPong.
ProcessRecoveryResponse(r) ==
  LET Z    == candidates \cup r.missing
      diff == Difference(body, Z)
  IN  IF AllListed(r.places, diff)
        THEN /\ Take(Adjusted(Z, Positive(r.places, diff), Negative(r.places, diff)))
             /\ EndAttempt
             /\ UNCHANGED pingPongVars
        ELSE /\ phase' = "pingpong"
             /\ candidates' = Z
             /\ tables' = [tables EXCEPT ![2] = diff]
             /\ places' = [places EXCEPT ![2] = r.places]
             /\ turn' = 1 /\ inBlock' = {} /\ notInBlock' = {} /\ depth' = 0
             /\ UNCHANGED got

\* Without a recovery attempt, nothing.  The response may be to an earlier one.
HandleGrapheneRecoveryResponse ==
  /\ \E r \in responses :
       /\ responses' = responses \ {r}
       /\ \/ phase = "idle" /\ UNCHANGED <<got, stateVars, pingPongVars>>
          \/ phase = "waiting" /\ ProcessRecoveryResponse(r)
  /\ UNCHANGED <<body, asked, whole, compacts, requests>>

\* The attempt is over; the whole block is asked for, unless it is there.
GrapheneRecoveryTimeout ==
  /\ phase = "waiting"
  /\ EndAttempt
  /\ whole' = (whole \/ got = {})
  /\ UNCHANGED <<body, got, asked, pingPongVars, netVars>>

-----------------------------------------------------------------------------
(* TryPingPong: each step is one call *)

\* The depth is compared with the size of the table that is `first' in the call.
TooDeep == depth > TableSizes[turn]

NothingListed(i) == Listed(places[i], tables[i]) = {}

\* The table whose entries a call uses: the second one, or the first one if
\* the second lists nothing.
Used == IF NothingListed(3 - turn) THEN turn ELSE 3 - turn

\* Mutant of BothEmpty: the first table is not asked.
SecondEmpty == Entries(tables[3 - turn]) = {}

BothEmpty == Entries(tables[turn]) = {} /\ Entries(tables[3 - turn]) = {}

CancelInBoth(pos, neg) == [i \in 1..2 |-> Cancelled(tables[i], pos, neg)]

\* Mutant of Deeper: the depth is handed on as it is.
SameDepth == depth

Deeper == depth + 1

GiveUp == whole' = TRUE /\ UNCHANGED got

\* What ProcessRecoveryResponse makes of success: the size and the checksum of
\* the set decide, and a checksum may be that of another set.
Succeed ==
  LET txs == (candidates \cup inBlock) \ notInBlock
  IN  \/ /\ Cardinality(txs) = Cardinality(body)
         /\ Take(txs) /\ UNCHANGED whole
      \/ txs # body /\ GiveUp

Return ==
  /\ TooDeep \/ NothingListed(Used)
  /\ IF ~ TooDeep /\ BothEmpty THEN Succeed ELSE GiveUp
  /\ EndAttempt
  /\ turn' = 1 /\ inBlock' = {} /\ notInBlock' = {} /\ depth' = 0

Recurse ==
  /\ ~ TooDeep /\ ~ NothingListed(Used)
  /\ LET pos == Positive(places[Used], tables[Used])
         neg == Negative(places[Used], tables[Used])
     IN  /\ tables' = CancelInBoth(pos, neg)
         /\ inBlock' = inBlock \cup pos
         /\ notInBlock' = notInBlock \cup neg
  /\ turn' = IF Used = turn THEN turn ELSE 3 - turn
  /\ depth' = Deeper
  /\ UNCHANGED <<got, whole, phase, candidates, places>>

TryPingPong ==
  /\ phase = "pingpong"
  /\ Return \/ Recurse
  /\ UNCHANGED <<body, asked, netVars>>

-----------------------------------------------------------------------------
GrapheneNext ==
  \/ HandleReqRelayBlock
  \/ HandleBlock
  \/ HandleGrapheneBlock
  \/ HandleGrapheneRecoveryRequest
  \/ HandleGrapheneRecoveryResponse
  \/ GrapheneRecoveryTimeout
  \/ TryPingPong

GrapheneSpec == GrapheneInit /\ [][GrapheneNext]_grapheneVars

\* Weak fairness, written out: messages come in, the timeout happens, and
\* TryPingPong runs to its end.  Nothing obliges a node to ask.
GrapheneProgress ==
  /\ []<>(~ whole \/ phase = "pingpong") \/ []<><<HandleBlock>>_grapheneVars
  /\ []<>(compacts = 0 \/ phase = "pingpong") \/ []<><<HandleGrapheneBlock>>_grapheneVars
  /\ []<>(phase # "waiting") \/ []<><<GrapheneRecoveryTimeout>>_grapheneVars
  /\ []<>(phase # "pingpong") \/ []<><<TryPingPong>>_grapheneVars

FairGrapheneSpec == GrapheneSpec /\ GrapheneProgress

-----------------------------------------------------------------------------
(* Properties *)

\* Type invariant; no transaction is ever counted twice in a table.
GrapheneTypeOK ==
  /\ body \subseteq Txs
  /\ got \subseteq SUBSET Txs
  /\ asked \in 0..MaxRequests /\ compacts \in 0..asked /\ whole \in BOOLEAN
  /\ phase \in {"idle", "waiting", "pingpong"}
  /\ candidates \subseteq Txs
  /\ tables \in [1..2 -> [Txs -> {-1, 0, 1}]]
  /\ places \in [1..2 -> Placements \cup {NoPlaces[1]}]
  /\ turn \in 1..2 /\ inBlock \subseteq Txs /\ notInBlock \subseteq Txs
  /\ \E i \in 1..2 : depth \in 0..(TableSizes[i] + 1)
  /\ requests \subseteq SUBSET Txs
  /\ responses \subseteq [missing : SUBSET Txs, places : Placements]

\* Whatever decodes, by either protocol or by ping-pong, with the answer to
\* this attempt or to an earlier one, is the block: the checksum asserted
\* after decoding cannot fail, and BlockBodyStore can share the body.
DecodedIsExact == got \subseteq {body}

\* Transactions on which the two differences disagree.
Apart == {k \in Txs : tables[1][k] # tables[2][k]}

\* TryPingPong decodes only blocks of which nothing new was sent as missing:
\* what was is in the first difference and not in the second, canceling in both
\* at once never brings them together, and so they are never both empty.
PingPongNeedsNothingMissing ==
  [][/\ phase = "waiting" /\ phase' = "pingpong" => Apart' = candidates' \ candidates
     /\ phase = "pingpong" /\ phase' = "pingpong" => Apart' = Apart
     /\ phase = "pingpong" /\ got' # got => Apart = {}]_grapheneVars

\* A compact block on its way ends in the transactions of the block.
EveryBlockDecodes == compacts > 0 ~> got # {}
=============================================================================

--------------------------- MODULE Graphene_proofs ---------------------------
(***************************************************************************)
(* Proofs about Peeling, Graphene and Iblt, for every set of transactions, *)
(* every way the hashes place them and any number of requests: in whatever *)
(* order pure cells are found, what listEntries has listed when none is    *)
(* left is the same, all entries but the largest stuck set; what decodes   *)
(* from it is the block; TryPingPong decodes nothing once a transaction    *)
(* was sent as missing; and the cells of iblt.h do what Peeling says, for  *)
(* every number of hashes and size of the table.                           *)
(***************************************************************************)
EXTENDS Graphene, Peeling, Iblt, FiniteLemmas

-----------------------------------------------------------------------------
(* Listing an IBLT: Peeling *)

\* No entry of the core is ever listed.
PeelInv ==
  /\ positives \subseteq {k \in Entries(counts) : counts[k] = 1}
  /\ negatives \subseteq {k \in Entries(counts) : counts[k] # 1}
  /\ Core(cells, counts) \subseteq Left
  /\ ListsAllButTheCore

-----------------------------------------------------------------------------
\* The core is stuck itself: it has with each entry a set that is.
LEMMA CoreIsStuck ==
  ASSUME NEW p, NEW t, NEW k \in Core(p, t), NEW c \in p[k]
  PROVE  \E j \in Core(p, t) \ {k} : c \in p[j]
<1>1. PICK T \in SUBSET Entries(t) : k \in T /\ Stuck(p, T)
  BY DEF Core
<1>2. PICK j \in T \ {k} : c \in p[j]
  BY <1>1 DEF Stuck
<1>3. T \subseteq Core(p, t)
  BY <1>1 DEF Core
<1> QED BY <1>2, <1>3

\* The core is the largest stuck set.
LEMMA CoreIsLargest ==
  ASSUME NEW p, NEW t, NEW T \in SUBSET Entries(t), Stuck(p, T)
  PROVE  T \subseteq Core(p, t)
BY DEF Core

\* An entry with a cell to itself among those left is not in the core.
LEMMA AloneIsNotCore ==
  ASSUME Core(cells, counts) \subseteq Left, NEW k, HasCellAlone(k)
  PROVE  k \notin Core(cells, counts)
<1> SUFFICES ASSUME k \in Core(cells, counts) PROVE FALSE
  OBVIOUS
<1>1. PICK c \in cells[k] : \A j \in Left \ {k} : c \notin cells[j]
  BY DEF HasCellAlone
<1>2. PICK j \in Core(cells, counts) \ {k} : c \in cells[j]
  BY CoreIsStuck
<1> QED BY <1>1, <1>2

\* When no entry has a cell to itself, those left are the core.
LEMMA LeftIsCore ==
  ASSUME Core(cells, counts) \subseteq Left, \A k \in Left : ~ HasCellAlone(k)
  PROVE  Left = Core(cells, counts)
<1>1. Left \subseteq Entries(counts)
  BY DEF Left
<1>2. Stuck(cells, Left)
  BY DEF Stuck, HasCellAlone
<1> QED BY <1>1, <1>2, CoreIsLargest

-----------------------------------------------------------------------------
\* Before anything is listed, the core is among the entries left.
LEMMA PeelInvInit == PeelingInit => PeelInv
<1> SUFFICES ASSUME PeelingInit PROVE PeelInv
  OBVIOUS
<1>1. Core(cells, counts) \subseteq Entries(counts)
  BY DEF Core
<1> QED BY <1>1 DEF PeelingInit, PeelInv, Left, ListsAllButTheCore

\* Peeling an entry keeps the core among those left.
LEMMA PeelInvNext == PeelInv /\ [PeelingNext]_peelingVars => PeelInv'
<1> SUFFICES ASSUME PeelInv, [PeelingNext]_peelingVars PROVE PeelInv'
  OBVIOUS
<1> USE DEF PeelInv
<1>1. ASSUME NEW k \in Left, Peel(k) PROVE PeelInv'
  <2>1. k \in Entries(counts) /\ k \notin Core(cells, counts)
    BY <1>1, AloneIsNotCore DEF Peel, Left
  <2>2. Left' = Left \ {k}
    BY <1>1 DEF Peel, Left, Entries
  <2>3. Core(cells, counts)' = Core(cells, counts) /\ Entries(counts)' = Entries(counts)
    BY <1>1 DEF Peel, Core, Entries, Stuck
  <2>4. (positives \subseteq {j \in Entries(counts) : counts[j] = 1})'
        /\ (negatives \subseteq {j \in Entries(counts) : counts[j] # 1})'
    BY <1>1, <2>1, <2>3 DEF Peel
  <2>5. ListsAllButTheCore'
    BY <1>1 DEF Peel, ListsAllButTheCore
  <2> QED BY <2>1, <2>2, <2>3, <2>4, <2>5
<1>2. ASSUME EndListing PROVE PeelInv'
  <2>1. Left = Core(cells, counts)
    BY <1>2, LeftIsCore DEF EndListing
  <2>2. positives \cup negatives = Listed(cells, counts)
    BY <2>1 DEF Left, Listed
  <2>3. positives = Positive(cells, counts) /\ negatives = Negative(cells, counts)
    BY <2>2 DEF Positive, Negative
  <2>4. outcome' = <<AllListed(cells, counts)>>
    BY <1>2, <2>1 DEF EndListing, AllListed
  <2>5. UNCHANGED <<cells, counts, positives, negatives>>
    BY <1>2 DEF EndListing
  <2>6. ListsAllButTheCore'
    BY <2>3, <2>4, <2>5
       DEF ListsAllButTheCore, Positive, Negative, Listed, AllListed, Core, Entries, Stuck
  <2> QED BY <2>5, <2>6 DEF Left, Core, Entries, Stuck
<1>3. ASSUME UNCHANGED peelingVars PROVE PeelInv'
  BY <1>3 DEF peelingVars, ListsAllButTheCore, Left, Core, Entries, Stuck,
              Positive, Negative, Listed, AllListed
<1> QED BY <1>1, <1>2, <1>3 DEF PeelingNext

\* What listEntries returns does not depend on the order in which it finds
\* pure cells: it lists all entries but the core, under their signs, and says
\* that this is all if the core is empty.
THEOREM PeelingIsOrderFree == PeelingSpec => []ListsAllButTheCore
<1>1. PeelInv => ListsAllButTheCore
  BY DEF PeelInv
<1> QED BY PeelInvInit, PeelInvNext, <1>1, PTL DEF PeelingSpec


-----------------------------------------------------------------------------
(* IBLTs *)

\* Subtracting one IBLT from another counts each transaction -1, 0 or 1.
LEMMA DifferenceType ==
  ASSUME NEW S, NEW R
  PROVE  /\ Difference(S, R) \in [Txs -> {-1, 0, 1}]
         /\ \A k \in Txs : Difference(S, R)[k] =
              (IF k \in S THEN 1 ELSE 0) - (IF k \in R THEN 1 ELSE 0)
BY DEF Difference

\* What is listed are entries, with their signs; all of them, if listEntries
\* says so.
LEMMA ListedEntries ==
  ASSUME NEW p, NEW t \in [Txs -> {-1, 0, 1}]
  PROVE  /\ Positive(p, t) \subseteq {k \in Txs : t[k] = 1}
         /\ Negative(p, t) \subseteq {k \in Txs : t[k] = -1}
         /\ AllListed(p, t) => /\ Positive(p, t) = {k \in Txs : t[k] = 1}
                               /\ Negative(p, t) = {k \in Txs : t[k] = -1}
         /\ AllListed(p, t) /\ Listed(p, t) = {} => \A k \in Txs : t[k] = 0
BY DEF Positive, Negative, Listed, AllListed, Entries

\* A difference listed in full turns the set subtracted into the other one.
LEMMA AdjustedIsExact ==
  ASSUME NEW p, NEW S \in SUBSET Txs, NEW Z \in SUBSET Txs,
         AllListed(p, Difference(S, Z))
  PROVE  Adjusted(Z, Positive(p, Difference(S, Z)), Negative(p, Difference(S, Z))) = S
<1> DEFINE t == Difference(S, Z)
<1>1. t \in [Txs -> {-1, 0, 1}]
      /\ \A k \in Txs : t[k] = (IF k \in S THEN 1 ELSE 0) - (IF k \in Z THEN 1 ELSE 0)
  BY DifferenceType
<1>2. Positive(p, t) = {k \in Txs : t[k] = 1} /\ Negative(p, t) = {k \in Txs : t[k] = -1}
  BY <1>1, ListedEntries
<1>3. \A k \in Txs : /\ (t[k] = 1) <=> (k \in S /\ k \notin Z)
                     /\ (t[k] = -1) <=> (k \in Z /\ k \notin S)
  <2> HIDE DEF t
  <2> TAKE k \in Txs
  <2>1. t[k] = (IF k \in S THEN 1 ELSE 0) - (IF k \in Z THEN 1 ELSE 0)
    BY <1>1
  <2> QED BY <2>1
<1> HIDE DEF t
<1>4. Adjusted(Z, Positive(p, t), Negative(p, t)) = S
  BY <1>2, <1>3 DEF Adjusted
<1> QED
  BY <1>4 DEF t

-----------------------------------------------------------------------------
(* The inductive invariant *)

\* A transaction sent as missing is counted once more in the first difference.
KeyInStep(k) == tables[1][k] - tables[2][k] \in {0, 1}

\* Of any other one ping-pong has listed what the differences said of it, or
\* they still say it.
KeySettled(k) ==
  tables[1][k] = tables[2][k] =>
    \/ /\ k \notin inBlock \cup notInBlock
       /\ tables[2][k] = Difference(body, candidates)[k]
    \/ k \in inBlock /\ k \notin notInBlock /\ tables[2][k] = 0 /\ k \in body
    \/ k \notin inBlock /\ k \in notInBlock /\ tables[2][k] = 0 /\ k \notin body

GrapheneInv ==
  /\ GrapheneTypeOK
  /\ DecodedIsExact
  /\ \A r \in responses : r.missing \subseteq body
  /\ phase = "waiting" => tables[1] = Difference(body, candidates)
  /\ phase = "pingpong" => \A k \in Txs : KeyInStep(k) /\ KeySettled(k)

\* The values that stand for no attempt have their types.
LEMMA NothingTypes ==
  NoTables \in [1..2 -> [Txs -> {-1, 0, 1}]] /\ NoPlaces \in [1..2 -> Placements \cup {NoPlaces[1]}]
<1>1. EmptyTable \in [Txs -> {-1, 0, 1}]
  BY DifferenceType DEF EmptyTable
<1> QED
  BY <1>1 DEF NoTables, NoPlaces

\* At the start nothing is under way.
LEMMA GrapheneInitially == GrapheneInit => GrapheneInv
<1> SUFFICES ASSUME GrapheneInit PROVE GrapheneInv
  OBVIOUS
<1>1. NoTables \in [1..2 -> [Txs -> {-1, 0, 1}]] /\ NoPlaces \in [1..2 -> Placements \cup {NoPlaces[1]}]
  BY NothingTypes
<1>2. TableSizes[1] \in Nat /\ MaxRequests \in Nat
  BY GrapheneConstants
<1>3. phase = "idle" /\ got = {} /\ responses = {}
  BY DEF GrapheneInit
<1>4. tables \in [1..2 -> [Txs -> {-1, 0, 1}]] /\ places \in [1..2 -> Placements \cup {NoPlaces[1]}]
  BY <1>1 DEF GrapheneInit
<1>5. GrapheneTypeOK
  <2>1. /\ body \subseteq Txs /\ got \subseteq SUBSET Txs
        /\ asked \in 0..MaxRequests /\ compacts \in 0..asked
        /\ phase \in {"idle", "waiting", "pingpong"}
    BY <1>2 DEF GrapheneInit
  <2>4. whole \in BOOLEAN
    BY Zenon DEF GrapheneInit
  <2>2. /\ candidates \subseteq Txs /\ inBlock \subseteq Txs /\ notInBlock \subseteq Txs
        /\ turn \in 1..2 /\ depth \in 0..(TableSizes[1] + 1)
    BY <1>2 DEF GrapheneInit
  <2>3. /\ requests \subseteq SUBSET Txs
        /\ responses \subseteq [missing : SUBSET Txs, places : Placements]
    BY DEF GrapheneInit
  <2> QED
    BY <1>4, <2>1, <2>2, <2>3, <2>4 DEF GrapheneTypeOK
<1> QED
  BY <1>3, <1>5 DEF GrapheneInv, DecodedIsExact

\* An attempt that ends leaves no state.
LEMMA AttemptEnds ==
  ASSUME EndAttempt
  PROVE  /\ phase' = "idle" /\ candidates' \subseteq Txs
         /\ tables' \in [1..2 -> [Txs -> {-1, 0, 1}]]
         /\ places' \in [1..2 -> Placements \cup {NoPlaces[1]}]
BY NothingTypes DEF EndAttempt

-----------------------------------------------------------------------------
(* The handlers *)

\* Answering HandleReqRelayBlock changes nothing of the attempt.
LEMMA RequestKeepsInv == GrapheneInv /\ HandleReqRelayBlock => GrapheneInv'
<1> SUFFICES ASSUME GrapheneInv, HandleReqRelayBlock PROVE GrapheneInv'
  OBVIOUS
<1> USE GrapheneConstants
<1>1. asked' \in 0..MaxRequests /\ compacts \in 0..asked /\ asked' = asked + 1 /\ asked \in Nat
  BY DEF HandleReqRelayBlock, GrapheneInv, GrapheneTypeOK
<1>2. whole \in BOOLEAN
  BY DEF GrapheneInv, GrapheneTypeOK
<1>3. PICK poolSize \in 0..Cardinality(Txs) :
        IF Cardinality(body) > poolSize + MaxMissing
          THEN whole' = TRUE /\ UNCHANGED compacts
          ELSE compacts' = compacts + 1 /\ UNCHANGED whole
  BY DEF HandleReqRelayBlock
<1>4. whole' \in BOOLEAN
  BY <1>2, <1>3, Zenon
<1>5. compacts' \in 0..asked'
  BY <1>1 DEF HandleReqRelayBlock, GrapheneInv, GrapheneTypeOK
<1> QED
  BY <1>1, <1>4, <1>5 DEF HandleReqRelayBlock, GrapheneInv, GrapheneTypeOK, DecodedIsExact, stateVars, pingPongVars

\* HandleBlock takes the transactions of the block itself.
LEMMA BlockKeepsInv == GrapheneInv /\ HandleBlock => GrapheneInv'
BY DEF HandleBlock, Take, GrapheneInv, GrapheneTypeOK, DecodedIsExact, stateVars, pingPongVars, netVars

\* HandleGrapheneBlock: what ReconstructBlock lists in full is exact.
LEMMA CompactKeepsInv == GrapheneInv /\ HandleGrapheneBlock => GrapheneInv'
<1> SUFFICES ASSUME GrapheneInv, HandleGrapheneBlock PROVE GrapheneInv'
  OBVIOUS
<1>1. compacts' \in 0..asked' /\ phase # "pingpong"
  BY DEF HandleGrapheneBlock, GrapheneInv, GrapheneTypeOK
<1>2. CASE UNCHANGED <<got, stateVars, requests>>
  BY <1>1, <1>2 DEF HandleGrapheneBlock, GrapheneInv, GrapheneTypeOK, DecodedIsExact, stateVars, pingPongVars
<1>3. ASSUME got = {}, phase = "idle",
             NEW Z \in SUBSET Txs, NEW p \in Placements,
             ProcessIncomingBlock(Z, p)
      PROVE  GrapheneInv'
  <2> DEFINE diff == Difference(body, Z)
  <2> DEFINE txs  == Adjusted(Z, Positive(p, diff), Negative(p, diff))
  <2>1. CASE AllListed(p, diff) /\ Cardinality(txs) = Cardinality(body)
    <3>1. txs = body
      BY <2>1, AdjustedIsExact DEF GrapheneInv, GrapheneTypeOK
    <3>2. Take(body) /\ UNCHANGED <<stateVars, requests>>
        BY <1>3, <2>1, <3>1 DEF ProcessIncomingBlock
    <3> QED
      BY <1>1, <3>2 DEF Take, HandleGrapheneBlock, GrapheneInv, GrapheneTypeOK, DecodedIsExact, stateVars, pingPongVars
  <2>2. CASE ~ (AllListed(p, diff) /\ Cardinality(txs) = Cardinality(body))
    <3>1. diff \in [Txs -> {-1, 0, 1}]
      BY DifferenceType
    <3>2. /\ phase' = "waiting" /\ candidates' = Z
          /\ tables' = [tables EXCEPT ![1] = diff] /\ places' = [places EXCEPT ![1] = p]
          /\ requests' = requests \cup {Z} /\ UNCHANGED got
      BY <1>3, <2>2 DEF ProcessIncomingBlock
    <3>3. tables'[1] = Difference(body', candidates')
      BY <3>2 DEF HandleGrapheneBlock, GrapheneInv, GrapheneTypeOK
    <3> HIDE DEF diff
    <3> QED
      BY <1>1, <3>1, <3>2, <3>3 DEF HandleGrapheneBlock, GrapheneInv, GrapheneTypeOK, DecodedIsExact, pingPongVars, NoPlaces
  <2> QED
    BY <2>1, <2>2
<1> QED
  BY <1>2, <1>3 DEF HandleGrapheneBlock

\* HandleGrapheneRecoveryRequest sends only transactions of the block as missing.
LEMMA RecoveryRequestKeepsInv == GrapheneInv /\ HandleGrapheneRecoveryRequest => GrapheneInv'
<1> SUFFICES ASSUME GrapheneInv, HandleGrapheneRecoveryRequest PROVE GrapheneInv'
  OBVIOUS
<1>1. PICK Z \in requests, others \in SUBSET body, p \in Placements :
        /\ requests' = requests \ {Z}
        /\ responses' = responses \cup {[missing |-> body \ (Z \cup others), places |-> p]}
  BY DEF HandleGrapheneRecoveryRequest, SecondIBLT
<1>2. /\ requests' \subseteq SUBSET Txs
      /\ responses' \subseteq [missing : SUBSET Txs, places : Placements]
      /\ \A r \in responses' : r.missing \subseteq body
  BY <1>1 DEF GrapheneInv, GrapheneTypeOK
<1>3. phase' # "pingpong" /\ body' = body
  BY DEF HandleGrapheneRecoveryRequest, stateVars
<1> QED
  BY <1>2, <1>3 DEF HandleGrapheneRecoveryRequest, GrapheneInv, GrapheneTypeOK, DecodedIsExact, stateVars, pingPongVars, NoPlaces

\* GrapheneRecoveryTimeout erases the attempt.
LEMMA TimeoutKeepsInv == GrapheneInv /\ GrapheneRecoveryTimeout => GrapheneInv'
BY AttemptEnds DEF GrapheneRecoveryTimeout, GrapheneInv, GrapheneTypeOK, DecodedIsExact, pingPongVars, netVars, NoPlaces

\* HandleGrapheneRecoveryResponse: exact, or the start of ping-pong.
LEMMA ResponseKeepsInv == GrapheneInv /\ HandleGrapheneRecoveryResponse => GrapheneInv'
<1> SUFFICES ASSUME GrapheneInv, HandleGrapheneRecoveryResponse PROVE GrapheneInv'
  OBVIOUS
<1>1. PICK r \in responses :
        /\ responses' = responses \ {r}
        /\ \/ phase = "idle" /\ UNCHANGED <<got, stateVars, pingPongVars>>
           \/ phase = "waiting" /\ ProcessRecoveryResponse(r)
  BY DEF HandleGrapheneRecoveryResponse
<1> DEFINE Z    == candidates \cup r.missing
<1> DEFINE diff == Difference(body, Z)
<1>2. /\ Z \in SUBSET Txs /\ r.missing \subseteq body /\ r.places \in Placements
      /\ responses' \subseteq responses /\ phase # "pingpong"
  BY <1>1 DEF HandleGrapheneRecoveryResponse, GrapheneInv, GrapheneTypeOK
<1>3. UNCHANGED <<body, asked, whole, compacts, requests>>
  BY DEF HandleGrapheneRecoveryResponse
<1>4. CASE phase = "idle" /\ UNCHANGED <<got, stateVars, pingPongVars>>
  BY <1>2, <1>3, <1>4 DEF GrapheneInv, GrapheneTypeOK, DecodedIsExact, stateVars, pingPongVars, NoPlaces
<1>5. CASE /\ phase = "waiting" /\ AllListed(r.places, diff)
           /\ Take(Adjusted(Z, Positive(r.places, diff), Negative(r.places, diff)))
           /\ EndAttempt
           /\ UNCHANGED pingPongVars
  <2>1. Take(body)
    BY <1>2, <1>5, AdjustedIsExact DEF GrapheneInv, GrapheneTypeOK
  <2>2. EndAttempt /\ UNCHANGED pingPongVars
    BY <1>5
  <2> QED
    BY <1>2, <1>3, <2>1, <2>2, AttemptEnds DEF Take, GrapheneInv, GrapheneTypeOK, DecodedIsExact, pingPongVars, NoPlaces
<1>6. CASE /\ phase = "waiting" /\ ~ AllListed(r.places, diff)
           /\ phase' = "pingpong" /\ candidates' = Z
           /\ tables' = [tables EXCEPT ![2] = diff]
           /\ places' = [places EXCEPT ![2] = r.places]
           /\ turn' = 1 /\ inBlock' = {} /\ notInBlock' = {} /\ depth' = 0
           /\ UNCHANGED got
  <2>1. diff \in [Txs -> {-1, 0, 1}]
    BY DifferenceType
  <2>2. /\ GrapheneTypeOK'
        /\ DecodedIsExact'
        /\ \A q \in responses' : q.missing \subseteq body'
    <3> HIDE DEF diff
    <3> QED
      BY <1>2, <1>3, <1>6, <2>1, GrapheneConstants DEF GrapheneInv, GrapheneTypeOK, DecodedIsExact, NoPlaces
  <2>3. ASSUME NEW k \in Txs PROVE KeyInStep(k)' /\ KeySettled(k)'
    <3>1. tables'[1] = tables[1] /\ tables'[2] = diff
      BY <1>6 DEF GrapheneInv, GrapheneTypeOK
    <3>2. tables[1][k] = (IF k \in body THEN 1 ELSE 0) - (IF k \in candidates THEN 1 ELSE 0)
      BY <1>6, DifferenceType DEF GrapheneInv
    <3>3. diff[k] = (IF k \in body THEN 1 ELSE 0) - (IF k \in Z THEN 1 ELSE 0)
      BY DifferenceType DEF diff
    <3>4. KeyInStep(k)'
      BY <1>2, <3>1, <3>2, <3>3 DEF KeyInStep
    <3>5. tables'[2][k] = Difference(body', candidates')[k]
      BY <1>3, <1>6, <3>1 DEF diff
    <3>6. KeySettled(k)'
      BY <1>6, <3>5 DEF KeySettled
    <3> QED
      BY <3>4, <3>6
  <2> QED
    BY <1>6, <2>2, <2>3 DEF GrapheneInv
<1> QED
  BY <1>1, <1>4, <1>5, <1>6 DEF ProcessRecoveryResponse

-----------------------------------------------------------------------------
(* Ping-pong *)

\* What is listed of either table is taken out of both.
LEMMA RecurseKeepsKeys ==
  ASSUME GrapheneInv, phase = "pingpong", Recurse, UNCHANGED <<body, asked, netVars>>
  PROVE  /\ tables' \in [1..2 -> [Txs -> {-1, 0, 1}]]
         /\ \A k \in Txs : KeyInStep(k)' /\ KeySettled(k)'
<1> DEFINE pos == Positive(places[Used], tables[Used])
<1> DEFINE neg == Negative(places[Used], tables[Used])
<1>1. Used \in 1..2 /\ tables[1] \in [Txs -> {-1, 0, 1}] /\ tables[2] \in [Txs -> {-1, 0, 1}]
  BY DEF Used, GrapheneInv, GrapheneTypeOK
<1>2. /\ pos \subseteq {k \in Txs : tables[Used][k] = 1}
      /\ neg \subseteq {k \in Txs : tables[Used][k] = -1}
  BY <1>1, ListedEntries
<1>3. /\ tables' = [i \in 1..2 |-> Cancelled(tables[i], pos, neg)]
      /\ inBlock' = inBlock \cup pos /\ notInBlock' = notInBlock \cup neg
      /\ body' = body /\ candidates' = candidates
  BY DEF Recurse, CancelInBoth
<1> HIDE DEF pos, neg
<1>4. /\ tables'[1] = Cancelled(tables[1], pos, neg)
      /\ tables'[2] = Cancelled(tables[2], pos, neg)
  BY <1>3
<1>5. ASSUME NEW k \in Txs
      PROVE  /\ tables'[1][k] = tables[1][k] - (IF k \in pos THEN 1 ELSE 0) + (IF k \in neg THEN 1 ELSE 0)
             /\ tables'[2][k] = tables[2][k] - (IF k \in pos THEN 1 ELSE 0) + (IF k \in neg THEN 1 ELSE 0)
  BY <1>4 DEF Cancelled
<1>6. ASSUME NEW k \in Txs
      PROVE  /\ tables[1][k] \in {-1, 0, 1} /\ tables[2][k] \in {-1, 0, 1}
             /\ KeyInStep(k) /\ KeySettled(k)
             /\ k \in pos => tables[1][k] = 1 \/ tables[2][k] = 1
             /\ k \in neg => tables[1][k] = -1 \/ tables[2][k] = -1
             /\ ~ (k \in pos /\ k \in neg)
  <2>1. k \in pos => tables[Used][k] = 1
    BY <1>2
  <2>2. k \in neg => tables[Used][k] = -1
    BY <1>2
  <2>3. Used = 1 \/ Used = 2
    BY <1>1
  <2>4. KeyInStep(k) /\ KeySettled(k)
    BY DEF GrapheneInv
  <2>5. k \in pos => tables[1][k] = 1 \/ tables[2][k] = 1
    BY <2>1, <2>3
  <2>6. k \in neg => tables[1][k] = -1 \/ tables[2][k] = -1
    BY <2>2, <2>3
  <2>7. ~ (k \in pos /\ k \in neg)
    BY <2>1, <2>2
  <2> QED
    BY <1>1, <2>4, <2>5, <2>6, <2>7
<1>7. ASSUME NEW k \in Txs PROVE KeyInStep(k)'
  BY <1>5, <1>6 DEF KeyInStep
<1>8. ASSUME NEW k \in Txs
      PROVE  tables'[1][k] \in {-1, 0, 1} /\ tables'[2][k] \in {-1, 0, 1}
  BY <1>5, <1>6 DEF KeyInStep
<1>9. ASSUME NEW k \in Txs PROVE KeySettled(k)'
  <2> SUFFICES ASSUME tables'[1][k] = tables'[2][k]
               PROVE  \/ /\ k \notin inBlock' \cup notInBlock'
                         /\ tables'[2][k] = Difference(body', candidates')[k]
                      \/ k \in inBlock' /\ k \notin notInBlock' /\ tables'[2][k] = 0 /\ k \in body'
                      \/ k \notin inBlock' /\ k \in notInBlock' /\ tables'[2][k] = 0 /\ k \notin body'
    BY DEF KeySettled
  <2>1. tables[1][k] = tables[2][k]
    BY <1>5, <1>6
  <2>2. Difference(body, candidates)[k] =
          (IF k \in body THEN 1 ELSE 0) - (IF k \in candidates THEN 1 ELSE 0)
    BY DifferenceType
  <2>3. CASE k \notin pos /\ k \notin neg
    BY <1>3, <1>5, <1>6, <2>1, <2>3 DEF KeySettled
  <2>4. CASE k \in pos
    <3>1. tables[2][k] = 1 /\ k \notin neg /\ tables'[2][k] = 0
      BY <1>5, <1>6, <2>1, <2>4
    <3>2. k \notin inBlock \cup notInBlock /\ k \in body
      BY <1>6, <2>1, <2>2, <3>1 DEF KeySettled
    <3> QED
      BY <1>3, <2>4, <3>1, <3>2
  <2>5. CASE k \in neg
    <3>1. tables[2][k] = -1 /\ k \notin pos /\ tables'[2][k] = 0
      BY <1>5, <1>6, <2>1, <2>5
    <3>2. k \notin inBlock \cup notInBlock /\ k \notin body
      BY <1>6, <2>1, <2>2, <3>1 DEF KeySettled
    <3> QED
      BY <1>3, <2>5, <3>1, <3>2
  <2> QED
    BY <2>3, <2>4, <2>5
<1>10. tables' \in [1..2 -> [Txs -> {-1, 0, 1}]]
  <2>1. /\ tables'[1] \in [Txs -> {-1, 0, 1}]
        /\ tables'[2] \in [Txs -> {-1, 0, 1}]
    BY <1>4, <1>8 DEF Cancelled
  <2> QED
    BY <1>3, <1>4, <2>1
<1> QED
  BY <1>7, <1>9, <1>10

\* With both tables empty ping-pong has found the block, and nothing of it
\* was sent as missing.
LEMMA SuccessIsTheBlock ==
  ASSUME GrapheneInv, phase = "pingpong", BothEmpty
  PROVE  (candidates \cup inBlock) \ notInBlock = body /\ tables[1] = tables[2]
<1>1. turn \in 1..2 /\ tables[1] \in [Txs -> {-1, 0, 1}] /\ tables[2] \in [Txs -> {-1, 0, 1}]
  BY DEF GrapheneInv, GrapheneTypeOK
<1>2. \A k \in Txs : tables[1][k] = 0 /\ tables[2][k] = 0
  <2>1. Entries(tables[1]) = {} /\ Entries(tables[2]) = {}
    BY <1>1 DEF BothEmpty
  <2> QED
    BY <2>1 DEF Entries
<1>3. ASSUME NEW k \in Txs
      PROVE  k \in body <=> k \in (candidates \cup inBlock) \ notInBlock
  <2>1. KeySettled(k) /\ tables[1][k] = tables[2][k] /\ tables[2][k] = 0
    BY <1>2 DEF GrapheneInv
  <2>2. Difference(body, candidates)[k] =
          (IF k \in body THEN 1 ELSE 0) - (IF k \in candidates THEN 1 ELSE 0)
    BY DifferenceType
  <2> QED
    BY <2>1, <2>2 DEF KeySettled
<1>4. body \subseteq Txs /\ candidates \subseteq Txs /\ inBlock \subseteq Txs
  BY DEF GrapheneInv, GrapheneTypeOK
<1> QED
  BY <1>1, <1>2, <1>3, <1>4

\* TryPingPong: each call keeps the two tables in step, and success is exact.
LEMMA PingPongKeepsInv == GrapheneInv /\ TryPingPong => GrapheneInv'
<1> SUFFICES ASSUME GrapheneInv, TryPingPong PROVE GrapheneInv'
  OBVIOUS
<1>1. phase = "pingpong" /\ UNCHANGED <<body, asked, netVars>>
  BY DEF TryPingPong
<1>2. CASE Return
  <2>1. /\ EndAttempt
        /\ turn' = 1 /\ inBlock' = {} /\ notInBlock' = {} /\ depth' = 0
    BY <1>2 DEF Return
  <2>2. whole' \in BOOLEAN /\ (UNCHANGED got \/ Take(body))
    <3>1. CASE BothEmpty /\ Succeed
      BY <1>1, <3>1, SuccessIsTheBlock DEF Succeed, GiveUp, GrapheneInv, GrapheneTypeOK
    <3>2. CASE GiveUp
      BY <3>2, Zenon DEF GiveUp
    <3> QED
      BY <1>2, <3>1, <3>2 DEF Return
  <2>3. got' \subseteq {body}
    BY <2>2 DEF Take, GrapheneInv, DecodedIsExact
  <2>4. TableSizes[1] \in Nat /\ 0 \in 0..(TableSizes[1] + 1)
    BY GrapheneConstants
  <2> QED
    BY <1>1, <2>1, <2>2, <2>3, <2>4, AttemptEnds DEF GrapheneInv, GrapheneTypeOK, DecodedIsExact, netVars, NoPlaces
<1>3. CASE Recurse
  <2>1. /\ tables' \in [1..2 -> [Txs -> {-1, 0, 1}]]
        /\ \A k \in Txs : KeyInStep(k)' /\ KeySettled(k)'
    BY <1>1, <1>3, RecurseKeepsKeys
  <2>5. turn \in 1..2 /\ TableSizes[turn] \in Nat
    BY GrapheneConstants DEF GrapheneInv, GrapheneTypeOK
  <2>6. depth \in Nat
    BY GrapheneConstants DEF GrapheneInv, GrapheneTypeOK
  <2>2. depth' \in 0..(TableSizes[turn] + 1) /\ turn' \in 1..2
    BY <1>3, <2>5, <2>6 DEF Recurse, TooDeep, Deeper, Used
  <2>3. inBlock' \subseteq Txs /\ notInBlock' \subseteq Txs
    BY <1>3 DEF Recurse, Positive, Negative, Listed, Entries, GrapheneInv, GrapheneTypeOK
  <2>4. UNCHANGED <<got, whole, phase, candidates, places>>
    BY <1>3 DEF Recurse
  <2> QED
    BY <1>1, <2>1, <2>2, <2>3, <2>4, <2>5 DEF GrapheneInv, GrapheneTypeOK, DecodedIsExact, netVars, NoPlaces
<1> QED
  BY <1>2, <1>3 DEF TryPingPong

-----------------------------------------------------------------------------
(* Theorems *)

\* Each handler of graphene.cc keeps the invariant.
THEOREM GrapheneInvariance == GrapheneSpec => []GrapheneInv
<1>1. GrapheneInit => GrapheneInv
  BY GrapheneInitially
<1>2. GrapheneInv /\ [GrapheneNext]_grapheneVars => GrapheneInv'
  <2> SUFFICES ASSUME GrapheneInv, [GrapheneNext]_grapheneVars PROVE GrapheneInv'
    OBVIOUS
  <2>1. CASE UNCHANGED grapheneVars
    BY <2>1 DEF grapheneVars, stateVars, pingPongVars, netVars, GrapheneInv, GrapheneTypeOK,
                DecodedIsExact, KeyInStep, KeySettled, NoPlaces
  <2> QED
    BY <2>1, RequestKeepsInv, BlockKeepsInv, CompactKeepsInv, RecoveryRequestKeepsInv,
       ResponseKeepsInv, TimeoutKeepsInv, PingPongKeepsInv DEF GrapheneNext
<1> QED
  BY <1>1, <1>2, PTL DEF GrapheneSpec

\* Type correctness: no transaction is counted twice in a table.
THEOREM GrapheneTypeCorrect == GrapheneSpec => []GrapheneTypeOK
<1>1. GrapheneInv => GrapheneTypeOK
  BY DEF GrapheneInv
<1> QED
  BY <1>1, GrapheneInvariance, PTL

\* Whatever decodes is the block, however its transactions are hashed and
\* whichever attempt a recovery response answers.
THEOREM DecodingIsExact == GrapheneSpec => []DecodedIsExact
<1>1. GrapheneInv => DecodedIsExact
  BY DEF GrapheneInv
<1> QED
  BY <1>1, GrapheneInvariance, PTL

\* What is sent as missing sets the two differences apart, in just that.
LEMMA MissingSetsApart ==
  ASSUME GrapheneInv, HandleGrapheneRecoveryResponse, phase = "waiting", phase' = "pingpong"
  PROVE  Apart' = candidates' \ candidates
<1>1. PICK r \in responses : ProcessRecoveryResponse(r)
  BY DEF HandleGrapheneRecoveryResponse
<1> DEFINE Z == candidates \cup r.missing
<1>2. candidates' = Z /\ tables' = [tables EXCEPT ![2] = Difference(body, Z)]
  BY <1>1 DEF ProcessRecoveryResponse, EndAttempt
<1>3. /\ tables \in [1..2 -> [Txs -> {-1, 0, 1}]] /\ tables[1] = Difference(body, candidates)
      /\ candidates \subseteq Txs /\ body \subseteq Txs /\ r.missing \subseteq body
  BY DEF GrapheneInv, GrapheneTypeOK
<1>4. tables'[1] = Difference(body, candidates) /\ tables'[2] = Difference(body, Z)
  BY <1>2, <1>3
<1>5. \A k \in Txs :
        /\ tables'[1][k] = (IF k \in body THEN 1 ELSE 0) - (IF k \in candidates THEN 1 ELSE 0)
        /\ tables'[2][k] = (IF k \in body THEN 1 ELSE 0) - (IF k \in Z THEN 1 ELSE 0)
  BY <1>4, DifferenceType
<1>6. \A k \in Txs : tables'[1][k] # tables'[2][k] <=> k \in Z \ candidates
  BY <1>3, <1>5
<1>7. Z \subseteq Txs
  BY <1>3
<1> QED
  BY <1>2, <1>6, <1>7 DEF Apart

\* Canceling in both differences keeps what they disagree on.
LEMMA CancelingKeepsApart ==
  ASSUME GrapheneInv, Recurse
  PROVE  Apart' = Apart
<1>1. PICK pos \in SUBSET Txs, neg \in SUBSET Txs : tables' = CancelInBoth(pos, neg)
  <2>1. Positive(places[Used], tables[Used]) \subseteq Txs /\ Negative(places[Used], tables[Used]) \subseteq Txs
    BY DEF Positive, Negative, Listed, Entries
  <2> QED
    BY <2>1 DEF Recurse
<1>2. tables \in [1..2 -> [Txs -> {-1, 0, 1}]]
  BY DEF GrapheneInv, GrapheneTypeOK
<1>3. \A i \in 1..2, k \in Txs :
        tables'[i][k] = tables[i][k] - (IF k \in pos THEN 1 ELSE 0) + (IF k \in neg THEN 1 ELSE 0)
  BY <1>1 DEF CancelInBoth, Cancelled
<1>4. \A k \in Txs : tables[1][k] \in Int /\ tables[2][k] \in Int
  BY <1>2
<1>5. \A k \in Txs : tables'[1][k] # tables'[2][k] <=> tables[1][k] # tables[2][k]
  BY <1>3, <1>4
<1> QED
  BY <1>5 DEF Apart

\* TryPingPong decodes nothing once a transaction was sent as missing.
THEOREM MissingDefeatsPingPong == GrapheneSpec => PingPongNeedsNothingMissing
<1> DEFINE Step ==
      /\ phase = "waiting" /\ phase' = "pingpong" => Apart' = candidates' \ candidates
      /\ phase = "pingpong" /\ phase' = "pingpong" => Apart' = Apart
      /\ phase = "pingpong" /\ got' # got => Apart = {}
<1>1. GrapheneInv /\ [GrapheneNext]_grapheneVars => [Step]_grapheneVars
  <2> SUFFICES ASSUME GrapheneInv, GrapheneNext PROVE Step
    OBVIOUS
  <2>1. CASE phase = "pingpong"
    <3>1. TryPingPong
      BY <2>1 DEF GrapheneNext, HandleReqRelayBlock, HandleBlock, HandleGrapheneBlock,
                  HandleGrapheneRecoveryRequest, HandleGrapheneRecoveryResponse, GrapheneRecoveryTimeout
    <3>2. CASE Return
      <4>1. phase' = "idle"
        BY <3>2 DEF Return, EndAttempt
      <4>2. got' # got => BothEmpty
        BY <3>2 DEF Return, GiveUp
      <4>3. got' # got => Apart = {}
        BY <2>1, <4>2, SuccessIsTheBlock DEF Apart
      <4> QED
        BY <2>1, <4>1, <4>3
    <3>3. CASE Recurse
      BY <2>1, <3>3, CancelingKeepsApart DEF Recurse
    <3> QED
      BY <3>1, <3>2, <3>3 DEF TryPingPong
  <2>2. CASE phase = "waiting" /\ phase' = "pingpong"
    <3>1. HandleGrapheneRecoveryResponse
      BY <2>2 DEF GrapheneNext, HandleReqRelayBlock, HandleBlock, HandleGrapheneBlock, EndAttempt,
                  ProcessIncomingBlock, HandleGrapheneRecoveryRequest, GrapheneRecoveryTimeout,
                  TryPingPong, stateVars
    <3> QED
      BY <2>2, <3>1, MissingSetsApart
  <2> QED
    BY <2>1, <2>2
<1> QED
  BY <1>1, GrapheneInvariance, PTL DEF GrapheneSpec, PingPongNeedsNothingMissing

-----------------------------------------------------------------------------
(* The cells of iblt.h: Iblt *)

Values    == [bytes : Nat, of : SUBSET Txs]
CellTypes == [count : Int, keySum : SUBSET Txs, valueSum : Values]
TablesOf(n) == [0..(n - 1) -> CellTypes]

\* The cells of k in a table of n cells, and the members of S with a cell c.
CellsIn(n, k) == {(i - 1) * (n \div NumHashes) + hash[k][i] : i \in 1..NumHashes}
Here(n, c, S) == {k \in S : c \in CellsIn(n, k)}

\* The table t of n cells has the entries P once, and M once with the other
\* sign: in each cell, the sum of counts and the xor of keys are those of
\* the entries there.
Has(t, n, P, M) ==
  /\ t \in TablesOf(n)
  /\ \A c \in 0..(n - 1) :
       /\ t[c].count = Cardinality(Here(n, c, P)) - Cardinality(Here(n, c, M))
       /\ t[c].keySum = Here(n, c, P) \cup Here(n, c, M)

\* Both tables are as long, so that an entry has the same cells in both.
Length == Size(table)

\* What listEntries has yet to list of the difference, of either sign.
LeftPlus  == (sent \ had) \ Keys(positive)
LeftMinus == (had \ sent) \ Keys(negative)

\* Before the tables are subtracted, and after.
TablesFit ==
  /\ sent \subseteq Txs /\ had \subseteq Txs
  /\ Length \in Nat
  /\ hash \in [Txs -> [1..NumHashes -> 0..(PerHash(table) - 1)]]
  /\ cursor \in -1..Length
  /\ cursor = -1 => /\ Has(table, Length, sent, {}) /\ Has(own, Length, had, {})
                    /\ positive = {} /\ negative = {} /\ ~ erased /\ answer = <<>>
  /\ cursor # -1 => Has(table, Length, LeftPlus, LeftMinus)

\* A pass that has taken nothing out has seen no pure cell.
ListingFits ==
  /\ Keys(positive) \subseteq sent \ had /\ Keys(negative) \subseteq had \ sent
  /\ erased \in BOOLEAN
  /\ ~ erased => \A i \in 0..(cursor - 1) : ~ IsPure(table[i])
IbltInv == TablesFit /\ ListingFits

-----------------------------------------------------------------------------
\* Adding to a cell adds to its count and to the xor of its keys.
LEMMA AddedToCell ==
  ASSUME NEW e \in CellTypes, NEW n \in Int, NEW keys \in SUBSET Txs, NEW v \in Values
  PROVE  /\ Added(e, n, keys, v) \in CellTypes
         /\ Added(e, n, keys, v).count = e.count + n
         /\ Added(e, n, keys, v).keySum = Xor(e.keySum, keys)
<1>1. NoValue \in Values /\ AddValue(e.valueSum, v) \in Values
  BY DEF NoValue, AddValue, Values, CellTypes, Xor
<1>2. e.count + n \in Int /\ Xor(e.keySum, keys) \in SUBSET Txs
  BY DEF CellTypes, Xor
<1> DEFINE f == [e EXCEPT !.count = @ + n, !.keySum = Xor(@, keys)]
<1>3. /\ f \in CellTypes /\ f.count = e.count + n /\ f.keySum = Xor(e.keySum, keys)
      /\ f.valueSum = e.valueSum
  BY <1>2 DEF CellTypes
<1>4. Added(e, n, keys, v) =
        [f EXCEPT !.valueSum = IF IsEmpty(f) THEN NoValue ELSE AddValue(e.valueSum, v)]
  BY <1>3 DEF Added
<1> HIDE DEF f
<1>5. CASE IsEmpty(f)
  BY <1>1, <1>3, <1>4, <1>5 DEF CellTypes
<1>6. CASE ~ IsEmpty(f)
  BY <1>1, <1>3, <1>4, <1>6 DEF CellTypes
<1> QED BY <1>5, <1>6

\* A table of n cells has n cells.
LEMMA CellsOfTable ==
  ASSUME NEW n \in Nat, NEW t \in TablesOf(n)
  PROVE  Size(t) = n /\ DOMAIN t = 0..(n - 1) /\ \A k : Cells(t, k) = CellsIn(n, k)
<1>1. DOMAIN t = 0..(n - 1)
  BY DEF TablesOf
<1>2. Cardinality(0..(n - 1)) = n
  BY FS_Interval
<1>3. Size(t) = n
  BY <1>1, <1>2 DEF Size
<1>4. \A k, i : Cell(t, k, i) = (i - 1) * (n \div NumHashes) + hash[k][i]
  BY Zenon, <1>3 DEF Cell, PerHash
<1>5. \A k : Cells(t, k) = CellsIn(n, k)
  BY Zenon, <1>4 DEF Cells, CellsIn
<1> QED BY <1>1, <1>3, <1>5

\* The members of S in a cell are finitely many, and change with S only
\* where the cell is one of the key that comes or goes.
HereFits(n, c, S, k) ==
  /\ Here(n, c, S) \subseteq S /\ IsFiniteSet(Here(n, c, S))
  /\ Cardinality(Here(n, c, S)) \in Nat
  /\ Here(n, c, S \cup {k}) =
       (IF c \in CellsIn(n, k) THEN Here(n, c, S) \cup {k} ELSE Here(n, c, S))
  /\ Here(n, c, S \ {k}) =
       (IF c \in CellsIn(n, k) THEN Here(n, c, S) \ {k} ELSE Here(n, c, S))

\* So it is for all sets of transactions.
LEMMA HereProperty ==
  ASSUME NEW n, NEW c, NEW S \in SUBSET Txs, NEW k
  PROVE  HereFits(n, c, S, k)
<1>1. Here(n, c, S) \subseteq S
  BY DEF Here
<1>2. IsFiniteSet(Here(n, c, S))
  BY <1>1, IbltConstants, FS_Subset
<1>3. Here(n, c, S \cup {k}) =
        (IF c \in CellsIn(n, k) THEN Here(n, c, S) \cup {k} ELSE Here(n, c, S))
  BY DEF Here
<1>4. Here(n, c, S \ {k}) =
        (IF c \in CellsIn(n, k) THEN Here(n, c, S) \ {k} ELSE Here(n, c, S))
  BY DEF Here
<1> QED BY <1>1, <1>2, <1>3, <1>4, FS_CardinalityType DEF HereFits

\* Inserting touches the cells of the key and leaves the others.
Inserted(u, t, n, sign, k) ==
  /\ u \in TablesOf(n)
  /\ \A c \in 0..(n - 1) :
       IF c \in CellsIn(n, k)
       THEN u[c].count = t[c].count + sign /\ u[c].keySum = Xor(t[c].keySum, {k})
       ELSE u[c].count = t[c].count /\ u[c].keySum = t[c].keySum

\* So it is with any value.
LEMMA InsertedCells ==
  ASSUME NEW n \in Nat, NEW t \in TablesOf(n), NEW sign \in Int, NEW k \in Txs,
         NEW value \in [0..(n - 1) -> Values]
  PROVE  Inserted(Insert(t, sign, k, value), t, n, sign, k)
<1> DEFINE u == Insert(t, sign, k, value)
<1>1. u = [c \in 0..(n - 1) |->
             IF c \in CellsIn(n, k) THEN Added(t[c], sign, {k}, value[c]) ELSE t[c]]
  <2>1. DOMAIN t = 0..(n - 1) /\ Cells(t, k) = CellsIn(n, k)
    BY CellsOfTable
  <2> QED BY <2>1 DEF Insert
<1>2. ASSUME NEW c \in 0..(n - 1)
      PROVE  /\ Added(t[c], sign, {k}, value[c]) \in CellTypes
             /\ Added(t[c], sign, {k}, value[c]).count = t[c].count + sign
             /\ Added(t[c], sign, {k}, value[c]).keySum = Xor(t[c].keySum, {k})
  <2>1. t[c] \in CellTypes /\ value[c] \in Values /\ {k} \in SUBSET Txs
    BY DEF TablesOf
  <2> QED BY <2>1, AddedToCell
<1> HIDE DEF u
<1>3. u \in TablesOf(n)
  BY <1>1, <1>2 DEF TablesOf
<1> QED BY <1>1, <1>2, <1>3 DEF u, Inserted

\* A new entry is in the table after its insertion.
LEMMA InsertNew ==
  ASSUME NEW n \in Nat, NEW t, NEW P \in SUBSET Txs, NEW M \in SUBSET Txs, Has(t, n, P, M),
         NEW k \in Txs, k \notin P, k \notin M, NEW value \in [0..(n - 1) -> Values]
  PROVE  Has(Insert(t, 1, k, value), n, P \cup {k}, M)
<1> DEFINE u == Insert(t, 1, k, value)
<1>1. t \in TablesOf(n) /\ 1 \in Int
  BY DEF Has
<1>2. /\ u \in TablesOf(n)
      /\ \A c \in 0..(n - 1) :
           IF c \in CellsIn(n, k)
           THEN u[c].count = t[c].count + 1 /\ u[c].keySum = Xor(t[c].keySum, {k})
           ELSE u[c].count = t[c].count /\ u[c].keySum = t[c].keySum
  <2>1. Inserted(u, t, n, 1, k)
    BY <1>1, InsertedCells
  <2> HIDE DEF u
  <2> QED BY <2>1 DEF Inserted
<1> HIDE DEF u
<1>3. ASSUME NEW c \in 0..(n - 1)
      PROVE  /\ u[c].count = Cardinality(Here(n, c, P \cup {k})) - Cardinality(Here(n, c, M))
             /\ u[c].keySum = Here(n, c, P \cup {k}) \cup Here(n, c, M)
  <2> DEFINE p == Here(n, c, P)
             m == Here(n, c, M)
             q == Here(n, c, P \cup {k})
  <2>1. t[c].count = Cardinality(p) - Cardinality(m) /\ t[c].keySum = p \cup m
    BY DEF Has
  <2>2. /\ p \subseteq P /\ m \subseteq M /\ IsFiniteSet(p)
        /\ Cardinality(p) \in Nat /\ Cardinality(m) \in Nat
        /\ q = (IF c \in CellsIn(n, k) THEN p \cup {k} ELSE p)
    <3>1. HereFits(n, c, P, k) /\ HereFits(n, c, M, k)
      BY HereProperty
    <3> QED BY <3>1 DEF HereFits
  <2> HIDE DEF p, m, q
  <2>3. CASE c \notin CellsIn(n, k)
    BY <1>2, <2>1, <2>2, <2>3 DEF p, m, q
  <2>4. CASE c \in CellsIn(n, k)
    <3>1. q = p \cup {k} /\ k \notin p /\ k \notin m
      BY <2>2, <2>4
    <3>2. Cardinality(q) = Cardinality(p) + 1
      BY <2>2, <3>1, FS_AddElement
    <3>3. Xor(p \cup m, {k}) = q \cup m
      BY <3>1 DEF Xor
    <3>4. u[c].count = Cardinality(q) - Cardinality(m)
      <4>1. u[c].count = (Cardinality(p) - Cardinality(m)) + 1
        BY <1>2, <2>1, <2>4
      <4> QED BY <2>2, <3>2, <4>1
    <3>5. u[c].keySum = q \cup m
      BY <1>2, <2>1, <2>4, <3>3
    <3> QED BY <3>4, <3>5 DEF q, m
  <2> QED BY <2>3, <2>4
<1> QED BY <1>2, <1>3 DEF Has, u

\* An entry is no longer in the table after its insertion with the other
\* sign.
LEMMA InsertOld ==
  ASSUME NEW n \in Nat, NEW t, NEW P \in SUBSET Txs, NEW M \in SUBSET Txs, Has(t, n, P, M),
         P \cap M = {}, NEW k \in P \cup M, NEW value \in [0..(n - 1) -> Values],
         NEW sign \in Int, sign = IF k \in P THEN -1 ELSE 1
  PROVE  Has(Insert(t, sign, k, value), n, P \ {k}, M \ {k})
<1> DEFINE u == Insert(t, sign, k, value)
<1>1. t \in TablesOf(n) /\ k \in Txs
  BY DEF Has
<1>2. /\ u \in TablesOf(n)
      /\ \A c \in 0..(n - 1) :
           IF c \in CellsIn(n, k)
           THEN u[c].count = t[c].count + sign /\ u[c].keySum = Xor(t[c].keySum, {k})
           ELSE u[c].count = t[c].count /\ u[c].keySum = t[c].keySum
  <2>1. Inserted(u, t, n, sign, k)
    BY <1>1, InsertedCells
  <2> HIDE DEF u
  <2> QED BY <2>1 DEF Inserted
<1> HIDE DEF u
<1>3. ASSUME NEW c \in 0..(n - 1)
      PROVE  /\ u[c].count = Cardinality(Here(n, c, P \ {k})) - Cardinality(Here(n, c, M \ {k}))
             /\ u[c].keySum = Here(n, c, P \ {k}) \cup Here(n, c, M \ {k})
  <2> DEFINE p == Here(n, c, P)
             m == Here(n, c, M)
             q == Here(n, c, P \ {k})
             l == Here(n, c, M \ {k})
  <2>1. t[c].count = Cardinality(p) - Cardinality(m) /\ t[c].keySum = p \cup m
    BY DEF Has
  <2>2. /\ p \subseteq P /\ m \subseteq M /\ IsFiniteSet(p) /\ IsFiniteSet(m)
        /\ Cardinality(p) \in Nat /\ Cardinality(m) \in Nat
        /\ q = (IF c \in CellsIn(n, k) THEN p \ {k} ELSE p)
        /\ l = (IF c \in CellsIn(n, k) THEN m \ {k} ELSE m)
    <3>1. HereFits(n, c, P, k) /\ HereFits(n, c, M, k)
      BY HereProperty
    <3> QED BY <3>1 DEF HereFits
  <2>3. c \in CellsIn(n, k) => (k \in P <=> k \in p) /\ (k \in M <=> k \in m)
    BY DEF Here
  <2> HIDE DEF p, m, q, l
  <2>4. CASE c \notin CellsIn(n, k)
    BY <1>2, <2>1, <2>2, <2>4 DEF p, m, q, l
  <2>5. CASE c \in CellsIn(n, k)
    <3>1. q = p \ {k} /\ l = m \ {k} /\ k \in p \cup m
      BY <2>2, <2>3, <2>5
    <3>2. /\ Cardinality(q) = IF k \in p THEN Cardinality(p) - 1 ELSE Cardinality(p)
          /\ Cardinality(l) = IF k \in m THEN Cardinality(m) - 1 ELSE Cardinality(m)
      BY <2>2, <3>1, FS_RemoveElement
    <3>3. Xor(p \cup m, {k}) = q \cup l
      BY <3>1 DEF Xor
    <3>4. u[c].count = Cardinality(q) - Cardinality(l)
      <4>1. u[c].count = (Cardinality(p) - Cardinality(m)) + sign
        BY <1>2, <2>1, <2>5
      <4>2. CASE k \in p
        <5>1. k \notin m /\ sign = -1
          BY <2>2, <2>3, <2>5, <4>2
        <5> QED BY <2>2, <3>2, <4>1, <4>2, <5>1
      <4>3. CASE k \in m
        <5>1. k \notin p /\ sign = 1
          BY <2>2, <2>3, <2>5, <4>3
        <5> QED BY <2>2, <3>2, <4>1, <4>3, <5>1
      <4> QED BY <3>1, <4>2, <4>3
    <3>5. u[c].keySum = q \cup l
      BY <1>2, <2>1, <2>5, <3>3
    <3> QED BY <3>4, <3>5 DEF q, l
  <2> QED BY <2>4, <2>5
<1> QED BY <1>2, <1>3 DEF Has, u

\* A table made of new cells has no entries, and inserting a set of keys
\* gives a table of just these.
LEMMA WithAllHas ==
  ASSUME NEW n \in Nat, NEW t, Has(t, n, {}, {}), NEW S \in SUBSET Txs
  PROVE  Has(WithAll(t, S), n, S, {})
<1> DEFINE U == TablesOf(n)
           g == [p \in S \X U |-> InsertOne(p[1], p[2])]
           links == CHOOSE f : f = [s \in SUBSET S |->
                      IF s = {} THEN t
                      ELSE LET x == CHOOSE x \in s : TRUE IN InsertOne(x, f[s \ {x}])]
<1>1. WithAll(t, S) = links[S]
  BY Zenon DEF WithAll, FoldSet, MapThenFoldSet
<1>2. IsFiniteSet(S) /\ t \in U
  BY IbltConstants, FS_Subset DEF Has
<1>3. ASSUME NEW x \in S, NEW u \in U
      PROVE  /\ InsertOne(x, u) \in U
             /\ \A T \in SUBSET Txs : x \notin T /\ Has(u, n, T, {})
                                        => Has(InsertOne(x, u), n, T \cup {x}, {})
  <2> DEFINE v == [c \in DOMAIN u |-> U64ToVec(x)]
  <2>1. x \in Txs /\ DOMAIN u = 0..(n - 1) /\ U64ToVec(x) \in Values
    BY IbltConstants DEF U64ToVec, Values, TablesOf
  <2>2. v \in [0..(n - 1) -> Values]
    BY <2>1
  <2>3. InsertOne(x, u) = Insert(u, 1, x, v)
    BY DEF InsertOne
  <2> HIDE DEF v, U
  <2>4. Inserted(Insert(u, 1, x, v), u, n, 1, x)
    BY <2>1, <2>2, InsertedCells DEF U
  <2>5. ASSUME NEW T \in SUBSET Txs, x \notin T, Has(u, n, T, {})
        PROVE  Has(Insert(u, 1, x, v), n, T \cup {x}, {})
    BY <2>1, <2>2, <2>5, InsertNew
  <2> QED BY <2>3, <2>4, <2>5 DEF Inserted, U
<1>4. g \in [S \X U -> U]
  <2> HIDE DEF U
  <2> QED BY <1>3
<1>5. PICK f : IsFold(f, S, U, t, g)
  <2> HIDE DEF U, g
  <2> QED BY <1>2, <1>4, FoldExists
<1>6. f = [s \in SUBSET S |->
             IF s = {} THEN t
             ELSE LET x == CHOOSE x \in s : TRUE IN InsertOne(x, f[s \ {x}])]
  <2>1. /\ f \in [SUBSET S -> U]
        /\ \A s \in SUBSET S :
             f[s] = IF s = {} THEN t
                    ELSE LET x == CHOOSE x \in s : TRUE IN g[<<x, f[s \ {x}]>>]
    BY <1>5 DEF IsFold
  <2>2. ASSUME NEW s \in SUBSET S, s # {}
        PROVE  LET x == CHOOSE x \in s : TRUE
               IN  g[<<x, f[s \ {x}]>>] = InsertOne(x, f[s \ {x}])
    <3> DEFINE x == CHOOSE x \in s : TRUE
    <3>1. x \in S /\ s \ {x} \in SUBSET S
      BY <2>2
    <3> HIDE DEF x, U
    <3>2. f[s \ {x}] \in U
      BY <2>1, <3>1
    <3>3. g[<<x, f[s \ {x}]>>] = InsertOne(x, f[s \ {x}])
      BY <3>1, <3>2
    <3> QED BY <3>3 DEF x
  <2> HIDE DEF g, U
  <2> QED BY <2>1, <2>2
<1>7. links = [s \in SUBSET S |->
                 IF s = {} THEN t
                 ELSE LET x == CHOOSE x \in s : TRUE IN InsertOne(x, links[s \ {x}])]
  BY <1>6
<1> HIDE DEF links
<1> DEFINE G == {T \in SUBSET S : links[T] \in U /\ Has(links[T], n, T, {})}
<1>8. {} \in G
  BY <1>2, <1>7
<1>9. ASSUME NEW T \in (SUBSET S) \ {{}} PROVE \E x \in T : T \ {x} \in G => T \in G
  <2> DEFINE x == CHOOSE x \in T : TRUE
  <2>1. x \in T
    OBVIOUS
  <2>2. links[T] = InsertOne(x, links[T \ {x}])
    BY <1>7
  <2> HIDE DEF x, U
  <2>3. ASSUME T \ {x} \in G PROVE T \in G
    <3>1. links[T \ {x}] \in U /\ Has(links[T \ {x}], n, T \ {x}, {})
      BY <2>3
    <3>2. T \ {x} \in SUBSET Txs /\ x \in S /\ x \notin T \ {x} /\ (T \ {x}) \cup {x} = T
      BY <2>1
    <3>3. Has(InsertOne(x, links[T \ {x}]), n, (T \ {x}) \cup {x}, {})
      BY <1>3, <3>1, <3>2
    <3>4. InsertOne(x, links[T \ {x}]) \in U
      BY <1>3, <3>1, <3>2
    <3> QED BY <2>2, <3>2, <3>3, <3>4
  <2> QED BY <2>1, <2>3
<1> HIDE DEF G
<1>10. S \in G
  BY <1>2, <1>8, <1>9, RemovalInduction
<1> QED BY <1>1, <1>10 DEF G

\* Sizes of sets without what they share.
LEMMA WithoutShared ==
  ASSUME NEW A, NEW B, IsFiniteSet(A), IsFiniteSet(B)
  PROVE  Cardinality(A) - Cardinality(B) = Cardinality(A \ B) - Cardinality(B \ A)
<1>1. /\ Cardinality(A \ B) = Cardinality(A) - Cardinality(A \cap B)
      /\ Cardinality(B \ A) = Cardinality(B) - Cardinality(B \cap A)
  BY FS_Difference
<1>2. A \cap B = B \cap A /\ IsFiniteSet(A \cap B)
  BY FS_Intersection
<1>3. Cardinality(A) \in Nat /\ Cardinality(B) \in Nat /\ Cardinality(A \cap B) \in Nat
  BY <1>2, FS_CardinalityType
<1> QED BY <1>1, <1>2, <1>3

\* One table minus another one has what is in one of them only.
LEMMA MinusHas ==
  ASSUME NEW n \in Nat, NEW t, NEW S \in SUBSET Txs, Has(t, n, S, {}),
         NEW u, NEW R \in SUBSET Txs, Has(u, n, R, {})
  PROVE  Has(Minus(t, u), n, S \ R, R \ S)
<1> DEFINE d == Minus(t, u)
           D == 0..(n - 1)
<1>1. t \in TablesOf(n) /\ u \in TablesOf(n) /\ DOMAIN t = D
  BY DEF Has, TablesOf
<1>2. d = [c \in D |-> Added(t[c], - u[c].count, u[c].keySum, u[c].valueSum)]
  BY <1>1 DEF Minus
<1> HIDE DEF d
<1>3. ASSUME NEW c \in D
      PROVE  /\ d[c] \in CellTypes
             /\ d[c].count = t[c].count + (- u[c].count)
             /\ d[c].keySum = Xor(t[c].keySum, u[c].keySum)
  <2>1. t[c] \in CellTypes /\ u[c] \in CellTypes
    BY <1>1 DEF TablesOf
  <2>2. - u[c].count \in Int /\ u[c].keySum \in SUBSET Txs /\ u[c].valueSum \in Values
    BY <2>1 DEF CellTypes
  <2>3. d[c] = Added(t[c], - u[c].count, u[c].keySum, u[c].valueSum)
    BY <1>2
  <2> QED BY <2>1, <2>2, <2>3, AddedToCell
<1>4. d \in TablesOf(n)
  BY <1>2, <1>3 DEF TablesOf
<1>5. ASSUME NEW c \in D
      PROVE  /\ d[c].count = Cardinality(Here(n, c, S \ R)) - Cardinality(Here(n, c, R \ S))
             /\ d[c].keySum = Here(n, c, S \ R) \cup Here(n, c, R \ S)
  <2> DEFINE s == Here(n, c, S)
             r == Here(n, c, R)
  <2>1. Here(n, c, {}) = {} /\ Cardinality({}) = 0
    BY FS_EmptySet DEF Here
  <2>2. IsFiniteSet(s) /\ IsFiniteSet(r) /\ Cardinality(s) \in Nat /\ Cardinality(r) \in Nat
    <3>1. HereFits(n, c, S, {}) /\ HereFits(n, c, R, {})
      BY HereProperty
    <3> QED BY <3>1 DEF HereFits
  <2>3. Here(n, c, S \ R) = s \ r /\ Here(n, c, R \ S) = r \ s
    BY DEF Here
  <2>4. /\ t[c].count = Cardinality(s) - 0 /\ t[c].keySum = s
        /\ u[c].count = Cardinality(r) - 0 /\ u[c].keySum = r
    BY <2>1 DEF Has
  <2> HIDE DEF s, r, D
  <2>5. d[c].count = Cardinality(s) - Cardinality(r)
    <3>1. d[c].count = t[c].count + (- u[c].count)
      BY <1>3
    <3> QED BY <2>2, <2>4, <3>1
  <2>6. Cardinality(s) - Cardinality(r) = Cardinality(s \ r) - Cardinality(r \ s)
    BY <2>2, WithoutShared
  <2>7. d[c].keySum = (s \ r) \cup (r \ s)
    BY <1>3, <2>4 DEF Xor
  <2> QED BY <2>3, <2>5, <2>6, <2>7
<1> QED BY <1>4, <1>5 DEF Has, d

\* Sizes of new tables: one of the size of another one is as long.
LEMMA RoundedProperty ==
  ASSUME NEW n \in Nat
  PROVE  RoundedUp(n) \in Nat /\ RoundedUp(RoundedUp(n)) = RoundedUp(n)
<1> DEFINE N == NumHashes
           q == n \div N
           r == n % N
           m == RoundedUp(n)
<1>0. N \in Nat \ {0}
  BY IbltConstants
<1>1. m = n + ((N - r) % N) /\ RoundedUp(m) = m + ((N - (m % N)) % N)
  BY DEF RoundedUp
<1> HIDE DEF N, m
<1>2. r \in 0..(N - 1) /\ n = N * q + r /\ q \in Nat
  BY <1>0
<1> HIDE DEF q, r
<1>3. N % N = 0 /\ \A k \in Nat : (N * k) % N = 0
  BY <1>0
<1>4. m \in Nat /\ m % N = 0
  <2>1. CASE r = 0
    <3>1. m = N * q
      BY <1>0, <1>1, <1>2, <1>3, <2>1
    <3> QED BY <1>0, <1>2, <1>3, <3>1
  <2>2. CASE r # 0
    <3>1. N - r \in 0..(N - 1)
      BY <1>0, <1>2, <2>2
    <3>2. (N - r) % N = N - r
      BY <1>0, <3>1
    <3>3. m = N * q + N
      BY <1>0, <1>1, <1>2, <3>2
    <3>4. m = N * (q + 1) /\ q + 1 \in Nat
      BY <1>0, <1>2, <3>3
    <3> QED BY <1>0, <1>3, <3>4
  <2> QED BY <2>1, <2>2
<1>5. RoundedUp(m) = m
  BY <1>0, <1>1, <1>3, <1>4
<1> QED BY <1>4, <1>5 DEF m

\* A new table has no entries.
LEMMA NewHas ==
  ASSUME NEW n \in Nat
  PROVE  Has([i \in 0..(n - 1) |-> EmptyCell], n, {}, {})
<1> DEFINE t == [i \in 0..(n - 1) |-> EmptyCell]
<1>1. EmptyCell \in CellTypes /\ EmptyCell.count = 0 /\ EmptyCell.keySum = {}
  BY DEF EmptyCell, NoValue, CellTypes, Values
<1>2. \A c : Here(n, c, {}) = {}
  BY DEF Here
<1>3. Cardinality({}) = 0
  BY FS_EmptySet
<1>4. t \in TablesOf(n) /\ \A c \in 0..(n - 1) : t[c] = EmptyCell
  BY <1>1 DEF TablesOf
<1> HIDE DEF t
<1>5. Has(t, n, {}, {})
  BY <1>1, <1>2, <1>3, <1>4 DEF Has
<1> QED BY <1>5 DEF t

\* The cells of a key are in the table.
LEMMA CellInTable ==
  ASSUME TablesFit, NEW k \in Txs, NEW c \in CellsIn(Length, k)
  PROVE  c \in 0..(Length - 1)
<1>1. PICK i \in 1..NumHashes : c = (i - 1) * (Length \div NumHashes) + hash[k][i]
  BY DEF CellsIn
<1>2. hash[k][i] \in 0..((Length \div NumHashes) - 1)
  BY DEF TablesFit, PerHash, Length
<1> DEFINE n == Length
           N == NumHashes
           p == n \div N
           h == hash[k][i]
<1>3. n \in Nat /\ N \in Nat \ {0}
  BY IbltConstants DEF TablesFit
<1> HIDE DEF n, N
<1>4. p \in Nat /\ N * p <= n
  BY <1>3
<1>5. c = (i - 1) * p + h /\ h \in 0..(p - 1) /\ i \in 1..N
  BY <1>1, <1>2 DEF n, N
<1> HIDE DEF p, h
<1>6. (i - 1) * p + h \in 0..(n - 1)
  BY <1>3, <1>4, <1>5
<1> QED BY <1>5, <1>6 DEF n

\* k is the one entry in the cell c.
Alone(n, c, P, M, k) == Here(n, c, P) \cup Here(n, c, M) = {k}

\* A cell is pure if it has one entry, and its count is the sign of that.
PureFits(e, n, c, P, M) ==
  /\ IsPure(e) => \E k : Alone(n, c, P, M, k) /\ e.keySum = {k}
  /\ \A k : Alone(n, c, P, M, k) =>
       /\ IsPure(e) /\ k \in P \cup M /\ c \in CellsIn(n, k)
       /\ e.count = IF k \in P THEN 1 ELSE -1

\* So it is in every table of entries, each of them once.
LEMMA PureCell ==
  ASSUME NEW n \in Nat, NEW t, NEW P \in SUBSET Txs, NEW M \in SUBSET Txs, P \cap M = {},
         Has(t, n, P, M), NEW c \in 0..(n - 1)
  PROVE  PureFits(t[c], n, c, P, M)
<1> DEFINE p == Here(n, c, P)
           m == Here(n, c, M)
<1>1. t[c].count = Cardinality(p) - Cardinality(m) /\ t[c].keySum = p \cup m
  BY DEF Has
<1>2. /\ p \subseteq P /\ m \subseteq M /\ IsFiniteSet(p) /\ IsFiniteSet(m)
      /\ \A k \in p \cup m : c \in CellsIn(n, k)
  <2>1. HereFits(n, c, P, {}) /\ HereFits(n, c, M, {})
    BY HereProperty
  <2>2. \A k \in p \cup m : c \in CellsIn(n, k)
    BY DEF Here
  <2> QED BY <2>1, <2>2 DEF HereFits
<1> HIDE DEF p, m
<1>3. ASSUME IsPure(t[c]) PROVE \E k : p \cup m = {k} /\ t[c].keySum = {k}
  <2>1. IsFiniteSet(p \cup m) /\ Cardinality(p \cup m) = 1
    BY <1>1, <1>2, <1>3, FS_Union DEF IsPure
  <2> QED BY <1>1, <2>1, FS_Singleton
<1>4. ASSUME NEW k, p \cup m = {k}
      PROVE  /\ IsPure(t[c]) /\ k \in P \cup M /\ c \in CellsIn(n, k)
             /\ t[c].count = IF k \in P THEN 1 ELSE -1
  <2>1. k \in P \cup M /\ c \in CellsIn(n, k)
    BY <1>2, <1>4
  <2>2. Cardinality({k}) = 1 /\ Cardinality({}) = 0
    BY FS_Singleton, FS_EmptySet
  <2>3. CASE k \in P
    <3>1. p = {k} /\ m = {}
      BY <1>2, <1>4, <2>3
    <3>2. t[c].count = 1
      BY <1>1, <2>2, <3>1
    <3> QED BY <1>1, <1>4, <2>1, <2>2, <2>3, <3>2 DEF IsPure
  <2>4. CASE k \notin P
    <3>1. m = {k} /\ p = {}
      BY <1>2, <1>4, <2>1, <2>4
    <3>2. t[c].count = -1
      BY <1>1, <2>2, <3>1
    <3> QED BY <1>1, <1>4, <2>1, <2>2, <2>4, <3>2 DEF IsPure
  <2> QED BY <2>3, <2>4
<1> QED BY <1>3, <1>4 DEF PureFits, Alone, p, m

\* A cell is empty if nothing is in it.
LEMMA EmptyHas ==
  ASSUME NEW n \in Nat, NEW t, NEW P \in SUBSET Txs, NEW M \in SUBSET Txs,
         Has(t, n, P, M), NEW c \in 0..(n - 1)
  PROVE  IsEmpty(t[c]) <=> Here(n, c, P) \cup Here(n, c, M) = {}
<1>1. Cardinality({}) = 0
  BY FS_EmptySet
<1>2. /\ t[c].count = Cardinality(Here(n, c, P)) - Cardinality(Here(n, c, M))
      /\ t[c].keySum = Here(n, c, P) \cup Here(n, c, M)
  BY DEF Has
<1>3. ASSUME Here(n, c, P) \cup Here(n, c, M) = {} PROVE t[c].count = 0
  <2>1. Here(n, c, P) = {} /\ Here(n, c, M) = {}
    BY <1>3
  <2> QED BY <1>1, <1>2, <2>1
<1> QED BY <1>2, <1>3 DEF IsEmpty

\* What is in a table stays in it while the hashes stay.
LEMMA HasStays ==
  ASSUME NEW n, NEW t, NEW P, NEW M, Has(t, n, P, M), hash' = hash
  PROVE  Has(t, n, P, M)'
<1>1. \A k : CellsIn(n, k)' = CellsIn(n, k)
  BY DEF CellsIn
<1>2. \A c, S : Here(n, c, S)' = Here(n, c, S)
  BY <1>1 DEF Here
<1>3. TablesOf(n)' = TablesOf(n)
  BY DEF TablesOf, CellTypes, Values
<1> QED BY <1>2, <1>3 DEF Has

-----------------------------------------------------------------------------
\* The tables as they are made.
LEMMA IbltStart ==
  ASSUME IbltInit
  PROVE  IbltInv
<1> DEFINE m == (Expected * Hedge[1]) \div Hedge[2]
           n == RoundedUp(m)
           empty == NewTable(Expected, Hedge)
<1>1. m \in Nat
  <2>1. Expected * Hedge[1] \in Nat /\ Hedge[2] \in Nat \ {0}
    BY IbltConstants
  <2> QED BY <2>1
<1>2. empty = [i \in 0..(n - 1) |-> EmptyCell]
  BY DEF NewTable
<1> HIDE DEF m
<1>3. n \in Nat /\ RoundedUp(n) = n
  BY <1>1, RoundedProperty
<1> HIDE DEF n, empty
<1>4. /\ sent \in SUBSET Txs /\ had \in SUBSET Txs
      /\ hash \in [Txs -> [1..NumHashes -> 0..(PerHash(empty) - 1)]]
      /\ table = WithAll(empty, sent)
      /\ own = WithAll(NewTable(Size(table), <<1, 1>>), had)
      /\ cursor = -1 /\ erased = FALSE
      /\ positive = {} /\ negative = {} /\ answer = <<>>
  BY DEF IbltInit, empty
<1>5. Has(empty, n, {}, {})
  BY <1>2, <1>3, NewHas
<1>6. Has(table, n, sent, {})
  BY <1>3, <1>4, <1>5, WithAllHas
<1>7. Length = n /\ Size(empty) = n
  BY <1>3, <1>5, <1>6, CellsOfTable DEF Has, Length
<1>8. NewTable(Size(table), <<1, 1>>) = [i \in 0..(n - 1) |-> EmptyCell]
  <2>1. (n * <<1, 1>>[1]) \div <<1, 1>>[2] = n
    BY <1>3
  <2> QED BY <1>3, <1>7, <2>1 DEF NewTable, Length
<1>9. Has(own, n, had, {})
  <2>1. Has(NewTable(Size(table), <<1, 1>>), n, {}, {})
    BY <1>3, <1>8, NewHas
  <2> QED BY <1>3, <1>4, <2>1, WithAllHas
<1>10. PerHash(empty) = PerHash(table)
  BY <1>7 DEF PerHash, Length
<1>11. TablesFit
  <2>1. cursor \in -1..Length
    BY <1>3, <1>4, <1>7
  <2> QED BY <1>3, <1>4, <1>6, <1>7, <1>9, <1>10, <2>1 DEF TablesFit
<1>12. ListingFits
  <2>1. Keys({}) = {}
    BY DEF Keys
  <2>2. \A i \in 0..(cursor - 1) : FALSE
    BY <1>4
  <2> QED BY <1>4, <2>1, <2>2 DEF ListingFits
<1> QED BY <1>11, <1>12 DEF IbltInv

\* The difference is what is in one of the sets only.
LEMMA SubtractKeeps ==
  ASSUME IbltInv, Subtract
  PROVE  IbltInv' /\ DOMAIN table' = DOMAIN table
<1>1. /\ cursor = -1 /\ cursor' = 0 /\ table' = Minus(table, own)
      /\ UNCHANGED <<sent, had, hash, own, erased, positive, negative, answer>>
  BY DEF Subtract
<1>2. PICK n : n = Length
  OBVIOUS
<1>3. /\ n \in Nat /\ sent \in SUBSET Txs /\ had \in SUBSET Txs
      /\ Has(table, n, sent, {}) /\ Has(own, n, had, {}) /\ positive = {} /\ negative = {}
  BY <1>1, <1>2 DEF IbltInv, TablesFit
<1>4. Has(Minus(table, own), n, sent \ had, had \ sent)
  BY <1>3, MinusHas
<1>5. PICK t, P, M : t = table' /\ P = sent \ had /\ M = had \ sent
  OBVIOUS
<1>6. Has(t, n, P, M)
  BY <1>1, <1>4, <1>5
<1>7. t \in TablesOf(n) /\ table \in TablesOf(n)
  BY <1>3, <1>6 DEF Has
<1>8. Size(t) = n /\ DOMAIN t = 0..(n - 1) /\ DOMAIN table = 0..(n - 1)
  BY <1>3, <1>7, CellsOfTable
<1>9. Length' = n /\ PerHash(table)' = PerHash(table)
  BY <1>1, <1>2, <1>5, <1>8 DEF Length, PerHash, Size
<1>10. LeftPlus' = P /\ LeftMinus' = M
  BY <1>1, <1>3, <1>5 DEF LeftPlus, LeftMinus, Keys
<1>11. Has(table, Length, LeftPlus, LeftMinus)'
  <2>1. Has(t, n, P, M)'
    BY <1>1, <1>6, HasStays
  <2> QED BY <1>5, <1>9, <1>10, <2>1
<1>12. TablesFit'
  <2>1. cursor' \in -1..Length'
    BY <1>1, <1>3, <1>9
  <2> QED BY <1>1, <1>3, <1>9, <1>11, <2>1 DEF IbltInv, TablesFit
<1>13. ListingFits'
  <2>1. 0..(cursor' - 1) = {}
    BY <1>1
  <2> QED BY <1>1, <2>1 DEF IbltInv, ListingFits
<1> QED BY <1>5, <1>8, <1>12, <1>13 DEF IbltInv

\* One more entry is one more key.
LEMMA KeysOfMore ==
  ASSUME NEW S, NEW k, NEW v
  PROVE  Keys(S \cup {<<k, v>>}) = Keys(S) \cup {k}
<1>1. <<k, v>>[1] = k
  OBVIOUS
<1>2. ASSUME NEW x PROVE x \in Keys(S \cup {<<k, v>>}) <=> x \in Keys(S) \/ x = k
  BY <1>1 DEF Keys
<1> QED BY <1>2

\* What a turn that finds a pure cell does: the one entry there is listed
\* under its sign, and is no longer in the table.
Lists(k) ==
  /\ answer = <<>> /\ answer' = answer
  /\ k \in LeftPlus \cup LeftMinus
  /\ Alone(Length, cursor, LeftPlus, LeftMinus, k)
  /\ cursor \in 0..(Length - 1) /\ cursor \in CellsIn(Length, k)
  /\ Keys(positive)' = IF k \in LeftPlus THEN Keys(positive) \cup {k} ELSE Keys(positive)
  /\ Keys(negative)' = IF k \in LeftPlus THEN Keys(negative) ELSE Keys(negative) \cup {k}

\* A turn keeps the tables, and lists an entry or none.
LEMMA LookKeeps ==
  ASSUME IbltInv, Look
  PROVE  /\ IbltInv' /\ DOMAIN table' = DOMAIN table
         /\ \/ UNCHANGED <<positive, negative, answer>>
            \/ \E k : Lists(k)
<1> DEFINE e == table[cursor]
           key == CHOOSE k \in e.keySum : TRUE
           value == [c \in DOMAIN table |->
                       IF c <= cursor THEN e.valueSum
                       ELSE Added(e, - e.count, {key}, e.valueSum).valueSum]
<1>1. /\ cursor \in DOMAIN table /\ answer = <<>> /\ cursor' = cursor + 1
      /\ UNCHANGED <<sent, had, hash, own, answer>>
  BY DEF Look
<1>2. PICK n, P, M : n = Length /\ P = LeftPlus /\ M = LeftMinus
  OBVIOUS
<1>3. n \in Nat /\ sent \subseteq Txs /\ had \subseteq Txs
  BY <1>2 DEF IbltInv, TablesFit
<1>4. table \in TablesOf(n) /\ DOMAIN table = 0..(n - 1)
  <2>1. Has(table, n, sent, {}) \/ Has(table, n, P, M)
    BY <1>2 DEF IbltInv, TablesFit
  <2>2. table \in TablesOf(n)
    BY <2>1 DEF Has
  <2> QED BY <1>3, <2>2, CellsOfTable
<1>5. cursor \in 0..(n - 1) /\ cursor # -1
  BY <1>1, <1>3, <1>4
<1>6. Has(table, n, P, M) /\ P \in SUBSET Txs /\ M \in SUBSET Txs /\ P \cap M = {}
  BY <1>2, <1>3, <1>5 DEF IbltInv, TablesFit, LeftPlus, LeftMinus
<1>7. cursor' \in -1..n /\ cursor' # -1
  BY <1>1, <1>3, <1>5
<1>8. CASE ~ IsPure(e)
  <2>1. UNCHANGED <<table, erased, positive, negative>>
    BY <1>8 DEF Look
  <2>2. UNCHANGED <<Length, LeftPlus, LeftMinus, Keys(positive), Keys(negative)>>
        /\ PerHash(table)' = PerHash(table)
    BY <1>1, <2>1 DEF Length, LeftPlus, LeftMinus, PerHash, Size, Keys
  <2>3. Has(table, Length, LeftPlus, LeftMinus)'
    <3>1. PICK t : t = table
      OBVIOUS
    <3>2. Has(t, n, P, M)'
      BY <1>1, <1>6, <3>1, HasStays
    <3> QED BY <1>2, <2>1, <2>2, <3>1, <3>2
  <2>4. TablesFit'
    BY <1>1, <1>2, <1>3, <1>7, <2>1, <2>2, <2>3 DEF IbltInv, TablesFit
  <2>5. \A i \in 0..(cursor' - 1) : i \in 0..(cursor - 1) \/ i = cursor
    BY <1>1, <1>3, <1>5
  <2>6. ListingFits'
    BY <1>1, <1>8, <2>1, <2>2, <2>5 DEF IbltInv, ListingFits
  <2> QED BY <1>1, <2>1, <2>4, <2>6 DEF IbltInv
<1>9. CASE IsPure(e)
  <2>1. /\ IF e.count = 1
             THEN positive' = positive \cup {<<key, e.valueSum>>} /\ negative' = negative
             ELSE negative' = negative \cup {<<key, e.valueSum>>} /\ positive' = positive
        /\ table' = Insert(table, - e.count, key, value)
        /\ erased' = TRUE
    BY <1>9 DEF Look
  <2>2. e \in CellTypes
    BY <1>4, <1>5 DEF TablesOf
  <2>0. PureFits(e, n, cursor, P, M)
    BY <1>3, <1>5, <1>6, PureCell
  <2>3. PICK k : Alone(n, cursor, P, M, k) /\ e.keySum = {k}
    <3> HIDE DEF e
    <3> QED BY <1>9, <2>0 DEF PureFits
  <2>4. /\ k \in P \cup M /\ cursor \in CellsIn(n, k)
        /\ e.count = IF k \in P THEN 1 ELSE -1
    <3> HIDE DEF e
    <3> QED BY <2>0, <2>3 DEF PureFits
  <2>5. key = k
    BY <2>3
  <2>6. value \in [0..(n - 1) -> Values]
    <3>1. e.valueSum \in Values /\ - e.count \in Int /\ {k} \in SUBSET Txs
      BY <1>6, <2>2, <2>4 DEF CellTypes
    <3>2. Added(e, - e.count, {k}, e.valueSum) \in CellTypes
      BY <2>2, <3>1, AddedToCell
    <3>3. Added(e, - e.count, {k}, e.valueSum).valueSum \in Values
      BY <3>2 DEF CellTypes
    <3> HIDE DEF e, key
    <3> QED BY <1>4, <2>5, <3>1, <3>3
  <2> HIDE DEF e, key, value
  <2>7. PICK t, sign, p, m : /\ t = table' /\ sign = - e.count
                             /\ p = P \ {k} /\ m = M \ {k}
    OBVIOUS
  <2>8. sign \in Int /\ sign = IF k \in P THEN -1 ELSE 1
    BY <2>4, <2>7
  <2>9. Has(t, n, p, m)
    <3>1. Has(Insert(table, sign, k, value), n, P \ {k}, M \ {k})
      BY <1>3, <1>6, <2>4, <2>6, <2>8, InsertOld
    <3> QED BY <2>1, <2>5, <2>7, <3>1
  <2>10. t \in TablesOf(n) /\ Size(t) = n /\ DOMAIN t = 0..(n - 1)
    <3>1. t \in TablesOf(n)
      BY <2>9 DEF Has
    <3> QED BY <1>3, <3>1, CellsOfTable
  <2>11. Length' = n /\ PerHash(table)' = PerHash(table)
    BY <1>2, <1>4, <2>7, <2>10 DEF Length, PerHash, Size
  <2>12. /\ Keys(positive)' = IF k \in P THEN Keys(positive) \cup {k} ELSE Keys(positive)
         /\ Keys(negative)' = IF k \in P THEN Keys(negative) ELSE Keys(negative) \cup {k}
    <3>1. \A S, v : Keys(S \cup {<<k, v>>}) = Keys(S) \cup {k}
      BY KeysOfMore
    <3>2. Keys(positive)' = Keys(positive') /\ Keys(negative)' = Keys(negative')
      BY DEF Keys
    <3>3. e.count = 1 <=> k \in P
      BY <2>4
    <3> QED BY <2>1, <2>5, <3>1, <3>2, <3>3
  <2>13. LeftPlus' = p /\ LeftMinus' = m
    <3>1. /\ P = (sent \ had) \ Keys(positive) /\ M = (had \ sent) \ Keys(negative)
          /\ LeftPlus' = (sent \ had) \ Keys(positive)'
          /\ LeftMinus' = (had \ sent) \ Keys(negative)'
      BY <1>1, <1>2 DEF LeftPlus, LeftMinus, Keys
    <3> QED BY <1>6, <2>4, <2>7, <2>12, <3>1
  <2>14. Has(table, Length, LeftPlus, LeftMinus)'
    <3>1. Has(t, n, p, m)'
      BY <1>1, <2>9, HasStays
    <3> QED BY <2>7, <2>11, <2>13, <3>1
  <2>15. TablesFit'
    BY <1>1, <1>3, <1>7, <2>11, <2>14 DEF IbltInv, TablesFit
  <2>16. ListingFits'
    <3>1. k \in P => k \in sent \ had
      BY <1>2 DEF LeftPlus
    <3>2. k \notin P => k \in had \ sent
      BY <1>2, <2>4 DEF LeftMinus
    <3>3. /\ Keys(positive)' \subseteq (sent \ had)' /\ Keys(negative)' \subseteq (had \ sent)'
      BY <1>1, <2>12, <3>1, <3>2 DEF IbltInv, ListingFits
    <3> QED BY <2>1, <3>3 DEF ListingFits
  <2>17. Lists(k)
    BY <1>1, <1>2, <1>5, <2>3, <2>4, <2>12 DEF Lists
  <2> QED BY <1>4, <2>7, <2>10, <2>15, <2>16, <2>17 DEF IbltInv
<1> QED BY <1>8, <1>9

\* The end of a pass changes no table; if the pass has taken nothing out, no
\* cell is pure.
LEMMA EndPassKeeps ==
  ASSUME IbltInv, EndPass
  PROVE  /\ IbltInv' /\ DOMAIN table' = DOMAIN table
         /\ \/ UNCHANGED <<positive, negative, answer>>
            \/ /\ answer = <<>> /\ cursor # -1 /\ UNCHANGED <<positive, negative>>
               /\ answer' = <<\A i \in 0..(PerHash(table) - 1) : IsEmpty(table[i])>>
               /\ \A i \in 0..(Length - 1) : ~ IsPure(table[i])
<1>1. /\ cursor = Size(table) /\ answer = <<>>
      /\ UNCHANGED <<sent, had, hash, table, own, positive, negative>>
      /\ IF erased THEN cursor' = 0 /\ erased' = FALSE /\ answer' = answer
         ELSE /\ answer' = <<\A i \in 0..(PerHash(table) - 1) : IsEmpty(table[i])>>
              /\ cursor' = cursor /\ erased' = erased
  BY DEF EndPass
<1>2. PICK n, t, P, M : n = Length /\ t = table /\ P = LeftPlus /\ M = LeftMinus
  OBVIOUS
<1>3. n \in Nat /\ cursor = n /\ cursor # -1
  BY <1>1, <1>2 DEF IbltInv, TablesFit, Length
<1>4. UNCHANGED <<Length, LeftPlus, LeftMinus, Keys(positive), Keys(negative)>>
      /\ PerHash(table)' = PerHash(table)
  <2>1. UNCHANGED <<sent, had, table, positive, negative>>
    BY <1>1
  <2>2. Length' = Length /\ PerHash(table)' = PerHash(table)
    BY <2>1 DEF Length, PerHash, Size
  <2>3. Keys(positive)' = Keys(positive) /\ Keys(negative)' = Keys(negative)
    BY <2>1 DEF Keys
  <2>4. LeftPlus' = LeftPlus /\ LeftMinus' = LeftMinus
    BY <2>1, <2>3 DEF LeftPlus, LeftMinus
  <2> QED BY <2>2, <2>3, <2>4
<1>5. cursor' \in -1..n /\ cursor' # -1
  <2>1. cursor' = 0 \/ cursor' = cursor
    BY <1>1
  <2> QED BY <1>3, <2>1
<1>6. Has(table, Length, LeftPlus, LeftMinus)'
  <2>1. Has(t, n, P, M)
    BY <1>2, <1>3 DEF IbltInv, TablesFit
  <2>2. Has(t, n, P, M)'
    BY <1>1, <2>1, HasStays
  <2> QED BY <1>1, <1>2, <1>4, <2>2
<1>7. TablesFit'
  BY <1>1, <1>2, <1>3, <1>4, <1>5, <1>6 DEF IbltInv, TablesFit
<1>8. ListingFits'
  <2>1. ~ erased' => \A i \in 0..(cursor' - 1) : ~ IsPure(table[i])
    <3>1. CASE erased
      <4>1. \A i \in 0..(cursor' - 1) : FALSE
        BY <1>1, <3>1
      <4> QED BY <4>1
    <3>2. CASE ~ erased
      BY <1>1, <3>2 DEF IbltInv, ListingFits
    <3> QED BY <3>1, <3>2
  <2>2. erased' \in BOOLEAN
    BY <1>1 DEF IbltInv, ListingFits
  <2> QED BY <1>1, <1>4, <2>1, <2>2 DEF IbltInv, ListingFits
<1>9. ~ erased => \A i \in 0..(n - 1) : ~ IsPure(table[i])
  BY <1>3 DEF IbltInv, ListingFits
<1> QED BY <1>1, <1>2, <1>3, <1>7, <1>8, <1>9 DEF IbltInv

\* A step that changes nothing.
LEMMA StutterKeeps ==
  ASSUME IbltInv, UNCHANGED ibltVars
  PROVE  IbltInv'
<1>1. UNCHANGED <<sent, had, hash, table, own, cursor, erased, positive, negative, answer>>
  BY DEF ibltVars
<1>2. UNCHANGED <<Length, LeftPlus, LeftMinus, Keys(positive), Keys(negative)>>
      /\ PerHash(table)' = PerHash(table)
  BY <1>1 DEF Length, LeftPlus, LeftMinus, PerHash, Size, Keys
<1>3. ASSUME NEW t, NEW n, NEW P, NEW M, Has(t, n, P, M) PROVE Has(t, n, P, M)'
  BY <1>1, <1>3, HasStays
<1>4. PICK n, t, u, P, M, S, R : /\ n = Length /\ t = table /\ P = LeftPlus /\ M = LeftMinus
                                 /\ u = own /\ S = sent /\ R = had
  OBVIOUS
<1>5. cursor = -1 => Has(table, Length, sent, {})' /\ Has(own, Length, had, {})'
  <2>1. ASSUME cursor = -1 PROVE Has(t, n, S, {})' /\ Has(u, n, R, {})'
    BY <1>3, <1>4, <2>1 DEF IbltInv, TablesFit
  <2> QED BY <1>1, <1>2, <1>4, <2>1
<1>6. cursor # -1 => Has(table, Length, LeftPlus, LeftMinus)'
  <2>1. ASSUME cursor # -1 PROVE Has(t, n, P, M)'
    BY <1>3, <1>4, <2>1 DEF IbltInv, TablesFit
  <2> QED BY <1>1, <1>2, <1>4, <2>1
<1>7. TablesFit'
  BY <1>1, <1>2, <1>5, <1>6 DEF IbltInv, TablesFit
<1>8. ListingFits'
  BY <1>1, <1>2 DEF IbltInv, ListingFits
<1> QED BY <1>7, <1>8 DEF IbltInv

\* In every pass, the cells hold what is left of the difference.
THEOREM IbltInvariance == IbltSpec => []IbltInv
<1>1. IbltInit => IbltInv
  BY IbltStart
<1>2. IbltInv /\ [IbltNext]_ibltVars => IbltInv'
  BY SubtractKeeps, LookKeeps, EndPassKeeps, StutterKeeps DEF IbltNext
<1> QED BY <1>1, <1>2, PTL DEF IbltSpec

-----------------------------------------------------------------------------
\* Peeling's view of the cells and of what is left.
LEMMA PeelingView ==
  ASSUME IbltInv
  PROVE  /\ Peeled!Left = LeftPlus \cup LeftMinus
         /\ \A k \in Txs : [j \in Txs |-> Cells(table, j)][k] = CellsIn(Length, k)
         /\ \A k \in Txs : Difference(sent, had)[k] = 1 <=> k \in sent \ had
<1>1. sent \subseteq Txs /\ had \subseteq Txs /\ Length \in Nat
  BY DEF IbltInv, TablesFit
<1>2. \A k \in Txs : /\ Difference(sent, had)[k] = 1 <=> k \in sent \ had
                     /\ Difference(sent, had)[k] # 0 <=> k \in (sent \ had) \cup (had \ sent)
  BY DEF Difference
<1>3. Peeled!Left = ((sent \ had) \cup (had \ sent)) \ (Keys(positive) \cup Keys(negative))
  BY <1>1, <1>2 DEF Peeled!Left, Peeled!Entries, Entries, Peeled!Difference, Difference
<1>4. Peeled!Left = LeftPlus \cup LeftMinus
  BY <1>3 DEF IbltInv, ListingFits, LeftPlus, LeftMinus
<1>5. table \in TablesOf(Length)
  BY DEF IbltInv, TablesFit, Has
<1>6. \A k : Cells(table, k) = CellsIn(Length, k)
  BY <1>1, <1>5, CellsOfTable
<1> QED BY <1>2, <1>4, <1>6

\* An entry that is listed had a cell to itself.
LEMMA ListingPeels ==
  ASSUME IbltInv, IbltInv', DOMAIN table' = DOMAIN table, UNCHANGED <<sent, had, hash>>,
         NEW k, Lists(k)
  PROVE  Peeled!PeelingNext
<1> DEFINE keyCells == [j \in Txs |-> Cells(table, j)]
<1>1. /\ k \in LeftPlus \cup LeftMinus /\ k \in Txs
      /\ LeftPlus \subseteq sent \ had /\ LeftMinus \subseteq had \ sent
      /\ LeftPlus \subseteq Txs /\ LeftMinus \subseteq Txs
  BY DEF Lists, LeftPlus, LeftMinus, IbltInv, TablesFit
<1>2. k \in Peeled!Left
  BY <1>1, PeelingView
<1>3. Peeled!HasCellAlone(k)
  <2>1. cursor \in keyCells[k]
    BY <1>1, PeelingView DEF Lists
  <2>2. ASSUME NEW j \in Peeled!Left \ {k} PROVE cursor \notin keyCells[j]
    <3>1. j \in LeftPlus \cup LeftMinus /\ j # k /\ j \in Txs
      BY <1>1, PeelingView
    <3>2. j \notin Here(Length, cursor, LeftPlus) \cup Here(Length, cursor, LeftMinus)
      BY <3>1 DEF Lists, Alone
    <3>3. cursor \notin CellsIn(Length, j)
      BY <3>1, <3>2 DEF Here
    <3> QED BY <3>1, <3>3, PeelingView
  <2> QED BY <2>1, <2>2 DEF Peeled!HasCellAlone
<1>4. UNCHANGED <<keyCells, Difference(sent, had), answer>>
  <2>1. \A j : Cells(table, j)' = Cells(table, j)
    BY DEF Cells, Cell, PerHash, Size
  <2>2. keyCells' = keyCells
    BY <2>1
  <2> QED BY <2>2 DEF Lists, Difference
<1>5. Difference(sent, had)[k] = 1 <=> k \in LeftPlus
  BY <1>1, PeelingView
<1>6. IF Difference(sent, had)[k] = 1
        THEN Keys(positive)' = Keys(positive) \cup {k} /\ Keys(negative)' = Keys(negative)
        ELSE Keys(negative)' = Keys(negative) \cup {k} /\ Keys(positive)' = Keys(positive)
  BY <1>5 DEF Lists
<1>7. answer = <<>>
  BY DEF Lists
<1>8. Peeled!Peel(k)
  BY <1>3, <1>4, <1>6, <1>7 DEF Peeled!Peel
<1> QED BY <1>2, <1>8 DEF Peeled!PeelingNext

\* When no cell is pure no entry has one to itself, and the cells of the
\* first hash are empty if and only if nothing is left.
LEMMA EndPassEndsListing ==
  ASSUME IbltInv, EndPass, answer' # answer
  PROVE  Peeled!PeelingNext
<1> DEFINE n == Length
           P == LeftPlus
           M == LeftMinus
           keyCells == [j \in Txs |-> Cells(table, j)]
<1>1. /\ UNCHANGED <<positive, negative, sent, had, hash, table>> /\ answer = <<>>
      /\ cursor # -1
      /\ answer' = <<\A i \in 0..(PerHash(table) - 1) : IsEmpty(table[i])>>
      /\ \A i \in 0..(n - 1) : ~ IsPure(table[i])
  BY EndPassKeeps DEF EndPass
<1>2. /\ n \in Nat /\ Has(table, n, P, M) /\ P \in SUBSET Txs /\ M \in SUBSET Txs
      /\ P \cap M = {}
  BY <1>1 DEF IbltInv, TablesFit, LeftPlus, LeftMinus
<1>3. Peeled!Left = P \cup M
  BY PeelingView
<1>4. \A k \in Txs : keyCells[k] = CellsIn(n, k)
  BY PeelingView
<1>5. ASSUME NEW k \in P \cup M, Peeled!HasCellAlone(k) PROVE FALSE
  <2>1. PICK c \in keyCells[k] : \A j \in Peeled!Left \ {k} : c \notin keyCells[j]
    BY <1>5 DEF Peeled!HasCellAlone
  <2>2. k \in Txs /\ c \in CellsIn(n, k)
    BY <1>2, <1>4, <2>1
  <2>3. c \in 0..(n - 1)
    BY <2>2, CellInTable DEF IbltInv
  <2>4. \A j \in (P \cup M) \ {k} : c \notin CellsIn(n, j)
    BY <1>2, <1>3, <1>4, <2>1
  <2>5. Alone(n, c, P, M, k)
    BY <2>2, <2>4 DEF Alone, Here
  <2>6. IsPure(table[c])
    <3>1. PureFits(table[c], n, c, P, M)
      <4> HIDE DEF n, P, M
      <4> QED BY <1>2, <2>3, PureCell
    <3> QED BY <2>5, <3>1 DEF PureFits
  <2> QED BY <1>1, <2>3, <2>6
<1>6. (\A i \in 0..(PerHash(table) - 1) : IsEmpty(table[i])) <=> P \cup M = {}
  <2>1. PerHash(table) = n \div NumHashes
    BY DEF PerHash, Length
  <2>2. n \div NumHashes \in Nat /\ n \div NumHashes <= n
    <3> HIDE DEF n
    <3>1. NumHashes \in Nat \ {0} /\ n \in Nat
      BY <1>2, IbltConstants
    <3>2. n \div NumHashes \in Nat /\ NumHashes * (n \div NumHashes) <= n
      BY <3>1
    <3> DEFINE q == n \div NumHashes
    <3> HIDE DEF q
    <3>3. q <= NumHashes * q
      BY <3>1, <3>2 DEF q
    <3> QED BY <3>1, <3>2, <3>3 DEF q
  <2>3. ASSUME P \cup M = {}, NEW i \in 0..(PerHash(table) - 1) PROVE IsEmpty(table[i])
    <3>1. i \in 0..(n - 1)
      BY <1>2, <2>1, <2>2
    <3>2. Here(n, i, P) \cup Here(n, i, M) = {}
      BY <2>3 DEF Here
    <3> HIDE DEF n, P, M
    <3> QED BY <1>2, <3>1, <3>2, EmptyHas
  <2>4. ASSUME NEW k \in P \cup M, \A i \in 0..(PerHash(table) - 1) : IsEmpty(table[i])
        PROVE  FALSE
    <3> DEFINE c == hash[k][1]
    <3>1. 1 \in 1..NumHashes /\ k \in Txs
      BY <1>2, IbltConstants
    <3>2. c \in 0..(PerHash(table) - 1)
      BY <3>1 DEF IbltInv, TablesFit
    <3>3. c \in CellsIn(n, k)
      <4>1. c = (1 - 1) * (n \div NumHashes) + hash[k][1]
        BY <2>2, <3>2, <2>1
      <4> QED BY <3>1, <4>1 DEF CellsIn
    <3>4. k \in Here(n, c, P) \cup Here(n, c, M)
      BY <3>3 DEF Here
    <3>5. c \in 0..(n - 1) /\ IsEmpty(table[c])
      BY <1>2, <2>1, <2>2, <2>4, <3>2
    <3> HIDE DEF n, P, M, c
    <3> QED BY <1>2, <3>4, <3>5, EmptyHas
  <2> QED BY <2>3, <2>4
<1>7. answer' = <<Peeled!Left = {}>>
  BY <1>1, <1>3, <1>6
<1>8. UNCHANGED <<keyCells, Difference(sent, had), Keys(positive), Keys(negative)>>
  BY <1>1 DEF Cells, Cell, PerHash, Size, Difference, Keys
<1>9. Peeled!EndListing
  BY <1>1, <1>3, <1>5, <1>7, <1>8 DEF Peeled!EndListing
<1> QED BY <1>9 DEF Peeled!PeelingNext

\* The cells of iblt.h implement Peeling: every turn of the loops lists an
\* entry that has a cell to itself, or nothing, and they end when none has.
THEOREM CellsPeel == IbltSpec => PeelsTheDifference
<1> DEFINE keyCells == [j \in Txs |-> Cells(table, j)]
<1>1. IbltInit => Peeled!PeelingInit
  BY DEF IbltInit, Peeled!PeelingInit, Keys
<1>2. ASSUME IbltInv, IbltInv', [IbltNext]_ibltVars
      PROVE  [Peeled!PeelingNext]_Peeled!peelingVars
  <2>1. UNCHANGED <<sent, had, hash>>
    BY <1>2 DEF IbltNext, Subtract, Look, EndPass, ibltVars
  <2>2. DOMAIN table' = DOMAIN table
    BY <1>2, SubtractKeeps, LookKeeps, EndPassKeeps DEF IbltNext, ibltVars
  <2>3. UNCHANGED <<keyCells, Difference(sent, had)>>
    BY <2>1, <2>2 DEF Cells, Cell, PerHash, Size, Difference
  <2>4. UNCHANGED <<positive, negative, answer>> => UNCHANGED Peeled!peelingVars
    BY <2>3 DEF Peeled!peelingVars, Keys
  <2>5. CASE Subtract
    BY <2>4, <2>5 DEF Subtract
  <2>6. CASE Look
    BY <1>2, <2>1, <2>2, <2>4, <2>6, LookKeeps, ListingPeels
  <2>7. CASE EndPass
    <3>1. UNCHANGED <<positive, negative>>
      BY <2>7 DEF EndPass
    <3> QED BY <1>2, <2>4, <2>7, <3>1, EndPassEndsListing
  <2>8. CASE UNCHANGED ibltVars
    BY <2>4, <2>8 DEF ibltVars
  <2> QED BY <1>2, <2>5, <2>6, <2>7, <2>8 DEF IbltNext
<1> QED BY <1>1, <1>2, IbltInvariance, PTL DEF IbltSpec, PeelsTheDifference, Peeled!PeelingSpec
=============================================================================

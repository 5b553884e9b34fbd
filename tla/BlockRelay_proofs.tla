-------------------------- MODULE BlockRelay_proofs --------------------------
(***************************************************************************)
(* The block relay implements BlockDag and keeps its books, for any        *)
(* network, any K, any number of blocks and whatever times out.  Streams   *)
(* are looked at as sets of messages (Carries sums up what a handler does  *)
(* to them); only AnnouncedOnce needs to know that a message is not twice  *)
(* in a stream.                                                            *)
(***************************************************************************)
EXTENDS BlockRelay, BlockDag_proofs

-----------------------------------------------------------------------------
(* Sequences as sets *)

InSeq(s) == {s[i] : i \in 1..Len(s)}

\* x occurs at no two places of s.
Once(s, x) == \A i, j \in 1..Len(s) : s[i] = x /\ s[j] = x => i = j

\* Reading the head of a stream.
LEMMA TailOf ==
  ASSUME NEW M, NEW s \in Seq(M), s # <<>>
  PROVE  /\ Tail(s) \in Seq(M) /\ Head(s) \in M /\ Head(s) \in InSeq(s)
         /\ InSeq(Tail(s)) \subseteq InSeq(s)
         /\ InSeq(s) \subseteq {Head(s)} \cup InSeq(Tail(s))
         /\ \A x : Once(s, x) => Once(Tail(s), x)
         /\ Once(s, Head(s)) => Head(s) \notin InSeq(Tail(s))
<1> DEFINE t == Tail(s)
<1>1. /\ t \in Seq(M) /\ Len(t) = Len(s) - 1 /\ Len(s) \in Nat \ {0}
      /\ \A i \in 1..Len(t) : t[i] = s[i + 1]
      /\ Head(s) = s[1] /\ Head(s) \in M
  OBVIOUS
<1> HIDE DEF t
<1>2. \A i \in 1..Len(t) : i + 1 \in 1..Len(s) /\ i + 1 # 1
  BY <1>1
<1>3. \A i \in 1..Len(s) : i = 1 \/ (i - 1 \in 1..Len(t) /\ (i - 1) + 1 = i)
  BY <1>1
<1>4. InSeq(t) \subseteq InSeq(s)
  BY <1>1, <1>2 DEF InSeq
<1>5. InSeq(s) \subseteq {Head(s)} \cup InSeq(t)
  <2> SUFFICES ASSUME NEW i \in 1..Len(s), i # 1 PROVE s[i] \in InSeq(t)
    BY <1>1 DEF InSeq
  <2>1. i - 1 \in 1..Len(t) /\ (i - 1) + 1 = i
    BY <1>3
  <2>2. t[i - 1] = s[i]
    BY <1>1, <2>1
  <2> QED BY <2>1, <2>2 DEF InSeq
<1>6. ASSUME NEW x, Once(s, x) PROVE Once(t, x)
  <2> SUFFICES ASSUME NEW i \in 1..Len(t), NEW j \in 1..Len(t), t[i] = x, t[j] = x
               PROVE  i = j
    BY DEF Once
  <2>1. s[i + 1] = x /\ s[j + 1] = x /\ i + 1 \in 1..Len(s) /\ j + 1 \in 1..Len(s)
    BY <1>1, <1>2
  <2>2. i + 1 = j + 1
    BY <1>6, <2>1 DEF Once
  <2> QED BY <1>1, <2>2
<1>7. ASSUME Once(s, Head(s)) PROVE Head(s) \notin InSeq(t)
  <2> SUFFICES ASSUME NEW i \in 1..Len(t), t[i] = Head(s) PROVE FALSE
    BY DEF InSeq
  <2>1. s[i + 1] = s[1] /\ i + 1 \in 1..Len(s) /\ 1 \in 1..Len(s)
    BY <1>1, <1>2
  <2> QED BY <1>1, <1>2, <1>7, <2>1 DEF Once
<1>8. Head(s) \in InSeq(s)
  BY <1>1 DEF InSeq
<1> QED BY <1>1, <1>4, <1>5, <1>6, <1>7, <1>8 DEF t

\* Sending a message.
LEMMA AppendTo ==
  ASSUME NEW M, NEW s \in Seq(M), NEW y \in M
  PROVE  /\ Append(s, y) \in Seq(M)
         /\ InSeq(Append(s, y)) = InSeq(s) \cup {y}
         /\ \A x : Once(s, x) /\ (x = y => y \notin InSeq(s)) => Once(Append(s, y), x)
<1> DEFINE t == Append(s, y)
<1>1. /\ t \in Seq(M) /\ Len(t) = Len(s) + 1 /\ Len(s) \in Nat /\ t[Len(s) + 1] = y
      /\ \A i \in 1..Len(s) : t[i] = s[i]
  OBVIOUS
<1> HIDE DEF t
<1>2. \A i \in 1..Len(t) : i \in 1..Len(s) \/ i = Len(s) + 1
  BY <1>1
<1>3. \A i \in 1..Len(s) : i \in 1..Len(t) /\ i # Len(s) + 1
  BY <1>1
<1>4. Len(s) + 1 \in 1..Len(t)
  BY <1>1
<1>5. InSeq(t) = InSeq(s) \cup {y}
  BY <1>1, <1>2, <1>3, <1>4 DEF InSeq
<1>6. ASSUME NEW x, Once(s, x), x = y => y \notin InSeq(s) PROVE Once(t, x)
  BY <1>1, <1>2, <1>3, <1>6 DEF Once, InSeq
<1> QED BY <1>1, <1>5, <1>6 DEF t

\* InvTimeoutExpired: one of the others comes to the front.
LEMMA SwapToFront ==
  ASSUME NEW M, NEW r \in Seq(M), NEW i \in 1..Len(r)
  PROVE  LET t == [r EXCEPT ![1] = r[i], ![i] = r[1]]
         IN  /\ t \in Seq(M) /\ t # <<>> /\ Len(t) = Len(r) /\ InSeq(t) \subseteq InSeq(r)
             /\ \A x : Once(r, x) => Once(t, x)
<1> DEFINE t == [r EXCEPT ![1] = r[i], ![i] = r[1]]
           f == [j \in 1..Len(r) |-> IF j = i THEN 1 ELSE IF j = 1 THEN i ELSE j]
<1>1. Len(r) \in Nat /\ 1 \in 1..Len(r) /\ \A j \in 1..Len(r) : r[j] \in M
  OBVIOUS
<1>2. t \in Seq(M) /\ Len(t) = Len(r)
  <2>1. r \in [1..Len(r) -> M]
    OBVIOUS
  <2>2. t \in [1..Len(r) -> M]
    BY <1>1, <2>1
  <2> QED BY <1>1, <2>2
<1>3. \A j \in 1..Len(r) : f[j] \in 1..Len(r) /\ t[j] = r[f[j]]
  BY <1>1
<1>4. \A j, k \in 1..Len(r) : f[j] = f[k] => j = k
  BY <1>1
<1> HIDE DEF t, f
<1>5. InSeq(t) \subseteq InSeq(r)
  BY <1>2, <1>3 DEF InSeq
<1>6. \A x : Once(r, x) => Once(t, x)
  BY <1>2, <1>3, <1>4 DEF Once
<1>7. t # <<>>
  BY <1>1, <1>2
<1> QED BY <1>2, <1>5, <1>6, <1>7 DEF t

-----------------------------------------------------------------------------
(* Streams as sets of messages *)

Channels(M) == [Nodes -> [Nodes -> Seq(M)]]

(***************************************************************************)
(* From channels c to channels d: the heads of the streams in R are read   *)
(* and node n sends msg to each node of S.                                 *)
(***************************************************************************)
Carries(c, d, R, n, S, msg) ==
  /\ \A p, q \in Nodes : \A x \in InSeq(d[p][q]) :
       x \in InSeq(c[p][q]) \/ (p = n /\ q \in S /\ x = msg)
  /\ \A p, q \in Nodes : \A x \in InSeq(c[p][q]) :
       x \in InSeq(d[p][q]) \/ (<<p, q>> \in R /\ x = Head(c[p][q]))
  /\ \A q \in S : msg \in InSeq(d[n][q])
  /\ \A p, q \in Nodes : \A x :
       Once(c[p][q], x) /\ ~ (p = n /\ q \in S /\ x = msg /\ x \in InSeq(c[p][q]))
         => Once(d[p][q], x)
  /\ \A p, q \in Nodes :
       <<p, q>> \in R /\ Once(c[p][q], Head(c[p][q]))
           /\ ~ (p = n /\ q \in S /\ msg = Head(c[p][q]))
         => Head(c[p][q]) \notin InSeq(d[p][q])

\* A handler that only sends.
LEMMA SendStep ==
  ASSUME NEW M, NEW c \in Channels(M), NEW n \in Nodes, NEW S \in SUBSET Nodes, NEW msg \in M
  PROVE  LET d == SendTo(c, n, S, msg)
         IN  /\ d \in Channels(M)
             /\ \A p, q \in Nodes :
                  d[p][q] = IF p = n /\ q \in S THEN Append(c[p][q], msg) ELSE c[p][q]
             /\ Carries(c, d, {}, n, S, msg)
<1> DEFINE d == SendTo(c, n, S, msg)
<1>1. \A p, q \in Nodes : c[p][q] \in Seq(M)
  BY DEF Channels
<1>2. \A p, q \in Nodes :
        d[p][q] = IF p = n /\ q \in S THEN Append(c[p][q], msg) ELSE c[p][q]
  BY DEF Channels, SendTo
<1>3. d \in Channels(M)
  <2>1. \A q \in Nodes : Append(c[n][q], msg) \in Seq(M)
    BY <1>1, AppendTo
  <2>2. [q \in Nodes |-> IF q \in S THEN Append(c[n][q], msg) ELSE c[n][q]] \in [Nodes -> Seq(M)]
    BY <1>1, <2>1
  <2> QED BY <2>2 DEF Channels, SendTo
<1> HIDE DEF d
<1>4. \A p, q \in Nodes : p = n /\ q \in S =>
        /\ InSeq(d[p][q]) = InSeq(c[p][q]) \cup {msg}
        /\ \A x : Once(c[p][q], x) /\ (x = msg => msg \notin InSeq(c[p][q])) => Once(d[p][q], x)
  BY <1>1, <1>2, AppendTo
<1>5. \A p, q \in Nodes : ~ (p = n /\ q \in S) => d[p][q] = c[p][q]
  BY <1>2
<1>6. Carries(c, d, {}, n, S, msg)
  <2>1. \A p, q \in Nodes : \A x \in InSeq(d[p][q]) :
          x \in InSeq(c[p][q]) \/ (p = n /\ q \in S /\ x = msg)
    BY <1>4, <1>5
  <2>2. \A p, q \in Nodes : \A x \in InSeq(c[p][q]) : x \in InSeq(d[p][q])
    BY <1>4, <1>5
  <2>3. \A q \in S : msg \in InSeq(d[n][q])
    BY <1>4
  <2>4. \A p, q \in Nodes : \A x :
          Once(c[p][q], x) /\ ~ (p = n /\ q \in S /\ x = msg /\ x \in InSeq(c[p][q]))
            => Once(d[p][q], x)
    BY <1>4, <1>5
  <2> QED BY <2>1, <2>2, <2>3, <2>4 DEF Carries
<1> QED BY <1>2, <1>3, <1>6 DEF d

\* A handler that reads a message and may send one.
LEMMA ReadStep ==
  ASSUME NEW M, NEW c \in Channels(M), NEW m \in Nodes, NEW n \in Nodes, c[m][n] # <<>>,
         NEW S \in SUBSET Nodes, NEW msg \in M
  PROVE  LET r == [c EXCEPT ![m][n] = Tail(@)]
             d == SendTo(r, n, S, msg)
         IN  /\ r \in Channels(M) /\ d \in Channels(M)
             /\ Carries(c, r, {<<m, n>>}, n, {}, msg)
             /\ Carries(c, d, {<<m, n>>}, n, S, msg)
<1> DEFINE r == [c EXCEPT ![m][n] = Tail(@)]
           d == SendTo(r, n, S, msg)
<1>1. \A p, q \in Nodes : c[p][q] \in Seq(M)
  BY DEF Channels
<1>2. \A p, q \in Nodes : r[p][q] = IF p = m /\ q = n THEN Tail(c[p][q]) ELSE c[p][q]
  BY DEF Channels
<1>3. r \in Channels(M)
  <2>1. Tail(c[m][n]) \in Seq(M)
    BY <1>1, TailOf
  <2> QED BY <2>1 DEF Channels
<1> HIDE DEF r
<1>4. /\ InSeq(r[m][n]) \subseteq InSeq(c[m][n])
      /\ InSeq(c[m][n]) \subseteq {Head(c[m][n])} \cup InSeq(r[m][n])
      /\ \A x : Once(c[m][n], x) => Once(r[m][n], x)
      /\ Once(c[m][n], Head(c[m][n])) => Head(c[m][n]) \notin InSeq(r[m][n])
  BY <1>1, <1>2, TailOf
<1>5. /\ \A p, q \in Nodes : InSeq(r[p][q]) \subseteq InSeq(c[p][q])
      /\ \A p, q \in Nodes : \A x \in InSeq(c[p][q]) :
           x \in InSeq(r[p][q]) \/ (<<p, q>> \in {<<m, n>>} /\ x = Head(c[p][q]))
      /\ \A p, q \in Nodes : \A x : Once(c[p][q], x) => Once(r[p][q], x)
      /\ \A p, q \in Nodes :
           <<p, q>> \in {<<m, n>>} /\ Once(c[p][q], Head(c[p][q]))
             => Head(c[p][q]) \notin InSeq(r[p][q])
  BY <1>2, <1>4
<1>6. Carries(c, r, {<<m, n>>}, n, {}, msg)
  BY <1>5 DEF Carries
<1>7. d \in Channels(M) /\ Carries(r, d, {}, n, S, msg)
  BY <1>3, SendStep
<1> HIDE DEF d
<1>8. Carries(c, d, {<<m, n>>}, n, S, msg)
  <2>1. \A p, q \in Nodes : \A x \in InSeq(d[p][q]) :
          x \in InSeq(c[p][q]) \/ (p = n /\ q \in S /\ x = msg)
    BY <1>5, <1>7 DEF Carries
  <2>2. \A p, q \in Nodes : \A x \in InSeq(c[p][q]) :
          x \in InSeq(d[p][q]) \/ (<<p, q>> \in {<<m, n>>} /\ x = Head(c[p][q]))
    BY <1>5, <1>7 DEF Carries
  <2>3. \A q \in S : msg \in InSeq(d[n][q])
    BY <1>7 DEF Carries
  <2>4. \A p, q \in Nodes : \A x :
          Once(c[p][q], x) /\ ~ (p = n /\ q \in S /\ x = msg /\ x \in InSeq(c[p][q]))
            => Once(d[p][q], x)
    BY <1>5, <1>7 DEF Carries
  <2>5. \A p, q \in Nodes :
          <<p, q>> \in {<<m, n>>} /\ Once(c[p][q], Head(c[p][q]))
              /\ ~ (p = n /\ q \in S /\ msg = Head(c[p][q]))
            => Head(c[p][q]) \notin InSeq(d[p][q])
    BY <1>5, <1>7 DEF Carries
  <2> QED BY <2>1, <2>2, <2>3, <2>4, <2>5 DEF Carries
<1> QED BY <1>3, <1>6, <1>7, <1>8 DEF r, d

-----------------------------------------------------------------------------
(* Messages *)

\* The members of MessageTypes, read off and made.
LEMMA MessageForm ==
  ASSUME NEW x \in MessageTypes
  PROVE  /\ x.block \in Mined
         /\ x.type \in {"INV", "REQ", "BLOCK", "GBLOCK", "RREQ", "RRESP"}
         /\ x.type = "INV" => x = Inv(x.block)
         /\ x.type = "REQ" => x = Req(x.block, x.graphene_failed)
         /\ x.type = "RREQ" => x = RReq(x.block)
         /\ x.type = "RRESP" => x = RResp(x.block)
         /\ x.type \in {"BLOCK", "GBLOCK"} => x.parents = header[x.block]
<1>1. CASE x \in [type : {"INV", "RREQ", "RRESP"}, block : Mined]
  BY <1>1 DEF Inv, RReq, RResp
<1>2. CASE x \in [type : {"REQ"}, block : Mined, graphene_failed : BOOLEAN]
  BY <1>2 DEF Req
<1>3. CASE x \in {msg \in [type : {"BLOCK", "GBLOCK"}, block : Mined, parents : SUBSET Mined] :
                    msg.parents = header[msg.block]}
  BY <1>3
<1> QED BY <1>1, <1>2, <1>3 DEF MessageTypes

\* What the nodes send is typed.
LEMMA MessagesMade ==
  ASSUME NEW b \in Mined, header[b] \subseteq Mined
  PROVE  /\ Inv(b) \in MessageTypes /\ RReq(b) \in MessageTypes /\ RResp(b) \in MessageTypes
         /\ \A f \in BOOLEAN : Req(b, f) \in MessageTypes
         /\ Blk(b, header[b]) \in MessageTypes /\ GBlk(b, header[b]) \in MessageTypes
BY DEF MessageTypes, Inv, RReq, RResp, Req, Blk, GBlk

\* Messages stay typed when a block is mined.
LEMMA MessagesStay ==
  ASSUME Mined \subseteq DOMAIN header', \A b \in Mined : header'[b] = header[b]
  PROVE  MessageTypes \subseteq MessageTypes'
BY DEF MessageTypes, Mined

-----------------------------------------------------------------------------
(* The inductive invariant *)

Held(n) == Holding(chain[n])
Way(m, n) == InSeq(net[m][n])

\* A message of a type in T about b is under way from m to n.
UnderWay(m, n, T, b) == \E x \in Way(m, n) : x.type \in T /\ x.block = b

Attempts == [sender : Nodes, parents : SUBSET Nat]

\* What n has on request is missing, and each request has its timeout.
QueueBooks ==
  /\ queueInv \in [Nodes -> Maps(Seq(Nodes))] /\ invTimers \in [Nodes -> SUBSET Nat]
  /\ \A n \in Nodes :
       /\ DOMAIN queueInv[n] \subseteq Mined \ Held(n) /\ invTimers[n] = DOMAIN queueInv[n]
       /\ \A b \in DOMAIN queueInv[n] : queueInv[n][b] # <<>>

RecoveryBooks ==
  /\ recovery \in [Nodes -> Maps(Attempts)] /\ recTimers \in [Nodes -> SUBSET Nat]
  /\ \A n \in Nodes :
       /\ DOMAIN recovery[n] \subseteq Mined /\ recTimers[n] = DOMAIN recovery[n]
       /\ \A b \in DOMAIN recovery[n] : recovery[n][b].parents = header[b]

Typed ==
  IInv /\ Grounded /\ net \in Channels(MessageTypes) /\ QueueBooks /\ RecoveryBooks

\* A block is announced and sent by a node that holds it, and asked of one.
HolderAtEnd(m, n, x) ==
  /\ x.type \in {"INV", "BLOCK", "GBLOCK", "RRESP"} => x.block \in Held(m)
  /\ x.type \in {"REQ", "RREQ"} => x.block \in Held(n)

\* RequestsAreAnswerable, and the sender of a compact block has the block.
Answerable ==
  /\ \A m, n \in Nodes : \A x \in Way(m, n) : HolderAtEnd(m, n, x)
  /\ \A n \in Nodes : \A b \in Mined : \A m \in InSeq(Announcers(n, b)) : b \in Held(m)
  /\ \A n \in Nodes : \A b \in DOMAIN recovery[n] : b \in Held(recovery[n][b].sender)

\* An announcement is under way once, or has been booked once.
AnnouncedSingly ==
  \A m, n \in Nodes : \A b \in Mined :
    /\ Once(net[m][n], Inv(b)) /\ Once(Announcers(n, b), m)
    /\ ~ (Inv(b) \in Way(m, n) /\ m \in InSeq(Announcers(n, b)))

\* n has b, has asked for it, or is about to be sent it.
Coming(n, b) ==
  \/ b \in Held(n)
  \/ b \in DOMAIN recovery[n]
  \/ \E m \in Nodes : UnderWay(n, m, {"REQ"}, b) \/ UnderWay(m, n, {"BLOCK", "GBLOCK"}, b)

\* No block that some node has is lost to a peer that has not.
NothingLost ==
  /\ \A b \in Mined \ {Genesis} : \E n \in Nodes : b \in Held(n)
  /\ \A m \in Nodes : \A n \in Peers[m] : \A b \in Held(m) :
       Coming(n, b) \/ UnderWay(m, n, {"INV"}, b)
  /\ \A n \in Nodes : \A b \in DOMAIN recovery[n] : \E m \in Nodes :
       UnderWay(n, m, {"RREQ"}, b) \/ UnderWay(m, n, {"RRESP"}, b)
  /\ \A n \in Nodes : \A b \in DOMAIN queueInv[n] : Coming(n, b)

RelayInv == Typed /\ Answerable /\ AnnouncedSingly /\ NothingLost

-----------------------------------------------------------------------------
(* What a step does, apart from which of the messages brings it about *)

SameQueue    == UNCHANGED <<queueInv, invTimers>>
SameRecovery == UNCHANGED <<recovery, recTimers>>
SameDag      == UNCHANGED <<header, chain>>

\* n has read x from m.
FromHead(m, n, x) == net[m][n] # <<>> /\ x = Head(net[m][n])

\* n's announcers of b are s from now on.
QueueSet(n, b, s) == queueInv' = [queueInv EXCEPT ![n] = Put(@, b, s)]

\* n has a recovery attempt for b under way, with m.
AttemptSet(n, b, m) ==
  recovery' = [recovery EXCEPT ![n] = Put(@, b, [sender |-> m, parents |-> header[b]])]

\* n mines b.
DoesMine(n, b) ==
  /\ Takes(n, b) /\ b \notin Mined /\ DOMAIN header' = Mined \cup {b}
  /\ \A x \in Mined : header'[x] = header[x]
  /\ Carries(net, net', {}, n, Peers[n], Inv(b))
  /\ SameQueue /\ SameRecovery

\* n reads x, and nothing comes of it.
DoesDrop(m, n, x) ==
  /\ FromHead(m, n, x) /\ Carries(net, net', {<<m, n>>}, n, {}, x)
  /\ SameDag /\ SameQueue /\ SameRecovery
  /\ x.type \in {"INV", "BLOCK"} => x.block \in Held(n)
  /\ x.type \in {"REQ", "RREQ"} => x.block \notin Held(n)
  /\ x.type = "GBLOCK" => x.block \in Held(n) \cup DOMAIN recovery[n]
  /\ x.type = "RRESP" => x.block \notin DOMAIN recovery[n]

\* n books one more announcer of b.
DoesQueue(m, n, b) ==
  /\ FromHead(m, n, Inv(b)) /\ Carries(net, net', {<<m, n>>}, n, {}, Inv(b))
  /\ b \notin Held(n) /\ b \in DOMAIN queueInv[n]
  /\ QueueSet(n, b, Append(queueInv[n][b], m))
  /\ UNCHANGED invTimers /\ SameDag /\ SameRecovery

\* n asks the first announcer of b.
DoesAsk(m, n, b) ==
  /\ FromHead(m, n, Inv(b)) /\ Carries(net, net', {<<m, n>>}, n, {m}, Req(b, FALSE))
  /\ b \notin Held(n) /\ b \notin DOMAIN queueInv[n]
  /\ QueueSet(n, b, <<m>>)
  /\ invTimers' = [invTimers EXCEPT ![n] = @ \cup {b}]
  /\ SameDag /\ SameRecovery

\* n answers the request x with y.
DoesAnswer(m, n, x, y) ==
  /\ FromHead(m, n, x) /\ Carries(net, net', {<<m, n>>}, n, {m}, y)
  /\ x.block \in Held(n) /\ y.block = x.block
  /\ \/ x.type = "REQ" /\ y.type \in {"BLOCK", "GBLOCK"}
     \/ x.type = "RREQ" /\ y.type = "RRESP"
  /\ SameDag /\ SameQueue /\ SameRecovery

\* n takes in the block that x brings and announces it.
DoesTake(m, n, x) ==
  /\ FromHead(m, n, x) /\ x.type \in {"BLOCK", "GBLOCK", "RRESP"}
  /\ Carries(net, net', {<<m, n>>}, n, Peers[n] \ {m}, Inv(x.block))
  /\ Takes(n, x.block) /\ UNCHANGED header
  /\ ForgetAnnouncers(n, x.block)
  /\ IF x.type = "RRESP" THEN EndRecovery(n, x.block) ELSE SameRecovery

\* n starts to recover the compact block b.
DoesRecover(m, n, x) ==
  LET b == x.block
  IN  /\ FromHead(m, n, x) /\ x.type = "GBLOCK"
      /\ Carries(net, net', {<<m, n>>}, n, {m}, RReq(b))
      /\ b \notin Held(n) /\ b \notin DOMAIN recovery[n]
      /\ AttemptSet(n, b, m)
      /\ recTimers' = [recTimers EXCEPT ![n] = @ \cup {b}]
      /\ SameDag /\ SameQueue

\* n's recovery of b ends without the block: n has it, or asks q for all of it.
DoesEnd(n, b, R, S) ==
  /\ b \in DOMAIN recovery[n] /\ EndRecovery(n, b)
  /\ Carries(net, net', R, n, S, Req(b, TRUE))
  /\ R = {} \/ \E m \in Nodes : R = {<<m, n>>} /\ FromHead(m, n, RResp(b))
  /\ (S = {} /\ b \in Held(n)) \/ (\E q \in Nodes : S = {q} /\ b \in Held(q))
  /\ SameDag /\ SameQueue

\* n asks q, another announcer of b.
DoesAskNext(n, b, s, q) ==
  /\ b \in DOMAIN queueInv[n] /\ s \in Seq(Nodes) /\ s # <<>>
  /\ InSeq(s) \subseteq InSeq(queueInv[n][b]) /\ q \in InSeq(queueInv[n][b])
  /\ \A x : Once(queueInv[n][b], x) => Once(s, x)
  /\ QueueSet(n, b, s)
  /\ Carries(net, net', {}, n, {q}, Req(b, FALSE))
  /\ UNCHANGED invTimers /\ SameDag /\ SameRecovery

\* n has no announcer of b left to ask.
DoesGiveUp(n, b) ==
  /\ b \in DOMAIN queueInv[n] /\ ForgetAnnouncers(n, b)
  /\ UNCHANGED net /\ SameDag /\ SameRecovery

Does ==
  \/ \E n \in Miners : \E b \in Nat : DoesMine(n, b)
  \/ \E m, n \in Nodes : \E x \in MessageTypes :
       \/ DoesDrop(m, n, x) \/ DoesTake(m, n, x) \/ DoesRecover(m, n, x)
       \/ \E y \in MessageTypes : DoesAnswer(m, n, x, y)
  \/ \E m, n \in Nodes : \E b \in Mined : DoesQueue(m, n, b) \/ DoesAsk(m, n, b)
  \/ \E n \in Nodes : \E b \in Mined : \E R \in SUBSET (Nodes \X Nodes), S \in SUBSET Nodes :
       DoesEnd(n, b, R, S)
  \/ \E n, q \in Nodes : \E b \in Mined : \E s \in Seq(Nodes) : DoesAskNext(n, b, s, q)
  \/ \E n \in Nodes : \E b \in Mined : DoesGiveUp(n, b)
  \/ UNCHANGED relayVars

(* The handlers do just that *)

\* A node's copy of a block has the block's parents.
LEMMA CopyOfBlock ==
  ASSUME IInv, NEW n \in Nodes, NEW b
  PROVE  /\ Known(n, b) <=> b \in Held(n)
         /\ b \in Held(n) => b \in Mined /\ ParentsAt(n, b) = header[b]
BY DEF IInv, ChainInv, BlocksOK, OrphansOK, Known, HasBlock, IsOrphan, Held, Holding,
       ParentsAt, Mined, Blocks

\* What the head of a stream can be.
LEMMA HeadForm ==
  ASSUME Typed, NEW m \in Nodes, NEW n \in Nodes, net[m][n] # <<>>,
         NEW x, x = Head(net[m][n])
  PROVE  /\ FromHead(m, n, x) /\ x \in MessageTypes /\ x \in Way(m, n)
         /\ x.block \in Mined /\ header[x.block] \subseteq Mined
<1>1. net[m][n] \in Seq(MessageTypes)
  BY DEF Typed, Channels
<1>2. x \in MessageTypes /\ x \in Way(m, n)
  BY <1>1, TailOf DEF Way
<1>3. x.block \in Mined
  BY <1>2, MessageForm
<1> QED BY <1>2, <1>3 DEF FromHead, Typed, IInv, HeaderOK, Mined

\* Reading the head of a stream and sending msg to the nodes of S.
LEMMA ReadAndSend ==
  ASSUME Typed, NEW m \in Nodes, NEW n \in Nodes, net[m][n] # <<>>, UNCHANGED header,
         NEW S \in SUBSET Nodes, NEW msg \in MessageTypes
  PROVE  /\ net' = Read(m, n) =>
              /\ net' \in Channels(MessageTypes')
              /\ Carries(net, net', {<<m, n>>}, n, {}, msg)
         /\ net' = SendTo(Read(m, n), n, S, msg) =>
              /\ net' \in Channels(MessageTypes')
              /\ Carries(net, net', {<<m, n>>}, n, S, msg)
<1>1. net \in Channels(MessageTypes)
  BY DEF Typed
<1>2. MessageTypes' = MessageTypes
  BY DEF MessageTypes, Mined
<1>3. /\ Read(m, n) \in Channels(MessageTypes)
      /\ SendTo(Read(m, n), n, S, msg) \in Channels(MessageTypes)
      /\ Carries(net, Read(m, n), {<<m, n>>}, n, {}, msg)
      /\ Carries(net, SendTo(Read(m, n), n, S, msg), {<<m, n>>}, n, S, msg)
  <2> HIDE DEF Channels, Carries
  <2> QED BY <1>1, ReadStep DEF Read
<1> QED BY <1>2, <1>3

\* Sending msg to the nodes of S.
LEMMA SendOnly ==
  ASSUME Typed, NEW n \in Nodes, UNCHANGED header,
         NEW S \in SUBSET Nodes, NEW msg \in MessageTypes, net' = SendTo(net, n, S, msg)
  PROVE  net' \in Channels(MessageTypes') /\ Carries(net, net', {}, n, S, msg)
<1>1. net \in Channels(MessageTypes) /\ MessageTypes' = MessageTypes
  BY DEF Typed, MessageTypes, Mined
<1>2. /\ SendTo(net, n, S, msg) \in Channels(MessageTypes)
      /\ Carries(net, SendTo(net, n, S, msg), {}, n, S, msg)
  BY <1>1, SendStep
<1> QED BY <1>1, <1>2

\* HandleInvRelayBlock
LEMMA InvShape ==
  ASSUME Typed, NEW m \in Nodes, NEW n \in Nodes, HandleInvRelayBlock(m, n)
  PROVE  Does /\ SameDag /\ net' \in Channels(MessageTypes')
<1> DEFINE x == Head(net[m][n])
           b == x.block
<1>1. net[m][n] # <<>> /\ x.type = "INV" /\ SameDag /\ SameRecovery
  BY DEF HandleInvRelayBlock, Arrived, SameDag, SameRecovery
<1> HIDE DEF x
<1>2. /\ FromHead(m, n, x) /\ x \in MessageTypes /\ b \in Mined /\ x = Inv(b)
      /\ header[b] \subseteq Mined
  BY <1>1, HeadForm, MessageForm DEF x
<1>3. Known(n, b) <=> b \in Held(n)
  BY CopyOfBlock DEF Typed
<1>4. CASE Known(n, b)
  <2>1. net' = Read(m, n) /\ SameQueue
    BY <1>4 DEF HandleInvRelayBlock, x, SameQueue
  <2>2. net' \in Channels(MessageTypes') /\ Carries(net, net', {<<m, n>>}, n, {}, x)
    BY <1>1, <1>2, <2>1, ReadAndSend DEF SameDag
  <2>3. DoesDrop(m, n, x)
    BY <1>1, <1>2, <1>3, <1>4, <2>1, <2>2 DEF DoesDrop
  <2> QED BY <1>1, <1>2, <2>2, <2>3 DEF Does
<1>5. CASE ~ Known(n, b) /\ b \in DOMAIN queueInv[n]
  <2>1. Announcers(n, b) = queueInv[n][b] /\ ~ FirstAnnouncement(n, b)
    BY <1>5 DEF Announcers, FirstAnnouncement, Typed, QueueBooks
  <2>2. /\ net' = Read(m, n) /\ UNCHANGED invTimers
        /\ queueInv' = [queueInv EXCEPT ![n] = Put(@, b, Append(queueInv[n][b], m))]
    BY <1>5, <2>1 DEF HandleInvRelayBlock, x
  <2>3. net' \in Channels(MessageTypes') /\ Carries(net, net', {<<m, n>>}, n, {}, Inv(b))
    BY <1>1, <1>2, <2>2, ReadAndSend DEF SameDag
  <2>4. DoesQueue(m, n, b)
    BY <1>1, <1>2, <1>3, <1>5, <2>2, <2>3 DEF DoesQueue, QueueSet
  <2> QED BY <1>1, <1>2, <2>3, <2>4 DEF Does
<1>6. CASE ~ Known(n, b) /\ b \notin DOMAIN queueInv[n]
  <2>1. Announcers(n, b) = <<>> /\ FirstAnnouncement(n, b) /\ Append(<<>>, m) = <<m>>
    BY <1>6 DEF Announcers, FirstAnnouncement
  <2>2. /\ net' = SendTo(Read(m, n), n, {m}, Req(b, FALSE))
        /\ invTimers' = [invTimers EXCEPT ![n] = @ \cup {b}]
        /\ queueInv' = [queueInv EXCEPT ![n] = Put(@, b, <<m>>)]
    BY <1>6, <2>1 DEF HandleInvRelayBlock, x
  <2>3. Req(b, FALSE) \in MessageTypes /\ {m} \in SUBSET Nodes
    BY <1>2, MessagesMade
  <2>4. net' \in Channels(MessageTypes') /\ Carries(net, net', {<<m, n>>}, n, {m}, Req(b, FALSE))
    BY <1>1, <2>2, <2>3, ReadAndSend DEF SameDag
  <2>5. DoesAsk(m, n, b)
    BY <1>1, <1>2, <1>3, <1>6, <2>2, <2>4 DEF DoesAsk, QueueSet
  <2> QED BY <1>1, <1>2, <2>4, <2>5 DEF Does
<1> QED BY <1>4, <1>5, <1>6

\* HandleReqRelayBlock
LEMMA ReqShape ==
  ASSUME Typed, NEW m \in Nodes, NEW n \in Nodes, HandleReqRelayBlock(m, n)
  PROVE  Does /\ SameDag /\ net' \in Channels(MessageTypes')
<1> DEFINE x == Head(net[m][n])
           b == x.block
<1>1. net[m][n] # <<>> /\ x.type = "REQ" /\ SameDag /\ SameRecovery /\ SameQueue
  BY DEF HandleReqRelayBlock, Arrived, SameDag, SameRecovery, SameQueue
<1> HIDE DEF x
<1>2. FromHead(m, n, x) /\ x \in MessageTypes /\ b \in Mined /\ header[b] \subseteq Mined
  BY <1>1, HeadForm DEF x
<1>3. /\ Known(n, b) <=> b \in Held(n)
      /\ Known(n, b) => ParentsAt(n, b) = header[b]
  BY CopyOfBlock DEF Typed
<1>4. CASE ~ Known(n, b)
  <2>1. net' = Read(m, n)
    BY <1>4 DEF HandleReqRelayBlock, x
  <2>2. net' \in Channels(MessageTypes') /\ Carries(net, net', {<<m, n>>}, n, {}, x)
    BY <1>1, <1>2, <2>1, ReadAndSend DEF SameDag
  <2>3. DoesDrop(m, n, x)
    BY <1>1, <1>2, <1>3, <1>4, <2>2 DEF DoesDrop
  <2> QED BY <1>1, <1>2, <2>2, <2>3 DEF Does
<1>5. CASE Known(n, b)
  <2>1. PICK y \in {Blk(b, header[b]), GBlk(b, header[b])} : net' = SendTo(Read(m, n), n, {m}, y)
    BY <1>3, <1>5 DEF HandleReqRelayBlock, x
  <2>2. y \in MessageTypes /\ {m} \in SUBSET Nodes /\ y.type \in {"BLOCK", "GBLOCK"} /\ y.block = b
    <3>1. CASE y = Blk(b, header[b])
      BY <1>2, <3>1, MessagesMade DEF Blk
    <3>2. CASE y = GBlk(b, header[b])
      BY <1>2, <3>2, MessagesMade DEF GBlk
    <3> QED BY <2>1, <3>1, <3>2
  <2>3. net' \in Channels(MessageTypes') /\ Carries(net, net', {<<m, n>>}, n, {m}, y)
    BY <1>1, <2>1, <2>2, ReadAndSend DEF SameDag
  <2>4. DoesAnswer(m, n, x, y)
    BY <1>1, <1>2, <1>3, <1>5, <2>2, <2>3 DEF DoesAnswer
  <2> QED BY <1>1, <1>2, <2>2, <2>3, <2>4 DEF Does
<1> QED BY <1>4, <1>5

\* HandleGrapheneRecoveryRequest
LEMMA RecoveryRequestShape ==
  ASSUME Typed, NEW m \in Nodes, NEW n \in Nodes, HandleGrapheneRecoveryRequest(m, n)
  PROVE  Does /\ SameDag /\ net' \in Channels(MessageTypes')
<1> DEFINE x == Head(net[m][n])
           b == x.block
<1>1. net[m][n] # <<>> /\ x.type = "RREQ" /\ SameDag /\ SameRecovery /\ SameQueue
  BY DEF HandleGrapheneRecoveryRequest, Arrived, SameDag, SameRecovery, SameQueue
<1> HIDE DEF x
<1>2. FromHead(m, n, x) /\ x \in MessageTypes /\ b \in Mined /\ header[b] \subseteq Mined
  BY <1>1, HeadForm DEF x
<1>3. Known(n, b) <=> b \in Held(n)
  BY CopyOfBlock DEF Typed
<1>4. CASE ~ Known(n, b)
  <2>1. net' = Read(m, n)
    BY <1>4 DEF HandleGrapheneRecoveryRequest, x
  <2>2. net' \in Channels(MessageTypes') /\ Carries(net, net', {<<m, n>>}, n, {}, x)
    BY <1>1, <1>2, <2>1, ReadAndSend DEF SameDag
  <2>3. DoesDrop(m, n, x)
    BY <1>1, <1>2, <1>3, <1>4, <2>2 DEF DoesDrop
  <2> QED BY <1>1, <1>2, <2>2, <2>3 DEF Does
<1>5. CASE Known(n, b)
  <2>1. net' = SendTo(Read(m, n), n, {m}, RResp(b))
    BY <1>5 DEF HandleGrapheneRecoveryRequest, x
  <2>2. RResp(b) \in MessageTypes /\ {m} \in SUBSET Nodes
    BY <1>2, MessagesMade
  <2>3. net' \in Channels(MessageTypes') /\ Carries(net, net', {<<m, n>>}, n, {m}, RResp(b))
    BY <1>1, <2>1, <2>2, ReadAndSend DEF SameDag
  <2>4. DoesAnswer(m, n, x, RResp(b))
    BY <1>1, <1>2, <1>3, <1>5, <2>3 DEF DoesAnswer, RResp
  <2> QED BY <1>1, <1>2, <2>2, <2>3, <2>4 DEF Does
<1> QED BY <1>4, <1>5

\* HandleBlock, on a block that m has sent.
LEMMA HandleBlockShape ==
  ASSUME Typed, NEW m \in Nodes, NEW n \in Nodes, net[m][n] # <<>>,
         NEW x, x = Head(net[m][n]), UNCHANGED header,
         HandleBlockFrom(m, n, x.block, header[x.block])
  PROVE  /\ net' \in Channels(MessageTypes')
         /\ x.block \in Held(n) =>
              /\ UNCHANGED chain /\ SameQueue
              /\ Carries(net, net', {<<m, n>>}, n, {}, x)
              /\ Carries(net, net', {<<m, n>>}, n, {}, Req(x.block, TRUE))
         /\ x.block \notin Held(n) =>
              /\ HandleBlock(n, x.block) /\ Takes(n, x.block) /\ ForgetAnnouncers(n, x.block)
              /\ Carries(net, net', {<<m, n>>}, n, Peers[n] \ {m}, Inv(x.block))
<1> DEFINE b == x.block
<1>1. x \in MessageTypes /\ b \in Mined /\ header[b] \subseteq Mined
  BY HeadForm
<1>2. Inv(b) \in MessageTypes /\ Req(b, TRUE) \in MessageTypes
  BY <1>1, MessagesMade
<1>3. (Known(n, b) <=> b \in Held(n)) /\ Peers[n] \ {m} \in SUBSET Nodes
  BY CopyOfBlock, PeersAreNodes DEF Typed
<1>4. CASE Known(n, b)
  <2>1. net' = Read(m, n) /\ UNCHANGED chain /\ SameQueue
    BY <1>4 DEF HandleBlockFrom, SameQueue
  <2> QED BY <1>1, <1>2, <1>3, <1>4, <2>1, ReadAndSend
<1>5. CASE ~ Known(n, b)
  <2>1. /\ chain' = [chain EXCEPT ![n] = AddBlock(@, b, header[b])]
        /\ ForgetAnnouncers(n, b)
        /\ net' = SendTo(Read(m, n), n, Peers[n] \ {m}, Inv(b))
    BY <1>5 DEF HandleBlockFrom, BroadcastInvBlock
  <2>2. HandleBlock(n, b)
    BY <1>5, <2>1 DEF HandleBlock, Known
  <2>3. Takes(n, b)
    BY <1>1, <2>2, HandleBlockStep DEF Typed
  <2> QED BY <1>2, <1>3, <1>5, <2>1, <2>2, <2>3, ReadAndSend
<1> QED BY <1>4, <1>5

\* In the refinement a step of the relay is one of the DAG or none.
DagStep == SameDag \/ \E n \in Nodes, b \in Mined : HandleBlock(n, b)

\* ReceiveBlock
LEMMA BlockShape ==
  ASSUME Typed, NEW m \in Nodes, NEW n \in Nodes, ReceiveBlock(m, n)
  PROVE  Does /\ UNCHANGED header /\ DagStep /\ net' \in Channels(MessageTypes')
<1> DEFINE x == Head(net[m][n])
           b == x.block
<1>1. net[m][n] # <<>> /\ x.type = "BLOCK" /\ UNCHANGED header /\ SameRecovery
  BY DEF ReceiveBlock, Arrived, SameRecovery
<1> HIDE DEF x
<1>2. FromHead(m, n, x) /\ x \in MessageTypes /\ b \in Mined /\ x.parents = header[b]
  BY <1>1, HeadForm, MessageForm DEF x
<1>3. HandleBlockFrom(m, n, b, header[b])
  BY <1>2 DEF ReceiveBlock, x
<1>4. x = Head(net[m][n])
  BY DEF x
<1>5. CASE b \in Held(n)
  <2>1. /\ UNCHANGED chain /\ SameQueue /\ net' \in Channels(MessageTypes')
        /\ Carries(net, net', {<<m, n>>}, n, {}, x)
    BY <1>1, <1>3, <1>4, <1>5, HandleBlockShape
  <2>2. DoesDrop(m, n, x)
    BY <1>1, <1>2, <1>5, <2>1 DEF DoesDrop, SameDag
  <2> QED BY <1>1, <1>2, <2>1, <2>2 DEF Does, DagStep, SameDag
<1>6. CASE b \notin Held(n)
  <2>1. /\ HandleBlock(n, b) /\ Takes(n, b) /\ ForgetAnnouncers(n, b)
        /\ Carries(net, net', {<<m, n>>}, n, Peers[n] \ {m}, Inv(b))
        /\ net' \in Channels(MessageTypes')
    BY <1>1, <1>3, <1>4, <1>6, HandleBlockShape
  <2>2. DoesTake(m, n, x)
    BY <1>1, <1>2, <2>1 DEF DoesTake
  <2> QED BY <1>1, <1>2, <2>1, <2>2 DEF Does, DagStep
<1> QED BY <1>5, <1>6

\* HandleGrapheneBlock
LEMMA CompactBlockShape ==
  ASSUME Typed, NEW m \in Nodes, NEW n \in Nodes, HandleGrapheneBlock(m, n)
  PROVE  Does /\ UNCHANGED header /\ DagStep /\ net' \in Channels(MessageTypes')
<1> DEFINE x == Head(net[m][n])
           b == x.block
<1>1. net[m][n] # <<>> /\ x.type = "GBLOCK" /\ UNCHANGED header
  BY DEF HandleGrapheneBlock, Arrived
<1> HIDE DEF x
<1>2. /\ FromHead(m, n, x) /\ x \in MessageTypes /\ b \in Mined /\ x.parents = header[b]
      /\ header[b] \subseteq Mined
  BY <1>1, HeadForm, MessageForm DEF x
<1>3. x = Head(net[m][n])
  BY DEF x
<1>4. Known(n, b) <=> b \in Held(n)
  BY CopyOfBlock DEF Typed
<1>5. CASE Known(n, b) \/ b \in DOMAIN recovery[n]
  <2>1. net' = Read(m, n) /\ UNCHANGED chain /\ SameQueue /\ SameRecovery
    BY <1>5 DEF HandleGrapheneBlock, x, SameQueue, SameRecovery
  <2>2. net' \in Channels(MessageTypes') /\ Carries(net, net', {<<m, n>>}, n, {}, x)
    BY <1>1, <1>2, <2>1, ReadAndSend
  <2>3. DoesDrop(m, n, x)
    BY <1>1, <1>2, <1>4, <1>5, <2>1, <2>2 DEF DoesDrop, SameDag
  <2> QED BY <1>1, <1>2, <2>1, <2>2, <2>3 DEF Does, DagStep, SameDag
<1>6. CASE ~ (Known(n, b) \/ b \in DOMAIN recovery[n])
  <2>1. \/ HandleBlockFrom(m, n, b, header[b]) /\ SameRecovery
        \/ /\ recovery' = [recovery EXCEPT ![n] = Put(@, b, [sender |-> m, parents |-> header[b]])]
           /\ recTimers' = [recTimers EXCEPT ![n] = @ \cup {b}]
           /\ net' = SendTo(Read(m, n), n, {m}, RReq(b))
           /\ UNCHANGED chain /\ SameQueue
    BY <1>2, <1>6 DEF HandleGrapheneBlock, x, SameQueue, SameRecovery
  <2>2. CASE HandleBlockFrom(m, n, b, header[b]) /\ SameRecovery
    <3>1. /\ HandleBlock(n, b) /\ Takes(n, b) /\ ForgetAnnouncers(n, b)
          /\ Carries(net, net', {<<m, n>>}, n, Peers[n] \ {m}, Inv(b))
          /\ net' \in Channels(MessageTypes')
      BY <1>1, <1>3, <1>4, <1>6, <2>2, HandleBlockShape
    <3>2. DoesTake(m, n, x)
      BY <1>1, <1>2, <2>2, <3>1 DEF DoesTake
    <3> QED BY <1>1, <1>2, <3>1, <3>2 DEF Does, DagStep
  <2>3. CASE /\ recovery' = [recovery EXCEPT ![n] = Put(@, b, [sender |-> m, parents |-> header[b]])]
             /\ recTimers' = [recTimers EXCEPT ![n] = @ \cup {b}]
             /\ net' = SendTo(Read(m, n), n, {m}, RReq(b))
             /\ UNCHANGED chain /\ SameQueue
    <3>1. RReq(b) \in MessageTypes /\ {m} \in SUBSET Nodes
      BY <1>2, MessagesMade
    <3>2. net' \in Channels(MessageTypes') /\ Carries(net, net', {<<m, n>>}, n, {m}, RReq(b))
      BY <1>1, <2>3, <3>1, ReadAndSend
    <3>3. DoesRecover(m, n, x)
      BY <1>1, <1>2, <1>4, <1>6, <2>3, <3>2 DEF DoesRecover, AttemptSet, SameDag
    <3> QED BY <1>1, <1>2, <2>3, <3>2, <3>3 DEF Does, DagStep, SameDag
  <2> QED BY <2>1, <2>2, <2>3
<1> QED BY <1>5, <1>6

\* HandleGrapheneRecoveryResponse
LEMMA RecoveryResponseShape ==
  ASSUME Typed, Answerable, NEW m \in Nodes, NEW n \in Nodes,
         HandleGrapheneRecoveryResponse(m, n)
  PROVE  Does /\ UNCHANGED header /\ DagStep /\ net' \in Channels(MessageTypes')
<1> DEFINE x == Head(net[m][n])
           b == x.block
<1>1. net[m][n] # <<>> /\ x.type = "RRESP" /\ UNCHANGED header
  BY DEF HandleGrapheneRecoveryResponse, Arrived
<1> HIDE DEF x
<1>2. /\ FromHead(m, n, x) /\ x \in MessageTypes /\ b \in Mined /\ x = RResp(b)
      /\ header[b] \subseteq Mined /\ b \in Held(m)
  BY <1>1, HeadForm, MessageForm DEF x, Answerable, HolderAtEnd
<1>3. x = Head(net[m][n])
  BY DEF x
<1>4. CASE b \notin DOMAIN recovery[n]
  <2>1. net' = Read(m, n) /\ UNCHANGED chain /\ SameQueue /\ SameRecovery
    BY <1>4 DEF HandleGrapheneRecoveryResponse, x, SameQueue, SameRecovery
  <2>2. net' \in Channels(MessageTypes') /\ Carries(net, net', {<<m, n>>}, n, {}, x)
    BY <1>1, <1>2, <2>1, ReadAndSend
  <2>3. DoesDrop(m, n, x)
    BY <1>1, <1>2, <1>4, <2>1, <2>2 DEF DoesDrop, SameDag
  <2> QED BY <1>1, <1>2, <2>1, <2>2, <2>3 DEF Does, DagStep, SameDag
<1>5. CASE b \in DOMAIN recovery[n]
  <2>1. EndRecovery(n, b) /\ recovery[n][b].parents = header[b]
    BY <1>5 DEF HandleGrapheneRecoveryResponse, x, Typed, RecoveryBooks
  <2>2. \/ HandleBlockFrom(m, n, b, header[b])
        \/ /\ net' = SendTo(Read(m, n), n, {m}, Req(b, TRUE))
           /\ UNCHANGED chain /\ SameQueue
    <3>1. \/ HandleBlockFrom(m, n, b, recovery[n][b].parents)
          \/ /\ net' = SendTo(Read(m, n), n, {m}, Req(b, TRUE))
             /\ UNCHANGED <<chain, queueInv, invTimers>>
      BY <1>5 DEF HandleGrapheneRecoveryResponse, x
    <3> QED BY <2>1, <3>1 DEF SameQueue
  <2>3. CASE HandleBlockFrom(m, n, b, header[b]) /\ b \in Held(n)
    <3>1. /\ UNCHANGED chain /\ SameQueue /\ net' \in Channels(MessageTypes')
          /\ Carries(net, net', {<<m, n>>}, n, {}, Req(b, TRUE))
      BY <1>1, <1>3, <2>3, HandleBlockShape
    <3>2. DoesEnd(n, b, {<<m, n>>}, {})
      BY <1>1, <1>2, <1>5, <2>1, <2>3, <3>1 DEF DoesEnd, SameDag
    <3>3. {<<m, n>>} \in SUBSET (Nodes \X Nodes)
      OBVIOUS
    <3> QED BY <1>1, <1>2, <3>1, <3>2, <3>3 DEF Does, DagStep, SameDag
  <2>4. CASE HandleBlockFrom(m, n, b, header[b]) /\ b \notin Held(n)
    <3>1. /\ HandleBlock(n, b) /\ Takes(n, b) /\ ForgetAnnouncers(n, b)
          /\ Carries(net, net', {<<m, n>>}, n, Peers[n] \ {m}, Inv(b))
          /\ net' \in Channels(MessageTypes')
      BY <1>1, <1>3, <2>4, HandleBlockShape
    <3>2. DoesTake(m, n, x)
      BY <1>1, <1>2, <2>1, <3>1 DEF DoesTake
    <3> QED BY <1>1, <1>2, <3>1, <3>2 DEF Does, DagStep
  <2>5. CASE /\ net' = SendTo(Read(m, n), n, {m}, Req(b, TRUE))
             /\ UNCHANGED chain /\ SameQueue
    <3>1. Req(b, TRUE) \in MessageTypes /\ {m} \in SUBSET Nodes
      BY <1>2, MessagesMade
    <3>2. net' \in Channels(MessageTypes') /\ Carries(net, net', {<<m, n>>}, n, {m}, Req(b, TRUE))
      BY <1>1, <2>5, <3>1, ReadAndSend
    <3>3. DoesEnd(n, b, {<<m, n>>}, {m})
      BY <1>1, <1>2, <1>5, <2>1, <2>5, <3>2 DEF DoesEnd, SameDag
    <3>4. {<<m, n>>} \in SUBSET (Nodes \X Nodes)
      OBVIOUS
    <3> QED BY <1>1, <1>2, <2>5, <3>1, <3>2, <3>3, <3>4 DEF Does, DagStep, SameDag
  <2> QED BY <2>2, <2>3, <2>4, <2>5
<1> QED BY <1>4, <1>5

\* The books, entry by entry.
LEMMA Entries ==
  ASSUME Typed, NEW n \in Nodes, NEW b
  PROVE  /\ b \in DOMAIN queueInv[n] =>
              b \in Mined /\ queueInv[n][b] \in Seq(Nodes) /\ queueInv[n][b] # <<>>
         /\ b \in DOMAIN recovery[n] =>
              b \in Mined /\ recovery[n][b].sender \in Nodes
         /\ invTimers[n] = DOMAIN queueInv[n] /\ recTimers[n] = DOMAIN recovery[n]
<1>1. queueInv[n] \in Maps(Seq(Nodes)) /\ recovery[n] \in Maps(Attempts)
  BY DEF Typed, QueueBooks, RecoveryBooks
<1>2. b \in DOMAIN queueInv[n] => queueInv[n][b] \in Seq(Nodes)
  BY <1>1, MapsEntry
<1>3. b \in DOMAIN recovery[n] => recovery[n][b] \in Attempts
  BY <1>1, MapsEntry
<1> QED BY <1>2, <1>3 DEF Typed, QueueBooks, RecoveryBooks, Attempts

\* InvTimeoutExpired
LEMMA InvTimeoutShape ==
  ASSUME Typed, NEW n \in Nodes, NEW b \in invTimers[n], InvTimeoutExpired(n, b)
  PROVE  Does /\ SameDag /\ net' \in Channels(MessageTypes')
<1> DEFINE q == queueInv[n][b]
           r == Tail(q)
<1>1. b \in DOMAIN queueInv[n] /\ SameDag /\ SameRecovery /\ MessageTypes' = MessageTypes
  BY DEF InvTimeoutExpired, SameDag, SameRecovery, MessageTypes, Mined
<1>2. b \in Mined /\ q \in Seq(Nodes) /\ q # <<>> /\ net \in Channels(MessageTypes)
  BY <1>1, Entries DEF Typed
<1>3. /\ r \in Seq(Nodes) /\ InSeq(r) \subseteq InSeq(q)
      /\ \A x : Once(q, x) => Once(r, x)
  <2> HIDE DEF q
  <2> QED BY <1>2, TailOf
<1>4. CASE ForgetAnnouncers(n, b) /\ UNCHANGED net
  <2>1. DoesGiveUp(n, b)
    BY <1>1, <1>4 DEF DoesGiveUp
  <2> QED BY <1>1, <1>2, <1>4, <2>1 DEF Does
<1>5. ASSUME NEW i \in 1..Len(r),
             queueInv' = [queueInv EXCEPT ![n] =
                            Put(@, b, [r EXCEPT ![1] = r[i], ![i] = r[1]])],
             net' = SendTo(net, n, {r[i]}, Req(b, FALSE)), UNCHANGED invTimers
      PROVE  Does /\ net' \in Channels(MessageTypes')
  <2> DEFINE s == [r EXCEPT ![1] = r[i], ![i] = r[1]]
  <2>1. /\ s \in Seq(Nodes) /\ s # <<>> /\ InSeq(s) \subseteq InSeq(r)
        /\ \A x : Once(r, x) => Once(s, x)
    <3> HIDE DEF r
    <3> QED BY <1>3, <1>5, SwapToFront
  <2>2. r[i] \in Nodes /\ r[i] \in InSeq(q)
    <3> HIDE DEF r
    <3> QED BY <1>3, <1>5 DEF InSeq
  <2> HIDE DEF s, r, q
  <2>3. Req(b, FALSE) \in MessageTypes
    BY <1>2, MessagesMade DEF Typed, IInv, HeaderOK, Mined
  <2>4. net' \in Channels(MessageTypes') /\ Carries(net, net', {}, n, {r[i]}, Req(b, FALSE))
    <3>1. {r[i]} \in SUBSET Nodes
      BY <2>2
    <3> QED BY <1>1, <1>5, <2>3, <3>1, SendOnly DEF SameDag
  <2>5. DoesAskNext(n, b, s, r[i])
    BY <1>1, <1>3, <1>5, <2>1, <2>2, <2>4 DEF DoesAskNext, QueueSet, s, q
  <2> QED BY <1>2, <2>1, <2>2, <2>4, <2>5 DEF Does
<1>6. \/ ForgetAnnouncers(n, b) /\ UNCHANGED net
      \/ \E i \in 1..Len(r) :
           /\ queueInv' = [queueInv EXCEPT ![n] =
                             Put(@, b, [r EXCEPT ![1] = r[i], ![i] = r[1]])]
           /\ net' = SendTo(net, n, {r[i]}, Req(b, FALSE))
           /\ UNCHANGED invTimers
  BY DEF InvTimeoutExpired
<1> QED BY <1>1, <1>4, <1>5, <1>6

\* GrapheneRecoveryTimeout
LEMMA RecoveryTimeoutShape ==
  ASSUME Typed, Answerable, NEW n \in Nodes, NEW b \in recTimers[n],
         GrapheneRecoveryTimeout(n, b)
  PROVE  Does /\ SameDag /\ net' \in Channels(MessageTypes')
<1>1. EndRecovery(n, b) /\ SameDag /\ SameQueue /\ MessageTypes' = MessageTypes
  BY DEF GrapheneRecoveryTimeout, SameDag, SameQueue, MessageTypes, Mined
<1>2. b \in DOMAIN recovery[n] /\ b \in Mined /\ net \in Channels(MessageTypes)
  BY Entries DEF Typed
<1>3. recovery[n][b].sender \in Nodes /\ b \in Held(recovery[n][b].sender)
  BY <1>2, Entries DEF Answerable
<1>4. Known(n, b) <=> b \in Held(n)
  BY CopyOfBlock DEF Typed
<1>5. Req(b, TRUE) \in MessageTypes
  BY <1>2, MessagesMade DEF Typed, IInv, HeaderOK, Mined
<1>6. CASE Known(n, b)
  <2>1. net' = net
    BY <1>6 DEF GrapheneRecoveryTimeout
  <2>2. Carries(net, net', {}, n, {}, Req(b, TRUE))
    BY <2>1 DEF Carries
  <2>3. DoesEnd(n, b, {}, {})
    BY <1>1, <1>2, <1>4, <1>6, <2>2 DEF DoesEnd
  <2> QED BY <1>1, <1>2, <2>1, <2>3 DEF Does
<1>7. CASE ~ Known(n, b)
  <2> DEFINE q == recovery[n][b].sender
  <2>1. net' = SendTo(net, n, {q}, Req(b, TRUE))
    BY <1>7 DEF GrapheneRecoveryTimeout
  <2> HIDE DEF q
  <2>2. net' \in Channels(MessageTypes') /\ Carries(net, net', {}, n, {q}, Req(b, TRUE))
    <3>1. {q} \in SUBSET Nodes
      BY <1>3 DEF q
    <3> QED BY <1>1, <1>5, <2>1, <3>1, SendOnly DEF SameDag
  <2>3. DoesEnd(n, b, {}, {q})
    BY <1>1, <1>2, <1>3, <2>2 DEF DoesEnd, q
  <2>4. {q} \in SUBSET Nodes
    BY <1>3 DEF q
  <2> QED BY <1>1, <1>2, <2>2, <2>3, <2>4 DEF Does
<1> QED BY <1>6, <1>7

\* RelayMine
LEMMA MineShape ==
  ASSUME Typed, NEW n \in Miners, RelayMine(n)
  PROVE  Does /\ MineBlock(n) /\ net' \in Channels(MessageTypes')
<1> DEFINE b == BlockId(n, chain[n].next)
<1>1. MineBlock(n) /\ SameQueue /\ SameRecovery /\ net' = SendTo(net, n, Peers[n], Inv(b))
  BY DEF RelayMine, BroadcastInvBlock, MinedId, SameQueue, SameRecovery
<1>2. IInv' /\ Takes(n, b) /\ b \notin Mined
  BY <1>1, MineBlockStep DEF Typed
<1> HIDE DEF b
<1>3. /\ DOMAIN header' = Mined \cup {b} /\ b \in Nat
      /\ \A x \in Mined : header'[x] = header[x]
  <2>1. header' = Put(header, b, chain[n].tips)
    BY <1>1 DEF MineBlock, b
  <2>2. DOMAIN header' = Mined \cup {b} /\ \A x \in Mined : header'[x] = header[x]
    BY <1>2, <2>1 DEF Put, Mined
  <2> QED BY <1>2, <2>2 DEF IInv, HeaderOK
<1>4. net \in Channels(MessageTypes')
  <2>1. MessageTypes \subseteq MessageTypes'
    BY <1>3, MessagesStay
  <2>2. net \in [Nodes -> [Nodes -> Seq(MessageTypes)]]
    BY DEF Typed, Channels
  <2>3. Seq(MessageTypes) \subseteq Seq(MessageTypes')
    <3> HIDE DEF MessageTypes
    <3> QED BY <2>1
  <2> QED BY <2>2, <2>3 DEF Channels
<1>5. Inv(b) \in MessageTypes' /\ n \in Nodes /\ Peers[n] \in SUBSET Nodes
  BY <1>3, MinersAreNodes, PeersAreNodes DEF MessageTypes, Mined, Inv
<1>6. net' \in Channels(MessageTypes') /\ Carries(net, net', {}, n, Peers[n], Inv(b))
  <2>1. /\ SendTo(net, n, Peers[n], Inv(b)) \in Channels(MessageTypes')
        /\ Carries(net, SendTo(net, n, Peers[n], Inv(b)), {}, n, Peers[n], Inv(b))
    <3> DEFINE M == MessageTypes'
    <3>1. net \in Channels(M) /\ Inv(b) \in M
      BY <1>4, <1>5
    <3> HIDE DEF M
    <3>2. /\ SendTo(net, n, Peers[n], Inv(b)) \in Channels(M)
          /\ Carries(net, SendTo(net, n, Peers[n], Inv(b)), {}, n, Peers[n], Inv(b))
      BY <1>5, <3>1, SendStep
    <3> QED BY <3>2 DEF M
  <2> QED BY <1>1, <2>1
<1>7. DoesMine(n, b)
  BY <1>1, <1>2, <1>3, <1>6 DEF DoesMine
<1> QED BY <1>1, <1>3, <1>6, <1>7 DEF Does

\* Every step of the relay does one of these things, and is one of the DAG.
LEMMA StepShape ==
  ASSUME Typed, Answerable, [RelayNext]_relayVars
  PROVE  Does /\ [Next]_vars /\ net' \in Channels(MessageTypes')
<1>1. CASE UNCHANGED relayVars
  BY <1>1 DEF Does, relayVars, vars, Typed, MessageTypes, Mined
<1>2. ASSUME NEW n \in Miners, RelayMine(n)
      PROVE  Does /\ [Next]_vars /\ net' \in Channels(MessageTypes')
  BY <1>2, MineShape DEF Next
<1>3. ASSUME NEW m \in Nodes, NEW n \in Nodes, Receive(m, n)
      PROVE  Does /\ [Next]_vars /\ net' \in Channels(MessageTypes')
  <2>1. /\ Does /\ net' \in Channels(MessageTypes')
        /\ SameDag \/ DagStep
    BY <1>3, InvShape, ReqShape, BlockShape, CompactBlockShape, RecoveryRequestShape,
       RecoveryResponseShape DEF Receive
  <2>2. SameDag \/ DagStep => [Next]_vars
    BY DEF DagStep, SameDag, Next, vars
  <2> QED BY <2>1, <2>2
<1>4. ASSUME NEW n \in Nodes, NEW b \in invTimers[n], InvTimeoutExpired(n, b)
      PROVE  Does /\ [Next]_vars /\ net' \in Channels(MessageTypes')
  BY <1>4, InvTimeoutShape DEF SameDag, vars
<1>5. ASSUME NEW n \in Nodes, NEW b \in recTimers[n], GrapheneRecoveryTimeout(n, b)
      PROVE  Does /\ [Next]_vars /\ net' \in Channels(MessageTypes')
  BY <1>5, RecoveryTimeoutShape DEF SameDag, vars
<1> QED BY <1>1, <1>2, <1>3, <1>4, <1>5 DEF RelayNext

-----------------------------------------------------------------------------
(* Types and books *)

\* The steps that change the DAG.
LEMMA DagShapes ==
  ASSUME Does
  PROVE  \/ SameDag \/ \E n \in Miners : \E b \in Nat : DoesMine(n, b)
         \/ \E m, n \in Nodes : \E x \in MessageTypes : DoesTake(m, n, x)
<1>1. /\ UNCHANGED relayVars => SameDag
      /\ \A m, n, x : DoesDrop(m, n, x) => SameDag
      /\ \A m, n, x : DoesRecover(m, n, x) => SameDag
      /\ \A m, n, x, y : DoesAnswer(m, n, x, y) => SameDag
      /\ \A m, n, b : DoesQueue(m, n, b) => SameDag
      /\ \A m, n, b : DoesAsk(m, n, b) => SameDag
      /\ \A n, b, R, S : DoesEnd(n, b, R, S) => SameDag
      /\ \A n, b, s, q : DoesAskNext(n, b, s, q) => SameDag
      /\ \A n, b : DoesGiveUp(n, b) => SameDag
  BY DEF DoesDrop, DoesRecover, DoesAnswer, DoesQueue, DoesAsk, DoesEnd, DoesAskNext,
         DoesGiveUp, relayVars, SameDag
<1> QED BY <1>1 DEF Does

\* A node comes to hold blocks and never drops one; headers stay.
LEMMA Grows ==
  ASSUME Does
  PROVE  /\ Mined \subseteq Mined' /\ \A b \in Mined : header'[b] = header[b]
         /\ \A n \in Nodes : Held(n) \subseteq Held(n)'
<1>1. CASE SameDag
  BY <1>1 DEF SameDag, Mined, Held
<1>2. ASSUME NEW n \in Miners, NEW b \in Nat, DoesMine(n, b)
      PROVE  /\ Mined \subseteq Mined' /\ \A x \in Mined : header'[x] = header[x]
             /\ \A m \in Nodes : Held(m) \subseteq Held(m)'
  BY <1>2, MinersAreNodes DEF DoesMine, Takes, Held, Mined
<1>3. ASSUME NEW m \in Nodes, NEW n \in Nodes, NEW x, DoesTake(m, n, x)
      PROVE  /\ Mined \subseteq Mined' /\ \A b \in Mined : header'[b] = header[b]
             /\ \A p \in Nodes : Held(p) \subseteq Held(p)'
  BY <1>3 DEF DoesTake, Takes, Held, Mined
<1> QED BY <1>1, <1>2, <1>3, DagShapes

\* An entry is written in one of the maps.
LEMMA PutEntry ==
  ASSUME NEW V, NEW f \in [Nodes -> Maps(V)], NEW n \in Nodes, NEW b \in Nat, NEW v \in V
  PROVE  LET g == [f EXCEPT ![n] = Put(@, b, v)]
         IN  /\ g \in [Nodes -> Maps(V)] /\ \A p \in Nodes \ {n} : g[p] = f[p]
             /\ DOMAIN g[n] = DOMAIN f[n] \cup {b} /\ g[n][b] = v
             /\ \A x \in DOMAIN f[n] \ {b} : g[n][x] = f[n][x]
<1>1. Put(f[n], b, v) \in Maps(V)
  BY PutMaps
<1>2. /\ DOMAIN Put(f[n], b, v) = DOMAIN f[n] \cup {b} /\ Put(f[n], b, v)[b] = v
      /\ \A x \in DOMAIN f[n] \ {b} : Put(f[n], b, v)[x] = f[n][x]
  BY DEF Put
<1> QED BY <1>1, <1>2

\* An entry is taken out of one of the maps.
LEMMA DropEntry ==
  ASSUME NEW V, NEW f \in [Nodes -> Maps(V)], NEW n \in Nodes, NEW b
  PROVE  LET g == [f EXCEPT ![n] = Without(@, b)]
         IN  /\ g \in [Nodes -> Maps(V)] /\ \A p \in Nodes \ {n} : g[p] = f[p]
             /\ DOMAIN g[n] = DOMAIN f[n] \ {b}
             /\ \A x \in DOMAIN g[n] : g[n][x] = f[n][x]
<1>1. Without(f[n], b) \in Maps(V)
  BY WithoutMaps
<1>2. /\ DOMAIN Without(f[n], b) = DOMAIN f[n] \ {b}
      /\ \A x \in DOMAIN f[n] \ {b} : Without(f[n], b)[x] = f[n][x]
  BY DEF Without
<1> QED BY <1>1, <1>2

\* How the queue of announcers can change ...
QueueStep ==
  \/ SameQueue /\ \A p \in Nodes : Held(p)' \cap Mined \subseteq Held(p)
  \/ \E n \in Nodes : \E b \in Mined \ Held(n) : \E s \in Seq(Nodes) \ {<<>>} :
       /\ QueueSet(n, b, s)
       /\ invTimers' = [invTimers EXCEPT ![n] = @ \cup {b}]
       /\ SameDag
  \/ \E n \in Nodes : \E b \in Mined :
       /\ ForgetAnnouncers(n, b)
       /\ \A p \in Nodes : Held(p)' \subseteq Held(p) \cup (IF p = n THEN {b} ELSE {})

\* ... and the recovery attempts.
RecoveryStep ==
  \/ SameRecovery
  \/ \E n, m \in Nodes : \E b \in Mined :
       /\ AttemptSet(n, b, m)
       /\ recTimers' = [recTimers EXCEPT ![n] = @ \cup {b}]
  \/ \E n \in Nodes : \E b \in Mined : EndRecovery(n, b)

\* A step of one of these shapes keeps requests and timers in order: asked for
\* are mined blocks the node does not hold, each with a timer running.
LEMMA QueueBooksStep ==
  ASSUME QueueBooks, QueueStep, Mined \subseteq Mined', Mined \subseteq Nat
  PROVE  QueueBooks'
<1>1. CASE SameQueue /\ \A p \in Nodes : Held(p)' \cap Mined \subseteq Held(p)
  BY <1>1 DEF SameQueue, QueueBooks
<1>2. ASSUME NEW n \in Nodes, NEW b \in Mined \ Held(n), NEW s \in Seq(Nodes) \ {<<>>},
             QueueSet(n, b, s),
             invTimers' = [invTimers EXCEPT ![n] = @ \cup {b}],
             SameDag
      PROVE  QueueBooks'
  <2>1. b \in Nat /\ queueInv \in [Nodes -> Maps(Seq(Nodes))]
    BY DEF QueueBooks
  <2>2. /\ queueInv' \in [Nodes -> Maps(Seq(Nodes))]
        /\ \A p \in Nodes \ {n} : queueInv'[p] = queueInv[p]
        /\ DOMAIN queueInv'[n] = DOMAIN queueInv[n] \cup {b} /\ queueInv'[n][b] = s
        /\ \A x \in DOMAIN queueInv[n] \ {b} : queueInv'[n][x] = queueInv[n][x]
    BY <1>2, <2>1, PutEntry DEF QueueSet
  <2>3. /\ invTimers' \in [Nodes -> SUBSET Nat] /\ invTimers'[n] = invTimers[n] \cup {b}
        /\ \A p \in Nodes \ {n} : invTimers'[p] = invTimers[p]
    BY <1>2, <2>1 DEF QueueBooks
  <2>4. \A p \in Nodes : Held(p)' = Held(p)
    BY <1>2 DEF SameDag, Held
  <2>5. Mined' = Mined
    BY <1>2 DEF SameDag, Mined
  <2>6. ASSUME NEW p \in Nodes
        PROVE  /\ DOMAIN queueInv'[p] \subseteq Mined' \ Held(p)'
               /\ invTimers'[p] = DOMAIN queueInv'[p]
               /\ \A x \in DOMAIN queueInv'[p] : queueInv'[p][x] # <<>>
    <3>1. CASE p = n
      <4>1. DOMAIN queueInv'[n] \subseteq Mined' \ Held(n)'
        BY <2>2, <2>4, <2>5 DEF QueueBooks
      <4>2. \A x \in DOMAIN queueInv'[n] : queueInv'[n][x] # <<>>
        BY <2>2 DEF QueueBooks
      <4> QED BY <2>2, <2>3, <3>1, <4>1, <4>2 DEF QueueBooks
    <3>2. CASE p # n
      BY <2>2, <2>3, <2>4, <2>5, <3>2 DEF QueueBooks
    <3> QED BY <3>1, <3>2
  <2> QED BY <2>2, <2>3, <2>6 DEF QueueBooks
<1>3. ASSUME NEW n \in Nodes, NEW b \in Mined, ForgetAnnouncers(n, b),
             \A p \in Nodes : Held(p)' \subseteq Held(p) \cup (IF p = n THEN {b} ELSE {})
      PROVE  QueueBooks'
  <2>1. queueInv' = [queueInv EXCEPT ![n] = Without(@, b)]
    BY <1>3 DEF ForgetAnnouncers
  <2>2. /\ queueInv' \in [Nodes -> Maps(Seq(Nodes))]
        /\ \A p \in Nodes \ {n} : queueInv'[p] = queueInv[p]
        /\ DOMAIN queueInv'[n] = DOMAIN queueInv[n] \ {b}
        /\ \A x \in DOMAIN queueInv'[n] : queueInv'[n][x] = queueInv[n][x]
    BY <2>1, DropEntry DEF QueueBooks
  <2>3. /\ invTimers' \in [Nodes -> SUBSET Nat] /\ invTimers'[n] = invTimers[n] \ {b}
        /\ \A p \in Nodes \ {n} : invTimers'[p] = invTimers[p]
    BY <1>3 DEF QueueBooks, ForgetAnnouncers
  <2>4. ASSUME NEW p \in Nodes
        PROVE  /\ DOMAIN queueInv'[p] \subseteq Mined' \ Held(p)'
               /\ invTimers'[p] = DOMAIN queueInv'[p]
               /\ \A x \in DOMAIN queueInv'[p] : queueInv'[p][x] # <<>>
    <3>1. CASE p = n
      <4>1. DOMAIN queueInv[n] \subseteq Mined \ Held(n) /\ Held(n)' \subseteq Held(n) \cup {b}
        BY <1>3 DEF QueueBooks
      <4>2. DOMAIN queueInv'[n] \subseteq Mined' \ Held(n)'
        BY <2>2, <4>1
      <4> QED BY <2>2, <2>3, <3>1, <4>2 DEF QueueBooks
    <3>2. CASE p # n
      BY <1>3, <2>2, <2>3, <3>2 DEF QueueBooks
    <3> QED BY <3>1, <3>2
  <2> QED BY <2>2, <2>3, <2>4 DEF QueueBooks
<1> QED BY <1>1, <1>2, <1>3 DEF QueueStep

\* Likewise for the recovery attempts and their timers; an attempt keeps the
\* parents of the block it is for.
LEMMA RecoveryBooksStep ==
  ASSUME RecoveryBooks, RecoveryStep, Mined \subseteq Mined', Mined \subseteq Nat,
         \A b \in Mined : header'[b] = header[b] /\ header[b] \subseteq Mined
  PROVE  RecoveryBooks'
<1>1. CASE SameRecovery
  BY <1>1 DEF SameRecovery, RecoveryBooks
<1>2. ASSUME NEW n \in Nodes, NEW m \in Nodes, NEW b \in Mined,
             AttemptSet(n, b, m),
             recTimers' = [recTimers EXCEPT ![n] = @ \cup {b}]
      PROVE  RecoveryBooks'
  <2> DEFINE a == [sender |-> m, parents |-> header[b]]
  <2>1. b \in Nat /\ a \in Attempts /\ a.parents = header[b]
    BY DEF Attempts
  <2> HIDE DEF a
  <2>2. /\ recovery' \in [Nodes -> Maps(Attempts)]
        /\ \A p \in Nodes \ {n} : recovery'[p] = recovery[p]
        /\ DOMAIN recovery'[n] = DOMAIN recovery[n] \cup {b} /\ recovery'[n][b] = a
        /\ \A x \in DOMAIN recovery[n] \ {b} : recovery'[n][x] = recovery[n][x]
    <3>1. recovery' = [recovery EXCEPT ![n] = Put(@, b, a)]
      BY <1>2 DEF a, AttemptSet
    <3> QED BY <2>1, <3>1, PutEntry DEF RecoveryBooks
  <2>3. /\ recTimers' \in [Nodes -> SUBSET Nat] /\ recTimers'[n] = recTimers[n] \cup {b}
        /\ \A p \in Nodes \ {n} : recTimers'[p] = recTimers[p]
    BY <1>2, <2>1 DEF RecoveryBooks
  <2>4. ASSUME NEW p \in Nodes
        PROVE  /\ DOMAIN recovery'[p] \subseteq Mined' /\ recTimers'[p] = DOMAIN recovery'[p]
               /\ \A x \in DOMAIN recovery'[p] : recovery'[p][x].parents = header'[x]
    <3>1. CASE p = n
      <4>1. DOMAIN recovery'[n] \subseteq Mined
        BY <2>2 DEF RecoveryBooks
      <4>2. \A x \in DOMAIN recovery'[n] : recovery'[n][x].parents = header[x]
        BY <2>1, <2>2 DEF RecoveryBooks
      <4>3. recTimers'[n] = DOMAIN recovery'[n]
        BY <2>2, <2>3 DEF RecoveryBooks
      <4> QED BY <3>1, <4>1, <4>2, <4>3
    <3>2. CASE p # n
      <4>1. recovery'[p] = recovery[p] /\ recTimers'[p] = recTimers[p]
        BY <2>2, <2>3, <3>2
      <4> QED BY <4>1 DEF RecoveryBooks
    <3> QED BY <3>1, <3>2
  <2> QED BY <2>2, <2>3, <2>4 DEF RecoveryBooks
<1>3. ASSUME NEW n \in Nodes, NEW b \in Mined, EndRecovery(n, b)
      PROVE  RecoveryBooks'
  <2>1. recovery' = [recovery EXCEPT ![n] = Without(@, b)]
    BY <1>3 DEF EndRecovery
  <2>2. /\ recovery' \in [Nodes -> Maps(Attempts)]
        /\ \A p \in Nodes \ {n} : recovery'[p] = recovery[p]
        /\ DOMAIN recovery'[n] = DOMAIN recovery[n] \ {b}
        /\ \A x \in DOMAIN recovery'[n] : recovery'[n][x] = recovery[n][x]
    BY <2>1, DropEntry DEF RecoveryBooks
  <2>3. /\ recTimers' \in [Nodes -> SUBSET Nat] /\ recTimers'[n] = recTimers[n] \ {b}
        /\ \A p \in Nodes \ {n} : recTimers'[p] = recTimers[p]
    BY <1>3 DEF RecoveryBooks, EndRecovery
  <2>4. ASSUME NEW p \in Nodes
        PROVE  /\ DOMAIN recovery'[p] \subseteq Mined' /\ recTimers'[p] = DOMAIN recovery'[p]
               /\ \A x \in DOMAIN recovery'[p] : recovery'[p][x].parents = header'[x]
    <3>1. CASE p = n
      <4>1. DOMAIN recovery'[n] \subseteq DOMAIN recovery[n]
        BY <2>2
      <4>2. \A x \in DOMAIN recovery'[n] : recovery'[n][x].parents = header'[x]
        BY <2>2, <4>1 DEF RecoveryBooks
      <4> QED BY <2>2, <2>3, <3>1, <4>1, <4>2 DEF RecoveryBooks
    <3>2. CASE p # n
      <4>1. recovery'[p] = recovery[p] /\ recTimers'[p] = recTimers[p]
        BY <2>2, <2>3, <3>2
      <4> QED BY <4>1 DEF RecoveryBooks
    <3> QED BY <3>1, <3>2
  <2> QED BY <2>2, <2>3, <2>4 DEF RecoveryBooks
<1> QED BY <1>1, <1>2, <1>3 DEF RecoveryStep

\* What Does says of the books.
LEMMA DoesBooks ==
  ASSUME Typed, Does
  PROVE  QueueStep /\ RecoveryStep
<1> USE DEF QueueStep, RecoveryStep, SameDag, Held
<1>1. CASE UNCHANGED relayVars
  BY <1>1 DEF relayVars, SameQueue, SameRecovery
<1>2. ASSUME NEW n \in Miners, NEW b \in Nat, DoesMine(n, b) PROVE QueueStep /\ RecoveryStep
  <2>1. \A p \in Nodes : Holding(chain'[p]) \cap Mined \subseteq Holding(chain[p])
    BY <1>2, MinersAreNodes DEF DoesMine, Takes
  <2> QED BY <1>2, <2>1 DEF DoesMine
<1>3. ASSUME NEW m \in Nodes, NEW n \in Nodes, NEW x \in MessageTypes,
             DoesDrop(m, n, x) \/ \E y \in MessageTypes : DoesAnswer(m, n, x, y)
      PROVE  QueueStep /\ RecoveryStep
  <2>1. SameDag /\ SameQueue /\ SameRecovery
    BY <1>3 DEF DoesDrop, DoesAnswer
  <2> QED BY <2>1
<1>4. ASSUME NEW m \in Nodes, NEW n \in Nodes, NEW x \in MessageTypes, DoesTake(m, n, x)
      PROVE  QueueStep /\ RecoveryStep
  <2>1. x.block \in Mined
    BY MessageForm
  <2>2. ForgetAnnouncers(n, x.block) /\ (SameRecovery \/ EndRecovery(n, x.block))
    BY <1>4 DEF DoesTake
  <2>3. \A p \in Nodes : Holding(chain'[p]) \subseteq
                           Holding(chain[p]) \cup (IF p = n THEN {x.block} ELSE {})
    BY <1>4 DEF DoesTake, Takes
  <2> QED BY <2>1, <2>2, <2>3
<1>5. ASSUME NEW m \in Nodes, NEW n \in Nodes, NEW x \in MessageTypes, DoesRecover(m, n, x)
      PROVE  QueueStep /\ RecoveryStep
  BY <1>5, MessageForm DEF DoesRecover
<1>6. ASSUME NEW m \in Nodes, NEW n \in Nodes, NEW b \in Mined, DoesQueue(m, n, b)
      PROVE  QueueStep /\ RecoveryStep
  <2> DEFINE s == Append(queueInv[n][b], m)
  <2>1. s \in Seq(Nodes) \ {<<>>} /\ b \in invTimers[n]
    <3>1. queueInv[n][b] \in Seq(Nodes) /\ b \in invTimers[n]
      BY <1>6, Entries DEF DoesQueue
    <3> QED BY <3>1
  <2>2. invTimers' = [invTimers EXCEPT ![n] = @ \cup {b}]
    BY <1>6, <2>1 DEF DoesQueue, Typed, QueueBooks
  <2>3. QueueSet(n, b, s)
    BY <1>6 DEF DoesQueue
  <2> HIDE DEF s
  <2> QED BY <1>6, <2>1, <2>2, <2>3 DEF DoesQueue
<1>7. ASSUME NEW m \in Nodes, NEW n \in Nodes, NEW b \in Mined, DoesAsk(m, n, b)
      PROVE  QueueStep /\ RecoveryStep
  <2>1. <<m>> \in Seq(Nodes) \ {<<>>}
    OBVIOUS
  <2> QED BY <1>7, <2>1 DEF DoesAsk
<1>8. ASSUME NEW n \in Nodes, NEW b \in Mined, NEW R, NEW S, DoesEnd(n, b, R, S)
      PROVE  QueueStep /\ RecoveryStep
  BY <1>8 DEF DoesEnd
<1>9. ASSUME NEW n \in Nodes, NEW q \in Nodes, NEW b \in Mined, NEW s \in Seq(Nodes),
             DoesAskNext(n, b, s, q)
      PROVE  QueueStep /\ RecoveryStep
  <2>1. s \in Seq(Nodes) \ {<<>>} /\ b \in invTimers[n] /\ b \in Mined \ Held(n)
    BY <1>9, Entries DEF DoesAskNext, Typed, QueueBooks
  <2>2. invTimers' = [invTimers EXCEPT ![n] = @ \cup {b}]
    BY <1>9, <2>1 DEF DoesAskNext, Typed, QueueBooks
  <2> QED BY <1>9, <2>1, <2>2 DEF DoesAskNext
<1>10. ASSUME NEW n \in Nodes, NEW b \in Mined, DoesGiveUp(n, b)
       PROVE  QueueStep /\ RecoveryStep
  BY <1>10 DEF DoesGiveUp
<1> QED BY <1>1, <1>2, <1>3, <1>4, <1>5, <1>6, <1>7, <1>8, <1>9, <1>10 DEF Does

\* Types and books are kept.
LEMMA TypedStep ==
  ASSUME Typed, Answerable, [RelayNext]_relayVars
  PROVE  Typed'
<1>1. Does /\ [Next]_vars /\ net' \in Channels(MessageTypes')
  BY StepShape
<1>2. IInv' /\ Grounded'
  BY <1>1, Step, GroundedStep DEF Typed
<1>3. Mined \subseteq Mined' /\ \A b \in Mined : header'[b] = header[b]
  BY <1>1, Grows
<1>4. Mined \subseteq Nat /\ \A b \in Mined : header[b] \subseteq Mined
  BY DEF Typed, IInv, HeaderOK, Mined
<1>5. QueueBooks'
  BY <1>1, <1>3, <1>4, DoesBooks, QueueBooksStep DEF Typed
<1>6. RecoveryBooks'
  BY <1>1, <1>3, <1>4, DoesBooks, RecoveryBooksStep DEF Typed
<1>7. (net \in Channels(MessageTypes))'
  BY <1>1 DEF Channels
<1> QED BY <1>2, <1>5, <1>6, <1>7 DEF Typed

-----------------------------------------------------------------------------
(* Who holds what *)

\* The announcers after a change of the queue.
LEMMA AnnouncersSet ==
  ASSUME Typed, NEW n \in Nodes, NEW b \in Mined, NEW s \in Seq(Nodes), QueueSet(n, b, s),
         NEW p \in Nodes, NEW x
  PROVE  /\ Announcers(p, x)' = IF p = n /\ x = b THEN s ELSE Announcers(p, x)
         /\ x \in DOMAIN queueInv'[p] <=> x \in DOMAIN queueInv[p] \/ (p = n /\ x = b)
<1>1. queueInv \in [Nodes -> Maps(Seq(Nodes))] /\ b \in Nat
  BY DEF Typed, QueueBooks, IInv, HeaderOK, Mined
<1>2. /\ \A r \in Nodes \ {n} : queueInv'[r] = queueInv[r]
      /\ DOMAIN queueInv'[n] = DOMAIN queueInv[n] \cup {b} /\ queueInv'[n][b] = s
      /\ \A y \in DOMAIN queueInv[n] \ {b} : queueInv'[n][y] = queueInv[n][y]
  <2>1. queueInv' = [queueInv EXCEPT ![n] = Put(@, b, s)]
    BY DEF QueueSet
  <2> QED BY <1>1, <2>1, PutEntry
<1>3. CASE p = n
  BY <1>2, <1>3 DEF Announcers
<1>4. CASE p # n
  BY <1>2, <1>4 DEF Announcers
<1> QED BY <1>3, <1>4

\* ForgetAnnouncers empties one queue of announcers and no other.
LEMMA AnnouncersForgotten ==
  ASSUME Typed, NEW n \in Nodes, NEW b \in Mined, ForgetAnnouncers(n, b),
         NEW p \in Nodes, NEW x
  PROVE  /\ Announcers(p, x)' = IF p = n /\ x = b THEN <<>> ELSE Announcers(p, x)
         /\ x \in DOMAIN queueInv'[p] <=> x \in DOMAIN queueInv[p] /\ ~ (p = n /\ x = b)
<1>1. /\ \A r \in Nodes \ {n} : queueInv'[r] = queueInv[r]
      /\ DOMAIN queueInv'[n] = DOMAIN queueInv[n] \ {b}
      /\ \A y \in DOMAIN queueInv'[n] : queueInv'[n][y] = queueInv[n][y]
  BY DropEntry DEF ForgetAnnouncers, Typed, QueueBooks
<1>2. CASE p = n
  BY <1>1, <1>2 DEF Announcers
<1>3. CASE p # n
  BY <1>1, <1>3 DEF Announcers
<1> QED BY <1>2, <1>3

\* The streams of a step: every message sent has its block held at one end.
LEMMA HoldersStep ==
  ASSUME Answerable, NEW R, NEW n \in Nodes, NEW S \in SUBSET Nodes, NEW msg,
         Carries(net, net', R, n, S, msg),
         \A q \in S : HolderAtEnd(n, q, msg)',
         \A p \in Nodes : Held(p) \subseteq Held(p)'
  PROVE  \A p, q \in Nodes : \A x \in Way(p, q)' : HolderAtEnd(p, q, x)'
<1> SUFFICES ASSUME NEW p \in Nodes, NEW q \in Nodes, NEW x \in Way(p, q)'
             PROVE  HolderAtEnd(p, q, x)'
  OBVIOUS
<1>1. x \in Way(p, q) \/ (p = n /\ q \in S /\ x = msg)
  BY DEF Carries, Way
<1>2. CASE x \in Way(p, q)
  BY <1>2 DEF Answerable, HolderAtEnd
<1>3. CASE p = n /\ q \in S /\ x = msg
  <2>1. HolderAtEnd(n, q, msg)'
    BY <1>3
  <2> QED BY <1>3, <2>1
<1> QED BY <1>1, <1>2, <1>3

\* The sender of what is read, or the reader, holds the block.
LEMMA HeadHolder ==
  ASSUME Typed, Answerable, NEW m \in Nodes, NEW n \in Nodes, NEW x, FromHead(m, n, x)
  PROVE  x \in Way(m, n) /\ HolderAtEnd(m, n, x)
BY HeadForm DEF FromHead, Answerable

\* After a step, every message under way still has its block at one of its
\* ends: answers at the sender, requests at the one who is asked.
LEMMA AnswerableOnTheWay ==
  ASSUME Typed, Answerable, Does
  PROVE  \A p, q \in Nodes : \A x \in Way(p, q)' : HolderAtEnd(p, q, x)'
<1> DEFINE Goal == \A p, q \in Nodes : \A x \in Way(p, q)' : HolderAtEnd(p, q, x)'
<1>1. \A p \in Nodes : Held(p) \subseteq Held(p)'
  BY Grows
<1>2. CASE net' = net
  BY <1>1, <1>2 DEF Answerable, HolderAtEnd, Way
<1>3. ASSUME NEW n \in Miners, NEW b \in Nat, DoesMine(n, b) PROVE Goal
  <2>1. n \in Nodes /\ Peers[n] \in SUBSET Nodes /\ b \in Held(n)'
    BY <1>3, MinersAreNodes, PeersAreNodes DEF DoesMine, Takes, Held
  <2>2. \A q \in Peers[n] : HolderAtEnd(n, q, Inv(b))'
    BY <2>1 DEF HolderAtEnd, Inv
  <2>3. Carries(net, net', {}, n, Peers[n], Inv(b))
    BY <1>3 DEF DoesMine
  <2> HIDE DEF HolderAtEnd
  <2> QED BY <1>1, <2>1, <2>2, <2>3, HoldersStep
<1>4. ASSUME NEW m \in Nodes, NEW n \in Nodes, NEW x,
             Carries(net, net', {<<m, n>>}, n, {}, x)
      PROVE  Goal
  BY <1>1, <1>4, HoldersStep
<1>5. ASSUME NEW m \in Nodes, NEW n \in Nodes, NEW b \in Mined, DoesAsk(m, n, b) PROVE Goal
  <2> DEFINE y == Req(b, FALSE)
  <2>1. HolderAtEnd(m, n, Inv(b)) /\ Carries(net, net', {<<m, n>>}, n, {m}, y)
    BY <1>5, HeadHolder DEF DoesAsk
  <2>2. \A q \in {m} : HolderAtEnd(n, q, y)'
    BY <1>1, <2>1 DEF HolderAtEnd, Req, Inv
  <2> HIDE DEF y
  <2> QED BY <1>1, <2>1, <2>2, HoldersStep
<1>6. ASSUME NEW m \in Nodes, NEW n \in Nodes, NEW x \in MessageTypes,
             NEW y \in MessageTypes, DoesAnswer(m, n, x, y)
      PROVE  Goal
  <2>1. HolderAtEnd(n, m, y)'
    BY <1>1, <1>6 DEF HolderAtEnd, DoesAnswer
  <2> QED BY <1>1, <1>6, <2>1, HoldersStep DEF DoesAnswer
<1>7. ASSUME NEW m \in Nodes, NEW n \in Nodes, NEW x \in MessageTypes, DoesTake(m, n, x)
      PROVE  Goal
  <2>1. Peers[n] \ {m} \in SUBSET Nodes /\ x.block \in Held(n)'
    BY <1>7, PeersAreNodes DEF DoesTake, Takes, Held
  <2>2. \A q \in Peers[n] \ {m} : HolderAtEnd(n, q, Inv(x.block))'
    BY <2>1 DEF HolderAtEnd, Inv
  <2>3. Carries(net, net', {<<m, n>>}, n, Peers[n] \ {m}, Inv(x.block))
    BY <1>7 DEF DoesTake
  <2> QED BY <1>1, <2>1, <2>2, <2>3, HoldersStep
<1>8. ASSUME NEW m \in Nodes, NEW n \in Nodes, NEW x \in MessageTypes, DoesRecover(m, n, x)
      PROVE  Goal
  <2>1. /\ x.block \in Held(m)
        /\ Carries(net, net', {<<m, n>>}, n, {m}, RReq(x.block))
    BY <1>8, HeadHolder DEF DoesRecover, HolderAtEnd
  <2>2. HolderAtEnd(n, m, RReq(x.block))'
    BY <1>1, <2>1 DEF HolderAtEnd, RReq
  <2> QED BY <1>1, <2>1, <2>2, HoldersStep
<1>9. ASSUME NEW n \in Nodes, NEW b \in Mined, NEW R, NEW S \in SUBSET Nodes,
             DoesEnd(n, b, R, S)
      PROVE  Goal
  <2>1. \A q \in S : b \in Held(q)
    BY <1>9 DEF DoesEnd
  <2>2. \A q \in S : HolderAtEnd(n, q, Req(b, TRUE))'
    BY <1>1, <2>1 DEF HolderAtEnd, Req
  <2>3. Carries(net, net', R, n, S, Req(b, TRUE))
    BY <1>9 DEF DoesEnd
  <2> QED BY <1>1, <2>2, <2>3, HoldersStep
<1>10. ASSUME NEW n \in Nodes, NEW q \in Nodes, NEW b \in Mined, NEW s,
              DoesAskNext(n, b, s, q)
       PROVE  Goal
  <2> DEFINE y == Req(b, FALSE)
  <2>1. b \in Held(q) /\ Carries(net, net', {}, n, {q}, y)
    BY <1>10 DEF DoesAskNext, Answerable, Announcers
  <2>2. \A r \in {q} : HolderAtEnd(n, r, y)'
    BY <1>1, <2>1 DEF HolderAtEnd, Req
  <2> HIDE DEF y
  <2> QED BY <1>1, <2>1, <2>2, HoldersStep
<1>11. ASSUME NEW m \in Nodes, NEW n \in Nodes, NEW x, DoesDrop(m, n, x) PROVE Goal
  BY <1>4, <1>11 DEF DoesDrop
<1>12. ASSUME NEW m \in Nodes, NEW n \in Nodes, NEW b, DoesQueue(m, n, b) PROVE Goal
  BY <1>4, <1>12 DEF DoesQueue
<1>13. ASSUME NEW n \in Nodes, NEW b, DoesGiveUp(n, b) PROVE Goal
  BY <1>2, <1>13 DEF DoesGiveUp
<1>14. UNCHANGED relayVars => Goal
  BY <1>2 DEF relayVars
<1> HIDE DEF Goal
<1>15. Goal
  BY <1>3, <1>5, <1>6, <1>7, <1>8, <1>9, <1>10, <1>11, <1>12, <1>13, <1>14 DEF Does
<1> QED BY <1>15 DEF Goal

Books(m, n, b) == b \in Mined /\ (DoesQueue(m, n, b) \/ DoesAsk(m, n, b))

\* An announcer booked in a step is the sender of the announcement it reads,
\* and is booked twice only if it was booked before.
LEMMA NewAnnouncer ==
  ASSUME Typed, Does, NEW p \in Nodes, NEW x
  PROVE  /\ \A m \in InSeq(Announcers(p, x)') :
              m \in InSeq(Announcers(p, x)) \/ (m \in Nodes /\ Books(m, p, x))
         /\ \A m \in Nodes :
              /\ Once(Announcers(p, x), m)
              /\ m \in InSeq(Announcers(p, x)) => ~ Books(m, p, x)
              => Once(Announcers(p, x)', m)
<1> DEFINE A == Announcers(p, x)
           B == Announcers(p, x)'
           Goal == /\ \A m \in InSeq(B) : m \in InSeq(A) \/ (m \in Nodes /\ Books(m, p, x))
                   /\ \A m \in Nodes :
                        Once(A, m) /\ (m \in InSeq(A) => ~ Books(m, p, x)) => Once(B, m)
<1>1. CASE SameQueue
  BY <1>1 DEF SameQueue, Announcers
<1>2. InSeq(<<>>) = {} /\ \A m : Once(<<>>, m)
  BY DEF InSeq, Once
<1>3. ASSUME NEW n \in Nodes, NEW b \in Mined, ForgetAnnouncers(n, b) PROVE Goal
  <2>1. B = IF p = n /\ x = b THEN <<>> ELSE A
    BY <1>3, AnnouncersForgotten
  <2> HIDE DEF A, B
  <2> QED BY <1>2, <2>1
<1>4. ASSUME NEW r \in Nodes, NEW n \in Nodes, NEW b \in Mined, DoesQueue(r, n, b)
      PROVE  Goal
  <2> DEFINE q == queueInv[n][b]
             s == Append(q, r)
  <2>1. q \in Seq(Nodes) /\ q = Announcers(n, b)
    BY <1>4, Entries DEF DoesQueue, Announcers
  <2> HIDE DEF q
  <2>2. /\ InSeq(s) = InSeq(q) \cup {r} /\ s \in Seq(Nodes)
        /\ \A m : Once(q, m) /\ (m = r => r \notin InSeq(q)) => Once(s, m)
    BY <2>1, AppendTo
  <2>3. QueueSet(n, b, s) /\ Books(r, n, b)
    BY <1>4 DEF DoesQueue, Books, q
  <2> HIDE DEF s
  <2>4. B = IF p = n /\ x = b THEN s ELSE A
    BY <2>2, <2>3, AnnouncersSet
  <2> HIDE DEF B
  <2> QED BY <2>1, <2>2, <2>3, <2>4
<1>5. ASSUME NEW r \in Nodes, NEW n \in Nodes, NEW b \in Mined, DoesAsk(r, n, b)
      PROVE  Goal
  <2> DEFINE s == <<r>>
  <2>1. /\ s \in Seq(Nodes) /\ InSeq(s) = {r} /\ QueueSet(n, b, s) /\ Books(r, n, b)
        /\ \A m : Once(s, m)
    <3>1. s \in Seq(Nodes) /\ InSeq(s) = {r}
      BY DEF InSeq
    <3>2. \A m : Once(s, m)
      BY DEF Once
    <3>3. QueueSet(n, b, s) /\ Books(r, n, b)
      BY <1>5 DEF DoesAsk, Books
    <3> QED BY <3>1, <3>2, <3>3
  <2> HIDE DEF s
  <2>2. B = IF p = n /\ x = b THEN s ELSE A
    BY <2>1, AnnouncersSet
  <2> HIDE DEF A, B
  <2> QED BY <2>1, <2>2
<1>6. ASSUME NEW n \in Nodes, NEW b \in Mined, NEW s \in Seq(Nodes), NEW q,
             DoesAskNext(n, b, s, q)
      PROVE  Goal
  <2>1. B = IF p = n /\ x = b THEN s ELSE A
    BY <1>6, AnnouncersSet DEF DoesAskNext
  <2>2. /\ InSeq(s) \subseteq InSeq(Announcers(n, b))
        /\ \A m : Once(Announcers(n, b), m) => Once(s, m)
    BY <1>6 DEF DoesAskNext, Announcers
  <2> HIDE DEF B
  <2> QED BY <2>1, <2>2
<1>7. ASSUME NEW r \in Nodes, NEW n \in Nodes, NEW y \in MessageTypes, DoesTake(r, n, y)
      PROVE  Goal
  <2> HIDE DEF Goal
  <2> QED BY <1>3, <1>7, MessageForm DEF DoesTake
<1>8. ASSUME NEW n \in Nodes, NEW b \in Mined, DoesGiveUp(n, b) PROVE Goal
  <2> HIDE DEF Goal
  <2> QED BY <1>3, <1>8 DEF DoesGiveUp
<1>9. \/ SameQueue
      \/ \E r, n \in Nodes, b \in Mined : DoesQueue(r, n, b) \/ DoesAsk(r, n, b)
      \/ \E n, q \in Nodes, b \in Mined, s \in Seq(Nodes) : DoesAskNext(n, b, s, q)
      \/ \E r, n \in Nodes, y \in MessageTypes : DoesTake(r, n, y)
      \/ \E n \in Nodes, b \in Mined : DoesGiveUp(n, b)
  <2>1. /\ UNCHANGED relayVars => SameQueue
        /\ \A n, b : DoesMine(n, b) => SameQueue
        /\ \A r, n, y : DoesDrop(r, n, y) => SameQueue
        /\ \A r, n, y : DoesRecover(r, n, y) => SameQueue
        /\ \A r, n, y, z : DoesAnswer(r, n, y, z) => SameQueue
        /\ \A n, b, R, S : DoesEnd(n, b, R, S) => SameQueue
    BY DEF DoesMine, DoesDrop, DoesRecover, DoesAnswer, DoesEnd, relayVars, SameQueue
  <2> QED BY <2>1 DEF Does
<1>10. Goal
  <2>1. SameQueue => Goal
    BY <1>1
  <2> HIDE DEF Goal
  <2> QED BY <2>1, <1>4, <1>5, <1>6, <1>7, <1>8, <1>9
<1> QED BY <1>10

\* The recovery attempts after one is started ...
LEMMA AttemptStarted ==
  ASSUME Typed, NEW n \in Nodes, NEW b \in Mined, NEW m \in Nodes, AttemptSet(n, b, m),
         NEW p \in Nodes, NEW x
  PROVE  /\ x \in DOMAIN recovery'[p] <=> x \in DOMAIN recovery[p] \/ (p = n /\ x = b)
         /\ x \in DOMAIN recovery'[p] =>
              IF p = n /\ x = b THEN recovery'[p][x].sender = m
                                ELSE recovery'[p][x] = recovery[p][x]
<1> DEFINE a == [sender |-> m, parents |-> header[b]]
<1>1. /\ recovery \in [Nodes -> Maps(Attempts)] /\ b \in Nat
      /\ a \in Attempts /\ a.sender = m
  <2>1. b \in Nat /\ header[b] \subseteq Nat
    BY DEF Typed, IInv, HeaderOK, Mined
  <2> QED BY <2>1 DEF Typed, RecoveryBooks, Attempts
<1>2. recovery' = [recovery EXCEPT ![n] = Put(@, b, a)]
  BY DEF AttemptSet
<1> HIDE DEF a
<1>3. /\ \A r \in Nodes \ {n} : recovery'[r] = recovery[r]
      /\ DOMAIN recovery'[n] = DOMAIN recovery[n] \cup {b} /\ recovery'[n][b] = a
      /\ \A y \in DOMAIN recovery[n] \ {b} : recovery'[n][y] = recovery[n][y]
  BY <1>1, <1>2, PutEntry
<1>4. CASE p = n
  BY <1>1, <1>3, <1>4
<1>5. CASE p # n
  BY <1>3, <1>5
<1> QED BY <1>4, <1>5

\* ... and after one has ended.
LEMMA AttemptEnded ==
  ASSUME Typed, NEW n \in Nodes, NEW b, EndRecovery(n, b), NEW p \in Nodes, NEW x
  PROVE  /\ x \in DOMAIN recovery'[p] <=> x \in DOMAIN recovery[p] /\ ~ (p = n /\ x = b)
         /\ x \in DOMAIN recovery'[p] => recovery'[p][x] = recovery[p][x]
<1>1. /\ \A r \in Nodes \ {n} : recovery'[r] = recovery[r]
      /\ DOMAIN recovery'[n] = DOMAIN recovery[n] \ {b}
      /\ \A y \in DOMAIN recovery'[n] : recovery'[n][y] = recovery[n][y]
  BY DropEntry DEF EndRecovery, Typed, RecoveryBooks
<1>2. CASE p = n
  BY <1>1, <1>2
<1>3. CASE p # n
  BY <1>1, <1>3
<1> QED BY <1>2, <1>3

\* The steps that change the attempts.
LEMMA RecoveryShapes ==
  ASSUME Does
  PROVE  \/ SameRecovery
         \/ \E m, n \in Nodes : \E x \in MessageTypes : DoesTake(m, n, x) \/ DoesRecover(m, n, x)
         \/ \E n \in Nodes : \E b \in Mined :
              \E R \in SUBSET (Nodes \X Nodes), S \in SUBSET Nodes : DoesEnd(n, b, R, S)
<1>1. /\ UNCHANGED relayVars => SameRecovery
      /\ \A n, b : DoesMine(n, b) => SameRecovery
      /\ \A m, n, x : DoesDrop(m, n, x) => SameRecovery
      /\ \A m, n, x, y : DoesAnswer(m, n, x, y) => SameRecovery
      /\ \A m, n, b : DoesQueue(m, n, b) => SameRecovery
      /\ \A m, n, b : DoesAsk(m, n, b) => SameRecovery
      /\ \A n, b, s, q : DoesAskNext(n, b, s, q) => SameRecovery
      /\ \A n, b : DoesGiveUp(n, b) => SameRecovery
  BY DEF DoesMine, DoesDrop, DoesAnswer, DoesQueue, DoesAsk, DoesAskNext, DoesGiveUp,
         relayVars, SameRecovery
<1> QED BY <1>1 DEF Does

\* Requests stay answerable.
LEMMA AnswerableStep ==
  ASSUME Typed, Answerable, Does
  PROVE  Answerable'
<1>1. \A p \in Nodes : Held(p) \subseteq Held(p)'
  BY Grows
<1>2. ASSUME NEW p \in Nodes, NEW x, NEW m \in InSeq(Announcers(p, x)')
      PROVE  x \in Held(m)'
  <2>1. CASE m \in InSeq(Announcers(p, x))
    <3>1. x \in DOMAIN queueInv[p] /\ m \in InSeq(queueInv[p][x])
      BY <2>1 DEF Announcers, InSeq
    <3>2. x \in Mined /\ m \in Nodes
      <4>1. x \in Mined /\ queueInv[p][x] \in Seq(Nodes)
        BY <3>1, Entries
      <4>2. \A i \in 1..Len(queueInv[p][x]) : queueInv[p][x][i] \in Nodes
        BY <4>1
      <4> QED BY <3>1, <4>1, <4>2 DEF InSeq
    <3> QED BY <1>1, <2>1, <3>2 DEF Answerable
  <2>2. CASE m \in Nodes /\ Books(m, p, x)
    <3>1. FromHead(m, p, Inv(x))
      BY <2>2 DEF Books, DoesQueue, DoesAsk
    <3> QED BY <1>1, <2>2, <3>1, HeadHolder DEF HolderAtEnd, Inv
  <2> QED BY <2>1, <2>2, NewAnnouncer
<1>3. ASSUME NEW p \in Nodes, NEW x \in DOMAIN recovery'[p]
      PROVE  x \in Holding(chain'[recovery'[p][x].sender])
  <2>1. ASSUME x \in DOMAIN recovery[p], recovery'[p][x] = recovery[p][x]
        PROVE  x \in Holding(chain'[recovery'[p][x].sender])
    <3>1. recovery[p][x].sender \in Nodes /\ x \in Held(recovery[p][x].sender)
      BY <2>1, Entries DEF Answerable
    <3> QED BY <1>1, <2>1, <3>1 DEF Held
  <2>2. CASE SameRecovery
    BY <2>1, <2>2 DEF SameRecovery
  <2>3. ASSUME NEW n \in Nodes, NEW b, EndRecovery(n, b)
        PROVE  x \in Holding(chain'[recovery'[p][x].sender])
    BY <2>1, <2>3, AttemptEnded
  <2>4. ASSUME NEW m \in Nodes, NEW n \in Nodes, NEW y \in MessageTypes, DoesRecover(m, n, y)
        PROVE  x \in Holding(chain'[recovery'[p][x].sender])
    <3>1. y.block \in Mined /\ AttemptSet(n, y.block, m)
      BY <2>4, MessageForm DEF DoesRecover
    <3>2. y.block \in Held(m)
      BY <2>4, HeadHolder DEF DoesRecover, HolderAtEnd
    <3>3. CASE p = n /\ x = y.block
      <4>1. recovery'[p][x].sender = m
        BY <3>1, <3>3, AttemptStarted
      <4>2. x \in Held(m)'
        BY <1>1, <3>2, <3>3
      <4> QED BY <4>1, <4>2 DEF Held
    <3>4. CASE ~ (p = n /\ x = y.block)
      BY <2>1, <3>1, <3>4, AttemptStarted
    <3> QED BY <3>3, <3>4
  <2>5. ASSUME NEW m \in Nodes, NEW n \in Nodes, NEW y \in MessageTypes, DoesTake(m, n, y)
        PROVE  x \in Holding(chain'[recovery'[p][x].sender])
    BY <2>2, <2>3, <2>5 DEF DoesTake
  <2>6. ASSUME NEW n \in Nodes, NEW b, NEW R, NEW S, DoesEnd(n, b, R, S)
        PROVE  x \in Holding(chain'[recovery'[p][x].sender])
    BY <2>3, <2>6 DEF DoesEnd
  <2> QED BY <2>2, <2>4, <2>5, <2>6, RecoveryShapes
<1>4. \A p, q \in Nodes : \A x \in Way(p, q)' : HolderAtEnd(p, q, x)'
  BY AnswerableOnTheWay
<1> QED BY <1>2, <1>3, <1>4 DEF Answerable, Held

-----------------------------------------------------------------------------
(* Announcements *)

Singly(m, n, b) ==
  /\ Once(net[m][n], Inv(b)) /\ Once(Announcers(n, b), m)
  /\ ~ (Inv(b) \in Way(m, n) /\ m \in InSeq(Announcers(n, b)))

\* A block that m does not hold is neither announced by m nor booked as such.
LEMMA NotAnnounced ==
  ASSUME Typed, Answerable, NEW m \in Nodes, NEW n \in Nodes, NEW b, b \notin Held(m)
  PROVE  Inv(b) \notin Way(m, n) /\ m \notin InSeq(Announcers(n, b)) /\ Singly(m, n, b)
<1>1. Inv(b) \notin Way(m, n)
  BY DEF Answerable, HolderAtEnd, Inv
<1>2. m \notin InSeq(Announcers(n, b))
  <2>1. b \notin Mined => b \notin DOMAIN queueInv[n]
    BY Entries
  <2>2. InSeq(<<>>) = {}
    BY DEF InSeq
  <2> QED BY <2>1, <2>2 DEF Answerable, Announcers
<1> QED BY <1>1, <1>2 DEF Singly, Once, Way, InSeq

\* Mined or not, a block is announced singly.
LEMMA SinglyAnyway ==
  ASSUME Typed, Answerable, AnnouncedSingly, NEW m \in Nodes, NEW n \in Nodes, NEW b
  PROVE  Singly(m, n, b)
<1>1. CASE b \in Mined
  BY <1>1 DEF AnnouncedSingly, Singly
<1>2. CASE b \notin Mined
  <2>1. b \notin Held(m)
    BY <1>2, CopyOfBlock DEF Typed
  <2> QED BY <2>1, NotAnnounced
<1> QED BY <1>1, <1>2

\* A node announces a block only when it takes it in.
LEMMA InvStreams ==
  ASSUME Typed, Answerable, NEW p \in Nodes, NEW q \in Nodes, NEW c, Singly(p, q, c),
         NEW R, NEW n \in Nodes, NEW S, NEW msg, Carries(net, net', R, n, S, msg),
         p = n /\ msg = Inv(c) => c \notin Held(p)
  PROVE  /\ Once(net'[p][q], Inv(c))
         /\ Inv(c) \in Way(p, q)' => Inv(c) \in Way(p, q) \/ c \notin Held(p)
<1>1. Inv(c) \in Way(p, q)' => Inv(c) \in Way(p, q) \/ c \notin Held(p)
  BY DEF Carries, Way
<1>2. ~ (p = n /\ q \in S /\ Inv(c) = msg /\ Inv(c) \in InSeq(net[p][q]))
  BY NotAnnounced DEF Way
<1>3. Once(net'[p][q], Inv(c))
  BY <1>2 DEF Carries, Singly
<1> QED BY <1>1, <1>3

\* The announcements of a step are new, and what it books it has read.
LEMMA InvStep ==
  ASSUME Typed, Answerable, Does, NEW p \in Nodes, NEW q \in Nodes, NEW c, Singly(p, q, c)
  PROVE  /\ Once(net'[p][q], Inv(c))
         /\ Inv(c) \in Way(p, q)' => Inv(c) \in Way(p, q) \/ c \notin Held(p)
         /\ Books(p, q, c) => Inv(c) \notin Way(p, q)'
<1> DEFINE Goal == /\ Once(net'[p][q], Inv(c))
                   /\ Inv(c) \in Way(p, q)' => Inv(c) \in Way(p, q) \/ c \notin Held(p)
<1>1. ASSUME net' = net PROVE Goal
  BY <1>1 DEF Singly, Way
<1>2. ASSUME NEW n \in Miners, NEW b \in Nat, DoesMine(n, b) PROVE Goal
  <2>1. n \in Nodes /\ b \notin Held(n) /\ Carries(net, net', {}, n, Peers[n], Inv(b))
    BY <1>2, MinersAreNodes DEF DoesMine, Takes, Held
  <2>2. p = n /\ Inv(b) = Inv(c) => c \notin Held(p)
    BY <2>1 DEF Inv
  <2> QED BY <2>1, <2>2, InvStreams
<1>3. ASSUME NEW m \in Nodes, NEW n \in Nodes, NEW x \in MessageTypes, DoesTake(m, n, x)
      PROVE  Goal
  <2> DEFINE b == x.block
  <2>1. b \notin Held(n) /\ Carries(net, net', {<<m, n>>}, n, Peers[n] \ {m}, Inv(b))
    BY <1>3 DEF DoesTake, Takes, Held
  <2> HIDE DEF b
  <2>2. p = n /\ Inv(b) = Inv(c) => c \notin Held(p)
    BY <2>1 DEF Inv
  <2> QED BY <2>1, <2>2, InvStreams
<1>4. ASSUME NEW R, NEW n \in Nodes, NEW S, NEW msg, Carries(net, net', R, n, S, msg),
             msg.type # "INV"
      PROVE  Goal
  <2>1. msg # Inv(c)
    BY <1>4 DEF Inv
  <2> QED BY <1>4, <2>1, InvStreams
<1>5. ASSUME NEW R, NEW n \in Nodes, NEW msg, Carries(net, net', R, n, {}, msg) PROVE Goal
  BY <1>5 DEF Carries, Singly, Way
<1>6. ASSUME NEW b \in Mined, NEW m \in Nodes, NEW n \in Nodes,
             DoesQueue(m, n, b) \/ DoesAsk(m, n, b)
      PROVE  Goal
  BY <1>4, <1>5, <1>6 DEF DoesQueue, DoesAsk, Req
<1>7. ASSUME NEW m \in Nodes, NEW n \in Nodes, NEW x \in MessageTypes,
             DoesDrop(m, n, x) \/ DoesRecover(m, n, x)
      PROVE  Goal
  BY <1>4, <1>5, <1>7 DEF DoesDrop, DoesRecover, RReq
<1>8. ASSUME NEW m \in Nodes, NEW n \in Nodes, NEW x \in MessageTypes,
             NEW y \in MessageTypes, DoesAnswer(m, n, x, y)
      PROVE  Goal
  <2>1. y.type # "INV" /\ Carries(net, net', {<<m, n>>}, n, {m}, y)
    BY <1>8 DEF DoesAnswer
  <2> QED BY <1>4, <2>1
<1>9. ASSUME NEW n \in Nodes, NEW b, NEW R, NEW S, DoesEnd(n, b, R, S) PROVE Goal
  BY <1>4, <1>9 DEF DoesEnd, Req
<1>10. ASSUME NEW n \in Nodes, NEW b, NEW s, NEW r, DoesAskNext(n, b, s, r) PROVE Goal
  BY <1>4, <1>10 DEF DoesAskNext, Req
<1>11. ASSUME Books(p, q, c) PROVE Inv(c) \notin Way(p, q)'
  <2>1. FromHead(p, q, Inv(c))
    BY <1>11 DEF Books, DoesQueue, DoesAsk
  <2>2. PICK S, msg : /\ Carries(net, net', {<<p, q>>}, q, S, msg)
                      /\ S = {} \/ msg # Inv(c)
    <3> DEFINE y == Req(c, FALSE)
    <3>1. y # Inv(c)
      BY DEF Req, Inv
    <3>2. \/ Carries(net, net', {<<p, q>>}, q, {}, Inv(c))
          \/ Carries(net, net', {<<p, q>>}, q, {p}, y)
      BY <1>11 DEF Books, DoesQueue, DoesAsk
    <3> HIDE DEF y
    <3> QED BY <3>1, <3>2
  <2>3. ~ (p = q /\ q \in S /\ msg = Head(net[p][q]))
    BY <2>1, <2>2 DEF FromHead
  <2> QED BY <2>1, <2>2, <2>3 DEF Carries, Singly, Way, FromHead
<1> HIDE DEF Goal
<1>12. \A n, b : DoesGiveUp(n, b) => net' = net
  BY DEF DoesGiveUp
<1>13. UNCHANGED relayVars => net' = net
  BY DEF relayVars
<1>14. Goal
  BY <1>1, <1>2, <1>3, <1>6, <1>7, <1>8, <1>9, <1>10, <1>12, <1>13 DEF Does
<1> QED BY <1>11, <1>14 DEF Goal

\* Announcements stay single.
LEMMA SinglyStep ==
  ASSUME Typed, Answerable, AnnouncedSingly, Does
  PROVE  AnnouncedSingly'
<1> SUFFICES ASSUME NEW p \in Nodes, NEW q \in Nodes, NEW c PROVE Singly(p, q, c)'
  BY DEF AnnouncedSingly, Singly
<1>1. Singly(p, q, c)
  BY SinglyAnyway
<1>2. /\ Once(net'[p][q], Inv(c))
      /\ Inv(c) \in Way(p, q)' => Inv(c) \in Way(p, q) \/ c \notin Held(p)
      /\ Books(p, q, c) => Inv(c) \notin Way(p, q)'
  BY <1>1, InvStep
<1>3. Books(p, q, c) => Inv(c) \in Way(p, q)
  <2>1. Books(p, q, c) => FromHead(p, q, Inv(c))
    BY DEF Books, DoesQueue, DoesAsk
  <2> QED BY <2>1, HeadHolder
<1>4. Once(Announcers(q, c)', p)
  BY <1>1, <1>3, NewAnnouncer DEF Singly
<1>5. ASSUME Inv(c) \in Way(p, q)', p \in InSeq(Announcers(q, c)') PROVE FALSE
  <2>1. p \in InSeq(Announcers(q, c))
    BY <1>2, <1>5, NewAnnouncer
  <2>2. c \in Held(p)
    BY <2>1, NotAnnounced
  <2> QED BY <1>1, <1>2, <1>5, <2>1, <2>2 DEF Singly
<1> QED BY <1>2, <1>4, <1>5 DEF Singly

-----------------------------------------------------------------------------
(* No block is lost *)

\* What reading x from m makes n do.
Reads(m, n, x) ==
  \/ DoesDrop(m, n, x) \/ DoesTake(m, n, x) \/ DoesRecover(m, n, x)
  \/ \E y \in MessageTypes : DoesAnswer(m, n, x, y)
  \/ x = Inv(x.block) /\ Books(m, n, x.block)
  \/ /\ x = RResp(x.block)
     /\ \E R \in SUBSET (Nodes \X Nodes), S \in SUBSET Nodes : DoesEnd(n, x.block, R, S)

\* A message stays under way unless the step reads it or another like it.
LEMMA StaysUnderWay ==
  ASSUME NEW R, NEW n, NEW S, NEW msg, Carries(net, net', R, n, S, msg),
         NEW p \in Nodes, NEW q \in Nodes, NEW T, NEW b, UnderWay(p, q, T, b)
  PROVE  \/ UnderWay(p, q, T, b)'
         \/ /\ <<p, q>> \in R
            /\ Head(net[p][q]).type \in T /\ Head(net[p][q]).block = b
BY DEF Carries, UnderWay, Way

\* A step reads what no longer is under way.
LEMMA ReadOrUnderWay ==
  ASSUME Typed, Does, NEW p \in Nodes, NEW q \in Nodes, NEW T, NEW b, UnderWay(p, q, T, b)
  PROVE  \/ UnderWay(p, q, T, b)'
         \/ \E x \in MessageTypes : x.type \in T /\ x.block = b /\ Reads(p, q, x)
<1> DEFINE Goal == \/ UnderWay(p, q, T, b)'
                   \/ \E x \in MessageTypes : x.type \in T /\ x.block = b /\ Reads(p, q, x)
<1>1. ASSUME net' = net PROVE Goal
  BY <1>1 DEF UnderWay, Way
<1>2. ASSUME NEW n, NEW S, NEW msg, Carries(net, net', {}, n, S, msg) PROVE Goal
  BY <1>2 DEF Carries, UnderWay, Way
<1>3. ASSUME NEW m \in Nodes, NEW n \in Nodes, NEW x \in MessageTypes, FromHead(m, n, x),
             NEW S, NEW msg, Carries(net, net', {<<m, n>>}, n, S, msg), Reads(m, n, x)
      PROVE  Goal
  <2>1. \/ UnderWay(p, q, T, b)'
        \/ p = m /\ q = n /\ x.type \in T /\ x.block = b
    <3> DEFINE R == {<<m, n>>}
    <3>1. Carries(net, net', R, n, S, msg)
      BY <1>3
    <3>2. <<p, q>> \in R => p = m /\ q = n
      OBVIOUS
    <3> HIDE DEF R
    <3>3. \/ UnderWay(p, q, T, b)'
          \/ /\ <<p, q>> \in R
             /\ Head(net[p][q]).type \in T /\ Head(net[p][q]).block = b
      BY <3>1, StaysUnderWay
    <3> QED BY <1>3, <3>2, <3>3 DEF FromHead
  <2> QED BY <1>3, <2>1
<1> HIDE DEF Goal
<1>4. \A n, c : DoesMine(n, c) => Goal
  BY <1>2 DEF DoesMine
<1>5. ASSUME NEW m \in Nodes, NEW n \in Nodes, NEW x \in MessageTypes,
             \/ DoesDrop(m, n, x) \/ DoesTake(m, n, x) \/ DoesRecover(m, n, x)
             \/ \E y \in MessageTypes : DoesAnswer(m, n, x, y)
      PROVE  Goal
  <2>1. Reads(m, n, x)
    BY <1>5 DEF Reads
  <2>2. FromHead(m, n, x) /\ \E S, msg : Carries(net, net', {<<m, n>>}, n, S, msg)
    BY <1>5 DEF DoesDrop, DoesTake, DoesRecover, DoesAnswer
  <2> QED BY <1>3, <2>1, <2>2
<1>6. ASSUME NEW m \in Nodes, NEW n \in Nodes, NEW c \in Mined,
             DoesQueue(m, n, c) \/ DoesAsk(m, n, c)
      PROVE  Goal
  <2> DEFINE x == Inv(c)
             y == Req(c, FALSE)
  <2>1. x \in MessageTypes /\ x.block = c
    BY DEF MessageTypes, Inv
  <2>2. Reads(m, n, x)
    BY <1>6, <2>1 DEF Reads, Books
  <2>3. /\ FromHead(m, n, x)
        /\ \/ Carries(net, net', {<<m, n>>}, n, {}, x)
           \/ Carries(net, net', {<<m, n>>}, n, {m}, y)
    BY <1>6 DEF DoesQueue, DoesAsk
  <2> HIDE DEF x, y
  <2> QED BY <1>3, <2>1, <2>2, <2>3
<1>7. ASSUME NEW n \in Nodes, NEW c \in Mined, NEW R \in SUBSET (Nodes \X Nodes),
             NEW S \in SUBSET Nodes, DoesEnd(n, c, R, S)
      PROVE  Goal
  <2> DEFINE x == RResp(c)
             y == Req(c, TRUE)
  <2>1. x \in MessageTypes /\ x.block = c
    BY DEF MessageTypes, RResp
  <2>2. Reads(n, n, x) /\ \A m : Reads(m, n, x)
    BY <1>7, <2>1 DEF Reads
  <2>3. /\ Carries(net, net', R, n, S, y)
        /\ R = {} \/ \E m \in Nodes : R = {<<m, n>>} /\ FromHead(m, n, x)
    BY <1>7 DEF DoesEnd
  <2> HIDE DEF x, y
  <2> QED BY <1>2, <1>3, <2>1, <2>2, <2>3
<1>8. ASSUME NEW n, NEW c, NEW s, NEW r, DoesAskNext(n, c, s, r) PROVE Goal
  <2> DEFINE y == Req(c, FALSE)
  <2>1. Carries(net, net', {}, n, {r}, y)
    BY <1>8 DEF DoesAskNext
  <2> HIDE DEF y
  <2> QED BY <1>2, <2>1
<1>9. \A n, c : DoesGiveUp(n, c) => net' = net
  BY DEF DoesGiveUp
<1>10. UNCHANGED relayVars => net' = net
  BY DEF relayVars
<1>11. Goal
  BY <1>1, <1>4, <1>5, <1>6, <1>7, <1>8, <1>9, <1>10 DEF Does
<1> QED BY <1>11 DEF Goal

\* A block that is coming has come or still is.
LEMMA ComingStays ==
  ASSUME Typed, Answerable, Does, NEW n \in Nodes, NEW b, Coming(n, b)
  PROVE  Coming(n, b)'
<1>1. b \in Held(n)' => Coming(n, b)'
  BY DEF Coming
<1>2. b \in DOMAIN recovery'[n] => Coming(n, b)'
  BY DEF Coming
<1>3. \A m \in Nodes : UnderWay(n, m, {"REQ"}, b)' => Coming(n, b)'
  BY DEF Coming
<1>4. \A m \in Nodes : UnderWay(m, n, {"BLOCK", "GBLOCK"}, b)' => Coming(n, b)'
  BY DEF Coming
<1>5. CASE b \in Held(n)
  BY <1>1, <1>5, Grows
<1>6. CASE b \in DOMAIN recovery[n]
  <2>1. CASE SameRecovery
    BY <1>2, <1>6, <2>1 DEF SameRecovery
  <2>2. ASSUME NEW m \in Nodes, NEW r \in Nodes, NEW x \in MessageTypes, DoesRecover(m, r, x)
        PROVE  Coming(n, b)'
    <3>1. x.block \in Mined /\ AttemptSet(r, x.block, m)
      BY <2>2, MessageForm DEF DoesRecover
    <3> QED BY <1>2, <1>6, <2>2, <3>1, AttemptStarted
  <2>3. ASSUME NEW m \in Nodes, NEW r \in Nodes, NEW x \in MessageTypes, DoesTake(m, r, x)
        PROVE  Coming(n, b)'
    <3>1. CASE x.type = "RRESP"
      <4>1. EndRecovery(r, x.block) /\ x.block \in Held(r)'
        BY <2>3, <3>1 DEF DoesTake, Takes, Held
      <4>2. CASE r = n /\ x.block = b
        BY <1>1, <4>1, <4>2
      <4>3. CASE ~ (r = n /\ x.block = b)
        BY <1>2, <1>6, <4>1, <4>3, AttemptEnded
      <4> QED BY <4>2, <4>3
    <3>2. CASE x.type # "RRESP"
      BY <1>2, <1>6, <2>3, <3>2 DEF DoesTake, SameRecovery
    <3> QED BY <3>1, <3>2
  <2>4. ASSUME NEW r \in Nodes, NEW c \in Mined, NEW R, NEW S, DoesEnd(r, c, R, S)
        PROVE  Coming(n, b)'
    <3>1. CASE ~ (r = n /\ c = b)
      BY <1>2, <1>6, <2>4, <3>1, AttemptEnded DEF DoesEnd
    <3>2. CASE r = n /\ c = b /\ b \in Held(n)
      BY <1>1, <3>2, Grows
    <3>3. CASE r = n /\ c = b /\ b \notin Held(n)
      <4> DEFINE y == Req(b, TRUE)
      <4>1. PICK q \in Nodes : S = {q}
        BY <2>4, <3>3 DEF DoesEnd
      <4>2. y \in Way(n, q)'
        BY <2>4, <3>3, <4>1 DEF DoesEnd, Carries, Way
      <4>3. UnderWay(n, q, {"REQ"}, b)'
        BY <4>2 DEF UnderWay, Req
      <4> QED BY <1>3, <4>3
    <3> QED BY <3>1, <3>2, <3>3
  <2> QED BY <2>1, <2>2, <2>3, <2>4, RecoveryShapes
<1>7. ASSUME NEW m \in Nodes, UnderWay(n, m, {"REQ"}, b) PROVE Coming(n, b)'
  <2>1. CASE UnderWay(n, m, {"REQ"}, b)'
    BY <1>3, <2>1
  <2>2. ASSUME NEW x \in MessageTypes, x.type = "REQ", x.block = b, Reads(n, m, x)
        PROVE  Coming(n, b)'
    <3>1. ASSUME FromHead(n, m, x) PROVE b \in Held(m)
      BY <2>2, <3>1, HeadHolder DEF HolderAtEnd
    <3>2. ~ DoesDrop(n, m, x)
      BY <2>2, <3>1 DEF DoesDrop
    <3>3. PICK y \in MessageTypes : DoesAnswer(n, m, x, y)
      BY <2>2, <3>2 DEF Reads, DoesTake, DoesRecover, Inv, RResp
    <3>4. y \in Way(m, n)' /\ y.type \in {"BLOCK", "GBLOCK"} /\ y.block = b
      BY <2>2, <3>3 DEF DoesAnswer, Carries, Way
    <3>5. UnderWay(m, n, {"BLOCK", "GBLOCK"}, b)'
      BY <3>4 DEF UnderWay
    <3> QED BY <1>4, <3>5
  <2> QED BY <1>7, <2>1, <2>2, ReadOrUnderWay
<1>8. ASSUME NEW m \in Nodes, UnderWay(m, n, {"BLOCK", "GBLOCK"}, b) PROVE Coming(n, b)'
  <2>1. CASE UnderWay(m, n, {"BLOCK", "GBLOCK"}, b)'
    BY <1>4, <2>1
  <2>2. ASSUME NEW x \in MessageTypes, x.type \in {"BLOCK", "GBLOCK"}, x.block = b,
               Reads(m, n, x)
        PROVE  Coming(n, b)'
    <3>1. CASE DoesDrop(m, n, x)
      <4>1. b \in Held(n) \cup DOMAIN recovery[n] /\ recovery' = recovery
        BY <2>2, <3>1 DEF DoesDrop, SameRecovery
      <4> QED BY <1>2, <1>5, <4>1
    <3>2. CASE DoesTake(m, n, x)
      BY <1>1, <2>2, <3>2 DEF DoesTake, Takes, Held
    <3>3. CASE DoesRecover(m, n, x)
      <4>1. b \in Mined /\ AttemptSet(n, b, m)
        BY <2>2, <3>3, MessageForm DEF DoesRecover
      <4> QED BY <1>2, <4>1, AttemptStarted
    <3> QED BY <2>2, <3>1, <3>2, <3>3 DEF Reads, DoesAnswer, Inv, RResp
  <2> QED BY <1>8, <2>1, <2>2, ReadOrUnderWay
<1> QED BY <1>5, <1>6, <1>7, <1>8 DEF Coming

\* A block comes into being at its miner.
LEMMA MinedIsHeld ==
  ASSUME Typed, NothingLost, Does, NEW b \in Mined' \ {Genesis}
  PROVE  \E n \in Nodes : b \in Held(n)'
<1>1. CASE b \in Mined
  BY <1>1, Grows DEF NothingLost
<1>2. ASSUME NEW n \in Miners, NEW c \in Nat, DoesMine(n, c), b \notin Mined
      PROVE  n \in Nodes /\ b \in Held(n)'
  BY <1>2, MinersAreNodes DEF DoesMine, Takes, Held, Mined
<1>3. SameDag \/ (\E m, n \in Nodes : \E x \in MessageTypes : DoesTake(m, n, x)) => b \in Mined
  BY DEF SameDag, DoesTake, Mined
<1> QED BY <1>1, <1>2, <1>3, DagShapes

\* Who takes in a block announces it to all peers but the sender, who has it.
LEMMA TakenIsAnnounced ==
  ASSUME Typed, Answerable, Does, NEW m \in Nodes, NEW n \in Peers[m],
         NEW b \in Held(m)' \ Held(m)
  PROVE  Coming(n, b)' \/ UnderWay(m, n, {"INV"}, b)'
<1>1. n \in Nodes
  BY PeersAreNodes
<1>2. Inv(b) \in Way(m, n)' => UnderWay(m, n, {"INV"}, b)'
  BY DEF UnderWay, Inv
<1>3. ~ SameDag
  BY DEF SameDag, Held
<1>4. ASSUME NEW r \in Miners, NEW c \in Nat, DoesMine(r, c)
      PROVE  Inv(b) \in Way(m, n)'
  <2>1. r = m /\ c = b
    BY <1>4, MinersAreNodes DEF DoesMine, Takes, Held
  <2> QED BY <1>4, <2>1 DEF DoesMine, Carries, Way
<1>5. ASSUME NEW p \in Nodes, NEW r \in Nodes, NEW x \in MessageTypes, DoesTake(p, r, x)
      PROVE  Coming(n, b)' \/ Inv(b) \in Way(m, n)'
  <2>1. r = m /\ x.block = b
    BY <1>5 DEF DoesTake, Takes, Held
  <2>2. CASE n = p
    <3>1. b \in Held(n)
      BY <1>5, <2>1, <2>2, HeadHolder DEF DoesTake, HolderAtEnd
    <3>2. b \in Held(n)'
      BY <1>1, <3>1, Grows
    <3> QED BY <3>2 DEF Coming
  <2>3. CASE n # p
    BY <1>5, <2>1, <2>3 DEF DoesTake, Carries, Way
  <2> QED BY <2>2, <2>3
<1> QED BY <1>2, <1>3, <1>4, <1>5, DagShapes

\* An announcement is under way until the block is there or asked for.
LEMMA AnnouncedIsComing ==
  ASSUME Typed, Answerable, NothingLost, Does, NEW m \in Nodes, NEW n \in Nodes, NEW b,
         UnderWay(m, n, {"INV"}, b)
  PROVE  Coming(n, b)' \/ UnderWay(m, n, {"INV"}, b)'
<1>1. Coming(n, b) => Coming(n, b)'
  BY ComingStays
<1>2. ASSUME NEW x \in MessageTypes, x.type = "INV", x.block = b, Reads(m, n, x)
      PROVE  Coming(n, b)'
  <2>1. CASE DoesDrop(m, n, x)
    <3>1. b \in Held(n)
      BY <1>2, <2>1 DEF DoesDrop
    <3> QED BY <1>1, <3>1 DEF Coming
  <2>2. CASE DoesQueue(m, n, b)
    <3>1. b \in DOMAIN queueInv[n]
      BY <2>2 DEF DoesQueue
    <3> QED BY <1>1, <3>1 DEF NothingLost
  <2>3. CASE DoesAsk(m, n, b)
    <3> DEFINE y == Req(b, FALSE)
    <3>1. y \in Way(n, m)'
      BY <2>3 DEF DoesAsk, Carries, Way
    <3>2. UnderWay(n, m, {"REQ"}, b)'
      BY <3>1 DEF UnderWay, Req
    <3> QED BY <3>2 DEF Coming
  <2>4. x # RResp(b) /\ ~ DoesTake(m, n, x) /\ ~ DoesRecover(m, n, x)
    BY <1>2 DEF RResp, DoesTake, DoesRecover
  <2>5. ~ \E y \in MessageTypes : DoesAnswer(m, n, x, y)
    BY <1>2 DEF DoesAnswer
  <2>6. DoesDrop(m, n, x) \/ Books(m, n, b)
    BY <1>2, <2>4, <2>5 DEF Reads
  <2> QED BY <2>1, <2>2, <2>3, <2>6 DEF Books
<1> QED BY <1>2, ReadOrUnderWay

\* A recovery attempt lasts until its answer is read, or times out.
LEMMA AttemptIsAnswered ==
  ASSUME Typed, Answerable, NothingLost, Does, NEW n \in Nodes, NEW b \in DOMAIN recovery'[n]
  PROVE  \E m \in Nodes : UnderWay(n, m, {"RREQ"}, b)' \/ UnderWay(m, n, {"RRESP"}, b)'
<1> DEFINE Goal ==
      \E m \in Nodes : UnderWay(n, m, {"RREQ"}, b)' \/ UnderWay(m, n, {"RRESP"}, b)'
<1>1. ASSUME EndRecovery(n, b) PROVE FALSE
  BY <1>1, AttemptEnded
<1>2. ASSUME NEW m \in Nodes, UnderWay(n, m, {"RREQ"}, b) PROVE Goal
  <2>1. ASSUME NEW x \in MessageTypes, x.type = "RREQ", x.block = b, Reads(n, m, x)
        PROVE  UnderWay(m, n, {"RRESP"}, b)'
    <3>1. ~ DoesDrop(n, m, x)
      <4>1. ASSUME FromHead(n, m, x) PROVE b \in Held(m)
        BY <2>1, <4>1, HeadHolder DEF HolderAtEnd
      <4> QED BY <2>1, <4>1 DEF DoesDrop
    <3>2. PICK y \in MessageTypes : DoesAnswer(n, m, x, y)
      BY <2>1, <3>1 DEF Reads, DoesTake, DoesRecover, Inv, RResp
    <3>3. y \in Way(m, n)' /\ y.type = "RRESP" /\ y.block = b
      BY <2>1, <3>2 DEF DoesAnswer, Carries, Way
    <3> QED BY <3>3 DEF UnderWay
  <2> QED BY <1>2, <2>1, ReadOrUnderWay
<1>3. ASSUME NEW m \in Nodes, UnderWay(m, n, {"RRESP"}, b), b \in DOMAIN recovery[n] PROVE Goal
  <2>1. ASSUME NEW x \in MessageTypes, x.type = "RRESP", x.block = b, Reads(m, n, x)
        PROVE  FALSE
    <3>1. ~ DoesDrop(m, n, x)
      BY <1>3, <2>1 DEF DoesDrop
    <3>2. ~ DoesTake(m, n, x)
      BY <1>1, <2>1 DEF DoesTake
    <3>3. \A R, S : ~ DoesEnd(n, b, R, S)
      BY <1>1 DEF DoesEnd
    <3>4. ~ DoesRecover(m, n, x) /\ ~ \E y \in MessageTypes : DoesAnswer(m, n, x, y)
      BY <2>1 DEF DoesRecover, DoesAnswer
    <3> QED BY <2>1, <3>1, <3>2, <3>3, <3>4 DEF Reads, Inv
  <2> QED BY <1>3, <2>1, ReadOrUnderWay
<1>4. CASE b \in DOMAIN recovery[n]
  BY <1>2, <1>3, <1>4 DEF NothingLost
<1>5. CASE b \notin DOMAIN recovery[n]
  <2>1. ~ SameRecovery /\ ~ \E r \in Nodes : \E c : EndRecovery(r, c)
    BY <1>5, AttemptEnded DEF SameRecovery
  <2>2. PICK m \in Nodes, r \in Nodes, x \in MessageTypes : DoesRecover(m, r, x)
    BY <2>1, RecoveryShapes DEF DoesTake, DoesEnd
  <2>3. x.block \in Mined /\ AttemptSet(r, x.block, m)
    BY <2>2, MessageForm DEF DoesRecover
  <2>4. r = n /\ x.block = b
    BY <1>5, <2>3, AttemptStarted
  <2> DEFINE y == RReq(b)
  <2>5. y \in Way(n, m)'
    BY <2>2, <2>4 DEF DoesRecover, Carries, Way
  <2>6. UnderWay(n, m, {"RREQ"}, b)'
    BY <2>5 DEF UnderWay, RReq
  <2> QED BY <2>6
<1> QED BY <1>4, <1>5

\* What is on request is coming.
LEMMA RequestedIsComing ==
  ASSUME Typed, Typed', Answerable, NothingLost, Does, NEW n \in Nodes,
         NEW b \in DOMAIN queueInv'[n]
  PROVE  Coming(n, b)'
<1>1. CASE b \in DOMAIN queueInv[n]
  BY <1>1, ComingStays DEF NothingLost
<1>2. CASE b \notin DOMAIN queueInv[n]
  <2> DEFINE s == queueInv'[n][b]
  <2>1. s \in Seq(Nodes) /\ s # <<>> /\ s = Announcers(n, b)'
    BY DEF Typed, QueueBooks, Maps, Announcers
  <2>2. Announcers(n, b) = <<>> /\ InSeq(<<>>) = {}
    BY <1>2 DEF Announcers, InSeq
  <2> HIDE DEF s
  <2>3. Head(s) \in InSeq(s)
    BY <2>1, TailOf
  <2>4. PICK m \in Nodes : Books(m, n, b)
    BY <2>1, <2>2, <2>3, NewAnnouncer
  <2>5. DoesAsk(m, n, b)
    BY <1>2, <2>4 DEF Books, DoesQueue
  <2> DEFINE y == Req(b, FALSE)
  <2>6. y \in Way(n, m)'
    BY <2>5 DEF DoesAsk, Carries, Way
  <2>7. UnderWay(n, m, {"REQ"}, b)'
    BY <2>6 DEF UnderWay, Req
  <2> QED BY <2>7 DEF Coming
<1> QED BY <1>1, <1>2

\* No step loses a block.
LEMMA NothingLostStep ==
  ASSUME Typed, Typed', Answerable, NothingLost, Does
  PROVE  NothingLost'
<1>1. ASSUME NEW m \in Nodes, NEW n \in Peers[m], NEW b \in Held(m)'
      PROVE  Coming(n, b)' \/ UnderWay(m, n, {"INV"}, b)'
  <2>1. n \in Nodes
    BY PeersAreNodes
  <2>2. CASE b \in Held(m)
    <3>1. Coming(n, b) \/ UnderWay(m, n, {"INV"}, b)
      BY <2>2 DEF NothingLost
    <3> QED BY <2>1, <3>1, ComingStays, AnnouncedIsComing
  <2>3. CASE b \notin Held(m)
    BY <2>3, TakenIsAnnounced
  <2> QED BY <2>2, <2>3
<1>2. \A b \in Mined' \ {Genesis} : \E n \in Nodes : b \in Held(n)'
  BY MinedIsHeld
<1>3. \A n \in Nodes : \A b \in DOMAIN recovery'[n] : \E m \in Nodes :
        UnderWay(n, m, {"RREQ"}, b)' \/ UnderWay(m, n, {"RRESP"}, b)'
  BY AttemptIsAnswered
<1>4. \A n \in Nodes : \A b \in DOMAIN queueInv'[n] : Coming(n, b)'
  BY RequestedIsComing
<1> QED BY <1>1, <1>2, <1>3, <1>4 DEF NothingLost

-----------------------------------------------------------------------------
(* The theorems *)

\* Before anything is sent there is nothing to lose.
LEMMA RelayInitially == RelayInit => RelayInv
<1> SUFFICES ASSUME RelayInit PROVE RelayInv
  OBVIOUS
<1>1. /\ Init /\ IInv /\ Grounded
      /\ net = [m \in Nodes |-> [n \in Nodes |-> <<>>]]
      /\ queueInv = [n \in Nodes |-> [b \in {} |-> <<>>]] /\ invTimers = [n \in Nodes |-> {}]
      /\ recovery = [n \in Nodes |-> [b \in {} |-> 0]] /\ recTimers = [n \in Nodes |-> {}]
  BY Initially, InitiallyGrounded DEF RelayInit
<1>2. Mined = {Genesis} /\ \A n \in Nodes : Held(n) = {Genesis}
  BY <1>1 DEF Init, Mined, Held, Holding, Blocks, EmptyBlockchain
<1>3. /\ net \in Channels(MessageTypes)
      /\ \A m, n \in Nodes : net[m][n] = <<>> /\ Way(m, n) = {}
  BY <1>1 DEF Channels, Way, InSeq
<1>4. \A n \in Nodes : DOMAIN queueInv[n] = {} /\ DOMAIN recovery[n] = {}
  BY <1>1
<1>5. QueueBooks
  <2>1. [b \in {} |-> <<>>] \in [{} -> Seq(Nodes)]
    OBVIOUS
  <2>2. queueInv \in [Nodes -> Maps(Seq(Nodes))]
    BY <1>1, <2>1 DEF Maps
  <2> QED BY <1>1, <2>2 DEF QueueBooks
<1>6. RecoveryBooks
  <2>1. [b \in {} |-> 0] \in [{} -> Attempts]
    OBVIOUS
  <2>2. recovery \in [Nodes -> Maps(Attempts)]
    BY <1>1, <2>1 DEF Maps
  <2> QED BY <1>1, <2>2 DEF RecoveryBooks
<1>7. \A n \in Nodes : \A b : Announcers(n, b) = <<>>
  BY <1>4 DEF Announcers
<1>8. InSeq(<<>>) = {} /\ \A x : Once(<<>>, x)
  BY DEF InSeq, Once
<1>9. Answerable
  BY <1>3, <1>4, <1>7, <1>8 DEF Answerable
<1>10. AnnouncedSingly
  <2> SUFFICES ASSUME NEW m \in Nodes, NEW n \in Nodes, NEW b \in Mined
               PROVE  Singly(m, n, b)
    BY DEF AnnouncedSingly, Singly
  <2> DEFINE x == Inv(b)
  <2> HIDE DEF x
  <2>1. Once(net[m][n], x) /\ Once(Announcers(n, b), m) /\ x \notin Way(m, n)
    BY <1>3, <1>7, <1>8
  <2> QED BY <2>1 DEF Singly, x
<1>11. NothingLost
  <2>1. \A m \in Nodes : \A n \in Peers[m] : \A b \in Held(m) : Coming(n, b)
    BY <1>2, PeersAreNodes DEF Coming
  <2> QED BY <1>2, <1>4, <2>1 DEF NothingLost
<1> QED BY <1>1, <1>3, <1>5, <1>6, <1>9, <1>10, <1>11 DEF RelayInv, Typed

\* The invariant of the relay is inductive.
LEMMA RelayStep == RelayInv /\ [RelayNext]_relayVars => RelayInv'
<1> SUFFICES ASSUME RelayInv, [RelayNext]_relayVars PROVE RelayInv'
  OBVIOUS
<1>1. Typed /\ Answerable /\ AnnouncedSingly /\ NothingLost
  BY DEF RelayInv
<1>2. Does /\ Typed'
  BY <1>1, StepShape, TypedStep
<1>3. Answerable' /\ AnnouncedSingly' /\ NothingLost'
  BY <1>1, <1>2, AnswerableStep, SinglyStep, NothingLostStep
<1> QED BY <1>2, <1>3 DEF RelayInv

\* Every reachable state of the relay has the books in order: requests are
\* answerable, announcements single, and no block is lost on its way.
THEOREM RelayInvariance == RelaySpec => []RelayInv
BY RelayInitially, RelayStep, PTL DEF RelaySpec

\* The handlers of node.cc implement the DAG's two steps: what the relay does
\* to header and chain is mining a block or handling one that was mined.
THEOREM RelayImplementsDag == RelaySpec => DagSpec
<1>1. RelayInit => Init
  BY DEF RelayInit
<1>2. RelayInv /\ [RelayNext]_relayVars => [Next]_vars
  BY StepShape DEF RelayInv
<1> QED BY <1>1, <1>2, RelayInvariance, PTL DEF RelaySpec, DagSpec, Spec

\* What is stored and under way is typed, and block messages are unforged.
THEOREM RelayTypesCorrect == RelaySpec => []RelayTypeOK
<1>1. Typed => RelayTypeOK
  <2> SUFFICES ASSUME Typed PROVE RelayTypeOK
    OBVIOUS
  <2>1. TypeOK
    BY InvariantTypes DEF Typed
  <2>2. ASSUME NEW m \in Nodes, NEW n \in Nodes, NEW i \in 1..Len(net[m][n])
        PROVE  net[m][n][i] \in MessageTypes
    <3>1. net[m][n] \in Seq(MessageTypes)
      BY DEF Typed, Channels
    <3> QED BY <3>1
  <2>3. ASSUME NEW n \in Nodes
        PROVE  /\ DOMAIN queueInv[n] \subseteq Mined /\ invTimers[n] \subseteq Mined
               /\ \A b \in DOMAIN queueInv[n] : queueInv[n][b] \in Seq(Nodes)
               /\ DOMAIN recovery[n] \subseteq Mined /\ recTimers[n] \subseteq Mined
               /\ \A b \in DOMAIN recovery[n] :
                    recovery[n][b].sender \in Nodes /\ recovery[n][b].parents = header[b]
    <3>1. \A b \in DOMAIN recovery[n] : recovery[n][b].parents = header[b]
      BY DEF Typed, RecoveryBooks
    <3> QED BY <3>1, Entries
  <2> QED BY <2>1, <2>2, <2>3 DEF RelayTypeOK
<1> QED BY <1>1, RelayInvariance, PTL DEF RelayInv

\* A timeout is pending for exactly the blocks on request and under recovery.
THEOREM TimersFollowRequests == RelaySpec => []TimersMatchRequests
<1>1. Typed => TimersMatchRequests
  BY DEF Typed, QueueBooks, RecoveryBooks, TimersMatchRequests
<1> QED BY <1>1, RelayInvariance, PTL DEF RelayInv

\* However a block reaches a node, the request for it is forgotten.
THEOREM OnlyMissingRequested == RelaySpec => []RequestsAreForMissing
<1>1. Typed => RequestsAreForMissing
  BY DEF Typed, QueueBooks, RequestsAreForMissing, Held, Holding
<1> QED BY <1>1, RelayInvariance, PTL DEF RelayInv

\* Who announced a block has it when it is asked for it.
THEOREM EveryRequestAnswerable == RelaySpec => []RequestsAreAnswerable
<1>1. Typed /\ Answerable => RequestsAreAnswerable
  <2> SUFFICES ASSUME Typed, Answerable PROVE RequestsAreAnswerable
    OBVIOUS
  <2>1. \A n \in Nodes : \A b : Holds(n, b) <=> b \in Held(n)
    BY DEF Holds, Held, Holding
  <2>2. ASSUME NEW m \in Nodes, NEW n \in Nodes, NEW i \in 1..Len(net[m][n])
        PROVE  HolderAtEnd(m, n, net[m][n][i])
    BY DEF Answerable, Way, InSeq
  <2>3. ASSUME NEW n \in Nodes, NEW b \in DOMAIN queueInv[n], NEW i \in 1..Len(queueInv[n][b])
        PROVE  Holds(queueInv[n][b][i], b)
    <3>1. b \in Mined /\ queueInv[n][b] \in Seq(Nodes) /\ Announcers(n, b) = queueInv[n][b]
      BY Entries DEF Announcers
    <3>2. queueInv[n][b][i] \in InSeq(Announcers(n, b)) /\ queueInv[n][b][i] \in Nodes
      BY <3>1 DEF InSeq
    <3> QED BY <2>1, <3>1, <3>2 DEF Answerable
  <2> QED BY <2>1, <2>2, <2>3 DEF RequestsAreAnswerable, HolderAtEnd
<1> QED BY <1>1, RelayInvariance, PTL DEF RelayInv

\* The places at which a sequence has x.
LEMMA OncePlaces ==
  ASSUME NEW M, NEW s \in Seq(M), NEW x, Once(s, x)
  PROVE  LET c == Cardinality({i \in 1..Len(s) : s[i] = x})
         IN  c \in {0, 1} /\ (x \notin InSeq(s) => c = 0)
<1> DEFINE P == {i \in 1..Len(s) : s[i] = x}
<1>1. CASE P = {}
  BY <1>1, FS_EmptySet
<1>2. ASSUME NEW i \in P PROVE Cardinality(P) = 1 /\ x \in InSeq(s)
  <2>1. P = {i}
    BY DEF Once
  <2>2. x \in InSeq(s)
    BY DEF InSeq
  <2> HIDE DEF P
  <2> QED BY <2>1, <2>2, FS_Singleton
<1> QED BY <1>1, <1>2

\* A peer's announcement of a block is under way or booked at most once.
THEOREM NoDoubleAnnouncement == RelaySpec => []AnnouncedOnce
<1>1. Typed /\ AnnouncedSingly => AnnouncedOnce
  <2> SUFFICES ASSUME Typed, AnnouncedSingly, NEW m \in Nodes, NEW n \in Nodes, NEW b \in Mined
               PROVE  Cardinality({i \in 1..Len(net[m][n]) : net[m][n][i] = Inv(b)})
                        + Cardinality({i \in 1..Len(Announcers(n, b)) : Announcers(n, b)[i] = m})
                      <= 1
    BY DEF AnnouncedOnce
  <2> DEFINE s == net[m][n]
             t == Announcers(n, b)
             x == Inv(b)
             c == Cardinality({i \in 1..Len(s) : s[i] = x})
             d == Cardinality({i \in 1..Len(t) : t[i] = m})
  <2>1. s \in Seq(MessageTypes)
    BY DEF Typed, Channels
  <2>2. t \in Seq(Nodes)
    <3>1. <<>> \in Seq(Nodes)
      OBVIOUS
    <3> QED BY <3>1, Entries DEF Announcers
  <2>3. Once(s, x) /\ Once(t, m) /\ (x \notin InSeq(s) \/ m \notin InSeq(t))
    BY DEF AnnouncedSingly, Way
  <2> HIDE DEF s, t, x
  <2>4. c \in {0, 1} /\ (x \notin InSeq(s) => c = 0)
    BY <2>1, <2>3, OncePlaces
  <2>5. d \in {0, 1} /\ (m \notin InSeq(t) => d = 0)
    BY <2>2, <2>3, OncePlaces
  <2> HIDE DEF c, d
  <2>6. c + d <= 1
    BY <2>3, <2>4, <2>5
  <2> QED BY <2>6 DEF c, d, s, t, x
<1> QED BY <1>1, RelayInvariance, PTL DEF RelayInv

\* In a connected network no block is lost for good: when nothing is under
\* way every node has accepted every block and waits for none.
THEOREM QuietSyncs == Connected => (RelaySpec => []QuietMeansSynced)
<1> SUFFICES ASSUME Connected PROVE RelaySpec => []QuietMeansSynced
  OBVIOUS
<1>1. RelayInv => QuietMeansSynced
  <2> SUFFICES ASSUME Typed, NothingLost, Quiet, NEW n \in Nodes
               PROVE  /\ Blocks(chain[n]) = Mined /\ chain[n].orphans = <<>>
                      /\ queueInv[n] = <<>> /\ recovery[n] = <<>>
    BY DEF RelayInv, QuietMeansSynced
  <2>1. \A p, q \in Nodes : Way(p, q) = {}
    BY DEF Quiet, Way, InSeq
  <2>2. \A p, q \in Nodes : \A T, b : ~ UnderWay(p, q, T, b)
    BY <2>1 DEF UnderWay
  <2>3. \A p \in Nodes : DOMAIN recovery[p] = {}
    BY <2>2 DEF NothingLost
  <2>4. \A p \in Nodes : \A b : Coming(p, b) => b \in Held(p)
    BY <2>2, <2>3 DEF Coming
  <2>5. \A p \in Nodes : DOMAIN queueInv[p] = {}
    BY <2>4 DEF NothingLost, Typed, QueueBooks
  <2>6. \A b \in Mined : \E p \in Nodes : b \in Held(p)
    BY DEF NothingLost, Typed, IInv, ChainInv, BlocksOK, Held, Holding
  <2>7. ASSUME NEW b \in Mined PROVE \A p \in Nodes : b \in Held(p)
    <3> DEFINE S == {p \in Nodes : b \in Held(p)}
    <3>1. \A p \in S : Peers[p] \subseteq S
      BY <2>2, <2>4, PeersAreNodes DEF NothingLost
    <3>2. S # {}
      BY <2>6
    <3>3. S = Nodes
      BY <3>1, <3>2 DEF Connected
    <3> QED BY <3>3
  <2>8. DOMAIN chain[n].orphans = {}
    BY <2>7, OrphansMissOne DEF Typed, OrphansMeanMissing, HasBlock, IsOrphan, Held, Holding
  <2>9. Blocks(chain[n]) = Mined
    <3>1. Blocks(chain[n]) \subseteq Mined
      BY DEF Typed, IInv, ChainInv, BlocksOK, Mined
    <3> QED BY <2>7, <2>8, <3>1 DEF Held, Holding
  <2>10. \A V : \A f \in Maps(V) : DOMAIN f = {} => f = <<>>
    BY DEF Maps
  <2>11. /\ chain[n].orphans \in Maps(SUBSET Nat) /\ queueInv[n] \in Maps(Seq(Nodes))
         /\ recovery[n] \in Maps(Attempts)
    BY DEF Typed, IInv, BlockchainType, QueueBooks, RecoveryBooks
  <2> QED BY <2>3, <2>5, <2>8, <2>9, <2>10, <2>11
<1> QED BY <1>1, RelayInvariance, PTL
=============================================================================

------------------------------- MODULE Framing -------------------------------
(***************************************************************************)
(* Connections and frames of node.cc, one direction between two nodes: a   *)
(* socket made on demand, messages kept until it is connected, frames cut  *)
(* to the room in the TCP send buffer, and their reassembly by the reader, *)
(* which is given the stream in chunks of any size.                        *)
(*                                                                         *)
(* A byte is a pair <<frame, k>>: the k-th byte of a frame.  TCP itself is *)
(* external: an attempt to connect succeeds or fails, and bytes written    *)
(* arrive in order; bytes not yet read take up room in the send buffer.    *)
(***************************************************************************)
EXTENDS Integers, Sequences, SequencesExt

CONSTANTS Msgs,
          WireBytes,          \* modelled size of each message
          PayloadSize,        \* size of its encoding
          FRAME_PREFIX_SIZE,  \* 16
          TxBuffer,           \* size of the TCP send buffer
          MaxSends,           \* bounds: messages, attempts to connect
          MaxConnects

ASSUME SizesOK == /\ WireBytes \in [Msgs -> Nat] /\ PayloadSize \in [Msgs -> Nat \ {0}]
                  /\ FRAME_PREFIX_SIZE \in Nat \ {0} /\ TxBuffer \in Nat \ {0}

VARIABLES running,    \* m_running of the sender
          socket,     \* m_peers_sockets: "none", "connecting" or "up"
          attempts,   \* attempts to connect so far
          pending,    \* m_pending_messages: no entry, or one, for the peer
          txQueue,    \* m_tx_queue: packets not yet, or not wholly, written
          frameSeq,   \* m_tx_frame_seq
          stream,     \* bytes written and not read
          reading,    \* m_running of the reader
          rx,         \* m_rx_state of the accepted socket
          accepted,   \* history: messages sent, but for those lost
          delivered   \* history: messages given to ProcessMessage

framingVars == <<running, socket, attempts, pending, txQueue, frameSeq, stream, reading,
                 rx, accepted, delivered>>

NoPending == <<>>
NoFrame   == [len |-> 0, payload_len |-> 0]

Min2(a, b) == IF a < b THEN a ELSE b
Max2(a, b) == IF a < b THEN b ELSE a

\* A fresh RxFrameState; ResetFrame keeps next_seq.
ResetFrame(next) ==
  [prefix |-> <<>>, frame |-> NoFrame, payload |-> <<>>, body |-> 0, next |-> next]

FramingInit ==
  /\ running = TRUE
  /\ \/ socket = "none" /\ attempts = 0 /\ pending = NoPending
     \/ socket = "connecting" /\ attempts = 1 /\ pending = << <<>> >>
  /\ txQueue = <<>> /\ frameSeq = 0 /\ stream = <<>>
  /\ reading = TRUE /\ rx = ResetFrame(0)
  /\ accepted = <<>> /\ delivered = <<>>

-----------------------------------------------------------------------------
(* The sender *)

Bytes(frame, first, last) == [k \in 1..(last - first + 1) |-> <<frame, first + k - 1>>]

\* The frame of a message; payload_len 0 says that the payload is a tag.
Frame(msg, seq) ==
  LET len == Max2(WireBytes[msg], FRAME_PREFIX_SIZE + 1)
  IN  [ msg |-> msg, seq |-> seq, len |-> len,
        payload_len |-> IF FRAME_PREFIX_SIZE + PayloadSize[msg] <= len
                          THEN PayloadSize[msg] ELSE 0 ]

\* One packet, or a body and a tail of one byte that carries the tag.
Packets(frame) ==
  IF frame.payload_len > 0 THEN << Bytes(frame, 1, frame.len) >>
  ELSE << Bytes(frame, 1, frame.len - 1), Bytes(frame, frame.len, frame.len) >>

\* Mutant of Written: a packet cut at the end of the buffer is done with.
WrittenOnce(queue, room) ==
  LET step[i \in 0..Len(queue)] ==
        IF i = 0 THEN [queue |-> queue, bytes |-> <<>>]
        ELSE LET s    == step[i - 1]
                 take == Min2(Len(Head(s.queue)), room - Len(s.bytes))
             IN  IF take = 0 THEN s
                 ELSE [ queue |-> Tail(s.queue),
                        bytes |-> s.bytes \o SubSeq(Head(s.queue), 1, take) ]
  IN  step[Len(queue)]

(***************************************************************************)
(* HandleSendReady with room for so many bytes: what stays queued and what *)
(* is written.  A packet larger than the room left is cut.                 *)
(***************************************************************************)
Written(queue, room) ==
  LET step[i \in 0..Len(queue)] ==
        IF i = 0 THEN [queue |-> queue, bytes |-> <<>>]
        ELSE LET s    == step[i - 1]
                 take == Min2(Len(Head(s.queue)), room - Len(s.bytes))
             IN  IF take = 0 THEN s
                 ELSE [ queue |-> IF take = Len(Head(s.queue)) THEN Tail(s.queue)
                                  ELSE << SubSeq(Head(s.queue), take + 1, Len(Head(s.queue))) >>
                                       \o Tail(s.queue),
                        bytes |-> s.bytes \o SubSeq(Head(s.queue), 1, take) ]
  IN  step[Len(queue)]

Room == TxBuffer - Len(stream)

Write(queue) ==
  /\ txQueue' = Written(queue, Room).queue
  /\ stream'  = stream \o Written(queue, Room).bytes

\* EnqueueFrame for each of msgs.  Writing when all are queued comes to the
\* same as writing after each: the room does not change in between.
EnqueueFrames(msgs) ==
  LET frames == [i \in 1..Len(msgs) |-> Packets(Frame(msgs[i], frameSeq + i - 1))]
  IN  /\ Write(txQueue \o FlattenSeq(frames))
      /\ frameSeq' = frameSeq + Len(msgs)

\* Mutant of KeepPending: the newest goes first.
KeepFirst(msg) == << <<msg>> \o pending[1] >>

KeepPending(msg) == << Append(pending[1], msg) >>

SendSerialized(msg) ==
  /\ running /\ Len(accepted) < MaxSends
  /\ accepted' = Append(accepted, msg)
  /\ \/ /\ pending # NoPending
        /\ pending' = KeepPending(msg)
        /\ UNCHANGED <<socket, attempts, txQueue, frameSeq, stream>>
     \/ /\ pending = NoPending /\ socket = "none" /\ attempts < MaxConnects
        /\ pending' = << <<msg>> >>
        /\ socket' = "connecting" /\ attempts' = attempts + 1
        /\ UNCHANGED <<txQueue, frameSeq, stream>>
     \/ /\ pending = NoPending /\ socket # "none"
        /\ EnqueueFrames(<<msg>>)
        /\ UNCHANGED <<socket, attempts, pending>>
  /\ UNCHANGED <<running, reading, rx, delivered>>

HandleConnectionSucceeded ==
  /\ running /\ socket = "connecting"
  /\ socket' = "up"
  /\ EnqueueFrames(pending[1])
  /\ pending' = NoPending
  /\ UNCHANGED <<running, attempts, reading, rx, accepted, delivered>>

\* Socket and pending messages are dropped; the next message tries again.
HandleConnectionFailed ==
  /\ running /\ socket = "connecting"
  /\ socket' = "none" /\ pending' = NoPending
  /\ accepted' = delivered
  /\ UNCHANGED <<running, attempts, txQueue, frameSeq, stream, reading, rx, delivered>>

\* The send callback: there is room again.
HandleSendReady ==
  /\ running /\ socket = "up" /\ txQueue # <<>> /\ Room > 0
  /\ Write(txQueue)
  /\ UNCHANGED <<running, socket, attempts, pending, frameSeq, reading, rx, accepted,
                 delivered>>

\* The sender stops: nothing more is written, what TCP has still arrives.
StopApplication ==
  /\ running /\ running' = FALSE
  /\ socket' = "none" /\ pending' = NoPending
  /\ txQueue' = <<>> /\ frameSeq' = 0
  /\ UNCHANGED <<attempts, stream, reading, rx, accepted, delivered>>

-----------------------------------------------------------------------------
(* The reader *)

\* The prefix is complete: its bytes open one frame, the one expected.
ReadPrefix(st) ==
  LET frame == st.prefix[1][1]
  IN  IF st.prefix = Bytes(frame, 1, FRAME_PREFIX_SIZE) /\ frame.seq = st.next
        THEN [st EXCEPT !.frame = frame, !.next = frame.seq + 1,
                        !.body = frame.len - FRAME_PREFIX_SIZE]
        ELSE [st EXCEPT !.next = -1]              \* NS_ABORT_MSG_IF

Aborts(st) == st.next = -1

\* Mutant of Payload: tags are looked up by the offset of their byte.
PayloadAtByte(st, chunk, pos) ==
  LET f == st.frame
      inline == Bytes(f, FRAME_PREFIX_SIZE + 1, FRAME_PREFIX_SIZE + f.payload_len)
      tagged == {k \in DOMAIN chunk : /\ chunk[k][1].payload_len = 0
                                      /\ chunk[k][2] = chunk[k][1].len}
  IN  CASE f.payload_len > 0 -> IF st.payload = inline THEN <<f.msg>> ELSE <<>>
        [] f.payload_len = 0 -> IF pos + 1 \in tagged THEN <<chunk[pos + 1][1].msg>> ELSE <<>>

\* The message of a complete frame, read up to position pos of the chunk: the
\* inline bytes, or the tag found at that position.
Payload(st, chunk, pos) ==
  LET f == st.frame
      inline == Bytes(f, FRAME_PREFIX_SIZE + 1, FRAME_PREFIX_SIZE + f.payload_len)
      tagged == {k \in DOMAIN chunk : /\ chunk[k][1].payload_len = 0
                                      /\ chunk[k][2] = chunk[k][1].len}
  IN  CASE f.payload_len > 0 -> IF st.payload = inline THEN <<f.msg>> ELSE <<>>
        [] f.payload_len = 0 -> IF pos \in tagged THEN <<chunk[pos][1].msg>> ELSE <<>>

(***************************************************************************)
(* One turn of the loop of HandleRead over a chunk.  r holds the state of  *)
(* the reader, the position in the chunk, and the messages handled.        *)
(***************************************************************************)
ReadTurn(chunk, r) ==
  LET st        == r.st
      left      == Len(chunk) - r.pos
      Ahead(n)  == SubSeq(chunk, r.pos + 1, r.pos + n)
      missing   == FRAME_PREFIX_SIZE - Len(st.prefix)
      unread    == st.frame.payload_len - Len(st.payload)
      inPrefix  == Min2(missing, left)
      inPayload == Min2(unread, left)
      inPadding == Min2(st.body, left)
      opened    == [st EXCEPT !.prefix = @ \o Ahead(inPrefix)]
  IN  CASE missing > 0 ->
             [r EXCEPT !.pos = @ + inPrefix,
                       !.st  = IF missing = inPrefix THEN ReadPrefix(opened) ELSE opened]
        [] missing = 0 /\ unread > 0 ->
             [r EXCEPT !.pos = @ + inPayload,
                       !.st  = [st EXCEPT !.payload = @ \o Ahead(inPayload),
                                          !.body = @ - inPayload]]
        [] missing = 0 /\ unread = 0 /\ st.body > inPadding ->
             [r EXCEPT !.pos = @ + inPadding, !.st = [st EXCEPT !.body = @ - inPadding]]
        [] missing = 0 /\ unread = 0 /\ st.body = inPadding ->
             [r EXCEPT !.pos = @ + inPadding, !.st = ResetFrame(st.next),
                       !.out = @ \o Payload(st, chunk, r.pos + inPadding)]

\* The loop: it ends with the chunk, whatever the last turn has left to do.
ReadChunk(chunk) ==
  LET after[i \in 0..(2 * Len(chunk))] ==
        IF i = 0 THEN [st |-> rx, pos |-> 0, out |-> <<>>]
        ELSE LET r == after[i - 1]
             IN  IF r.pos < Len(chunk) /\ ~ Aborts(r.st) THEN ReadTurn(chunk, r) ELSE r
  IN  after[2 * Len(chunk)]

\* HandleRead is given the next n bytes.
HandleRead(n) ==
  LET r == ReadChunk(SubSeq(stream, 1, n))
  IN  /\ reading /\ ~ Aborts(rx)
      /\ stream' = SubSeq(stream, n + 1, Len(stream))
      /\ rx' = r.st
      /\ delivered' = delivered \o r.out
      /\ UNCHANGED <<running, socket, attempts, pending, txQueue, frameSeq, reading,
                     accepted>>

\* The reader stops: no callback reads any more, whatever is in the stream.
StopReader ==
  /\ reading /\ reading' = FALSE
  /\ rx' = ResetFrame(0)
  /\ UNCHANGED <<running, socket, attempts, pending, txQueue, frameSeq, stream, accepted,
                 delivered>>

-----------------------------------------------------------------------------
Read == \E n \in 1..Len(stream) : HandleRead(n)

FramingNext ==
  \/ \E msg \in Msgs : SendSerialized(msg)
  \/ HandleConnectionSucceeded
  \/ HandleConnectionFailed
  \/ HandleSendReady
  \/ StopApplication
  \/ Read
  \/ StopReader

FramingSpec == FramingInit /\ [][FramingNext]_framingVars

(***************************************************************************)
(* What Read and HandleSendReady do to the stream, and the ends of an      *)
(* attempt to connect to the socket, without the rest: TLC asks in every   *)
(* state whether they are enabled.  They are when those actions are, and   *)
(* a step that looks like one of them does its work.                       *)
(***************************************************************************)
TakeBytes ==
  reading /\ ~ Aborts(rx) /\ \E n \in 1..Len(stream) : stream' = SubSeq(stream, n + 1, Len(stream))

AddBytes ==
  LET unwritten == FlattenSeq(txQueue)
  IN  /\ running /\ socket = "up" /\ txQueue # <<>> /\ Room > 0
      /\ stream' = stream \o SubSeq(unwritten, 1, Min2(Room, Len(unwritten)))

\* One way or the other.
ConnectingEnds == running /\ socket = "connecting" /\ socket' \in {"up", "none"}

\* TCP delivers what it was given, calls back when there is room, and an
\* attempt to connect ends.
FairFramingSpec ==
  /\ FramingSpec
  /\ WF_stream(TakeBytes)
  /\ WF_stream(AddBytes)
  /\ WF_socket(ConnectingEnds)

-----------------------------------------------------------------------------
(* Properties *)

\* The reader's check of every prefix, an NS_ABORT_MSG_IF, never fails:
\* however frames are cut and chunks are made, a prefix is read where one was
\* written.
NeverCorrupt == ~ Aborts(rx)

\* The connection is a channel: whole messages, once, in order, and only a
\* failed attempt loses any.
Connection == INSTANCE Channel WITH accepted <- accepted, delivered <- delivered
ConnectionSpec == Connection!Spec

\* The payload ends with the frame.
Filled(msg) == FRAME_PREFIX_SIZE + PayloadSize[msg] = WireBytes[msg]

\* A message sent on a connection that is up is handled, unless an end of it
\* stops; one whose payload fills its frame may wait for the next message,
\* since HandleRead comes to the end of the chunk before it looks whether the
\* frame is complete.
AllHandled ==
  \A i \in 1..MaxSends :
    (socket = "up" /\ Len(accepted) >= i)
      ~> \/ Len(delivered) >= i
         \/ Len(delivered) = i - 1 /\ Len(accepted) = i /\ Filled(accepted[i])
         \/ ~ running \/ ~ reading
=============================================================================

------------------------------- MODULE Channel -------------------------------
(***************************************************************************)
(* What the connections of node.cc promise to the message handlers of one  *)
(* direction between two nodes: messages are handled whole, once and in    *)
(* the order they were sent; a failed connection attempt loses what was    *)
(* sent since it began.  BlockRelay builds on this with attempts that      *)
(* succeed.                                                                *)
(***************************************************************************)
EXTENDS Integers, Sequences, SequencesExt

CONSTANT Msgs

VARIABLES accepted,   \* messages sent, but for those a failure has lost
          delivered   \* messages handled at the other end

Init == accepted = <<>> /\ delivered = <<>>

Send(msg) == accepted' = Append(accepted, msg) /\ UNCHANGED delivered

\* One chunk of bytes may complete several messages.
Deliver ==
  /\ delivered' # delivered
  /\ IsPrefix(delivered, delivered') /\ IsPrefix(delivered', accepted)
  /\ UNCHANGED accepted

Lose == accepted # delivered /\ accepted' = delivered /\ UNCHANGED delivered

Next == (\E msg \in Msgs : Send(msg)) \/ Deliver \/ Lose

Spec == Init /\ [][Next]_<<accepted, delivered>>
=============================================================================

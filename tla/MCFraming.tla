------------------------------ MODULE MCFraming ------------------------------
(***************************************************************************)
(* A prefix of two bytes and three kinds of message: one inline and padded *)
(* (INV), one whose payload does not fit its modelled size and travels as  *)
(* a tag (GBLOCK), and one that fits to the byte (EXACT).                  *)
(***************************************************************************)
EXTENDS Framing

Modelled == [m \in Msgs |-> IF m = "INV" THEN 5 ELSE 4]
Encoded  == [m \in Msgs |-> IF m = "GBLOCK" THEN 4 ELSE 2]
=============================================================================

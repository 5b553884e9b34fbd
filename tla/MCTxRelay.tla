------------------------------ MODULE MCTxRelay ------------------------------
(* A small network for TxRelay. *)
EXTENDS TxRelay

\* Each node hears of each transaction from two sides.
Triangle == [n \in Nodes |-> Nodes \ {n}]

\* Nodes 0 and 1 generate one transaction each.
TwoSources == [n \in Nodes |-> IF n = 2 THEN {} ELSE {n}]
=============================================================================

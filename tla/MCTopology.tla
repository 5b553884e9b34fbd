----------------------------- MODULE MCTopology -----------------------------
(* A small instance of Topology. *)
EXTENDS Topology

\* Two outcomes of the connections distribution.
TwoRanges == {<<1, 1>>, <<2, 3>>}
=============================================================================

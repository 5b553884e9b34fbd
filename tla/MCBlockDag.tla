----------------------------- MODULE MCBlockDag -----------------------------
(* Instances of BlockDag for TLC. *)
EXTENDS BlockDag, TLC

\* Five blocks of three miners: two merges of a wide DAG are reachable.
FiveBlocks == (0 :> 2) @@ (1 :> 2) @@ (2 :> 1)
=============================================================================

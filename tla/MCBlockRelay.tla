---------------------------- MODULE MCBlockRelay ----------------------------
(* Small networks for BlockRelay; node 0 mines. *)
EXTENDS BlockRelay, TLC

\* Node 3 hears of each block from two sides.
Diamond == 0 :> {1, 2} @@ 1 :> {0, 3} @@ 2 :> {0, 3} @@ 3 :> {1, 2}

\* Node 2 hears of each block from two sides, and may pass it on to node 3
\* while the block is still an orphan.
Kite == 0 :> {1, 2} @@ 1 :> {0, 2} @@ 2 :> {0, 1, 3} @@ 3 :> {2}

ASSUME NetworkIsConnected == Connected

OneBlock  == 0 :> 1
TwoBlocks == 0 :> 2
=============================================================================

------------------------------ MODULE MCMempool ------------------------------
(* A mempool of three buckets, in one of which two transactions collide. *)
EXTENDS Mempool, TLC

Collision == "a" :> 0 @@ "b" :> 2 @@ "c" :> 2
=============================================================================

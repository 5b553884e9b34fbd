-------------------------------- MODULE MCIblt --------------------------------
(* Instances of Iblt for TLC: two hashes, three expected cells made four. *)
EXTENDS Iblt

ThreeKeys == 1..3
OneAndAHalf == <<3, 2>>
=============================================================================

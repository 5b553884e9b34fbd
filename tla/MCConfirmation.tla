---------------------------- MODULE MCConfirmation ----------------------------
(* Instances of Confirmation for TLC. *)
EXTENDS Confirmation, TLC

\* Node 0 has the lower ids and so, of equal scores, the selected tip.
ThreeAndTwo == (0 :> 3) @@ (1 :> 2)
=============================================================================

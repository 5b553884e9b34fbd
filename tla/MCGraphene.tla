------------------------------ MODULE MCGraphene ------------------------------
(* Four transactions and ways to hash them for Graphene. *)
EXTENDS Graphene

\* Two hashes with two cells each.  i and j share their cells, the others can
\* be told apart.
Together(S, i, j) ==
  LET others == S \ {i, j}
      last   == CHOOSE k \in others : \A l \in others : l <= k
  IN  [k \in S |-> IF k \in {i, j} THEN {1, 3} ELSE IF k = last THEN {2, 4} ELSE {2, 3}]

Four == 1..4
OfFour == {Together(Four, 1, 2), Together(Four, 3, 4), [k \in Four |-> {1, 3}]}

\* Ping-pong swaps a table of four cells and one of six.
FourAndSix == [i \in 1..2 |-> IF i = 1 THEN 4 ELSE 6]
=============================================================================

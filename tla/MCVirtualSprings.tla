-------------------------- MODULE MCVirtualSprings --------------------------
(* One UAV that predicts with tokens of its own, one that reports          *)
(* clusters; and two places in the box of each other.                      *)
EXTENDS VirtualSprings

MCMode == [u \in UAV |-> IF u = 1 THEN 1 ELSE 2]

MCNear == {<<0, 0>>, <<2, 1>>}

=============================================================================

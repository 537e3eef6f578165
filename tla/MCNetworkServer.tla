--------------------------- MODULE MCNetworkServer ---------------------------
(* Devices and gateways are interchangeable. *)
EXTENDS NetworkServer, TLC

(* Duty cycles of 25% and 33%. *)
MCRestFactor == [w \in Window |-> IF w = "first" THEN 3 ELSE 2]

MCSymmetry == Permutations(Device) \cup Permutations(Gateway)
=============================================================================

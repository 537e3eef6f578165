-------------------------- MODULE MCLoraEdsMonitor --------------------------
(* A small instance of LoraEdsMonitor: two EDs and two positions, whose    *)
(* displacements fall in sectors 0 and 7.                                  *)
EXTENDS LoraEdsMonitor

MCPosition == {<<0, 0>>, <<2, 1>>}
=============================================================================

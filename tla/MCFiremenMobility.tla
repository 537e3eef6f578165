-------------------------- MODULE MCFiremenMobility --------------------------
(* Where a fireman may be set in the runs of FiremenMobility. *)
EXTENDS FiremenMobility

StartPositions == {<<0, 0>>, <<4, 1>>}
=============================================================================

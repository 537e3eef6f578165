----------------------------- MODULE Excursion ------------------------------
(***************************************************************************)
(* What the mobility model promises of the excursions of a UAV away from   *)
(* the mesh that links it to the base station: a UAV that loses its link   *)
(* may go on for a while, but once it has turned back it comes all the way *)
(* home; the news of the EDs it leaves behind is gathered on the way home  *)
(* and handed over when the link is there again, not before and not later. *)
(***************************************************************************)
CONSTANT UAV

VARIABLES
  phase,    \* "linked", "away" (goes on without a link) or "homeward"
  carrying  \* the UAVs with news to hand over

vars == << phase, carrying >>

Init == phase = [u \in UAV |-> "away"] /\ carrying = {}

Link(u) ==
  /\ phase' = [phase EXCEPT ![u] = "linked"]
  /\ carrying' = carrying \ {u}

GoOn(u) ==
  /\ phase[u] # "homeward"
  /\ phase' = [phase EXCEPT ![u] = "away"]
  /\ UNCHANGED carrying

TurnBack(u) ==
  /\ phase' = [phase EXCEPT ![u] = "homeward"]
  /\ carrying' \in {carrying, carrying \cup {u}}

Next == \E u \in UAV : Link(u) \/ GoOn(u) \/ TurnBack(u)

Spec == Init /\ [][Next]_vars
=============================================================================

--------------------------- MODULE VirtualSprings ---------------------------
(***************************************************************************)
(* The control rounds of a fleet of UAVs, VirtualSprings2dMobilityModel::  *)
(* DoInitializePrivate, with the tokens they exchange.                     *)
(*                                                                         *)
(* All UAVs start at the same instant with the same period, so the rounds  *)
(* of a period run at one instant, each as one event of the simulator; in  *)
(* which order is left open.  The EDs a UAV hears are a function of that   *)
(* instant, the routing table (OLSR, outside this repository) an input of  *)
(* each round, and so are positions: the ratio between the distance to the *)
(* base station and the range, and the pause computed from it.             *)
(***************************************************************************)
EXTENDS Integers, Sequences, FiniteSets, SeedsManager

CONSTANTS
  UAV,             \* node ids of the UAVs
  ED,              \* the end devices
  PredictionMode,  \* attribute of the mobility model of each UAV
  MaxHops,         \* bound on the distance to the base station
  MaxRatio,        \* bound on the ratio of distance and range
  MaxPause,        \* bound on the pause (M_MAX_PAUSE times a ratio)
  Word,            \* 2^w: m_persist is an unsigned integer of w bits
  MaxReports       \* bound on the clusters a round reports

(* The EDs are created before the UAVs: 0 is not the id of a UAV.          *)
ASSUME UavAssumption == UAV \subseteq Nat \ {0} /\ IsFiniteSet(UAV)
ASSUME EdAssumption == IsFiniteSet(ED)
ASSUME FleetAssumption ==
  /\ PredictionMode \in [UAV -> 0..3]
  /\ MaxHops \in Nat \ {0} /\ MaxRatio \in Nat /\ MaxPause \in Nat
  /\ Word \in Nat \ {0, 1} /\ MaxReports \in Nat

VARIABLES
  heard,       \* EDs each UAV heard less than M_SEC_RETAIN_EDS ago, m_eds in its round
  due,         \* UAVs whose round of this period has not run yet
  linked,      \* whether the last round found a path to the base station
  course,      \* what the last round made the UAV do: "forces", "pause" or "back"
  m_hops, m_persist, m_pause, m_lastNode,
  m_token,     \* the token to be sent, <<>> or <<token>>
  m_tokens,    \* the tokens of each UAV's manager
  missed       \* whether some token was sent while a UAV was out of reach

control == << linked, course, m_hops, m_persist, m_pause, m_lastNode >>
vars == << heard, due, control, m_token, m_tokens, missed >>

-----------------------------------------------------------------------------
(* Of a routing table a round reads the distance to the base station, the  *)
(* neighbours (UAVs one hop away) and all UAVs in it.                      *)
Others(u) == UAV \ {u}

NumSharedEds(u, v) == Cardinality(heard[u] \cap heard[v])

(* FindMostSimilarNode: the neighbour with the most shared EDs, of several *)
(* the one with the greatest id; 0 if it shares less than M_PERC_SHARED    *)
(* (one half) of the EDs of u.                                             *)
MostSimilar(u, neighbours) ==
  CHOOSE v \in neighbours :
    \A w \in neighbours :
      \/ NumSharedEds(u, w) < NumSharedEds(u, v)
      \/ NumSharedEds(u, w) = NumSharedEds(u, v) /\ w <= v

FindMostSimilarNode(u, neighbours) ==
  IF \/ neighbours = {}
     \/ 2 * NumSharedEds(u, MostSimilar(u, neighbours)) < Cardinality(heard[u])
  THEN 0
  ELSE MostSimilar(u, neighbours)

GivesWay(u, simNode) == simNode = 0 \/ u > simNode

-----------------------------------------------------------------------------
(* SendToken to every UAV in the routing table, then AddToken to one's     *)
(* own manager, for each token in turn.                                    *)
SendTokensToOthers(u, reach, ts) ==
  /\ m_tokens' = [v \in UAV |-> IF ts # << >> /\ v \in reach
                                THEN AddTokens(m_tokens[v], ts) ELSE m_tokens[v]]
  /\ missed' = (missed \/ (ts # << >> /\ reach # Others(u)))

SendTokens(u, reach, ts) ==
  /\ m_tokens' = [v \in UAV |-> IF ts # << >> /\ v \in reach \cup {u}
                                THEN AddTokens(m_tokens[v], ts) ELSE m_tokens[v]]
  /\ missed' = (missed \/ (ts # << >> /\ reach # Others(u)))

(* The tokens of the clusters that modes 2 and 3 report. *)
Reports(u) ==
  IF PredictionMode[u] \in {2, 3}
  THEN UNION {[1..n -> {NewToken(pos) : pos \in Position}] : n \in 0..MaxReports}
  ELSE {<< >>}

StartRound(u) ==
  /\ u \in due
  /\ due' = due \ {u}
  /\ UNCHANGED heard

(* The pending token once it has been sent. *)
TokenKept(token) == token

TokenSent(token) == << >>

(* A path of bs hops to the base station; if it is not a neighbour, some   *)
(* UAV is.  The ratio does not matter one hop away.                        *)
RoundLinked(u, bs, ratio, reach, reports, idle) ==
  /\ StartRound(u)
  /\ IF bs = 1 THEN ratio = 0 ELSE reach # {}
  /\ SendTokens(u, reach, reports \o m_token[u])
  /\ m_token' = [m_token EXCEPT ![u] = TokenSent(@)]
  /\ m_hops' = [m_hops EXCEPT ![u] = bs]
  /\ m_persist' = [m_persist EXCEPT ![u] = ((bs - 1) * ratio) % Word]
  /\ IF m_pause[u] = 0 \/ idle
     THEN /\ m_pause' = [m_pause EXCEPT ![u] = 0]
          /\ course' = [course EXCEPT ![u] = "forces"]
     ELSE /\ m_pause' = [m_pause EXCEPT ![u] = @ - 1]
          /\ course' = [course EXCEPT ![u] = "pause"]
  /\ linked' = [linked EXCEPT ![u] = TRUE]
  /\ UNCHANGED m_lastNode

Unlinked(u, reach, reports) ==
  /\ StartRound(u)
  /\ SendTokens(u, reach, reports)
  /\ linked' = [linked EXCEPT ![u] = FALSE]
  /\ UNCHANGED m_hops

(* GenerateToken () takes the place from the history of the monitor. *)
TokenTurningBack(u, pos) ==
  IF /\ PredictionMode[u] = 1
     /\ m_lastNode[u]
     /\ m_token[u] = << >>
     /\ heard[u] # {}
  THEN << NewToken(pos) >>
  ELSE m_token[u]

(* No path, and no intervals left: SetPause (m_hops) and GoBack. *)
RoundTurnBack(u, reach, reports, pos, pause) ==
  /\ m_persist[u] = 0
  /\ Unlinked(u, reach, reports)
  /\ m_token' = [m_token EXCEPT ![u] = TokenTurningBack(u, pos)]
  /\ pause \in IF m_hops[u] > 0 THEN 0..MaxPause ELSE {0}
  /\ m_pause' = [m_pause EXCEPT ![u] = pause]
  /\ course' = [course EXCEPT ![u] = "back"]
  /\ UNCHANGED << m_persist, m_lastNode >>

GoOn(u, reach, reports) ==
  /\ Unlinked(u, reach, reports)
  /\ course' = [course EXCEPT ![u] = "forces"]
  /\ UNCHANGED << m_token, m_pause >>

(* No path, EDs covered. *)
HalvedUp(persist) == (persist + 1) \div 2

Halved(persist) == persist \div 2

RoundGoOnCovering(u, neighbours, reach, reports) ==
  LET simNode == FindMostSimilarNode(u, neighbours)
  IN  /\ m_persist[u] > 0
      /\ heard[u] # {}
      /\ GoOn(u, reach, reports)
      /\ m_persist' = [m_persist EXCEPT ![u] =
           IF GivesWay(u, simNode) THEN Halved(@) ELSE (2 * @) % Word]
      /\ m_lastNode' = [m_lastNode EXCEPT ![u] = simNode = 0]

(* No path, no EDs covered. *)
RoundGoOnEmptyUnguarded(u, reach, reports) ==
  /\ heard[u] = {}
  /\ GoOn(u, reach, reports)
  /\ m_persist' = [m_persist EXCEPT ![u] = @ - 1]
  /\ UNCHANGED m_lastNode

RoundGoOnEmpty(u, reach, reports) ==
  /\ m_persist[u] > 0
  /\ heard[u] = {}
  /\ GoOn(u, reach, reports)
  /\ m_persist' = [m_persist EXCEPT ![u] = @ - 1]
  /\ UNCHANGED m_lastNode

Round(u) ==
  \E reach \in SUBSET Others(u), reports \in Reports(u) :
    \/ \E bs \in 1..MaxHops, ratio \in 0..MaxRatio, idle \in BOOLEAN :
         RoundLinked(u, bs, ratio, reach, reports, idle)
    \/ \E pos \in Position, pause \in 0..MaxPause :
         RoundTurnBack(u, reach, reports, pos, pause)
    \/ \E neighbours \in SUBSET reach : RoundGoOnCovering(u, neighbours, reach, reports)
    \/ RoundGoOnEmpty(u, reach, reports)

(* DoWalk (m_modeTime): the next period, in which other EDs are heard. *)
NextPeriod ==
  /\ due = {}
  /\ due' = UAV
  /\ heard' \in [UAV -> SUBSET ED]
  /\ m_token' = [u \in UAV |-> AgedAll(m_token[u])]
  /\ m_tokens' = [u \in UAV |-> AgedAll(m_tokens[u])]
  /\ UNCHANGED << control, missed >>

-----------------------------------------------------------------------------
(* DoInitialize, which ends with the first round.  No ED has been heard.   *)
Init ==
  /\ heard = [u \in UAV |-> {}]
  /\ due = UAV
  /\ linked = [u \in UAV |-> FALSE]
  /\ course = [u \in UAV |-> "forces"]
  /\ m_hops = [u \in UAV |-> 0]
  /\ m_persist = [u \in UAV |-> 0]
  /\ m_pause = [u \in UAV |-> 0]
  /\ m_lastNode = [u \in UAV |-> FALSE]
  /\ m_token = [u \in UAV |-> << >>]
  /\ m_tokens = [u \in UAV |-> << >>]
  /\ missed = FALSE

Next == NextPeriod \/ \E u \in UAV : Round(u)

Spec == Init /\ [][Next]_vars

(* The simulator runs every event that is scheduled. *)
FairSpec == Spec /\ WF_vars(NextPeriod) /\ \A u \in UAV : WF_vars(Round(u))

-----------------------------------------------------------------------------
(* Types. *)
ControlOK ==
  /\ heard \in [UAV -> SUBSET ED]
  /\ due \subseteq UAV
  /\ linked \in [UAV -> BOOLEAN]
  /\ course \in [UAV -> {"forces", "pause", "back"}]
  /\ m_hops \in [UAV -> 0..MaxHops]
  /\ m_persist \in [UAV -> 0..Word - 1]
  /\ m_pause \in [UAV -> 0..MaxPause]
  /\ m_lastNode \in [UAV -> BOOLEAN]
  /\ m_token \in [UAV -> {<< >>} \cup {<<t>> : t \in Token}]

TypeOK ==
  /\ ControlOK
  /\ m_tokens \in [UAV -> Seq(Token)]
  /\ missed \in BOOLEAN

(* The excursions of the UAVs are those of the abstract specification: a   *)
(* UAV that goes back to the base station does so in every round until one *)
(* finds a path, and it carries a token only on its way.                   *)
Phase(u) ==
  IF linked[u] THEN "linked" ELSE IF course[u] = "back" THEN "homeward" ELSE "away"

Excursions ==
  INSTANCE Excursion WITH phase <- [u \in UAV |-> Phase(u)],
                          carrying <- {u \in UAV : m_token[u] # << >>}

ExcursionSpec == Excursions!Spec

(* A token waits only in a UAV that is going back, never in one that is    *)
(* linked or has set off again: it is sent with the first path found.      *)
TokenComesHome ==
  \A u \in UAV : m_token[u] # << >> => ~ linked[u] /\ course[u] = "back" /\ m_persist[u] = 0

(* SendToken calls the other managers in the same event as its own: as     *)
(* long as every token was sent with all UAVs in the routing table, all    *)
(* managers keep the same tokens in the same order.                        *)
SameSeeds == ~ missed => \A u, v \in UAV : m_tokens[u] = m_tokens[v]

(* A token that a UAV gives up has arrived: in its own manager, and in all *)
(* of them unless some UAV was ever out of reach, among what AddToken has  *)
(* merged before.                                                          *)
HandedOver ==
  [][\A u \in UAV :
       m_token[u] # << >> /\ m_token'[u] = << >> =>
         \A v \in IF missed' THEN {u} ELSE UAV :
           \E i \in DOMAIN m_tokens'[v] : m_tokens'[v][i] = m_token[u][1]]_vars

(* A UAV that from some point on finds no path and never prolongs its stay *)
(* ends up going back to the base station.                                 *)
Prolongs(u) == ~ linked'[u] /\ m_persist'[u] > m_persist[u]

Homecoming ==
  \A u \in UAV :
    (<>[](~ linked[u]) /\ <>[][~ Prolongs(u)]_vars) => <>[](course[u] = "back")
=============================================================================

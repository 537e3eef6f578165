--------------------------- MODULE LoraEdsMonitor ---------------------------
(***************************************************************************)
(* The LoraEdsMonitor of one UAV: what the gateway of the UAV knows of the *)
(* end devices (EDs) it hears, driven by its reception callback and by the *)
(* two periodic tasks of VirtualSprings2dMobilityModel that use it, the    *)
(* history task and the monitoring part of the control round.              *)
(*                                                                         *)
(* A std::map is a function whose domain is the set of keys, a std::queue  *)
(* a sequence with its oldest element first.  Time is a natural number of  *)
(* ticks.  Timers set for an instant run before the receptions of that     *)
(* instant: they were scheduled at least one period earlier, a reception   *)
(* one airtime earlier, and ns-3 runs the events of an instant in the      *)
(* order in which they were scheduled.                                     *)
(***************************************************************************)
EXTENDS Integers, Sequences, FiniteSets

CONSTANTS
  ED,            \* node ids of the EDs, in the order std::map keeps them
  Position,      \* positions an ED may have, <<x, y>>
  Modes,         \* values of the attribute PredictionMode that are explored
  Retain,        \* M_SEC_RETAIN_EDS (20 s)
  HistPeriod,    \* period of the history task (10 s)
  ModeTime,      \* m_modeTime, period of the control round
  InterTol,      \* interTol given to FilterLostEds (40 s)
  FilterTol,     \* lostTol given to FilterLostEds (3 min)
  LostTolDir,    \* tolerance given to UpdateLostEds in mode 2 (65 s)
  LostTolKmeans, \* tolerance given to UpdateLostEds in mode 3 (3 min)
  MinCluster,    \* members a direction needs to be reported (4)
  MaxClusters,   \* maxClusters (3)
  MaxTime        \* bound on the clock

ASSUME IdAssumption == ED \subseteq Nat /\ IsFiniteSet(ED)
ASSUME PositionAssumption == Position \subseteq Int \X Int
ASSUME ModeAssumption == Modes \subseteq 0..3
ASSUME TimeAssumption ==
  /\ Retain \in Nat \ {0} /\ HistPeriod \in Nat \ {0} /\ ModeTime \in Nat \ {0}
  /\ InterTol \in Nat /\ FilterTol \in Nat /\ MaxTime \in Nat
  /\ LostTolDir \in Nat /\ LostTolKmeans \in Nat
  /\ MinCluster \in Nat \ {0} /\ MaxClusters \in Nat \ {0}
(* The history task of an instant runs before the control round: it was    *)
(* scheduled at least as early.  An ED is not lost while it is covered.    *)
ASSUME ScheduleAssumption ==
  /\ ModeTime <= HistPeriod
  /\ Retain <= LostTolDir /\ Retain <= LostTolKmeans

VARIABLES
  m_predictionMode,  \* the attribute, set once by the scenario
  now,               \* Simulator::Now ()
  m_eds,             \* ED |-> its last reception
  m_eds_single_hist, \* ED |-> its last two receptions
  m_eds_lost,        \* ED |-> the receptions it had when it was declared lost
  m_eds_hist,        \* times of the last three centres of mass
  clusters,          \* clusters the last control round turned into tokens
  nextHist,          \* expiry of each pending UpdateHistory event, in schedule order
  nextRound          \* expiry of the pending control round

vars == << m_predictionMode, now, m_eds, m_eds_single_hist, m_eds_lost,
           m_eds_hist, clusters, nextHist, nextRound >>

Entry == [time : Nat, pos : Position]

-----------------------------------------------------------------------------
(* Maps and queues. *)

Put(map, id, v) == [i \in DOMAIN map \cup {id} |-> IF i = id THEN v ELSE map[i]]

Erase(map, ids) == [i \in DOMAIN map \ ids |-> map[i]]

Back(q) == q[Len(q)]

(* push, then (or, equivalently, first) drop the oldest beyond n elements; *)
(* before it two variants a slip would give (see the README, Mutants).     *)
PushBoundedOffByOne(q, e, n) == IF Len(q) > n THEN Append(Tail(q), e) ELSE Append(q, e)

PushBoundedWhenRoom(q, e, n) == IF Len(q) >= n THEN q ELSE Append(q, e)

PushBounded(q, e, n) == IF Len(q) >= n THEN Append(Tail(q), e) ELSE Append(q, e)

-----------------------------------------------------------------------------
(* GetEdsList (tolerance): the EDs heard less than tolerance ago. *)
GetEdsListNegated(tolerance) == {i \in DOMAIN m_eds : now >= m_eds[i].time + tolerance}

GetEdsList(tolerance) == {i \in DOMAIN m_eds : now < m_eds[i].time + tolerance}

HistDue == \E l \in DOMAIN nextHist : nextHist[l] = now
RoundDue == nextRound = now
TimerDue == HistDue \/ RoundDue

(* UpdateList, the callback on the trace source ReceivedPacket of the      *)
(* gateway, with the per-ED UpdateHistory it calls.                        *)
UpdateList(id, pos) ==
  LET e == [time |-> now, pos |-> pos]
  IN  /\ ~ TimerDue
      /\ m_eds' = Put(m_eds, id, e)
      /\ m_eds_single_hist' =
           Put(m_eds_single_hist, id,
               IF id \in DOMAIN m_eds_single_hist
               THEN PushBounded(m_eds_single_hist[id], e, 2)
               ELSE <<e>>)
      /\ UNCHANGED << m_predictionMode, now, m_eds_lost, m_eds_hist, clusters,
                      nextHist, nextRound >>

(* The last key the loop over the filtered map visits gives the entry its  *)
(* time.  (Its coordinates start uninitialised; they are left out.)        *)
LastVisited(eds) == CHOOSE i \in eds : \A j \in eds : j <= i

CenterTime(eds) == m_eds[LastVisited(eds)].time

(* UpdateHistory (M_SEC_RETAIN_EDS) as the periodic task l runs it. *)
UpdateHistory(l) ==
  LET eds == GetEdsList(Retain)
  IN  /\ nextHist[l] = now
      /\ \A k \in DOMAIN nextHist : k < l => nextHist[k] > now
      /\ m_eds_hist' = IF eds = {} THEN m_eds_hist
                       ELSE PushBounded(m_eds_hist, CenterTime(eds), 3)
      /\ nextHist' = [nextHist EXCEPT ![l] = now + HistPeriod]
      /\ UNCHANGED << m_predictionMode, now, m_eds, m_eds_single_hist,
                      m_eds_lost, clusters, nextRound >>

-----------------------------------------------------------------------------
(* UpdateLostEds (tolerance): the EDs whose newest sample is older than    *)
(* tolerance move, with their samples, from one map to the other.          *)
SilentByOldest(tolerance) ==
  {i \in DOMAIN m_eds_single_hist : Head(m_eds_single_hist[i]).time < now - tolerance}

Silent(tolerance) ==
  {i \in DOMAIN m_eds_single_hist : Back(m_eds_single_hist[i]).time < now - tolerance}

LostAfterUpdate(tolerance) ==
  [i \in DOMAIN m_eds_lost \cup Silent(tolerance) |->
     IF i \in Silent(tolerance) THEN m_eds_single_hist[i] ELSE m_eds_lost[i]]

(* FilterLostEds (interTol, lostTol): the EDs it erases from lost. *)
FilteredIfBoth(lost, interTol, lostTol) ==
  {i \in DOMAIN lost :
     /\ Len(lost[i]) >= 2
     /\ now - Back(lost[i]).time > lostTol
     /\ Back(lost[i]).time - Head(lost[i]).time > interTol}

Filtered(lost, interTol, lostTol) ==
  {i \in DOMAIN lost :
     /\ Len(lost[i]) >= 2
     /\ \/ now - Back(lost[i]).time > lostTol
        \/ Back(lost[i]).time - Head(lost[i]).time > interTol}

(* The sector of a displacement, from atan2 in degrees, which lies in      *)
(* (-180, 180]: sectors 4 to 6 are never chosen, and 7 takes 0, 45 and     *)
(* every negative angle.                                                   *)
Sector(d) ==
  LET x == d[1]
      y == d[2]
  IN  CASE 0 < y /\ y < x        -> 0
        [] 0 <= x /\ x < y       -> 1
        [] x < 0 /\ -x <= y      -> 2
        [] x < 0 /\ 0 <= y /\ y < -x -> 3
        [] OTHER                 -> 7

Displacement(q) ==
  << Back(q).pos[1] - Head(q).pos[1], Back(q).pos[2] - Head(q).pos[2] >>

(* CreateClusters (): the lost EDs with two samples, by sector. *)
Members(lost, s) ==
  {i \in DOMAIN lost : Len(lost[i]) >= 2 /\ Sector(Displacement(lost[i])) = s}

(* GetClusterInfo (): one report per sector with enough members, its       *)
(* track that of the member with the least id, its weight the default.     *)
FirstOf(ids) == CHOOSE i \in ids : \A j \in ids : i <= j

ClusterInfoOf(lost, s) ==
  LET first == lost[FirstOf(Members(lost, s))]
  IN  [members |-> Members(lost, s), lastTime |-> Back(first).time,
       velocity |-> Displacement(first), weight |-> 0]

GetClusterInfo(lost) ==
  {ClusterInfoOf(lost, s) : s \in {t \in 0..7 : Cardinality(Members(lost, t)) >= MinCluster}}

(* The number of clusters the k-means search may return: 0 with no lost    *)
(* ED, otherwise 1 or any size it tried (whose silhouette decides).        *)
KmeansSizes(lost) ==
  IF DOMAIN lost = {} THEN {0}
  ELSE {1} \cup {j \in 2..MaxClusters : j <= Cardinality(DOMAIN lost)}

(* ComputeClustersInfo: a group is reported if its velocity is not zero,   *)
(* which takes a member with two samples.  Which groups are is left open.  *)
GroupOf(group, g) == {i \in DOMAIN group : group[i] = g}

TrackedAny(lost, ids) == {i \in ids : Len(lost[i]) >= 1}

Tracked(lost, ids) == {i \in ids : Len(lost[i]) >= 2}

LatestOf(lost, ids) ==
  LET t == {Back(lost[i]).time : i \in ids}
  IN  CHOOSE m \in t : \A n \in t : n <= m

ClusterOfGroup(lost, ids) ==
  [members |-> ids, lastTime |-> LatestOf(lost, ids), weight |-> Cardinality(ids)]

LostTolSwapped == IF m_predictionMode = 2 THEN LostTolKmeans ELSE LostTolDir

LostTol == IF m_predictionMode = 2 THEN LostTolDir ELSE LostTolKmeans

(* The monitoring part of DoInitializePrivate, the control round, which    *)
(* ends by scheduling the next one.                                        *)
StartRound ==
  /\ RoundDue
  /\ ~ HistDue
  /\ nextRound' = now + ModeTime
  /\ UNCHANGED << m_predictionMode, now, m_eds, m_eds_hist, nextHist >>

RoundWithoutClusters ==
  /\ StartRound
  /\ m_predictionMode \in {0, 1}
  /\ UNCHANGED << m_eds_single_hist, m_eds_lost, clusters >>

MoveLost ==
  LET lost == LostAfterUpdate(LostTol)
  IN  /\ m_eds_single_hist' = Erase(m_eds_single_hist, Silent(LostTol))
      /\ m_eds_lost' = Erase(lost, Filtered(lost, InterTol, FilterTol))

RoundDirection ==
  /\ StartRound
  /\ m_predictionMode = 2
  /\ MoveLost
  /\ clusters' = GetClusterInfo(m_eds_lost')

RoundKmeans ==
  /\ StartRound
  /\ m_predictionMode = 3
  /\ MoveLost
  /\ \E k \in KmeansSizes(m_eds_lost') :
       \E group \in [DOMAIN m_eds_lost' -> 0 .. k - 1] :
         \E reported \in SUBSET {g \in 0 .. k - 1 :
                                   Tracked(m_eds_lost', GroupOf(group, g)) # {}} :
           clusters' = {ClusterOfGroup(m_eds_lost', GroupOf(group, g)) : g \in reported}

Tick ==
  /\ ~ TimerDue
  /\ now < MaxTime
  /\ now' = now + 1
  /\ UNCHANGED << m_predictionMode, m_eds, m_eds_single_hist, m_eds_lost,
                  m_eds_hist, clusters, nextHist, nextRound >>

-----------------------------------------------------------------------------
(* DoInitialize schedules the history task once, and once more in mode 1,  *)
(* and runs the first control round at once.                               *)
Init ==
  /\ m_predictionMode \in Modes
  /\ now = 0
  /\ m_eds = << >>
  /\ m_eds_single_hist = << >>
  /\ m_eds_lost = << >>
  /\ m_eds_hist = << >>
  /\ clusters = {}
  /\ nextHist = IF m_predictionMode = 1 THEN << HistPeriod, HistPeriod >>
                                        ELSE << HistPeriod >>
  /\ nextRound = 0

Next ==
  \/ \E id \in ED, pos \in Position : UpdateList(id, pos)
  \/ \E l \in DOMAIN nextHist : UpdateHistory(l)
  \/ RoundWithoutClusters
  \/ RoundDirection
  \/ RoundKmeans
  \/ Tick

Spec == Init /\ [][Next]_vars

-----------------------------------------------------------------------------
(* Types. *)
OneOrTwo(q) == 1 <= Len(q) /\ Len(q) <= 2

ClustersOfEds == \A c \in clusters : c.members \subseteq ED

TypeOK ==
  /\ m_predictionMode \in Modes
  /\ now \in Nat
  /\ DOMAIN m_eds \subseteq ED /\ m_eds \in [DOMAIN m_eds -> Entry]
  /\ DOMAIN m_eds_single_hist \subseteq ED
  /\ m_eds_single_hist \in [DOMAIN m_eds_single_hist -> Seq(Entry)]
  /\ \A i \in DOMAIN m_eds_single_hist : OneOrTwo(m_eds_single_hist[i])
  /\ DOMAIN m_eds_lost \subseteq ED
  /\ m_eds_lost \in [DOMAIN m_eds_lost -> Seq(Entry)]
  /\ \A i \in DOMAIN m_eds_lost : OneOrTwo(m_eds_lost[i])
  /\ m_eds_hist \in Seq(Nat) /\ Len(m_eds_hist) <= 3
  /\ ClustersOfEds
  /\ nextHist \in Seq(Nat) /\ OneOrTwo(nextHist)
  /\ nextRound \in Nat

(* The two records the monitor keeps of an ED agree, and a covered ED is   *)
(* tracked: whenever the control round takes an ED as covered (heard less  *)
(* than Retain ago) its reception queue exists and ends with the reception *)
(* m_eds holds, however UpdateLostEds has moved queues about.              *)
CoveredKept ==
  \A i \in GetEdsList(Retain) :
    /\ i \in DOMAIN m_eds_single_hist
    /\ Back(m_eds_single_hist[i]) = m_eds[i]

(* The centres of mass are pushed with the time of the ED with the largest *)
(* id, not of the ED heard last; all the same, the times in m_eds_hist     *)
(* never go backwards, so GetLastTime () of its back is the newest.        *)
HistTimesOrdered ==
  \A i, j \in DOMAIN m_eds_hist : i <= j => m_eds_hist[i] <= m_eds_hist[j]

(* What GenerateToken reads: when a control round runs with an ED covered, *)
(* m_eds_hist is not empty (back () of an empty queue is undefined) and    *)
(* its newest entry is a reception less than Retain ago.                   *)
TokenSourceFresh ==
  RoundDue /\ ~ HistDue /\ GetEdsList(Retain) # {} =>
    /\ m_eds_hist # << >>
    /\ now < Back(m_eds_hist) + Retain

(* A cluster is reported on fresh evidence of a loss: its time is that of  *)
(* a reception more than the lost tolerance and at most FilterTol old when *)
(* the round ran (at most one period ago), and no member has two samples   *)
(* further apart than InterTol.                                            *)
ClusterEvidence ==
  \A c \in clusters :
    /\ now - c.lastTime \in LostTol + 1 .. FilterTol + ModeTime
    /\ \A i \in c.members \cap DOMAIN m_eds_lost :
         Len(m_eds_lost[i]) = 2 =>
           Back(m_eds_lost[i]).time - Head(m_eds_lost[i]).time <= InterTol

(* An ED whose track is usable (two samples, not too far apart) and that   *)
(* the control round of mode 2 has just declared lost is there when the    *)
(* round computes the clusters.                                            *)
Usable(q) == Len(q) = 2 /\ Back(q).time - Head(q).time <= InterTol

DirectionTracksReach ==
  [][m_predictionMode = 2 =>
       \A i \in DOMAIN m_eds_single_hist \ DOMAIN m_eds_single_hist' :
         Usable(m_eds_single_hist[i]) => i \in DOMAIN m_eds_lost']_vars

(* With equal tolerances in UpdateLostEds and FilterLostEds, as the code   *)
(* has them in mode 3, the k-means prediction never reports a cluster: an  *)
(* ED with two samples is old enough to be filtered as soon as it is lost. *)
KmeansBlind == m_predictionMode = 3 /\ LostTolKmeans >= FilterTol => clusters = {}
=============================================================================

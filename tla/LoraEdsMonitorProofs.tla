------------------------ MODULE LoraEdsMonitorProofs ------------------------
(***************************************************************************)
(* Proofs about the monitor of one UAV, for any EDs, positions, periods    *)
(* and tolerances that satisfy the assumptions of LoraEdsMonitor.          *)
(***************************************************************************)
EXTENDS LoraEdsMonitor, TLAPS, FiniteSetTheorems

-----------------------------------------------------------------------------
(* A non-empty set of EDs has a greatest id: the smallest (for inclusion)  *)
(* of the sets "members from i on" is that of the greatest member.         *)
LEMMA GreatestId ==
  ASSUME NEW S, S \subseteq ED, S # {}
  PROVE  \E m \in S : \A j \in S : j <= m
<1> DEFINE From(i) == {j \in S : i <= j}
           T == {From(i) : i \in S}
<1>1. T \subseteq FiniteSubsetsOf(ED) /\ T # {}
  <2>1. ASSUME NEW i \in S
        PROVE  From(i) \subseteq ED /\ IsFiniteSet(From(i))
    <3>1. From(i) \subseteq ED
      OBVIOUS
    <3> QED BY <3>1, IdAssumption, FS_Subset
  <2> QED BY <2>1 DEF FiniteSubsetsOf
<1>2. PICK x \in T : \A y \in T : ~ (<<y, x>> \in StrictSubsetOrdering(ED))
  <2> HIDE DEF T
  <2> QED BY <1>1, FS_StrictSubsetOrderingWellFounded, WFMin
<1>3. PICK m \in S : x = From(m)
  OBVIOUS
<1>4. ASSUME NEW j \in S, ~ (j <= m)
      PROVE  FALSE
  <2>1. m \in Nat /\ j \in Nat /\ m < j /\ S \subseteq Nat
    BY <1>4, IdAssumption
  <2>2. From(j) \subseteq From(m)
    <3>1. ASSUME NEW k \in S, j <= k
          PROVE  m <= k
      BY <2>1, <3>1
    <3> QED BY <3>1
  <2>3. m \in From(m) /\ m \notin From(j)
    BY <2>1
  <2>4. <<From(j), x>> \in StrictSubsetOrdering(ED)
    BY <2>2, <2>3, <1>3 DEF StrictSubsetOrdering
  <2> QED BY <2>4, <1>2
<1> QED BY <1>4

(* LastVisited is the greatest id of the set the loop goes over. *)
LEMMA LastVisitedGreatest ==
  ASSUME NEW S, S \subseteq ED, S # {}
  PROVE  LastVisited(S) \in S /\ \A j \in S : j <= LastVisited(S)
BY GreatestId DEF LastVisited

(* The push on a bounded queue: the newest element is last, the others     *)
(* keep their order, the oldest ones may go.                               *)
LEMMA PushBoundedProperties ==
  ASSUME NEW S, NEW q \in Seq(S), NEW e \in S, NEW n \in Nat \ {0}, Len(q) <= n
  PROVE  /\ PushBounded(q, e, n) \in Seq(S)
         /\ 1 <= Len(PushBounded(q, e, n)) /\ Len(PushBounded(q, e, n)) <= n
         /\ Back(PushBounded(q, e, n)) = e
         /\ \E d \in 0..1 : \A k \in 1..Len(PushBounded(q, e, n)) - 1 :
              /\ k + d \in 1..Len(q)
              /\ PushBounded(q, e, n)[k] = q[k + d]
<1>1. CASE Len(q) >= n
  <2>1. q # << >> /\ Tail(q) \in Seq(S) /\ Len(Tail(q)) = Len(q) - 1
    BY <1>1
  <2>2. PushBounded(q, e, n) = Append(Tail(q), e)
    BY <1>1 DEF PushBounded
  <2>3. \A k \in 1..Len(Append(Tail(q), e)) - 1 :
          /\ k + 1 \in 1..Len(q)
          /\ Append(Tail(q), e)[k] = q[k + 1]
    BY <2>1
  <2> QED BY <1>1, <2>1, <2>2, <2>3 DEF Back
<1>2. CASE Len(q) < n
  <2>1. PushBounded(q, e, n) = Append(q, e)
    BY <1>2 DEF PushBounded
  <2>2. \A k \in 1..Len(Append(q, e)) - 1 :
          /\ k + 0 \in 1..Len(q)
          /\ Append(q, e)[k] = q[k + 0]
    OBVIOUS
  <2> QED BY <1>2, <2>1, <2>2 DEF Back
<1> QED BY <1>1, <1>2

-----------------------------------------------------------------------------
(* The maps the control round leaves: the queues of the silent EDs have    *)
(* moved, and some of the lost ones are gone.                              *)
LEMMA MoveLostType ==
  ASSUME TypeOK, MoveLost
  PROVE  /\ DOMAIN m_eds_single_hist' \subseteq ED
         /\ m_eds_single_hist' \in [DOMAIN m_eds_single_hist' -> Seq(Entry)]
         /\ \A i \in DOMAIN m_eds_single_hist' : OneOrTwo(m_eds_single_hist'[i])
         /\ DOMAIN m_eds_lost' \subseteq ED
         /\ m_eds_lost' \in [DOMAIN m_eds_lost' -> Seq(Entry)]
         /\ \A i \in DOMAIN m_eds_lost' : OneOrTwo(m_eds_lost'[i])
<1>1. Silent(LostTol) \subseteq DOMAIN m_eds_single_hist
  BY DEF Silent
<1>2. /\ DOMAIN LostAfterUpdate(LostTol) \subseteq ED
      /\ \A i \in DOMAIN LostAfterUpdate(LostTol) :
           /\ LostAfterUpdate(LostTol)[i] \in Seq(Entry)
           /\ OneOrTwo(LostAfterUpdate(LostTol)[i])
  BY <1>1 DEF LostAfterUpdate, TypeOK
<1>3. /\ DOMAIN m_eds_lost' \subseteq DOMAIN LostAfterUpdate(LostTol)
      /\ m_eds_lost' = [i \in DOMAIN m_eds_lost' |-> LostAfterUpdate(LostTol)[i]]
  BY DEF MoveLost, Erase
<1>4. /\ DOMAIN m_eds_single_hist' \subseteq DOMAIN m_eds_single_hist
      /\ m_eds_single_hist' = [i \in DOMAIN m_eds_single_hist' |-> m_eds_single_hist[i]]
  BY DEF MoveLost, Erase
<1>5. /\ DOMAIN m_eds_lost' \subseteq ED
      /\ m_eds_lost' \in [DOMAIN m_eds_lost' -> Seq(Entry)]
      /\ \A i \in DOMAIN m_eds_lost' : OneOrTwo(m_eds_lost'[i])
  BY <1>2, <1>3
<1>6. /\ DOMAIN m_eds_single_hist' \subseteq ED
      /\ m_eds_single_hist' \in [DOMAIN m_eds_single_hist' -> Seq(Entry)]
      /\ \A i \in DOMAIN m_eds_single_hist' : OneOrTwo(m_eds_single_hist'[i])
  BY <1>4 DEF TypeOK
<1> QED BY <1>5, <1>6

LEMMA InitType == Init => TypeOK
BY TimeAssumption DEF Init, OneOrTwo, TypeOK, ClustersOfEds

LEMMA NextExpiries ==
  ASSUME TypeOK
  PROVE  now + HistPeriod \in Nat /\ now + ModeTime \in Nat
<1>1. now \in Nat
  BY Zenon DEF TypeOK
<1>2. HistPeriod \in Nat /\ ModeTime \in Nat
  BY TimeAssumption
<1> QED BY <1>1, <1>2

LEMMA UpdateListType ==
  ASSUME TypeOK, NEW id \in ED, NEW pos \in Position, UpdateList(id, pos)
  PROVE  TypeOK'
<1> DEFINE e == [time |-> now, pos |-> pos]
           q == IF id \in DOMAIN m_eds_single_hist
                THEN PushBounded(m_eds_single_hist[id], e, 2)
                ELSE <<e>>
<1>1. e \in Entry
  BY DEF Entry, TypeOK
<1>2. q \in Seq(Entry) /\ OneOrTwo(q)
  <2>1. CASE id \in DOMAIN m_eds_single_hist
    <3>1. m_eds_single_hist[id] \in Seq(Entry) /\ Len(m_eds_single_hist[id]) <= 2
      BY <2>1 DEF TypeOK, OneOrTwo
    <3>2. q = PushBounded(m_eds_single_hist[id], e, 2)
      BY <2>1
    <3> HIDE DEF e, q
    <3> QED BY <3>1, <3>2, <1>1, PushBoundedProperties DEF OneOrTwo
  <2>2. CASE id \notin DOMAIN m_eds_single_hist
    <3>1. q = <<e>>
      BY <2>2
    <3> HIDE DEF e, q
    <3> QED BY <3>1, <1>1 DEF OneOrTwo
  <2> QED BY <2>1, <2>2
<1>3. /\ m_eds' = Put(m_eds, id, e)
      /\ m_eds_single_hist' = Put(m_eds_single_hist, id, q)
      /\ UNCHANGED << m_predictionMode, now, m_eds_lost, m_eds_hist, clusters,
                      nextHist, nextRound >>
  BY DEF UpdateList
<1> HIDE DEF e, q
<1>4. DOMAIN m_eds' \subseteq ED /\ m_eds' \in [DOMAIN m_eds' -> Entry]
  BY <1>1, <1>3 DEF Put, TypeOK
<1>5. /\ DOMAIN m_eds_single_hist' \subseteq ED
      /\ m_eds_single_hist' \in [DOMAIN m_eds_single_hist' -> Seq(Entry)]
      /\ \A i \in DOMAIN m_eds_single_hist' : OneOrTwo(m_eds_single_hist'[i])
  BY <1>2, <1>3 DEF Put, TypeOK
<1> QED BY <1>3, <1>4, <1>5 DEF TypeOK, ClustersOfEds

(* The time a centre of mass is given is that of a reception. *)
LEMMA CenterTimeProperties ==
  ASSUME TypeOK, NEW S, S \subseteq DOMAIN m_eds, S # {}
  PROVE  /\ LastVisited(S) \in S
         /\ \A j \in S : j <= LastVisited(S)
         /\ CenterTime(S) = m_eds[LastVisited(S)].time
         /\ CenterTime(S) \in Nat
<1>1. LastVisited(S) \in S /\ \A j \in S : j <= LastVisited(S)
  BY LastVisitedGreatest DEF TypeOK
<1>2. m_eds[LastVisited(S)] \in Entry
  BY <1>1 DEF TypeOK
<1> QED BY <1>1, <1>2 DEF CenterTime, Entry

(* The push of PushBoundedProperties on the queue of centres of mass. *)
LEMMA PushHistory ==
  ASSUME TypeOK, NEW t \in Nat
  PROVE  /\ PushBounded(m_eds_hist, t, 3) \in Seq(Nat)
         /\ 1 <= Len(PushBounded(m_eds_hist, t, 3)) /\ Len(PushBounded(m_eds_hist, t, 3)) <= 3
         /\ Back(PushBounded(m_eds_hist, t, 3)) = t
         /\ \E d \in 0..1 : \A k \in 1..Len(PushBounded(m_eds_hist, t, 3)) - 1 :
              /\ k + d \in 1..Len(m_eds_hist)
              /\ PushBounded(m_eds_hist, t, 3)[k] = m_eds_hist[k + d]
<1> DEFINE Times == Nat
<1>1. /\ m_eds_hist \in Seq(Times) /\ Len(m_eds_hist) <= 3
      /\ t \in Times /\ 3 \in Nat \ {0}
  BY DEF TypeOK
<1>2. /\ PushBounded(m_eds_hist, t, 3) \in Seq(Times)
      /\ 1 <= Len(PushBounded(m_eds_hist, t, 3)) /\ Len(PushBounded(m_eds_hist, t, 3)) <= 3
      /\ Back(PushBounded(m_eds_hist, t, 3)) = t
      /\ \E d \in 0..1 : \A k \in 1..Len(PushBounded(m_eds_hist, t, 3)) - 1 :
           /\ k + d \in 1..Len(m_eds_hist)
           /\ PushBounded(m_eds_hist, t, 3)[k] = m_eds_hist[k + d]
  <2> HIDE DEF Times
  <2> QED BY <1>1, PushBoundedProperties
<1> QED BY <1>2

LEMMA UpdateHistoryType ==
  ASSUME TypeOK, NEW l \in DOMAIN nextHist, UpdateHistory(l)
  PROVE  TypeOK'
<1> DEFINE eds == GetEdsList(Retain)
<1>1. m_eds_hist' \in Seq(Nat) /\ Len(m_eds_hist') <= 3
  <2>1. CASE eds = {}
    BY <2>1 DEF UpdateHistory, TypeOK
  <2>2. CASE eds # {}
    <3>1. eds \subseteq DOMAIN m_eds
      BY DEF GetEdsList
    <3> HIDE DEF eds
    <3>2. CenterTime(eds) \in Nat
      BY <2>2, <3>1, CenterTimeProperties
    <3>3. m_eds_hist' = PushBounded(m_eds_hist, CenterTime(eds), 3)
      BY <2>2 DEF UpdateHistory, eds
    <3> QED BY <3>2, <3>3, PushHistory
  <2> QED BY <2>1, <2>2
<1>2. nextHist' \in Seq(Nat) /\ OneOrTwo(nextHist')
  <2>1. now + HistPeriod \in Nat
    BY NextExpiries
  <2>2. nextHist' = [nextHist EXCEPT ![l] = now + HistPeriod]
    BY DEF UpdateHistory
  <2>3. nextHist \in Seq(Nat) /\ 1 <= Len(nextHist) /\ Len(nextHist) <= 2
    BY DEF TypeOK, OneOrTwo
  <2> QED BY <2>1, <2>2, <2>3 DEF OneOrTwo
<1> QED BY <1>1, <1>2 DEF UpdateHistory, TypeOK, ClustersOfEds

LEMMA RoundDirectionType ==
  ASSUME TypeOK, RoundDirection
  PROVE  TypeOK'
<1>1. ClustersOfEds'
  <2>1. \A s : Members(m_eds_lost', s) \subseteq ED
    BY MoveLostType DEF RoundDirection, Members
  <2>2. \A s : ClusterInfoOf(m_eds_lost', s).members = Members(m_eds_lost', s)
    BY DEF ClusterInfoOf
  <2>3. \A c \in clusters' : \E s : c = ClusterInfoOf(m_eds_lost', s)
    BY DEF RoundDirection, GetClusterInfo
  <2> QED BY <2>1, <2>2, <2>3 DEF ClustersOfEds
<1>2. nextRound' \in Nat
  BY NextExpiries DEF StartRound, RoundDirection
<1> QED BY <1>1, <1>2, MoveLostType DEF RoundDirection, StartRound, TypeOK

LEMMA RoundKmeansType ==
  ASSUME TypeOK, RoundKmeans
  PROVE  TypeOK'
<1>1. ClustersOfEds'
  <2>1. PICK k \in KmeansSizes(m_eds_lost') :
          \E group \in [DOMAIN m_eds_lost' -> 0 .. k - 1] :
            \E reported \in SUBSET {g \in 0 .. k - 1 :
                                      Tracked(m_eds_lost', GroupOf(group, g)) # {}} :
              clusters' = {ClusterOfGroup(m_eds_lost', GroupOf(group, g)) : g \in reported}
    BY DEF RoundKmeans
  <2>2. PICK group \in [DOMAIN m_eds_lost' -> 0 .. k - 1] :
          \E reported \in SUBSET {g \in 0 .. k - 1 :
                                    Tracked(m_eds_lost', GroupOf(group, g)) # {}} :
            clusters' = {ClusterOfGroup(m_eds_lost', GroupOf(group, g)) : g \in reported}
    BY <2>1
  <2>3. \A g : GroupOf(group, g) \subseteq ED
    BY MoveLostType DEF GroupOf, RoundKmeans
  <2> QED BY <2>2, <2>3 DEF ClustersOfEds, ClusterOfGroup
<1>2. nextRound' \in Nat
  BY NextExpiries DEF StartRound, RoundKmeans
<1> QED BY <1>1, <1>2, MoveLostType DEF RoundKmeans, StartRound, TypeOK

LEMMA NextType == TypeOK /\ [Next]_vars => TypeOK'
<1> SUFFICES ASSUME TypeOK, [Next]_vars
             PROVE  TypeOK'
  OBVIOUS
<1>1. CASE \E id \in ED, pos \in Position : UpdateList(id, pos)
  BY <1>1, UpdateListType
<1>2. CASE \E l \in DOMAIN nextHist : UpdateHistory(l)
  BY <1>2, UpdateHistoryType
<1>3. CASE RoundWithoutClusters
  BY <1>3, TimeAssumption DEF RoundWithoutClusters, StartRound, TypeOK, ClustersOfEds
<1>4. CASE RoundDirection
  BY <1>4, RoundDirectionType
<1>5. CASE RoundKmeans
  BY <1>5, RoundKmeansType
<1>6. CASE Tick
  BY <1>6 DEF Tick, TypeOK, ClustersOfEds
<1>7. CASE UNCHANGED vars
  BY <1>7 DEF vars, TypeOK, ClustersOfEds
<1> QED BY <1>1, <1>2, <1>3, <1>4, <1>5, <1>6, <1>7 DEF Next

(* Every map of the monitor keeps its shape: an ED has one reception in    *)
(* m_eds, one or two in the queue of m_eds_single_hist or m_eds_lost, and  *)
(* there are never more than three centres of mass.                        *)
THEOREM TypeCorrect == Spec => []TypeOK
BY InitType, NextType, PTL DEF Spec

-----------------------------------------------------------------------------
(* The two records of an ED.  CoveredKept is not inductive: what keeps a   *)
(* covered ED out of the silent ones is that its queue ends with the       *)
(* reception m_eds holds, which every reception re-establishes and a       *)
(* control round, as Retain does not exceed the tolerance, leaves alone.   *)
RecordsAgree ==
  /\ \A i \in DOMAIN m_eds \cap DOMAIN m_eds_single_hist :
       Back(m_eds_single_hist[i]) = m_eds[i]
  /\ \A i \in GetEdsList(Retain) : i \in DOMAIN m_eds_single_hist

LEMMA RecordsAgreeCovers == RecordsAgree => CoveredKept
BY DEF RecordsAgree, CoveredKept, GetEdsList

LEMMA LostTolCoversRetain == LostTol \in Nat /\ Retain \in Nat /\ Retain <= LostTol
BY TimeAssumption, ScheduleAssumption DEF LostTol

LEMMA UpdateListRecords ==
  ASSUME TypeOK, RecordsAgree, NEW id \in ED, NEW pos \in Position, UpdateList(id, pos)
  PROVE  RecordsAgree'
<1> DEFINE e == [time |-> now, pos |-> pos]
           q == IF id \in DOMAIN m_eds_single_hist
                THEN PushBounded(m_eds_single_hist[id], e, 2)
                ELSE <<e>>
<1>1. /\ m_eds' = Put(m_eds, id, e)
      /\ m_eds_single_hist' = Put(m_eds_single_hist, id, q)
      /\ now' = now
  BY DEF UpdateList
<1>2. Back(q) = e
  <2>1. e \in Entry
    BY DEF Entry, TypeOK
  <2>2. CASE id \in DOMAIN m_eds_single_hist
    <3>1. m_eds_single_hist[id] \in Seq(Entry) /\ Len(m_eds_single_hist[id]) <= 2
      BY <2>2 DEF TypeOK, OneOrTwo
    <3>2. q = PushBounded(m_eds_single_hist[id], e, 2)
      BY <2>2
    <3> HIDE DEF e, q
    <3> QED BY <2>1, <3>1, <3>2, PushBoundedProperties
  <2>3. CASE id \notin DOMAIN m_eds_single_hist
    <3>1. q = <<e>>
      BY <2>3
    <3> HIDE DEF e, q
    <3> QED BY <3>1 DEF Back
  <2> QED BY <2>2, <2>3
<1> HIDE DEF e, q
<1>3. /\ DOMAIN m_eds' = DOMAIN m_eds \cup {id}
      /\ m_eds'[id] = e
      /\ \A i \in DOMAIN m_eds : i # id => m_eds'[i] = m_eds[i]
  BY <1>1 DEF Put
<1>4. /\ DOMAIN m_eds_single_hist' = DOMAIN m_eds_single_hist \cup {id}
      /\ m_eds_single_hist'[id] = q
      /\ \A i \in DOMAIN m_eds_single_hist :
           i # id => m_eds_single_hist'[i] = m_eds_single_hist[i]
  BY <1>1 DEF Put
<1>5. ASSUME NEW i \in DOMAIN m_eds' \cap DOMAIN m_eds_single_hist'
      PROVE  Back(m_eds_single_hist'[i]) = m_eds'[i]
  BY <1>2, <1>3, <1>4 DEF RecordsAgree
<1>6. ASSUME NEW i \in GetEdsList(Retain)'
      PROVE  i \in DOMAIN m_eds_single_hist'
  <2>1. CASE i = id
    BY <2>1, <1>4
  <2>2. CASE i # id
    <3>1. i \in GetEdsList(Retain)
      BY <2>2, <1>1, <1>3 DEF GetEdsList
    <3> QED BY <3>1, <1>4 DEF RecordsAgree
  <2> QED BY <2>1, <2>2
<1> QED BY <1>5, <1>6 DEF RecordsAgree

LEMMA MoveLostRecords ==
  ASSUME TypeOK, RecordsAgree, MoveLost, m_eds' = m_eds, now' = now
  PROVE  RecordsAgree'
<1>1. /\ DOMAIN m_eds_single_hist' = DOMAIN m_eds_single_hist \ Silent(LostTol)
      /\ \A i \in DOMAIN m_eds_single_hist' : m_eds_single_hist'[i] = m_eds_single_hist[i]
  BY DEF MoveLost, Erase
<1>2. GetEdsList(Retain)' = GetEdsList(Retain)
  BY DEF GetEdsList
<1>3. ASSUME NEW i \in GetEdsList(Retain)
      PROVE  i \notin Silent(LostTol)
  <2>1. /\ i \in DOMAIN m_eds /\ i \in DOMAIN m_eds_single_hist
        /\ Back(m_eds_single_hist[i]) = m_eds[i]
        /\ now < m_eds[i].time + Retain
    BY DEF RecordsAgree, GetEdsList
  <2>2. m_eds[i].time \in Nat /\ now \in Nat
    BY <2>1 DEF TypeOK, Entry
  <2>3. ~ (m_eds[i].time < now - LostTol)
    BY <2>1, <2>2, LostTolCoversRetain
  <2> QED BY <2>1, <2>3 DEF Silent
<1> QED BY <1>1, <1>2, <1>3 DEF RecordsAgree

LEMMA TickRecords ==
  ASSUME TypeOK, RecordsAgree, Tick
  PROVE  RecordsAgree'
<1>1. ASSUME NEW i \in GetEdsList(Retain)'
      PROVE  i \in GetEdsList(Retain)
  <2>1. i \in DOMAIN m_eds /\ now + 1 < m_eds[i].time + Retain
    BY DEF GetEdsList, Tick
  <2>2. m_eds[i].time \in Nat /\ now \in Nat
    BY <2>1 DEF TypeOK, Entry
  <2>3. now < m_eds[i].time + Retain
    BY <2>1, <2>2, TimeAssumption
  <2> QED BY <2>1, <2>3 DEF GetEdsList
<1> QED BY <1>1 DEF RecordsAgree, Tick

LEMMA NextRecords == TypeOK /\ RecordsAgree /\ [Next]_vars => RecordsAgree'
<1> SUFFICES ASSUME TypeOK, RecordsAgree, [Next]_vars
             PROVE  RecordsAgree'
  OBVIOUS
<1>1. CASE \E id \in ED, pos \in Position : UpdateList(id, pos)
  BY <1>1, UpdateListRecords
<1>2. CASE \E l \in DOMAIN nextHist : UpdateHistory(l)
  BY <1>2 DEF UpdateHistory, RecordsAgree, GetEdsList
<1>3. CASE RoundWithoutClusters
  BY <1>3 DEF RoundWithoutClusters, StartRound, RecordsAgree, GetEdsList
<1>4. CASE RoundDirection
  BY <1>4, MoveLostRecords DEF RoundDirection, StartRound
<1>5. CASE RoundKmeans
  BY <1>5, MoveLostRecords DEF RoundKmeans, StartRound
<1>6. CASE Tick
  BY <1>6, TickRecords
<1>7. CASE UNCHANGED vars
  BY <1>7 DEF vars, RecordsAgree, GetEdsList
<1> QED BY <1>1, <1>2, <1>3, <1>4, <1>5, <1>6, <1>7 DEF Next

LEMMA InitRecords == Init => RecordsAgree
BY DEF Init, RecordsAgree, GetEdsList

(* A covered ED is tracked: however UpdateLostEds moves queues about, an   *)
(* ED heard less than Retain ago has its queue, which ends with the        *)
(* reception m_eds holds.                                                  *)
THEOREM CoveredIsKept == Spec => []CoveredKept
<1>1. Init => TypeOK /\ RecordsAgree
  BY InitType, InitRecords
<1>2. (TypeOK /\ RecordsAgree) /\ [Next]_vars => (TypeOK /\ RecordsAgree)'
  BY NextType, NextRecords
<1> QED BY <1>1, <1>2, RecordsAgreeCovers, PTL DEF Spec

-----------------------------------------------------------------------------
(* The order of the centres of mass.  A new one has the time of the        *)
(* covered ED with the largest id, which need not be the ED heard last, so *)
(* the order is not inductive.  What is: behind every covered ED there is  *)
(* one with an id at least as large that was heard no earlier than the     *)
(* last centre of mass.  When time takes that one away, the first is newer *)
(* than it was, and takes its place.                                       *)
HeardSinceLast ==
  m_eds_hist # << >> =>
    /\ Back(m_eds_hist) <= now
    /\ \A j \in GetEdsList(Retain) :
         \E k \in GetEdsList(Retain) : j <= k /\ Back(m_eds_hist) <= m_eds[k].time

HeardInPast == \A i \in DOMAIN m_eds : m_eds[i].time <= now

LEMMA WindowTypes ==
  ASSUME TypeOK
  PROVE  /\ GetEdsList(Retain) \subseteq DOMAIN m_eds
         /\ \A i \in DOMAIN m_eds : m_eds[i].time \in Nat /\ i \in Nat
         /\ now \in Nat /\ Retain \in Nat
         /\ m_eds_hist # << >> => Back(m_eds_hist) \in Nat
<1>1. GetEdsList(Retain) \subseteq DOMAIN m_eds
  BY DEF GetEdsList
<1>2. \A i \in DOMAIN m_eds : m_eds[i].time \in Nat /\ i \in Nat
  BY IdAssumption DEF TypeOK, Entry
<1>3. m_eds_hist # << >> => Back(m_eds_hist) \in Nat
  BY DEF TypeOK, Back
<1> QED BY <1>1, <1>2, <1>3, TimeAssumption DEF TypeOK

LEMMA UpdateListHeard ==
  ASSUME TypeOK, HeardSinceLast, m_eds_hist # << >>,
         NEW id \in ED, NEW pos \in Position, UpdateList(id, pos)
  PROVE  HeardSinceLast'
<1> DEFINE e == [time |-> now, pos |-> pos]
           B == Back(m_eds_hist)
<1>1. /\ m_eds' = Put(m_eds, id, e)
      /\ now' = now /\ m_eds_hist' = m_eds_hist
      /\ e.time = now
  BY DEF UpdateList
<1>2. B <= now /\ B \in Nat /\ now \in Nat /\ Retain \in Nat \ {0} /\ id \in Nat
  BY WindowTypes, TimeAssumption, IdAssumption DEF HeardSinceLast
<1> HIDE DEF e
<1>3. /\ DOMAIN m_eds' = DOMAIN m_eds \cup {id}
      /\ m_eds'[id] = e
      /\ \A i \in DOMAIN m_eds : i # id => m_eds'[i] = m_eds[i]
  BY <1>1 DEF Put
<1>4. id \in GetEdsList(Retain)' /\ B <= m_eds'[id].time
  BY <1>1, <1>2, <1>3 DEF GetEdsList
<1>5. ASSUME NEW j \in GetEdsList(Retain)', j # id
      PROVE  \E k \in GetEdsList(Retain)' : j <= k /\ B <= m_eds'[k].time
  <2>1. j \in GetEdsList(Retain)
    BY <1>1, <1>3, <1>5 DEF GetEdsList
  <2>2. PICK k \in GetEdsList(Retain) : j <= k /\ B <= m_eds[k].time
    BY <2>1 DEF HeardSinceLast
  <2>3. CASE k = id
    BY <2>2, <2>3, <1>4
  <2>4. CASE k # id
    <3>1. k \in DOMAIN m_eds /\ m_eds'[k] = m_eds[k] /\ k \in DOMAIN m_eds'
      BY <2>4, <1>3, WindowTypes
    <3>2. k \in GetEdsList(Retain)'
      BY <3>1, <1>1 DEF GetEdsList
    <3> QED BY <3>1, <3>2, <2>2
  <2> QED BY <2>3, <2>4
<1>6. \A j \in GetEdsList(Retain)' :
        \E k \in GetEdsList(Retain)' : j <= k /\ B <= m_eds'[k].time
  BY <1>2, <1>4, <1>5
<1> QED BY <1>1, <1>2, <1>6 DEF HeardSinceLast

LEMMA TickHeard ==
  ASSUME TypeOK, HeardSinceLast, m_eds_hist # << >>, Tick
  PROVE  HeardSinceLast'
<1> DEFINE B == Back(m_eds_hist)
<1>1. now' = now + 1 /\ m_eds' = m_eds /\ m_eds_hist' = m_eds_hist
  BY DEF Tick
<1>2. B <= now /\ B \in Nat /\ now \in Nat /\ Retain \in Nat
  BY WindowTypes DEF HeardSinceLast
<1>3. ASSUME NEW j \in GetEdsList(Retain)'
      PROVE  \E k \in GetEdsList(Retain)' : j <= k /\ B <= m_eds[k].time
  <2>1. /\ j \in DOMAIN m_eds /\ now + 1 < m_eds[j].time + Retain
        /\ j \in Nat /\ m_eds[j].time \in Nat
    BY <1>1, WindowTypes DEF GetEdsList
  <2>2. j \in GetEdsList(Retain)
    BY <2>1, <1>2 DEF GetEdsList
  <2>3. PICK k \in GetEdsList(Retain) : j <= k /\ B <= m_eds[k].time
    BY <2>2 DEF HeardSinceLast
  <2>4. k \in DOMAIN m_eds /\ m_eds[k].time \in Nat
    BY WindowTypes
  <2>5. CASE now + 1 < m_eds[k].time + Retain
    <3>1. k \in GetEdsList(Retain)'
      BY <2>4, <2>5, <1>1 DEF GetEdsList
    <3> QED BY <3>1, <2>3
  <2>6. CASE ~ (now + 1 < m_eds[k].time + Retain)
    <3>1. B <= m_eds[j].time /\ j <= j
      BY <2>1, <2>3, <2>4, <2>6, <1>2
    <3> QED BY <3>1
  <2> QED BY <2>5, <2>6
<1>4. Back(m_eds_hist') <= now'
  BY <1>1, <1>2
<1> QED BY <1>1, <1>3, <1>4 DEF HeardSinceLast

LEMMA UpdateHistoryHeard ==
  ASSUME TypeOK, HeardInPast, HistTimesOrdered, HeardSinceLast,
         NEW l \in DOMAIN nextHist, UpdateHistory(l)
  PROVE  HistTimesOrdered' /\ HeardSinceLast'
<1> DEFINE eds == GetEdsList(Retain)
           c == CenterTime(eds)
           h == PushBounded(m_eds_hist, c, 3)
<1>1. now' = now /\ m_eds' = m_eds /\ eds' = eds
  BY DEF UpdateHistory, GetEdsList
<1>2. CASE eds = {}
  <2>1. m_eds_hist' = m_eds_hist
    BY <1>2 DEF UpdateHistory
  <2> QED BY <2>1, <1>1 DEF HistTimesOrdered, HeardSinceLast
<1>3. CASE eds # {}
  <2>1. m_eds_hist' = h
    BY <1>3 DEF UpdateHistory
  <2>2. PICK last \in eds : (\A j \in eds : j <= last) /\ c = m_eds[last].time /\ c \in Nat
    BY <1>3, WindowTypes, CenterTimeProperties
  <2>3. c <= now
    BY <2>2, WindowTypes DEF HeardInPast
  <2>4. m_eds_hist # << >> => Back(m_eds_hist) <= c
    <3> SUFFICES ASSUME m_eds_hist # << >>
                 PROVE  Back(m_eds_hist) <= c
      OBVIOUS
    <3>1. PICK k \in eds : last <= k /\ Back(m_eds_hist) <= m_eds[k].time
      BY <2>2 DEF HeardSinceLast
    <3>2. k <= last /\ k \in Nat /\ last \in Nat
      BY <2>2, WindowTypes
    <3>3. k = last
      BY <3>1, <3>2
    <3> QED BY <3>1, <3>3, <2>2
  <2>5. /\ h \in Seq(Nat) /\ 1 <= Len(h) /\ Back(h) = c
        /\ \E d \in 0..1 : \A k \in 1..Len(h) - 1 :
             k + d \in 1..Len(m_eds_hist) /\ h[k] = m_eds_hist[k + d]
    BY <2>2, PushHistory
  <2>6. PICK d \in 0..1 : \A k \in 1..Len(h) - 1 :
             k + d \in 1..Len(m_eds_hist) /\ h[k] = m_eds_hist[k + d]
    BY <2>5
  <2> HIDE DEF eds, c, h
  <2>7. \A i, j \in DOMAIN h : i <= j => h[i] <= h[j]
    <3> SUFFICES ASSUME NEW i \in DOMAIN h, NEW j \in DOMAIN h, i <= j
                 PROVE  h[i] <= h[j]
      OBVIOUS
    <3>1. m_eds_hist \in Seq(Nat)
      BY DEF TypeOK
    <3>2. CASE j < Len(h)
      <4>1. i \in 1..Len(h) - 1 /\ j \in 1..Len(h) - 1
        BY <2>5, <3>2
      <4>2. /\ h[i] = m_eds_hist[i + d] /\ h[j] = m_eds_hist[j + d]
            /\ i + d \in 1..Len(m_eds_hist) /\ j + d \in 1..Len(m_eds_hist)
        BY <4>1, <2>6
      <4>3. i + d <= j + d
        BY <4>1
      <4> QED BY <4>2, <4>3, <3>1 DEF HistTimesOrdered
    <3>3. CASE j = Len(h) /\ i < j
      <4>1. i \in 1..Len(h) - 1
        BY <2>5, <3>3
      <4>2. h[i] = m_eds_hist[i + d] /\ i + d \in 1..Len(m_eds_hist)
        BY <4>1, <2>6
      <4>3. m_eds_hist # << >> /\ h[i] <= Back(m_eds_hist) /\ Back(m_eds_hist) \in Nat
        BY <4>2, <3>1 DEF HistTimesOrdered, Back
      <4>4. h[j] = c /\ h[i] \in Nat
        BY <2>5, <3>3, <4>2, <3>1 DEF Back
      <4> QED BY <4>3, <4>4, <2>2, <2>4
    <3>4. CASE i = j
      BY <3>4, <2>5
    <3> QED BY <3>2, <3>3, <3>4, <2>5
  <2>8. HistTimesOrdered'
    BY <2>1, <2>7 DEF HistTimesOrdered
  <2>9. HeardSinceLast'
    BY <2>1, <2>2, <2>3, <2>5, <1>1 DEF HeardSinceLast, eds
  <2> QED BY <2>8, <2>9
<1> QED BY <1>2, <1>3

(* The steps that leave what the window is made of alone. *)
LEMMA SameWindow ==
  ASSUME HeardInPast, HistTimesOrdered, HeardSinceLast,
         UNCHANGED << now, m_eds, m_eds_hist >>
  PROVE  HeardInPast' /\ HistTimesOrdered' /\ HeardSinceLast'
BY DEF HeardInPast, HistTimesOrdered, HeardSinceLast, GetEdsList

LEMMA NextHeardInPast ==
  ASSUME TypeOK, HeardInPast, [Next]_vars
  PROVE  HeardInPast'
<1>1. ASSUME NEW id \in ED, NEW pos \in Position, UpdateList(id, pos)
      PROVE  HeardInPast'
  <2>1. /\ DOMAIN m_eds' = DOMAIN m_eds \cup {id}
        /\ m_eds'[id] = [time |-> now, pos |-> pos]
        /\ \A i \in DOMAIN m_eds : i # id => m_eds'[i] = m_eds[i]
    BY <1>1 DEF UpdateList, Put
  <2>2. now' = now /\ now \in Nat
    BY <1>1 DEF UpdateList, TypeOK
  <2> QED BY <2>1, <2>2 DEF HeardInPast
<1>2. CASE Tick
  <2>1. \A i \in DOMAIN m_eds : m_eds[i].time \in Nat
    BY WindowTypes
  <2> QED BY <1>2, <2>1 DEF Tick, TypeOK, HeardInPast
<1>3. CASE UNCHANGED << now, m_eds >>
  BY <1>3 DEF HeardInPast
<1>4. CASE \E l \in DOMAIN nextHist : UpdateHistory(l)
  BY <1>4, <1>3 DEF UpdateHistory
<1>5. CASE RoundWithoutClusters \/ RoundDirection \/ RoundKmeans
  BY <1>5, <1>3 DEF RoundWithoutClusters, RoundDirection, RoundKmeans, StartRound
<1> QED BY <1>1, <1>2, <1>3, <1>4, <1>5 DEF Next, vars

HistoryInv == TypeOK /\ HeardInPast /\ HistTimesOrdered /\ HeardSinceLast

LEMMA NextHistory == HistoryInv /\ [Next]_vars => HistoryInv'
<1> SUFFICES ASSUME TypeOK, HeardInPast, HistTimesOrdered, HeardSinceLast, [Next]_vars
             PROVE  TypeOK' /\ HeardInPast' /\ HistTimesOrdered' /\ HeardSinceLast'
  BY DEF HistoryInv
<1>1. TypeOK' /\ HeardInPast'
  BY NextType, NextHeardInPast
<1>2. CASE \E id \in ED, pos \in Position : UpdateList(id, pos)
  <2>1. m_eds_hist' = m_eds_hist
    BY <1>2 DEF UpdateList
  <2>2. HeardSinceLast'
    BY <1>2, <2>1, UpdateListHeard DEF HeardSinceLast
  <2> QED BY <1>1, <2>1, <2>2 DEF HistTimesOrdered
<1>3. CASE \E l \in DOMAIN nextHist : UpdateHistory(l)
  BY <1>1, <1>3, UpdateHistoryHeard
<1>4. CASE RoundWithoutClusters \/ RoundDirection \/ RoundKmeans
  <2>1. UNCHANGED << now, m_eds, m_eds_hist >>
    BY <1>4 DEF RoundWithoutClusters, RoundDirection, RoundKmeans, StartRound
  <2> QED BY <1>1, <2>1, SameWindow
<1>5. CASE Tick
  <2>1. m_eds_hist' = m_eds_hist
    BY <1>5 DEF Tick
  <2>2. HeardSinceLast'
    BY <1>5, <2>1, TickHeard DEF HeardSinceLast
  <2> QED BY <1>1, <2>1, <2>2 DEF HistTimesOrdered
<1>6. CASE UNCHANGED vars
  BY <1>1, <1>6, SameWindow DEF vars
<1> QED BY <1>2, <1>3, <1>4, <1>5, <1>6 DEF Next

(* The centres of mass are kept in the order of their times, although each *)
(* has the time of the ED with the largest id and not of the one heard     *)
(* last, and whichever of two history tasks pushes it.                     *)
THEOREM HistIsOrdered == Spec => []HistTimesOrdered
<1>1. Init => HistoryInv
  <2>1. Init => HeardInPast /\ HistTimesOrdered /\ HeardSinceLast
    BY DEF Init, HeardInPast, HistTimesOrdered, HeardSinceLast
  <2> QED BY <2>1, InitType DEF HistoryInv
<1>2. HistoryInv => HistTimesOrdered
  BY DEF HistoryInv
<1> QED BY <1>1, <1>2, NextHistory, PTL DEF Spec

-----------------------------------------------------------------------------
(* The prediction by k-means.  With equal tolerances the EDs that stay     *)
(* among the lost ones have a single sample: those with two are filtered   *)
(* in the round that moves them there.                                     *)
NoTracks ==
  m_predictionMode = 3 /\ LostTolKmeans >= FilterTol =>
    /\ \A i \in DOMAIN m_eds_lost : Len(m_eds_lost[i]) < 2
    /\ clusters = {}

LEMMA RoundKmeansNoTracks ==
  ASSUME TypeOK, NoTracks, RoundKmeans
  PROVE  NoTracks'
<1> SUFFICES ASSUME m_predictionMode = 3, LostTolKmeans >= FilterTol
             PROVE  /\ \A i \in DOMAIN m_eds_lost' : Len(m_eds_lost'[i]) < 2
                    /\ clusters' = {}
  BY DEF RoundKmeans, StartRound, NoTracks
<1> DEFINE lost == LostAfterUpdate(LostTol)
<1>1. /\ LostTol = LostTolKmeans
      /\ LostTol \in Nat /\ FilterTol \in Nat /\ FilterTol <= LostTol /\ now \in Nat
  BY TimeAssumption DEF LostTol, TypeOK
<1>2. m_eds_lost' = Erase(lost, Filtered(lost, InterTol, FilterTol))
  BY DEF RoundKmeans, MoveLost
<1>3. ASSUME NEW i \in Silent(LostTol), Len(lost[i]) >= 2
      PROVE  i \in Filtered(lost, InterTol, FilterTol)
  <2>1. /\ i \in DOMAIN m_eds_single_hist /\ i \in DOMAIN lost
        /\ lost[i] = m_eds_single_hist[i]
        /\ Back(lost[i]).time < now - LostTol
    BY DEF LostAfterUpdate, Silent
  <2>2. Back(lost[i]) \in Entry
    <3>1. /\ m_eds_single_hist[i] \in Seq(Entry)
          /\ 1 <= Len(m_eds_single_hist[i])
      BY <2>1 DEF TypeOK, OneOrTwo
    <3> QED BY <2>1, <3>1 DEF Back
  <2>3. Back(lost[i]).time \in Nat
    BY <2>2 DEF Entry
  <2>4. now - Back(lost[i]).time > FilterTol
    BY <2>1, <2>3, <1>1
  <2> QED BY <1>3, <2>1, <2>4 DEF Filtered
<1>4. ASSUME NEW i \in DOMAIN m_eds_lost'
      PROVE  Len(m_eds_lost'[i]) < 2
  <2>1. /\ i \in DOMAIN lost /\ i \notin Filtered(lost, InterTol, FilterTol)
        /\ m_eds_lost'[i] = lost[i]
    BY <1>2 DEF Erase
  <2>2. CASE i \in Silent(LostTol)
    <3>1. ~ (Len(lost[i]) >= 2)
      BY <1>3, <2>1, <2>2
    <3>2. Len(lost[i]) \in Nat
      BY <2>2 DEF LostAfterUpdate, Silent, TypeOK
    <3> QED BY <3>1, <3>2, <2>1
  <2>3. CASE i \notin Silent(LostTol)
    BY <2>1, <2>3 DEF LostAfterUpdate, NoTracks
  <2> QED BY <2>2, <2>3
<1>5. \A ids : ids \subseteq DOMAIN m_eds_lost' => Tracked(m_eds_lost', ids) = {}
  <2>1. \A i \in DOMAIN m_eds_lost' : ~ (Len(m_eds_lost'[i]) >= 2)
    <3>1. \A i \in DOMAIN m_eds_lost' : Len(m_eds_lost'[i]) \in Nat
      BY MoveLostType DEF RoundKmeans, OneOrTwo
    <3> QED BY <1>4, <3>1
  <2> QED BY <2>1 DEF Tracked
<1>6. clusters' = {}
  <2>1. PICK k \in KmeansSizes(m_eds_lost') :
          \E group \in [DOMAIN m_eds_lost' -> 0 .. k - 1] :
            \E reported \in SUBSET {g \in 0 .. k - 1 :
                                      Tracked(m_eds_lost', GroupOf(group, g)) # {}} :
              clusters' = {ClusterOfGroup(m_eds_lost', GroupOf(group, g)) : g \in reported}
    BY DEF RoundKmeans
  <2>2. PICK group \in [DOMAIN m_eds_lost' -> 0 .. k - 1] :
          \E reported \in SUBSET {g \in 0 .. k - 1 :
                                    Tracked(m_eds_lost', GroupOf(group, g)) # {}} :
            clusters' = {ClusterOfGroup(m_eds_lost', GroupOf(group, g)) : g \in reported}
    BY <2>1
  <2>3. \A g : Tracked(m_eds_lost', GroupOf(group, g)) = {}
    BY <1>5 DEF GroupOf
  <2> QED BY <2>2, <2>3
<1> QED BY <1>4, <1>6

LEMMA NextNoTracks == TypeOK /\ NoTracks /\ [Next]_vars => NoTracks'
<1> SUFFICES ASSUME TypeOK, NoTracks, [Next]_vars
             PROVE  NoTracks'
  OBVIOUS
<1>1. CASE UNCHANGED << m_predictionMode, m_eds_lost, clusters >>
  BY <1>1 DEF NoTracks
<1>2. CASE RoundKmeans
  BY <1>2, RoundKmeansNoTracks
<1>3. CASE RoundDirection
  BY <1>3 DEF RoundDirection, StartRound, NoTracks
<1>4. CASE RoundWithoutClusters
  BY <1>4, <1>1 DEF RoundWithoutClusters, StartRound
<1>5. CASE Tick \/ \E l \in DOMAIN nextHist : UpdateHistory(l)
  BY <1>5, <1>1 DEF Tick, UpdateHistory
<1>6. CASE \E id \in ED, pos \in Position : UpdateList(id, pos)
  BY <1>6, <1>1 DEF UpdateList
<1> QED BY <1>1, <1>2, <1>3, <1>4, <1>5, <1>6 DEF Next, vars

(* With a tolerance for losing an ED no smaller than the one for           *)
(* forgetting it, as in the code, the k-means prediction reports nothing.  *)
THEOREM KmeansReportsNothing == Spec => []KmeansBlind
<1>1. Init => TypeOK /\ NoTracks
  <2>1. Init => NoTracks
    BY DEF Init, NoTracks
  <2> QED BY <2>1, InitType
<1>2. (TypeOK /\ NoTracks) /\ [Next]_vars => (TypeOK /\ NoTracks)'
  BY NextType, NextNoTracks
<1>3. NoTracks => KmeansBlind
  BY DEF NoTracks, KmeansBlind
<1> QED BY <1>1, <1>2, <1>3, PTL DEF Spec

-----------------------------------------------------------------------------
(* The token of a UAV.  What makes TokenSourceFresh inductive is the step  *)
(* of the two tasks: both fall due at once, and the history task runs      *)
(* first.                                                                  *)
TasksInStep ==
  /\ now <= nextRound
  /\ \A l \in DOMAIN nextHist :
       /\ nextHist[l] \in {nextRound, nextRound + HistPeriod}
       /\ now < nextRound => nextHist[l] = nextRound

LEMMA NextExpiry ==
  ASSUME TypeOK
  PROVE  /\ now \in Nat /\ nextRound \in Nat
         /\ \A l \in DOMAIN nextHist : nextHist[l] \in Nat
BY DEF TypeOK

LEMMA UpdateHistorySource ==
  ASSUME TypeOK, TasksInStep, NEW l \in DOMAIN nextHist, UpdateHistory(l)
  PROVE  TasksInStep' /\ TokenSourceFresh'
<1>1. now = nextRound /\ now' = now /\ nextRound' = nextRound
  <2>1. nextHist[l] = now
    BY DEF UpdateHistory
  <2> QED BY <2>1, NextExpiry, TimeAssumption DEF TasksInStep, UpdateHistory
<1>2. TasksInStep'
  <2>1. nextHist' = [nextHist EXCEPT ![l] = now + HistPeriod]
    BY DEF UpdateHistory
  <2> QED BY <1>1, <2>1, NextExpiry DEF TasksInStep
<1>3. TokenSourceFresh'
  <2> DEFINE eds == GetEdsList(Retain)
  <2>1. eds' = eds
    BY DEF UpdateHistory, GetEdsList
  <2> SUFFICES ASSUME eds # {}
               PROVE  m_eds_hist' # << >> /\ now' < Back(m_eds_hist') + Retain
    BY <2>1 DEF TokenSourceFresh
  <2>2. eds \subseteq DOMAIN m_eds /\ \A j \in eds : now < m_eds[j].time + Retain
    BY DEF GetEdsList
  <2>3. m_eds_hist' = PushBounded(m_eds_hist, CenterTime(eds), 3)
    BY DEF UpdateHistory
  <2> HIDE DEF eds
  <2>4. CenterTime(eds) \in Nat /\ now < CenterTime(eds) + Retain
    BY <2>2, CenterTimeProperties
  <2>5. Len(m_eds_hist') >= 1 /\ Back(m_eds_hist') = CenterTime(eds)
    BY <2>3, <2>4, PushHistory
  <2>6. m_eds_hist' # << >>
    BY <2>5
  <2> QED BY <1>1, <2>4, <2>5, <2>6
<1> QED BY <1>2, <1>3

LEMMA NextSource ==
  ASSUME ModeTime = HistPeriod
  PROVE  TypeOK /\ TasksInStep /\ TokenSourceFresh /\ [Next]_vars
           => TasksInStep' /\ TokenSourceFresh'
<1> SUFFICES ASSUME TypeOK, TasksInStep, TokenSourceFresh, [Next]_vars
             PROVE  TasksInStep' /\ TokenSourceFresh'
  OBVIOUS
<1>1. CASE \E id \in ED, pos \in Position : UpdateList(id, pos)
  BY <1>1 DEF UpdateList, TimerDue, RoundDue, TasksInStep, TokenSourceFresh
<1>2. CASE \E l \in DOMAIN nextHist : UpdateHistory(l)
  BY <1>2, UpdateHistorySource
<1>3. CASE RoundWithoutClusters \/ RoundDirection \/ RoundKmeans
  <2>1. /\ now = nextRound /\ now' = now /\ nextHist' = nextHist
        /\ nextRound' = now + HistPeriod
        /\ \A l \in DOMAIN nextHist : nextHist[l] # now
    BY <1>3 DEF RoundWithoutClusters, RoundDirection, RoundKmeans, StartRound,
                RoundDue, HistDue
  <2>2. TasksInStep'
    BY <2>1, NextExpiry, TimeAssumption DEF TasksInStep
  <2>3. ~ RoundDue'
    BY <2>1, NextExpiry, TimeAssumption DEF RoundDue
  <2> QED BY <2>2, <2>3 DEF TokenSourceFresh
<1>4. CASE Tick
  <2>1. /\ now' = now + 1 /\ nextRound' = nextRound /\ nextHist' = nextHist
        /\ now # nextRound
    BY <1>4 DEF Tick, TimerDue, RoundDue
  <2>2. now < nextRound /\ \A l \in DOMAIN nextHist : nextHist[l] = nextRound
    BY <2>1, NextExpiry DEF TasksInStep
  <2>3. TasksInStep'
    BY <2>1, <2>2, NextExpiry DEF TasksInStep
  <2>4. RoundDue' => HistDue'
    <3>1. 1 \in DOMAIN nextHist
      BY DEF TypeOK, OneOrTwo
    <3> QED BY <2>1, <2>2, <3>1 DEF RoundDue, HistDue
  <2> QED BY <2>3, <2>4 DEF TokenSourceFresh
<1>5. CASE UNCHANGED vars
  BY <1>5 DEF vars, TasksInStep, TokenSourceFresh, RoundDue, HistDue, GetEdsList
<1> QED BY <1>1, <1>2, <1>3, <1>4, <1>5 DEF Next

(* A token has a source: if the control round and the history task have    *)
(* one period, as in the scenarios that run this model, GenerateToken finds*)
(* a centre of mass less than Retain old whenever an ED is covered,        *)
(* whatever was heard in between.                                          *)
THEOREM TokenHasSource ==
  ASSUME ModeTime = HistPeriod
  PROVE  Spec => []TokenSourceFresh
<1>1. Init => TypeOK /\ TasksInStep /\ TokenSourceFresh
  <2>1. Init => TasksInStep
    BY TimeAssumption DEF Init, TasksInStep
  <2>2. Init => TokenSourceFresh
    BY DEF Init, TokenSourceFresh, GetEdsList
  <2> QED BY <2>1, <2>2, InitType
<1>2. TypeOK /\ TasksInStep /\ TokenSourceFresh /\ [Next]_vars
        => (TypeOK /\ TasksInStep /\ TokenSourceFresh)'
  BY NextType, NextSource
<1> QED BY <1>1, <1>2, PTL DEF Spec

-----------------------------------------------------------------------------
(* Every non-empty set of naturals has a least element. *)
LEMMA Least ==
  ASSUME NEW T, T \subseteq Nat, T # {}
  PROVE  \E n \in T : \A k \in T : n <= k
<1> DEFINE R == {ss \in Nat \X Nat : ss[1] < ss[2]}
<1>1. IsWellFoundedOn(R, Nat)
  BY NatLessThanWellFounded DEF OpToRel
<1>2. PICK n \in T : \A k \in T : ~ (<<k, n>> \in R)
  <2> HIDE DEF R
  <2> QED BY <1>1, WFMin
<1>3. \A k \in T : k < n => <<k, n>> \in R
  OBVIOUS
<1>4. \A k \in T : ~ (k < n)
  BY <1>2, <1>3
<1> QED BY <1>4

LEMMA Greatest ==
  ASSUME NEW T, T \subseteq Nat, T # {}, NEW n \in Nat, \A k \in T : k <= n
  PROVE  \E m \in T : \A k \in T : k <= m
<1> DEFINE D == {d \in Nat : \E k \in T : d = n - k}
<1>1. \A k \in T : n - k \in D
  OBVIOUS
<1>2. D # {} /\ D \subseteq Nat
  BY <1>1
<1>3. PICK d \in D : \A e \in D : d <= e
  <2> HIDE DEF D
  <2> QED BY <1>2, Least
<1>4. PICK m \in T : d = n - m
  BY <1>3
<1>5. ASSUME NEW k \in T
      PROVE  k <= m
  <2>1. d <= n - k
    BY <1>1, <1>3
  <2> QED BY <2>1, <1>4
<1> QED BY <1>5

(* The member whose track a direction reports is one of its members. *)
LEMMA FirstOfMember ==
  ASSUME NEW S, S \subseteq ED, S # {}
  PROVE  FirstOf(S) \in S
<1>1. \E i \in S : \A j \in S : i <= j
  BY Least, IdAssumption
<1> QED BY <1>1 DEF FirstOf

(* The evidence for a cluster.  A lost ED stays lost for longer than the   *)
(* tolerance; what the filter leaves of those with two samples is young    *)
(* enough, and a cluster lives from one round to the next.                 *)
LostAged ==
  \A i \in DOMAIN m_eds_lost :
    /\ Back(m_eds_lost[i]).time + LostTol < now
    /\ Len(m_eds_lost[i]) = 2 =>
         Back(m_eds_lost[i]).time - Head(m_eds_lost[i]).time <= InterTol

ClustersAged ==
  /\ m_predictionMode \in {0, 1} => clusters = {}
  /\ \A c \in clusters :
       /\ c.lastTime \in Nat
       /\ c.lastTime + LostTol < now
       /\ nextRound <= c.lastTime + FilterTol + ModeTime

EvidenceInv == TypeOK /\ now <= nextRound /\ LostAged /\ ClustersAged

LEMMA EvidenceSuffices == EvidenceInv => ClusterEvidence
<1> SUFFICES ASSUME EvidenceInv, NEW c \in clusters
             PROVE  /\ now - c.lastTime \in LostTol + 1 .. FilterTol + ModeTime
                    /\ \A i \in c.members \cap DOMAIN m_eds_lost :
                         Len(m_eds_lost[i]) = 2 =>
                           Back(m_eds_lost[i]).time - Head(m_eds_lost[i]).time <= InterTol
  BY DEF ClusterEvidence
<1>1. now \in Nat /\ nextRound \in Nat /\ now <= nextRound
  BY NextExpiry DEF EvidenceInv
<1>2. /\ c.lastTime \in Nat
      /\ c.lastTime + LostTol < now
      /\ nextRound <= c.lastTime + FilterTol + ModeTime
  BY DEF EvidenceInv, ClustersAged
<1>3. LostTol \in Nat /\ FilterTol \in Nat /\ ModeTime \in Nat
  BY LostTolCoversRetain, TimeAssumption
<1>4. now - c.lastTime \in LostTol + 1 .. FilterTol + ModeTime
  BY <1>1, <1>2, <1>3
<1> QED BY <1>4 DEF EvidenceInv, LostAged

LEMMA QueueTimes ==
  ASSUME NEW q \in Seq(Entry), OneOrTwo(q)
  PROVE  /\ Back(q) \in Entry /\ Back(q).time \in Nat
         /\ Head(q) \in Entry /\ Head(q).time \in Nat
         /\ Len(q) \in Nat /\ Len(q) <= 2
<1>1. Len(q) \in Nat /\ 1 <= Len(q) /\ Len(q) <= 2
  BY DEF OneOrTwo
<1>2. q[1] \in Entry /\ q[Len(q)] \in Entry
  BY <1>1
<1>3. Head(q) = q[1]
  BY <1>1
<1>4. Back(q) \in Entry
  BY <1>2 DEF Back
<1>5. Head(q) \in Entry
  BY <1>2, <1>3
<1> QED BY <1>1, <1>4, <1>5 DEF Entry

(* What a round leaves among the lost EDs. *)
LEMMA MoveLostAged ==
  ASSUME TypeOK, LostAged, MoveLost,
         now' = now, m_predictionMode' = m_predictionMode
  PROVE  /\ LostAged'
         /\ \A i \in DOMAIN m_eds_lost' :
              /\ Back(m_eds_lost'[i]).time \in Nat
              /\ Back(m_eds_lost'[i]).time + LostTol < now
              /\ Len(m_eds_lost'[i]) >= 2 => now <= Back(m_eds_lost'[i]).time + FilterTol
<1> DEFINE lost == LostAfterUpdate(LostTol)
<1>1. LostTol' = LostTol /\ LostTol \in Nat /\ now \in Nat /\ InterTol \in Nat /\ FilterTol \in Nat
  BY LostTolCoversRetain, NextExpiry, TimeAssumption DEF LostTol
<1>2. m_eds_lost' = Erase(lost, Filtered(lost, InterTol, FilterTol))
  BY DEF MoveLost
<1>3. ASSUME NEW i \in DOMAIN m_eds_lost'
      PROVE  /\ Back(m_eds_lost'[i]).time \in Nat
             /\ Back(m_eds_lost'[i]).time + LostTol < now
             /\ Len(m_eds_lost'[i]) >= 2 => now <= Back(m_eds_lost'[i]).time + FilterTol
             /\ Len(m_eds_lost'[i]) = 2 =>
                  Back(m_eds_lost'[i]).time - Head(m_eds_lost'[i]).time <= InterTol
  <2> DEFINE q == m_eds_lost'[i]
  <2>1. /\ i \in DOMAIN lost /\ q = lost[i]
        /\ i \notin Filtered(lost, InterTol, FilterTol)
    BY <1>2 DEF Erase
  <2>2. q \in Seq(Entry) /\ OneOrTwo(q)
    BY MoveLostType
  <2>3. Back(q).time + LostTol < now
    <3>1. CASE i \in Silent(LostTol)
      <4>1. q = m_eds_single_hist[i] /\ Back(q).time < now - LostTol
        BY <2>1, <3>1 DEF LostAfterUpdate, Silent
      <4> QED BY <4>1, <2>2, QueueTimes, <1>1
    <3>2. CASE i \notin Silent(LostTol)
      <4>1. i \in DOMAIN m_eds_lost /\ q = m_eds_lost[i]
        BY <2>1, <3>2 DEF LostAfterUpdate
      <4> QED BY <4>1 DEF LostAged
    <3> QED BY <3>1, <3>2
  <2>4. Len(q) >= 2 =>
          /\ ~ (now - Back(q).time > FilterTol)
          /\ ~ (Back(q).time - Head(q).time > InterTol)
    BY <2>1 DEF Filtered
  <2> HIDE DEF q, lost
  <2>5. /\ Back(q).time \in Nat /\ Head(q).time \in Nat /\ Len(q) \in Nat
    BY <2>2, QueueTimes
  <2>6. Len(q) >= 2 => now <= Back(q).time + FilterTol
    BY <2>4, <2>5, <1>1
  <2>7. Len(q) = 2 => Back(q).time - Head(q).time <= InterTol
    BY <2>4, <2>5, <1>1
  <2> QED BY <2>3, <2>5, <2>6, <2>7 DEF q
<1>4. LostAged'
  BY <1>1, <1>3 DEF LostAged
<1> QED BY <1>3, <1>4

LEMMA RoundDirectionEvidence ==
  ASSUME EvidenceInv, RoundDirection
  PROVE  LostAged' /\ ClustersAged'
<1>1. /\ now' = now /\ m_predictionMode' = m_predictionMode
      /\ nextRound' = now + ModeTime /\ MoveLost
      /\ LostTol' = LostTol /\ m_predictionMode = 2
  BY DEF RoundDirection, StartRound, LostTol
<1>2. /\ LostAged'
      /\ \A i \in DOMAIN m_eds_lost' :
           /\ Back(m_eds_lost'[i]).time \in Nat
           /\ Back(m_eds_lost'[i]).time + LostTol < now
           /\ Len(m_eds_lost'[i]) >= 2 => now <= Back(m_eds_lost'[i]).time + FilterTol
  BY <1>1, MoveLostAged DEF EvidenceInv
<1>3. ASSUME NEW c \in clusters'
      PROVE  \E i \in DOMAIN m_eds_lost' :
               Len(m_eds_lost'[i]) >= 2 /\ c.lastTime = Back(m_eds_lost'[i]).time
  <2>1. PICK s \in 0..7 : /\ Cardinality(Members(m_eds_lost', s)) >= MinCluster
                          /\ c = ClusterInfoOf(m_eds_lost', s)
    BY DEF RoundDirection, GetClusterInfo
  <2> DEFINE M == Members(m_eds_lost', s)
  <2>2. M # {}
    BY <2>1, FS_EmptySet, TimeAssumption
  <2>3. M \subseteq ED
    BY <1>1, MoveLostType DEF EvidenceInv, Members
  <2>4. FirstOf(M) \in M
    <3> HIDE DEF M
    <3> QED BY <2>2, <2>3, FirstOfMember
  <2>5. c.lastTime = Back(m_eds_lost'[FirstOf(M)]).time
    BY <2>1 DEF ClusterInfoOf
  <2> QED BY <2>4, <2>5 DEF Members
<1>4. now \in Nat /\ FilterTol \in Nat /\ ModeTime \in Nat /\ LostTol \in Nat
  BY NextExpiry, TimeAssumption, LostTolCoversRetain DEF EvidenceInv
<1>5. ASSUME NEW c \in clusters'
      PROVE  /\ c.lastTime \in Nat
             /\ c.lastTime + LostTol < now
             /\ now + ModeTime <= c.lastTime + FilterTol + ModeTime
  <2>1. PICK i \in DOMAIN m_eds_lost' :
               Len(m_eds_lost'[i]) >= 2 /\ c.lastTime = Back(m_eds_lost'[i]).time
    BY <1>3
  <2> QED BY <2>1, <1>2, <1>4
<1>6. ClustersAged'
  BY <1>1, <1>5 DEF ClustersAged
<1> QED BY <1>2, <1>6

(* The newest of the last receptions of a group of lost EDs. *)
LEMMA LatestOfProperties ==
  ASSUME NEW lost, NEW ids, ids # {},
         NEW n \in Nat,
         \A i \in ids : Back(lost[i]).time \in Nat /\ Back(lost[i]).time <= n
  PROVE  /\ \E i \in ids : LatestOf(lost, ids) = Back(lost[i]).time
         /\ \A i \in ids : Back(lost[i]).time <= LatestOf(lost, ids)
<1> DEFINE t == {Back(lost[i]).time : i \in ids}
<1>1. t # {} /\ t \subseteq Nat /\ \A x \in t : x <= n
  OBVIOUS
<1> HIDE DEF t
<1>2. \E y \in t : \A x \in t : x <= y
  BY <1>1, Greatest
<1>3. LatestOf(lost, ids) \in t /\ \A x \in t : x <= LatestOf(lost, ids)
  BY <1>2 DEF LatestOf, t
<1> QED BY <1>3 DEF t

LEMMA RoundKmeansEvidence ==
  ASSUME EvidenceInv, RoundKmeans
  PROVE  LostAged' /\ ClustersAged'
<1>1. /\ now' = now /\ m_predictionMode' = m_predictionMode
      /\ nextRound' = now + ModeTime /\ MoveLost
      /\ LostTol' = LostTol /\ m_predictionMode = 3
  BY DEF RoundKmeans, StartRound, LostTol
<1>2. /\ LostAged'
      /\ \A i \in DOMAIN m_eds_lost' :
           /\ Back(m_eds_lost'[i]).time \in Nat
           /\ Back(m_eds_lost'[i]).time + LostTol < now
           /\ Len(m_eds_lost'[i]) >= 2 => now <= Back(m_eds_lost'[i]).time + FilterTol
  BY <1>1, MoveLostAged DEF EvidenceInv
<1>3. now \in Nat /\ FilterTol \in Nat /\ ModeTime \in Nat /\ LostTol \in Nat
  BY NextExpiry, TimeAssumption, LostTolCoversRetain DEF EvidenceInv
<1>4. ASSUME NEW c \in clusters'
      PROVE  \E ids \in SUBSET DOMAIN m_eds_lost' :
               /\ Tracked(m_eds_lost', ids) # {}
               /\ c = ClusterOfGroup(m_eds_lost', ids)
  <2>1. PICK k \in KmeansSizes(m_eds_lost') :
          \E group \in [DOMAIN m_eds_lost' -> 0 .. k - 1] :
            \E reported \in SUBSET {g \in 0 .. k - 1 :
                                      Tracked(m_eds_lost', GroupOf(group, g)) # {}} :
              clusters' = {ClusterOfGroup(m_eds_lost', GroupOf(group, g)) : g \in reported}
    BY DEF RoundKmeans
  <2>2. PICK group \in [DOMAIN m_eds_lost' -> 0 .. k - 1] :
          \E reported \in SUBSET {g \in 0 .. k - 1 :
                                    Tracked(m_eds_lost', GroupOf(group, g)) # {}} :
            clusters' = {ClusterOfGroup(m_eds_lost', GroupOf(group, g)) : g \in reported}
    BY <2>1
  <2>3. \A g : GroupOf(group, g) \in SUBSET DOMAIN m_eds_lost'
    BY <2>2 DEF GroupOf
  <2> QED BY <2>2, <2>3
<1>5. ASSUME NEW c \in clusters'
      PROVE  /\ c.lastTime \in Nat
             /\ c.lastTime + LostTol < now
             /\ now + ModeTime <= c.lastTime + FilterTol + ModeTime
  <2>1. PICK ids \in SUBSET DOMAIN m_eds_lost' :
               /\ Tracked(m_eds_lost', ids) # {}
               /\ c = ClusterOfGroup(m_eds_lost', ids)
    BY <1>4
  <2>2. c.lastTime = LatestOf(m_eds_lost', ids)
    BY <2>1 DEF ClusterOfGroup
  <2>3. PICK i \in ids : Len(m_eds_lost'[i]) >= 2
    BY <2>1 DEF Tracked
  <2>4. \A j \in ids : Back(m_eds_lost'[j]).time \in Nat /\ Back(m_eds_lost'[j]).time <= now
    BY <1>2, <1>3
  <2>5. /\ \E j \in ids : c.lastTime = Back(m_eds_lost'[j]).time
        /\ Back(m_eds_lost'[i]).time <= c.lastTime
    BY <2>2, <2>3, <2>4, <1>3, LatestOfProperties
  <2>6. c.lastTime \in Nat /\ c.lastTime + LostTol < now
    BY <2>5, <1>2
  <2>7. now <= Back(m_eds_lost'[i]).time + FilterTol /\ Back(m_eds_lost'[i]).time \in Nat
    BY <2>3, <1>2
  <2> QED BY <2>5, <2>6, <2>7, <1>3
<1>6. ClustersAged'
  BY <1>1, <1>5 DEF ClustersAged
<1> QED BY <1>2, <1>6

LEMMA NextEvidence == EvidenceInv /\ [Next]_vars => EvidenceInv'
<1> SUFFICES ASSUME EvidenceInv, [Next]_vars
             PROVE  now' <= nextRound' /\ LostAged' /\ ClustersAged'
  BY NextType DEF EvidenceInv
<1>1. CASE UNCHANGED << m_predictionMode, now, m_eds_lost, clusters, nextRound >>
  BY <1>1 DEF EvidenceInv, LostAged, ClustersAged, LostTol
<1>2. CASE RoundWithoutClusters \/ RoundDirection \/ RoundKmeans
  <2>1. now' = now /\ nextRound' = now + ModeTime /\ nextRound = now
        /\ m_predictionMode' = m_predictionMode
    BY <1>2 DEF RoundWithoutClusters, RoundDirection, RoundKmeans, StartRound, RoundDue
  <2>2. now' <= nextRound'
    BY <2>1, NextExpiry, TimeAssumption DEF EvidenceInv
  <2>3. CASE RoundWithoutClusters
    <3>1. clusters' = {} /\ clusters = {} /\ m_eds_lost' = m_eds_lost
      BY <2>3 DEF RoundWithoutClusters, EvidenceInv, ClustersAged
    <3> QED BY <2>1, <2>2, <3>1 DEF EvidenceInv, LostAged, ClustersAged, LostTol
  <2> QED BY <2>2, <2>3, <1>2, RoundDirectionEvidence, RoundKmeansEvidence
<1>3. CASE Tick
  <2>1. now' = now + 1 /\ now # nextRound
        /\ UNCHANGED << m_predictionMode, m_eds_lost, clusters, nextRound >>
    BY <1>3 DEF Tick, TimerDue, RoundDue
  <2>2. now \in Nat /\ nextRound \in Nat /\ LostTol' = LostTol /\ LostTol \in Nat
    BY <2>1, NextExpiry, LostTolCoversRetain DEF EvidenceInv, LostTol
  <2>3. now' <= nextRound'
    BY <2>1, <2>2 DEF EvidenceInv
  <2>4. \A i \in DOMAIN m_eds_lost : Back(m_eds_lost[i]).time \in Nat
    BY QueueTimes DEF EvidenceInv, TypeOK
  <2>5. LostAged'
    BY <2>1, <2>2, <2>4 DEF EvidenceInv, LostAged
  <2>6. ClustersAged'
    BY <2>1, <2>2 DEF EvidenceInv, ClustersAged
  <2> QED BY <2>3, <2>5, <2>6
<1>4. CASE \E id \in ED, pos \in Position : UpdateList(id, pos)
  BY <1>4, <1>1 DEF UpdateList
<1>5. CASE \E l \in DOMAIN nextHist : UpdateHistory(l)
  BY <1>5, <1>1 DEF UpdateHistory
<1>6. CASE UNCHANGED vars
  BY <1>6, <1>1 DEF vars
<1> QED BY <1>2, <1>3, <1>4, <1>5, <1>6 DEF Next

(* A cluster is reported on evidence of a loss: in both predictions its    *)
(* time is that of a reception older than the lost tolerance and at most   *)
(* FilterTol old when the round ran.                                       *)
THEOREM ClustersHaveEvidence == Spec => []ClusterEvidence
<1>1. Init => EvidenceInv
  <2>1. Init => now <= nextRound /\ LostAged /\ ClustersAged
    BY DEF Init, LostAged, ClustersAged
  <2> QED BY <2>1, InitType DEF EvidenceInv
<1> QED BY <1>1, NextEvidence, EvidenceSuffices, PTL DEF Spec

-----------------------------------------------------------------------------
(* A usable track reaches the clusters.  The filter could take a track in  *)
(* the round that declares its ED lost, if a round came so late that the   *)
(* track is older than FilterTol: what excludes it is that the round       *)
(* before found the ED heard less than the tolerance ago.                  *)
TracksYoung ==
  /\ now <= nextRound /\ nextRound <= now + ModeTime
  /\ m_predictionMode = 2 =>
       \A i \in DOMAIN m_eds_single_hist :
         nextRound <= Back(m_eds_single_hist[i]).time + LostTolDir + ModeTime

LEMMA TrackTimes ==
  ASSUME TypeOK, NEW i \in DOMAIN m_eds_single_hist
  PROVE  /\ m_eds_single_hist[i] \in Seq(Entry)
         /\ OneOrTwo(m_eds_single_hist[i])
         /\ Back(m_eds_single_hist[i]).time \in Nat
         /\ Head(m_eds_single_hist[i]).time \in Nat
<1>1. m_eds_single_hist[i] \in Seq(Entry) /\ OneOrTwo(m_eds_single_hist[i])
  BY DEF TypeOK
<1> QED BY <1>1, QueueTimes

LEMMA UpdateListYoung ==
  ASSUME TypeOK, TracksYoung, NEW id \in ED, NEW pos \in Position, UpdateList(id, pos)
  PROVE  TracksYoung'
<1>1. /\ UNCHANGED << m_predictionMode, now, nextRound >>
      /\ id \in DOMAIN m_eds_single_hist' /\ m_eds'[id].time = now
      /\ \A i \in DOMAIN m_eds_single_hist' :
           i # id => /\ i \in DOMAIN m_eds_single_hist
                     /\ m_eds_single_hist'[i] = m_eds_single_hist[i]
  BY DEF UpdateList, Put
<1>2. Back(m_eds_single_hist'[id]).time = now
  <2> DEFINE e == [time |-> now, pos |-> pos]
             q == IF id \in DOMAIN m_eds_single_hist
                  THEN PushBounded(m_eds_single_hist[id], e, 2)
                  ELSE <<e>>
  <2>1. m_eds_single_hist'[id] = q
    BY DEF UpdateList, Put
  <2>2. e \in Entry /\ e.time = now
    BY DEF Entry, TypeOK
  <2>3. CASE id \in DOMAIN m_eds_single_hist
    <3>1. m_eds_single_hist[id] \in Seq(Entry) /\ Len(m_eds_single_hist[id]) <= 2
      BY <2>3, TrackTimes DEF OneOrTwo
    <3>2. q = PushBounded(m_eds_single_hist[id], e, 2)
      BY <2>3
    <3> HIDE DEF e, q
    <3>3. Back(q) = e
      BY <2>2, <3>1, <3>2, PushBoundedProperties
    <3> QED BY <2>1, <2>2, <3>3
  <2>4. CASE id \notin DOMAIN m_eds_single_hist
    <3>1. q = <<e>>
      BY <2>4
    <3> HIDE DEF e, q
    <3> QED BY <2>1, <2>2, <3>1 DEF Back
  <2> QED BY <2>3, <2>4
<1>3. nextRound <= now + LostTolDir + ModeTime
  BY NextExpiry, TimeAssumption DEF TracksYoung
<1> QED BY <1>1, <1>2, <1>3 DEF TracksYoung

(* After a round of mode 2 every track left is younger than the tolerance. *)
LEMMA RoundDirectionYoung ==
  ASSUME TypeOK, TracksYoung, RoundDirection
  PROVE  TracksYoung'
<1>1. /\ now' = now /\ nextRound' = now + ModeTime
      /\ m_eds_single_hist' = Erase(m_eds_single_hist, Silent(LostTolDir))
  BY DEF RoundDirection, StartRound, MoveLost, LostTol
<1>2. now \in Nat /\ ModeTime \in Nat /\ LostTolDir \in Nat
  BY NextExpiry, TimeAssumption
<1>3. ASSUME NEW i \in DOMAIN m_eds_single_hist'
      PROVE  now + ModeTime <= Back(m_eds_single_hist'[i]).time + LostTolDir + ModeTime
  <2>1. /\ i \in DOMAIN m_eds_single_hist /\ i \notin Silent(LostTolDir)
        /\ m_eds_single_hist'[i] = m_eds_single_hist[i]
    BY <1>1 DEF Erase
  <2>2. ~ (Back(m_eds_single_hist[i]).time < now - LostTolDir)
    BY <2>1 DEF Silent
  <2> QED BY <2>1, <2>2, <1>2, TrackTimes
<1>4. nextRound' <= now' + ModeTime /\ now' <= nextRound'
  BY <1>1, <1>2
<1> QED BY <1>1, <1>3, <1>4 DEF TracksYoung

LEMMA NextYoung == TypeOK /\ TracksYoung /\ [Next]_vars => TracksYoung'
<1> SUFFICES ASSUME TypeOK, TracksYoung, [Next]_vars
             PROVE  TracksYoung'
  OBVIOUS
<1>1. CASE UNCHANGED << m_predictionMode, now, m_eds_single_hist, nextRound >>
  BY <1>1 DEF TracksYoung
<1>2. CASE \E id \in ED, pos \in Position : UpdateList(id, pos)
  BY <1>2, UpdateListYoung
<1>3. CASE \E l \in DOMAIN nextHist : UpdateHistory(l)
  BY <1>3, <1>1 DEF UpdateHistory
<1>4. CASE RoundDirection
  BY <1>4, RoundDirectionYoung
<1>5. CASE RoundWithoutClusters \/ RoundKmeans
  <2>1. /\ now' = now /\ nextRound' = now + ModeTime
        /\ m_predictionMode' = m_predictionMode /\ m_predictionMode # 2
    BY <1>5 DEF RoundWithoutClusters, RoundKmeans, StartRound
  <2> QED BY <2>1, NextExpiry, TimeAssumption DEF TracksYoung
<1>6. CASE Tick
  <2>1. now' = now + 1 /\ now # nextRound
        /\ UNCHANGED << m_predictionMode, m_eds_single_hist, nextRound >>
    BY <1>6 DEF Tick, TimerDue, RoundDue
  <2>2. now' <= nextRound' /\ nextRound' <= now' + ModeTime
    BY <2>1, NextExpiry, TimeAssumption DEF TracksYoung
  <2> QED BY <2>1, <2>2 DEF TracksYoung
<1>7. CASE UNCHANGED vars
  BY <1>7, <1>1 DEF vars
<1> QED BY <1>2, <1>3, <1>4, <1>5, <1>6, <1>7 DEF Next

TracksReach ==
  m_predictionMode = 2 =>
    \A i \in DOMAIN m_eds_single_hist \ DOMAIN m_eds_single_hist' :
      Usable(m_eds_single_hist[i]) => i \in DOMAIN m_eds_lost'

LEMMA RoundDirectionReaches ==
  ASSUME LostTolDir + ModeTime <= FilterTol, TypeOK, TracksYoung, RoundDirection
  PROVE  TracksReach
<1> DEFINE lost == LostAfterUpdate(LostTolDir)
<1>1. /\ now = nextRound
      /\ m_eds_single_hist' = Erase(m_eds_single_hist, Silent(LostTolDir))
      /\ m_eds_lost' = Erase(lost, Filtered(lost, InterTol, FilterTol))
  BY DEF RoundDirection, StartRound, RoundDue, MoveLost, LostTol
<1>2. /\ now \in Nat /\ ModeTime \in Nat /\ LostTolDir \in Nat
      /\ FilterTol \in Nat /\ InterTol \in Nat
  BY NextExpiry, TimeAssumption
<1> SUFFICES ASSUME m_predictionMode = 2,
                    NEW i \in DOMAIN m_eds_single_hist \ DOMAIN m_eds_single_hist',
                    Usable(m_eds_single_hist[i])
             PROVE  i \in DOMAIN m_eds_lost'
  BY DEF TracksReach
<1>3. i \in Silent(LostTolDir)
  BY <1>1 DEF Erase
<1>4. i \in DOMAIN lost /\ lost[i] = m_eds_single_hist[i]
  BY <1>3 DEF LostAfterUpdate
<1>5. now <= Back(m_eds_single_hist[i]).time + LostTolDir + ModeTime
  BY <1>1 DEF TracksYoung
<1>6. ~ (now - Back(m_eds_single_hist[i]).time > FilterTol)
  BY <1>2, <1>5, TrackTimes
<1>7. ~ (Back(m_eds_single_hist[i]).time - Head(m_eds_single_hist[i]).time > InterTol)
  BY <1>2, TrackTimes DEF Usable
<1>8. i \notin Filtered(lost, InterTol, FilterTol)
  BY <1>4, <1>6, <1>7 DEF Filtered
<1> QED BY <1>1, <1>4, <1>8 DEF Erase

(* With FilterTol a period longer than the tolerance of mode 2, as in the  *)
(* code (3 min, 65 s, and rounds of 10 s), no usable track of a lost ED is *)
(* filtered before a round could predict from it.                          *)
THEOREM UsableTracksReach ==
  ASSUME LostTolDir + ModeTime <= FilterTol
  PROVE  Spec => DirectionTracksReach
<1>1. Init => TypeOK /\ TracksYoung
  <2>1. Init => TracksYoung
    BY TimeAssumption DEF Init, TracksYoung
  <2> QED BY <2>1, InitType
<1>2. TypeOK /\ TracksYoung /\ [Next]_vars => (TypeOK /\ TracksYoung)'
  BY NextType, NextYoung
<1>3. TypeOK /\ TracksYoung /\ [Next]_vars => [TracksReach]_vars
  <2> SUFFICES ASSUME TypeOK, TracksYoung, [Next]_vars, ~ UNCHANGED vars
               PROVE  TracksReach
    OBVIOUS
  <2>1. CASE RoundDirection
    BY <2>1, RoundDirectionReaches
  <2>2. CASE RoundKmeans
    BY <2>2 DEF RoundKmeans, TracksReach
  <2>3. CASE DOMAIN m_eds_single_hist \subseteq DOMAIN m_eds_single_hist'
    BY <2>3 DEF TracksReach
  <2>4. CASE \E id \in ED, pos \in Position : UpdateList(id, pos)
    <3>1. DOMAIN m_eds_single_hist \subseteq DOMAIN m_eds_single_hist'
      BY <2>4 DEF UpdateList, Put
    <3> QED BY <3>1, <2>3
  <2>5. CASE RoundWithoutClusters \/ Tick \/ \E l \in DOMAIN nextHist : UpdateHistory(l)
    BY <2>5, <2>3 DEF RoundWithoutClusters, Tick, UpdateHistory
  <2> QED BY <2>1, <2>2, <2>4, <2>5 DEF Next
<1> QED BY <1>1, <1>2, <1>3, PTL DEF Spec, DirectionTracksReach, TracksReach
=============================================================================

----------------------- MODULE GatewayReceptionProofs -----------------------
(***************************************************************************)
(* Proofs about the receiving side of a gateway, for any packets, paths,   *)
(* isolation and thresholds: first the pool of paths and the record of     *)
(* interferers (IInv), then sums over sets, and with these the verdicts on *)
(* packets (FateInv).                                                      *)
(***************************************************************************)
EXTENDS GatewayReception, TLAPS, FiniteSetTheorems, SequenceTheorems, WellFoundedInduction

EventOnAir == [kind : Kind, start : Nat, end : Nat]

(* What the scheduler sees to: packets have begun and end after their time *)
(* on air, and no EndReceive event is overdue.                             *)
Timing ==
  /\ \A i \in 1..Len(air) : /\ air[i].start <= now
                            /\ air[i].end = air[i].start + air[i].kind.duration
  /\ \A id \in receiving : now <= air[id].end

(* The record holds every packet that is not old, received or not.         *)
YoungKept == \A i \in 1..Len(air) : ~ Old(air, i) => i \in m_events

IInv == TypeOK /\ Timing /\ YoungKept /\ PoolInStep

-----------------------------------------------------------------------------
LEMMA LeastNatural ==
  ASSUME NEW S \in SUBSET Nat, S # {}
  PROVE  Min(S) \in S /\ \A y \in S : Min(S) <= y
<1> DEFINE UpTo(i) == 0..i
           T == {UpTo(i) : i \in S}
<1>1. T \subseteq FiniteSubsetsOf(Nat) /\ T # {}
  <2>1. ASSUME NEW i \in S
        PROVE  UpTo(i) \subseteq Nat /\ IsFiniteSet(UpTo(i))
    <3>1. i \in Nat /\ 0 \in Int /\ i \in Int
      OBVIOUS
    <3> QED BY <3>1, FS_Interval
  <2> QED BY <2>1 DEF FiniteSubsetsOf
<1>2. PICK x \in T : \A y \in T : ~ (<<y, x>> \in StrictSubsetOrdering(Nat))
  <2> HIDE DEF T
  <2> QED BY <1>1, FS_StrictSubsetOrderingWellFounded, WFMin
<1>3. PICK m \in S : x = UpTo(m)
  OBVIOUS
<1>4. ASSUME NEW j \in S, ~ (m <= j)
      PROVE  FALSE
  <2>1. <<UpTo(j), x>> \in StrictSubsetOrdering(Nat)
    BY <1>3, <1>4 DEF StrictSubsetOrdering
  <2> QED BY <2>1, <1>2
<1>5. \E y \in S : \A z \in S : y <= z
  BY <1>4
<1> QED BY <1>5 DEF Min

(* A packet that is not old is not erased.                                 *)
LEMMA ErasedAreOld ==
  ASSUME NEW list, NEW ids \in SUBSET Nat, NEW i \in Erased(list, ids)
  PROVE  Old(list, i)
<1> SUFFICES ASSUME ~ Old(list, i) PROVE FALSE
  OBVIOUS
<1>1. RunUpTo(list, ids, i) = {}
  BY DEF RunUpTo, Erased
<1> QED BY <1>1, FS_EmptySet DEF Erased

(* The first of the old packets is erased.                                 *)
LEMMA FirstOldIsErased ==
  ASSUME NEW list, NEW ids \in SUBSET Nat, NEW j \in ids, Old(list, j)
  PROVE  Erased(list, ids) # {}
<1> DEFINE old == {x \in ids : Old(list, x)}
           i == Min(old)
<1>1. i \in old /\ \A y \in old : i <= y
  BY LeastNatural
<1> HIDE DEF i
<1>2. RunUpTo(list, ids, i) = {i}
  <2>1. \A x \in RunUpTo(list, ids, i) : x = i
    <3> SUFFICES ASSUME NEW x \in RunUpTo(list, ids, i) PROVE x = i
      OBVIOUS
    <3>1. x \in Nat /\ i \in Nat /\ x <= i /\ Old(list, x)
      BY <1>1 DEF RunUpTo
    <3> QED BY <1>1, <3>1 DEF RunUpTo
  <2>2. i \in RunUpTo(list, ids, i)
    BY <1>1 DEF RunUpTo
  <2> QED BY <2>1, <2>2
<1>3. Cardinality(RunUpTo(list, ids, i)) = 1
  BY <1>2, FS_Singleton
<1> QED BY <1>1, <1>3 DEF Erased

LEMMA FrequencyType == \A p \in Path : GetFrequency(p) \in Nat
BY PathAssumption DEF Path, GetFrequency

LEMMA OnAirType ==
  ASSUME TypeOK
  PROVE  /\ Len(air) \in Nat /\ air \in Seq(EventOnAir)
         /\ \A i \in 1..Len(air) : /\ air[i] \in EventOnAir
                                   /\ air[i].start \in Nat /\ air[i].end \in Nat
                                   /\ air[i].kind.duration \in Nat
         /\ m_events \subseteq 1..Len(air) /\ receiving \subseteq 1..Len(air)
         /\ m_event \in [Path -> Nat] /\ now \in Nat
<1>1. air \in Seq(EventOnAir)
  BY DEF TypeOK, EventOnAir
<1>2. Len(air) \in Nat /\ \A i \in 1..Len(air) : air[i] \in EventOnAir
  BY <1>1
<1>3. \A e \in EventOnAir : e.start \in Nat /\ e.end \in Nat /\ e.kind.duration \in Nat
  BY DEF EventOnAir, Kind
<1> QED BY <1>1, <1>2, <1>3 DEF TypeOK

LEMMA FateGrows ==
  ASSUME TypeOK, NEW why \in Fate, fate' = Append(fate, why)
  PROVE  fate' \in Seq(Fate) /\ Len(fate') = Len(air) + 1
<1>1. fate \in Seq(Fate) /\ Len(fate) = Len(air)
  BY DEF TypeOK
<1> QED BY <1>1

-----------------------------------------------------------------------------
(* Recording a packet that starts now.                                     *)
LEMMA AddKeepsYoung ==
  ASSUME TypeOK, Timing, YoungKept, NEW k \in Kind, Add(k), now' = now
  PROVE  /\ air' = Append(air, Event(k)) /\ air' \in Seq(EventOnAir)
         /\ Len(air') = Len(air) + 1 /\ Len(air) \in Nat
         /\ \A i \in 1..Len(air) : air'[i] = air[i]
         /\ air'[Len(air) + 1] = Event(k)
         /\ m_events' \subseteq 1..Len(air')
         /\ YoungKept'
<1> DEFINE n == Len(air) + 1
           recorded == m_events \cup {n}
<1>1. Event(k) \in EventOnAir
  BY DEF Event, EventOnAir, Kind, TypeOK
<1>2. /\ air' = Append(air, Event(k)) /\ air' \in Seq(EventOnAir)
      /\ Len(air') = n /\ Len(air) \in Nat
      /\ \A i \in 1..Len(air) : air'[i] = air[i]
      /\ air'[n] = Event(k)
  BY <1>1, OnAirType DEF Add
<1>3. recorded \subseteq 1..Len(air')
  <2>1. m_events \subseteq 1..Len(air) /\ n \in 1..n
    BY <1>2, OnAirType
  <2>2. \A i \in 1..Len(air) : i \in 1..n
    BY <1>2
  <2> QED BY <1>2, <2>1, <2>2
<1>4. m_events' \subseteq recorded
  BY DEF Add
<1>5. YoungKept'
  <2> SUFFICES ASSUME NEW i \in 1..Len(air'), ~ Old(air, i)'
               PROVE  i \in m_events'
    BY DEF YoungKept
  <2>1. ~ Old(air', i)
    BY DEF Old
  <2>2. i \in recorded
    BY <1>2, <2>1 DEF YoungKept, Old
  <2>3. i \notin Erased(air', recorded)
    BY <1>3, <2>1, ErasedAreOld
  <2> QED BY <2>2, <2>3 DEF Add
<1> QED BY <1>2, <1>3, <1>4, <1>5

LEMMA KindsHeard == Uplink \cup Downlink \subseteq Kind /\ Sent \subseteq Kind
BY PacketAssumption

(* The paths that are locked, counted. *)
Locked == {p \in Path : m_event[p] # 0}

LEMMA LockedIsFinite ==
  /\ IsFiniteSet(Locked) /\ Cardinality(Locked) \in 0..maxReceptionPaths
  /\ IsFiniteSet(Locked') /\ Cardinality(Locked)' \in 0..maxReceptionPaths
<1>1. IsFiniteSet(Path) /\ Cardinality(Path) = maxReceptionPaths
  <2>1. 1 \in Int /\ maxReceptionPaths \in Int /\ maxReceptionPaths > 0
    BY PathAssumption
  <2> HIDE DEF Path
  <2>2. IsFiniteSet(1..maxReceptionPaths)
        /\ Cardinality(1..maxReceptionPaths) = maxReceptionPaths
    BY <2>1, FS_Interval
  <2> QED BY <2>2 DEF Path
<1> QED BY <1>1, FS_Subset, FS_CardinalityType, PathAssumption DEF Locked

-----------------------------------------------------------------------------
LEMMA InitInv == Init => IInv
<1> SUFFICES ASSUME Init PROVE IInv
  OBVIOUS
<1>1. Locked = {}
  BY DEF Init, Locked
<1>2. Cardinality(Locked) = 0
  BY <1>1, FS_EmptySet
<1>3. TypeOK
  <2>1. air \in Seq([kind : Kind, start : Nat, end : Nat]) /\ fate \in Seq(Fate)
    BY DEF Init
  <2>2. m_event \in [Path -> Nat]
    BY DEF Init
  <2>3. m_occupiedReceptionPaths \in 0..maxReceptionPaths
    BY PathAssumption DEF Init
  <2> QED BY <2>1, <2>2, <2>3 DEF Init, TypeOK
<1>4. PoolInStep
  BY <1>2 DEF Init, PoolInStep, Locked
<1>5. Timing /\ YoungKept
  BY DEF Init, Timing, YoungKept
<1> QED BY <1>3, <1>4, <1>5 DEF IInv

(* A packet that takes no path leaves the paths alone.                     *)
LEMMA AddWithoutPath ==
  ASSUME IInv, NEW k \in Kind, Add(k), now' = now,
         UNCHANGED << m_event, m_occupiedReceptionPaths, receiving >>
  PROVE  Timing' /\ YoungKept' /\ PoolInStep'
<1>1. /\ Len(air') = Len(air) + 1 /\ Len(air) \in Nat
      /\ \A i \in 1..Len(air) : air'[i] = air[i]
      /\ air'[Len(air) + 1] = Event(k)
      /\ YoungKept'
  BY AddKeepsYoung DEF IInv
<1>2. Timing'
  <2>1. Event(k).start = now /\ Event(k).end = now + k.duration /\ Event(k).kind = k
    BY DEF Event
  <2>2. \A i \in 1..Len(air') : i \in 1..Len(air) \/ i = Len(air) + 1
    BY <1>1
  <2>3. \A i \in 1..Len(air') : /\ air'[i].start <= now
                                /\ air'[i].end = air'[i].start + air'[i].kind.duration
    BY <1>1, <2>1, <2>2, OnAirType DEF Timing, IInv
  <2>4. \A id \in receiving : now <= air'[id].end
    BY <1>1, OnAirType DEF Timing, IInv
  <2> QED BY <2>3, <2>4 DEF Timing
<1>3. PoolInStep'
  <2>1. \A id \in receiving : air'[id] = air[id]
    BY <1>1, OnAirType DEF IInv
  <2> QED BY <2>1 DEF PoolInStep, IInv, GetFrequency, Path
<1> QED BY <1>1, <1>2, <1>3

LEMMA LockInv ==
  ASSUME IInv, NEW k \in Kind, Add(k), now' = now, NEW p \in Candidates(k), Lock(p),
         UNCHANGED << airing, m_isTransmitting >>
  PROVE  IInv'
<1> DEFINE n == Len(air) + 1
<1>1. /\ Len(air') = n /\ Len(air) \in Nat /\ n # 0
      /\ air' \in Seq(EventOnAir)
      /\ \A i \in 1..Len(air) : air'[i] = air[i]
      /\ air'[n] = Event(k)
      /\ m_events' \subseteq 1..Len(air')
      /\ YoungKept'
  BY AddKeepsYoung DEF IInv
<1>2. p \in Path /\ GetFrequency(p) = k.freq /\ m_event[p] = 0
  BY DEF Candidates
<1>3. Timing'
  <2>1. Event(k).start = now /\ Event(k).end = now + k.duration /\ Event(k).kind = k
    BY DEF Event
  <2>2. \A i \in 1..Len(air') : i \in 1..Len(air) \/ i = n
    BY <1>1
  <2>3. \A i \in 1..Len(air') : /\ air'[i].start <= now
                                /\ air'[i].end = air'[i].start + air'[i].kind.duration
    BY <1>1, <2>1, <2>2, OnAirType DEF Timing, IInv
  <2>4. now <= now + k.duration
    BY OnAirType DEF Kind, IInv
  <2>5. \A id \in receiving : id \in 1..Len(air) /\ now <= air[id].end
    BY OnAirType DEF IInv, Timing
  <2>6. \A id \in receiving' : now <= air'[id].end
    BY <1>1, <2>1, <2>4, <2>5 DEF Lock
  <2> QED BY <2>3, <2>6 DEF Timing
<1>4. m_event' \in [Path -> Nat] /\ receiving' \subseteq 1..Len(air')
  <2>1. m_event \in [Path -> Nat] /\ receiving \subseteq 1..Len(air) /\ n \in Nat
    BY <1>1, OnAirType DEF IInv
  <2>2. m_event' = [m_event EXCEPT ![p] = n] /\ receiving' = receiving \cup {n}
    BY DEF Lock
  <2>3. \A i \in 1..Len(air) : i \in 1..n
    BY <1>1
  <2>4. n \in 1..n
    BY <1>1
  <2>5. receiving' \subseteq 1..n
    BY <2>1, <2>2, <2>3, <2>4
  <2> QED BY <1>1, <1>2, <2>1, <2>2, <2>5
<1>5. Locked' = Locked \cup {p} /\ p \notin Locked
  BY <1>1, <1>2, OnAirType DEF Locked, Lock, IInv
<1>6. Cardinality(Locked') = Cardinality(Locked) + 1
  BY <1>5, LockedIsFinite, FS_AddElement
<1>7. m_occupiedReceptionPaths' = Cardinality(Locked')
  BY <1>6 DEF Lock, IInv, PoolInStep, Locked
<1>8. PoolInStep'
  <2>1. \A q \in Path : m_event'[q] = IF q = p THEN n ELSE m_event[q]
    BY <1>2, OnAirType DEF Lock, IInv
  <2>2. \A q \in Path : m_event[q] # n
    BY <1>1, OnAirType DEF IInv, PoolInStep
  <2>3. \A q \in Path : m_event'[q] # 0 =>
          m_event'[q] \in receiving' /\ air'[m_event'[q]].kind.freq = GetFrequency(q)
    BY <1>1, <1>2, <2>1, OnAirType DEF Lock, IInv, PoolInStep, Event
  <2>4. \A id \in receiving' : \E q \in Path : m_event'[q] = id
    <3> SUFFICES ASSUME NEW id \in receiving' PROVE \E q \in Path : m_event'[q] = id
      OBVIOUS
    <3>1. CASE id = n
      BY <1>2, <2>1, <3>1
    <3>2. CASE id \in receiving
      <4>1. PICK q \in Path : m_event[q] = id
        BY <3>2 DEF IInv, PoolInStep
      <4>2. id # 0
        BY <3>2, OnAirType DEF IInv
      <4> QED BY <1>2, <2>1, <4>1, <4>2
    <3> QED BY <3>1, <3>2 DEF Lock
  <2>5. \A q, r \in Path : m_event'[q] = m_event'[r] /\ m_event'[q] # 0 => q = r
    BY <2>1, <2>2 DEF IInv, PoolInStep
  <2> QED BY <1>7, <2>3, <2>4, <2>5 DEF PoolInStep, Locked, GetFrequency, Path
<1>9. fate' \in Seq(Fate) /\ Len(fate') = Len(air')
  <2>1. "receiving" \in Fate
    BY DEF Fate
  <2> QED BY <1>1, <2>1, FateGrows DEF Lock, IInv
<1>10. TypeOK'
  BY <1>1, <1>4, <1>7, <1>9, LockedIsFinite DEF TypeOK, IInv, EventOnAir
<1> QED BY <1>1, <1>3, <1>8, <1>10 DEF IInv

LEMMA StartReceiveInv ==
  ASSUME IInv, NEW k \in Uplink \cup Downlink, StartReceive(k)
  PROVE  IInv'
<1>1. k \in Kind /\ Add(k) /\ now' = now /\ UNCHANGED << airing, m_isTransmitting >>
  BY KindsHeard DEF StartReceive
<1>2. CASE \E why \in Fate : Dropped(why)
  <2>1. Timing' /\ YoungKept' /\ PoolInStep'
    BY <1>1, <1>2, AddWithoutPath DEF Dropped
  <2>2. TypeOK'
    <3>1. /\ Len(air') = Len(air) + 1 /\ air' \in Seq(EventOnAir)
          /\ m_events' \subseteq 1..Len(air')
      BY <1>1, AddKeepsYoung DEF IInv
    <3>2. fate' \in Seq(Fate) /\ Len(fate') = Len(air')
      BY <1>2, <3>1 DEF Dropped, IInv, TypeOK
    <3> QED BY <1>1, <1>2, <3>1, <3>2 DEF Dropped, IInv, TypeOK, EventOnAir
  <2> QED BY <2>1, <2>2 DEF IInv
<1>3. CASE Candidates(k) # {} /\ Lock(Min(Candidates(k)))
  <2>1. Min(Candidates(k)) \in Candidates(k)
    BY <1>3, LeastNatural DEF Candidates, Path
  <2> QED BY <1>1, <1>3, <2>1, LockInv
<1> QED BY <1>2, <1>3 DEF StartReceive, Fate

LEMMA SendInv ==
  ASSUME IInv, NEW k \in Sent, Send(k)
  PROVE  IInv'
<1>1. k \in Kind /\ Add(k) /\ now' = now
  BY KindsHeard DEF Send
<1>2. Timing' /\ YoungKept' /\ PoolInStep'
  BY <1>1, AddWithoutPath DEF Send
<1>3. /\ Len(air') = Len(air) + 1 /\ air' \in Seq(EventOnAir)
      /\ m_events' \subseteq 1..Len(air')
  BY <1>1, AddKeepsYoung DEF IInv
<1>4. fate' \in Seq(Fate) /\ Len(fate') = Len(air')
  <2>1. "sent" \in Fate
    BY DEF Fate
  <2> QED BY <1>3, <2>1, FateGrows DEF Send, IInv
<1>5. receiving' \subseteq 1..Len(air') /\ airing' \subseteq 1..Len(air')
  <2>1. receiving \subseteq 1..Len(air) /\ airing \subseteq 1..Len(air)
        /\ Len(air) \in Nat
    BY OnAirType DEF IInv, TypeOK
  <2>2. \A i \in 1..Len(air) : i \in 1..Len(air')
    BY <1>3, <2>1
  <2>3. Len(air) + 1 \in 1..Len(air')
    BY <1>3, <2>1
  <2> QED BY <2>1, <2>2, <2>3 DEF Send
<1>6. TypeOK'
  <2>1. /\ now' \in Nat /\ m_event' \in [Path -> Nat]
        /\ m_occupiedReceptionPaths' \in 0..maxReceptionPaths
        /\ m_isTransmitting' \in BOOLEAN
    BY <1>1 DEF Send, IInv, TypeOK
  <2> QED BY <1>3, <1>4, <1>5, <2>1 DEF TypeOK, EventOnAir
<1> QED BY <1>2, <1>6 DEF IInv

LEMMA EndReceiveInv ==
  ASSUME IInv, NEW id \in receiving, EndReceive(id)
  PROVE  IInv'
<1>1. UNCHANGED << now, air, m_events, airing, m_isTransmitting >>
  BY DEF EndReceive
<1>2. Timing' /\ YoungKept'
  BY <1>1 DEF EndReceive, IInv, Timing, YoungKept, Old
<1>3. PICK p \in Path : m_event[p] = id
  BY DEF IInv, PoolInStep
<1>4. id # 0 /\ id \in 1..Len(air)
  BY DEF IInv, TypeOK
<1>5. LockedOn(id) = {p}
  BY <1>3, <1>4 DEF LockedOn, IInv, PoolInStep
<1>6. Min(LockedOn(id)) = p
  BY <1>5, LeastNatural DEF Path
<1>7. /\ m_event' = [m_event EXCEPT ![p] = 0]
      /\ m_occupiedReceptionPaths' = m_occupiedReceptionPaths - 1
  BY <1>5, <1>6 DEF EndReceive, Free
<1>8. \A q \in Path : m_event'[q] = IF q = p THEN 0 ELSE m_event[q]
  BY <1>7 DEF IInv, TypeOK
<1>9. Locked' = Locked \ {p} /\ p \in Locked
  BY <1>3, <1>4, <1>8 DEF Locked
<1>10. Cardinality(Locked') = Cardinality(Locked) - 1
  BY <1>9, LockedIsFinite, FS_RemoveElement
<1>11. m_occupiedReceptionPaths' = Cardinality(Locked')
  BY <1>7, <1>10 DEF IInv, PoolInStep, Locked
<1>12. PoolInStep'
  <2>1. \A q \in Path : m_event'[q] # 0 =>
          m_event'[q] \in receiving' /\ air'[m_event'[q]].kind.freq = GetFrequency(q)
    BY <1>1, <1>3, <1>8 DEF EndReceive, IInv, PoolInStep
  <2>2. \A i \in receiving' : \E q \in Path : m_event'[q] = i
    BY <1>3, <1>8 DEF EndReceive, IInv, PoolInStep
  <2>3. \A q, r \in Path : m_event'[q] = m_event'[r] /\ m_event'[q] # 0 => q = r
    BY <1>8 DEF IInv, PoolInStep
  <2> QED BY <1>11, <2>1, <2>2, <2>3 DEF PoolInStep, Locked, GetFrequency, Path
<1>13. fate' \in Seq(Fate) /\ Len(fate') = Len(fate)
  <2>1. PICK why \in Fate : fate' = [fate EXCEPT ![id] = why]
    BY DEF EndReceive, Receive, Fate
  <2>2. fate \in Seq(Fate) /\ id \in 1..Len(fate)
    BY DEF IInv, TypeOK
  <2> QED BY <2>1, <2>2, ExceptSeq
<1>14. TypeOK'
  BY <1>1, <1>7, <1>11, <1>13, LockedIsFinite DEF EndReceive, IInv, TypeOK
<1> QED BY <1>2, <1>12, <1>14 DEF IInv

LEMMA NextInv == IInv /\ [Next]_vars => IInv'
<1> SUFFICES ASSUME IInv, [Next]_vars PROVE IInv'
  OBVIOUS
<1>1. CASE \E k \in Uplink \cup Downlink : StartReceive(k)
  BY <1>1, StartReceiveInv
<1>2. CASE \E k \in Sent : Send(k)
  BY <1>2, SendInv
<1>3. CASE \E id \in receiving : EndReceive(id)
  BY <1>3, EndReceiveInv
<1>4. CASE \E id \in airing : TxFinished(id)
  BY <1>4 DEF TxFinished, IInv, TypeOK, Timing, YoungKept, PoolInStep, Old
<1>5. CASE Tick
  <2>1. Timing'
    <3>1. air' = air /\ receiving' = receiving /\ now' = now + 1 /\ now \in Nat
      BY <1>5, OnAirType DEF Tick, IInv
    <3>2. \A i \in 1..Len(air) : air[i].start <= now' 
      BY <3>1, OnAirType DEF IInv, Timing
    <3>3. \A id \in receiving : now' <= air[id].end
      <4>1. \A id \in receiving : air[id].end # now
        BY <1>5 DEF Tick, Due
      <4>2. \A id \in receiving : air[id].end \in Nat /\ now <= air[id].end
        BY OnAirType DEF IInv, Timing
      <4> QED BY <3>1, <4>1, <4>2
    <3> QED BY <3>1, <3>2, <3>3 DEF IInv, Timing
  <2>2. YoungKept'
    <3>1. \A i \in 1..Len(air) : air[i].end + oldEventThreshold < now
                                  => air[i].end + oldEventThreshold < now + 1
      BY OnAirType, RecordAssumption DEF IInv
    <3> QED BY <1>5, <3>1 DEF Tick, IInv, YoungKept, Old
  <2>3. TypeOK' /\ PoolInStep'
    BY <1>5 DEF Tick, IInv, TypeOK, PoolInStep
  <2> QED BY <2>1, <2>2, <2>3 DEF IInv
<1>6. CASE UNCHANGED vars
  BY <1>6 DEF vars, IInv, TypeOK, Timing, YoungKept, PoolInStep, Old
<1> QED BY <1>1, <1>2, <1>3, <1>4, <1>5, <1>6 DEF Next

LEMMA SpecInv == Spec => []IInv
BY InitInv, NextInv, PTL DEF Spec

-----------------------------------------------------------------------------
(* Types, for any number of packets and paths.                             *)
THEOREM Types == Spec => []TypeOK
<1>1. IInv => TypeOK
  BY DEF IInv
<1> QED BY <1>1, SpecInv, PTL

(* Demodulators are taken and given back once per packet, by every         *)
(* interleaving of arrivals, ends and own transmissions.                   *)
THEOREM DemodulatorsInStep == Spec => []PoolInStep
<1>1. IInv => PoolInStep
  BY DEF IInv
<1> QED BY <1>1, SpecInv, PTL

(* Cleaning forgets no interferer of a packet being received that is not   *)
(* longer than the threshold.                                              *)
THEOREM InterferersAreKept == Spec => []InterferersKept
<1>1. IInv => InterferersKept
  <2> SUFFICES ASSUME IInv, NEW id \in receiving, NEW i \in 1..Len(air),
                      air[id].kind.duration <= oldEventThreshold,
                      Overlap(air[id], air[i])
               PROVE  i \in m_events
    BY DEF InterferersKept
  <2>1. id \in 1..Len(air) /\ air[id] \in EventOnAir /\ air[i] \in EventOnAir
    BY OnAirType DEF IInv
  <2>2. /\ air[id].end = air[id].start + air[id].kind.duration
        /\ now <= air[id].end /\ air[id].start < air[i].end
    BY <2>1 DEF IInv, Timing, Overlap
  <2>3. /\ air[id].kind.duration \in Nat /\ air[id].start \in Nat /\ air[i].end \in Nat
        /\ air[id].end \in Nat
    BY <2>1 DEF EventOnAir, Kind
  <2>4. ~ Old(air, i)
    <3>1. now \in Nat /\ oldEventThreshold \in Nat
      BY RecordAssumption DEF IInv, TypeOK
    <3>2. ~ (air[i].end + oldEventThreshold < now)
      BY <2>2, <2>3, <3>1, SMTT(30)
    <3> QED BY <3>2 DEF Old
  <2> QED BY <2>4 DEF IInv, YoungKept
<1> QED BY <1>1, SpecInv, PTL

(* Past its limit the record grows only while nothing in it is old,        *)
(* although cleaning steps over events.                                    *)
THEOREM RecordStaysBounded == Spec => RecordGrowsOnlyYoung
<1> DEFINE Grows == /\ Cardinality(m_events') > MaxEvents
                    /\ Cardinality(m_events') > Cardinality(m_events)
           Young == \A i \in m_events : ~ Old(air, i)
<1>1. IInv /\ [Next]_vars => [Grows => Young]_vars
  <2> SUFFICES ASSUME IInv, Next, Grows, NEW j \in m_events, Old(air, j)
               PROVE  FALSE
    BY DEF vars
  <2>1. IsFiniteSet(m_events) /\ m_events \subseteq 1..Len(air) /\ Len(air) \in Nat
    <3>1. m_events \subseteq 1..Len(air) /\ Len(air) \in Nat
      BY OnAirType DEF IInv
    <3>2. IsFiniteSet(1..Len(air))
      <4>1. 1 \in Int /\ Len(air) \in Int
        BY <3>1
      <4> QED BY <4>1, FS_Interval
    <3> QED BY <3>1, <3>2, FS_Subset
  <2>2. Cardinality(m_events) \in Nat
    BY <2>1, FS_CardinalityType
  <2>3. PICK k \in Kind : Add(k) /\ now' = now
    <3>1. m_events' # m_events
      BY <2>2
    <3> QED BY <3>1, KindsHeard
            DEF Next, StartReceive, Send, EndReceive, TxFinished, Tick
  <2> DEFINE recorded == m_events \cup {Len(air) + 1}
             erased == Erased(air', recorded)
  <2>4. IsFiniteSet(recorded) /\ Cardinality(recorded) = Cardinality(m_events) + 1
    BY <2>1, FS_AddElement
  <2>5. erased # {}
    <3>1. Old(air', j)
      BY <2>1, <2>3, AddKeepsYoung DEF IInv, Old
    <3>2. recorded \in SUBSET Nat /\ j \in recorded
      <4>1. Len(air) + 1 \in Nat /\ 1..Len(air) \subseteq Nat
        BY <2>1
      <4> QED BY <2>1, <4>1
    <3> QED BY <3>1, <3>2, FirstOldIsErased
  <2>6. PICK x \in recorded : x \in erased
    BY <2>5 DEF Erased
  <2>7. m_events' \subseteq recorded /\ Cardinality(recorded) > MaxEvents => x \notin m_events'
    BY <2>3, <2>6 DEF Add
  <2> HIDE DEF erased, recorded
  <2>8. m_events' \subseteq recorded
    BY <2>3 DEF Add, recorded
  <2>9. Cardinality(m_events') <= Cardinality(recorded) /\ Cardinality(m_events') \in Nat
    BY <2>4, <2>8, FS_Subset, FS_CardinalityType
  <2>10. Cardinality(recorded) > MaxEvents
    BY <2>2, <2>4, <2>9, RecordAssumption
  <2>11. m_events' \subseteq recorded \ {x}
    BY <2>7, <2>8, <2>10
  <2>12. IsFiniteSet(recorded \ {x}) /\ Cardinality(recorded \ {x}) = Cardinality(m_events)
    <3>1. IsFiniteSet(recorded \ {x}) /\ Cardinality(recorded \ {x}) = Cardinality(recorded) - 1
      BY <2>4, <2>6, FS_RemoveElement
    <3> QED BY <2>2, <2>4, <3>1
  <2>13. Cardinality(m_events') <= Cardinality(m_events)
    BY <2>11, <2>12, FS_Subset
  <2> QED BY <2>2, <2>9, <2>13
<1> QED BY <1>1, SpecInv, PTL DEF Spec, RecordGrowsOnlyYoung

-----------------------------------------------------------------------------
(* Induction up to n, over a set of numbers. *)
LEMMA UpTo ==
  ASSUME NEW n \in Nat, NEW S, 0 \in S, \A k \in 1..n : k - 1 \in S => k \in S
  PROVE  \A k \in 0..n : k \in S
<1> DEFINE T == {k \in 0..n : k \notin S}
<1> SUFFICES ASSUME T # {}
             PROVE  FALSE
  OBVIOUS
<1>1. PICK k \in T : \A j \in T : k <= j
  <2>1. T \subseteq Nat
    OBVIOUS
  <2> HIDE DEF T
  <2> QED BY <2>1, LeastNatural
<1>2. k \in 1..n /\ k - 1 \in 0..n /\ ~ (k <= k - 1)
  OBVIOUS
<1> QED BY <1>1, <1>2(* MapThenSumSet is a recursive function over the subsets of its set: the  *)
(* lemmas state its equation for a function f and then what it sums up.    *)
One(s) == CHOOSE x \in s : TRUE

Sums(iter, f, S) ==
  iter = [s \in SUBSET S |-> IF s = {} THEN 0 ELSE f[One(s)] + iter[s \ {One(s)}]]

Sum(f, S) == (CHOOSE iter : Sums(iter, f, S))[S]

LEMMA OneOf ==
  ASSUME NEW s, s # {}
  PROVE  One(s) \in s
BY DEF One

(* Induction over the size of finite sets. *)
LEMMA Smaller ==
  ASSUME NEW s, IsFiniteSet(s), NEW x \in s
  PROVE  /\ IsFiniteSet(s \ {x}) /\ Cardinality(s \ {x}) \in Nat
         /\ Cardinality(s) \in Nat /\ Cardinality(s) = Cardinality(s \ {x}) + 1
<1>1. IsFiniteSet(s \ {x}) /\ Cardinality(s \ {x}) = Cardinality(s) - 1
  BY FS_RemoveElement
<1>2. Cardinality(s) \in Nat /\ Cardinality(s \ {x}) \in Nat
  BY <1>1, FS_CardinalityType
<1> QED BY <1>1, <1>2

LEMMA SumsExists ==
  ASSUME NEW f, NEW S, IsFiniteSet(S)
  PROVE  \E iter : Sums(iter, f, S)
<1> DEFINE Right(g, s) == g[s] = IF s = {} THEN 0 ELSE f[One(s)] + g[s \ {One(s)}]
           Upto(g, k) == /\ g = [s \in SUBSET S |-> g[s]]
                         /\ \A s \in SUBSET S : Cardinality(s) <= k => Right(g, s)
           n == Cardinality(S)
           K == {k \in 0..n : \E g : Upto(g, k)}
<1>1. n \in Nat /\ \A s \in SUBSET S : /\ IsFiniteSet(s) /\ Cardinality(s) \in Nat
                                       /\ Cardinality(s) <= n
  BY FS_Subset, FS_CardinalityType
<1>2. 0 \in K
  <2> DEFINE g == [s \in SUBSET S |-> 0]
  <2>1. \A s \in SUBSET S : Cardinality(s) <= 0 => s = {}
    <3>1. \A s \in SUBSET S : Cardinality(s) = 0 => s = {}
      BY <1>1, FS_EmptySet
    <3> QED BY <1>1, <3>1
  <2>2. ASSUME NEW s \in SUBSET S, Cardinality(s) <= 0
        PROVE  Right(g, s)
    BY <2>1, <2>2
  <2>3. g = [s \in SUBSET S |-> g[s]]
    OBVIOUS
  <2> HIDE DEF g
  <2>4. Upto(g, 0)
    BY <2>2, <2>3
  <2>5. 0 \in 0..n
    BY <1>1
  <2> HIDE DEF n, Upto
  <2> QED BY <2>4, <2>5
<1>3. ASSUME NEW k \in 1..n, k - 1 \in K
      PROVE  k \in K
  <2>1. PICK g : Upto(g, k - 1)
    BY <1>3
  <2> DEFINE new(s) == f[One(s)] + g[s \ {One(s)}]
             h == [s \in SUBSET S |-> IF Cardinality(s) = k THEN new(s) ELSE g[s]]
  <2>2. ASSUME NEW s \in SUBSET S, Cardinality(s) <= k
        PROVE  Right(h, s)
    <3>1. CASE s = {}
      <4>1. Cardinality(s) = 0
        BY <3>1, FS_EmptySet
      <4>2. h[s] = g[s]
        BY <4>1
      <4>3. Right(g, s)
        <5>1. 0 <= k - 1
          BY <1>1, <1>3
        <5> QED BY <2>1, <4>1, <5>1
      <4> QED BY <3>1, <4>2, <4>3
    <3>2. CASE s # {}
      <4> DEFINE x == One(s)
                 rest == s \ {x}
      <4>1. x \in s
        BY <3>2, OneOf
      <4>2. /\ rest \in SUBSET S /\ Cardinality(rest) \in Nat /\ Cardinality(s) \in Nat
            /\ Cardinality(s) = Cardinality(rest) + 1
        BY <1>1, <4>1, Smaller
      <4>3. h[rest] = g[rest]
        BY <2>2, <4>2
      <4>4. h[s] = f[x] + g[rest]
        <5>1. CASE Cardinality(s) = k
          BY <5>1
        <5>2. CASE Cardinality(s) # k
          <6>1. Cardinality(s) <= k - 1
            BY <2>2, <4>2, <5>2
          <6>2. Right(g, s)
            BY <2>1, <6>1
          <6> QED BY <3>2, <5>2, <6>2
        <5> QED BY <5>1, <5>2
      <4> QED BY <3>2, <4>3, <4>4
    <3> QED BY <3>1, <3>2
  <2>3. h = [s \in SUBSET S |-> h[s]]
    OBVIOUS
  <2> HIDE DEF h
  <2>4. Upto(h, k)
    BY <2>2, <2>3
  <2>5. k \in 0..n
    BY <1>1, <1>3
  <2> QED BY <2>4, <2>5
<1>4. \A k \in 0..n : k \in K
  <2> HIDE DEF K
  <2> QED BY <1>1, <1>2, <1>3, UpTo
<1>5. PICK g : Upto(g, n)
  <2>1. n \in K
    <3> HIDE DEF K
    <3> QED BY <1>1, <1>4
  <2> QED BY <2>1
<1>6. \A s \in SUBSET S : Right(g, s)
  BY <1>1, <1>5
<1>7. Sums(g, f, S)
  BY <1>5, <1>6 DEF Sums
<1> QED BY <1>7

(* Induction over the subsets of a finite set: what holds of a set when it *)
(* holds of the set without any one of its members holds of all.           *)
Inherited(P, S) == \A s \in SUBSET S : (\A x \in s : s \ {x} \in P) => s \in P

LEMMA SubsetInduction ==
  ASSUME NEW S, IsFiniteSet(S), NEW P, Inherited(P, S)
  PROVE  \A s \in SUBSET S : s \in P
<1> DEFINE T == {s \in SUBSET S : s \notin P}
<1> SUFFICES ASSUME T # {} PROVE FALSE
  OBVIOUS
<1>1. T \subseteq FiniteSubsetsOf(S)
  BY FS_Subset DEF FiniteSubsetsOf
<1>2. PICK s \in T : \A t \in T : ~ (<<t, s>> \in StrictSubsetOrdering(S))
  <2> HIDE DEF T
  <2> QED BY <1>1, FS_StrictSubsetOrderingWellFounded, WFMin
<1>3. ASSUME NEW x \in s
      PROVE  s \ {x} \in P
  <2>1. <<s \ {x}, s>> \in StrictSubsetOrdering(S)
    BY DEF StrictSubsetOrdering
  <2> QED BY <1>2, <2>1
<1>4. s \in P
  BY <1>3 DEF Inherited
<1> QED BY <1>4

LEMMA SumsEquation ==
  ASSUME NEW f, NEW S, NEW iter, Sums(iter, f, S), NEW s \in SUBSET S
  PROVE  iter[s] = IF s = {} THEN 0 ELSE f[One(s)] + iter[s \ {One(s)}]
BY DEF Sums

(* Sums agree where what they sum up does. *)
Alike(f, g, S) == \A x \in S : f[x] = g[x]

LEMMA SumsAgree ==
  ASSUME NEW f, NEW S, NEW iter, Sums(iter, f, S),
         NEW g, NEW T, NEW jter, Sums(jter, g, T),
         NEW A, IsFiniteSet(A), A \subseteq S, A \subseteq T, Alike(f, g, A)
  PROVE  iter[A] = jter[A]
<1> DEFINE P == {s \in SUBSET A : iter[s] = jter[s]}
<1>1. ASSUME NEW s \in SUBSET A, \A x \in s : s \ {x} \in P
      PROVE  iter[s] = jter[s]
  <2>1. s \in SUBSET S /\ s \in SUBSET T
    OBVIOUS
  <2>2. CASE s = {}
    BY <2>1, <2>2, SumsEquation
  <2>3. CASE s # {}
    <3> DEFINE x == One(s)
    <3>1. x \in s
      BY <2>3, OneOf
    <3>2. f[x] = g[x] /\ iter[s \ {x}] = jter[s \ {x}]
      BY <1>1, <3>1 DEF Alike
    <3>3. iter[s] = f[x] + iter[s \ {x}]
      BY <2>1, <2>3, SumsEquation
    <3>4. jter[s] = g[x] + jter[s \ {x}]
      BY <2>1, <2>3, SumsEquation
    <3> QED BY <3>2, <3>3, <3>4
  <2> QED BY <2>2, <2>3
<1>2. Inherited(P, A)
  BY <1>1 DEF Inherited
<1> HIDE DEF P
<1>3. A \in P
  BY <1>2, SubsetInduction
<1> QED BY <1>3 DEF P

LEMMA SumChosen ==
  ASSUME NEW f, NEW S, IsFiniteSet(S)
  PROVE  \E iter : Sums(iter, f, S) /\ Sum(f, S) = iter[S]
BY SumsExists DEF Sum

(* The sum of natural numbers is one, and any of them can be taken out     *)
(* first.                                                                  *)
Naturals(f, S) == \A x \in S : f[x] \in Nat

LEMMA SumsAreNatural ==
  ASSUME NEW f, NEW S, IsFiniteSet(S), NEW iter, Sums(iter, f, S), Naturals(f, S)
  PROVE  \A s \in SUBSET S : iter[s] \in Nat
<1> DEFINE P == {s \in SUBSET S : iter[s] \in Nat}
<1>1. ASSUME NEW s \in SUBSET S, \A x \in s : s \ {x} \in P
      PROVE  iter[s] \in Nat
  <2>1. CASE s = {}
    BY <2>1, SumsEquation
  <2>2. CASE s # {}
    <3> DEFINE x == One(s)
    <3>1. x \in s
      BY <2>2, OneOf
    <3>2. f[x] \in Nat /\ iter[s \ {x}] \in Nat
      BY <1>1, <3>1 DEF Naturals
    <3>3. iter[s] = f[x] + iter[s \ {x}]
      BY <2>2, SumsEquation
    <3> QED BY <3>2, <3>3
  <2> QED BY <2>1, <2>2
<1>2. Inherited(P, S)
  BY <1>1 DEF Inherited
<1> HIDE DEF P
<1>3. \A s \in SUBSET S : s \in P
  BY <1>2, SubsetInduction
<1> QED BY <1>3 DEF P

LEMMA SumsTakeAny ==
  ASSUME NEW f, NEW S, IsFiniteSet(S), NEW iter, Sums(iter, f, S), Naturals(f, S),
         NEW s \in SUBSET S, NEW y \in s
  PROVE  iter[s] = f[y] + iter[s \ {y}]
<1> DEFINE P == {t \in SUBSET S : \A z \in t : iter[t] = f[z] + iter[t \ {z}]}
<1>1. ASSUME NEW t \in SUBSET S, \A x \in t : t \ {x} \in P, NEW z \in t
      PROVE  iter[t] = f[z] + iter[t \ {z}]
  <2> DEFINE x == One(t)
             rest == (t \ {x}) \ {z}
  <2>1. x \in t
    BY OneOf
  <2>2. iter[t] = f[x] + iter[t \ {x}]
    BY SumsEquation
  <2>3. CASE x = z
    BY <2>2, <2>3
  <2>4. CASE x # z
    <3>1. z \in t \ {x} /\ x \in t \ {z} /\ rest = (t \ {z}) \ {x}
      BY <2>1, <2>4
    <3>2. iter[t \ {x}] = f[z] + iter[rest]
      BY <1>1, <2>1, <3>1
    <3>3. iter[t \ {z}] = f[x] + iter[rest]
      BY <1>1, <3>1
    <3>4. f[x] \in Nat /\ f[z] \in Nat
      BY <2>1 DEF Naturals
    <3>5. iter[rest] \in Nat
      BY SumsAreNatural
    <3> QED BY <2>2, <3>2, <3>3, <3>4, <3>5
  <2> QED BY <2>3, <2>4
<1>2. Inherited(P, S)
  BY <1>1 DEF Inherited
<1> HIDE DEF P
<1>3. s \in P
  BY <1>2, SubsetInduction
<1> QED BY <1>3 DEF P

(* Members that count for nothing can be left out. *)
CountForNothing(g, A, B) == \A x \in B \ A : g[x] = 0

Within(A, B) == A \subseteq B

LEMMA SumWithoutZeros ==
  ASSUME NEW f, NEW A, NEW g, NEW B, IsFiniteSet(B), Within(A, B), Naturals(g, B),
         Alike(f, g, A), CountForNothing(g, A, B)
  PROVE  Sum(f, A) = Sum(g, B)
<1>0. A \subseteq B
  BY DEF Within
<1>1. IsFiniteSet(A)
  BY <1>0, FS_Subset
<1>2. PICK iter : Sums(iter, f, A) /\ Sum(f, A) = iter[A]
  BY <1>1, SumChosen
<1>3. PICK jter : Sums(jter, g, B) /\ Sum(g, B) = jter[B]
  BY SumChosen
<1> DEFINE P == {s \in SUBSET B : A \subseteq s => jter[s] = iter[A]}
<1>4. ASSUME NEW s \in SUBSET B, \A x \in s : s \ {x} \in P, A \subseteq s
      PROVE  jter[s] = iter[A]
  <2>1. CASE s = A
    BY <1>0, <1>1, <1>2, <1>3, <2>1, SumsAgree
  <2>2. CASE s # A
    <3>1. PICK x \in s : x \notin A
      BY <1>4, <2>2
    <3>2. jter[s \ {x}] = iter[A]
      BY <1>4, <3>1
    <3>3. jter[s] = g[x] + jter[s \ {x}]
      BY <1>3, SumsTakeAny
    <3>4. g[x] = 0
      BY <3>1 DEF CountForNothing
    <3>5. jter[s \ {x}] \in Nat
      BY <1>3, SumsAreNatural
    <3> QED BY <3>2, <3>3, <3>4, <3>5
  <2> QED BY <2>1, <2>2
<1>5. Inherited(P, B)
  BY <1>4 DEF Inherited
<1> HIDE DEF P
<1>6. B \in P
  BY <1>5, SubsetInduction
<1> QED BY <1>0, <1>2, <1>3, <1>6 DEF P

(* None is greater than the sum. *)
LEMMA SumCoversEach ==
  ASSUME NEW f, NEW S, IsFiniteSet(S), Naturals(f, S), NEW x \in S
  PROVE  Sum(f, S) \in Nat /\ f[x] \in Nat /\ f[x] <= Sum(f, S)
<1>1. PICK iter : Sums(iter, f, S) /\ Sum(f, S) = iter[S]
  BY SumChosen
<1>2. iter[S] = f[x] + iter[S \ {x}]
  BY <1>1, SumsTakeAny
<1>3. iter[S] \in Nat /\ iter[S \ {x}] \in Nat
  BY <1>1, SumsAreNatural
<1>4. f[x] \in Nat
  BY DEF Naturals
<1> QED BY <1>1, <1>2, <1>3, <1>4

-----------------------------------------------------------------------------
(* The time that two packets share, for any list of packets on air.        *)
Share(e, f) == Cardinality(Instants(e) \cap Instants(f))

(* A packet as it is on air. *)
Airs == {e \in EventOnAir : e.end = e.start + e.kind.duration}

LEMMA AirsType ==
  ASSUME NEW e \in Airs
  PROVE  /\ e.start \in Nat /\ e.end \in Nat /\ e.start < e.end
         /\ e.end = e.start + e.kind.duration
         /\ e.kind \in Kind /\ e.kind.duration \in Nat /\ e.kind.power \in Nat
         /\ e.kind.duration > 0 /\ e.kind.power > 0
         /\ e.kind.sf \in SF
<1>1. e.start \in Nat /\ e.end \in Nat /\ e.kind \in Kind /\ e.end = e.start + e.kind.duration
  BY DEF Airs, EventOnAir
<1>2. /\ e.kind.duration \in Nat \ {0} /\ e.kind.power \in Nat \ {0} /\ e.kind.sf \in SF
  BY <1>1 DEF Kind
<1>3. e.kind.duration \in Nat /\ e.kind.duration > 0 /\ e.kind.power \in Nat /\ e.kind.power > 0
  BY <1>2
<1> QED BY <1>1, <1>2, <1>3

LEMMA SizeOfInterval ==
  ASSUME NEW lo \in Int, NEW hi \in Int
  PROVE  Cardinality(lo..(hi - 1)) = IF lo < hi THEN hi - lo ELSE 0
<1>1. hi - 1 \in Int
  OBVIOUS
<1>2. Cardinality(lo..(hi - 1)) = IF lo > hi - 1 THEN 0 ELSE (hi - 1) - lo + 1
  BY <1>1, FS_Interval
<1> QED BY <1>2

LEMMA ShareIsInterval ==
  ASSUME NEW e \in Airs, NEW f \in Airs
  PROVE  Share(e, f) = LET lo == IF e.start < f.start THEN f.start ELSE e.start
                           hi == IF e.end < f.end THEN e.end ELSE f.end
                       IN  IF lo < hi THEN hi - lo ELSE 0
<1> DEFINE lo == IF e.start < f.start THEN f.start ELSE e.start
           hi == IF e.end < f.end THEN e.end ELSE f.end
<1>1. e.start \in Nat /\ e.end \in Nat /\ f.start \in Nat /\ f.end \in Nat
  BY AirsType
<1>2. lo \in Int /\ hi \in Int
  BY <1>1
<1>3. Instants(e) \cap Instants(f) = lo..(hi - 1)
  BY <1>1 DEF Instants
<1> HIDE DEF lo, hi
<1>4. Share(e, f) = IF lo < hi THEN hi - lo ELSE 0
  BY <1>2, <1>3, SizeOfInterval DEF Share
<1> QED BY <1>4 DEF lo, hi

(* GetOverlapTime counts the instants that two packets share.              *)
LEMMA OverlapIsShare ==
  ASSUME NEW e \in Airs, NEW f \in Airs
  PROVE  GetOverlapTime(e, f) = Share(e, f) /\ Share(e, f) \in Nat /\ Share(e, f) = Share(f, e)
<1>1. /\ e.start \in Nat /\ e.end \in Nat /\ f.start \in Nat /\ f.end \in Nat
      /\ e.start < e.end /\ f.start < f.end
  BY AirsType
<1> QED BY <1>1, ShareIsInterval DEF GetOverlapTime

LEMMA ApartShareNothing ==
  ASSUME NEW e \in Airs, NEW f \in Airs, e.end <= f.start
  PROVE  Share(e, f) = 0 /\ Share(f, e) = 0
<1>1. /\ e.start \in Nat /\ e.end \in Nat /\ f.start \in Nat /\ f.end \in Nat
      /\ e.start < e.end /\ f.start < f.end
  BY AirsType
<1> QED BY <1>1, ShareIsInterval, OverlapIsShare

(* What packet i adds to the interference with packet id, and all that may *)
(* add to it.                                                              *)
Part(list, id, i) == Share(list[id], list[i]) * list[i].kind.power

Others(list, id, sf) ==
  {i \in (1..Len(list)) \ {id} : /\ list[i].kind.freq = list[id].kind.freq
                                 /\ list[i].kind.sf = sf}

Parts(list, id, S) == [i \in S |-> Part(list, id, i)]

EnergyOn(list, id, sf) == Sum(Parts(list, id, Others(list, id, sf)), Others(list, id, sf))

DestroyedOn(list, id) ==
  LET k == list[id].kind
  IN  \E sf \in SF : k.duration * k.power * Isolation[<<k.sf, sf>>].den
                       < EnergyOn(list, id, sf) * Isolation[<<k.sf, sf>>].num

OnAir(list) == list \in Seq(EventOnAir) /\ \A i \in 1..Len(list) : list[i] \in Airs

LEMMA PartsAreNatural ==
  ASSUME NEW list, OnAir(list), NEW id \in 1..Len(list), NEW S \in SUBSET (1..Len(list))
  PROVE  Naturals(Parts(list, id, S), S)
<1> SUFFICES ASSUME NEW i \in S PROVE Parts(list, id, S)[i] \in Nat
  BY DEF Naturals
<1>1. list[id] \in Airs /\ list[i] \in Airs
  BY DEF OnAir
<1>2. Share(list[id], list[i]) \in Nat /\ list[i].kind.power \in Nat
  BY <1>1, OverlapIsShare, AirsType
<1>3. Part(list, id, i) \in Nat
  BY <1>2 DEF Part
<1> QED BY <1>3 DEF Parts

LEMMA OthersAreFinite ==
  ASSUME NEW list, OnAir(list), NEW id, NEW sf
  PROVE  IsFiniteSet(Others(list, id, sf)) /\ Others(list, id, sf) \subseteq 1..Len(list)
<1>1. 1 \in Int /\ Len(list) \in Int
  BY DEF OnAir
<1>2. IsFiniteSet(1..Len(list))
  BY <1>1, FS_Interval
<1>3. Others(list, id, sf) \subseteq 1..Len(list)
  BY DEF Others
<1> QED BY <1>2, <1>3, FS_Subset

(* The two sums of the model in these terms. *)
AirSums(iter, S, id) ==
  iter = [s \in SUBSET S |->
            IF s = {} THEN 0
            ELSE Cardinality(Instants(air[id]) \cap Instants(air[One(s)])) * air[One(s)].kind.power
                   + iter[s \ {One(s)}]]

LEMMA AirSum ==
  ASSUME NEW id, NEW sf, NEW S, S = Others(air, id, sf)
  PROVE  EnergyOnAir(id, sf) = (CHOOSE iter : AirSums(iter, S, id))[S]
BY DEF EnergyOnAir, MapThenSumSet, MapThenFoldSet, AirSums, Others, One

RecordSums(iter, S, id) ==
  iter = [s \in SUBSET S |->
            IF s = {} THEN 0
            ELSE GetOverlapTime(air[id], air[One(s)]) * air[One(s)].kind.power
                   + iter[s \ {One(s)}]]

LEMMA RecordSum ==
  ASSUME NEW id, NEW sf, NEW S, S = InterferersOf(id, sf)
  PROVE  CumulativeEnergy(id, sf) = (CHOOSE iter : RecordSums(iter, S, id))[S]
BY DEF CumulativeEnergy, MapThenSumSet, MapThenFoldSet, RecordSums, One

LEMMA AirSumsAreSums ==
  ASSUME NEW id, NEW S, NEW iter
  PROVE  AirSums(iter, S, id) <=> Sums(iter, Parts(air, id, S), S)
<1> DEFINE term(i) == Cardinality(Instants(air[id]) \cap Instants(air[i])) * air[i].kind.power
           f == Parts(air, id, S)
           Left(s) == IF s = {} THEN 0 ELSE term(One(s)) + iter[s \ {One(s)}]
           Right(s) == IF s = {} THEN 0 ELSE f[One(s)] + iter[s \ {One(s)}]
<1>1. ASSUME NEW s \in SUBSET S
      PROVE  Left(s) = Right(s)
  <2>1. CASE s = {}
    BY <2>1
  <2>2. CASE s # {}
    <3>1. One(s) \in S
      BY <2>2, OneOf
    <3>2. f[One(s)] = term(One(s))
      BY <3>1 DEF Parts, Part, Share
    <3> QED BY <2>2, <3>2
  <2> QED BY <2>1, <2>2
<1>2. AirSums(iter, S, id) <=> iter = [s \in SUBSET S |-> Left(s)]
  BY DEF AirSums
<1>3. Sums(iter, f, S) <=> iter = [s \in SUBSET S |-> Right(s)]
  BY DEF Sums
<1> HIDE DEF Left, Right
<1>4. [s \in SUBSET S |-> Left(s)] = [s \in SUBSET S |-> Right(s)]
  BY <1>1
<1> QED BY <1>2, <1>3, <1>4

LEMMA RecordSumsAreSums ==
  ASSUME NEW id, NEW S, NEW iter, OnAir(air), id \in 1..Len(air), S \subseteq 1..Len(air)
  PROVE  RecordSums(iter, S, id) <=> Sums(iter, Parts(air, id, S), S)
<1> DEFINE term(i) == GetOverlapTime(air[id], air[i]) * air[i].kind.power
           f == Parts(air, id, S)
           Left(s) == IF s = {} THEN 0 ELSE term(One(s)) + iter[s \ {One(s)}]
           Right(s) == IF s = {} THEN 0 ELSE f[One(s)] + iter[s \ {One(s)}]
<1>1. ASSUME NEW s \in SUBSET S
      PROVE  Left(s) = Right(s)
  <2>1. CASE s = {}
    BY <2>1
  <2>2. CASE s # {}
    <3>1. One(s) \in S
      BY <2>2, OneOf
    <3>2. air[id] \in Airs /\ air[One(s)] \in Airs
      BY <3>1 DEF OnAir
    <3>3. GetOverlapTime(air[id], air[One(s)]) = Share(air[id], air[One(s)])
      BY <3>2, OverlapIsShare
    <3>4. f[One(s)] = term(One(s))
      BY <3>1, <3>3 DEF Parts, Part
    <3> QED BY <2>2, <3>4
  <2> QED BY <2>1, <2>2
<1>2. RecordSums(iter, S, id) <=> iter = [s \in SUBSET S |-> Left(s)]
  BY DEF RecordSums
<1>3. Sums(iter, f, S) <=> iter = [s \in SUBSET S |-> Right(s)]
  BY DEF Sums
<1> HIDE DEF Left, Right
<1>4. [s \in SUBSET S |-> Left(s)] = [s \in SUBSET S |-> Right(s)]
  BY <1>1
<1> QED BY <1>2, <1>3, <1>4

LEMMA EnergyOnAirIsSum ==
  ASSUME OnAir(air), NEW id \in 1..Len(air), NEW sf
  PROVE  EnergyOnAir(id, sf) = EnergyOn(air, id, sf)
<1> DEFINE S == Others(air, id, sf)
           f == Parts(air, id, S)
           chosen == CHOOSE iter : AirSums(iter, S, id)
<1>1. IsFiniteSet(S)
  BY OthersAreFinite
<1>2. PICK iter : Sums(iter, f, S) /\ Sum(f, S) = iter[S]
  BY <1>1, SumChosen
<1>3. AirSums(iter, S, id)
  BY <1>2, AirSumsAreSums
<1>4. AirSums(chosen, S, id)
  BY <1>3
<1> HIDE DEF chosen
<1>5. Sums(chosen, f, S)
  BY <1>4, AirSumsAreSums
<1>6. chosen[S] = iter[S]
  BY <1>1, <1>2, <1>5, SumsAgree DEF Alike
<1>7. EnergyOnAir(id, sf) = chosen[S]
  BY AirSum DEF chosen
<1> QED BY <1>2, <1>6, <1>7 DEF EnergyOn

(* The record holds whatever overlaps with a packet that ends now and is   *)
(* not longer than the threshold: the sums over both agree.                *)
LEMMA EnergyOfRecord ==
  ASSUME OnAir(air), TypeOK, YoungKept, NEW id \in 1..Len(air), NEW sf,
         air[id].end = now, air[id].kind.duration <= oldEventThreshold
  PROVE  CumulativeEnergy(id, sf) = EnergyOn(air, id, sf)
<1> DEFINE A == InterferersOf(id, sf)
           B == Others(air, id, sf)
           f == Parts(air, id, A)
           g == Parts(air, id, B)
           chosen == CHOOSE iter : RecordSums(iter, A, id)
<1>1. IsFiniteSet(B) /\ B \subseteq 1..Len(air)
  BY OthersAreFinite
<1>2. A \subseteq B
  BY OnAirType DEF InterferersOf, Others
<1>3. IsFiniteSet(A) /\ A \subseteq 1..Len(air)
  BY <1>1, <1>2, FS_Subset
<1>4. CumulativeEnergy(id, sf) = Sum(f, A)
  <2>1. PICK iter : Sums(iter, f, A) /\ Sum(f, A) = iter[A]
    BY <1>3, SumChosen
  <2>2. RecordSums(iter, A, id)
    BY <1>3, <2>1, RecordSumsAreSums
  <2>3. RecordSums(chosen, A, id)
    BY <2>2
  <2> HIDE DEF chosen
  <2>4. Sums(chosen, f, A)
    BY <1>3, <2>3, RecordSumsAreSums
  <2>5. chosen[A] = iter[A]
    BY <1>3, <2>1, <2>4, SumsAgree DEF Alike
  <2>6. CumulativeEnergy(id, sf) = chosen[A]
    BY RecordSum DEF chosen
  <2> QED BY <2>1, <2>5, <2>6
<1>5. ASSUME NEW i \in B \ A
      PROVE  g[i] = 0
  <2>1. i \in 1..Len(air) /\ i \notin m_events
    BY <1>1, <1>5 DEF InterferersOf, Others
  <2>2. Old(air, i)
    BY <2>1 DEF YoungKept
  <2>3. air[id] \in Airs /\ air[i] \in Airs
    BY <2>1 DEF OnAir
  <2>4. air[i].end <= air[id].start
    <3>1. /\ air[i].end \in Nat /\ air[id].start \in Nat /\ air[id].kind.duration \in Nat
          /\ air[id].end = air[id].start + air[id].kind.duration
      BY <2>3, AirsType
    <3>2. air[i].end + oldEventThreshold < now
      BY <2>2 DEF Old
    <3> DEFINE end == air[i].end
               start == air[id].start
               duration == air[id].kind.duration
    <3>3. end \in Nat /\ start \in Nat /\ duration \in Nat
      BY <3>1
    <3>4. end + oldEventThreshold < start + duration
      BY <3>1, <3>2
    <3>5. duration <= oldEventThreshold /\ oldEventThreshold \in Nat
      BY RecordAssumption
    <3> HIDE DEF end, start, duration
    <3>6. end <= start
      BY <3>3, <3>4, <3>5
    <3> QED BY <3>6 DEF end, start
  <2>5. Share(air[id], air[i]) = 0
    BY <2>3, <2>4, ApartShareNothing
  <2>6. air[i].kind.power \in Nat
    BY <2>3, AirsType
  <2>7. Part(air, id, i) = 0
    BY <2>5, <2>6 DEF Part
  <2> QED BY <1>5, <2>7 DEF Parts
<1>6. Alike(f, g, A)
  BY <1>2 DEF Alike, Parts
<1>7. Naturals(g, B)
  BY <1>1, PartsAreNatural
<1> HIDE DEF f, g, A, B
<1>8. CountForNothing(g, A, B)
  BY <1>5 DEF CountForNothing
<1>9. Sum(f, A) = Sum(g, B)
  <2>1. Within(A, B)
    BY <1>2 DEF Within
  <2> QED BY <1>1, <2>1, <1>6, <1>7, <1>8, SumWithoutZeros
<1> QED BY <1>4, <1>9 DEF EnergyOn, g, B

(* A packet that starts when this one has ended changes nothing.           *)
Prolongs(longer, list) ==
  /\ Len(longer) = Len(list) + 1
  /\ \A i \in 1..Len(list) : longer[i] = list[i]

LEMMA EnergyAsBefore ==
  ASSUME NEW list, OnAir(list), NEW longer, OnAir(longer), Prolongs(longer, list),
         NEW id \in 1..Len(list), NEW sf, list[id].end <= longer[Len(list) + 1].start
  PROVE  EnergyOn(longer, id, sf) = EnergyOn(list, id, sf)
<1> DEFINE A == Others(list, id, sf)
           B == Others(longer, id, sf)
           f == Parts(list, id, A)
           g == Parts(longer, id, B)
           n == Len(list) + 1
<1>1. /\ IsFiniteSet(B) /\ B \subseteq 1..Len(longer) /\ A \subseteq 1..Len(list)
  BY OthersAreFinite
<1>2. Len(list) \in Nat /\ id \in 1..Len(longer) /\ n \in 1..Len(longer)
  BY DEF OnAir, Prolongs
<1>3. \A i \in 1..Len(longer) : i \in 1..Len(list) \/ i = n
  BY <1>2 DEF Prolongs
<1>4. \A i \in 1..Len(list) : i \in 1..Len(longer)
  BY <1>2 DEF Prolongs
<1>5. A \subseteq B
  BY <1>4 DEF Others, Prolongs
<1>6. B \ A \subseteq {n}
  BY <1>1, <1>3 DEF Others, Prolongs
<1>7. Part(longer, id, n) = 0
  <2>1. longer[id] \in Airs /\ longer[n] \in Airs
    BY <1>2 DEF OnAir
  <2>2. Share(longer[id], longer[n]) = 0
    BY <2>1, ApartShareNothing DEF Prolongs
  <2>3. longer[n].kind.power \in Nat
    BY <2>1, AirsType
  <2> QED BY <2>2, <2>3 DEF Part
<1>8. CountForNothing(g, A, B)
  BY <1>6, <1>7 DEF Parts, CountForNothing
<1>9. Alike(f, g, A)
  BY <1>1, <1>5 DEF Alike, Parts, Part, Prolongs
<1>10. Naturals(g, B)
  BY <1>1, <1>2, PartsAreNatural
<1> HIDE DEF f, g, A, B
<1>11. Sum(f, A) = Sum(g, B)
  <2>1. Within(A, B)
    BY <1>5 DEF Within
  <2> QED BY <1>1, <2>1, <1>8, <1>9, <1>10, SumWithoutZeros
<1> QED BY <1>11 DEF EnergyOn, f, g, A, B

LEMMA EnergyIsNatural ==
  ASSUME NEW list, OnAir(list), NEW id \in 1..Len(list), NEW sf
  PROVE  EnergyOn(list, id, sf) \in Nat
<1> DEFINE S == Others(list, id, sf)
           f == Parts(list, id, S)
<1>1. IsFiniteSet(S) /\ S \subseteq 1..Len(list)
  BY OthersAreFinite
<1>2. Naturals(f, S)
  BY <1>1, PartsAreNatural
<1>3. PICK iter : Sums(iter, f, S) /\ Sum(f, S) = iter[S]
  BY <1>1, SumChosen
<1>4. iter[S] \in Nat
  BY <1>1, <1>2, <1>3, SumsAreNatural
<1> QED BY <1>3, <1>4 DEF EnergyOn

LEMMA IsolationType ==
  ASSUME NEW a \in SF, NEW b \in SF
  PROVE  /\ Isolation[<<a, b>>].num \in Nat /\ Isolation[<<a, b>>].den \in Nat
         /\ Isolation[<<a, b>>].num > 0 /\ Isolation[<<a, b>>].den > 0
<1>1. Isolation[<<a, b>>] \in [num : Nat \ {0}, den : Nat \ {0}]
  BY IsolationAssumption
<1> QED BY <1>1

-----------------------------------------------------------------------------
(* A verdict is on a packet that has ended, and is the one of all packets  *)
(* on air.  A packet that is received has no verdict yet, so the only      *)
(* actions that matter are the end of a packet, which decides on the       *)
(* record, and the start of another, which comes too late to count.        *)
Decided == {"interfered", "forwarded", "not uplink"}

AsOnAir(i) == fate[i] = "interfered" <=> DestroyedOn(air, i)

FateInv ==
  \A i \in 1..Len(air) :
    fate[i] \in Decided =>
      /\ air[i].end <= now
      /\ air[i].kind.duration <= oldEventThreshold => AsOnAir(i)

LEMMA InvOnAir ==
  ASSUME IInv
  PROVE  OnAir(air) /\ fate \in Seq(Fate) /\ Len(fate) = Len(air)
<1>1. air \in Seq(EventOnAir) /\ \A i \in 1..Len(air) : air[i] \in EventOnAir
  BY OnAirType DEF IInv
<1>2. \A i \in 1..Len(air) : air[i] \in Airs
  BY <1>1 DEF IInv, Timing, Airs
<1> QED BY <1>1, <1>2 DEF OnAir, IInv, TypeOK

LEMMA AddAsOnAir ==
  ASSUME IInv, FateInv, NEW k \in Kind, Add(k), now' = now, OnAir(air'),
         NEW why \in Fate \ Decided, fate' = Append(fate, why)
  PROVE  FateInv'
<1> DEFINE n == Len(air) + 1
<1>1. /\ Len(air') = n /\ Len(air) \in Nat
      /\ \A i \in 1..Len(air) : air'[i] = air[i]
      /\ air'[n] = Event(k)
  BY AddKeepsYoung DEF IInv
<1>2. fate'[n] = why /\ \A i \in 1..Len(air) : fate'[i] = fate[i]
  BY <1>1, InvOnAir
<1> SUFFICES ASSUME NEW i \in 1..n, fate'[i] \in Decided
             PROVE  /\ air'[i].end <= now
                    /\ air'[i].kind.duration <= oldEventThreshold => AsOnAir(i)'
  BY <1>1 DEF FateInv
<1>3. i \in 1..Len(air)
  <2>1. i # n
    BY <1>2
  <2> QED BY <1>1, <2>1
<1>4. air'[i] = air[i] /\ fate'[i] = fate[i]
  BY <1>1, <1>2, <1>3
<1>5. /\ air[i].end <= now
      /\ air[i].kind.duration <= oldEventThreshold => AsOnAir(i)
  BY <1>3, <1>4 DEF FateInv
<1>6. air[i].end <= air'[n].start
  BY <1>1, <1>5 DEF Event
<1>7. \A sf : EnergyOn(air', i, sf) = EnergyOn(air, i, sf)
  <2>1. Prolongs(air', air)
    BY <1>1 DEF Prolongs
  <2>2. OnAir(air) /\ i \in 1..Len(air)
    BY <1>3, InvOnAir
  <2> QED BY <1>6, <2>1, <2>2, EnergyAsBefore
<1>8. DestroyedOn(air', i) <=> DestroyedOn(air, i)
  BY <1>4, <1>7 DEF DestroyedOn
<1>9. AsOnAir(i)' <=> AsOnAir(i)
  BY <1>4, <1>8 DEF AsOnAir
<1> QED BY <1>4, <1>5, <1>9

(* The verdict of EndReceive. *)
LEMMA VerdictAsOnAir ==
  ASSUME IInv, NEW id \in 1..Len(air), air[id].end = now,
         air[id].kind.duration <= oldEventThreshold
  PROVE  IsDestroyedByInterference(id) <=> DestroyedOn(air, id)
<1> DEFINE k == air[id].kind
           signal == k.duration * k.power
<1>1. \A sf : CumulativeEnergy(id, sf) = EnergyOn(air, id, sf)
  BY InvOnAir, EnergyOfRecord DEF IInv
<1>2. signal \in Int /\ k.sf \in SF
  <2>1. air[id] \in Airs
    BY InvOnAir DEF OnAir
  <2>2. k.duration \in Nat /\ k.power \in Nat /\ k.sf \in SF
    BY <2>1, AirsType
  <2> QED BY <2>2
<1> HIDE DEF signal
<1>3. ASSUME NEW sf \in SF
      PROVE  ~ Survives(signal, CumulativeEnergy(id, sf), Isolation[<<k.sf, sf>>])
             <=> signal * Isolation[<<k.sf, sf>>].den
                   < EnergyOn(air, id, sf) * Isolation[<<k.sf, sf>>].num
  <2>1. EnergyOn(air, id, sf) \in Int
    BY EnergyIsNatural, InvOnAir
  <2>2. Isolation[<<k.sf, sf>>].num \in Int /\ Isolation[<<k.sf, sf>>].den \in Int
    BY <1>2, IsolationType
  <2> DEFINE x == signal * Isolation[<<k.sf, sf>>].den
             y == EnergyOn(air, id, sf) * Isolation[<<k.sf, sf>>].num
  <2>3. x \in Int /\ y \in Int
    BY <1>2, <2>1, <2>2
  <2>4. Survives(signal, CumulativeEnergy(id, sf), Isolation[<<k.sf, sf>>]) <=> x >= y
    BY <1>1 DEF Survives
  <2> HIDE DEF x, y
  <2>5. ~ (x >= y) <=> x < y
    BY <2>3
  <2> QED BY <2>4, <2>5 DEF x, y
<1> QED BY <1>3 DEF IsDestroyedByInterference, DestroyedOn, signal

LEMMA DecideAsOnAir ==
  ASSUME IInv, FateInv, NEW id \in receiving, EndReceive(id)
  PROVE  FateInv'
<1>1. /\ air' = air /\ now' = now /\ id \in 1..Len(air) /\ air[id].end = now
      /\ fate \in Seq(Fate) /\ Len(fate) = Len(air)
  BY InvOnAir, OnAirType DEF EndReceive, Due, IInv
<1>2. fate' = [fate EXCEPT ![id] = IF IsDestroyedByInterference(id)
                                   THEN "interfered"
                                   ELSE Receive(air[id].kind)]
  BY DEF EndReceive
<1>3. \A i \in 1..Len(air) : i # id => fate'[i] = fate[i]
  BY <1>1, <1>2
<1>4. fate'[id] = "interfered" <=> IsDestroyedByInterference(id)
  <2>1. fate'[id] = IF IsDestroyedByInterference(id)
                    THEN "interfered"
                    ELSE Receive(air[id].kind)
    BY <1>1, <1>2
  <2>2. Receive(air[id].kind) # "interfered"
    BY DEF Receive
  <2> QED BY <2>1, <2>2
<1>5. ASSUME NEW i \in 1..Len(air), fate'[i] \in Decided
      PROVE  /\ air[i].end <= now
             /\ air[i].kind.duration <= oldEventThreshold
                => (fate'[i] = "interfered" <=> DestroyedOn(air, i))
  <2>1. CASE i # id
    BY <1>3, <1>5, <2>1 DEF FateInv, AsOnAir
  <2>2. CASE i = id
    <3>1. air[i].end <= now
      BY <1>1, <2>2, OnAirType DEF IInv
    <3>2. ASSUME air[id].kind.duration <= oldEventThreshold
          PROVE  IsDestroyedByInterference(id) <=> DestroyedOn(air, id)
      BY <1>1, <3>2, VerdictAsOnAir
    <3> QED BY <1>4, <2>2, <3>1, <3>2
  <2> QED BY <2>1, <2>2
<1> QED BY <1>1, <1>5 DEF FateInv, AsOnAir

LEMMA NextFate == IInv /\ IInv' /\ FateInv /\ [Next]_vars => FateInv'
<1> SUFFICES ASSUME IInv, IInv', FateInv, [Next]_vars PROVE FateInv'
  OBVIOUS
<1>1. OnAir(air')
  <2>1. air' \in Seq(EventOnAir) /\ \A i \in 1..Len(air') : air'[i] \in EventOnAir
    <3>1. air' \in Seq(EventOnAir)
      BY DEF IInv, TypeOK, EventOnAir
    <3> QED BY <3>1
  <2>2. \A i \in 1..Len(air') : air'[i] \in Airs
    BY <2>1 DEF IInv, Timing, Airs
  <2> QED BY <2>1, <2>2 DEF OnAir
<1>2. ASSUME NEW k \in Uplink \cup Downlink, StartReceive(k)
      PROVE  FateInv'
  <2>1. k \in Kind /\ Add(k) /\ now' = now
    BY <1>2, KindsHeard DEF StartReceive
  <2>2. PICK why \in {"no demodulator", "under sensitivity", "receiving"} :
          fate' = Append(fate, why)
    BY <1>2 DEF StartReceive, Dropped, Lock
  <2>3. why \in Fate \ Decided
    BY <2>2 DEF Fate, Decided
  <2> QED BY <1>1, <2>1, <2>2, <2>3, AddAsOnAir
<1>3. ASSUME NEW k \in Sent, Send(k)
      PROVE  FateInv'
  <2>1. k \in Kind /\ Add(k) /\ now' = now /\ fate' = Append(fate, "sent")
    BY <1>3, KindsHeard DEF Send
  <2>2. "sent" \in Fate \ Decided
    BY DEF Fate, Decided
  <2> QED BY <1>1, <2>1, <2>2, AddAsOnAir
<1>4. ASSUME NEW id \in receiving, EndReceive(id)
      PROVE  FateInv'
  BY <1>4, DecideAsOnAir
<1>5. ASSUME UNCHANGED << air, fate >>, now' \in {now, now + 1}
      PROVE  FateInv'
  <2> SUFFICES ASSUME NEW i \in 1..Len(air), fate[i] \in Decided
               PROVE  /\ air[i].end <= now'
                      /\ air[i].kind.duration <= oldEventThreshold => AsOnAir(i)'
    BY <1>5 DEF FateInv
  <2>1. /\ air[i].end <= now
        /\ air[i].kind.duration <= oldEventThreshold => AsOnAir(i)
    BY DEF FateInv
  <2>2. air[i].end \in Nat /\ now \in Nat
    BY OnAirType DEF IInv
  <2>3. air[i].end <= now'
    BY <1>5, <2>1, <2>2
  <2> QED BY <1>5, <2>1, <2>3 DEF AsOnAir
<1>6. CASE \E id \in airing : TxFinished(id)
  BY <1>5, <1>6 DEF TxFinished
<1>7. CASE Tick
  BY <1>5, <1>7 DEF Tick
<1>8. CASE UNCHANGED vars
  BY <1>5, <1>8 DEF vars
<1> QED BY <1>2, <1>3, <1>4, <1>6, <1>7, <1>8 DEF Next

LEMMA SpecFate == Spec => [](IInv /\ FateInv)
<1>1. Init => FateInv
  BY DEF Init, FateInv
<1> QED BY <1>1, SpecInv, NextFate, PTL DEF Spec

LEMMA DestroyedOnAirIs ==
  ASSUME IInv, NEW i \in 1..Len(air)
  PROVE  DestroyedOnAir(i) <=> DestroyedOn(air, i)
<1>1. \A sf : EnergyOnAir(i, sf) = EnergyOn(air, i, sf)
  BY InvOnAir, EnergyOnAirIsSum
<1> QED BY <1>1 DEF DestroyedOnAir, DestroyedOn

(* The verdict on a packet no longer than the threshold is the one that    *)
(* all packets ever on air give: what the record forgets, and what comes   *)
(* later, cannot change it.                                                *)
THEOREM VerdictIsOnAir == Spec => []FateAsOnAir
<1>1. IInv /\ FateInv => FateAsOnAir
  <2> SUFFICES ASSUME IInv, FateInv, NEW i \in 1..Len(air),
                      air[i].kind.duration <= oldEventThreshold, fate[i] \in Decided
               PROVE  fate[i] = "interfered" <=> DestroyedOnAir(i)
    BY DEF FateAsOnAir, Decided
  <2>1. AsOnAir(i)
    BY DEF FateInv
  <2> QED BY <2>1, DestroyedOnAirIs DEF AsOnAir
<1> QED BY <1>1, SpecFate, PTL

-----------------------------------------------------------------------------
(* Products of natural numbers, as the captures need them. *)
LEMMA Product ==
  ASSUME NEW a \in Nat, NEW b \in Nat
  PROVE  a * b \in Nat /\ a * b = b * a
OBVIOUS

LEMMA Grows ==
  ASSUME NEW a \in Nat, NEW b \in Nat, NEW c \in Nat, a <= b
  PROVE  c * a <= c * b
<1>1. PICK d \in Nat : b = a + d
  <2>1. b - a \in Nat /\ b = a + (b - a)
    OBVIOUS
  <2> QED BY <2>1
<1>2. c * b = c * a + c * d
  BY <1>1
<1> QED BY <1>2, Product

LEMMA Cancels ==
  ASSUME NEW a \in Nat, NEW b \in Nat, NEW c \in Nat, c > 0, c * a <= c * b
  PROVE  a <= b
<1> SUFFICES ASSUME b + 1 <= a
             PROVE  FALSE
  OBVIOUS
<1>1. c * (b + 1) <= c * a
  BY Grows
<1>2. c * (b + 1) = c * b + c
  OBVIOUS
<1> QED BY <1>1, <1>2, Product

LEMMA Associates ==
  ASSUME NEW a \in Nat, NEW b \in Nat, NEW c \in Nat
  PROVE  a * (b * c) = (a * b) * c
OBVIOUS

(* Neither of two captures the other beyond what the isolation allows.     *)
LEMMA NeitherCaptures ==
  ASSUME NEW x \in Nat, NEW y \in Nat, NEW z \in Nat, NEW p \in Nat, NEW q \in Nat,
         q > 0, z * q <= x * p, z * p <= y * q
  PROVE  z * z <= x * y
<1>1. z * (z * q) <= z * (x * p)
  BY Grows, Product
<1>2. x * (z * p) <= x * (y * q)
  BY Grows, Product
<1>3. z * (x * p) = x * (z * p)
  <2>1. z * (x * p) = (z * x) * p /\ x * (z * p) = (x * z) * p
    BY Associates
  <2> QED BY <2>1, Product
<1>4. z * (z * q) <= x * (y * q)
  BY <1>1, <1>2, <1>3, Product
<1>5. z * (z * q) = q * (z * z) /\ x * (y * q) = q * (x * y)
  BY Associates, Product
<1>6. q * (z * z) <= q * (x * y)
  BY <1>4, <1>5
<1> QED BY <1>6, Cancels, Product

(* A packet that got through was not drowned by any one of the others.     *)
LEMMA NotDrowned ==
  ASSUME NEW list, OnAir(list), NEW i \in 1..Len(list), NEW j \in 1..Len(list), i # j,
         list[i].kind.freq = list[j].kind.freq, list[i].kind.sf = list[j].kind.sf,
         ~ DestroyedOn(list, i)
  PROVE  LET ratio == Isolation[<<list[i].kind.sf, list[i].kind.sf>>]
         IN  (ratio.num * Share(list[i], list[j])) * list[j].kind.power
               <= (ratio.den * list[i].kind.duration) * list[i].kind.power
<1> DEFINE a == list[i].kind
           ratio == Isolation[<<a.sf, a.sf>>]
           num == ratio.num
           den == ratio.den
           S == Others(list, i, a.sf)
           f == Parts(list, i, S)
           energy == EnergyOn(list, i, a.sf)
           share == Share(list[i], list[j])
           power == list[j].kind.power
<1>1. list[i] \in Airs /\ list[j] \in Airs
  BY DEF OnAir
<1>2. /\ a.sf \in SF /\ a.duration \in Nat /\ a.power \in Nat /\ power \in Nat
      /\ share \in Nat
  BY <1>1, AirsType, OverlapIsShare
<1>3. num \in Nat /\ den \in Nat
  BY <1>2, IsolationType
<1>4. ~ (a.duration * a.power * den < energy * num)
  BY <1>2 DEF DestroyedOn
<1>5. energy \in Nat /\ share * power <= energy
  <2>1. j \in S
    BY DEF Others
  <2>2. IsFiniteSet(S) /\ Naturals(f, S)
    BY OthersAreFinite, PartsAreNatural
  <2>3. f[j] = share * power
    BY <2>1 DEF Parts, Part
  <2>4. Sum(f, S) \in Nat /\ f[j] <= Sum(f, S)
    BY <2>1, <2>2, SumCoversEach
  <2> HIDE DEF f
  <2> QED BY <2>3, <2>4 DEF EnergyOn, f
<1> HIDE DEF a, num, den, share, power, energy
<1> DEFINE d == a.duration
           p == a.power
<1>6. d \in Nat /\ p \in Nat
  BY <1>2
<1> HIDE DEF d, p
<1>7. energy * num <= (d * p) * den
  <2>1. (d * p) * den \in Nat /\ energy * num \in Nat
    BY <1>3, <1>5, <1>6, Product
  <2>2. ~ ((d * p) * den < energy * num)
    BY <1>4 DEF d, p
  <2> QED BY <2>1, <2>2
<1>8. (num * share) * power <= energy * num
  <2>1. share * power \in Nat
    BY <1>2, Product
  <2>2. num * (share * power) <= num * energy
    BY <1>3, <1>5, <2>1, Grows
  <2>3. num * (share * power) = (num * share) * power
    BY <1>2, <1>3, Associates
  <2> QED BY <1>3, <1>5, <2>2, <2>3, Product
<1>9. (d * p) * den = (den * d) * p
  <2>1. (d * p) * den = den * (d * p)
    BY <1>3, <1>6, Product
  <2> QED BY <1>3, <1>6, <2>1, Associates
<1>10. (num * share) * power <= (den * d) * p
  <2>1. num * share \in Nat /\ den * d \in Nat
    BY <1>2, <1>3, <1>6, Product
  <2>2. (num * share) * power \in Nat /\ (den * d) * p \in Nat /\ energy * num \in Nat
    BY <1>2, <1>3, <1>5, <1>6, <2>1, Product
  <2> QED BY <1>7, <1>8, <1>9, <2>2
<1> QED BY <1>10 DEF a, num, den, share, power, d, p

(* Two packets of one spreading factor on one frequency that both got      *)
(* through overlap for no more than the share of their times on air that   *)
(* the isolation allows, whatever their powers.                            *)
THEOREM NoneCapturesTheOther == Spec => []NoMutualCapture
<1>1. IInv /\ FateInv => NoMutualCapture
  <2> DEFINE Through == {id \in 1..Len(air) : fate[id] \in {"forwarded", "not uplink"}}
  <2> SUFFICES ASSUME IInv, FateInv, NEW i \in Through, NEW j \in Through, i # j,
                      air[i].kind.freq = air[j].kind.freq, air[i].kind.sf = air[j].kind.sf,
                      air[i].kind.duration <= oldEventThreshold,
                      air[j].kind.duration <= oldEventThreshold
               PROVE  LET ratio == Isolation[<<air[i].kind.sf, air[i].kind.sf>>]
                          overlap == Share(air[i], air[j])
                      IN  (ratio.num * overlap) * (ratio.num * overlap)
                            <= (ratio.den * air[i].kind.duration) * (ratio.den * air[j].kind.duration)
    BY DEF NoMutualCapture, Share
  <2> DEFINE ratio == Isolation[<<air[i].kind.sf, air[i].kind.sf>>]
             p == air[i].kind.power
             q == air[j].kind.power
             x == ratio.den * air[i].kind.duration
             y == ratio.den * air[j].kind.duration
             z == ratio.num * Share(air[i], air[j])
  <2>1. i \in 1..Len(air) /\ j \in 1..Len(air) /\ OnAir(air)
    BY InvOnAir
  <2>2. ~ DestroyedOn(air, i) /\ ~ DestroyedOn(air, j)
    BY DEF FateInv, AsOnAir, Decided
  <2>3. z * q <= x * p
    BY <2>1, <2>2, NotDrowned
  <2>4. air[i] \in Airs /\ air[j] \in Airs
    BY <2>1 DEF OnAir
  <2>5. z * p <= y * q
    <3>1. Share(air[i], air[j]) = Share(air[j], air[i])
      BY <2>4, OverlapIsShare
    <3> QED BY <2>1, <2>2, <3>1, NotDrowned
  <2>6. x \in Nat /\ y \in Nat /\ z \in Nat /\ p \in Nat /\ q \in Nat /\ q > 0
    <3>1. /\ air[i].kind.sf \in SF /\ p \in Nat /\ q \in Nat /\ q > 0
          /\ air[i].kind.duration \in Nat /\ air[j].kind.duration \in Nat
      BY <2>4, AirsType
    <3>2. Share(air[i], air[j]) \in Nat
      BY <2>4, OverlapIsShare
    <3>3. ratio.num \in Nat /\ ratio.den \in Nat
      BY <3>1, IsolationType
    <3> HIDE DEF ratio
    <3> QED BY <3>1, <3>2, <3>3, Product
  <2> HIDE DEF x, y, z, p, q
  <2>7. z * z <= x * y
    BY <2>3, <2>5, <2>6, NeitherCaptures
  <2> QED BY <2>7 DEF x, y, z
<1> QED BY <1>1, SpecFate, PTL
=============================================================================

-------------------------- MODULE GatewayReception --------------------------
(***************************************************************************)
(* The receiving side of one gateway: the reception paths of               *)
(* GatewayLoraPhy, the record of interferers of its LoraInterferenceHelper,*)
(* and the filter of GatewayLoraMac before the network server.             *)
(*                                                                         *)
(* air holds every packet the gateway has ever heard or sent, in order:    *)
(* the number of a packet stands for its Event.  Powers are linear and     *)
(* whole, the isolation in dB is a ratio of whole numbers.                 *)
(***************************************************************************)
EXTENDS Integers, Sequences, FiniteSets, FiniteSetsExt

CONSTANTS
  frequencies,         \* of the reception paths, dealt out in turn
  maxReceptionPaths,   \* 8
  SF,                  \* spreading factors
  sensitivity,         \* SF |-> least power of a packet that can be received
  Isolation,           \* <<SF, SF of interferers>> |-> [num |-> _, den |-> _]
  Uplink, Downlink,    \* kinds of packets heard: [power, sf, freq, duration]
  Sent,                \* kinds of packets sent
  oldEventThreshold,   \* 2 s
  MaxEvents,           \* events recorded before old ones are erased: 100
  MaxTime, MaxPackets  \* bounds: end of time, packets on air in all

Kind == [power : Nat \ {0}, sf : SF, freq : Nat, duration : Nat \ {0}]

ASSUME PathAssumption ==
  /\ frequencies \in Seq(Nat) /\ Len(frequencies) > 0
  /\ maxReceptionPaths \in Nat \ {0}
ASSUME PacketAssumption ==
  /\ sensitivity \in [SF -> Nat]
  /\ Uplink \subseteq Kind /\ Downlink \subseteq Kind /\ Sent \subseteq Kind
ASSUME IsolationAssumption ==
  Isolation \in [SF \X SF -> [num : Nat \ {0}, den : Nat \ {0}]]
ASSUME RecordAssumption ==
  /\ oldEventThreshold \in Nat /\ MaxEvents \in Nat
  /\ MaxTime \in Nat /\ MaxPackets \in Nat

Path == 1..maxReceptionPaths

(* ConfigureForEuRegion of the LoraMacHelper. *)
GetFrequency(p) == frequencies[((p - 1) % Len(frequencies)) + 1]

VARIABLES
  now,
  air,                       \* packets, in the order in which they start
  fate,                      \* of each packet
  m_events,                  \* numbers of the packets the helper records
  m_event,                   \* path |-> packet it is locked on, 0 if it is free
  m_occupiedReceptionPaths,
  receiving,                 \* packets with an EndReceive event
  airing,                    \* packets with a TxFinished event
  m_isTransmitting

vars == << now, air, fate, m_events, m_event, m_occupiedReceptionPaths, receiving,
           airing, m_isTransmitting >>

-----------------------------------------------------------------------------
(* An event of the LoraInterferenceHelper. *)
Event(k) == [kind |-> k, start |-> now, end |-> now + k.duration]

(* Old events within a list of packets. *)
OldAtOnce(list, i) == list[i].end < now

Old(list, i) == list[i].end + oldEventThreshold < now

(* CleanOldEvents erases an event and steps over the next one without a    *)
(* look: of consecutive old events every second one stays.                 *)
RunUpTo(list, ids, i) ==
  {j \in ids : j <= i /\ \A x \in ids : j <= x /\ x <= i => Old(list, x)}

Erased(list, ids) == {i \in ids : Cardinality(RunUpTo(list, ids, i)) % 2 = 1}

(* Add of the LoraInterferenceHelper. *)
Add(k) ==
  LET id == Len(air) + 1
      recorded == m_events \cup {id}
  IN  /\ air' = Append(air, Event(k))
      /\ m_events' = IF Cardinality(recorded) > MaxEvents
                     THEN recorded \ Erased(air', recorded)
                     ELSE recorded

-----------------------------------------------------------------------------
(* GetOverlapTime, with its four cases. *)
OverlapOfStarts(e1, e2) ==
  IF e1.start < e2.start
  THEN IF e1.end < e2.start THEN 0 ELSE e2.end - e2.start
  ELSE IF e2.end < e1.start THEN 0 ELSE e1.end - e1.start

GetOverlapTime(e1, e2) ==
  IF e1.start < e2.start
  THEN IF e1.end < e2.start THEN 0
       ELSE IF e1.end >= e2.end THEN e2.end - e2.start ELSE e1.end - e2.start
  ELSE IF e2.end < e1.start THEN 0
       ELSE IF e2.end >= e1.end THEN e1.end - e1.start ELSE e2.end - e1.start

InterferersOf(id, sf) ==
  {i \in m_events \ {id} : /\ air[i].kind.freq = air[id].kind.freq
                           /\ air[i].kind.sf = sf}

CumulativeEnergy(id, sf) ==
  MapThenSumSet(LAMBDA i : GetOverlapTime(air[id], air[i]) * air[i].kind.power,
                InterferersOf(id, sf))

(* signal / interference >= num / den *)
InvertedIsolation(signal, interference, ratio) ==
  signal * ratio.num >= interference * ratio.den

Survives(signal, interference, ratio) == signal * ratio.den >= interference * ratio.num

IsDestroyedByInterference(id) ==
  LET k == air[id].kind
  IN  \E sf \in SF :
        ~ Survives(k.duration * k.power, CumulativeEnergy(id, sf), Isolation[<<k.sf, sf>>])

-----------------------------------------------------------------------------
CandidatesLocked(k) == {p \in Path : GetFrequency(p) = k.freq}

Candidates(k) == {p \in Path : GetFrequency(p) = k.freq /\ m_event[p] = 0}

Dropped(why) ==
  /\ fate' = Append(fate, why)
  /\ UNCHANGED << m_event, m_occupiedReceptionPaths, receiving >>

Lock(p) ==
  /\ m_event' = [m_event EXCEPT ![p] = Len(air) + 1]
  /\ m_occupiedReceptionPaths' = m_occupiedReceptionPaths + 1
  /\ receiving' = receiving \cup {Len(air) + 1}
  /\ fate' = Append(fate, "receiving")

(* A packet begins to arrive.  It is recorded as an interferer whatever    *)
(* becomes of it.                                                          *)
StartReceive(k) ==
  /\ Len(air) < MaxPackets /\ now + k.duration <= MaxTime
  /\ Add(k)
  /\ \/ Candidates(k) = {} /\ Dropped("no demodulator")
     \/ /\ Candidates(k) # {}
        /\ k.power < sensitivity[k.sf]
        /\ Dropped("under sensitivity")
     \/ /\ Candidates(k) # {}
        /\ k.power >= sensitivity[k.sf]
        /\ Lock(Min(Candidates(k)))
  /\ UNCHANGED << now, airing, m_isTransmitting >>

(* Receive of the MAC: downlinks of other gateways stop here. *)
Receive(k) == IF k \in Uplink THEN "forwarded" ELSE "not uplink"

(* The first path locked on the packet is freed. *)
LockedOn(id) == {p \in Path : m_event[p] = id}

FreeFirst(id) ==
  LET busy == {p \in Path : m_event[p] # 0}
  IN  /\ m_event' = [m_event EXCEPT ![Min(busy)] = 0]
      /\ m_occupiedReceptionPaths' = m_occupiedReceptionPaths - 1

FreeUnlessLast(id) ==
  IF id = Len(air)
  THEN UNCHANGED << m_event, m_occupiedReceptionPaths >>
  ELSE /\ m_event' = [m_event EXCEPT ![Min(LockedOn(id))] = 0]
       /\ m_occupiedReceptionPaths' = m_occupiedReceptionPaths - 1

Free(id) ==
  IF LockedOn(id) = {}
  THEN UNCHANGED << m_event, m_occupiedReceptionPaths >>
  ELSE /\ m_event' = [m_event EXCEPT ![Min(LockedOn(id))] = 0]
       /\ m_occupiedReceptionPaths' = m_occupiedReceptionPaths - 1

Due(ids) == {i \in ids : air[i].end = now}

EndReceive(id) ==
  /\ id \in Due(receiving)
  /\ receiving' = receiving \ {id}
  /\ fate' = [fate EXCEPT ![id] = IF IsDestroyedByInterference(id)
                                  THEN "interfered"
                                  ELSE Receive(air[id].kind)]
  /\ Free(id)
  /\ UNCHANGED << now, air, m_events, airing, m_isTransmitting >>

(* The gateway transmits whatever it is receiving; its own packet is an    *)
(* interferer like any other.                                              *)
Send(k) ==
  /\ Len(air) < MaxPackets /\ now + k.duration <= MaxTime
  /\ Add(k)
  /\ airing' = airing \cup {Len(air) + 1}
  /\ m_isTransmitting' = TRUE
  /\ fate' = Append(fate, "sent")
  /\ UNCHANGED << now, m_event, m_occupiedReceptionPaths, receiving >>

TxFinished(id) ==
  /\ id \in Due(airing)
  /\ airing' = airing \ {id}
  /\ m_isTransmitting' = FALSE
  /\ UNCHANGED << now, air, fate, m_events, m_event, m_occupiedReceptionPaths, receiving >>

Tick ==
  /\ now < MaxTime
  /\ Due(receiving) = {} /\ Due(airing) = {}
  /\ now' = now + 1
  /\ UNCHANGED << air, fate, m_events, m_event, m_occupiedReceptionPaths, receiving,
                  airing, m_isTransmitting >>

-----------------------------------------------------------------------------
Init ==
  /\ now = 0
  /\ air = << >> /\ fate = << >> /\ m_events = {}
  /\ m_event = [p \in Path |-> 0] /\ m_occupiedReceptionPaths = 0 /\ receiving = {}
  /\ airing = {} /\ m_isTransmitting = FALSE

Next ==
  \/ \E k \in Uplink \cup Downlink : StartReceive(k)
  \/ \E k \in Sent : Send(k)
  \/ \E id \in receiving : EndReceive(id)
  \/ \E id \in airing : TxFinished(id)
  \/ Tick

(* Time goes on and the scheduler runs what is due. *)
Fairness ==
  /\ WF_vars(Tick)
  /\ WF_vars(\E id \in receiving : EndReceive(id))
  /\ WF_vars(\E id \in airing : TxFinished(id))

Spec == Init /\ [][Next]_vars /\ Fairness

-----------------------------------------------------------------------------
Fate == {"receiving", "forwarded", "not uplink", "interfered", "no demodulator",
         "under sensitivity", "sent"}

(* Types. *)
TypeOK ==
  /\ now \in Nat
  /\ air \in Seq([kind : Kind, start : Nat, end : Nat])
  /\ fate \in Seq(Fate) /\ Len(fate) = Len(air)
  /\ m_events \subseteq 1..Len(air)
  /\ receiving \subseteq 1..Len(air) /\ airing \subseteq 1..Len(air)
  /\ m_event \in [Path -> Nat]
  /\ m_occupiedReceptionPaths \in 0..maxReceptionPaths
  /\ m_isTransmitting \in BOOLEAN

(* Demodulators are taken and given back once per packet: each packet being*)
(* received holds exactly one path, one that listens on its frequency; a   *)
(* locked path waits for a packet whose end is still to come; and the      *)
(* traced counter is the number of locked paths.                           *)
PoolInStep ==
  /\ \A p \in Path : m_event[p] # 0 =>
       m_event[p] \in receiving /\ air[m_event[p]].kind.freq = GetFrequency(p)
  /\ \A id \in receiving : \E p \in Path : m_event[p] = id
  /\ \A p, q \in Path : m_event[p] = m_event[q] /\ m_event[p] # 0 => p = q
  /\ m_occupiedReceptionPaths = Cardinality({p \in Path : m_event[p] # 0})

(* Cleaning the record never forgets what disturbs a packet still being    *)
(* received, if that packet is not longer on air than the age at which     *)
(* events count as old.                                                    *)
Overlap(e, f) == e.start < f.end /\ f.start < e.end

InterferersKept ==
  \A id \in receiving, i \in 1..Len(air) :
    /\ air[id].kind.duration <= oldEventThreshold
    /\ Overlap(air[id], air[i])
    => i \in m_events

(* The verdict on a packet is the one that all packets ever on air give,   *)
(* with the overlap counted instant by instant: neither what comes later   *)
(* nor what the record has lost would change it.                           *)
Instants(e) == e.start .. e.end - 1

EnergyOnAir(id, sf) ==
  MapThenSumSet(
    LAMBDA i : Cardinality(Instants(air[id]) \cap Instants(air[i])) * air[i].kind.power,
    {i \in (1..Len(air)) \ {id} : /\ air[i].kind.freq = air[id].kind.freq
                                  /\ air[i].kind.sf = sf})

DestroyedOnAir(id) ==
  LET k == air[id].kind
  IN  \E sf \in SF : k.duration * k.power * Isolation[<<k.sf, sf>>].den
                       < EnergyOnAir(id, sf) * Isolation[<<k.sf, sf>>].num

FateAsOnAir ==
  \A id \in 1..Len(air) :
    air[id].kind.duration <= oldEventThreshold =>
      /\ fate[id] = "interfered" => DestroyedOnAir(id)
      /\ fate[id] \in {"forwarded", "not uplink"} => ~ DestroyedOnAir(id)

(* Two packets of one spreading factor on one frequency cannot capture each*)
(* other: when both are received they overlap for no more than the share   *)
(* of their time on air that the isolation allows.                         *)
NoMutualCapture ==
  \A i, j \in {id \in 1..Len(air) : fate[id] \in {"forwarded", "not uplink"}} :
    LET a == air[i]
        b == air[j]
        ratio == Isolation[<<a.kind.sf, a.kind.sf>>]
        overlap == Cardinality(Instants(a) \cap Instants(b))
    IN  /\ i # j /\ a.kind.freq = b.kind.freq /\ a.kind.sf = b.kind.sf
        /\ a.kind.duration <= oldEventThreshold /\ b.kind.duration <= oldEventThreshold
        => (ratio.num * overlap) * (ratio.num * overlap)
             <= (ratio.den * a.kind.duration) * (ratio.den * b.kind.duration)

(* Although cleaning steps over events, the record does not grow past its  *)
(* limit while anything in it is old.                                      *)
RecordGrowsOnlyYoung ==
  [][Cardinality(m_events') > MaxEvents /\ Cardinality(m_events') > Cardinality(m_events)
     => \A i \in m_events : ~ Old(air, i)]_vars

(* Every path that is locked comes free again. *)
PathsComeFree == \A p \in Path : m_event[p] # 0 ~> m_event[p] = 0
=============================================================================

------------------------------ MODULE UdpRelay ------------------------------
(***************************************************************************)
(* The application of a UAV that relays the packets of the EDs to the base *)
(* station over UDP, and keeps those the socket refuses (no route) for a   *)
(* retry every 30 s.                                                       *)
(*                                                                         *)
(* A packet is an object: what lies twice in the buffer is one object, and *)
(* the header a successful Send adds stays on it.  m_sent is Len(wire).    *)
(***************************************************************************)
EXTENDS Integers, Sequences, FiniteSets

CONSTANTS
  Packet,    \* the packets the gateway of the UAV receives
  MaxBuffer  \* bound on the length of the buffer

ASSUME BufferAssumption == IsFiniteSet(Packet) /\ MaxBuffer \in Nat

VARIABLES
  up,              \* whether the socket takes packets
  m_packetBuffer,
  headers,         \* number of SeqTsHeaders on each packet
  given,           \* packets in the order in which Send was called with them
  wire,            \* what the socket has taken, each with its headers
  waited,          \* packets that have ever been refused
  failures         \* failed retries with each packet in front

vars == << up, m_packetBuffer, headers, given, wire, waited, failures >>

-----------------------------------------------------------------------------
Places(q, p) == {i \in DOMAIN q : q[i] = p}

(* Send, of one packet, with the socket taking it and not.                 *)
Put(p) ==
  /\ up
  /\ wire' = Append(wire, [pkt |-> p, headers |-> headers[p] + 1])
  /\ headers' = [headers EXCEPT ![p] = @ + 1]
  /\ UNCHANGED << m_packetBuffer, waited >>

RefuseInFront(p) ==
  /\ ~ up
  /\ m_packetBuffer' = << p >> \o m_packetBuffer
  /\ waited' = waited \cup {p}
  /\ UNCHANGED << wire, headers >>

RefuseAndForget(p) ==
  /\ ~ up
  /\ waited' = waited \cup {p}
  /\ UNCHANGED << m_packetBuffer, wire, headers >>

Refuse(p) ==
  /\ ~ up
  /\ m_packetBuffer' = Append(m_packetBuffer, p)
  /\ waited' = waited \cup {p}
  /\ UNCHANGED << wire, headers >>

Send(p) ==
  /\ \A i \in DOMAIN given : given[i] # p
  /\ Len(m_packetBuffer) < MaxBuffer
  /\ given' = Append(given, p)
  /\ Put(p) \/ Refuse(p)
  /\ UNCHANGED << up, failures >>

(* SendBuffer sends from the front until the buffer is empty or a packet   *)
(* is refused, which Send has then pushed again.  Within its event the     *)
(* socket does not change: it takes all packets or none.                   *)
Flushed ==
  [i \in DOMAIN m_packetBuffer |->
     LET p == m_packetBuffer[i]
     IN  [pkt |-> p,
          headers |-> headers[p] + Cardinality({j \in Places(m_packetBuffer, p) : j <= i})]]

SendBufferButLast ==
  LET n == Len(m_packetBuffer) - 1
  IN  /\ up /\ n > 0
      /\ wire' = wire \o SubSeq(Flushed, 1, n)
      /\ headers' = [p \in Packet |->
           headers[p] + Cardinality(Places(SubSeq(m_packetBuffer, 1, n), p))]
      /\ m_packetBuffer' = << m_packetBuffer[n + 1] >>
      /\ UNCHANGED << up, given, waited, failures >>

SendBuffer ==
  /\ up /\ m_packetBuffer # << >>
  /\ wire' = wire \o Flushed
  /\ headers' = [p \in Packet |-> headers[p] + Cardinality(Places(m_packetBuffer, p))]
  /\ m_packetBuffer' = << >>
  /\ UNCHANGED << up, given, waited, failures >>

SendBufferFails ==
  /\ m_packetBuffer # << >>
  /\ Len(m_packetBuffer) < MaxBuffer
  /\ Refuse(Head(m_packetBuffer))
  /\ failures' = [failures EXCEPT ![Head(m_packetBuffer)] = @ + 1]
  /\ UNCHANGED << up, given >>

(* Routes come and go. *)
Route ==
  /\ up' = ~ up
  /\ UNCHANGED << m_packetBuffer, headers, given, wire, waited, failures >>

Init ==
  /\ up \in BOOLEAN
  /\ m_packetBuffer = << >> /\ given = << >> /\ wire = << >>
  /\ headers = [p \in Packet |-> 0] /\ failures = [p \in Packet |-> 0]
  /\ waited = {}

Next ==
  \/ \E p \in Packet : Send(p)
  \/ SendBuffer
  \/ SendBufferFails
  \/ Route

Spec == Init /\ [][Next]_vars

(* The retry is scheduled again and again. *)
FairSpec == Spec /\ WF_vars(SendBuffer)
-----------------------------------------------------------------------------
(* Types. *)
TypeOK ==
  /\ up \in BOOLEAN
  /\ m_packetBuffer \in Seq(Packet) /\ given \in Seq(Packet)
  /\ headers \in [Packet -> Nat] /\ failures \in [Packet -> Nat]
  /\ wire \in Seq([pkt : Packet, headers : Nat \ {0}])
  /\ waited \subseteq Packet

(* Nothing is lost, and it is known what is duplicated: of each packet     *)
(* given to the relay there is, in the buffer and on the wire, one copy    *)
(* and one more for each retry that failed with it in front, as Send       *)
(* pushes what SendBuffer has not popped.  The copies are one object, so   *)
(* the k-th to be sent carries k headers.                                  *)
Sent(p) == {i \in DOMAIN wire : wire[i].pkt = p}

CopiesOnce ==
  \A p \in Packet :
    Cardinality(Sent(p)) + Cardinality(Places(m_packetBuffer, p)) =
      Cardinality(Places(given, p)) + failures[p]

HeadersPileUp ==
  \A i \in DOMAIN wire :
    wire[i].headers = Cardinality({j \in Sent(wire[i].pkt) : j <= i})

CopiesCounted == CopiesOnce /\ HeadersPileUp

(* Packets that had to wait reach the base station in the order in which   *)
(* they came, whatever the duplicates between them; only a packet that did *)
(* not wait may overtake them.                                             *)
SentBefore(p, q) == \A j \in Sent(q) : \E i \in Sent(p) : i < j

WaitedInOrder ==
  \A i, j \in DOMAIN given :
    i < j /\ {given[i], given[j]} \subseteq waited => SentBefore(given[i], given[j])

(* If routes are there for good at last, no packet is left waiting. *)
Drained == <>[]up => \A p \in Packet : [](p \in waited => <>(Sent(p) # {}))
=============================================================================

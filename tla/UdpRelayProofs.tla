---------------------------- MODULE UdpRelayProofs ----------------------------
(***************************************************************************)
(* For any packets and any length of the buffer: no packet is lost, the    *)
(* copies are as many as the failed retries, and what had to wait keeps    *)
(* its order.                                                              *)
(***************************************************************************)
EXTENDS UdpRelay, FiniteSetTheorems, SequenceTheorems, TLAPS

Copy == [pkt : Packet, headers : Nat \ {0}]

Waits(p) == Places(m_packetBuffer, p) # {}

(* What is on the wire or waits was given; what has ever waited is on its  *)
(* way; what waits has been refused.                                       *)
Known ==
  /\ \A p \in Packet : Sent(p) # {} \/ Waits(p) => Places(given, p) # {}
  /\ \A p \in waited : Places(given, p) # {} /\ (Sent(p) # {} \/ Waits(p))
  /\ \A i \in DOMAIN m_packetBuffer : m_packetBuffer[i] \in waited

GivenOnce == \A i, j \in DOMAIN given : given[i] = given[j] => i = j

HeadersKnown == \A p \in Packet : headers[p] = Cardinality(Sent(p))

(* The k-th copy of p on the wire carries k headers. *)
PilesUp(p) ==
  \A i \in Sent(p) : wire[i].headers = Cardinality({j \in Sent(p) : j <= i})

PileUp == \A p \in Packet : PilesUp(p)

GivenBefore(p, q) ==
  \E i, j \in DOMAIN given : i < j /\ given[i] = p /\ given[j] = q

(* Before a copy of q that waits there is one of p, sent or waiting. *)
WaitsBefore(p, q) ==
  \A m \in Places(m_packetBuffer, q) :
    Sent(p) # {} \/ \E l \in Places(m_packetBuffer, p) : l < m

InOrder ==
  \A p, q \in waited : GivenBefore(p, q) => SentBefore(p, q) /\ WaitsBefore(p, q)

Inv ==
  /\ TypeOK /\ Known /\ GivenOnce
  /\ CopiesOnce /\ HeadersKnown /\ PileUp /\ InOrder

-----------------------------------------------------------------------------
LEMMA Initial ==
  ASSUME NEW n \in Nat, NEW A, A \subseteq 1..n
  PROVE  /\ IsFiniteSet(A) /\ Cardinality(A) \in Nat
         /\ Cardinality(A \cup {n + 1}) = Cardinality(A) + 1
<1>1. IsFiniteSet(1..n)
  BY FS_Interval
<1>2. IsFiniteSet(A)
  BY <1>1, FS_Subset
<1>3. Cardinality(A) \in Nat
  BY <1>2, FS_CardinalityType
<1>4. n + 1 \notin A
  OBVIOUS
<1>5. Cardinality(A \cup {n + 1}) = Cardinality(A) + 1
  BY <1>2, <1>4, FS_AddElement
<1>6. QED
  BY <1>2, <1>3, <1>5

(* Positions behind the first n count like positions. *)
Behind(n, A) == {n + i : i \in A}
Within(A, n) == A \subseteq 1..n

LEMMA Shifted ==
  ASSUME NEW n \in Nat, NEW m \in Nat, NEW A, NEW B, Within(A, n), Within(B, m)
  PROVE  Cardinality(A \cup Behind(n, B)) = Cardinality(A) + Cardinality(B)
<1> DEFINE C == Behind(n, B)
<1> DEFINE f == [i \in B |-> n + i]
<1> USE DEF Within
<1>1. IsFiniteSet(A) /\ IsFiniteSet(B)
  BY Initial
<1>2. f \in Bijection(B, C)
  <2>1. f \in [B -> C]
    BY DEF Behind
  <2>2. \A x, y \in B : f[x] = f[y] => x = y
    OBVIOUS
  <2>3. \A c \in C : \E x \in B : f[x] = c
    BY DEF Behind
  <2>4. QED
    BY <2>1, <2>2, <2>3 DEF Bijection, Injection, Surjection, IsInjective
<1>3. IsFiniteSet(C) /\ Cardinality(C) = Cardinality(B)
  BY <1>1, <1>2, FS_Bijection DEF ExistsBijection
<1>4. A \cap C = {}
  BY DEF Behind
<1> HIDE DEF C
<1>5. Cardinality(A \cup C) = Cardinality(A) + Cardinality(C) - Cardinality({})
  BY <1>1, <1>3, <1>4, FS_Union
<1>6. /\ Cardinality(A) \in Nat /\ Cardinality(C) \in Nat /\ Cardinality({}) = 0
  BY <1>1, <1>3, FS_CardinalityType, FS_EmptySet
<1>7. QED
  BY <1>3, <1>5, <1>6 DEF C

(* One packet more at the end *)
LEMMA PlacesAppend ==
  ASSUME NEW q \in Seq(Packet), NEW x \in Packet, NEW p
  PROVE  /\ Places(q, p) \subseteq 1..Len(q) /\ Len(q) \in Nat
         /\ Places(Append(q, x), p) =
              IF x = p THEN Places(q, p) \cup {Len(q) + 1} ELSE Places(q, p)
         /\ Cardinality(Places(q, p)) \in Nat
         /\ Cardinality(Places(Append(q, x), p)) =
              Cardinality(Places(q, p)) + (IF x = p THEN 1 ELSE 0)
<1>1. Places(q, p) \subseteq 1..Len(q) /\ Len(q) \in Nat
  BY LenProperties DEF Places
<1>2. Places(Append(q, x), p) =
        IF x = p THEN Places(q, p) \cup {Len(q) + 1} ELSE Places(q, p)
  <2>1. /\ DOMAIN Append(q, x) = 1..(Len(q) + 1) /\ DOMAIN q = 1..Len(q)
        /\ \A i \in 1..Len(q) : Append(q, x)[i] = q[i]
        /\ Append(q, x)[Len(q) + 1] = x
    BY AppendProperties, LenProperties
  <2>2. QED
    BY <1>1, <2>1 DEF Places
<1>3. /\ Cardinality(Places(q, p)) \in Nat
      /\ Cardinality(Places(q, p) \cup {Len(q) + 1}) = Cardinality(Places(q, p)) + 1
  BY <1>1, Initial
<1>4. CASE x = p
  BY <1>1, <1>2, <1>3, <1>4
<1>5. CASE x # p
  BY <1>1, <1>2, <1>3, <1>5
<1>6. QED
  BY <1>4, <1>5

LEMMA SentAppend ==
  ASSUME wire \in Seq(Copy), NEW x \in Copy, wire' = Append(wire, x), NEW p
  PROVE  /\ Sent(p) \subseteq 1..Len(wire) /\ Len(wire) \in Nat
         /\ DOMAIN wire = 1..Len(wire) /\ DOMAIN wire' = 1..(Len(wire) + 1)
         /\ \A i \in 1..Len(wire) : wire'[i] = wire[i]
         /\ wire'[Len(wire) + 1] = x
         /\ Sent(p)' = IF x.pkt = p THEN Sent(p) \cup {Len(wire) + 1} ELSE Sent(p)
         /\ Cardinality(Sent(p)) \in Nat
         /\ Cardinality(Sent(p)') =
              Cardinality(Sent(p)) + (IF x.pkt = p THEN 1 ELSE 0)
<1>1. /\ DOMAIN wire' = 1..(Len(wire) + 1) /\ DOMAIN wire = 1..Len(wire)
      /\ \A i \in 1..Len(wire) : wire'[i] = wire[i]
      /\ wire'[Len(wire) + 1] = x /\ Len(wire) \in Nat
  BY AppendProperties, LenProperties
<1>2. Sent(p) \subseteq 1..Len(wire)
  BY <1>1 DEF Sent
<1>3. Sent(p)' = IF x.pkt = p THEN Sent(p) \cup {Len(wire) + 1} ELSE Sent(p)
  BY <1>1, <1>2 DEF Sent
<1>4. /\ Cardinality(Sent(p)) \in Nat
      /\ Cardinality(Sent(p) \cup {Len(wire) + 1}) = Cardinality(Sent(p)) + 1
  BY <1>1, <1>2, Initial
<1>5. CASE x.pkt = p
  BY <1>1, <1>2, <1>3, <1>4, <1>5
<1>6. CASE x.pkt # p
  BY <1>1, <1>2, <1>3, <1>4, <1>6
<1>7. QED
  BY <1>5, <1>6

-----------------------------------------------------------------------------
LEMMA InitInv == Init => Inv
<1> SUFFICES ASSUME Init
             PROVE  Inv
  OBVIOUS
<1>1. /\ m_packetBuffer = << >> /\ given = << >> /\ wire = << >> /\ waited = {}
      /\ headers = [p \in Packet |-> 0] /\ failures = [p \in Packet |-> 0]
      /\ up \in BOOLEAN
  BY DEF Init
<1>2. \A p : Sent(p) = {} /\ Places(m_packetBuffer, p) = {} /\ Places(given, p) = {}
  BY <1>1 DEF Sent, Places
<1>3. TypeOK
  BY <1>1 DEF TypeOK
<1>4. Known /\ GivenOnce /\ PileUp
  BY <1>1, <1>2 DEF Known, GivenOnce, PileUp, PilesUp, Waits
<1>5. CopiesOnce /\ HeadersKnown
  BY <1>1, <1>2, FS_EmptySet DEF CopiesOnce, HeadersKnown
<1>6. InOrder
  BY <1>1 DEF InOrder
<1>7. QED
  BY <1>3, <1>4, <1>5, <1>6 DEF Inv

-----------------------------------------------------------------------------
(* A new packet is nowhere yet. *)
LEMMA NewIsNowhere ==
  ASSUME TypeOK, Known, NEW p \in Packet, \A i \in DOMAIN given : given[i] # p
  PROVE  Places(given, p) = {} /\ Sent(p) = {} /\ ~ Waits(p) /\ p \notin waited
<1>1. Places(given, p) = {}
  BY DEF Places
<1>2. QED
  BY <1>1 DEF Known

LEMMA GivenAppend ==
  ASSUME TypeOK, NEW p \in Packet, given' = Append(given, p)
  PROVE  /\ DOMAIN given = 1..Len(given) /\ DOMAIN given' = 1..(Len(given) + 1)
         /\ Len(given) \in Nat
         /\ \A i \in 1..Len(given) : given'[i] = given[i] /\ given[i] \in Packet
         /\ given'[Len(given) + 1] = p
  BY AppendProperties, LenProperties, ElementOfSeq DEF TypeOK

LEMMA StillOnce ==
  ASSUME TypeOK, GivenOnce, NEW p \in Packet, \A i \in DOMAIN given : given[i] # p,
         given' = Append(given, p)
  PROVE  GivenOnce'
  BY GivenAppend DEF GivenOnce

(* What the socket takes at once *)
LEMMA PutInv ==
  ASSUME Inv, NEW p \in Packet, Send(p), Put(p)
  PROVE  Inv'
<1> DEFINE x == [pkt |-> p, headers |-> headers[p] + 1]
<1>0. /\ TypeOK /\ Known /\ GivenOnce /\ CopiesOnce /\ HeadersKnown
      /\ PileUp /\ InOrder
  BY DEF Inv
<1>1. /\ given' = Append(given, p) /\ \A i \in DOMAIN given : given[i] # p
      /\ wire' = Append(wire, x) /\ headers' = [headers EXCEPT ![p] = @ + 1]
      /\ UNCHANGED << up, m_packetBuffer, waited, failures >>
  BY DEF Send, Put
<1>2. /\ x \in Copy /\ x.pkt = p /\ x.headers = headers[p] + 1
      /\ wire \in Seq(Copy) /\ headers[p] \in Nat /\ headers \in [Packet -> Nat]
  BY <1>0 DEF TypeOK, Copy
<1> HIDE DEF x
<1>3. Places(given, p) = {} /\ Sent(p) = {} /\ ~ Waits(p) /\ p \notin waited
  BY <1>0, <1>1, NewIsNowhere
<1>4. /\ Len(wire) \in Nat
      /\ DOMAIN wire = 1..Len(wire) /\ DOMAIN wire' = 1..(Len(wire) + 1)
      /\ \A i \in 1..Len(wire) : wire'[i] = wire[i]
      /\ wire'[Len(wire) + 1] = x
  BY <1>1, <1>2, SentAppend
<1>5. \A q : /\ Sent(q)' = IF p = q THEN Sent(q) \cup {Len(wire) + 1} ELSE Sent(q)
             /\ Sent(q) \subseteq 1..Len(wire)
  BY <1>1, <1>2, SentAppend
<1>6. \A q : /\ Cardinality(Sent(q)) \in Nat
             /\ Cardinality(Sent(q)') = Cardinality(Sent(q)) + (IF p = q THEN 1 ELSE 0)
  BY <1>1, <1>2, SentAppend
<1>7. \A q : /\ Places(given, q)' = IF p = q THEN Places(given, q) \cup {Len(given) + 1}
                                             ELSE Places(given, q)
             /\ Cardinality(Places(given, q)) \in Nat
             /\ Cardinality(Places(given, q)') =
                  Cardinality(Places(given, q)) + (IF p = q THEN 1 ELSE 0)
  BY <1>0, <1>1, PlacesAppend DEF TypeOK
<1>8. \A q : Places(m_packetBuffer, q)' = Places(m_packetBuffer, q)
  BY <1>1 DEF Places
<1>9. /\ DOMAIN given = 1..Len(given) /\ DOMAIN given' = 1..(Len(given) + 1)
      /\ Len(given) \in Nat
      /\ \A i \in 1..Len(given) : given'[i] = given[i] /\ given[i] \in Packet
      /\ given'[Len(given) + 1] = p
  BY <1>0, <1>1, GivenAppend
<1>10. TypeOK'
  <2>1. wire' \in Seq(Copy) /\ given' \in Seq(Packet)
    BY <1>0, <1>1, <1>2, AppendProperties DEF TypeOK
  <2>2. headers' \in [Packet -> Nat]
    BY <1>1, <1>2
  <2>3. QED
    BY <1>0, <1>1, <2>1, <2>2 DEF TypeOK, Copy
<1>11. Known'
  <2>1. \A q \in Packet : Sent(q)' # {} \/ Waits(q)' => Places(given, q)' # {}
    BY <1>0, <1>5, <1>7, <1>8 DEF Known, Waits
  <2>2. \A q \in waited' : Places(given, q)' # {} /\ (Sent(q)' # {} \/ Waits(q)')
    BY <1>0, <1>1, <1>5, <1>7, <1>8 DEF Known, Waits
  <2>3. QED
    BY <1>0, <1>1, <2>1, <2>2 DEF Known
<1>12. GivenOnce'
  BY <1>0, <1>1, StillOnce
<1>13. CopiesOnce'
  <2> SUFFICES ASSUME NEW q \in Packet
               PROVE  Cardinality(Sent(q)') + Cardinality(Places(m_packetBuffer, q)') =
                        Cardinality(Places(given, q)') + failures'[q]
    BY DEF CopiesOnce
  <2>1. Cardinality(Places(m_packetBuffer, q)) \in Nat
    BY <1>0, PlacesAppend DEF TypeOK
  <2>2. failures[q] \in Nat /\ failures'[q] = failures[q]
    BY <1>0, <1>1 DEF TypeOK
  <2>3. Cardinality(Sent(q)) + Cardinality(Places(m_packetBuffer, q)) =
          Cardinality(Places(given, q)) + failures[q]
    BY <1>0 DEF CopiesOnce
  <2>4. QED
    BY <1>6, <1>7, <1>8, <2>1, <2>2, <2>3
<1>14. HeadersKnown'
  BY <1>0, <1>1, <1>2, <1>6 DEF HeadersKnown
<1>15. PileUp'
  <2> SUFFICES ASSUME NEW q \in Packet, NEW i \in Sent(q)'
               PROVE  wire'[i].headers = Cardinality({j \in Sent(q)' : j <= i})
    BY DEF PileUp, PilesUp
  <2>1. CASE i = Len(wire) + 1
    <3>1. q = p
      BY <1>4, <1>5, <2>1
    <3>2. {j \in Sent(q)' : j <= i} = Sent(q)'
      BY <1>4, <1>5, <2>1
    <3>3. Cardinality(Sent(q)') = headers[p] + 1
      BY <1>0, <1>6, <3>1 DEF HeadersKnown
    <3>4. QED
      BY <1>2, <1>4, <2>1, <3>2, <3>3
  <2>2. CASE i # Len(wire) + 1
    <3>1. i \in Sent(q) /\ i \in 1..Len(wire)
      BY <1>5, <2>2
    <3>2. {j \in Sent(q)' : j <= i} = {j \in Sent(q) : j <= i}
      BY <1>4, <1>5, <3>1
    <3>3. wire[i].headers = Cardinality({j \in Sent(q) : j <= i})
      BY <1>0, <3>1 DEF PileUp, PilesUp
    <3>4. QED
      BY <1>4, <3>1, <3>2, <3>3
  <2>3. QED
    BY <2>1, <2>2
<1>16. InOrder'
  <2> SUFFICES ASSUME NEW q \in waited', NEW r \in waited', GivenBefore(q, r)'
               PROVE  SentBefore(q, r)' /\ WaitsBefore(q, r)'
    BY DEF InOrder
  <2>1. q \in waited /\ r \in waited /\ q # p /\ r # p
    BY <1>1, <1>3
  <2>2. GivenBefore(q, r)
    BY <1>9, <2>1 DEF GivenBefore
  <2>3. SentBefore(q, r) /\ WaitsBefore(q, r)
    BY <1>0, <2>1, <2>2 DEF InOrder
  <2>4. Sent(q)' = Sent(q) /\ Sent(r)' = Sent(r)
    BY <1>5, <2>1
  <2>5. QED
    BY <1>8, <2>3, <2>4 DEF SentBefore, WaitsBefore
<1>17. QED
  BY <1>10, <1>11, <1>12, <1>13, <1>14, <1>15, <1>16 DEF Inv

(* Whoever refuses: all that had to wait is before the copy at the end. *)
LEMMA RefusedAtEnd ==
  ASSUME TypeOK, Known, NEW p \in Packet, Refuse(p),
         NEW q \in waited, NEW r \in Packet, r \in waited => WaitsBefore(q, r)
  PROVE  WaitsBefore(q, r)'
<1>1. /\ m_packetBuffer' = Append(m_packetBuffer, p) /\ UNCHANGED wire
      /\ m_packetBuffer \in Seq(Packet)
  BY DEF Refuse, TypeOK
<1>2. \A s : /\ Places(m_packetBuffer, s)' = IF p = s
                  THEN Places(m_packetBuffer, s) \cup {Len(m_packetBuffer) + 1}
                  ELSE Places(m_packetBuffer, s)
             /\ Places(m_packetBuffer, s) \subseteq 1..Len(m_packetBuffer)
             /\ Len(m_packetBuffer) \in Nat
  BY <1>1, PlacesAppend
<1>3. \A s : Sent(s)' = Sent(s)
  BY <1>1 DEF Sent
<1>4. Sent(q) # {} \/ Places(m_packetBuffer, q) # {}
  BY DEF Known, Waits
<1>5. \A m \in Places(m_packetBuffer, r) : r \in waited
  BY DEF Known, Places
<1> SUFFICES ASSUME NEW m \in Places(m_packetBuffer, r)', Sent(q) = {}
             PROVE  \E l \in Places(m_packetBuffer, q)' : l < m
  BY <1>3 DEF WaitsBefore
<1>6. CASE m \in Places(m_packetBuffer, r)
  <2>1. \E l \in Places(m_packetBuffer, q) : l < m
    BY <1>5, <1>6 DEF WaitsBefore
  <2>2. QED
    BY <1>2, <2>1
<1>7. CASE m = Len(m_packetBuffer) + 1
  <2>1. PICK l \in Places(m_packetBuffer, q) : TRUE
    BY <1>4
  <2>2. l < m /\ l \in Places(m_packetBuffer, q)'
    BY <1>2, <1>7, <2>1
  <2>3. QED
    BY <2>2
<1>8. QED
  BY <1>2, <1>6, <1>7

(* A new packet is refused. *)
LEMMA SendRefusedInv ==
  ASSUME Inv, NEW p \in Packet, Send(p), Refuse(p)
  PROVE  Inv'
<1>0. /\ TypeOK /\ Known /\ GivenOnce /\ CopiesOnce /\ HeadersKnown /\ PileUp /\ InOrder
  BY DEF Inv
<1>1. /\ given' = Append(given, p) /\ \A i \in DOMAIN given : given[i] # p
      /\ m_packetBuffer' = Append(m_packetBuffer, p) /\ waited' = waited \cup {p}
      /\ UNCHANGED << up, wire, headers, failures >>
  BY DEF Send, Refuse
<1>2. /\ m_packetBuffer \in Seq(Packet) /\ given \in Seq(Packet) /\ waited \subseteq Packet
  BY <1>0 DEF TypeOK
<1>3. Places(given, p) = {} /\ Sent(p) = {} /\ ~ Waits(p) /\ p \notin waited
  BY <1>0, <1>1, NewIsNowhere
<1>4. \A q : Sent(q)' = Sent(q)
  BY <1>1 DEF Sent
<1>5. \A q : /\ Places(given, q)' = IF p = q THEN Places(given, q) \cup {Len(given) + 1}
                                             ELSE Places(given, q)
             /\ Cardinality(Places(given, q)) \in Nat
             /\ Cardinality(Places(given, q)') =
                  Cardinality(Places(given, q)) + (IF p = q THEN 1 ELSE 0)
  BY <1>1, <1>2, PlacesAppend
<1>6. \A q : /\ Places(m_packetBuffer, q)' = IF p = q
                  THEN Places(m_packetBuffer, q) \cup {Len(m_packetBuffer) + 1}
                  ELSE Places(m_packetBuffer, q)
             /\ Cardinality(Places(m_packetBuffer, q)) \in Nat
             /\ Cardinality(Places(m_packetBuffer, q)') =
                  Cardinality(Places(m_packetBuffer, q)) + (IF p = q THEN 1 ELSE 0)
  BY <1>1, <1>2, PlacesAppend
<1>7. /\ DOMAIN given = 1..Len(given) /\ DOMAIN given' = 1..(Len(given) + 1)
      /\ Len(given) \in Nat
      /\ \A i \in 1..Len(given) : given'[i] = given[i] /\ given[i] \in Packet
      /\ given'[Len(given) + 1] = p
  BY <1>0, <1>1, GivenAppend
<1>8. TypeOK'
  BY <1>0, <1>1, <1>2, AppendProperties DEF TypeOK
<1>9. Known'
  <2>1. \A q \in Packet : Sent(q)' # {} \/ Waits(q)' => Places(given, q)' # {}
    BY <1>0, <1>4, <1>5, <1>6 DEF Known, Waits
  <2>2. \A q \in waited' : Places(given, q)' # {} /\ (Sent(q)' # {} \/ Waits(q)')
    BY <1>0, <1>1, <1>4, <1>5, <1>6 DEF Known, Waits
  <2>3. \A i \in DOMAIN m_packetBuffer' : m_packetBuffer'[i] \in waited'
    <3>1. \A i \in DOMAIN m_packetBuffer : m_packetBuffer[i] \in waited
      BY <1>0 DEF Known
    <3>2. QED
      BY <1>1, <1>2, <3>1, AppendProperties, LenProperties
  <2>4. QED
    BY <2>1, <2>2, <2>3 DEF Known
<1>10. GivenOnce'
  BY <1>0, <1>1, StillOnce
<1>11. CopiesOnce'
  <2> SUFFICES ASSUME NEW q \in Packet
               PROVE  Cardinality(Sent(q)') + Cardinality(Places(m_packetBuffer, q)') =
                        Cardinality(Places(given, q)') + failures'[q]
    BY DEF CopiesOnce
  <2>1. Cardinality(Sent(q)) \in Nat
    <3>1. Sent(q) \subseteq 1..Len(wire) /\ Len(wire) \in Nat
      BY <1>0, LenProperties DEF TypeOK, Sent
    <3>2. QED
      BY <3>1, Initial
  <2>2. failures[q] \in Nat /\ failures'[q] = failures[q]
    BY <1>0, <1>1 DEF TypeOK
  <2>3. Cardinality(Sent(q)) + Cardinality(Places(m_packetBuffer, q)) =
          Cardinality(Places(given, q)) + failures[q]
    BY <1>0 DEF CopiesOnce
  <2>4. QED
    BY <1>4, <1>5, <1>6, <2>1, <2>2, <2>3
<1>12. HeadersKnown' /\ PileUp'
  BY <1>0, <1>1, <1>4 DEF HeadersKnown, PileUp, PilesUp
<1>13. InOrder'
  <2> SUFFICES ASSUME NEW q \in waited', NEW r \in waited', GivenBefore(q, r)'
               PROVE  SentBefore(q, r)' /\ WaitsBefore(q, r)'
    BY DEF InOrder
  <2>1. q # p
    BY <1>1, <1>7 DEF GivenBefore
  <2>2. q \in waited /\ r \in Packet
    BY <1>1, <1>2, <2>1
  <2>3. r \in waited => SentBefore(q, r) /\ WaitsBefore(q, r)
    <3> SUFFICES ASSUME r \in waited
                 PROVE  SentBefore(q, r) /\ WaitsBefore(q, r)
      OBVIOUS
    <3>1. r # p
      BY <1>3
    <3>2. GivenBefore(q, r)
      BY <1>7, <2>1, <3>1 DEF GivenBefore
    <3>3. QED
      BY <1>0, <2>2, <3>2 DEF InOrder
  <2>4. WaitsBefore(q, r)'
    BY <1>0, <2>2, <2>3, RefusedAtEnd
  <2>5. SentBefore(q, r)
    <3>1. CASE r = p
      BY <1>3, <3>1 DEF SentBefore
    <3>2. QED
      BY <1>1, <2>3, <3>1
  <2>6. QED
    BY <1>4, <2>4, <2>5 DEF SentBefore
<1>14. QED
  BY <1>8, <1>9, <1>10, <1>11, <1>12, <1>13 DEF Inv

(* A retry fails: the packet in front is pushed again. *)
LEMMA SendBufferFailsInv ==
  ASSUME Inv, SendBufferFails
  PROVE  Inv'
<1> DEFINE p == Head(m_packetBuffer)
<1>0. /\ TypeOK /\ Known /\ GivenOnce /\ CopiesOnce /\ HeadersKnown /\ PileUp /\ InOrder
  BY DEF Inv
<1>1. /\ Refuse(p) /\ failures' = [failures EXCEPT ![p] = @ + 1]
      /\ m_packetBuffer' = Append(m_packetBuffer, p) /\ waited' = waited \cup {p}
      /\ UNCHANGED << up, wire, headers, given >> /\ m_packetBuffer # << >>
  BY DEF SendBufferFails, Refuse
<1>2. /\ m_packetBuffer \in Seq(Packet) /\ waited \subseteq Packet
  BY <1>0 DEF TypeOK
<1>3. p \in Packet /\ p = m_packetBuffer[1] /\ 1 \in DOMAIN m_packetBuffer
  BY <1>1, <1>2, HeadTailProperties, EmptySeq, LenProperties
<1> HIDE DEF p
<1>4. p \in waited /\ waited' = waited
  BY <1>0, <1>1, <1>3 DEF Known
<1>5. \A q : Sent(q)' = Sent(q) /\ Places(given, q)' = Places(given, q)
  BY <1>1 DEF Sent, Places
<1>6. \A q : /\ Places(m_packetBuffer, q)' = IF p = q
                  THEN Places(m_packetBuffer, q) \cup {Len(m_packetBuffer) + 1}
                  ELSE Places(m_packetBuffer, q)
             /\ Cardinality(Places(m_packetBuffer, q)) \in Nat
             /\ Cardinality(Places(m_packetBuffer, q)') =
                  Cardinality(Places(m_packetBuffer, q)) + (IF p = q THEN 1 ELSE 0)
  BY <1>1, <1>2, <1>3, PlacesAppend
<1>7. TypeOK'
  <2>1. m_packetBuffer' \in Seq(Packet)
    BY <1>1, <1>2, <1>3, AppendProperties
  <2>2. failures' \in [Packet -> Nat]
    BY <1>0, <1>1, <1>3 DEF TypeOK
  <2>3. QED
    BY <1>0, <1>1, <1>4, <2>1, <2>2 DEF TypeOK
<1>8. Known'
  <2>1. \A q \in Packet : Sent(q)' # {} \/ Waits(q)' => Places(given, q)' # {}
    BY <1>0, <1>4, <1>5, <1>6 DEF Known, Waits
  <2>2. \A q \in waited' : Places(given, q)' # {} /\ (Sent(q)' # {} \/ Waits(q)')
    BY <1>0, <1>4, <1>5, <1>6 DEF Known, Waits
  <2>3. \A i \in DOMAIN m_packetBuffer' : m_packetBuffer'[i] \in waited'
    <3>1. \A i \in DOMAIN m_packetBuffer : m_packetBuffer[i] \in waited
      BY <1>0 DEF Known
    <3>2. QED
      BY <1>1, <1>2, <1>3, <1>4, <3>1, AppendProperties, LenProperties
  <2>4. QED
    BY <2>1, <2>2, <2>3 DEF Known
<1>9. GivenOnce' /\ HeadersKnown' /\ PileUp'
  BY <1>0, <1>1, <1>5 DEF GivenOnce, HeadersKnown, PileUp, PilesUp
<1>10. CopiesOnce'
  <2> SUFFICES ASSUME NEW q \in Packet
               PROVE  Cardinality(Sent(q)') + Cardinality(Places(m_packetBuffer, q)') =
                        Cardinality(Places(given, q)') + failures'[q]
    BY DEF CopiesOnce
  <2>1. Cardinality(Sent(q)) \in Nat /\ Cardinality(Places(given, q)) \in Nat
    <3>1. /\ Sent(q) \subseteq 1..Len(wire) /\ Len(wire) \in Nat
          /\ Places(given, q) \subseteq 1..Len(given) /\ Len(given) \in Nat
      BY <1>0, LenProperties DEF TypeOK, Sent, Places
    <3>2. QED
      BY <3>1, Initial
  <2>2. failures[q] \in Nat /\ failures'[q] = failures[q] + (IF p = q THEN 1 ELSE 0)
    BY <1>0, <1>1 DEF TypeOK
  <2>3. Cardinality(Sent(q)) + Cardinality(Places(m_packetBuffer, q)) =
          Cardinality(Places(given, q)) + failures[q]
    BY <1>0 DEF CopiesOnce
  <2>4. QED
    BY <1>5, <1>6, <2>1, <2>2, <2>3
<1>11. InOrder'
  <2> SUFFICES ASSUME NEW q \in waited', NEW r \in waited', GivenBefore(q, r)'
               PROVE  SentBefore(q, r)' /\ WaitsBefore(q, r)'
    BY DEF InOrder
  <2>1. q \in waited /\ r \in waited /\ r \in Packet /\ GivenBefore(q, r)
    BY <1>1, <1>2, <1>4 DEF GivenBefore
  <2>2. SentBefore(q, r) /\ WaitsBefore(q, r)
    BY <1>0, <2>1 DEF InOrder
  <2>3. WaitsBefore(q, r)'
    BY <1>0, <1>1, <1>3, <2>1, <2>2, RefusedAtEnd
  <2>4. QED
    BY <1>5, <2>2, <2>3 DEF SentBefore
<1>12. QED
  BY <1>7, <1>8, <1>9, <1>10, <1>11 DEF Inv

-----------------------------------------------------------------------------
(* The buffer joins the wire. *)
LEMMA FlushedCopies ==
  ASSUME TypeOK
  PROVE  /\ Flushed \in Seq(Copy) /\ Len(Flushed) = Len(m_packetBuffer)
         /\ DOMAIN m_packetBuffer = 1..Len(m_packetBuffer)
         /\ Len(m_packetBuffer) \in Nat
         /\ \A i \in 1..Len(m_packetBuffer) :
              /\ Flushed[i].pkt = m_packetBuffer[i]
              /\ Flushed[i].headers = headers[m_packetBuffer[i]] +
                   Cardinality({j \in Places(m_packetBuffer, m_packetBuffer[i]) : j <= i})
<1> DEFINE n == Len(m_packetBuffer)
<1> DEFINE Upto(i) == {j \in Places(m_packetBuffer, m_packetBuffer[i]) : j <= i}
<1>1. /\ m_packetBuffer \in Seq(Packet) /\ n \in Nat /\ DOMAIN m_packetBuffer = 1..n
      /\ \A i \in 1..n : m_packetBuffer[i] \in Packet
  BY LenProperties, ElementOfSeq DEF TypeOK
<1>2. Flushed = [i \in 1..n |->
        [pkt |-> m_packetBuffer[i],
         headers |-> headers[m_packetBuffer[i]] + Cardinality(Upto(i))]]
  BY <1>1 DEF Flushed
<1>3. \A i \in 1..n : Cardinality(Upto(i)) \in Nat \ {0}
  <2> SUFFICES ASSUME NEW i \in 1..n
               PROVE  Cardinality(Upto(i)) \in Nat \ {0}
    OBVIOUS
  <2>1. Upto(i) \subseteq 1..n /\ i \in Upto(i)
    BY <1>1 DEF Places
  <2> HIDE DEF Upto
  <2>2. IsFiniteSet(Upto(i)) /\ Cardinality(Upto(i)) \in Nat
    BY <1>1, <2>1, Initial
  <2>3. Upto(i) # {}
    BY <2>1
  <2>4. QED
    BY <2>2, <2>3, FS_EmptySet
<1> HIDE DEF Upto
<1>4. \A i \in 1..n : headers[m_packetBuffer[i]] \in Nat
  BY <1>1 DEF TypeOK
<1>5. \A i \in 1..n : Flushed[i] \in Copy
  BY <1>1, <1>2, <1>3, <1>4 DEF Copy
<1>6. DOMAIN Flushed = 1..n
  BY <1>2
<1>7. Flushed \in [1..n -> Copy]
  BY <1>2, <1>5
<1>8. Flushed \in Seq(Copy) /\ Len(Flushed) = n
  BY <1>1, <1>7, SeqDef, LenProperties, <1>6
<1>9. QED
  BY <1>1, <1>2, <1>8 DEF Upto

LEMMA SendBufferInv ==
  ASSUME Inv, SendBuffer
  PROVE  Inv'
<1> DEFINE n == Len(wire)
<1> DEFINE k == Len(m_packetBuffer)
<1> DEFINE Moved(A) == Behind(n, A)
<1>0. /\ TypeOK /\ Known /\ GivenOnce /\ CopiesOnce /\ HeadersKnown /\ PileUp /\ InOrder
  BY DEF Inv
<1>1. /\ wire' = wire \o Flushed
      /\ headers' = [p \in Packet |-> headers[p] + Cardinality(Places(m_packetBuffer, p))]
      /\ m_packetBuffer' = << >>
      /\ UNCHANGED << up, given, waited, failures >>
  BY DEF SendBuffer
<1>2. /\ Flushed \in Seq(Copy) /\ Len(Flushed) = k /\ k \in Nat
      /\ DOMAIN m_packetBuffer = 1..k
      /\ \A i \in 1..k : Flushed[i].pkt = m_packetBuffer[i]
  BY <1>0, FlushedCopies
<1>3. wire \in Seq(Copy) /\ n \in Nat /\ DOMAIN wire = 1..n
  BY <1>0, LenProperties DEF TypeOK, Copy
<1>4. /\ wire' \in Seq(Copy) /\ Len(wire') = n + k /\ DOMAIN wire' = 1..(n + k)
      /\ \A i \in 1..n : wire'[i] = wire[i]
      /\ \A i \in 1..k : wire'[n + i] = Flushed[i]
  <2>1. /\ wire' \in Seq(Copy) /\ Len(wire') = n + k
        /\ \A i \in 1..(n + k) :
             wire'[i] = IF i <= n THEN wire[i] ELSE Flushed[i - n]
    <3> HIDE DEF n, k, Copy
    <3>1. /\ wire \o Flushed \in Seq(Copy)
          /\ Len(wire \o Flushed) = Len(wire) + Len(Flushed)
          /\ \A i \in 1..(Len(wire) + Len(Flushed)) :
               (wire \o Flushed)[i] = IF i <= Len(wire) THEN wire[i] ELSE Flushed[i - Len(wire)]
      BY <1>2, <1>3, ConcatProperties
    <3>2. QED
      BY <1>1, <1>2, <3>1 DEF n
  <2>2. \A i \in 1..k : n + i \in 1..(n + k) /\ ~ (n + i <= n) /\ (n + i) - n = i
    BY <1>2, <1>3
  <2>3. \A i \in 1..n : i \in 1..(n + k) /\ i <= n
    BY <1>2, <1>3
  <2>4. QED
    BY <2>1, <2>2, <2>3, LenProperties
<1>5. \A p : Sent(p) \subseteq 1..n /\ Places(m_packetBuffer, p) \subseteq 1..k
  BY <1>2, <1>3 DEF Sent, Places
<1>5a. \A A, B : A \subseteq 1..n /\ B \subseteq 1..k =>
          Cardinality(A \cup Moved(B)) = Cardinality(A) + Cardinality(B)
  <2> SUFFICES ASSUME NEW A, NEW B, A \subseteq 1..n, B \subseteq 1..k
               PROVE  Cardinality(A \cup Moved(B)) = Cardinality(A) + Cardinality(B)
    OBVIOUS
  <2>1. n \in Nat /\ k \in Nat
    BY <1>2, <1>3
  <2>2. Within(A, n) /\ Within(B, k)
    BY DEF Within
  <2>3. QED
    BY <2>1, <2>2, Shifted
<1> USE DEF Behind
<1>6. \A p : Sent(p)' = Sent(p) \cup Moved(Places(m_packetBuffer, p))
  <2> SUFFICES ASSUME NEW p, NEW i
               PROVE  i \in Sent(p)' <=> i \in Sent(p) \cup Moved(Places(m_packetBuffer, p))
    OBVIOUS
  <2>1. CASE i \in 1..n
    <3>1. i \in DOMAIN wire' /\ wire'[i] = wire[i]
      BY <1>2, <1>3, <1>4, <2>1
    <3>2. i \notin Moved(Places(m_packetBuffer, p))
      BY <1>2, <1>3, <1>5, <2>1
    <3>3. QED
      BY <1>3, <2>1, <3>1, <3>2 DEF Sent
  <2>2. CASE i \in 1..(n + k) /\ i \notin 1..n
    <3>1. /\ i - n \in 1..k /\ i = n + (i - n)
      BY <1>2, <1>3, <2>2
    <3>2. wire'[i].pkt = m_packetBuffer[i - n]
      BY <1>2, <1>4, <3>1
    <3>3. i \in Moved(Places(m_packetBuffer, p)) <=> i - n \in Places(m_packetBuffer, p)
      BY <1>2, <1>3, <1>5, <3>1
    <3>4. i \notin Sent(p)
      BY <1>5, <2>2
    <3>5. QED
      BY <1>2, <1>4, <2>2, <3>1, <3>2, <3>3, <3>4 DEF Sent, Places
  <2>3. CASE i \notin 1..(n + k)
    BY <1>2, <1>3, <1>4, <1>5, <2>3 DEF Sent
  <2>4. QED
    BY <1>2, <1>3, <2>1, <2>2, <2>3
<1>7. \A p : /\ Cardinality(Sent(p)') =
                  Cardinality(Sent(p)) + Cardinality(Places(m_packetBuffer, p))
             /\ Cardinality(Sent(p)) \in Nat /\ Cardinality(Places(m_packetBuffer, p)) \in Nat
  <2> SUFFICES ASSUME NEW p
               PROVE  /\ Cardinality(Sent(p)') =
                           Cardinality(Sent(p)) + Cardinality(Places(m_packetBuffer, p))
                      /\ Cardinality(Sent(p)) \in Nat
                      /\ Cardinality(Places(m_packetBuffer, p)) \in Nat
    OBVIOUS
  <2> DEFINE S == Sent(p)
  <2> DEFINE W == Places(m_packetBuffer, p)
  <2>1. S \subseteq 1..n /\ W \subseteq 1..k /\ n \in Nat /\ k \in Nat
    BY <1>2, <1>3, <1>5
  <2>2. Sent(p)' = S \cup Moved(W)
    BY <1>6
  <2> HIDE DEF S, W, n, k, Moved
  <2>3. Cardinality(S \cup Moved(W)) = Cardinality(S) + Cardinality(W)
    BY <2>1, <1>5a
  <2>4. Cardinality(S) \in Nat /\ Cardinality(W) \in Nat
    BY <2>1, Initial
  <2>5. QED
    BY <2>2, <2>3, <2>4 DEF S, W
<1>8. \A p : Places(m_packetBuffer, p)' = {} /\ Places(given, p)' = Places(given, p)
  BY <1>1 DEF Places
<1>9. TypeOK'
  <2>1. headers' \in [Packet -> Nat]
    BY <1>0, <1>1, <1>7 DEF TypeOK
  <2>2. m_packetBuffer' \in Seq(Packet)
    BY <1>1
  <2>3. QED
    BY <1>0, <1>1, <1>4, <2>1, <2>2 DEF TypeOK, Copy
<1>10. Known' /\ GivenOnce'
  <2>1. \A p : Sent(p)' # {} <=> Sent(p) # {} \/ Waits(p)
    BY <1>6 DEF Waits
  <2>2. \A p : ~ Waits(p)'
    BY <1>8 DEF Waits
  <2>3. \A i \in DOMAIN m_packetBuffer' : m_packetBuffer'[i] \in waited'
    BY <1>1
  <2>4. QED
    BY <1>0, <1>1, <1>8, <2>1, <2>2, <2>3 DEF Known, GivenOnce
<1>11. CopiesOnce'
  <2>1. Cardinality({}) = 0
    BY FS_EmptySet
  <2> SUFFICES ASSUME NEW p \in Packet
               PROVE  Cardinality(Sent(p)') + Cardinality(Places(m_packetBuffer, p)') =
                        Cardinality(Places(given, p)') + failures'[p]
    BY DEF CopiesOnce
  <2>2. Cardinality(Sent(p)) + Cardinality(Places(m_packetBuffer, p)) =
          Cardinality(Places(given, p)) + failures[p]
    BY <1>0 DEF CopiesOnce
  <2>3. Cardinality(Places(m_packetBuffer, p)') = 0
    BY <1>8, <2>1
  <2>4. Cardinality(Places(given, p)') = Cardinality(Places(given, p)) /\ failures' = failures
    BY <1>1, <1>8
  <2>5. QED
    BY <1>7, <2>2, <2>3, <2>4
<1>12. HeadersKnown'
  BY <1>0, <1>1, <1>7 DEF HeadersKnown
<1>13. PileUp'
  <2> SUFFICES ASSUME NEW p \in Packet, NEW i \in Sent(p)'
               PROVE  wire'[i].headers = Cardinality({j \in Sent(p)' : j <= i})
    BY DEF PileUp, PilesUp
  <2>1. CASE i \in Sent(p)
    <3>1. {j \in Sent(p)' : j <= i} = {j \in Sent(p) : j <= i}
      BY <1>2, <1>3, <1>5, <1>6, <2>1
    <3>2. wire'[i].headers = Cardinality({j \in Sent(p) : j <= i})
      BY <1>0, <1>4, <1>5, <2>1 DEF PileUp, PilesUp
    <3>3. QED
      BY <3>1, <3>2
  <2>2. CASE i \in Moved(Places(m_packetBuffer, p))
    <3>1. PICK l \in Places(m_packetBuffer, p) : i = n + l
      BY <2>2
    <3> DEFINE B == {j \in Places(m_packetBuffer, p) : j <= l}
    <3>2. l \in 1..k /\ B \subseteq 1..k /\ m_packetBuffer[l] = p
      BY <1>5 DEF Places
    <3>3. {j \in Sent(p)' : j <= i} = Sent(p) \cup Moved(B)
      <4> SUFFICES ASSUME NEW j \in Int
                   PROVE  j \in Sent(p)' /\ j <= i <=> j \in Sent(p) \cup Moved(B)
        BY <1>2, <1>3, <1>5, <1>6, <3>2
      <4>1. CASE j \in Sent(p)
        BY <1>3, <1>5, <1>6, <3>1, <3>2, <4>1
      <4>2. CASE j \notin Sent(p)
        <5>1. ASSUME j \in Sent(p)', j <= i
              PROVE  j \in Moved(B)
          <6>1. PICK m \in Places(m_packetBuffer, p) : j = n + m
            BY <1>6, <4>2, <5>1
          <6>2. m \in 1..k
            BY <1>5
          <6>3. m <= l
            BY <1>2, <1>3, <3>1, <3>2, <5>1, <6>1, <6>2
          <6>4. QED
            BY <6>1, <6>3
        <5>2. ASSUME j \in Moved(B)
              PROVE  j \in Sent(p)' /\ j <= i
          <6>1. PICK m \in B : j = n + m
            BY <5>2
          <6>2. m \in 1..k /\ m \in Places(m_packetBuffer, p) /\ m <= l
            BY <1>5
          <6>3. j \in Sent(p)'
            BY <1>6, <6>1, <6>2
          <6>4. QED
            BY <1>2, <1>3, <3>1, <3>2, <6>1, <6>2, <6>3
        <5>3. QED
          BY <4>2, <5>1, <5>2
      <4>3. QED
        BY <4>1, <4>2
    <3>4. Cardinality(Sent(p) \cup Moved(B)) = Cardinality(Sent(p)) + Cardinality(B)
      <4> DEFINE S == Sent(p)
      <4>1. S \subseteq 1..n /\ B \subseteq 1..k /\ n \in Nat /\ k \in Nat
        BY <1>2, <1>3, <1>5, <3>2
      <4> HIDE DEF B, S, n, k, Moved
      <4>2. Cardinality(S \cup Moved(B)) = Cardinality(S) + Cardinality(B)
        BY <4>1, <1>5a
      <4>3. QED
        BY <4>2 DEF S
    <3>5. wire'[i].headers = headers[p] + Cardinality(B)
      <4>1. Flushed[l].headers = headers[p] + Cardinality(B)
        BY <1>0, <3>2, FlushedCopies
      <4>2. wire'[i] = Flushed[l]
        BY <1>4, <3>1, <3>2
      <4>3. QED
        BY <4>1, <4>2
    <3>6. QED
      BY <1>0, <3>3, <3>4, <3>5 DEF HeadersKnown
  <2>3. QED
    BY <1>6, <2>1, <2>2
<1>14. InOrder'
  <2> SUFFICES ASSUME NEW p \in waited', NEW q \in waited', GivenBefore(p, q)'
               PROVE  SentBefore(p, q)' /\ WaitsBefore(p, q)'
    BY DEF InOrder
  <2>1. p \in waited /\ q \in waited /\ GivenBefore(p, q)
    BY <1>1 DEF GivenBefore
  <2>2. SentBefore(p, q) /\ WaitsBefore(p, q)
    BY <1>0, <2>1 DEF InOrder
  <2>3. WaitsBefore(p, q)'
    BY <1>8 DEF WaitsBefore
  <2>4. ASSUME NEW j \in Sent(q)'
        PROVE  \E i \in Sent(p)' : i < j
    <3>1. CASE j \in Sent(q)
      BY <1>6, <2>2, <3>1 DEF SentBefore
    <3>2. CASE j \in Moved(Places(m_packetBuffer, q))
      <4>1. PICK m \in Places(m_packetBuffer, q) : j = n + m
        BY <3>2
      <4>2. CASE Sent(p) # {}
        <5>1. PICK i \in Sent(p) : TRUE
          BY <4>2
        <5>2. i < j /\ i \in Sent(p)'
          BY <1>2, <1>3, <1>5, <1>6, <4>1, <5>1
        <5>3. QED
          BY <5>2
      <4>3. CASE Sent(p) = {}
        <5>1. PICK l \in Places(m_packetBuffer, p) : l < m
          BY <2>2, <4>3 DEF WaitsBefore
        <5>2. n + l < j /\ n + l \in Sent(p)'
          BY <1>2, <1>3, <1>5, <1>6, <4>1, <5>1
        <5>3. QED
          BY <5>2
      <4>4. QED
        BY <4>2, <4>3
    <3>3. QED
      BY <1>6, <3>1, <3>2
  <2>5. QED
    BY <2>3, <2>4 DEF SentBefore
<1>15. QED
  BY <1>9, <1>10, <1>11, <1>12, <1>13, <1>14 DEF Inv

-----------------------------------------------------------------------------
LEMMA QuietInv ==
  ASSUME Inv, UNCHANGED << m_packetBuffer, headers, given, wire, waited, failures >>,
         up' \in BOOLEAN
  PROVE  Inv'
<1>1. \A p : /\ Sent(p)' = Sent(p) /\ Places(given, p)' = Places(given, p)
             /\ Places(m_packetBuffer, p)' = Places(m_packetBuffer, p)
  BY DEF Sent, Places
<1>2. TypeOK' /\ GivenOnce'
  BY DEF Inv, TypeOK, GivenOnce
<1>3. Known' /\ CopiesOnce' /\ HeadersKnown'
  BY <1>1 DEF Inv, Known, CopiesOnce, HeadersKnown, Waits
<1>4. PileUp'
  BY <1>1 DEF Inv, PileUp, PilesUp
<1>5. InOrder'
  BY <1>1 DEF Inv, InOrder, GivenBefore, SentBefore, WaitsBefore
<1>6. QED
  BY <1>2, <1>3, <1>4, <1>5 DEF Inv

LEMMA StepInv ==
  ASSUME Inv, [Next]_vars
  PROVE  Inv'
<1>1. ASSUME NEW p \in Packet, Send(p)
      PROVE  Inv'
  BY <1>1, PutInv, SendRefusedInv DEF Send
<1>2. CASE SendBuffer
  BY <1>2, SendBufferInv
<1>3. CASE SendBufferFails
  BY <1>3, SendBufferFailsInv
<1>4. CASE Route
  BY <1>4, QuietInv DEF Route, Inv, TypeOK
<1>5. CASE UNCHANGED vars
  BY <1>5, QuietInv DEF vars, Inv, TypeOK
<1>6. QED
  BY <1>1, <1>2, <1>3, <1>4, <1>5 DEF Next

LEMMA InvAlways == Spec => []Inv
<1>1. QED
  BY InitInv, StepInv, PTL DEF Spec

(* The values keep their types: m_packetBuffer, m_sent and the headers. *)
THEOREM RelayTypes == Spec => []TypeOK
<1>1. Inv => TypeOK
  BY DEF Inv
<1>2. QED
  BY <1>1, InvAlways, PTL

(* Nothing is lost: each packet is in the buffer or on the wire as many    *)
(* times as it was given and a retry failed with it in front, and the k-th *)
(* copy that SendBuffer or Send puts on the wire carries k headers.        *)
THEOREM NothingIsLost == Spec => []CopiesCounted
<1>1. Inv => CopiesCounted
  <2> SUFFICES ASSUME Inv
               PROVE  HeadersPileUp
    BY DEF Inv, CopiesCounted
  <2> SUFFICES ASSUME NEW i \in DOMAIN wire
               PROVE  wire[i].headers = Cardinality({j \in Sent(wire[i].pkt) : j <= i})
    BY DEF HeadersPileUp
  <2>1. i \in Sent(wire[i].pkt)
    BY DEF Sent
  <2>2. wire[i].pkt \in Packet
    <3>1. wire \in Seq(Copy)
      BY DEF Inv, TypeOK, Copy
    <3>2. wire[i] \in Copy
      <4> HIDE DEF Copy
      <4>1. DOMAIN wire = 1..Len(wire)
        BY <3>1, LenProperties
      <4>2. QED
        BY <3>1, <4>1, ElementOfSeq
    <3>3. QED
      BY <3>2 DEF Copy
  <2>3. QED
    BY <2>1, <2>2 DEF Inv, PileUp, PilesUp
<1>2. QED
  BY <1>1, InvAlways, PTL

(* Of two packets that were refused, one that was given first to Send also *)
(* reaches the base station first, whatever retries fail in between.       *)
THEOREM WaitersKeepOrder == Spec => []WaitedInOrder
<1>1. Inv => WaitedInOrder
  BY DEF Inv, WaitedInOrder, InOrder, GivenBefore
<1>2. QED
  BY <1>1, InvAlways, PTL
=============================================================================

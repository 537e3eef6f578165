---------------------------- MODULE NetworkServer ----------------------------
(***************************************************************************)
(* The way of an acknowledgement: SimpleNetworkServer with its DeviceStatus*)
(* and GatewayStatus, the links to the gateways with their Forwarder, and  *)
(* the transmitting side of GatewayLoraMac and GatewayLoraPhy.             *)
(*                                                                         *)
(* What is scheduled carries the time left until it runs; what is due at   *)
(* the same time runs in any order.  An uplink appears when it ends, at    *)
(* the gateways that receive it.  Uplinks and the replies in the first     *)
(* window use one sub-band, replies in the second window another.          *)
(***************************************************************************)
EXTENDS Integers, FiniteSets

CONSTANTS
  Device,         \* addresses of the end devices
  Gateway,        \* addresses of the gateways
  Power,          \* powers at which a gateway receives
  AirTime,        \* times on air of a reply
  RestFactor,     \* window |-> 1 / duty cycle of its sub-band - 1
  LinkDelay,      \* of the links between server and gateways
  Booking,        \* how long a gateway counts as booked (1 ms)
  ReplyDelay,     \* of the server, before the first and the second window (1 s)
  ReceiveDelay1, ReceiveDelay2, WindowDuration,  \* of the end devices
  Cycle           \* an end device does not send again before

Window == {"first", "second"}

ASSUME SetAssumption ==
  /\ IsFiniteSet(Device) /\ IsFiniteSet(Gateway) /\ Power \subseteq Int
  /\ AirTime \subseteq Nat /\ RestFactor \in [Window -> Nat \ {0}]
ASSUME DelayAssumption ==
  /\ LinkDelay \in Nat \ {0} /\ Booking \in Nat \ {0} /\ ReplyDelay \in Nat \ {0}
  /\ ReceiveDelay1 \in Nat /\ ReceiveDelay2 \in Nat /\ WindowDuration \in Nat
  /\ Cycle \in Nat /\ Cycle > ReceiveDelay2 + WindowDuration
(* A reply takes tens of milliseconds at least, the links two.             *)
ASSUME AirAssumption == \A toa \in AirTime : toa > LinkDelay

VARIABLES
  age,             \* time since the last uplink of each device, at most Cycle
  copies,          \* of uplinks, on the links to the server
  m_gateways,      \* of a DeviceStatus: gateway |-> power of the last packet
  hasReply,        \* of the Reply of a DeviceStatus
  timers,          \* SendOnFirstWindow and SendOnSecondWindow events
  givenUp,         \* replies to a device that the server has given up
  down,            \* replies on the links to the gateways
  booked,          \* time until m_nextTransmissionTime is Booking ago
  m_isTransmitting,
  wait,            \* of a gateway: window |-> waiting time of its sub-band
  onAir,           \* replies being transmitted
  sent,            \* replies to a device that a gateway has transmitted
  overlapped       \* gateways that have ever transmitted two packets at once

server == << m_gateways, hasReply, timers, givenUp >>
gateway == << m_isTransmitting, wait, onAir, sent, overlapped >>
vars == << age, copies, server, down, booked, gateway >>

-----------------------------------------------------------------------------
LessOneUnclamped(time) == time - 1

LessOne(time) == IF time = 0 THEN 0 ELSE time - 1

Due(events) == {e \in events : e.left = 0}

(* The set of events one tick later. *)
Closer(events) == {[e EXCEPT !.left = @ - 1] : e \in events}

-----------------------------------------------------------------------------
(* An uplink ends.  EndReceive of the PHY, Receive of the MAC and the      *)
(* Forwarder of each gateway that receives it put a copy on its link.      *)
Uplink(d, confirmed, received) ==
  /\ age[d] = Cycle
  /\ age' = [age EXCEPT ![d] = 0]
  /\ copies' = copies \cup
       {[dev |-> d, gw |-> g, power |-> received[g], confirmed |-> confirmed,
         left |-> LinkDelay] : g \in DOMAIN received}
  /\ UNCHANGED << server, down, booked, gateway >>

UpdateGatewayData(status, g, power) ==
  [h \in DOMAIN status \cup {g} |-> IF h = g THEN power ELSE status[h]]

NeedsReply(c) == c.confirmed /\ ~ hasReply[c.dev]

(* Receive of the server.  The reply stays in the DeviceStatus for good.   *)
Receive(c) ==
  /\ copies' = copies \ {c}
  /\ m_gateways' = [m_gateways EXCEPT ![c.dev] = UpdateGatewayData(@, c.gw, c.power)]
  /\ IF NeedsReply(c)
     THEN /\ hasReply' = [hasReply EXCEPT ![c.dev] = TRUE]
          /\ timers' = timers \cup
               {[dev |-> c.dev, window |-> "first", left |-> ReplyDelay]}
     ELSE UNCHANGED << hasReply, timers >>
  /\ UNCHANGED << age, down, booked, givenUp, gateway >>

(* GatewayStatus::IsAvailableForTransmission *)
AvailableUnlessBooked(g, window) == booked[g] = 0 /\ ~ m_isTransmitting[g]

IsAvailableForTransmission(g, window) ==
  booked[g] = 0 /\ ~ m_isTransmitting[g] /\ wait[g][window] = 0

(* GetGatewayForReply: of the available gateways one with the most power.  *)
GatewaysForReply(d, window) ==
  LET free == {g \in DOMAIN m_gateways[d] : IsAvailableForTransmission(g, window)}
  IN  {g \in free : \A h \in free : m_gateways[d][h] <= m_gateways[d][g]}

(* Book a gateway for the reply and send it there. *)
SendThrough(t) ==
  \E g \in GatewaysForReply(t.dev, t.window) :
    /\ booked' = [booked EXCEPT ![g] = Booking]
    /\ down' = down \cup
         {[dev |-> t.dev, gw |-> g, window |-> t.window, left |-> LinkDelay]}

SecondWindowTwiceLater(t) ==
  [dev |-> t.dev, window |-> "second", left |-> 2 * ReplyDelay]

SecondWindow(t) == [dev |-> t.dev, window |-> "second", left |-> ReplyDelay]

FirstWindowOnly(t) ==
  /\ t.window = "first"
  /\ timers' = timers \ {t}
  /\ \/ SendThrough(t)
     \/ GatewaysForReply(t.dev, "first") = {} /\ UNCHANGED << booked, down >>
  /\ UNCHANGED << age, copies, m_gateways, hasReply, givenUp, gateway >>

SendOnFirstWindow(t) ==
  /\ t.window = "first"
  /\ \/ SendThrough(t) /\ timers' = timers \ {t}
     \/ /\ GatewaysForReply(t.dev, "first") = {}
        /\ timers' = (timers \ {t}) \cup {SecondWindow(t)}
        /\ UNCHANGED << booked, down >>
  /\ UNCHANGED << age, copies, m_gateways, hasReply, givenUp, gateway >>

(* The server gives up on a reply that no gateway can send now. *)
SendOnSecondWindow(t) ==
  /\ t.window = "second"
  /\ timers' = timers \ {t}
  /\ \/ SendThrough(t) /\ UNCHANGED givenUp
     \/ /\ GatewaysForReply(t.dev, "second") = {}
        /\ givenUp' = [givenUp EXCEPT ![t.dev] = @ + 1]
        /\ UNCHANGED << booked, down >>
  /\ UNCHANGED << age, copies, m_gateways, hasReply, gateway >>

-----------------------------------------------------------------------------
OnAirAt(g) == {x \in onAir : x.gw = g}

(* AddEvent of the channel helper of the gateway. *)
RestOf(window, toa) == RestFactor[window] * toa

(* ReceiveFromPointToPoint of the Forwarder, Send of the MAC and the PHY:  *)
(* nobody looks at m_isTransmitting or the waiting time again.             *)
Send(r, toa) ==
  /\ down' = down \ {r}
  /\ overlapped' = IF OnAirAt(r.gw) = {} THEN overlapped ELSE overlapped \cup {r.gw}
  /\ wait' = [wait EXCEPT ![r.gw][r.window] = RestOf(r.window, toa)]
  /\ onAir' = onAir \cup {[dev |-> r.dev, gw |-> r.gw, left |-> toa]}
  /\ m_isTransmitting' = [m_isTransmitting EXCEPT ![r.gw] = TRUE]
  /\ sent' = [sent EXCEPT ![r.dev] = @ + 1]
  /\ UNCHANGED << age, copies, server, booked >>

(* TxFinished of the PHY, whatever else it is transmitting. *)
AfterTxFinished(g) == FALSE

TxFinished(x) ==
  /\ onAir' = onAir \ {x}
  /\ m_isTransmitting' = [m_isTransmitting EXCEPT ![x.gw] = AfterTxFinished(x.gw)]
  /\ UNCHANGED << age, copies, server, down, booked, wait, sent, overlapped >>

Tick ==
  /\ \A events \in {copies, timers, down, onAir} : Due(events) = {}
  /\ age' = [d \in Device |-> IF age[d] = Cycle THEN Cycle ELSE age[d] + 1]
  /\ copies' = Closer(copies)
  /\ timers' = Closer(timers)
  /\ down' = Closer(down)
  /\ onAir' = Closer(onAir)
  /\ booked' = [g \in Gateway |-> LessOne(booked[g])]
  /\ wait' = [g \in Gateway |-> [w \in Window |-> LessOne(wait[g][w])]]
  /\ UNCHANGED << m_gateways, hasReply, givenUp, m_isTransmitting, sent, overlapped >>

-----------------------------------------------------------------------------
(* m_nextTransmissionTime is 0 at first: every gateway counts as booked.   *)
Init ==
  /\ age = [d \in Device |-> Cycle]
  /\ copies = {} /\ timers = {} /\ down = {} /\ onAir = {}
  /\ m_gateways = [d \in Device |-> << >>]
  /\ hasReply = [d \in Device |-> FALSE]
  /\ booked = [g \in Gateway |-> Booking]
  /\ m_isTransmitting = [g \in Gateway |-> FALSE]
  /\ wait = [g \in Gateway |-> [w \in Window |-> 0]]
  /\ sent = [d \in Device |-> 0] /\ givenUp = [d \in Device |-> 0]
  /\ overlapped = {}

Next ==
  \/ \E d \in Device, confirmed \in BOOLEAN, gws \in SUBSET Gateway :
       \E received \in [gws -> Power] : Uplink(d, confirmed, received)
  \/ \E c \in Due(copies) : Receive(c)
  \/ \E t \in Due(timers) : SendOnFirstWindow(t) \/ SendOnSecondWindow(t)
  \/ \E r \in Due(down), toa \in AirTime : Send(r, toa)
  \/ \E x \in Due(onAir) : TxFinished(x)
  \/ Tick

Spec == Init /\ [][Next]_vars

-----------------------------------------------------------------------------
(* Types. *)
TypeOK ==
  /\ age \in [Device -> 0..Cycle]
  /\ copies \subseteq [dev : Device, gw : Gateway, power : Power, confirmed : BOOLEAN,
                       left : Nat]
  /\ DOMAIN m_gateways = Device
  /\ \A d \in Device : /\ DOMAIN m_gateways[d] \subseteq Gateway
                       /\ \A g \in DOMAIN m_gateways[d] : m_gateways[d][g] \in Power
  /\ hasReply \in [Device -> BOOLEAN]
  /\ timers \subseteq [dev : Device, window : Window, left : Nat]
  /\ down \subseteq [dev : Device, gw : Gateway, window : Window, left : Nat]
  /\ booked \in [Gateway -> Nat] /\ m_isTransmitting \in [Gateway -> BOOLEAN]
  /\ wait \in [Gateway -> [Window -> Nat]]
  /\ onAir \subseteq [dev : Device, gw : Gateway, left : Nat]
  /\ {sent, givenUp} \subseteq [Device -> Nat] /\ overlapped \subseteq Gateway

(* The one reply that the server owes to a device once a confirmed uplink  *)
(* of it has come, by however many gateways, is accounted for: it waits    *)
(* for a window, is on a link, has been transmitted or given up, is never  *)
(* in two of these places and never lost between them.                     *)
Waiting(d) == {t \in timers : t.dev = d}
Under(d) == {r \in down : r.dev = d}

OneReply ==
  \A d \in Device :
    Cardinality(Waiting(d)) + Cardinality(Under(d)) + sent[d] + givenUp[d]
      = IF hasReply[d] THEN 1 ELSE 0

(* The server "can reply correctly with ACKs to confirmed uplink           *)
(* messages": a confirmed uplink that it receives has a reply scheduled.   *)
AcksConfirmed ==
  [][\A c \in Due(copies) : c.confirmed /\ c \notin copies' => Waiting(c.dev)' # {}]_vars

(* A reply starts while the window it is meant for is open at the device,  *)
(* in spite of the delays of the links, which the server ignores.          *)
Opening(window) == IF window = "first" THEN ReceiveDelay1 ELSE ReceiveDelay2

RepliesInWindow ==
  \A r \in Due(down) :
    age[r.dev] \in Opening(r.window) .. Opening(r.window) + WindowDuration

(* Nobody checks the duty cycle when a gateway transmits, but the server   *)
(* has when it booked it: a gateway that never transmitted two packets at  *)
(* once starts no transmission in a sub-band it may not use yet.           *)
RespectsDutyCycle ==
  [][\A r \in Due(down) :
       sent'[r.dev] # sent[r.dev] =>
         wait[r.gw][r.window] = 0 \/ r.gw \in overlapped']_vars

(* m_isTransmitting tells whether a gateway transmits, unless it has ever  *)
(* transmitted two packets at once: what RespectsDutyCycle rests on.       *)
FlagInStep ==
  \A g \in Gateway \ overlapped :
    /\ m_isTransmitting[g] <=> OnAirAt(g) # {}
    /\ Cardinality(OnAirAt(g)) <= 1

(* "We can't send multiple packets at once", the check that the gateway    *)
(* "was not already booked" or "already in TX mode": no gateway transmits  *)
(* two packets at once.                                                    *)
OneAtATime == \A g \in Gateway : Cardinality(OnAirAt(g)) <= 1
=============================================================================

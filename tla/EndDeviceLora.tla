---------------------------- MODULE EndDeviceLora ----------------------------
(***************************************************************************)
(* The MAC and the PHY of a class A end device: EndDeviceLoraMac,          *)
(* EndDeviceLoraPhy and the duty cycle of LogicalLoraChannelHelper.        *)
(*                                                                         *)
(* Scheduled events are records with the time left until they run; time    *)
(* passes when none is due.  Events due at the same time run in any order, *)
(* but the end of a transmission is reported 10 ns after the radio has     *)
(* switched to standby: always after, and something may come between.      *)
(* Of the packets in the air only those count that the PHY would lock on   *)
(* (its frequency and spreading factor, above its sensitivity); whether    *)
(* interference destroys one is open.  All channels are in one sub-band.   *)
(***************************************************************************)
EXTENDS Integers, FiniteSets

CONSTANTS
  AirTime,         \* times on air of the uplinks of this device
  ReplyTime,       \* times on air of the replies to them
  ForeignTime,     \* times on air of the packets of and for other devices
  RestFactor,      \* 1 / duty cycle - 1
  ReceiveDelay1,   \* from the end of an uplink to the first window
  ReceiveDelay2,   \* and to the second
  WindowDuration

ASSUME DelayAssumption ==
  /\ ReceiveDelay1 \in Nat \ {0} /\ WindowDuration \in Nat \ {0}
  /\ ReceiveDelay2 \in Nat /\ ReceiveDelay1 + WindowDuration < ReceiveDelay2

(* No sub-band has a duty cycle above 10%.  The reply, a few bytes, ends   *)
(* before the device may transmit again.                                   *)
ASSUME AirAssumption ==
  /\ AirTime \subseteq Nat \ {0} /\ ForeignTime \subseteq Nat \ {0}
  /\ ReplyTime \subseteq Nat \ {0} /\ ReplyTime # {}
  /\ RestFactor \in Nat /\ RestFactor >= 9
  /\ \A up \in AirTime, down \in ReplyTime :
       up + ReceiveDelay2 + down < RestFactor * up

VARIABLES
  m_state,   \* of the PHY: "SLEEP", "STANDBY", "TX" or "RX"
  events,    \* what is scheduled
  wait,      \* time until the sub-band may be used again
  reply,     \* to the last uplink: "none", "owed", "arriving", "lost" or "received"
  overrun,   \* whether a reception was under way when the uplink ended or, if one has
             \* closed since, when the last window closed
  cut,       \* whether a Send has ever cut a reception short
  failed     \* an assertion has failed: the program has ended

vars == << m_state, events, wait, reply, overrun, cut, failed >>

-----------------------------------------------------------------------------
Event(kind, left) == [kind |-> kind, left |-> left, forUs |-> FALSE]

Pending(kinds) == \E e \in events : e.kind \in kinds

Due(kind) == {e \in events : e.kind = kind /\ e.left = 0}

(* An EventId is expired once its event has run or was cancelled. *)
m_closeWindowIsExpired == ~ Pending({"closeFirst", "closeSecond"})

m_secondReceiveWindowIsExpired == ~ Pending({"openSecond"})

(* LogicalLoraChannelHelper::AddEvent *)
AddEvent(toa) == RestFactor * toa

(* A waiting time is never negative. *)
WaitLess(time) == IF time = 0 THEN 0 ELSE time - 1

(* NS_ASSERT (m_state == STANDBY) *)
SwitchToSleep ==
  IF m_state = "STANDBY"
  THEN m_state' = "SLEEP" /\ UNCHANGED failed
  ELSE failed' = TRUE /\ UNCHANGED m_state

-----------------------------------------------------------------------------
(* Send of the MAC up to the end of Send of the PHY.  The radio is         *)
(* switched to standby first, whatever it does.  A Send that is refused    *)
(* changes nothing.                                                        *)
Send(toa) ==
  /\ m_closeWindowIsExpired /\ m_secondReceiveWindowIsExpired
  /\ wait = 0
  /\ m_state' = "TX"
  /\ cut' = (cut \/ m_state = "RX")
  /\ events' = events \cup {Event("standby", toa), Event("txFinished", toa)}
  /\ wait' = AddEvent(toa)
  /\ reply' = "owed"
  /\ UNCHANGED << overrun, failed >>

(* The SwitchToStandby scheduled with the transmission. *)
SwitchToStandby ==
  \E e \in Due("standby") :
    /\ m_state' = "STANDBY"
    /\ events' = events \ {e}
    /\ UNCHANGED << wait, reply, overrun, cut, failed >>

TxFinishedOnlySecond ==
  \E e \in Due("txFinished") :
    /\ Due("standby") = {}
    /\ events' = (events \ {e}) \cup {Event("openSecond", ReceiveDelay2)}
    /\ SwitchToSleep
    /\ overrun' = Pending({"endReceive"})
    /\ UNCHANGED << wait, reply, cut >>

TxFinished ==
  \E e \in Due("txFinished") :
    /\ Due("standby") = {}
    /\ events' = (events \ {e}) \cup {Event("openFirst", ReceiveDelay1),
                                      Event("openSecond", ReceiveDelay2)}
    /\ SwitchToSleep
    /\ overrun' = Pending({"endReceive"})
    /\ UNCHANGED << wait, reply, cut >>

OpenFirstReceiveWindow ==
  \E e \in Due("openFirst") :
    /\ m_state' = "STANDBY"
    /\ events' = (events \ {e}) \cup {Event("closeFirst", WindowDuration)}
    /\ UNCHANGED << wait, reply, overrun, cut, failed >>

(* A reception under way goes on; TX and SLEEP abort the program. *)
CloseFirstReceiveWindow ==
  \E e \in Due("closeFirst") :
    /\ IF m_state = "RX" THEN UNCHANGED << m_state, failed >> ELSE SwitchToSleep
    /\ events' = events \ {e}
    /\ overrun' = Pending({"endReceive"})
    /\ UNCHANGED << wait, reply, cut >>

(* Not opened at all during a reception. *)
OpenSecondAlways ==
  \E e \in Due("openSecond") :
    /\ m_state' = "STANDBY"
    /\ events' = (events \ {e}) \cup {Event("closeSecond", WindowDuration)}
    /\ UNCHANGED << wait, reply, overrun, cut, failed >>

OpenSecondReceiveWindow ==
  \E e \in Due("openSecond") :
    /\ IF m_state = "RX"
       THEN events' = events \ {e} /\ UNCHANGED m_state
       ELSE /\ m_state' = "STANDBY"
            /\ events' = (events \ {e}) \cup {Event("closeSecond", WindowDuration)}
    /\ UNCHANGED << wait, reply, overrun, cut, failed >>

CloseSecondLeavesOpen ==
  \E e \in Due("closeSecond") :
    /\ events' = events \ {e}
    /\ overrun' = Pending({"endReceive"})
    /\ UNCHANGED << m_state, wait, reply, cut, failed >>

CloseSecondReceiveWindow ==
  \E e \in Due("closeSecond") :
    /\ m_state' = IF m_state = "STANDBY" THEN "SLEEP" ELSE m_state
    /\ events' = events \ {e}
    /\ overrun' = Pending({"endReceive"})
    /\ UNCHANGED << wait, reply, cut, failed >>

-----------------------------------------------------------------------------
(* StartReceive of a packet the PHY locks on; in every state but STANDBY a *)
(* packet is only added to the interference.  The network server sends one *)
(* reply, when the first window opens or when the second does.             *)
StartReceive(forUs, duration) ==
  /\ m_state = "STANDBY"
  /\ IF forUs
     THEN /\ reply = "owed" /\ duration \in ReplyTime
          /\ \E e \in events : /\ e.kind \in {"closeFirst", "closeSecond"}
                               /\ e.left = WindowDuration
          /\ reply' = "arriving"
     ELSE duration \in ForeignTime /\ UNCHANGED reply
  /\ m_state' = "RX"
  /\ events' = events \cup {[kind |-> "endReceive", left |-> duration, forUs |-> forUs]}
  /\ UNCHANGED << wait, overrun, cut, failed >>

(* EndReceive of the PHY, and Receive of the MAC unless the packet was     *)
(* destroyed: the reply cancels the second window.                         *)
ReceiveKeepsWindow(forUs, destroyed, rest) ==
  /\ events' = rest
  /\ reply' = IF ~ forUs THEN reply ELSE IF destroyed THEN "lost" ELSE "received"

Receive(forUs, destroyed, rest) ==
  IF forUs
  THEN /\ events' = IF destroyed THEN rest ELSE {e \in rest : e.kind # "openSecond"}
       /\ reply' = IF destroyed THEN "lost" ELSE "received"
  ELSE events' = rest /\ UNCHANGED reply

AsleepAfterReceive == "SLEEP"

AfterReceive == "STANDBY"

EndReceive(destroyed) ==
  \E e \in Due("endReceive") :
    /\ Receive(e.forUs, destroyed, events \ {e})
    /\ m_state' = AfterReceive
    /\ UNCHANGED << wait, overrun, cut, failed >>

(* Time passes. *)
Tick ==
  /\ \A e \in events : e.left > 0
  /\ events' = {[e EXCEPT !.left = @ - 1] : e \in events}
  /\ wait' = WaitLess(wait)
  /\ UNCHANGED << m_state, reply, overrun, cut, failed >>

-----------------------------------------------------------------------------
Init ==
  /\ m_state = "SLEEP"
  /\ events = {}
  /\ wait = 0
  /\ reply = "none"
  /\ overrun = FALSE
  /\ cut = FALSE
  /\ failed = FALSE

RunEvent ==
  /\ ~ failed
  /\ \/ SwitchToStandby
     \/ TxFinished
     \/ OpenFirstReceiveWindow
     \/ CloseFirstReceiveWindow
     \/ OpenSecondReceiveWindow
     \/ CloseSecondReceiveWindow
     \/ \E destroyed \in BOOLEAN : EndReceive(destroyed)

Next ==
  \/ RunEvent
  \/ ~ failed /\ Tick
  \/ ~ failed /\ \E toa \in AirTime : Send(toa)
  \/ ~ failed /\ \E forUs \in BOOLEAN, duration \in ReplyTime \cup ForeignTime :
                   StartReceive(forUs, duration)

Spec == Init /\ [][Next]_vars

(* The simulator runs what is scheduled, and its clock goes on. *)
FairSpec == Spec /\ WF_vars(RunEvent) /\ WF_vars(~ failed /\ Tick)

-----------------------------------------------------------------------------
(* Types. *)
TypeOK ==
  /\ m_state \in {"SLEEP", "STANDBY", "TX", "RX"}
  /\ \A e \in events :
       /\ e.kind \in {"standby", "txFinished", "openFirst", "closeFirst", "openSecond",
                      "closeSecond", "endReceive"}
       /\ e.left \in Nat /\ e.forUs \in BOOLEAN
  /\ wait \in Nat
  /\ reply \in {"none", "owed", "arriving", "lost", "received"}
  /\ {overrun, cut, failed} \subseteq BOOLEAN

(* The program ends in one way only: a packet that starts between the      *)
(* switch to standby and the report of the end of a transmission is locked *)
(* on, and the report finds the radio in RX.  No window ever closes on a   *)
(* radio that sleeps or transmits, and no cycle runs into the next one.    *)
FailsOnlyByGap ==
  [][failed' # failed => m_state = "RX" /\ Due("txFinished") # {}]_vars

(* The radio is in RX exactly while one reception is under way: windows    *)
(* and transmissions do not touch it, unless a Send has ever cut one short.*)
InStep ==
  ~ cut =>
    /\ m_state = "RX" <=> Pending({"endReceive"})
    /\ Cardinality({e \in events : e.kind = "endReceive"}) <= 1

(* A device that no window keeps awake sleeps, or a reception has outlasted *)
(* the window that closed last: one that outlasts the first window alone   *)
(* is made good by the second, and packets within a window never keep a    *)
(* device awake after it.                                                  *)
AsleepUnlessOverrun ==
  ~ overrun /\ ~ failed /\ ~ Pending({"standby", "txFinished", "closeFirst", "closeSecond"})
    => m_state = "SLEEP"

(* "PHY is receiving: let it finish.  The Receive method will switch it    *)
(* back to SLEEP": so a reception that outlasts its window, and that no    *)
(* Send has cut short, leaves the radio asleep.                            *)
SleepsAfterReceive ==
  [][\A e \in Due("endReceive") : overrun /\ ~ cut /\ e \notin events' => m_state' = "SLEEP"]_vars

(* Once the reply to an uplink has been received, the second window for it *)
(* is not going to open.                                                   *)
AnsweredOnce == reply = "received" => ~ Pending({"openSecond"})

(* Every uplink gets its first window, unless the program has ended. *)
Listens == (m_state = "TX") ~> (Pending({"closeFirst"}) \/ failed)
=============================================================================

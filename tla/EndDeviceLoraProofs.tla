------------------------ MODULE EndDeviceLoraProofs ------------------------
(***************************************************************************)
(* For every delay, time on air and duty cycle the assumptions allow: what *)
(* the MAC has scheduled belongs to one cycle of an uplink and its windows, *)
(* and from that follows what the radio does.                              *)
(***************************************************************************)
EXTENDS EndDeviceLora, FiniteSetTheorems, TLAPS

Kinds ==
  {"standby", "txFinished", "openFirst", "closeFirst", "openSecond", "closeSecond"}

Events ==
  {e \in [kind : Kinds \cup {"endReceive"}, left : Nat, forUs : BOOLEAN] :
     e.forUs => e.kind = "endReceive"}

(* When in the cycle an event runs, from the end of the uplink on *)
At(kind) ==
  CASE kind \in {"standby", "txFinished"} -> 0
    [] kind = "openFirst" -> ReceiveDelay1
    [] kind = "closeFirst" -> ReceiveDelay1 + WindowDuration
    [] kind = "openSecond" -> ReceiveDelay2
    [] OTHER -> ReceiveDelay2 + WindowDuration

(* What may be scheduled together *)
Beside(kind) ==
  CASE kind \in {"standby", "txFinished"} -> {"standby", "txFinished"}
    [] kind = "openFirst" -> {"openFirst", "openSecond"}
    [] kind = "closeFirst" -> {"closeFirst", "openSecond"}
    [] kind = "openSecond" -> {"openFirst", "closeFirst", "openSecond"}
    [] OTHER -> {"closeSecond"}

Types ==
  /\ events \subseteq Events /\ wait \in Nat
  /\ m_state \in {"SLEEP", "STANDBY", "TX", "RX"}
  /\ reply \in {"none", "owed", "arriving", "lost", "received"}
  /\ overrun \in BOOLEAN /\ cut \in BOOLEAN /\ failed \in BOOLEAN

OneCycle ==
  \A e, f \in events :
    e.kind \in Kinds /\ f.kind \in Kinds =>
      /\ f.kind \in Beside(e.kind)
      /\ f.left - e.left = At(f.kind) - At(e.kind)

(* The sub-band rests until a reply in the second window would be over. *)
Rests ==
  \A e \in events :
    /\ e.kind \in Kinds =>
         \A down \in ReplyTime : wait > e.left + ReceiveDelay2 - At(e.kind) + down
    /\ e.forUs => wait > e.left

Replies ==
  /\ Pending({"standby", "txFinished"}) => reply = "owed"
  /\ \A e \in events : e.forUs => reply = "arriving"
  /\ \A e, f \in events : e.forUs /\ f.forUs => e = f
  /\ AnsweredOnce

Awake ==
  /\ Pending({"standby"}) => Pending({"txFinished"})
  /\ m_state = "TX" => Pending({"standby"})
  /\ Pending({"txFinished", "closeFirst"}) => m_state # "SLEEP"
  /\ m_state = "RX" => Pending({"endReceive"})

Receives ==
  ~ cut =>
    /\ m_state = "RX" <=> Pending({"endReceive"})
    /\ \A e, f \in events : e.kind = "endReceive" /\ f.kind = "endReceive" => e = f
    /\ Pending({"standby"}) => m_state = "TX"
    /\ Pending({"openFirst"}) /\ ~ failed => m_state = "SLEEP"

Overruns ==
  ~ overrun =>
    /\ Pending({"endReceive"}) => Pending({"txFinished", "closeFirst", "closeSecond"})
    /\ AsleepUnlessOverrun

Inv == Types /\ OneCycle /\ Rests /\ Replies /\ Awake /\ Receives /\ Overruns

-----------------------------------------------------------------------------
LEMMA EventIs ==
  ASSUME NEW kind \in Kinds, NEW left \in Nat
  PROVE  /\ Event(kind, left) \in Events /\ Event(kind, left).kind = kind
         /\ Event(kind, left).left = left /\ ~ Event(kind, left).forUs
BY DEF Event, Events, Kinds

(* The times of the cycle as sums *)
LEMMA Times ==
  /\ At("standby") = 0 /\ At("txFinished") = 0 /\ At("openFirst") = ReceiveDelay1
  /\ At("closeFirst") = ReceiveDelay1 + WindowDuration
  /\ At("openSecond") = ReceiveDelay2
  /\ At("closeSecond") = ReceiveDelay2 + WindowDuration
  /\ \A kind : At(kind) \in Int
  /\ ReceiveDelay1 \in Nat /\ ReceiveDelay1 > 0 /\ ReceiveDelay2 \in Nat
  /\ WindowDuration \in Nat /\ WindowDuration > 0
  /\ ReceiveDelay1 + WindowDuration < ReceiveDelay2
BY DelayAssumption DEF At

LEMMA Besides ==
  /\ Beside("standby") = {"standby", "txFinished"}
  /\ Beside("txFinished") = {"standby", "txFinished"}
  /\ Beside("openFirst") = {"openFirst", "openSecond"}
  /\ Beside("closeFirst") = {"closeFirst", "openSecond"}
  /\ Beside("openSecond") = {"openFirst", "closeFirst", "openSecond"}
  /\ Beside("closeSecond") = {"closeSecond"}
BY DEF Beside

(* Of each kind one event is scheduled at most. *)
LEMMA Unique ==
  ASSUME Types, OneCycle, NEW e \in events, NEW f \in events,
         e.kind \in Kinds, f.kind = e.kind
  PROVE  f = e
<1>1. f.left - e.left = 0
  <2>1. f.left - e.left = At(e.kind) - At(e.kind) /\ At(e.kind) \in Int
    BY Times DEF OneCycle
  <2>2. QED
    BY <2>1
<1>2. e \in Events /\ f \in Events /\ ~ e.forUs /\ ~ f.forUs
  BY DEF Types, Events, Kinds
<1>3. f.left = e.left /\ f.forUs = e.forUs
  BY <1>1, <1>2 DEF Events
<1>4. QED
  BY <1>2, <1>3 DEF Events

-----------------------------------------------------------------------------
LEMMA InitInv == Init => Inv
<1> SUFFICES ASSUME Init
             PROVE  Inv
  OBVIOUS
<1>1. events = {} /\ m_state = "SLEEP" /\ reply = "none" /\ wait = 0
  BY DEF Init
<1>2. Types
  <2>1. overrun = FALSE /\ cut = FALSE /\ failed = FALSE
    BY DEF Init
  <2>2. overrun \in BOOLEAN /\ cut \in BOOLEAN /\ failed \in BOOLEAN
    BY <2>1, Zenon
  <2>3. /\ events \subseteq Events /\ wait \in Nat
        /\ m_state \in {"SLEEP", "STANDBY", "TX", "RX"}
        /\ reply \in {"none", "owed", "arriving", "lost", "received"}
    BY <1>1
  <2>4. QED
    BY <2>2, <2>3, Zenon DEF Types
<1>3. \A K : ~ Pending(K)
  BY <1>1 DEF Pending
<1>4. OneCycle /\ Rests
  BY <1>1 DEF OneCycle, Rests
<1>5. Replies
  BY <1>1, <1>3 DEF Replies, AnsweredOnce
<1>6. Awake /\ Receives
  BY <1>1, <1>3 DEF Awake, Receives
<1>7. Overruns
  BY <1>1, <1>3 DEF Overruns, AsleepUnlessOverrun
<1>8. QED
  BY <1>2, <1>4, <1>5, <1>6, <1>7 DEF Inv

(* A Send finds nothing of the last cycle but a reception that is not the  *)
(* reply.                                                                  *)
LEMMA SendStep ==
  ASSUME Inv, NEW toa \in AirTime, Send(toa)
  PROVE  Inv'
<1> DEFINE a == Event("standby", toa)
<1> DEFINE b == Event("txFinished", toa)
<1>1. /\ toa \in Nat /\ RestFactor \in Nat /\ RestFactor * toa \in Nat
      /\ ReplyTime \subseteq Nat
      /\ \A down \in ReplyTime : toa + ReceiveDelay2 + down < RestFactor * toa
  <2>1. toa \in Nat /\ RestFactor \in Nat
    BY AirAssumption
  <2>2. QED
    BY <2>1, AirAssumption, SMT
<1>2. PICK down \in ReplyTime : down > 0
  <2>1. PICK d : d \in ReplyTime
    BY AirAssumption
  <2>2. d \in Nat /\ d # 0
    BY <2>1, AirAssumption
  <2>3. QED
    BY <2>1, <2>2
<1>3. /\ events' = events \cup {a, b} /\ m_state' = "TX" /\ wait' = RestFactor * toa
      /\ cut' = (cut \/ m_state = "RX") /\ reply' = "owed" /\ overrun' = overrun
      /\ failed' = failed
  BY DEF Send, AddEvent
<1>4. /\ a \in Events /\ a.kind = "standby" /\ a.left = toa /\ ~ a.forUs
      /\ b \in Events /\ b.kind = "txFinished" /\ b.left = toa /\ ~ b.forUs
  BY <1>1, EventIs DEF Kinds
<1> HIDE DEF a, b
<1>5. \A e \in events : e.kind = "endReceive" /\ ~ e.forUs
  <2> SUFFICES ASSUME NEW e \in events
               PROVE  e.kind = "endReceive" /\ ~ e.forUs
    OBVIOUS
  <2>1. wait = 0 /\ e \in Events /\ e.left \in Nat
    BY DEF Send, Inv, Types, Events
  <2>2. ~ e.forUs
    BY <2>1 DEF Inv, Rests
  <2>3. e.kind \notin {"openSecond", "closeFirst", "closeSecond"}
    BY DEF Send, m_closeWindowIsExpired, m_secondReceiveWindowIsExpired, Pending
  <2>4. e.kind \notin {"standby", "txFinished", "openFirst"}
    BY <1>1, <1>2, <2>1, Times DEF Inv, Rests, Kinds
  <2>5. QED
    BY <2>1, <2>2, <2>3, <2>4 DEF Events, Kinds
<1>6. Types'
  BY <1>1, <1>3, <1>4 DEF Inv, Types
<1>7. OneCycle'
  BY <1>1, <1>3, <1>4, <1>5, Times, Besides DEF OneCycle, Kinds
<1>8. Rests'
  BY <1>1, <1>3, <1>4, <1>5, Times DEF Rests, Kinds
<1>9. Replies'
  BY <1>3, <1>4, <1>5 DEF Replies, AnsweredOnce
<1>10. Awake'
  BY <1>3, <1>4, <1>5 DEF Awake, Pending
<1>11. Receives'
  BY <1>3, <1>4, <1>5 DEF Inv, Receives, Pending
<1>12. Overruns'
  BY <1>3, <1>4, <1>5 DEF Overruns, AsleepUnlessOverrun, Pending
<1>13. QED
  BY <1>6, <1>7, <1>8, <1>9, <1>10, <1>11, <1>12 DEF Inv

LEMMA SwitchToStandbyStep == Inv /\ SwitchToStandby => Inv'
<1> SUFFICES ASSUME Inv, SwitchToStandby
             PROVE  Inv'
  OBVIOUS
<1>1. PICK e \in events : /\ e.kind = "standby" /\ e.left = 0
                          /\ events' = events \ {e}
  BY DEF SwitchToStandby, Due
<1>2. /\ m_state' = "STANDBY" /\ wait' = wait /\ reply' = reply /\ overrun' = overrun
      /\ cut' = cut /\ failed' = failed
  BY DEF SwitchToStandby
<1>3. \A f \in events : f.kind \in Kinds => f = e \/ f.kind = "txFinished"
  BY <1>1, Unique, Besides DEF Inv, OneCycle, Kinds
<1>4. Pending({"txFinished"}) /\ Pending({"txFinished"})'
  BY <1>1 DEF Inv, Awake, Pending
<1>5. Types'
  BY <1>1, <1>2 DEF Inv, Types
<1>6. OneCycle' /\ Rests'
  BY <1>1, <1>2 DEF Inv, OneCycle, Rests
<1>7. Replies'
  BY <1>1, <1>2, <1>4 DEF Inv, Replies, AnsweredOnce, Pending
<1>8. Awake'
  BY <1>1, <1>2, <1>3, <1>4 DEF Inv, Awake, Pending, Kinds
<1>9. Receives'
  BY <1>1, <1>2, <1>3 DEF Inv, Receives, Pending, Kinds
<1>10. Overruns'
  BY <1>1, <1>2, <1>3, <1>4 DEF Overruns, AsleepUnlessOverrun, Pending, Kinds
<1>11. QED
  BY <1>5, <1>6, <1>7, <1>8, <1>9, <1>10 DEF Inv

LEMMA TxFinishedStep ==
  Inv /\ TxFinished => /\ Inv'
                       /\ failed' # failed => m_state = "RX" /\ Due("txFinished") # {}
<1> SUFFICES ASSUME Inv, TxFinished
             PROVE  /\ Inv'
                    /\ failed' # failed => m_state = "RX" /\ Due("txFinished") # {}
  OBVIOUS
<1> DEFINE a == Event("openFirst", ReceiveDelay1)
<1> DEFINE b == Event("openSecond", ReceiveDelay2)
<1>1. PICK e \in events : /\ e.kind = "txFinished" /\ e.left = 0
                          /\ events' = (events \ {e}) \cup {a, b}
  BY DEF TxFinished, Due
<1>2. /\ Due("standby") = {} /\ SwitchToSleep /\ overrun' = Pending({"endReceive"})
      /\ wait' = wait /\ reply' = reply /\ cut' = cut
  BY DEF TxFinished
<1>3. /\ a \in Events /\ a.kind = "openFirst" /\ a.left = ReceiveDelay1 /\ ~ a.forUs
      /\ b \in Events /\ b.kind = "openSecond" /\ b.left = ReceiveDelay2 /\ ~ b.forUs
  BY EventIs, Times DEF Kinds
<1> HIDE DEF a, b
<1>4. \A f \in events : f.kind \in Kinds => f = e
  <2> SUFFICES ASSUME NEW f \in events, f.kind \in Kinds
               PROVE  f = e
    OBVIOUS
  <2>1. f.kind \in {"standby", "txFinished"} /\ f.left - e.left = At(f.kind) - At(e.kind)
    BY <1>1, Besides DEF Inv, OneCycle, Kinds
  <2>2. f.kind # "standby"
    <3>1. f.left \in Nat
      BY DEF Inv, Types, Events
    <3>2. f.kind = "standby" => f.left = 0
      BY <1>1, <2>1, <3>1, Times
    <3>3. QED
      BY <1>2, <3>2 DEF Due
  <2>3. QED
    BY <1>1, <2>1, <2>2, Unique DEF Inv, Kinds
<1>5. m_state \in {"STANDBY", "RX"} /\ reply = "owed"
  <2>1. Pending({"txFinished", "closeFirst"}) /\ Pending({"standby", "txFinished"})
    BY <1>1 DEF Pending
  <2>2. ~ Pending({"standby"})
    BY <1>1, <1>4 DEF Pending, Kinds
  <2>3. QED
    BY <2>1, <2>2 DEF Inv, Types, Awake, Replies
<1>6. \/ m_state = "STANDBY" /\ m_state' = "SLEEP" /\ failed' = failed
      \/ m_state = "RX" /\ m_state' = "RX" /\ failed' = TRUE
  BY <1>2, <1>5 DEF SwitchToSleep
<1>7. Types'
  <2>1. overrun' \in BOOLEAN
    BY <1>2 DEF Pending
  <2>2. failed' \in BOOLEAN
    BY <1>6 DEF Inv, Types
  <2>3. m_state' \in {"SLEEP", "RX"}
    BY <1>6
  <2>4. QED
    BY <1>1, <1>2, <1>3, <2>1, <2>2, <2>3 DEF Inv, Types
<1>8. OneCycle'
  BY <1>1, <1>3, <1>4, Times, Besides DEF OneCycle, Kinds
<1>9. Rests'
  <2>1. \A down \in ReplyTime : wait > ReceiveDelay2 + down
    BY <1>1, Times, AirAssumption DEF Inv, Rests, Kinds
  <2>2. \A f \in events : f.forUs => wait > f.left
    BY DEF Inv, Rests
  <2>3. QED
    BY <1>1, <1>2, <1>3, <1>4, <2>1, <2>2, Times, AirAssumption DEF Rests, Kinds
<1>10. Replies'
  BY <1>1, <1>2, <1>3, <1>4, <1>5 DEF Inv, Replies, AnsweredOnce, Pending, Kinds
<1>11. Awake'
  BY <1>1, <1>3, <1>4, <1>6 DEF Inv, Awake, Pending, Kinds
<1>12. Receives'
  BY <1>1, <1>2, <1>3, <1>4, <1>6 DEF Inv, Receives, Pending, Kinds
<1>13. Overruns'
  BY <1>1, <1>2, <1>3, <1>4, <1>6 DEF Overruns, AsleepUnlessOverrun, Pending, Kinds
<1>14. Due("txFinished") # {}
  BY <1>1 DEF Due
<1>15. QED
  BY <1>6, <1>7, <1>8, <1>9, <1>10, <1>11, <1>12, <1>13, <1>14 DEF Inv

(* Until a window opens the radio sleeps, unless a Send has cut a reception *)
(* short and its end has woken the radio.                                  *)
LEMMA OpenFirstStep == Inv /\ OpenFirstReceiveWindow /\ ~ failed => Inv'
<1> SUFFICES ASSUME Inv, OpenFirstReceiveWindow, ~ failed
             PROVE  Inv'
  OBVIOUS
<1> DEFINE a == Event("closeFirst", WindowDuration)
<1>1. PICK e \in events : /\ e.kind = "openFirst" /\ e.left = 0
                          /\ events' = (events \ {e}) \cup {a}
  BY DEF OpenFirstReceiveWindow, Due
<1>2. /\ m_state' = "STANDBY" /\ wait' = wait /\ reply' = reply /\ overrun' = overrun
      /\ cut' = cut /\ failed' = failed
  BY DEF OpenFirstReceiveWindow
<1>3. /\ a \in Events /\ a.kind = "closeFirst" /\ a.left = WindowDuration /\ ~ a.forUs
  BY EventIs, Times DEF Kinds
<1> HIDE DEF a
<1>4. \A f \in events :
        f.kind \in Kinds => f = e \/ (f.kind = "openSecond" /\
                                      f.left = ReceiveDelay2 - ReceiveDelay1)
  <2> SUFFICES ASSUME NEW f \in events, f.kind \in Kinds
               PROVE  f = e \/ (f.kind = "openSecond" /\
                                f.left = ReceiveDelay2 - ReceiveDelay1)
    OBVIOUS
  <2>1. f.kind \in {"openFirst", "openSecond"} /\ f.left - e.left = At(f.kind) - At(e.kind)
    BY <1>1, Besides DEF Inv, OneCycle, Kinds
  <2>2. f.left \in Nat
    BY DEF Inv, Types, Events
  <2>3. QED
    BY <1>1, <2>1, <2>2, Unique, Times DEF Inv, Kinds
<1>5. Types'
  BY <1>1, <1>2, <1>3 DEF Inv, Types
<1>6. OneCycle'
  <2>1. \A f \in events \ {e} : f.kind \in Kinds =>
          f.kind = "openSecond" /\ f.left = ReceiveDelay2 - ReceiveDelay1
    BY <1>4
  <2>2. QED
    BY <1>1, <1>3, <2>1, Times, Besides DEF OneCycle, Kinds
<1>7. Rests'
  <2>1. \A down \in ReplyTime : wait > ReceiveDelay2 - ReceiveDelay1 + down
    BY <1>1, Times, AirAssumption DEF Inv, Rests, Kinds
  <2>2. QED
    BY <1>1, <1>2, <1>3, <2>1, Times, AirAssumption DEF Inv, Rests, Kinds
<1>8. Replies'
  BY <1>1, <1>2, <1>3 DEF Inv, Replies, AnsweredOnce, Pending
<1>9. Awake'
  BY <1>1, <1>2, <1>3, <1>4 DEF Inv, Awake, Pending, Kinds
<1>10. Receives'
  BY <1>1, <1>2, <1>3, <1>4 DEF Inv, Receives, Pending, Kinds
<1>11. Overruns'
  BY <1>1, <1>2, <1>3, <1>4 DEF Inv, Overruns, AsleepUnlessOverrun, Pending, Kinds
<1>12. QED
  BY <1>5, <1>6, <1>7, <1>8, <1>9, <1>10, <1>11 DEF Inv

LEMMA CloseFirstStep ==
  Inv /\ CloseFirstReceiveWindow /\ ~ failed => Inv' /\ failed' = failed
<1> SUFFICES ASSUME Inv, CloseFirstReceiveWindow, ~ failed
             PROVE  Inv' /\ failed' = failed
  OBVIOUS
<1>1. PICK e \in events : /\ e.kind = "closeFirst" /\ e.left = 0
                          /\ events' = events \ {e}
  BY DEF CloseFirstReceiveWindow, Due
<1>2. /\ wait' = wait /\ reply' = reply /\ overrun' = Pending({"endReceive"}) /\ cut' = cut
      /\ IF m_state = "RX" THEN UNCHANGED << m_state, failed >> ELSE SwitchToSleep
  BY DEF CloseFirstReceiveWindow
<1>3. \A f \in events : f.kind \in Kinds => f = e \/ f.kind = "openSecond"
  BY <1>1, Unique, Besides DEF Inv, OneCycle, Kinds
<1>4. m_state \in {"STANDBY", "RX"}
  BY <1>1, <1>3 DEF Inv, Types, Awake, Pending, Kinds
<1>5. /\ failed' = failed
      /\ \/ m_state = "RX" /\ m_state' = "RX"
         \/ m_state = "STANDBY" /\ m_state' = "SLEEP"
  BY <1>2, <1>4 DEF SwitchToSleep
<1>6. Types'
  <2>1. overrun' \in BOOLEAN
    BY <1>2 DEF Pending
  <2>2. QED
    BY <1>1, <1>2, <1>5, <2>1 DEF Inv, Types
<1>7. OneCycle' /\ Rests'
  BY <1>1, <1>2 DEF Inv, OneCycle, Rests
<1>8. Replies'
  BY <1>1, <1>2 DEF Inv, Replies, AnsweredOnce, Pending
<1>9. Awake'
  BY <1>1, <1>3, <1>5 DEF Inv, Awake, Pending, Kinds
<1>10. Receives'
  BY <1>1, <1>2, <1>3, <1>5 DEF Inv, Receives, Pending, Kinds
<1>11. Overruns'
  BY <1>1, <1>2, <1>3, <1>5 DEF Inv, Awake, Overruns, AsleepUnlessOverrun, Pending, Kinds
<1>12. QED
  BY <1>5, <1>6, <1>7, <1>8, <1>9, <1>10, <1>11 DEF Inv

(* When the second window is due, the first one has been closed. *)
LEMMA OpenSecondStep == Inv /\ OpenSecondReceiveWindow /\ ~ failed => Inv'
<1> SUFFICES ASSUME Inv, OpenSecondReceiveWindow, ~ failed
             PROVE  Inv'
  OBVIOUS
<1> DEFINE a == Event("closeSecond", WindowDuration)
<1>1. PICK e \in events :
        /\ e.kind = "openSecond" /\ e.left = 0
        /\ \/ m_state = "RX" /\ m_state' = m_state /\ events' = events \ {e}
           \/ m_state # "RX" /\ m_state' = "STANDBY" /\ events' = (events \ {e}) \cup {a}
  BY DEF OpenSecondReceiveWindow, Due
<1>2. /\ wait' = wait /\ reply' = reply /\ overrun' = overrun /\ cut' = cut
      /\ failed' = failed
  BY DEF OpenSecondReceiveWindow
<1>3. /\ a \in Events /\ a.kind = "closeSecond" /\ a.left = WindowDuration /\ ~ a.forUs
  BY EventIs, Times DEF Kinds
<1> HIDE DEF a
<1>4. \A f \in events : f.kind \in Kinds => f = e
  <2> SUFFICES ASSUME NEW f \in events, f.kind \in Kinds
               PROVE  f = e
    OBVIOUS
  <2>1. /\ f.kind \in {"openFirst", "closeFirst", "openSecond"}
        /\ f.left - e.left = At(f.kind) - At(e.kind)
    BY <1>1, Besides DEF Inv, OneCycle, Kinds
  <2>2. f.left \in Nat
    BY DEF Inv, Types, Events
  <2>3. f.kind = "openSecond"
    BY <1>1, <2>1, <2>2, Times
  <2>4. QED
    BY <1>1, <2>3, Unique DEF Inv, Kinds
<1>5. Types'
  BY <1>1, <1>2, <1>3 DEF Inv, Types
<1>6. OneCycle'
  BY <1>1, <1>3, <1>4, Times, Besides DEF OneCycle, Kinds
<1>7. Rests'
  <2>1. \A down \in ReplyTime : wait > down
    BY <1>1, Times, AirAssumption DEF Inv, Rests, Kinds
  <2>2. QED
    BY <1>1, <1>2, <1>3, <1>4, <2>1, Times, AirAssumption DEF Inv, Rests, Kinds
<1>8. Replies'
  BY <1>1, <1>2, <1>3, <1>4 DEF Inv, Replies, AnsweredOnce, Pending, Kinds
<1>9. Awake'
  BY <1>1, <1>3, <1>4 DEF Inv, Awake, Pending, Kinds
<1>10. Receives'
  BY <1>1, <1>2, <1>3, <1>4 DEF Inv, Receives, Pending, Kinds
<1>11. Overruns'
  BY <1>1, <1>2, <1>3, <1>4 DEF Inv, Overruns, AsleepUnlessOverrun, Pending, Kinds
<1>12. QED
  BY <1>5, <1>6, <1>7, <1>8, <1>9, <1>10, <1>11 DEF Inv

LEMMA CloseSecondStep == Inv /\ CloseSecondReceiveWindow => Inv'
<1> SUFFICES ASSUME Inv, CloseSecondReceiveWindow
             PROVE  Inv'
  OBVIOUS
<1>1. PICK e \in events : /\ e.kind = "closeSecond" /\ e.left = 0
                          /\ events' = events \ {e}
  BY DEF CloseSecondReceiveWindow, Due
<1>2. /\ wait' = wait /\ reply' = reply /\ overrun' = Pending({"endReceive"}) /\ cut' = cut
      /\ failed' = failed
      /\ m_state' = IF m_state = "STANDBY" THEN "SLEEP" ELSE m_state
  BY DEF CloseSecondReceiveWindow
<1>3. \A f \in events : f.kind \in Kinds => f = e
  BY <1>1, Unique, Besides DEF Inv, OneCycle, Kinds
<1>4. Types'
  <2>1. overrun' \in BOOLEAN
    BY <1>2 DEF Pending
  <2>2. m_state' \in {"SLEEP", "TX", "RX"}
    BY <1>2 DEF Inv, Types
  <2>3. QED
    BY <1>1, <1>2, <2>1, <2>2 DEF Inv, Types
<1>5. OneCycle' /\ Rests'
  BY <1>1, <1>2 DEF Inv, OneCycle, Rests
<1>6. Replies'
  BY <1>1, <1>2 DEF Inv, Replies, AnsweredOnce, Pending
<1>7. Awake'
  BY <1>1, <1>2, <1>3 DEF Inv, Awake, Pending, Kinds
<1>8. Receives'
  BY <1>1, <1>2, <1>3 DEF Inv, Receives, Pending, Kinds
<1>9. Overruns'
  BY <1>1, <1>2, <1>3 DEF Inv, Types, Awake, Overruns, AsleepUnlessOverrun, Pending, Kinds
<1>10. QED
  BY <1>4, <1>5, <1>6, <1>7, <1>8, <1>9 DEF Inv

-----------------------------------------------------------------------------
(* A reply that begins as a window opens is over before the sub-band may   *)
(* be used again.                                                          *)
LEMMA StartReceiveStep ==
  ASSUME Inv, NEW forUs \in BOOLEAN, NEW duration \in ReplyTime \cup ForeignTime,
         ~ failed, StartReceive(forUs, duration)
  PROVE  Inv'
<1> DEFINE a == [kind |-> "endReceive", left |-> duration, forUs |-> forUs]
<1>1. /\ m_state = "STANDBY" /\ m_state' = "RX" /\ overrun' = overrun
      /\ events' = events \cup {a}
      /\ wait' = wait /\ cut' = cut /\ failed' = failed
  BY DEF StartReceive
<1>2. /\ ~ forUs => reply' = reply
      /\ forUs => /\ reply = "owed" /\ reply' = "arriving" /\ duration \in ReplyTime
                  /\ \E e \in events : /\ e.kind \in {"closeFirst", "closeSecond"}
                                       /\ e.left = WindowDuration
  BY DEF StartReceive
<1>3. a \in Events /\ a.kind = "endReceive" /\ a.left = duration /\ (a.forUs <=> forUs)
  <2>1. duration \in Nat
    BY AirAssumption
  <2>2. QED
    BY <2>1 DEF Events
<1> HIDE DEF a
<1>4. forUs => wait > duration /\ ~ Pending({"standby", "txFinished"})
  <2> SUFFICES ASSUME forUs
               PROVE  wait > duration /\ ~ Pending({"standby", "txFinished"})
    OBVIOUS
  <2>1. PICK e \in events : /\ e.kind \in {"closeFirst", "closeSecond"}
                            /\ e.left = WindowDuration
    BY <1>2
  <2>2. wait > duration
    <3>1. wait > e.left + ReceiveDelay2 - At(e.kind) + duration /\ duration \in Nat
      BY <1>2, <2>1, AirAssumption DEF Inv, Rests, Kinds
    <3>2. wait \in Nat
      BY DEF Inv, Types
    <3>3. QED
      BY <2>1, <3>1, <3>2, Times
  <2>3. \A f \in events : f.kind \notin {"standby", "txFinished"}
    BY <2>1, Besides DEF Inv, OneCycle, Kinds
  <2>4. QED
    BY <2>2, <2>3 DEF Pending
<1>5. \A f \in events : f.forUs => ~ forUs
  BY <1>2 DEF Inv, Replies
<1>6. Types'
  <2>1. reply' \in {"none", "owed", "arriving", "lost", "received"}
    BY <1>2 DEF Inv, Types
  <2>2. QED
    BY <1>1, <1>3, <2>1 DEF Inv, Types
<1>7. OneCycle' /\ Rests'
  BY <1>1, <1>3, <1>4 DEF Inv, OneCycle, Rests, Kinds
<1>8. Replies'
  BY <1>1, <1>2, <1>3, <1>4, <1>5 DEF Inv, Replies, AnsweredOnce, Pending
<1>9. Awake'
  BY <1>1, <1>3 DEF Inv, Awake, Pending
<1>10. Receives'
  BY <1>1, <1>3 DEF Inv, Receives, Pending
<1>11. Overruns'
  BY <1>1, <1>3 DEF Inv, Awake, Overruns, AsleepUnlessOverrun, Pending
<1>12. QED
  BY <1>6, <1>7, <1>8, <1>9, <1>10, <1>11 DEF Inv

LEMMA EndReceiveStep ==
  ASSUME Inv, ~ failed, NEW destroyed \in BOOLEAN, EndReceive(destroyed)
  PROVE  Inv'
<1>1. PICK e \in events :
        e.kind = "endReceive" /\ Receive(e.forUs, destroyed, events \ {e})
  BY DEF EndReceive, Due
<1>2. /\ m_state' = "STANDBY" /\ wait' = wait /\ overrun' = overrun /\ cut' = cut
      /\ failed' = failed
  BY DEF EndReceive, AfterReceive
<1>3. /\ events' \subseteq events \ {e}
      /\ \A f \in events : f = e \/ f.kind = "openSecond" \/ f \in events'
      /\ ~ e.forUs => reply' = reply /\ events' = events \ {e}
      /\ e.forUs => \/ reply' = "lost"
                    \/ reply' = "received" /\ ~ Pending({"openSecond"})'
  BY <1>1 DEF Receive, Pending
<1>4. e.forUs => reply = "arriving" /\ \A f \in events' : ~ f.forUs
  BY <1>3 DEF Inv, Replies
<1>5. Types'
  BY <1>2, <1>3 DEF Inv, Types
<1>6. OneCycle' /\ Rests'
  BY <1>2, <1>3 DEF Inv, OneCycle, Rests
<1>7. Replies'
  BY <1>2, <1>3, <1>4 DEF Inv, Replies, AnsweredOnce, Pending
<1>8. Awake'
  BY <1>1, <1>2, <1>3 DEF Inv, Awake, Pending
<1>9. Receives'
  BY <1>1, <1>2, <1>3 DEF Inv, Receives, Pending
<1>10. Overruns'
  BY <1>1, <1>2, <1>3 DEF Inv, OneCycle, Beside, Overruns, AsleepUnlessOverrun, Pending, Kinds
<1>11. QED
  BY <1>5, <1>6, <1>7, <1>8, <1>9, <1>10 DEF Inv

(* What is scheduled draws nearer at the pace of the sub-band's rest. *)
LEMMA TickStep == Inv /\ Tick => Inv'
<1> SUFFICES ASSUME Inv, Tick
             PROVE  Inv'
  OBVIOUS
<1> DEFINE Sooner(e) == [e EXCEPT !.left = @ - 1]
<1>1. /\ events' = {Sooner(e) : e \in events}
      /\ \A e \in events : e.left > 0
      /\ m_state' = m_state /\ reply' = reply /\ overrun' = overrun /\ cut' = cut
      /\ failed' = failed /\ wait' = IF wait = 0 THEN 0 ELSE wait - 1
  BY DEF Tick, WaitLess
<1>2. \A e \in events : /\ e.left \in Nat /\ e.left > 0 /\ Sooner(e) \in Events
                        /\ Sooner(e).kind = e.kind /\ Sooner(e).left = e.left - 1
                        /\ Sooner(e).forUs = e.forUs
  BY <1>1 DEF Inv, Types, Events
<1> HIDE DEF Sooner
<1>3. \A K : Pending(K)' <=> Pending(K)
  BY <1>1, <1>2 DEF Pending
<1>4. wait \in Nat /\ wait' \in Nat /\ wait' >= wait - 1
  BY <1>1 DEF Inv, Types
<1>5. Types'
  BY <1>1, <1>2, <1>4 DEF Inv, Types
<1>6. OneCycle'
  <2> SUFFICES ASSUME NEW e \in events, NEW f \in events, e.kind \in Kinds, f.kind \in Kinds
               PROVE  /\ f.kind \in Beside(e.kind)
                      /\ (f.left - 1) - (e.left - 1) = At(f.kind) - At(e.kind)
    BY <1>1, <1>2 DEF OneCycle
  <2>1. f.kind \in Beside(e.kind) /\ f.left - e.left = At(f.kind) - At(e.kind)
    BY DEF Inv, OneCycle
  <2>2. QED
    BY <1>2, <2>1
<1>7. Rests'
  <2>1. ASSUME NEW e \in events, e.kind \in Kinds, NEW down \in ReplyTime
        PROVE  wait' > (e.left - 1) + ReceiveDelay2 - At(e.kind) + down
    <3>1. /\ wait > e.left + ReceiveDelay2 - At(e.kind) + down /\ down \in Nat
          /\ At(e.kind) \in Int /\ ReceiveDelay2 \in Nat
      BY <2>1, AirAssumption, Times DEF Inv, Rests
    <3>2. QED
      BY <1>2, <1>4, <3>1
  <2>2. ASSUME NEW e \in events, e.forUs
        PROVE  wait' > e.left - 1
    BY <1>2, <1>4, <2>2 DEF Inv, Rests
  <2>3. QED
    BY <1>1, <1>2, <2>1, <2>2 DEF Rests
<1>8. Replies'
  BY <1>1, <1>2, <1>3 DEF Inv, Replies, AnsweredOnce
<1>9. Awake'
  BY <1>1, <1>3 DEF Inv, Awake
<1>10. Receives'
  BY <1>1, <1>2, <1>3 DEF Inv, Receives
<1>11. Overruns'
  BY <1>1, <1>3 DEF Inv, Overruns, AsleepUnlessOverrun
<1>12. QED
  BY <1>5, <1>6, <1>7, <1>8, <1>9, <1>10, <1>11 DEF Inv

-----------------------------------------------------------------------------
LEMMA InvStep ==
  Inv /\ [Next]_vars
    => /\ Inv'
       /\ failed' # failed => m_state = "RX" /\ Due("txFinished") # {}
<1> SUFFICES ASSUME Inv, [Next]_vars
             PROVE  /\ Inv'
                    /\ failed' # failed => m_state = "RX" /\ Due("txFinished") # {}
  OBVIOUS
<1>1. CASE SwitchToStandby
  BY <1>1, SwitchToStandbyStep DEF SwitchToStandby
<1>2. CASE TxFinished
  BY <1>2, TxFinishedStep
<1>3. CASE OpenFirstReceiveWindow /\ ~ failed
  BY <1>3, OpenFirstStep DEF OpenFirstReceiveWindow
<1>4. CASE CloseFirstReceiveWindow /\ ~ failed
  BY <1>4, CloseFirstStep
<1>5. CASE OpenSecondReceiveWindow /\ ~ failed
  BY <1>5, OpenSecondStep DEF OpenSecondReceiveWindow
<1>6. CASE CloseSecondReceiveWindow
  BY <1>6, CloseSecondStep DEF CloseSecondReceiveWindow
<1>7. ASSUME NEW destroyed \in BOOLEAN, EndReceive(destroyed), ~ failed
      PROVE  Inv' /\ failed' = failed
  BY <1>7, EndReceiveStep DEF EndReceive
<1>8. CASE Tick
  BY <1>8, TickStep DEF Tick
<1>9. ASSUME NEW toa \in AirTime, Send(toa)
      PROVE  Inv' /\ failed' = failed
  BY <1>9, SendStep DEF Send
<1>10. ASSUME NEW forUs \in BOOLEAN, NEW duration \in ReplyTime \cup ForeignTime,
              StartReceive(forUs, duration), ~ failed
       PROVE  Inv' /\ failed' = failed
  BY <1>10, StartReceiveStep DEF StartReceive
<1>11. CASE UNCHANGED vars
  BY <1>11 DEF vars, Inv, Types, OneCycle, Rests, Replies, AnsweredOnce, Awake, Receives,
               Overruns, AsleepUnlessOverrun, Pending
<1>12. QED
  BY <1>1, <1>2, <1>3, <1>4, <1>5, <1>6, <1>7, <1>8, <1>9, <1>10, <1>11 DEF Next, RunEvent

LEMMA InvAlways == Spec => []Inv
BY InitInv, InvStep, PTL DEF Spec

(* Whatever is sent, overrun and destroyed, the variables keep their types.  *)
THEOREM DeviceTypes == Spec => []TypeOK
<1>1. Inv => TypeOK
  BY DEF Inv, Types, TypeOK, Events, Kinds
<1>2. QED
  BY <1>1, InvAlways, PTL

(* For all delays and times on air, the only assertion that fails is the   *)
(* one in TxFinished, on a packet that began in the 10 ns before it.       *)
THEOREM OnlyTheGapFails == Spec => FailsOnlyByGap
BY InvStep, InvAlways, PTL DEF Spec, FailsOnlyByGap

(* The radio is in RX exactly while one reception is under way, in every   *)
(* phase of a cycle, as long as no Send cuts a reception short.            *)
THEOREM RadioInStep == Spec => []InStep
<1>1. Inv => InStep
  <2> SUFFICES ASSUME Inv, ~ cut
               PROVE  /\ m_state = "RX" <=> Pending({"endReceive"})
                      /\ Cardinality({e \in events : e.kind = "endReceive"}) <= 1
    BY DEF InStep
  <2> DEFINE R == {e \in events : e.kind = "endReceive"}
  <2>1. /\ m_state = "RX" <=> Pending({"endReceive"})
        /\ \A e, f \in R : e = f
    BY DEF Inv, Receives
  <2> HIDE DEF R
  <2>2. R = {} \/ \E e : R = {e}
    <3>1. ASSUME NEW e \in R
          PROVE  R = {e}
      BY <2>1
    <3>2. QED
      BY <3>1
  <2>3. Cardinality(R) = 0 \/ Cardinality(R) = 1
    BY <2>2, FS_EmptySet, FS_Singleton, Zenon
  <2>4. QED
    BY <2>1, <2>3 DEF R
<1>2. QED
  BY <1>1, InvAlways, PTL

(* Unless a reception has outlasted the window that closed last, a device  *)
(* is asleep outside its windows, whatever it has received in them.        *)
THEOREM SleepsUnlessOverrun == Spec => []AsleepUnlessOverrun
<1>1. Inv => AsleepUnlessOverrun
  BY DEF Inv, Overruns, AsleepUnlessOverrun
<1>2. QED
  BY <1>1, InvAlways, PTL

(* A reply that was received leaves no second window to open, and no later *)
(* event of its cycle brings one back.                                     *)
THEOREM NoWindowAfterReply == Spec => []AnsweredOnce
<1>1. Inv => AnsweredOnce
  BY DEF Inv, Replies
<1>2. QED
  BY <1>1, InvAlways, PTL
=============================================================================

------------------------ MODULE NetworkServerProofs ------------------------
(***************************************************************************)
(* Proofs about the way of an acknowledgement, for any devices, gateways,  *)
(* delays and times on air.                                                *)
(***************************************************************************)
EXTENDS NetworkServer, TLAPS, FiniteSetTheorems

(* Letting time pass neither merges nor splits what is scheduled.          *)
LEMMA CloserIsFinite ==
  ASSUME NEW events, IsFiniteSet(events)
  PROVE  /\ IsFiniteSet(Closer(events))
         /\ Cardinality(Closer(events)) <= Cardinality(events)
<1> DEFINE f == [e \in events |-> [e EXCEPT !.left = @ - 1]]
<1>1. f \in Surjection(events, Closer(events))
  BY DEF Closer, Surjection
<1> QED BY <1>1, FS_Surjection

(* What passes of a scheduled event is its time, which stays natural as    *)
(* long as nothing is due.                                                 *)
LEMMA CloserTimers ==
  ASSUME NEW events \in SUBSET [dev : Device, window : Window, left : Nat],
         Due(events) = {}
  PROVE  /\ Closer(events) \in SUBSET [dev : Device, window : Window, left : Nat]
         /\ \A e \in events : [e EXCEPT !.left = @ - 1].dev = e.dev
BY DEF Closer, Due

LEMMA CloserDown ==
  ASSUME NEW events \in SUBSET [dev : Device, gw : Gateway, window : Window, left : Nat],
         Due(events) = {}
  PROVE  /\ Closer(events) \in SUBSET [dev : Device, gw : Gateway, window : Window, left : Nat]
         /\ \A e \in events : /\ [e EXCEPT !.left = @ - 1].dev = e.dev
                              /\ [e EXCEPT !.left = @ - 1].gw = e.gw
                              /\ [e EXCEPT !.left = @ - 1].window = e.window
                              /\ [e EXCEPT !.left = @ - 1].left = e.left - 1
BY DEF Closer, Due

LEMMA CloserOnAir ==
  ASSUME NEW events \in SUBSET [dev : Device, gw : Gateway, left : Nat],
         Due(events) = {}
  PROVE  /\ Closer(events) \in SUBSET [dev : Device, gw : Gateway, left : Nat]
         /\ \A e \in events : /\ [e EXCEPT !.left = @ - 1].gw = e.gw
                              /\ [e EXCEPT !.left = @ - 1].left = e.left - 1
BY DEF Closer, Due

LEMMA CloserCopies ==
  ASSUME NEW events \in SUBSET [dev : Device, gw : Gateway, power : Power,
                                confirmed : BOOLEAN, left : Nat],
         Due(events) = {}
  PROVE  Closer(events) \in SUBSET [dev : Device, gw : Gateway, power : Power,
                                    confirmed : BOOLEAN, left : Nat]
BY DEF Closer, Due

LEMMA LessOneType == \A time \in Nat : LessOne(time) \in Nat
BY DEF LessOne

-----------------------------------------------------------------------------
(* Types, action by action.                                                *)
LEMMA InitTypes == Init => TypeOK
BY DelayAssumption, SetAssumption DEF Init, TypeOK

LEMMA UplinkTypes ==
  ASSUME TypeOK, NEW d \in Device, NEW confirmed \in BOOLEAN, NEW gws \in SUBSET Gateway,
         NEW received \in [gws -> Power], Uplink(d, confirmed, received)
  PROVE  TypeOK'
<1>1. age' \in [Device -> 0..Cycle]
  BY DelayAssumption DEF Uplink, TypeOK
<1>2. copies' \subseteq [dev : Device, gw : Gateway, power : Power, confirmed : BOOLEAN,
                         left : Nat]
  BY DelayAssumption DEF Uplink, TypeOK
<1> QED BY <1>1, <1>2 DEF Uplink, TypeOK, server, gateway

LEMMA ReceiveTypes ==
  ASSUME TypeOK, NEW c \in Due(copies), Receive(c)
  PROVE  TypeOK'
<1>1. c \in [dev : Device, gw : Gateway, power : Power, confirmed : BOOLEAN, left : Nat]
  BY DEF TypeOK, Due
<1>2. /\ DOMAIN m_gateways' = Device
      /\ \A d \in Device : /\ DOMAIN m_gateways'[d] \subseteq Gateway
                           /\ \A g \in DOMAIN m_gateways'[d] : m_gateways'[d][g] \in Power
  BY <1>1 DEF Receive, TypeOK, UpdateGatewayData
<1>3. hasReply' \in [Device -> BOOLEAN]
  BY DEF Receive, TypeOK
<1>4. timers' \subseteq [dev : Device, window : Window, left : Nat]
  BY <1>1, DelayAssumption DEF Receive, TypeOK, Window
<1> QED BY <1>2, <1>3, <1>4 DEF Receive, TypeOK, gateway

LEMMA ReplyGateways ==
  ASSUME TypeOK, NEW d \in Device, NEW window \in Window
  PROVE  GatewaysForReply(d, window) \subseteq Gateway
BY DEF GatewaysForReply, TypeOK

LEMMA SendThroughTypes ==
  ASSUME TypeOK, NEW t \in Due(timers), SendThrough(t)
  PROVE  /\ booked' \in [Gateway -> Nat]
         /\ down' \subseteq [dev : Device, gw : Gateway, window : Window, left : Nat]
<1>1. t \in [dev : Device, window : Window, left : Nat]
  BY DEF TypeOK, Due
<1>2. PICK g \in GatewaysForReply(t.dev, t.window) :
        /\ booked' = [booked EXCEPT ![g] = Booking]
        /\ down' = down \cup
             {[dev |-> t.dev, gw |-> g, window |-> t.window, left |-> LinkDelay]}
  BY DEF SendThrough
<1>3. g \in Gateway
  BY <1>1, <1>2, ReplyGateways
<1> QED BY <1>1, <1>2, <1>3, DelayAssumption DEF TypeOK

LEMMA FirstWindowTypes ==
  ASSUME TypeOK, NEW t \in Due(timers), SendOnFirstWindow(t)
  PROVE  TypeOK'
<1>1. t \in [dev : Device, window : Window, left : Nat]
  BY DEF TypeOK, Due
<1>2. timers' \subseteq [dev : Device, window : Window, left : Nat]
  BY <1>1, DelayAssumption DEF TypeOK, SendOnFirstWindow, SecondWindow, Window
<1>3. /\ booked' \in [Gateway -> Nat]
      /\ down' \subseteq [dev : Device, gw : Gateway, window : Window, left : Nat]
  BY SendThroughTypes DEF SendOnFirstWindow, TypeOK
<1> QED BY <1>2, <1>3 DEF TypeOK, SendOnFirstWindow, gateway

LEMMA SecondWindowTypes ==
  ASSUME TypeOK, NEW t \in Due(timers), SendOnSecondWindow(t)
  PROVE  TypeOK'
<1>1. /\ booked' \in [Gateway -> Nat]
      /\ down' \subseteq [dev : Device, gw : Gateway, window : Window, left : Nat]
  BY SendThroughTypes DEF SendOnSecondWindow, TypeOK
<1>2. givenUp' \in [Device -> Nat]
  BY DEF SendOnSecondWindow, TypeOK, Due
<1> QED BY <1>1, <1>2 DEF TypeOK, SendOnSecondWindow, gateway

LEMMA SendTypes ==
  ASSUME TypeOK, NEW r \in Due(down), NEW toa \in AirTime, Send(r, toa)
  PROVE  TypeOK'
<1>1. r \in [dev : Device, gw : Gateway, window : Window, left : Nat]
  BY DEF TypeOK, Due
<1>2. RestOf(r.window, toa) \in Nat /\ toa \in Nat
  BY <1>1, SetAssumption DEF RestOf
<1>3. wait' \in [Gateway -> [Window -> Nat]]
  BY <1>1, <1>2 DEF TypeOK, Send
<1>4. onAir' \subseteq [dev : Device, gw : Gateway, left : Nat]
  BY <1>1, <1>2 DEF TypeOK, Send
<1>5. {sent', givenUp'} \subseteq [Device -> Nat] /\ overlapped' \subseteq Gateway
  BY <1>1 DEF TypeOK, Send, server
<1>6. m_isTransmitting' \in [Gateway -> BOOLEAN]
  BY <1>1 DEF TypeOK, Send
<1> QED BY <1>3, <1>4, <1>5, <1>6 DEF TypeOK, Send, server

LEMMA TxFinishedTypes ==
  ASSUME TypeOK, NEW x \in Due(onAir), TxFinished(x)
  PROVE  TypeOK'
BY DEF TypeOK, TxFinished, AfterTxFinished, server

LEMMA TickTypes ==
  ASSUME TypeOK, Tick
  PROVE  TypeOK'
<1>1. /\ Due(copies) = {} /\ Due(timers) = {} /\ Due(down) = {} /\ Due(onAir) = {}
  BY DEF Tick
<1>2. age' \in [Device -> 0..Cycle]
  <2>1. \A n \in 0..Cycle : (IF n = Cycle THEN Cycle ELSE n + 1) \in 0..Cycle
    BY DelayAssumption
  <2> QED BY <2>1 DEF TypeOK, Tick
<1>3. copies' \subseteq [dev : Device, gw : Gateway, power : Power, confirmed : BOOLEAN,
                         left : Nat]
  BY <1>1, CloserCopies DEF TypeOK, Tick
<1>4. timers' \subseteq [dev : Device, window : Window, left : Nat]
  BY <1>1, CloserTimers DEF TypeOK, Tick
<1>5. down' \subseteq [dev : Device, gw : Gateway, window : Window, left : Nat]
  BY <1>1, CloserDown DEF TypeOK, Tick
<1>6. onAir' \subseteq [dev : Device, gw : Gateway, left : Nat]
  BY <1>1, CloserOnAir DEF TypeOK, Tick
<1>7. booked' \in [Gateway -> Nat] /\ wait' \in [Gateway -> [Window -> Nat]]
  BY LessOneType DEF TypeOK, Tick
<1> QED BY <1>2, <1>3, <1>4, <1>5, <1>6, <1>7 DEF TypeOK, Tick

LEMMA StepTypes == TypeOK /\ [Next]_vars => TypeOK'
<1> SUFFICES ASSUME TypeOK, [Next]_vars PROVE TypeOK'
  OBVIOUS
<1>1. ASSUME NEW d \in Device, NEW confirmed \in BOOLEAN, NEW gws \in SUBSET Gateway,
             NEW received \in [gws -> Power], Uplink(d, confirmed, received)
      PROVE  TypeOK'
  BY <1>1, UplinkTypes
<1>2. ASSUME NEW c \in Due(copies), Receive(c) PROVE TypeOK'
  BY <1>2, ReceiveTypes
<1>3. ASSUME NEW t \in Due(timers), SendOnFirstWindow(t) \/ SendOnSecondWindow(t)
      PROVE  TypeOK'
  BY <1>3, FirstWindowTypes, SecondWindowTypes
<1>4. ASSUME NEW r \in Due(down), NEW toa \in AirTime, Send(r, toa) PROVE TypeOK'
  BY <1>4, SendTypes
<1>5. ASSUME NEW x \in Due(onAir), TxFinished(x) PROVE TypeOK'
  BY <1>5, TxFinishedTypes
<1>6. CASE Tick
  BY <1>6, TickTypes
<1>7. CASE UNCHANGED vars
  BY <1>7 DEF TypeOK, vars, server, gateway
<1> QED BY <1>1, <1>2, <1>3, <1>4, <1>5, <1>6, <1>7 DEF Next

(* The type invariant.  The counters of time stay natural because a tick   *)
(* passes only when nothing is due.                                        *)
THEOREM ServerTypes == Spec => []TypeOK
BY InitTypes, StepTypes, PTL DEF Spec

-----------------------------------------------------------------------------
(* The reply owed to a device is in one place.                             *)
Finite == IsFiniteSet(timers) /\ IsFiniteSet(down) /\ IsFiniteSet(onAir)

ReplyInv == TypeOK /\ Finite /\ OneReply

Balanced(d) ==
  Cardinality(Waiting(d)) + Cardinality(Under(d)) + sent[d] + givenUp[d]
    = IF hasReply[d] THEN 1 ELSE 0

LEMMA Counts ==
  ASSUME Finite, NEW d
  PROVE  /\ IsFiniteSet(Waiting(d)) /\ Cardinality(Waiting(d)) \in Nat
         /\ IsFiniteSet(Under(d)) /\ Cardinality(Under(d)) \in Nat
<1>1. Waiting(d) \in SUBSET timers /\ Under(d) \in SUBSET down
  BY DEF Waiting, Under
<1>2. IsFiniteSet(Waiting(d)) /\ IsFiniteSet(Under(d))
  BY <1>1, FS_Subset DEF Finite
<1> QED BY <1>2, FS_CardinalityType

LEMMA FirstOne ==
  ASSUME NEW S, NEW x, IsFiniteSet(S), Cardinality(S) = 0
  PROVE  Cardinality(S \cup {x}) = 1
<1>1. S = {}
  BY FS_EmptySet
<1> QED BY <1>1, FS_Singleton

(* Letting time pass keeps the number of what is scheduled once. *)
LEMMA CloserOfOne ==
  ASSUME NEW S, IsFiniteSet(S), Cardinality(S) <= 1
  PROVE  Cardinality(Closer(S)) = Cardinality(S)
<1>1. Cardinality(S) = 0 \/ Cardinality(S) = 1
  BY FS_CardinalityType
<1>2. CASE Cardinality(S) = 0
  <2>1. S = {} /\ Closer(S) = {}
    BY <1>2, FS_EmptySet DEF Closer
  <2> QED BY <2>1
<1>3. CASE Cardinality(S) = 1
  <2>1. PICK x : S = {x}
    BY <1>3, FS_Singleton
  <2>2. Closer(S) = {[x EXCEPT !.left = @ - 1]}
    BY <2>1 DEF Closer
  <2> QED BY <1>3, <2>2, FS_Singleton
<1> QED BY <1>1, <1>2, <1>3

LEMMA Numbers ==
  ASSUME ReplyInv, NEW d \in Device
  PROVE  /\ Cardinality(Waiting(d)) \in Nat /\ Cardinality(Under(d)) \in Nat
         /\ sent[d] \in Nat /\ givenUp[d] \in Nat
         /\ Balanced(d)
BY Counts DEF ReplyInv, TypeOK, OneReply, Balanced

LEMMA SumOfNone ==
  ASSUME NEW a \in Nat, NEW b \in Nat, NEW c \in Nat, NEW e \in Nat, a + b + c + e = 0
  PROVE  a = 0 /\ b = 0 /\ c = 0 /\ e = 0
OBVIOUS

LEMMA SumOfOne ==
  ASSUME NEW a \in Nat, NEW b \in Nat, NEW c \in Nat, NEW e \in Nat, a >= 1,
         NEW one, one = 0 \/ one = 1, a + b + c + e = one
  PROVE  a = 1 /\ b = 0 /\ c = 0 /\ e = 0 /\ one = 1
OBVIOUS

(* A reply that waits for a window is nowhere else. *)
LEMMA OnlyWaiting ==
  ASSUME ReplyInv, NEW t \in timers
  PROVE  /\ t.dev \in Device /\ hasReply[t.dev]
         /\ Cardinality(Waiting(t.dev)) = 1
         /\ IsFiniteSet(Waiting(t.dev) \ {t}) /\ Cardinality(Waiting(t.dev) \ {t}) = 0
         /\ Cardinality(Under(t.dev)) = 0 /\ sent[t.dev] = 0 /\ givenUp[t.dev] = 0
<1>1. t.dev \in Device
  BY DEF ReplyInv, TypeOK
<1>2. t \in Waiting(t.dev)
  BY DEF Waiting
<1>3. /\ IsFiniteSet(Waiting(t.dev) \ {t})
      /\ Cardinality(Waiting(t.dev) \ {t}) = Cardinality(Waiting(t.dev)) - 1
  BY <1>2, Counts, FS_RemoveElement DEF ReplyInv
<1>4. Cardinality(Waiting(t.dev) \ {t}) \in Nat
  BY <1>3, FS_CardinalityType
<1> DEFINE one == IF hasReply[t.dev] THEN 1 ELSE 0
<1>5. /\ Cardinality(Waiting(t.dev)) \in Nat /\ Cardinality(Under(t.dev)) \in Nat
      /\ sent[t.dev] \in Nat /\ givenUp[t.dev] \in Nat
      /\ Cardinality(Waiting(t.dev)) + Cardinality(Under(t.dev)) + sent[t.dev]
           + givenUp[t.dev] = one
  BY <1>1, Numbers DEF Balanced
<1>6. one = 0 \/ one = 1
  OBVIOUS
<1>7. one = 1 => hasReply[t.dev]
  OBVIOUS
<1>8. Cardinality(Waiting(t.dev)) >= 1
  BY <1>3, <1>4, <1>5
<1> HIDE DEF one
<1>9. /\ Cardinality(Waiting(t.dev)) = 1 /\ Cardinality(Under(t.dev)) = 0
      /\ sent[t.dev] = 0 /\ givenUp[t.dev] = 0 /\ one = 1
  BY <1>5, <1>6, <1>8, SumOfOne
<1> QED BY <1>1, <1>3, <1>7, <1>9

(* A device of whose reply nothing is touched. *)
LEMMA OthersBalanced ==
  ASSUME ReplyInv, NEW d \in Device, Waiting(d)' = Waiting(d), Under(d)' = Under(d),
         sent'[d] = sent[d], givenUp'[d] = givenUp[d], hasReply'[d] = hasReply[d]
  PROVE  Balanced(d)'
BY Numbers DEF Balanced

(* A reply that is sent through a gateway is then on its link.             *)
LEMMA SendThroughCounts ==
  ASSUME ReplyInv, NEW t \in Due(timers), SendThrough(t)
  PROVE  /\ IsFiniteSet(down')
         /\ \A d : d # t.dev => Under(d)' = Under(d)
         /\ Cardinality(Under(t.dev)') = 1
<1>1. PICK g \in GatewaysForReply(t.dev, t.window) :
        down' = down \cup
          {[dev |-> t.dev, gw |-> g, window |-> t.window, left |-> LinkDelay]}
  BY DEF SendThrough
<1> DEFINE r == [dev |-> t.dev, gw |-> g, window |-> t.window, left |-> LinkDelay]
<1>2. IsFiniteSet(down')
  BY <1>1, FS_AddElement DEF ReplyInv, Finite
<1>3. \A d : d # t.dev => Under(d)' = Under(d)
  BY <1>1 DEF Under
<1>4. Under(t.dev)' = Under(t.dev) \cup {r}
  BY <1>1 DEF Under
<1> HIDE DEF r
<1>5. IsFiniteSet(Under(t.dev)) /\ Cardinality(Under(t.dev)) = 0
  BY Counts, OnlyWaiting DEF ReplyInv, Due
<1>6. Cardinality(Under(t.dev) \cup {r}) = 1
  BY <1>5, FirstOne
<1> QED BY <1>2, <1>3, <1>4, <1>6

LEMMA InitReplies == Init => Finite /\ OneReply
<1> SUFFICES ASSUME Init PROVE Finite /\ OneReply
  OBVIOUS
<1>1. Finite
  BY FS_EmptySet DEF Init, Finite
<1>2. \A d \in Device : /\ Waiting(d) = {} /\ Under(d) = {} /\ sent[d] = 0
                        /\ givenUp[d] = 0 /\ ~ hasReply[d]
  BY DEF Init, Waiting, Under
<1>3. Cardinality({}) = 0
  BY FS_EmptySet
<1>4. \A d \in Device :
        Cardinality(Waiting(d)) + Cardinality(Under(d)) + sent[d] + givenUp[d] = 0
  BY <1>2, <1>3
<1> QED BY <1>1, <1>2, <1>4 DEF OneReply

LEMMA SameReplies ==
  ASSUME ReplyInv, UNCHANGED << timers, down, sent, givenUp, hasReply >>
  PROVE  OneReply'
BY DEF ReplyInv, OneReply, Waiting, Under

LEMMA ReceiveReplies ==
  ASSUME ReplyInv, NEW c \in Due(copies), Receive(c)
  PROVE  (IsFiniteSet(timers) /\ OneReply)'
<1>1. c.dev \in Device
  BY DEF ReplyInv, TypeOK, Due
<1>2. CASE ~ NeedsReply(c)
  <2>1. UNCHANGED << timers, down, sent, givenUp, hasReply >>
    BY <1>2 DEF Receive, gateway
  <2> QED BY <2>1, SameReplies DEF ReplyInv, Finite
<1>3. CASE NeedsReply(c)
  <2> DEFINE t == [dev |-> c.dev, window |-> "first", left |-> ReplyDelay]
  <2>1. timers' = timers \cup {t} /\ down' = down /\ sent' = sent /\ givenUp' = givenUp
    BY <1>3 DEF Receive, gateway
  <2>2. hasReply' = [hasReply EXCEPT ![c.dev] = TRUE] /\ ~ hasReply[c.dev]
    BY <1>3 DEF Receive, NeedsReply
  <2>3. IsFiniteSet(timers')
    BY <2>1, FS_AddElement DEF ReplyInv, Finite
  <2>4. ASSUME NEW d \in Device
        PROVE  Balanced(d)'
    <3>1. Under(d)' = Under(d) /\ sent'[d] = sent[d] /\ givenUp'[d] = givenUp[d]
      BY <2>1 DEF Under
    <3>2. CASE d # c.dev
      <4>1. Waiting(d)' = Waiting(d)
        BY <2>1, <3>2 DEF Waiting
      <4>2. hasReply'[d] = hasReply[d]
        BY <2>2, <3>2 DEF ReplyInv, TypeOK
      <4> QED BY <3>1, <4>1, <4>2, OthersBalanced
    <3>3. CASE d = c.dev
      <4>1. Waiting(d)' = Waiting(d) \cup {t}
        BY <2>1, <3>3 DEF Waiting
      <4>2. hasReply'[d]
        BY <1>1, <2>2, <3>3 DEF ReplyInv, TypeOK
      <4> HIDE DEF t
      <4>3. /\ Cardinality(Waiting(d)) = 0 /\ Cardinality(Under(d)) = 0
            /\ sent[d] = 0 /\ givenUp[d] = 0
        <5>1. Cardinality(Waiting(d)) + Cardinality(Under(d)) + sent[d] + givenUp[d] = 0
          BY <2>2, <3>3, Numbers DEF Balanced
        <5> QED BY <5>1, Numbers, SumOfNone
      <4>4. Cardinality(Waiting(d)') = 1
        <5>1. IsFiniteSet(Waiting(d))
          BY Counts DEF ReplyInv
        <5>2. Cardinality(Waiting(d) \cup {t}) = 1
          BY <4>3, <5>1, FirstOne
        <5> QED BY <4>1, <5>2
      <4> QED BY <3>1, <4>2, <4>3, <4>4 DEF Balanced
    <3> QED BY <3>2, <3>3
  <2> QED BY <2>3, <2>4 DEF OneReply, Balanced
<1> QED BY <1>2, <1>3

(* A timer runs, and its reply takes to a link or is given up.             *)
GiveUp(d) ==
  UNCHANGED << booked, down >> /\ givenUp' = [givenUp EXCEPT ![d] = @ + 1]

LEMMA TimerGivesUp ==
  ASSUME ReplyInv, NEW t \in Due(timers), timers' = timers \ {t},
         (SendThrough(t) /\ UNCHANGED givenUp) \/ GiveUp(t.dev),
         UNCHANGED << sent, hasReply >>
  PROVE  (IsFiniteSet(timers) /\ IsFiniteSet(down) /\ OneReply)'
<1>1. /\ t \in timers /\ t.dev \in Device
      /\ givenUp \in [Device -> Nat]
  BY DEF ReplyInv, TypeOK, Due
<1>2. sent' = sent /\ hasReply' = hasReply /\ timers' = timers \ {t}
  OBVIOUS
<1>3. IsFiniteSet(timers')
  BY <1>2, FS_RemoveElement DEF ReplyInv, Finite
<1>4. /\ hasReply[t.dev] /\ sent[t.dev] = 0 /\ givenUp[t.dev] = 0
      /\ Cardinality(Under(t.dev)) = 0
      /\ Cardinality(Waiting(t.dev) \ {t}) = 0
  BY <1>1, OnlyWaiting
<1>5. /\ IsFiniteSet(down')
      /\ \A d : d # t.dev => Under(d)' = Under(d)
      /\ \A d \in Device : d # t.dev => givenUp'[d] = givenUp[d]
      /\ Cardinality(Under(t.dev)') + givenUp'[t.dev] = 1
  <2>1. CASE SendThrough(t) /\ UNCHANGED givenUp
    BY <1>4, <2>1, SendThroughCounts
  <2>2. CASE GiveUp(t.dev)
    <3>1. /\ \A d : Under(d)' = Under(d)
          /\ down' = down
      BY <2>2 DEF GiveUp, Under
    <3>2. /\ \A d \in Device : d # t.dev => givenUp'[d] = givenUp[d]
          /\ givenUp'[t.dev] = 1
      BY <1>1, <1>4, <2>2 DEF GiveUp
    <3> QED BY <1>4, <3>1, <3>2 DEF ReplyInv, Finite
  <2> QED BY <2>1, <2>2
<1>6. Waiting(t.dev)' = Waiting(t.dev) \ {t}
  BY <1>2 DEF Waiting
<1>7. \A d : d # t.dev => Waiting(d)' = Waiting(d)
  BY <1>2 DEF Waiting
<1>8. Cardinality(Under(t.dev)') \in Nat
  BY <1>5, FS_Subset, FS_CardinalityType DEF Under
<1>9. givenUp'[t.dev] \in Nat
  BY <1>1, <1>4, <1>8 DEF GiveUp
<1>10. ASSUME NEW d \in Device
       PROVE  Balanced(d)'
  <2>1. CASE d # t.dev
    BY <1>2, <1>5, <1>7, <2>1, OthersBalanced
  <2>2. CASE d = t.dev
    BY <1>2, <1>4, <1>5, <1>6, <1>8, <1>9, <2>2 DEF Balanced
  <2> QED BY <2>1, <2>2
<1> QED BY <1>3, <1>5, <1>10 DEF OneReply, Balanced

LEMMA FirstWindowReplies ==
  ASSUME ReplyInv, NEW t \in Due(timers), SendOnFirstWindow(t)
  PROVE  (IsFiniteSet(timers) /\ IsFiniteSet(down) /\ OneReply)'
<1>1. /\ t \in timers /\ t.dev \in Device
  BY DEF ReplyInv, TypeOK, Due
<1>2. sent' = sent /\ hasReply' = hasReply /\ givenUp' = givenUp
  BY DEF SendOnFirstWindow, gateway
<1> DEFINE s == SecondWindow(t)
<1>3. s.dev = t.dev
  BY DEF SecondWindow
<1>4. IsFiniteSet(timers')
  <2>1. IsFiniteSet(timers \ {t}) /\ IsFiniteSet((timers \ {t}) \cup {s})
    BY FS_RemoveElement, FS_AddElement DEF ReplyInv, Finite
  <2> QED BY <2>1 DEF SendOnFirstWindow
<1>5. CASE SendThrough(t) /\ timers' = timers \ {t}
  BY <1>2, <1>5, TimerGivesUp
<1>6. CASE timers' = (timers \ {t}) \cup {s} /\ UNCHANGED << booked, down >>
  <2>1. \A d : Under(d)' = Under(d)
    BY <1>6 DEF Under
  <2>2. Waiting(t.dev)' = (Waiting(t.dev) \ {t}) \cup {s}
    BY <1>3, <1>6 DEF Waiting
  <2>3. \A d : d # t.dev => Waiting(d)' = Waiting(d)
    BY <1>3, <1>6 DEF Waiting
  <2> HIDE DEF s
  <2>4. Cardinality(Waiting(t.dev)') = 1 /\ Cardinality(Waiting(t.dev)) = 1
    <3>1. /\ Cardinality(Waiting(t.dev)) = 1
          /\ IsFiniteSet(Waiting(t.dev) \ {t}) /\ Cardinality(Waiting(t.dev) \ {t}) = 0
      BY <1>1, OnlyWaiting
    <3> DEFINE rest == Waiting(t.dev) \ {t}
    <3> HIDE DEF rest
    <3>2. Cardinality(rest \cup {s}) = 1
      BY <3>1, FirstOne DEF rest
    <3> QED BY <2>2, <3>1, <3>2 DEF rest
  <2>5. ASSUME NEW d \in Device
        PROVE  Balanced(d)'
    <3>1. CASE d # t.dev
      BY <1>2, <2>1, <2>3, <3>1, OthersBalanced
    <3>2. CASE d = t.dev
      BY <1>2, <2>1, <2>4, <3>2, Numbers DEF Balanced
    <3> QED BY <3>1, <3>2
  <2>6. IsFiniteSet(down')
    BY <1>6 DEF ReplyInv, Finite
  <2> QED BY <1>4, <2>5, <2>6 DEF OneReply, Balanced
<1> QED BY <1>5, <1>6 DEF SendOnFirstWindow

LEMMA SecondWindowReplies ==
  ASSUME ReplyInv, NEW t \in Due(timers), SendOnSecondWindow(t)
  PROVE  (IsFiniteSet(timers) /\ IsFiniteSet(down) /\ OneReply)'
<1>1. UNCHANGED << sent, hasReply >> /\ timers' = timers \ {t}
  BY DEF SendOnSecondWindow, gateway
<1>2. (SendThrough(t) /\ UNCHANGED givenUp) \/ GiveUp(t.dev)
  BY DEF SendOnSecondWindow, GiveUp
<1> QED BY <1>1, <1>2, TimerGivesUp

LEMMA SendReplies ==
  ASSUME ReplyInv, NEW r \in Due(down), NEW toa \in AirTime, Send(r, toa)
  PROVE  (Finite /\ OneReply)'
<1>1. r \in down /\ r.dev \in Device
  BY DEF ReplyInv, TypeOK, Due
<1>2. /\ down' = down \ {r} /\ timers' = timers /\ hasReply' = hasReply
      /\ sent' = [sent EXCEPT ![r.dev] = @ + 1] /\ givenUp' = givenUp
      /\ onAir' = onAir \cup {[dev |-> r.dev, gw |-> r.gw, left |-> toa]}
  BY DEF Send, server
<1>3. Finite'
  BY <1>2, FS_AddElement, FS_RemoveElement DEF ReplyInv, Finite
<1>4. Under(r.dev)' = Under(r.dev) \ {r} /\ r \in Under(r.dev)
  BY <1>1, <1>2 DEF Under
<1>5. \A d : d # r.dev => Under(d)' = Under(d)
  BY <1>2 DEF Under
<1>6. \A d : Waiting(d)' = Waiting(d)
  BY <1>2 DEF Waiting
<1>7. Cardinality(Under(r.dev)') = Cardinality(Under(r.dev)) - 1
  BY <1>4, Counts, FS_RemoveElement DEF ReplyInv
<1>8. ASSUME NEW d \in Device
      PROVE  Balanced(d)'
  <2>1. sent \in [Device -> Nat]
    BY DEF ReplyInv, TypeOK
  <2>2. CASE d # r.dev
    <3>1. sent'[d] = sent[d]
      BY <1>2, <2>1, <2>2
    <3> QED BY <1>2, <1>5, <1>6, <2>2, <3>1, OthersBalanced
  <2>3. CASE d = r.dev
    <3>1. sent'[d] = sent[d] + 1
      BY <1>2, <2>1, <2>3
    <3> QED BY <1>2, <1>6, <1>7, <2>3, <3>1, Numbers DEF Balanced
  <2> QED BY <2>2, <2>3
<1> QED BY <1>3, <1>8 DEF OneReply, Balanced

LEMMA TickReplies ==
  ASSUME ReplyInv, Tick
  PROVE  (Finite /\ OneReply)'
<1>1. /\ timers' = Closer(timers) /\ down' = Closer(down) /\ onAir' = Closer(onAir)
      /\ sent' = sent /\ givenUp' = givenUp /\ hasReply' = hasReply
      /\ Due(timers) = {} /\ Due(down) = {}
  BY DEF Tick
<1>2. Finite'
  BY <1>1, CloserIsFinite DEF ReplyInv, Finite
<1>3. ASSUME NEW d \in Device
      PROVE  Waiting(d)' = Closer(Waiting(d)) /\ Under(d)' = Closer(Under(d))
  <2>1. Waiting(d)' = Closer(Waiting(d))
    BY <1>1, CloserTimers DEF ReplyInv, TypeOK, Waiting, Closer
  <2>2. Under(d)' = Closer(Under(d))
    BY <1>1, CloserDown DEF ReplyInv, TypeOK, Under, Closer
  <2> QED BY <2>1, <2>2
<1>4. ASSUME NEW d \in Device
      PROVE  Balanced(d)'
  <2>1. Cardinality(Waiting(d)) <= 1 /\ Cardinality(Under(d)) <= 1
    BY Numbers DEF Balanced
  <2>2. /\ Cardinality(Waiting(d)') = Cardinality(Waiting(d))
        /\ Cardinality(Under(d)') = Cardinality(Under(d))
    BY <1>3, <2>1, Counts, CloserOfOne DEF ReplyInv
  <2> QED BY <1>1, <2>2, Numbers DEF Balanced
<1> QED BY <1>2, <1>4 DEF OneReply, Balanced

LEMMA StepReplies == ReplyInv /\ [Next]_vars => ReplyInv'
<1> SUFFICES ASSUME ReplyInv, [Next]_vars PROVE (Finite /\ OneReply)'
  BY StepTypes DEF ReplyInv
<1>1. ASSUME NEW d \in Device, NEW confirmed \in BOOLEAN, NEW gws \in SUBSET Gateway,
             NEW received \in [gws -> Power], Uplink(d, confirmed, received)
      PROVE  (Finite /\ OneReply)'
  BY <1>1, SameReplies DEF Uplink, server, gateway, ReplyInv, Finite
<1>2. ASSUME NEW c \in Due(copies), Receive(c) PROVE (Finite /\ OneReply)'
  BY <1>2, ReceiveReplies DEF Receive, gateway, ReplyInv, Finite
<1>3. ASSUME NEW t \in Due(timers), SendOnFirstWindow(t) \/ SendOnSecondWindow(t)
      PROVE  (Finite /\ OneReply)'
  <2>1. onAir' = onAir
    BY <1>3 DEF SendOnFirstWindow, SendOnSecondWindow, gateway
  <2> QED BY <1>3, <2>1, FirstWindowReplies, SecondWindowReplies DEF ReplyInv, Finite
<1>4. ASSUME NEW r \in Due(down), NEW toa \in AirTime, Send(r, toa)
      PROVE  (Finite /\ OneReply)'
  BY <1>4, SendReplies
<1>5. ASSUME NEW x \in Due(onAir), TxFinished(x) PROVE (Finite /\ OneReply)'
  <2>1. UNCHANGED << timers, down, sent, givenUp, hasReply >> /\ onAir' = onAir \ {x}
    BY <1>5 DEF TxFinished, server
  <2> QED BY <2>1, SameReplies, FS_RemoveElement DEF ReplyInv, Finite
<1>6. CASE Tick
  BY <1>6, TickReplies
<1>7. CASE UNCHANGED vars
  BY <1>7, SameReplies DEF vars, server, gateway, ReplyInv, Finite
<1> QED BY <1>1, <1>2, <1>3, <1>4, <1>5, <1>6, <1>7 DEF Next

(* However many gateways receive an uplink, whichever windows the server   *)
(* tries and whichever devices compete for the gateways, the one reply     *)
(* owed to a device is in one place: waiting, on a link, sent or given up  *)
(* (Receive and the two SendOn...Window of SimpleNetworkServer).           *)
THEOREM ReplyAccountedFor == Spec => []OneReply
<1>1. Init => ReplyInv
  BY InitTypes, InitReplies DEF ReplyInv
<1>2. ReplyInv => OneReply
  BY DEF ReplyInv
<1> QED BY <1>1, <1>2, StepReplies, PTL DEF Spec

-----------------------------------------------------------------------------
(* m_isTransmitting of a gateway that never transmitted two packets at     *)
(* once.                                                                   *)
FlagInv == ReplyInv /\ FlagInStep

LEMMA OnAirFinite ==
  ASSUME Finite, NEW g
  PROVE  IsFiniteSet(OnAirAt(g)) /\ Cardinality(OnAirAt(g)) \in Nat
<1>1. OnAirAt(g) \in SUBSET onAir
  BY DEF OnAirAt
<1> QED BY <1>1, FS_Subset, FS_CardinalityType DEF Finite

LEMMA AtMostOne ==
  ASSUME NEW S, IsFiniteSet(S), Cardinality(S) <= 1, NEW x \in S, NEW y \in S
  PROVE  x = y
<1>1. Cardinality(S) \in Nat
  BY FS_CardinalityType
<1>2. Cardinality(S) # 0
  BY FS_EmptySet
<1>3. Cardinality(S) = 1
  BY <1>1, <1>2
<1> QED BY <1>3, FS_Singleton

LEMMA InitFlag == Init => FlagInStep
<1> SUFFICES ASSUME Init PROVE FlagInStep
  OBVIOUS
<1>1. \A g \in Gateway : OnAirAt(g) = {} /\ ~ m_isTransmitting[g]
  BY DEF Init, OnAirAt
<1> QED BY <1>1, FS_EmptySet DEF FlagInStep

LEMMA SameFlag ==
  ASSUME FlagInv, UNCHANGED << onAir, m_isTransmitting, overlapped >>
  PROVE  FlagInStep'
BY DEF FlagInv, FlagInStep, OnAirAt

LEMMA SendFlag ==
  ASSUME FlagInv, NEW r \in Due(down), NEW toa \in AirTime, Send(r, toa)
  PROVE  FlagInStep'
<1> DEFINE x == [dev |-> r.dev, gw |-> r.gw, left |-> toa]
<1>1. r.gw \in Gateway /\ x.gw = r.gw /\ m_isTransmitting \in [Gateway -> BOOLEAN]
  BY DEF FlagInv, ReplyInv, TypeOK, Due
<1>2. /\ onAir' = onAir \cup {x}
      /\ m_isTransmitting' = [m_isTransmitting EXCEPT ![r.gw] = TRUE]
      /\ overlapped' = IF OnAirAt(r.gw) = {} THEN overlapped ELSE overlapped \cup {r.gw}
  BY DEF Send
<1> HIDE DEF x
<1> SUFFICES ASSUME NEW g \in Gateway \ overlapped'
             PROVE  /\ m_isTransmitting'[g] <=> OnAirAt(g)' # {}
                    /\ Cardinality(OnAirAt(g)') <= 1
  BY DEF FlagInStep
<1>3. CASE g = r.gw
  <2>1. OnAirAt(g) = {}
    BY <1>2, <1>3
  <2>2. OnAirAt(g)' = {x}
    BY <1>1, <1>2, <1>3, <2>1 DEF OnAirAt
  <2>3. m_isTransmitting'[g]
    BY <1>1, <1>2, <1>3
  <2> QED BY <2>2, <2>3, FS_Singleton
<1>4. CASE g # r.gw
  <2>1. OnAirAt(g)' = OnAirAt(g) /\ m_isTransmitting'[g] = m_isTransmitting[g]
    BY <1>1, <1>2, <1>4 DEF OnAirAt
  <2>2. g \notin overlapped
    BY <1>2
  <2> QED BY <2>1, <2>2 DEF FlagInv, FlagInStep
<1> QED BY <1>3, <1>4

LEMMA TxFinishedFlag ==
  ASSUME FlagInv, NEW x \in Due(onAir), TxFinished(x)
  PROVE  FlagInStep'
<1>1. /\ x \in onAir /\ x.gw \in Gateway
      /\ m_isTransmitting \in [Gateway -> BOOLEAN]
  BY DEF FlagInv, ReplyInv, TypeOK, Due
<1>2. /\ onAir' = onAir \ {x} /\ overlapped' = overlapped
      /\ m_isTransmitting' = [m_isTransmitting EXCEPT ![x.gw] = FALSE]
  BY DEF TxFinished, AfterTxFinished
<1> SUFFICES ASSUME NEW g \in Gateway \ overlapped
             PROVE  /\ m_isTransmitting'[g] <=> OnAirAt(g)' # {}
                    /\ Cardinality(OnAirAt(g)') <= 1
  BY <1>2 DEF FlagInStep
<1>3. CASE g = x.gw
  <2>1. x \in OnAirAt(g) /\ IsFiniteSet(OnAirAt(g)) /\ Cardinality(OnAirAt(g)) <= 1
    <3>1. x \in OnAirAt(g)
      BY <1>1, <1>3 DEF OnAirAt
    <3>2. IsFiniteSet(OnAirAt(g))
      BY OnAirFinite DEF FlagInv, ReplyInv
    <3>3. Cardinality(OnAirAt(g)) <= 1
      BY DEF FlagInv, FlagInStep
    <3> QED BY <3>1, <3>2, <3>3
  <2>2. \A y \in OnAirAt(g) : y = x
    BY <2>1, AtMostOne
  <2>3. OnAirAt(g)' = {}
    BY <1>2, <2>2 DEF OnAirAt
  <2>4. ~ m_isTransmitting'[g]
    BY <1>1, <1>2, <1>3
  <2> QED BY <2>3, <2>4, FS_EmptySet
<1>4. CASE g # x.gw
  <2>1. OnAirAt(g)' = OnAirAt(g) /\ m_isTransmitting'[g] = m_isTransmitting[g]
    BY <1>1, <1>2, <1>4 DEF OnAirAt
  <2> QED BY <2>1 DEF FlagInv, FlagInStep
<1> QED BY <1>3, <1>4

LEMMA TickFlag ==
  ASSUME FlagInv, Tick
  PROVE  FlagInStep'
<1>1. /\ onAir' = Closer(onAir) /\ m_isTransmitting' = m_isTransmitting
      /\ overlapped' = overlapped /\ Due(onAir) = {}
  BY DEF Tick
<1> SUFFICES ASSUME NEW g \in Gateway \ overlapped
             PROVE  /\ m_isTransmitting[g] <=> OnAirAt(g)' # {}
                    /\ Cardinality(OnAirAt(g)') <= 1
  BY <1>1 DEF FlagInStep
<1>2. OnAirAt(g)' = Closer(OnAirAt(g))
  BY <1>1, CloserOnAir DEF FlagInv, ReplyInv, TypeOK, OnAirAt, Closer
<1>3. OnAirAt(g)' # {} <=> OnAirAt(g) # {}
  BY <1>2 DEF Closer
<1>4. Cardinality(OnAirAt(g)') <= Cardinality(OnAirAt(g))
  BY <1>2, CloserIsFinite, OnAirFinite DEF FlagInv, ReplyInv
<1>5. Cardinality(OnAirAt(g)') \in Nat /\ Cardinality(OnAirAt(g)) \in Nat
  BY <1>2, CloserIsFinite, OnAirFinite, FS_CardinalityType DEF FlagInv, ReplyInv
<1> QED BY <1>3, <1>4, <1>5 DEF FlagInv, FlagInStep

LEMMA StepFlag == FlagInv /\ [Next]_vars => FlagInv'
<1> SUFFICES ASSUME FlagInv, [Next]_vars PROVE FlagInStep'
  BY StepReplies DEF FlagInv
<1>1. ASSUME NEW d \in Device, NEW confirmed \in BOOLEAN, NEW gws \in SUBSET Gateway,
             NEW received \in [gws -> Power], Uplink(d, confirmed, received)
      PROVE  FlagInStep'
  BY <1>1, SameFlag DEF Uplink, gateway
<1>2. ASSUME NEW c \in Due(copies), Receive(c) PROVE FlagInStep'
  BY <1>2, SameFlag DEF Receive, gateway
<1>3. ASSUME NEW t \in Due(timers), SendOnFirstWindow(t) \/ SendOnSecondWindow(t)
      PROVE  FlagInStep'
  BY <1>3, SameFlag DEF SendOnFirstWindow, SendOnSecondWindow, gateway
<1>4. ASSUME NEW r \in Due(down), NEW toa \in AirTime, Send(r, toa) PROVE FlagInStep'
  BY <1>4, SendFlag
<1>5. ASSUME NEW x \in Due(onAir), TxFinished(x) PROVE FlagInStep'
  BY <1>5, TxFinishedFlag
<1>6. CASE Tick
  BY <1>6, TickFlag
<1>7. CASE UNCHANGED vars
  BY <1>7, SameFlag DEF vars, gateway
<1> QED BY <1>1, <1>2, <1>3, <1>4, <1>5, <1>6, <1>7 DEF Next

(* m_isTransmitting of GatewayLoraPhy tells whether the gateway transmits, *)
(* unless it has ever transmitted two packets at once.                     *)
THEOREM FlagStaysInStep == Spec => []FlagInStep
<1>1. Init => FlagInv
  BY InitTypes, InitReplies, InitFlag DEF FlagInv, ReplyInv
<1>2. FlagInv => FlagInStep
  BY DEF FlagInv
<1> QED BY <1>1, <1>2, StepFlag, PTL DEF Spec

-----------------------------------------------------------------------------
(* A gateway may have to wait while a reply travels to it only because it  *)
(* transmits another one, which takes longer than the way there: when the  *)
(* reply arrives, that transmission still goes on.                         *)
OnTheWay ==
  \A r \in down :
    /\ r.left <= LinkDelay
    /\ \/ wait[r.gw][r.window] = 0
       \/ r.gw \in overlapped
       \/ \E x \in OnAirAt(r.gw) : x.left > r.left

RestInv == ReplyInv /\ OnTheWay

LEMMA SameWay ==
  ASSUME RestInv, UNCHANGED << down, wait, onAir, overlapped >>
  PROVE  OnTheWay'
BY DEF RestInv, OnTheWay, OnAirAt

LEMMA SendThroughWay ==
  ASSUME RestInv, NEW t \in Due(timers), SendThrough(t), UNCHANGED gateway
  PROVE  OnTheWay'
<1>1. PICK g \in GatewaysForReply(t.dev, t.window) :
        down' = down \cup
          {[dev |-> t.dev, gw |-> g, window |-> t.window, left |-> LinkDelay]}
  BY DEF SendThrough
<1>2. wait[g][t.window] = 0
  BY DEF GatewaysForReply, IsAvailableForTransmission
<1>3. LinkDelay <= LinkDelay
  BY DelayAssumption
<1>4. UNCHANGED << wait, onAir, overlapped >>
  BY DEF gateway
<1> QED BY <1>1, <1>2, <1>3, <1>4 DEF RestInv, OnTheWay, OnAirAt

LEMMA SendWay ==
  ASSUME RestInv, NEW r \in Due(down), NEW toa \in AirTime, Send(r, toa)
  PROVE  OnTheWay'
<1> DEFINE x == [dev |-> r.dev, gw |-> r.gw, left |-> toa]
<1>1. x.gw = r.gw /\ x.left = toa /\ toa > LinkDelay /\ toa \in Nat
  BY AirAssumption, SetAssumption
<1>2. /\ onAir' = onAir \cup {x} /\ down' = down \ {r}
      /\ wait' = [wait EXCEPT ![r.gw][r.window] = RestOf(r.window, toa)]
      /\ overlapped \subseteq overlapped'
  BY DEF Send
<1> HIDE DEF x
<1> SUFFICES ASSUME NEW s \in down, s # r
             PROVE  /\ s.left <= LinkDelay
                    /\ \/ wait'[s.gw][s.window] = 0
                       \/ s.gw \in overlapped'
                       \/ \E y \in OnAirAt(s.gw)' : y.left > s.left
  BY <1>2 DEF OnTheWay
<1>3. /\ s.left \in Nat /\ LinkDelay \in Nat /\ s.left <= LinkDelay
      /\ s.gw \in Gateway /\ r.gw \in Gateway /\ wait \in [Gateway -> [Window -> Nat]]
  BY DelayAssumption DEF RestInv, ReplyInv, TypeOK, OnTheWay, Due
<1>4. CASE s.gw = r.gw
  <2>1. x \in OnAirAt(s.gw)'
    BY <1>1, <1>2, <1>4 DEF OnAirAt
  <2>2. x.left > s.left
    BY <1>1, <1>3
  <2> QED BY <1>3, <2>1, <2>2
<1>5. CASE s.gw # r.gw
  <2>1. OnAirAt(s.gw) \subseteq OnAirAt(s.gw)'
    BY <1>2 DEF OnAirAt
  <2>2. wait'[s.gw][s.window] = wait[s.gw][s.window]
    BY <1>2, <1>3, <1>5
  <2> QED BY <1>2, <1>3, <2>1, <2>2 DEF RestInv, OnTheWay
<1> QED BY <1>4, <1>5

LEMMA TxFinishedWay ==
  ASSUME RestInv, NEW x \in Due(onAir), TxFinished(x)
  PROVE  OnTheWay'
<1>1. onAir' = onAir \ {x} /\ UNCHANGED << down, wait, overlapped >> /\ x.left = 0
  BY DEF TxFinished, Due
<1>2. ASSUME NEW r \in down, NEW y \in OnAirAt(r.gw), y.left > r.left
      PROVE  y \in OnAirAt(r.gw)'
  <2>1. r.left \in Nat
    BY DEF RestInv, ReplyInv, TypeOK
  <2>2. y # x
    BY <1>1, <1>2, <2>1
  <2> QED BY <1>1, <2>2 DEF OnAirAt
<1> QED BY <1>1, <1>2 DEF RestInv, OnTheWay

LEMMA TickWay ==
  ASSUME RestInv, Tick
  PROVE  OnTheWay'
<1>1. /\ down' = Closer(down) /\ onAir' = Closer(onAir) /\ overlapped' = overlapped
      /\ wait' = [g \in Gateway |-> [w \in Window |-> LessOne(wait[g][w])]]
      /\ Due(down) = {} /\ Due(onAir) = {}
  BY DEF Tick
<1> SUFFICES ASSUME NEW r \in down
             PROVE  LET q == [r EXCEPT !.left = @ - 1]
                    IN  /\ q.left <= LinkDelay
                        /\ \/ wait'[q.gw][q.window] = 0
                           \/ q.gw \in overlapped
                           \/ \E y \in OnAirAt(q.gw)' : y.left > q.left
  BY <1>1 DEF OnTheWay, Closer
<1> DEFINE q == [r EXCEPT !.left = @ - 1]
<1>2. /\ q.left = r.left - 1 /\ q.gw = r.gw /\ q.window = r.window
      /\ r.left \in Nat /\ r.gw \in Gateway /\ r.window \in Window
  BY <1>1, CloserDown DEF RestInv, ReplyInv, TypeOK
<1> HIDE DEF q
<1>3. r.left <= LinkDelay /\ LinkDelay \in Nat
  BY DelayAssumption DEF RestInv, OnTheWay
<1>4. CASE wait[r.gw][r.window] = 0
  BY <1>1, <1>2, <1>3, <1>4 DEF LessOne, q
<1>5. CASE r.gw \in overlapped
  BY <1>2, <1>3, <1>5 DEF q
<1>6. ASSUME NEW x \in OnAirAt(r.gw), x.left > r.left
      PROVE  \E y \in OnAirAt(q.gw)' : y.left > q.left
  <2> DEFINE y == [x EXCEPT !.left = @ - 1]
  <2>1. x \in onAir /\ x.gw = r.gw
    BY DEF OnAirAt
  <2>2. y \in Closer(onAir)
    BY <2>1 DEF Closer
  <2>3. y.gw = r.gw /\ y.left = x.left - 1 /\ x.left \in Nat
    BY <1>1, <2>1, CloserOnAir DEF RestInv, ReplyInv, TypeOK
  <2> HIDE DEF y
  <2>4. y \in OnAirAt(q.gw)'
    BY <1>1, <1>2, <2>2, <2>3 DEF OnAirAt
  <2>5. y.left > q.left
    BY <1>2, <1>6, <2>3
  <2> QED BY <2>4, <2>5
<1> QED BY <1>2, <1>3, <1>4, <1>5, <1>6 DEF RestInv, OnTheWay, q

LEMMA StepWay == RestInv /\ [Next]_vars => RestInv'
<1> SUFFICES ASSUME RestInv, [Next]_vars PROVE OnTheWay'
  BY StepReplies DEF RestInv
<1>1. ASSUME NEW d \in Device, NEW confirmed \in BOOLEAN, NEW gws \in SUBSET Gateway,
             NEW received \in [gws -> Power], Uplink(d, confirmed, received)
      PROVE  OnTheWay'
  BY <1>1, SameWay DEF Uplink, gateway
<1>2. ASSUME NEW c \in Due(copies), Receive(c) PROVE OnTheWay'
  BY <1>2, SameWay DEF Receive, gateway
<1>3. ASSUME NEW t \in Due(timers), SendOnFirstWindow(t) \/ SendOnSecondWindow(t)
      PROVE  OnTheWay'
  <2>1. UNCHANGED gateway /\ (SendThrough(t) \/ UNCHANGED << booked, down >>)
    BY <1>3 DEF SendOnFirstWindow, SendOnSecondWindow
  <2> QED BY <2>1, SendThroughWay, SameWay DEF gateway
<1>4. ASSUME NEW r \in Due(down), NEW toa \in AirTime, Send(r, toa) PROVE OnTheWay'
  BY <1>4, SendWay
<1>5. ASSUME NEW x \in Due(onAir), TxFinished(x) PROVE OnTheWay'
  BY <1>5, TxFinishedWay
<1>6. CASE Tick
  BY <1>6, TickWay
<1>7. CASE UNCHANGED vars
  BY <1>7, SameWay DEF vars, gateway
<1> QED BY <1>1, <1>2, <1>3, <1>4, <1>5, <1>6, <1>7 DEF Next

(* A reply that starts in a sub-band its gateway may not use yet starts    *)
(* over another transmission of that gateway.                              *)
LEMMA RestedOrOverlapping ==
  ASSUME RestInv, [Next]_vars, NEW r \in Due(down), sent'[r.dev] # sent[r.dev]
  PROVE  wait[r.gw][r.window] = 0 \/ r.gw \in overlapped'
<1>1. r \in down /\ r.left = 0 /\ r.dev \in Device
  BY DEF RestInv, ReplyInv, TypeOK, Due
<1>2. sent' # sent
  OBVIOUS
<1>3. PICK s \in Due(down), toa \in AirTime : Send(s, toa)
  BY <1>2 DEF Next, Uplink, Receive, SendOnFirstWindow, SendOnSecondWindow, TxFinished,
              Tick, vars, gateway
<1>4. s \in down /\ s.dev = r.dev
  <2>1. sent' = [sent EXCEPT ![s.dev] = @ + 1] /\ sent \in [Device -> Nat]
    BY <1>3 DEF Send, RestInv, ReplyInv, TypeOK
  <2> QED BY <1>1, <2>1 DEF Due
<1>5. s = r
  <2>1. IsFiniteSet(Under(r.dev)) /\ r \in Under(r.dev) /\ s \in Under(r.dev)
    BY <1>1, <1>4, Counts DEF RestInv, ReplyInv, Under
  <2>2. Cardinality(Under(r.dev)) <= 1
    <3>1. /\ Cardinality(Under(r.dev)) \in Nat /\ Cardinality(Waiting(r.dev)) \in Nat
          /\ sent[r.dev] \in Nat /\ givenUp[r.dev] \in Nat
      BY <1>1, Counts DEF RestInv, ReplyInv, TypeOK
    <3>2. Cardinality(Waiting(r.dev)) + Cardinality(Under(r.dev)) + sent[r.dev] + givenUp[r.dev]
            = IF hasReply[r.dev] THEN 1 ELSE 0
      BY <1>1 DEF RestInv, ReplyInv, OneReply
    <3> QED BY <3>1, <3>2
  <2> QED BY <2>1, <2>2, AtMostOne
<1>6. overlapped' = IF OnAirAt(r.gw) = {} THEN overlapped ELSE overlapped \cup {r.gw}
  BY <1>3, <1>5 DEF Send
<1> QED BY <1>1, <1>6 DEF RestInv, OnTheWay

(* GatewayStatus checks the duty cycle when the server books a gateway,    *)
(* and nobody checks it again when the gateway transmits; it is respected  *)
(* nonetheless by a gateway that transmits one packet at a time.           *)
THEOREM DutyCycleRespected == Spec => RespectsDutyCycle
<1>1. Init => RestInv
  BY InitTypes, InitReplies DEF RestInv, ReplyInv, Init, OnTheWay
<1>2. RestInv /\ [Next]_vars =>
        [\A r \in Due(down) : sent'[r.dev] # sent[r.dev] =>
           wait[r.gw][r.window] = 0 \/ r.gw \in overlapped']_vars
  BY RestedOrOverlapping
<1> QED BY <1>1, <1>2, StepWay, PTL DEF Spec, RespectsDutyCycle

-----------------------------------------------------------------------------
(* A reply in its window.  What is scheduled for an uplink knows its age:  *)
(* the time left until it runs and the time since the uplink add up to the *)
(* delays on the way.  So a device whose uplink still moves something has  *)
(* not sent again, and its age is that of the uplink being answered.       *)
LinksFitWindows ==
  /\ 2 * LinkDelay + ReplyDelay \in ReceiveDelay1 .. ReceiveDelay1 + WindowDuration
  /\ 2 * LinkDelay + 2 * ReplyDelay \in ReceiveDelay2 .. ReceiveDelay2 + WindowDuration

TimerAge(window) ==
  IF window = "first" THEN LinkDelay + ReplyDelay ELSE LinkDelay + 2 * ReplyDelay

ReplyAge(window) == LinkDelay + TimerAge(window)

AgesAdd ==
  /\ \A c \in copies : age[c.dev] + c.left = LinkDelay
  /\ \A t \in timers : age[t.dev] + t.left = TimerAge(t.window)
  /\ \A r \in down : age[r.dev] + r.left = ReplyAge(r.window)

AgesInv == TypeOK /\ AgesAdd

LEMMA AgeBounds ==
  ASSUME LinksFitWindows
  PROVE  /\ LinkDelay \in Nat /\ LinkDelay < Cycle
         /\ \A window \in Window :
              /\ TimerAge(window) \in Nat /\ TimerAge(window) < Cycle
              /\ ReplyAge(window) \in Nat /\ ReplyAge(window) < Cycle
              /\ ReplyAge(window) \in Opening(window) .. Opening(window) + WindowDuration
<1>1. /\ LinkDelay \in Nat /\ ReplyDelay \in Nat /\ ReceiveDelay1 \in Nat
      /\ ReceiveDelay2 \in Nat /\ WindowDuration \in Nat /\ Cycle \in Nat
      /\ ReceiveDelay2 + WindowDuration < Cycle
  BY DelayAssumption
<1>2. /\ 2 * LinkDelay + 2 * ReplyDelay < Cycle
      /\ 2 * LinkDelay + ReplyDelay < Cycle
      /\ LinkDelay + ReplyDelay < Cycle
      /\ LinkDelay + 2 * ReplyDelay < Cycle
      /\ LinkDelay < Cycle
  BY <1>1 DEF LinksFitWindows
<1>3. ASSUME NEW window \in Window
      PROVE  /\ TimerAge(window) \in Nat /\ TimerAge(window) < Cycle
             /\ ReplyAge(window) \in Nat /\ ReplyAge(window) < Cycle
             /\ ReplyAge(window) \in Opening(window) .. Opening(window) + WindowDuration
  <2>1. CASE window = "first"
    <3>1. TimerAge(window) = LinkDelay + ReplyDelay /\ Opening(window) = ReceiveDelay1
      BY <2>1 DEF TimerAge, Opening
    <3>2. ReplyAge(window) = 2 * LinkDelay + ReplyDelay
      BY <3>1, <1>1 DEF ReplyAge
    <3> QED BY <3>1, <3>2, <1>1, <1>2 DEF LinksFitWindows
  <2>2. CASE window # "first"
    <3>1. TimerAge(window) = LinkDelay + 2 * ReplyDelay /\ Opening(window) = ReceiveDelay2
      BY <2>2 DEF TimerAge, Opening
    <3>2. ReplyAge(window) = 2 * LinkDelay + 2 * ReplyDelay
      BY <3>1, <1>1 DEF ReplyAge
    <3> QED BY <3>1, <3>2, <1>1, <1>2 DEF LinksFitWindows
  <2> QED BY <2>1, <2>2
<1> QED BY <1>1, <1>2, <1>3

LEMMA ScheduledTypes ==
  ASSUME TypeOK
  PROVE  /\ \A c \in copies : c.dev \in Device /\ c.left \in Nat
         /\ \A t \in timers : t.dev \in Device /\ t.left \in Nat /\ t.window \in Window
         /\ \A r \in down : r.dev \in Device /\ r.left \in Nat /\ r.window \in Window
         /\ \A d \in Device : age[d] \in Nat /\ age[d] <= Cycle
BY DelayAssumption DEF TypeOK

LEMMA UplinkAges ==
  ASSUME LinksFitWindows, AgesInv,
         NEW d \in Device, NEW confirmed \in BOOLEAN, NEW gws \in SUBSET Gateway,
         NEW received \in [gws -> Power], Uplink(d, confirmed, received)
  PROVE  AgesAdd'
<1>1. /\ \A c \in copies : c.dev # d
      /\ \A t \in timers : t.dev # d
      /\ \A r \in down : r.dev # d
  <2>1. age[d] = Cycle /\ Cycle \in Nat
    BY DelayAssumption DEF Uplink
  <2>2. ASSUME NEW n \in Nat, NEW k \in Nat, k < Cycle
        PROVE  Cycle + n # k
    BY <2>1, <2>2
  <2> QED BY <2>1, <2>2, AgeBounds, ScheduledTypes DEF AgesInv, AgesAdd
<1>2. /\ age' = [age EXCEPT ![d] = 0] /\ age'[d] = 0
      /\ \A b \in Device : b # d => age'[b] = age[b]
  BY DEF Uplink, AgesInv, TypeOK
<1>3. /\ timers' = timers /\ down' = down
      /\ \A c \in copies' : c \in copies \/ (c.dev = d /\ c.left = LinkDelay)
  BY DEF Uplink, server
<1>4. 0 + LinkDelay = LinkDelay
  BY AgeBounds
<1> QED BY <1>1, <1>2, <1>3, <1>4, ScheduledTypes DEF AgesInv, AgesAdd

LEMMA ReceiveAges ==
  ASSUME LinksFitWindows, AgesInv, NEW c \in Due(copies), Receive(c)
  PROVE  AgesAdd'
<1>1. /\ age' = age /\ down' = down /\ copies' \subseteq copies
      /\ \A t \in timers' : t \in timers \/ t = [dev |-> c.dev, window |-> "first",
                                                 left |-> ReplyDelay]
  BY DEF Receive
<1>2. age[c.dev] + 0 = LinkDelay /\ age[c.dev] \in Nat
  BY ScheduledTypes DEF Due, AgesInv, AgesAdd
<1>3. age[c.dev] + ReplyDelay = TimerAge("first")
  BY <1>2 DEF TimerAge
<1> QED BY <1>1, <1>3 DEF AgesInv, AgesAdd

(* A timer that runs puts a reply on a link or starts over.                *)
LEMMA TimerAges ==
  ASSUME LinksFitWindows, AgesInv, NEW t \in Due(timers),
         SendOnFirstWindow(t) \/ SendOnSecondWindow(t)
  PROVE  AgesAdd'
<1>1. /\ age' = age /\ copies' = copies
      /\ \A u \in timers' : u \in timers \/ (u = SecondWindow(t) /\ t.window = "first")
      /\ \/ SendThrough(t)
         \/ down' = down
  BY DEF SendOnFirstWindow, SendOnSecondWindow
<1>2. \A r \in down' :
        r \in down \/ (r.dev = t.dev /\ r.window = t.window /\ r.left = LinkDelay)
  BY <1>1 DEF SendThrough
<1>3. /\ age[t.dev] + 0 = TimerAge(t.window)
      /\ age[t.dev] \in Nat /\ LinkDelay \in Nat /\ ReplyDelay \in Nat
  BY ScheduledTypes, DelayAssumption DEF Due, AgesInv, AgesAdd
<1>4. age[t.dev] + LinkDelay = ReplyAge(t.window)
  BY <1>3 DEF ReplyAge
<1>5. t.window = "first" => age[t.dev] + ReplyDelay = TimerAge("second")
  BY <1>3 DEF TimerAge
<1>6. SecondWindow(t).dev = t.dev /\ SecondWindow(t).window = "second"
      /\ SecondWindow(t).left = ReplyDelay
  BY DEF SecondWindow
<1> QED BY <1>1, <1>2, <1>4, <1>5, <1>6 DEF AgesInv, AgesAdd

LEMMA TickAges ==
  ASSUME LinksFitWindows, AgesInv, Tick
  PROVE  AgesAdd'
<1>1. ASSUME NEW d \in Device, NEW n \in Nat, NEW k \in Nat, n # 0,
             age[d] + n = k, k < Cycle
      PROVE  age'[d] + (n - 1) = k
  <2>1. age[d] \in Nat /\ Cycle \in Nat
    BY ScheduledTypes, DelayAssumption DEF AgesInv
  <2>2. age[d] # Cycle
    BY <1>1, <2>1
  <2>3. age'[d] = age[d] + 1
    BY <2>2 DEF Tick
  <2> QED BY <1>1, <2>1, <2>3
<1>2. /\ copies' = Closer(copies) /\ timers' = Closer(timers) /\ down' = Closer(down)
      /\ Due(copies) = {} /\ Due(timers) = {} /\ Due(down) = {}
  BY DEF Tick
<1>3. \A c \in copies' : age'[c.dev] + c.left = LinkDelay
  <2> SUFFICES ASSUME NEW e \in copies
               PROVE  LET c == [e EXCEPT !.left = @ - 1]
                      IN  age'[c.dev] + c.left = LinkDelay
    BY <1>2 DEF Closer
  <2> DEFINE c == [e EXCEPT !.left = @ - 1]
  <2>1. c.dev = e.dev /\ c.left = e.left - 1
    BY DEF AgesInv, TypeOK
  <2>2. e.dev \in Device /\ e.left \in Nat /\ e.left # 0 /\ age[e.dev] + e.left = LinkDelay
    BY <1>2, ScheduledTypes DEF AgesInv, AgesAdd, Due
  <2> HIDE DEF c
  <2>3. age'[c.dev] + c.left = LinkDelay
    BY <1>1, <2>1, <2>2, AgeBounds
  <2> QED BY <2>3 DEF c
<1>4. \A t \in timers' : age'[t.dev] + t.left = TimerAge(t.window)
  <2> SUFFICES ASSUME NEW e \in timers
               PROVE  LET t == [e EXCEPT !.left = @ - 1]
                      IN  age'[t.dev] + t.left = TimerAge(t.window)
    BY <1>2 DEF Closer
  <2> DEFINE t == [e EXCEPT !.left = @ - 1]
  <2>1. t.dev = e.dev /\ t.left = e.left - 1 /\ t.window = e.window
    BY DEF AgesInv, TypeOK
  <2>2. /\ e.dev \in Device /\ e.left \in Nat /\ e.left # 0 /\ e.window \in Window
        /\ age[e.dev] + e.left = TimerAge(e.window)
    BY <1>2, ScheduledTypes DEF AgesInv, AgesAdd, Due
  <2> HIDE DEF t
  <2>3. age'[t.dev] + t.left = TimerAge(t.window)
    BY <1>1, <2>1, <2>2, AgeBounds
  <2> QED BY <2>3 DEF t
<1>5. \A r \in down' : age'[r.dev] + r.left = ReplyAge(r.window)
  <2> SUFFICES ASSUME NEW e \in down
               PROVE  LET r == [e EXCEPT !.left = @ - 1]
                      IN  age'[r.dev] + r.left = ReplyAge(r.window)
    BY <1>2 DEF Closer
  <2> DEFINE r == [e EXCEPT !.left = @ - 1]
  <2>1. r.dev = e.dev /\ r.left = e.left - 1 /\ r.window = e.window
    BY DEF AgesInv, TypeOK
  <2>2. /\ e.dev \in Device /\ e.left \in Nat /\ e.left # 0 /\ e.window \in Window
        /\ age[e.dev] + e.left = ReplyAge(e.window)
    BY <1>2, ScheduledTypes DEF AgesInv, AgesAdd, Due
  <2> HIDE DEF r
  <2>3. age'[r.dev] + r.left = ReplyAge(r.window)
    BY <1>1, <2>1, <2>2, AgeBounds
  <2> QED BY <2>3 DEF r
<1> QED BY <1>3, <1>4, <1>5 DEF AgesAdd

LEMMA StepAges ==
  ASSUME LinksFitWindows
  PROVE  AgesInv /\ [Next]_vars => AgesInv'
<1> SUFFICES ASSUME AgesInv, [Next]_vars PROVE AgesAdd'
  BY StepTypes DEF AgesInv
<1>1. ASSUME NEW d \in Device, NEW confirmed \in BOOLEAN, NEW gws \in SUBSET Gateway,
             NEW received \in [gws -> Power], Uplink(d, confirmed, received)
      PROVE  AgesAdd'
  BY <1>1, UplinkAges
<1>2. ASSUME NEW c \in Due(copies), Receive(c) PROVE AgesAdd'
  BY <1>2, ReceiveAges
<1>3. ASSUME NEW t \in Due(timers), SendOnFirstWindow(t) \/ SendOnSecondWindow(t)
      PROVE  AgesAdd'
  BY <1>3, TimerAges
<1>4. CASE age' = age /\ copies' = copies /\ timers' = timers /\ down' \subseteq down
  BY <1>4 DEF AgesInv, AgesAdd
<1>5. ASSUME NEW r \in Due(down), NEW toa \in AirTime, Send(r, toa) PROVE AgesAdd'
  BY <1>4, <1>5 DEF Send, server
<1>6. ASSUME NEW x \in Due(onAir), TxFinished(x) PROVE AgesAdd'
  BY <1>4, <1>6 DEF TxFinished, server
<1>7. CASE Tick
  BY <1>7, TickAges
<1>8. CASE UNCHANGED vars
  BY <1>4, <1>8 DEF vars, server
<1> QED BY <1>1, <1>2, <1>3, <1>5, <1>6, <1>7, <1>8 DEF Next

LEMMA AgesSuffice ==
  ASSUME LinksFitWindows
  PROVE  AgesInv => RepliesInWindow
<1> SUFFICES ASSUME AgesInv, NEW r \in Due(down)
             PROVE  age[r.dev] \in Opening(r.window) .. Opening(r.window) + WindowDuration
  BY DEF RepliesInWindow
<1>1. /\ age[r.dev] + 0 = ReplyAge(r.window) /\ age[r.dev] \in Nat
      /\ r.window \in Window
  BY ScheduledTypes DEF Due, AgesInv, AgesAdd
<1>2. age[r.dev] = ReplyAge(r.window)
  BY <1>1
<1> QED BY <1>1, <1>2, AgeBounds

(* If the way to the server and back fits the windows on top of the delays *)
(* of the server, as with its links of 2 ms and windows of 0.2 s, every    *)
(* reply reaches its gateway while the window it is meant for is open,     *)
(* however many copies, windows and gateways were tried.                   *)
THEOREM RepliesReachWindows ==
  ASSUME LinksFitWindows
  PROVE  Spec => []RepliesInWindow
<1>1. Init => AgesInv
  BY InitTypes DEF Init, AgesInv, AgesAdd
<1> QED BY <1>1, StepAges, AgesSuffice, PTL DEF Spec
=============================================================================

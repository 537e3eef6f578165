-------------------------- MODULE EndDeviceCommands --------------------------
(***************************************************************************)
(* The MAC commands at an end device: EndDeviceLoraMac::Receive,           *)
(* ParseCommands, the handlers On..., and Send, whose uplink carries the   *)
(* answers away.  EndDeviceLora models when the MAC may send and hear; here *)
(* it may at any time, unless a sub-band is resting.                       *)
(*                                                                         *)
(* An exception nobody catches, a null pointer and an NS_ASSERT that fails *)
(* all end the program.  The duty cycle is kept as its exponent: n is      *)
(* 1 / 2^n, and 255 is 0.                                                  *)
(***************************************************************************)
EXTENDS LoraFrameHeader, FiniteSets

CONSTANTS
  Downlinks,     \* what a server may send: sequences of commands
  MaxAnswers     \* bound: a downlink may come while fewer answers are waiting

ASSUME DownlinksAssumption == \A commands \in Downlinks : commands \in Seq(Request)

VARIABLES
  mac,       \* the members of EndDeviceLoraMac that the commands touch
  resting,   \* the sub-bands whose next transmission time is to come
  asked,     \* requests that reached the device since the last uplink
  view,      \* the settings that the answers read by the server imply
  blind,     \* something was lost or changed on the way: no view from then on
  risky      \* the device has met a request it does not survive

vars == << mac, resting, asked, view, blind, risky >>

-----------------------------------------------------------------------------
(* ConfigureForEuRegion and ApplyCommonEuConfigurations *)
SubBands ==
  { [first |-> <<868, 0>>, last |-> <<868, 600>>, maxTxPowerDbm |-> 14],
    [first |-> <<868, 700>>, last |-> <<869, 200>>, maxTxPowerDbm |-> 14],
    [first |-> <<869, 400>>, last |-> <<869, 650>>, maxTxPowerDbm |-> 27] }

SfForDataRate == << 12, 11, 10, 9, 8, 7, 7 >>

BandwidthForDataRate == << 125, 125, 125, 125, 125, 125, 250 >>

TxDbmForTxPower == << 16, 14, 12, 10, 8, 6, 4, 2 >>

LogicalLoraChannel(frequency, minDataRate, maxDataRate) ==
  [frequency |-> frequency, min |-> minDataRate, max |-> maxDataRate,
   enabled |-> TRUE]

(* The channels that the helper adds; no command adds another. *)
DefaultChannels == 0..2

(* What std::vector::at does beyond the end. *)
OutOfRange == -1

At(vector, i) == IF i < Len(vector) THEN vector[i + 1] ELSE OutOfRange

GetSfFromDataRate(dataRate) ==
  IF dataRate >= Len(SfForDataRate) THEN 0 ELSE At(SfForDataRate, dataRate)

GetBandwidthFromDataRate(dataRate) ==
  IF dataRate > Len(BandwidthForDataRate) THEN 0
  ELSE At(BandwidthForDataRate, dataRate)

GetDbmUnchecked(txPower) == At(TxDbmForTxPower, txPower)

GetDbmForTxPower(txPower) ==
  IF txPower > Len(TxDbmForTxPower) THEN 0 ELSE At(TxDbmForTxPower, txPower)

Below(f, g) == f[1] < g[1] \/ (f[1] = g[1] /\ f[2] < g[2])

BelongsToSubBand(frequency, band) ==
  Below(band.first, frequency) /\ Below(frequency, band.last)

(* GetSubBandFromFrequency: none or, as no two overlap, one. *)
SubBandsOf(channel) == {band \in SubBands : BelongsToSubBand(channel.frequency, band)}

-----------------------------------------------------------------------------
(* The handlers: the MAC after it has carried out a command. *)
Fail(m) == [m EXCEPT !.failed = TRUE]

Answer(m, answer) == [m EXCEPT !.macCommandList = Append(@, answer)]

OnLinkCheckAns(m, c) ==
  [m EXCEPT !.lastKnownLinkMargin = c.margin, !.lastKnownGatewayCount = c.gwCnt]

SupportingAnywhere(m, c) ==
  {i \in DOMAIN m.channels :
     m.channels[i].min <= c.dataRate /\ c.dataRate <= m.channels[i].max}

(* The channels of a mask that the device has and that allow the data rate *)
SupportingChannels(m, c) ==
  {i \in EnabledChannelsList(c) \cap DOMAIN m.channels :
     m.channels[i].min <= c.dataRate /\ c.dataRate <= m.channels[i].max}

(* An index that is the size of the list passes the check of the mask; the *)
(* search for a channel meets it last.                                     *)
OnLinkAdrReq(m, c) ==
  LET size == Cardinality(DOMAIN m.channels)
      mask == EnabledChannelsList(c)
      sf == GetSfFromDataRate(c.dataRate)
      bw == GetBandwidthFromDataRate(c.dataRate)
      dbm == GetDbmForTxPower(c.txPower)
      channelMaskOk == \A i \in mask : i <= size
      searched == sf # 0 /\ bw # 0 /\ channelMaskOk
      found == SupportingChannels(m, c) # {}
      dataRateOk == sf # 0 /\ bw # 0 /\ (channelMaskOk => found)
      txPowerOk == dbm # 0
      set == [m EXCEPT
                !.channels = [i \in DOMAIN @ |-> [@[i] EXCEPT !.enabled = i \in mask]],
                !.dataRate = c.dataRate, !.txPower = dbm]
  IN IF \/ OutOfRange \in {bw, dbm}
        \/ searched /\ ~ found /\ size \in mask
     THEN Fail(m)
     ELSE Answer(IF channelMaskOk /\ dataRateOk /\ txPowerOk THEN set ELSE m,
                 [class |-> "LinkAdrAns", powerAck |-> txPowerOk,
                  dataRateAck |-> dataRateOk, channelMaskAck |-> channelMaskOk])

(* NS_ASSERT (0 <= dutyCycle && dutyCycle < 1) *)
OnDutyCycleReq(m, c) ==
  IF c.maxDCycle = 0
  THEN Fail(m)
  ELSE Answer([m EXCEPT !.aggregatedDutyCycle = c.maxDCycle],
              [class |-> "DutyCycleAns"])

OnRxParamUnchecked(m, c) ==
  Answer([m EXCEPT !.secondReceiveWindowDataRate = c.rx2DataRate,
                   !.rx1DrOffset = c.rx1DrOffset,
                   !.secondReceiveWindowFrequency = c.frequency],
         [class |-> "RxParamSetupAns", rx1DrOffsetAck |-> c.rx1DrOffset <= 5,
          rx2DataRateAck |-> TRUE, channelAck |-> TRUE])

(* The bandwidth is not asked for when there is no spreading factor. *)
OnRxParamSetupReq(m, c) ==
  LET offsetOk == c.rx1DrOffset <= 5
      dataRateOk == /\ GetSfFromDataRate(c.rx2DataRate) # 0
                    /\ GetBandwidthFromDataRate(c.rx2DataRate) # 0
      set == [m EXCEPT !.secondReceiveWindowDataRate = c.rx2DataRate,
                       !.rx1DrOffset = c.rx1DrOffset,
                       !.secondReceiveWindowFrequency = c.frequency]
  IN Answer(IF offsetOk /\ dataRateOk THEN set ELSE m,
            [class |-> "RxParamSetupAns", rx1DrOffsetAck |-> offsetOk,
             rx2DataRateAck |-> dataRateOk, channelAck |-> TRUE])

OnDevStatusReq(m) ==
  Answer(m, [class |-> "DevStatusAns", battery |-> 10, margin |-> 10])

(* Every channel is accepted; SetChannel throws if there is none to replace. *)
OnNewChannelReq(m, c) ==
  IF c.chIndex \notin DOMAIN m.channels
  THEN Fail(m)
  ELSE Answer([m EXCEPT !.channels[c.chIndex] =
                 LogicalLoraChannel(c.frequency, c.minDataRate, c.maxDataRate)],
              [class |-> "NewChannelAns", dataRateRangeOk |-> TRUE,
               channelFrequencyOk |-> TRUE])

(* One turn of the loop of ParseCommands; a RxTimingSetupReq is ignored. *)
Parse(m, c) ==
  CASE m.failed -> m
    [] ~ m.failed /\ c.class = "LinkCheckAns" -> OnLinkCheckAns(m, c)
    [] ~ m.failed /\ c.class = "LinkAdrReq" -> OnLinkAdrReq(m, c)
    [] ~ m.failed /\ c.class = "DutyCycleReq" -> OnDutyCycleReq(m, c)
    [] ~ m.failed /\ c.class = "RxParamSetupReq" -> OnRxParamSetupReq(m, c)
    [] ~ m.failed /\ c.class = "DevStatusReq" -> OnDevStatusReq(m)
    [] ~ m.failed /\ c.class = "NewChannelReq" -> OnNewChannelReq(m, c)
    [] ~ m.failed /\ c = Endless -> Fail(m)
    [] OTHER -> m

ParseCommands(m, commands) == FoldLeft(Parse, m, commands)

-----------------------------------------------------------------------------
(* A server that knows which downlinks arrived takes the answers in the    *)
(* order of the requests and believes that what is acknowledged is set.    *)
Unanswered == {"LinkCheckAns", "RxTimingSetupReq"}

Ask(waiting, c) == IF c.class \in Unanswered THEN waiting ELSE Append(waiting, c)

AskAll(waiting, commands) == FoldLeft(Ask, waiting, commands)

Settings(m) ==
  [dataRate |-> m.dataRate, txPower |-> m.txPower, rx1DrOffset |-> m.rx1DrOffset,
   rx2DataRate |-> m.secondReceiveWindowDataRate,
   rx2Frequency |-> m.secondReceiveWindowFrequency,
   dutyCycle |-> m.aggregatedDutyCycle,
   channels |-> m.channels]

Conclude(v, c, answer) ==
  CASE /\ c.class = "LinkAdrReq" /\ answer.class = "LinkAdrAns"
       /\ answer.powerAck /\ answer.dataRateAck /\ answer.channelMaskAck ->
         [v EXCEPT !.dataRate = c.dataRate, !.txPower = GetDbmForTxPower(c.txPower),
                   !.channels = [i \in DOMAIN @ |->
                     [@[i] EXCEPT !.enabled = i \in EnabledChannelsList(c)]]]
    [] c.class = "DutyCycleReq" /\ answer.class = "DutyCycleAns" ->
         [v EXCEPT !.dutyCycle = c.maxDCycle]
    [] /\ c.class = "RxParamSetupReq" /\ answer.class = "RxParamSetupAns"
       /\ answer.rx1DrOffsetAck /\ answer.rx2DataRateAck ->
         [v EXCEPT !.rx1DrOffset = c.rx1DrOffset, !.rx2DataRate = c.rx2DataRate,
                   !.rx2Frequency = c.frequency]
    [] /\ c.class = "NewChannelReq" /\ answer.class = "NewChannelAns"
       /\ answer.dataRateRangeOk /\ answer.channelFrequencyOk ->
         [v EXCEPT !.channels[c.chIndex] =
            LogicalLoraChannel(c.frequency, c.minDataRate, c.maxDataRate)]
    [] OTHER -> v

Believe(v, requests, answers) ==
  FoldLeftDomain(LAMBDA w, i : IF i > Len(answers) THEN w
                               ELSE Conclude(w, requests[i], answers[i]),
                 v, requests)

-----------------------------------------------------------------------------
(* The requests that may end the program, at once or in a later Send: a    *)
(* data rate or a power index one past the tables, a power above what the  *)
(* channels allow, the index one past the channels, a duty cycle of 1 and  *)
(* any new channel.                                                        *)
Dangerous(c) ==
  \/ c.class = "LinkAdrReq" /\ \/ c.dataRate = 7 \/ c.txPower \in {0, 8}
                               \/ 3 \in EnabledChannelsList(c)
  \/ c.class = "DutyCycleReq" /\ c.maxDCycle = 0
  \/ c.class = "NewChannelReq"

Init ==
  /\ mac = [dataRate |-> 0, txPower |-> 14, rx1DrOffset |-> 0,
            secondReceiveWindowDataRate |-> 0,
            secondReceiveWindowFrequency |-> <<869, 525>>,
            aggregatedDutyCycle |-> 0,
            lastKnownLinkMargin |-> 0, lastKnownGatewayCount |-> 0,
            channels |-> [i \in DefaultChannels |->
                           LogicalLoraChannel(<<868, 100 + 200 * i>>, 0, 5)],
            macCommandList |-> << >>, failed |-> FALSE]
  /\ resting = {}
  /\ asked = << >> /\ view = Settings(mac)
  /\ blind = FALSE /\ risky = FALSE

(* Of the commands in a frame the first seven bytes are read at most: the  *)
(* length has three bits.                                                  *)
Fits(commands) == Len(SerializeHeader(commands).bytes) - Len(<<FPort>>) <= 7

(* A request that is read as another one: a frequency no three bytes hold, *)
(* or one of a NewChannelReq whose first two bytes are swapped on the way. *)
Garbled(c) == Deserialize(c.class, Serialize(c)) # c

ArrivesAsSent(commands) ==
  Fits(commands) /\ \A i \in 1..Len(commands) : ~ Garbled(commands[i])

(* What the server makes of an exchange, if it hears of it. *)
Keep(missed, requests, belief) ==
  /\ blind' = (blind \/ missed \/ mac'.failed)
  /\ asked' = IF blind' THEN << >> ELSE requests
  /\ view' = IF blind' THEN << >> ELSE belief

(* Receive of a downlink for this device *)
Receive(commands) ==
  LET read == ReadBack(FALSE, commands)
  IN /\ ~ mac.failed /\ Len(mac.macCommandList) < MaxAnswers
     /\ mac' = ParseCommands(mac, read)
     /\ Keep(~ ArrivesAsSent(commands), AskAll(asked, commands), view)
     /\ risky' = (risky \/ \E i \in 1..Len(commands) : Dangerous(commands[i]))
     /\ UNCHANGED resting

(* Send when no receive window is pending.  GetChannelForTx shuffles the   *)
(* channels and may stop at any whose sub-band is not resting: one outside *)
(* the sub-bands ends the program, another is taken, enabled or not.       *)
MayStopAt(i) ==
  LET bands == SubBandsOf(mac.channels[i])
  IN bands = {} \/ bands \ resting # {}

SendFails ==
  /\ ~ mac.failed
  /\ \E i \in DOMAIN mac.channels :
       /\ MayStopAt(i)
       /\ \/ SubBandsOf(mac.channels[i]) = {}
          \/ \E band \in SubBandsOf(mac.channels[i]) : mac.txPower > band.maxTxPowerDbm
          \/ mac.rx1DrOffset > 5
  /\ mac' = Fail(mac)
  /\ UNCHANGED << resting, asked, view, blind, risky >>

AnswersStay(m) == m

(* The answers leave with the uplink, whether or not the server hears it. *)
ApplyNecessaryOptions(m) == [m EXCEPT !.macCommandList = << >>]

Send(heard) ==
  LET sent == mac.macCommandList
      answers == ReadBack(TRUE, sent)
  IN /\ ~ mac.failed
     /\ \E i \in DOMAIN mac.channels :
          \E band \in SubBandsOf(mac.channels[i]) \ resting :
            /\ mac.txPower <= band.maxTxPowerDbm
            /\ resting' = resting \cup {band}
     /\ mac' = ApplyNecessaryOptions(mac)
     /\ Keep(asked # << >> /\ ~ (heard /\ Fits(sent)), << >>, Believe(view, asked, answers))
     /\ UNCHANGED risky

(* The next transmission time of a sub-band has come. *)
RestEnds ==
  /\ ~ mac.failed
  /\ \E band \in resting : resting' = resting \ {band}
  /\ UNCHANGED << mac, asked, view, blind, risky >>

Next ==
  \/ \E commands \in Downlinks : Receive(commands)
  \/ \E heard \in BOOLEAN : Send(heard)
  \/ SendFails
  \/ RestEnds

Spec == Init /\ [][Next]_vars

-----------------------------------------------------------------------------
TypeOK ==
  /\ mac.dataRate \in 0..6 /\ mac.secondReceiveWindowDataRate \in 0..6
  /\ mac.txPower \in {TxDbmForTxPower[i] : i \in 1..Len(TxDbmForTxPower)}
  /\ mac.rx1DrOffset \in 0..5 /\ mac.aggregatedDutyCycle \in 0..255
  /\ mac.lastKnownLinkMargin \in 0..255 /\ mac.lastKnownGatewayCount \in 0..255
  /\ DOMAIN mac.channels = DefaultChannels
  /\ \A i \in DefaultChannels : /\ mac.channels[i].enabled \in BOOLEAN
                                /\ {mac.channels[i].min, mac.channels[i].max} \subseteq 0..15
  /\ \A i \in 1..Len(mac.macCommandList) :
       mac.macCommandList[i].class \in
         {"LinkAdrAns", "DutyCycleAns", "RxParamSetupAns", "DevStatusAns", "NewChannelAns"}
  /\ mac.failed \in BOOLEAN /\ resting \subseteq SubBands
  /\ \A i \in 1..Len(asked) : asked[i].class \in DOMAIN CID
  /\ blind \in BOOLEAN /\ risky \in BOOLEAN

(* Once the answers are in, server and device agree on every setting, the  *)
(* frequencies and data rates of the channels included: a request is       *)
(* carried out as a whole and acknowledged, or leaves the device as it     *)
(* was, and no answer is missing, doubled or out of order -- however many  *)
(* downlinks came in between and however often Send was held back.         *)
(* It says this of exchanges that reach the other side as they were sent.  *)
(* After an uplink with answers that is lost, a frame with more than seven *)
(* bytes of commands or a garbled request nothing in the code brings the   *)
(* two together again, and the server is blind from then on.               *)
ViewAgrees == asked = << >> /\ ~ blind /\ ~ mac.failed => view = Settings(mac)

(* No sequence of requests ends the program, in a handler or in a later    *)
(* Send, unless one of those that Dangerous lists is among them: all other *)
(* values out of range are refused before they do harm.                    *)
FailsOnlyIfRisky == mac.failed => risky

(* A device that has met no such request has a channel that is enabled and *)
(* allows the data rate: masks and data rates that shut it up are refused. *)
EnabledChannelSupports ==
  ~ risky => \E i \in DOMAIN mac.channels :
               /\ mac.channels[i].enabled
               /\ mac.channels[i].min <= mac.dataRate
               /\ mac.dataRate <= mac.channels[i].max

(* What the comment in Send says of the assertion under it: the current    *)
(* power is allowed on the channels.  A LinkAdrReq for the highest power   *)
(* is acknowledged, and the next Send fails.                               *)
PowerAllowed ==
  \A i \in DOMAIN mac.channels : \A band \in SubBandsOf(mac.channels[i]) :
    mac.txPower <= band.maxTxPowerDbm
=============================================================================

----------------------- MODULE EndDeviceCommandsProofs -----------------------
(***************************************************************************)
(* The MAC commands, for all values of their fields and all sequences of   *)
(* downlinks, in five parts:                                               *)
(*   - what a command writes into a frame is what is read back from it;    *)
(*   - what a handler makes of the MAC: Carried, CommandIsSafe;            *)
(*   - the loops of the model, which are folds and recursive functions:    *)
(*     one turn after the other, by induction over the turns;              *)
(*   - what is read out of a header are the commands that were written;    *)
(*   - the invariants: SafetyInv for TypeOK, FailsOnlyIfRisky and          *)
(*     EnabledChannelSupports, ViewInv for ViewAgrees.                     *)
(***************************************************************************)
EXTENDS EndDeviceCommands, FiniteSetTheorems, SequenceTheorems, TLAPS

Codes == {n \in Nat : n < 16777216}

(* The frequencies that can be encoded: hundreds, in three bytes. *)
Encodable == {<<100 * n, 0>> : n \in Codes}

LinkAdrAns ==
  [class : {"LinkAdrAns"}, powerAck : BOOLEAN, dataRateAck : BOOLEAN,
   channelMaskAck : BOOLEAN]

RxParamSetupAns ==
  [class : {"RxParamSetupAns"}, rx1DrOffsetAck : BOOLEAN,
   rx2DataRateAck : BOOLEAN, channelAck : BOOLEAN]

NewChannelAns ==
  [class : {"NewChannelAns"}, dataRateRangeOk : BOOLEAN,
   channelFrequencyOk : BOOLEAN]

DevStatusAns == [class : {"DevStatusAns"}, battery : Byte, margin : 0..63]

DutyCycleAns == [class : {"DutyCycleAns"}]

-----------------------------------------------------------------------------
(* Two nibbles in a byte come apart again. *)
LEMMA NibblesApart ==
  ASSUME NEW h \in Nibble, NEW l \in Nibble
  PROVE  Nibbles(h, l) \in Byte /\ High(Nibbles(h, l)) = h /\ Low(Nibbles(h, l)) = l
BY DEF Nibbles, High, Low, Nibble, Byte

LEMMA U16Apart ==
  ASSUME NEW n \in Words
  PROVE  U16From(n % 256, (n \div 256) % 256) = n
BY SMT DEF U16From, Words

(* The three bytes of a frequency in hundreds make up that frequency. *)
LEMMA FrequencyApart ==
  ASSUME NEW n \in Codes
  PROVE  FrequencyFrom((n \div 65536) % 256, (n \div 256) % 256, n % 256) = <<100 * n, 0>>
BY SMT DEF FrequencyFrom, Codes

LEMMA Encoded ==
  ASSUME NEW n \in Codes
  PROVE  FrequencyBytes(<<100 * n, 0>>)
           = << (n \div 65536) % 256, (n \div 256) % 256, n % 256 >>
<1>1. <<100 * n, 0>>[1] \div 100 = n
  BY SMT DEF Codes
<1>2. QED
  BY SMT, <1>1 DEF FrequencyBytes

(* A flag is read back from its bit, whatever the other two are. *)
LEMMA BitsApart ==
  ASSUME NEW x \in {0, 1}, NEW y \in {0, 1}, NEW z \in {0, 1}
  PROVE  /\ Bit(4 * x + 2 * y + z, 4) <=> x = 1
         /\ Bit(4 * x + 2 * y + z, 2) <=> y = 1
         /\ Bit(4 * x + 2 * y + z, 1) <=> z = 1
         /\ Bit(2 * y + z, 2) <=> y = 1
         /\ Bit(2 * y + z, 1) <=> z = 1
BY DEF Bit

LEMMA Flags ==
  ASSUME NEW a \in BOOLEAN
  PROVE  Flag(a) \in {0, 1} /\ (Flag(a) = 1) = a
<1>1. CASE a
  BY <1>1 DEF Flag
<1>2. CASE ~ a
  BY <1>2 DEF Flag
<1>3. QED
  BY <1>1, <1>2

LEMMA FlagsApart ==
  ASSUME NEW a \in BOOLEAN, NEW b \in BOOLEAN, NEW c \in BOOLEAN
  PROVE  /\ Bit(4 * Flag(a) + 2 * Flag(b) + Flag(c), 4) = a
         /\ Bit(4 * Flag(a) + 2 * Flag(b) + Flag(c), 2) = b
         /\ Bit(4 * Flag(a) + 2 * Flag(b) + Flag(c), 1) = c
         /\ Bit(2 * Flag(b) + Flag(c), 2) = b
         /\ Bit(2 * Flag(b) + Flag(c), 1) = c
<1> DEFINE three == 4 * Flag(a) + 2 * Flag(b) + Flag(c)
<1> DEFINE two == 2 * Flag(b) + Flag(c)
<1>1. /\ Bit(three, 4) <=> Flag(a) = 1
      /\ Bit(three, 2) <=> Flag(b) = 1
      /\ Bit(three, 1) <=> Flag(c) = 1
      /\ Bit(two, 2) <=> Flag(b) = 1
      /\ Bit(two, 1) <=> Flag(c) = 1
  BY BitsApart, Flags
<1>2. \A n, w : Bit(n, w) \in BOOLEAN
  BY DEF Bit
<1> HIDE DEF three, two
<1>3. /\ Bit(three, 4) = a /\ Bit(three, 2) = b /\ Bit(three, 1) = c
      /\ Bit(two, 2) = b /\ Bit(two, 1) = c
  BY Zenon, <1>1, <1>2, Flags
<1>4. QED
  BY <1>3 DEF three, two

-----------------------------------------------------------------------------
(* A LinkAdrReq that a server can write arrives with all its fields: data  *)
(* rate, power, all sixteen channels and repetitions.                      *)
THEOREM LinkAdrReqSurvives ==
  ASSUME NEW c \in LinkAdrReq
  PROVE  Deserialize("LinkAdrReq", Serialize(c)) = c
<1> DEFINE b == Serialize(c)
<1>1. /\ c.dataRate \in Nibble /\ c.txPower \in Nibble /\ c.chMaskCntl \in Nibble
      /\ c.nbRep \in Nibble /\ c.channelMask \in Words
  BY DEF LinkAdrReq
<1>2. Data(c) = LinkAdrReqData(c)
  BY DEF LinkAdrReq, Data
<1>3. /\ b[2] = Nibbles(c.dataRate, c.txPower)
      /\ b[3] = c.channelMask % 256 /\ b[4] = (c.channelMask \div 256) % 256
      /\ b[5] = Nibbles(c.chMaskCntl, c.nbRep)
  BY <1>2 DEF Serialize, LinkAdrReqData, U16Bytes
<1>4. Deserialize("LinkAdrReq", b) = LinkAdrReqFrom(b)
  BY DEF Deserialize
<1> HIDE DEF b
<1>5. LinkAdrReqFrom(b) =
        [class |-> "LinkAdrReq", dataRate |-> c.dataRate, txPower |-> c.txPower,
         channelMask |-> c.channelMask, chMaskCntl |-> c.chMaskCntl,
         nbRep |-> c.nbRep]
  BY <1>1, <1>3, NibblesApart, U16Apart DEF LinkAdrReqFrom
<1>6. QED
  BY <1>4, <1>5 DEF LinkAdrReq, b

(* A RxParamSetupReq arrives as it was written, if its frequency is a      *)
(* multiple of a hundred: in Hz every channel is, in MHz none.             *)
THEOREM RxParamSetupReqSurvives ==
  ASSUME NEW c \in RxParamSetupReq, c.frequency \in Encodable
  PROVE  Deserialize("RxParamSetupReq", Serialize(c)) = c
<1> DEFINE b == Serialize(c)
<1> PICK n \in Codes : c.frequency = <<100 * n, 0>>
  BY DEF Encodable
<1>1. /\ c.rx1DrOffset \in Nibble /\ c.rx1DrOffset % 8 = c.rx1DrOffset
      /\ c.rx2DataRate \in Nibble
  BY DEF RxParamSetupReq, Nibble
<1>2. Data(c) = RxParamSetupReqData(c)
  BY DEF RxParamSetupReq, Data
<1>3. /\ b[2] = Nibbles(c.rx1DrOffset, c.rx2DataRate)
      /\ b[3] = (n \div 65536) % 256 /\ b[4] = (n \div 256) % 256 /\ b[5] = n % 256
  BY SMT, <1>1, <1>2, Encoded DEF Serialize, RxParamSetupReqData
<1>4. Deserialize("RxParamSetupReq", b) = RxParamSetupReqFrom(b)
  BY DEF Deserialize
<1> HIDE DEF b
<1>5. RxParamSetupReqFrom(b) =
        [class |-> "RxParamSetupReq", rx1DrOffset |-> c.rx1DrOffset,
         rx2DataRate |-> c.rx2DataRate, frequency |-> c.frequency]
  BY SMT, <1>1, <1>3, NibblesApart, FrequencyApart DEF RxParamSetupReqFrom
<1>6. QED
  BY <1>4, <1>5 DEF RxParamSetupReq, b

LEMMA Swapped ==
  ASSUME NEW n \in Nat, NEW high \in Nat, NEW middle \in Nat, NEW low \in Nat,
         n = 65536 * high + 256 * middle + low
  PROVE  100 * (256 * (high + 256 * middle) + low) = 100 * n <=> high = middle
BY SMT

(* A NewChannelReq arrives with its index and data rates, but with its     *)
(* frequency only if the two higher bytes of the code are equal: they are  *)
(* written the higher one first and read the lower one first.              *)
THEOREM NewChannelReqSwapsBytes ==
  ASSUME NEW c \in NewChannelReq, NEW n \in Codes, c.frequency = <<100 * n, 0>>
  PROVE  LET read == Deserialize("NewChannelReq", Serialize(c))
         IN /\ read = [c EXCEPT !.frequency = read.frequency]
            /\ read.frequency = c.frequency
                 <=> (n \div 65536) % 256 = (n \div 256) % 256
<1> DEFINE b == Serialize(c)
<1> DEFINE high == (n \div 65536) % 256
<1> DEFINE middle == (n \div 256) % 256
<1>1. c.chIndex \in Byte /\ c.maxDataRate \in Nibble /\ c.minDataRate \in Nibble
  BY DEF NewChannelReq
<1>2. Data(c) = NewChannelReqData(c)
  BY DEF NewChannelReq, Data
<1>3. /\ b[2] = c.chIndex /\ b[3] = high /\ b[4] = middle /\ b[5] = n % 256
      /\ b[6] = Nibbles(c.maxDataRate, c.minDataRate)
  BY SMT, <1>2, Encoded DEF Serialize, NewChannelReqData
<1>4. Deserialize("NewChannelReq", b) = NewChannelReqFrom(b)
  BY DEF Deserialize
<1>5. /\ n = 65536 * high + 256 * middle + (n % 256)
      /\ high \in Byte /\ middle \in Byte
  BY SMT DEF Codes, Byte
<1> HIDE DEF b, high, middle
<1>6. NewChannelReqFrom(b) =
        [class |-> "NewChannelReq", chIndex |-> c.chIndex,
         frequency |-> <<100 * (256 * (high + 256 * middle) + (n % 256)), 0>>,
         maxDataRate |-> c.maxDataRate, minDataRate |-> c.minDataRate]
  BY SMT, <1>1, <1>3, NibblesApart DEF NewChannelReqFrom, U16From
<1>7. <<100 * (256 * (high + 256 * middle) + (n % 256)), 0>> = <<100 * n, 0>>
        <=> high = middle
  <2>1. n % 256 \in Nat /\ n \in Nat /\ high \in Nat /\ middle \in Nat
    BY <1>5 DEF Codes, Byte
  <2>2. 100 * (256 * (high + 256 * middle) + (n % 256)) = 100 * n <=> high = middle
    BY <1>5, <2>1, Swapped
  <2>3. QED
    BY <2>2
<1>8. QED
  BY <1>4, <1>6, <1>7 DEF NewChannelReq, b, high, middle

Three(x, y, z) == 4 * Flag(x) + 2 * Flag(y) + Flag(z)

LEMMA ThreeFlags ==
  ASSUME NEW x \in BOOLEAN, NEW y \in BOOLEAN, NEW z \in BOOLEAN
  PROVE  /\ Bit(Three(x, y, z), 4) = x /\ Bit(Three(x, y, z), 2) = y
         /\ Bit(Three(x, y, z), 1) = z
BY FlagsApart, ZenonT(40) DEF Three

LEMMA TwoFlags ==
  ASSUME NEW x \in BOOLEAN, NEW y \in BOOLEAN, NEW n, n = 2 * Flag(x) + Flag(y)
  PROVE  Bit(n, 2) = x /\ Bit(n, 1) = y
BY FlagsApart, Zenon

(* Of an answer the server reads the flags that the device set, each in    *)
(* its place.                                                              *)
THEOREM AnswersSurvive ==
  ASSUME NEW c \in LinkAdrAns \cup RxParamSetupAns \cup NewChannelAns
  PROVE  Deserialize(c.class, Serialize(c)) = c
<1> DEFINE b == Serialize(c)
<1>1. CASE c \in LinkAdrAns
  <2>1. /\ c.powerAck \in BOOLEAN /\ c.dataRateAck \in BOOLEAN
        /\ c.channelMaskAck \in BOOLEAN /\ c.class = "LinkAdrAns"
    BY <1>1 DEF LinkAdrAns
  <2>2. b[2] = 4 * Flag(c.powerAck) + 2 * Flag(c.dataRateAck) + Flag(c.channelMaskAck)
    BY <2>1 DEF Serialize, Data, LinkAdrAnsData
  <2>3. Deserialize(c.class, b) = LinkAdrAnsFrom(b)
    BY <2>1 DEF Deserialize
  <2> HIDE DEF b
  <2>4. /\ Bit(b[2], 4) = c.powerAck /\ Bit(b[2], 2) = c.dataRateAck
        /\ Bit(b[2], 1) = c.channelMaskAck
    <3> DEFINE x == c.powerAck
    <3> DEFINE y == c.dataRateAck
    <3> DEFINE z == c.channelMaskAck
    <3>1. /\ x \in BOOLEAN /\ y \in BOOLEAN /\ z \in BOOLEAN
          /\ b[2] = Three(x, y, z)
      BY <2>1, <2>2 DEF Three
    <3> HIDE DEF x, y, z
    <3>2. /\ Bit(Three(x, y, z), 4) = x /\ Bit(Three(x, y, z), 2) = y
          /\ Bit(Three(x, y, z), 1) = z
      BY <3>1, ThreeFlags, Zenon
    <3>3. Bit(b[2], 4) = x /\ Bit(b[2], 2) = y /\ Bit(b[2], 1) = z
      <4> HIDE DEF Three
      <4>1. QED
        BY ONLY <3>1, <3>2, Zenon
    <3>4. QED
      BY <3>3 DEF x, y, z
  <2>5. LinkAdrAnsFrom(b) =
          [class |-> "LinkAdrAns", powerAck |-> c.powerAck,
           dataRateAck |-> c.dataRateAck,
           channelMaskAck |-> c.channelMaskAck]
    BY <2>4 DEF LinkAdrAnsFrom
  <2>6. QED
    BY <1>1, <2>1, <2>3, <2>5 DEF LinkAdrAns, b
<1>2. CASE c \in RxParamSetupAns
  <2>1. /\ c.rx1DrOffsetAck \in BOOLEAN /\ c.rx2DataRateAck \in BOOLEAN
        /\ c.channelAck \in BOOLEAN /\ c.class = "RxParamSetupAns"
    BY <1>2 DEF RxParamSetupAns
  <2>2. b[2] = 4 * Flag(c.rx1DrOffsetAck) + 2 * Flag(c.rx2DataRateAck) + Flag(c.channelAck)
    BY <2>1 DEF Serialize, Data, RxParamSetupAnsData
  <2>3. Deserialize(c.class, b) = RxParamSetupAnsFrom(b)
    BY <2>1 DEF Deserialize
  <2> HIDE DEF b
  <2>4. /\ Bit(b[2], 4) = c.rx1DrOffsetAck /\ Bit(b[2], 2) = c.rx2DataRateAck
        /\ Bit(b[2], 1) = c.channelAck
    <3> DEFINE x == c.rx1DrOffsetAck
    <3> DEFINE y == c.rx2DataRateAck
    <3> DEFINE z == c.channelAck
    <3>1. /\ x \in BOOLEAN /\ y \in BOOLEAN /\ z \in BOOLEAN
          /\ b[2] = Three(x, y, z)
      BY <2>1, <2>2 DEF Three
    <3> HIDE DEF x, y, z
    <3>2. /\ Bit(Three(x, y, z), 4) = x /\ Bit(Three(x, y, z), 2) = y
          /\ Bit(Three(x, y, z), 1) = z
      BY <3>1, ThreeFlags, Zenon
    <3>3. Bit(b[2], 4) = x /\ Bit(b[2], 2) = y /\ Bit(b[2], 1) = z
      <4> HIDE DEF Three
      <4>1. QED
        BY ONLY <3>1, <3>2, Zenon
    <3>4. QED
      BY <3>3 DEF x, y, z
  <2>5. RxParamSetupAnsFrom(b) =
          [class |-> "RxParamSetupAns", rx1DrOffsetAck |-> c.rx1DrOffsetAck,
           rx2DataRateAck |-> c.rx2DataRateAck,
           channelAck |-> c.channelAck]
    BY <2>4 DEF RxParamSetupAnsFrom
  <2>6. QED
    BY <1>2, <2>1, <2>3, <2>5 DEF RxParamSetupAns, b
<1>3. CASE c \in NewChannelAns
  <2>1. /\ c.dataRateRangeOk \in BOOLEAN /\ c.channelFrequencyOk \in BOOLEAN
        /\ c.class = "NewChannelAns"
    BY <1>3 DEF NewChannelAns
  <2>2. b[2] = 2 * Flag(c.dataRateRangeOk) + Flag(c.channelFrequencyOk)
    BY <2>1 DEF Serialize, Data, NewChannelAnsData
  <2>3. Deserialize(c.class, b) = NewChannelAnsFrom(b)
    BY <2>1 DEF Deserialize
  <2> HIDE DEF b
  <2>4. Bit(b[2], 2) = c.dataRateRangeOk /\ Bit(b[2], 1) = c.channelFrequencyOk
    BY <2>1, <2>2, TwoFlags, Zenon
  <2>5. NewChannelAnsFrom(b) =
          [class |-> "NewChannelAns", dataRateRangeOk |-> c.dataRateRangeOk,
           channelFrequencyOk |-> c.channelFrequencyOk]
    BY <2>4 DEF NewChannelAnsFrom
  <2>6. QED
    BY <1>3, <2>1, <2>3, <2>5 DEF NewChannelAns, b
<1>4. QED
  BY <1>1, <1>2, <1>3

-----------------------------------------------------------------------------
Channel ==
  [frequency : Frequencies, min : Nibble, max : Nibble, enabled : BOOLEAN]

Answers ==
  LinkAdrAns \cup RxParamSetupAns \cup DutyCycleAns \cup DevStatusAns \cup NewChannelAns

Lists == Seq(Answers)

Powers == {16, 14, 12, 10, 8, 6, 4, 2}

Channels == [DefaultChannels -> Channel]

DataRates == 0..6

Mac ==
  [dataRate : DataRates, txPower : Powers, rx1DrOffset : 0..5,
   secondReceiveWindowDataRate : DataRates, secondReceiveWindowFrequency : Frequencies,
   aggregatedDutyCycle : Byte, lastKnownLinkMargin : Byte,
   lastKnownGatewayCount : Byte, channels : Channels,
   macCommandList : Lists, failed : BOOLEAN]

Supports(channel, dataRate) ==
  channel.enabled /\ channel.min <= dataRate /\ dataRate <= channel.max

(* The MAC may send at its power on the default channels, and has one of   *)
(* them enabled for its data rate.                                         *)
Safe(channels, dataRate, txPower) ==
  /\ txPower <= 14
  /\ \A i \in DefaultChannels : channels[i].frequency = <<868, 100 + 200 * i>>
  /\ \E i \in DefaultChannels : Supports(channels[i], dataRate)

Sound(m) ==
  m \in Mac /\ ~ m.failed /\ Safe(m.channels, m.dataRate, m.txPower)

(* What a handler makes of the MAC m: a MAC again, which has failed only   *)
(* after a dangerous command, is safe still if the command was not, and    *)
(* reports what it has set.                                                *)
Reported(m, c, r) ==
  IF c.class \in Unanswered
  THEN r.macCommandList = m.macCommandList /\ Settings(r) = Settings(m)
  ELSE \E a \in Answers : /\ r.macCommandList = Append(m.macCommandList, a)
                          /\ Settings(r) = Conclude(Settings(m), c, a)

Carried(m, c, r) ==
  /\ r \in Mac
  /\ r.failed => Dangerous(c)
  /\ ~ r.failed => Reported(m, c, r)
  /\ Sound(m) /\ ~ Dangerous(c) => Sound(r)

-----------------------------------------------------------------------------
(* An answer that is queued changes nothing else. *)
LEMMA AnswerKeeps ==
  ASSUME NEW m \in Mac, NEW a \in Answers
  PROVE  /\ Answer(m, a) \in Mac /\ Answer(m, a).failed = m.failed
         /\ Answer(m, a).macCommandList = Append(m.macCommandList, a)
         /\ Settings(Answer(m, a)) = Settings(m)
         /\ Sound(m) => Sound(Answer(m, a))
<1>1. Append(m.macCommandList, a) \in Lists
  <2>1. m.macCommandList \in Seq(Answers)
    BY DEF Mac, Lists
  <2> QED BY <2>1, AppendProperties DEF Lists
<1> DEFINE list == Append(m.macCommandList, a)
<1>2. Answer(m, a) = [m EXCEPT !.macCommandList = list]
  BY DEF Answer
<1> HIDE DEF list
<1>3. Answer(m, a) \in Mac /\ Answer(m, a).macCommandList = list
  BY <1>1, <1>2 DEF Mac, list
<1>4. /\ Answer(m, a).failed = m.failed /\ Answer(m, a).channels = m.channels
      /\ Answer(m, a).dataRate = m.dataRate /\ Answer(m, a).txPower = m.txPower
      /\ Answer(m, a).rx1DrOffset = m.rx1DrOffset
      /\ Answer(m, a).secondReceiveWindowDataRate = m.secondReceiveWindowDataRate
      /\ Answer(m, a).secondReceiveWindowFrequency = m.secondReceiveWindowFrequency
      /\ Answer(m, a).aggregatedDutyCycle = m.aggregatedDutyCycle
  BY <1>2 DEF Mac
<1>5. Settings(Answer(m, a)) = Settings(m)
  BY <1>4 DEF Settings
<1> QED BY <1>3, <1>4, <1>5 DEF Sound, list

(* A handler that has set s and queues the answer a carries out its        *)
(* command, if a reports what s has.                                       *)
LEMMA AnsweredIsCarried ==
  ASSUME NEW m \in Mac, NEW c, NEW s \in Mac, NEW a \in Answers,
         c.class \notin Unanswered, ~ s.failed,
         s.macCommandList = m.macCommandList,
         Settings(s) = Conclude(Settings(m), c, a),
         Sound(m) /\ ~ Dangerous(c) => Sound(s)
  PROVE  Carried(m, c, Answer(s, a))
BY AnswerKeeps DEF Carried, Reported

LEMMA FailIsCarried ==
  ASSUME NEW m \in Mac, NEW c, Dangerous(c)
  PROVE  Carried(m, c, Fail(m))
<1>1. Fail(m) \in Mac /\ Fail(m).failed
  BY DEF Fail, Mac
<1> QED BY <1>1 DEF Carried

LEMMA LinkCheckIsCarried ==
  ASSUME NEW m \in Mac, ~ m.failed, NEW c \in LinkCheckAns
  PROVE  Carried(m, c, OnLinkCheckAns(m, c))
<1> DEFINE r == OnLinkCheckAns(m, c)
<1>1. c.margin \in Byte /\ c.gwCnt \in Byte /\ c.class = "LinkCheckAns"
  BY DEF LinkCheckAns
<1>2. r = [m EXCEPT !.lastKnownLinkMargin = c.margin, !.lastKnownGatewayCount = c.gwCnt]
  BY DEF OnLinkCheckAns
<1> HIDE DEF r
<1>3. r \in Mac
  BY <1>1, <1>2 DEF Mac
<1>4. /\ r.failed = m.failed /\ r.channels = m.channels
      /\ r.dataRate = m.dataRate /\ r.txPower = m.txPower
      /\ r.rx1DrOffset = m.rx1DrOffset /\ r.macCommandList = m.macCommandList
      /\ r.secondReceiveWindowDataRate = m.secondReceiveWindowDataRate
      /\ r.secondReceiveWindowFrequency = m.secondReceiveWindowFrequency
      /\ r.aggregatedDutyCycle = m.aggregatedDutyCycle
  BY <1>2 DEF Mac
<1>5. Settings(r) = Settings(m)
  BY <1>4 DEF Settings
<1>6. Reported(m, c, r)
  BY <1>1, <1>4, <1>5 DEF Reported, Unanswered
<1>7. Sound(m) => Sound(r)
  BY <1>3, <1>4 DEF Sound
<1>8. ~ r.failed
  BY <1>4
<1> QED BY <1>3, <1>6, <1>7, <1>8 DEF Carried, r

LEMMA DutyCycleIsCarried ==
  ASSUME NEW m \in Mac, ~ m.failed, NEW c \in DutyCycleReq
  PROVE  Carried(m, c, OnDutyCycleReq(m, c))
<1> DEFINE s == [m EXCEPT !.aggregatedDutyCycle = c.maxDCycle]
<1> DEFINE a == [class |-> "DutyCycleAns"]
<1>1. c.maxDCycle \in Byte /\ c.class = "DutyCycleReq"
  BY DEF DutyCycleReq
<1>2. CASE c.maxDCycle = 0
  <2>1. Dangerous(c)
    BY <1>1, <1>2 DEF Dangerous
  <2> QED BY <1>2, <2>1, FailIsCarried DEF OnDutyCycleReq
<1>3. CASE c.maxDCycle # 0
  <2>1. OnDutyCycleReq(m, c) = Answer(s, a)
    BY <1>3 DEF OnDutyCycleReq
  <2>2. a \in Answers
    BY DEF Answers, DutyCycleAns
  <2>3. s \in Mac
    BY <1>1 DEF Mac
  <2>4. /\ s.failed = m.failed /\ s.channels = m.channels
        /\ s.dataRate = m.dataRate /\ s.txPower = m.txPower
        /\ s.rx1DrOffset = m.rx1DrOffset /\ s.macCommandList = m.macCommandList
        /\ s.secondReceiveWindowDataRate = m.secondReceiveWindowDataRate
        /\ s.secondReceiveWindowFrequency = m.secondReceiveWindowFrequency
        /\ s.aggregatedDutyCycle = c.maxDCycle
    BY DEF Mac
  <2>5. Sound(m) => Sound(s)
    BY <2>3, <2>4 DEF Sound
  <2>6. Settings(s) = Conclude(Settings(m), c, a)
    <3>1. Conclude(Settings(m), c, a) = [Settings(m) EXCEPT !.dutyCycle = c.maxDCycle]
      BY <1>1 DEF Conclude
    <3> HIDE DEF s, a
    <3>2. Settings(s) = [Settings(m) EXCEPT !.dutyCycle = c.maxDCycle]
      BY <2>4 DEF Settings
    <3> QED BY <3>1, <3>2
  <2>7. c.class \notin Unanswered
    BY <1>1 DEF Unanswered
  <2> HIDE DEF s, a
  <2> QED BY <2>1, <2>2, <2>3, <2>4, <2>5, <2>6, <2>7, AnsweredIsCarried
<1> QED BY <1>2, <1>3

LEMMA DevStatusIsCarried ==
  ASSUME NEW m \in Mac, ~ m.failed, NEW c \in DevStatusReq
  PROVE  Carried(m, c, OnDevStatusReq(m))
<1> DEFINE a == [class |-> "DevStatusAns", battery |-> 10, margin |-> 10]
<1>1. a \in Answers
  BY DEF Answers, DevStatusAns, Byte
<1>2. c.class = "DevStatusReq"
  BY DEF DevStatusReq
<1>3. Settings(m) = Conclude(Settings(m), c, a)
  BY <1>2 DEF Conclude
<1>4. c.class \notin Unanswered
  BY <1>2 DEF Unanswered
<1>5. OnDevStatusReq(m) = Answer(m, a)
  BY DEF OnDevStatusReq
<1> HIDE DEF a
<1> QED BY <1>1, <1>3, <1>4, <1>5, AnsweredIsCarried

(* What the tables yield: a power that has a value, a spreading factor and *)
(* a bandwidth for the data rates below 7.                                 *)
LEMMA Tables ==
  ASSUME NEW n \in Nibble
  PROVE  /\ GetDbmForTxPower(n) = OutOfRange => n = 8
         /\ GetDbmForTxPower(n) \notin {0, OutOfRange} => GetDbmForTxPower(n) \in Powers
         /\ n # 0 => GetDbmForTxPower(n) <= 14
         /\ GetSfFromDataRate(n) # 0 => n \in DataRates
         /\ GetBandwidthFromDataRate(n) = OutOfRange => n = 7
BY DEF GetDbmForTxPower, GetSfFromDataRate, GetBandwidthFromDataRate, At, OutOfRange,
       TxDbmForTxPower, SfForDataRate, BandwidthForDataRate, Nibble, Powers, DataRates

(* The second window of the settings is set field by field. *)
WithWindow(v, offset, dataRate, frequency) ==
  [v EXCEPT !.rx1DrOffset = offset, !.rx2DataRate = dataRate,
            !.rx2Frequency = frequency]

LEMMA WindowIsSet ==
  ASSUME NEW m, NEW offset, NEW dataRate, NEW frequency
  PROVE  WithWindow(Settings(m), offset, dataRate, frequency)
           = [dataRate |-> m.dataRate, txPower |-> m.txPower, rx1DrOffset |-> offset,
              rx2DataRate |-> dataRate, rx2Frequency |-> frequency,
              dutyCycle |-> m.aggregatedDutyCycle, channels |-> m.channels]
<1> DEFINE v == [Settings(m) EXCEPT !.rx1DrOffset = offset]
<1> DEFINE w == [v EXCEPT !.rx2DataRate = dataRate]
<1>1. v = [dataRate |-> m.dataRate, txPower |-> m.txPower, rx1DrOffset |-> offset,
           rx2DataRate |-> m.secondReceiveWindowDataRate,
           rx2Frequency |-> m.secondReceiveWindowFrequency,
           dutyCycle |-> m.aggregatedDutyCycle, channels |-> m.channels]
  BY DEF Settings
<1>2. w = [dataRate |-> m.dataRate, txPower |-> m.txPower, rx1DrOffset |-> offset,
           rx2DataRate |-> dataRate, rx2Frequency |-> m.secondReceiveWindowFrequency,
           dutyCycle |-> m.aggregatedDutyCycle, channels |-> m.channels]
  <2> HIDE DEF v
  <2> QED BY <1>1
<1>3. [w EXCEPT !.rx2Frequency = frequency]
        = [dataRate |-> m.dataRate, txPower |-> m.txPower, rx1DrOffset |-> offset,
           rx2DataRate |-> dataRate, rx2Frequency |-> frequency,
           dutyCycle |-> m.aggregatedDutyCycle, channels |-> m.channels]
  <2> HIDE DEF w
  <2> QED BY <1>2
<1> QED BY <1>3 DEF WithWindow

LEMMA RxParamSetupIsCarried ==
  ASSUME NEW m \in Mac, ~ m.failed, NEW c \in RxParamSetupReq
  PROVE  Carried(m, c, OnRxParamSetupReq(m, c))
<1> DEFINE offsetOk == c.rx1DrOffset <= 5
<1> DEFINE dataRateOk == /\ GetSfFromDataRate(c.rx2DataRate) # 0
                         /\ GetBandwidthFromDataRate(c.rx2DataRate) # 0
<1> DEFINE set == [m EXCEPT !.secondReceiveWindowDataRate = c.rx2DataRate,
                            !.rx1DrOffset = c.rx1DrOffset,
                            !.secondReceiveWindowFrequency = c.frequency]
<1> DEFINE s == IF offsetOk /\ dataRateOk THEN set ELSE m
<1> DEFINE a == [class |-> "RxParamSetupAns", rx1DrOffsetAck |-> offsetOk,
                 rx2DataRateAck |-> dataRateOk, channelAck |-> TRUE]
<1>1. /\ c.rx1DrOffset \in 0..7 /\ c.rx2DataRate \in Nibble
      /\ c.frequency \in Frequencies /\ c.class = "RxParamSetupReq"
  BY DEF RxParamSetupReq
<1>2. OnRxParamSetupReq(m, c) = Answer(s, a)
  BY DEF OnRxParamSetupReq
<1>3. c.class \notin Unanswered
  BY <1>1 DEF Unanswered
<1>4. /\ a \in Answers /\ a.class = "RxParamSetupAns"
      /\ a.rx1DrOffsetAck = offsetOk /\ a.rx2DataRateAck = dataRateOk
  <2>1. offsetOk \in BOOLEAN /\ dataRateOk \in BOOLEAN
    OBVIOUS
  <2> HIDE DEF offsetOk, dataRateOk
  <2> QED BY <2>1 DEF Answers, RxParamSetupAns
<1> HIDE DEF a
<1>5. CASE offsetOk /\ dataRateOk
  <2>1. c.rx2DataRate \in DataRates /\ c.rx1DrOffset \in 0..5
    BY <1>1, <1>5, Tables
  <2>2. set \in Mac
    BY <1>1, <2>1 DEF Mac
  <2>3. /\ set.failed = m.failed /\ set.channels = m.channels
        /\ set.dataRate = m.dataRate /\ set.txPower = m.txPower
        /\ set.rx1DrOffset = c.rx1DrOffset /\ set.macCommandList = m.macCommandList
        /\ set.secondReceiveWindowDataRate = c.rx2DataRate
        /\ set.secondReceiveWindowFrequency = c.frequency
        /\ set.aggregatedDutyCycle = m.aggregatedDutyCycle
    BY DEF Mac
  <2>4. Sound(m) => Sound(set)
    BY <2>2, <2>3 DEF Sound
  <2>5. Settings(set) = Conclude(Settings(m), c, a)
    <3> DEFINE offset == c.rx1DrOffset
    <3> DEFINE dataRate == c.rx2DataRate
    <3> DEFINE frequency == c.frequency
    <3>1. Conclude(Settings(m), c, a) = WithWindow(Settings(m), offset, dataRate, frequency)
      <4> HIDE DEF offsetOk, dataRateOk
      <4> QED BY <1>1, <1>4, <1>5 DEF Conclude, WithWindow
    <3> HIDE DEF set
    <3>2. /\ set.channels = m.channels /\ set.dataRate = m.dataRate
          /\ set.txPower = m.txPower /\ set.rx1DrOffset = offset
          /\ set.secondReceiveWindowDataRate = dataRate
          /\ set.secondReceiveWindowFrequency = frequency
          /\ set.aggregatedDutyCycle = m.aggregatedDutyCycle
      BY <2>3
    <3> HIDE DEF offset, dataRate, frequency
    <3>3. Settings(set)
            = [dataRate |-> m.dataRate, txPower |-> m.txPower, rx1DrOffset |-> offset,
               rx2DataRate |-> dataRate, rx2Frequency |-> frequency,
               dutyCycle |-> m.aggregatedDutyCycle, channels |-> m.channels]
      BY <3>2 DEF Settings
    <3>4. WithWindow(Settings(m), offset, dataRate, frequency)
            = [dataRate |-> m.dataRate, txPower |-> m.txPower, rx1DrOffset |-> offset,
               rx2DataRate |-> dataRate, rx2Frequency |-> frequency,
               dutyCycle |-> m.aggregatedDutyCycle, channels |-> m.channels]
      BY WindowIsSet
    <3> QED BY <3>1, <3>3, <3>4
  <2>6. s = set
    BY <1>5
  <2> HIDE DEF s, set
  <2> QED BY <1>2, <1>3, <1>4, <2>2, <2>3, <2>4, <2>5, <2>6, AnsweredIsCarried
<1>6. CASE ~ (offsetOk /\ dataRateOk)
  <2>1. Settings(m) = Conclude(Settings(m), c, a)
    <3> HIDE DEF offsetOk, dataRateOk
    <3> QED BY <1>1, <1>4, <1>6 DEF Conclude
  <2>2. s = m
    BY <1>6
  <2> HIDE DEF s
  <2> QED BY <1>2, <1>3, <1>4, <2>1, <2>2, AnsweredIsCarried
<1> QED BY <1>5, <1>6

(* Any new channel is dangerous; it is enabled. *)
LEMMA NewChannelIsCarried ==
  ASSUME NEW m \in Mac, ~ m.failed, NEW c \in NewChannelReq
  PROVE  Carried(m, c, OnNewChannelReq(m, c))
<1> DEFINE i == c.chIndex
<1> DEFINE new == LogicalLoraChannel(c.frequency, c.minDataRate, c.maxDataRate)
<1> DEFINE s == [m EXCEPT !.channels[i] = new]
<1> DEFINE a == [class |-> "NewChannelAns", dataRateRangeOk |-> TRUE,
                 channelFrequencyOk |-> TRUE]
<1>1. /\ c.frequency \in Frequencies /\ c.minDataRate \in Nibble
      /\ c.maxDataRate \in Nibble /\ c.class = "NewChannelReq"
  BY DEF NewChannelReq
<1>2. Dangerous(c)
  BY <1>1 DEF Dangerous
<1>3. DOMAIN m.channels = DefaultChannels /\ m.channels \in Channels
  BY DEF Mac, Channels
<1>4. CASE i \notin DefaultChannels
  BY <1>2, <1>3, <1>4, FailIsCarried DEF OnNewChannelReq
<1>5. CASE i \in DefaultChannels
  <2>1. OnNewChannelReq(m, c) = Answer(s, a)
    BY <1>3, <1>5 DEF OnNewChannelReq
  <2>2. a \in Answers
    BY DEF Answers, NewChannelAns
  <2> DEFINE channels == [m.channels EXCEPT ![i] = new]
  <2>3. channels \in Channels /\ new.enabled
    BY <1>1, <1>3 DEF Channels, Channel, LogicalLoraChannel
  <2>4. s = [m EXCEPT !.channels = channels]
    OBVIOUS
  <2>5. Conclude(Settings(m), c, a) = [Settings(m) EXCEPT !.channels = channels]
    <3> DEFINE v == Settings(m)
    <3>1. Conclude(v, c, a) = [v EXCEPT !.channels[i] = new]
      <4> HIDE DEF v
      <4> QED BY <1>1 DEF Conclude
    <3>2. v.channels = m.channels
      BY DEF Settings
    <3> HIDE DEF new, i, v
    <3>3. [v EXCEPT !.channels[i] = new] = [v EXCEPT !.channels = [v.channels EXCEPT ![i] = new]]
      OBVIOUS
    <3> QED BY <3>1, <3>2, <3>3 DEF v
  <2> HIDE DEF s, channels
  <2>6. s \in Mac
    BY <2>3, <2>4 DEF Mac
  <2>7. /\ s.failed = m.failed /\ s.channels = channels
        /\ s.dataRate = m.dataRate /\ s.txPower = m.txPower
        /\ s.rx1DrOffset = m.rx1DrOffset /\ s.macCommandList = m.macCommandList
        /\ s.secondReceiveWindowDataRate = m.secondReceiveWindowDataRate
        /\ s.secondReceiveWindowFrequency = m.secondReceiveWindowFrequency
        /\ s.aggregatedDutyCycle = m.aggregatedDutyCycle
    BY <2>4 DEF Mac
  <2>8. Settings(s) = Conclude(Settings(m), c, a)
    <3> HIDE DEF a, i
    <3>1. Settings(s) = [Settings(m) EXCEPT !.channels = channels]
      BY <2>7 DEF Settings
    <3> QED BY <2>5, <3>1
  <2>9. c.class \notin Unanswered
    BY <1>1 DEF Unanswered
  <2> HIDE DEF a
  <2> QED BY <1>2, <2>1, <2>2, <2>6, <2>7, <2>8, <2>9, AnsweredIsCarried
<1> QED BY <1>4, <1>5

(* A channel that is enabled or disabled is still a channel. *)
LEMMA ChannelIsSet ==
  ASSUME NEW channel \in Channel, NEW enabled \in BOOLEAN
  PROVE  /\ [channel EXCEPT !.enabled = enabled] \in Channel
         /\ [channel EXCEPT !.enabled = enabled].frequency = channel.frequency
         /\ [channel EXCEPT !.enabled = enabled].min = channel.min
         /\ [channel EXCEPT !.enabled = enabled].max = channel.max
         /\ [channel EXCEPT !.enabled = enabled].enabled = enabled
BY DEF Channel

Masked(channels, mask) ==
  [i \in DefaultChannels |-> [channels[i] EXCEPT !.enabled = i \in mask]]

LEMMA MaskIsSet ==
  ASSUME NEW channels \in Channels, NEW mask
  PROVE  /\ Masked(channels, mask) \in Channels
         /\ \A i \in DefaultChannels :
              /\ Masked(channels, mask)[i].frequency = channels[i].frequency
              /\ Masked(channels, mask)[i].min = channels[i].min
              /\ Masked(channels, mask)[i].max = channels[i].max
              /\ Masked(channels, mask)[i].enabled = (i \in mask)
<1>1. \A i \in DefaultChannels : channels[i] \in Channel
  BY DEF Channels
<1> DEFINE to == Masked(channels, mask)
<1>2. ASSUME NEW i \in DefaultChannels
      PROVE  /\ to[i] \in Channel /\ to[i].frequency = channels[i].frequency
             /\ to[i].min = channels[i].min /\ to[i].max = channels[i].max
             /\ to[i].enabled = (i \in mask)
  <2> DEFINE enabled == i \in mask
  <2>1. enabled \in BOOLEAN /\ channels[i] \in Channel
    BY <1>1
  <2>2. to[i] = [channels[i] EXCEPT !.enabled = enabled]
    BY DEF Masked
  <2> HIDE DEF enabled, to
  <2>3. /\ to[i] \in Channel /\ to[i].frequency = channels[i].frequency
        /\ to[i].min = channels[i].min /\ to[i].max = channels[i].max
        /\ to[i].enabled = enabled
    BY <2>1, <2>2, ChannelIsSet
  <2> QED BY <2>3 DEF enabled
<1>3. DOMAIN to = DefaultChannels /\ to = [i \in DefaultChannels |-> to[i]]
  BY DEF Masked
<1> HIDE DEF to
<1>4. to \in Channels
  BY <1>2, <1>3 DEF Channels
<1> QED BY <1>2, <1>4 DEF to

SetLink(m, channels, dataRate, txPower) ==
  [m EXCEPT !.channels = channels, !.dataRate = dataRate, !.txPower = txPower]

WithLink(v, dataRate, txPower, mask) ==
  [v EXCEPT !.dataRate = dataRate, !.txPower = txPower,
            !.channels = [i \in DOMAIN @ |-> [@[i] EXCEPT !.enabled = i \in mask]]]

(* Channels, data rate and power set together give a MAC again. *)
LEMMA LinkIsSet ==
  ASSUME NEW m \in Mac, NEW channels \in Channels, NEW dataRate \in DataRates,
         NEW txPower \in Powers
  PROVE  LET s == SetLink(m, channels, dataRate, txPower)
         IN /\ s \in Mac
            /\ s.channels = channels /\ s.dataRate = dataRate /\ s.txPower = txPower
            /\ s.failed = m.failed /\ s.macCommandList = m.macCommandList
            /\ s.rx1DrOffset = m.rx1DrOffset
            /\ s.secondReceiveWindowDataRate = m.secondReceiveWindowDataRate
            /\ s.secondReceiveWindowFrequency = m.secondReceiveWindowFrequency
            /\ s.aggregatedDutyCycle = m.aggregatedDutyCycle
BY DEF SetLink, Mac

LEMMA ViewOfLink ==
  ASSUME NEW m, NEW dataRate, NEW txPower, NEW mask, DOMAIN m.channels = DefaultChannels
  PROVE  WithLink(Settings(m), dataRate, txPower, mask)
           = [dataRate |-> dataRate, txPower |-> txPower, rx1DrOffset |-> m.rx1DrOffset,
              rx2DataRate |-> m.secondReceiveWindowDataRate,
              rx2Frequency |-> m.secondReceiveWindowFrequency,
              dutyCycle |-> m.aggregatedDutyCycle, channels |-> Masked(m.channels, mask)]
<1> DEFINE v == [Settings(m) EXCEPT !.dataRate = dataRate]
<1> DEFINE w == [v EXCEPT !.txPower = txPower]
<1> DEFINE to == [i \in DOMAIN w.channels |-> [w.channels[i] EXCEPT !.enabled = i \in mask]]
<1>1. v = [dataRate |-> dataRate, txPower |-> m.txPower, rx1DrOffset |-> m.rx1DrOffset,
           rx2DataRate |-> m.secondReceiveWindowDataRate,
           rx2Frequency |-> m.secondReceiveWindowFrequency,
           dutyCycle |-> m.aggregatedDutyCycle, channels |-> m.channels]
  BY DEF Settings
<1>2. w = [dataRate |-> dataRate, txPower |-> txPower, rx1DrOffset |-> m.rx1DrOffset,
           rx2DataRate |-> m.secondReceiveWindowDataRate,
           rx2Frequency |-> m.secondReceiveWindowFrequency,
           dutyCycle |-> m.aggregatedDutyCycle, channels |-> m.channels]
  <2> HIDE DEF v
  <2> QED BY <1>1
<1>3. WithLink(Settings(m), dataRate, txPower, mask) = [w EXCEPT !.channels = to]
  BY DEF WithLink
<1> HIDE DEF w
<1>4. to = Masked(m.channels, mask)
  BY <1>2 DEF Masked
<1> HIDE DEF to
<1>5. [w EXCEPT !.channels = to]
        = [dataRate |-> dataRate, txPower |-> txPower, rx1DrOffset |-> m.rx1DrOffset,
           rx2DataRate |-> m.secondReceiveWindowDataRate,
           rx2Frequency |-> m.secondReceiveWindowFrequency,
           dutyCycle |-> m.aggregatedDutyCycle, channels |-> to]
  BY <1>2
<1> QED BY <1>3, <1>4, <1>5

(* A LinkAdrReq that is accepted enables a channel that allows its data    *)
(* rate; one that is refused changes nothing.                              *)
LEMMA LinkAdrIsCarried ==
  ASSUME NEW m \in Mac, ~ m.failed, NEW c \in LinkAdrReq
  PROVE  Carried(m, c, OnLinkAdrReq(m, c))
<1> DEFINE mask == EnabledChannelsList(c)
<1> DEFINE sf == GetSfFromDataRate(c.dataRate)
<1> DEFINE bw == GetBandwidthFromDataRate(c.dataRate)
<1> DEFINE dbm == GetDbmForTxPower(c.txPower)
<1> DEFINE size == Cardinality(DOMAIN m.channels)
<1> DEFINE channelMaskOk == \A i \in mask : i <= size
<1> DEFINE found == SupportingChannels(m, c) # {}
<1> DEFINE dataRateOk == sf # 0 /\ bw # 0 /\ (channelMaskOk => found)
<1> DEFINE txPowerOk == dbm # 0
<1> DEFINE searched == sf # 0 /\ bw # 0 /\ channelMaskOk
<1> DEFINE ok == channelMaskOk /\ dataRateOk /\ txPowerOk
<1> DEFINE dies == OutOfRange \in {bw, dbm} \/ (searched /\ ~ found /\ size \in mask)
<1> DEFINE set == [m EXCEPT
                     !.channels = [i \in DOMAIN @ |-> [@[i] EXCEPT !.enabled = i \in mask]],
                     !.dataRate = c.dataRate, !.txPower = dbm]
<1> DEFINE a == [class |-> "LinkAdrAns", powerAck |-> txPowerOk,
                 dataRateAck |-> dataRateOk, channelMaskAck |-> channelMaskOk]
<1>1. /\ c.dataRate \in Nibble /\ c.txPower \in Nibble /\ c.class = "LinkAdrReq"
  BY DEF LinkAdrReq
<1>2. c.dataRate = 7 \/ c.txPower = 0 \/ c.txPower = 8 \/ 3 \in mask => Dangerous(c)
  BY <1>1 DEF Dangerous
<1>3. DOMAIN m.channels = DefaultChannels /\ m.channels \in Channels /\ size = 3
  <2>1. DOMAIN m.channels = DefaultChannels /\ m.channels \in Channels
    BY DEF Mac, Channels
  <2>2. Cardinality(DefaultChannels) = 3
    <3> DEFINE b == 2
    <3>1. b \in Int /\ 0 \in Int
      OBVIOUS
    <3> HIDE DEF b
    <3>2. Cardinality(0..b) = IF 0 > b THEN 0 ELSE b - 0 + 1
      BY <3>1, FS_Interval
    <3> QED BY <3>2 DEF b, DefaultChannels
  <2> QED BY <2>1, <2>2
<1>4. OnLinkAdrReq(m, c) = IF dies THEN Fail(m) ELSE Answer(IF ok THEN set ELSE m, a)
  BY DEF OnLinkAdrReq
<1>5. CASE dies
  <2>1. c.dataRate = 7 \/ c.txPower = 8 \/ 3 \in mask
    BY <1>1, <1>3, <1>5, Tables
  <2>2. Dangerous(c)
    BY <1>2, <2>1
  <2> HIDE DEF dies, ok, set, a
  <2> QED BY <1>4, <1>5, <2>2, FailIsCarried
<1>6. c.class \notin Unanswered
  BY <1>1 DEF Unanswered
<1>7. /\ a \in Answers /\ a.class = "LinkAdrAns" /\ a.powerAck = txPowerOk
      /\ a.dataRateAck = dataRateOk /\ a.channelMaskAck = channelMaskOk
  <2>1. txPowerOk \in BOOLEAN /\ dataRateOk \in BOOLEAN /\ channelMaskOk \in BOOLEAN
    OBVIOUS
  <2> HIDE DEF txPowerOk, dataRateOk, channelMaskOk
  <2> QED BY <2>1 DEF Answers, LinkAdrAns
<1>8. CASE ~ dies /\ ~ ok
  <2>1. ~ (channelMaskOk /\ dataRateOk /\ txPowerOk)
    BY <1>8
  <2> HIDE DEF a, channelMaskOk, dataRateOk, txPowerOk
  <2>2. Settings(m) = Conclude(Settings(m), c, a)
    BY <1>1, <1>7, <2>1 DEF Conclude
  <2>3. OnLinkAdrReq(m, c) = Answer(m, a)
    <3> HIDE DEF dies, ok
    <3> QED BY <1>4, <1>8
  <2> QED BY <1>6, <1>7, <2>2, <2>3, AnsweredIsCarried
<1>9. CASE ~ dies /\ ok
  <2> DEFINE channels == Masked(m.channels, mask)
  <2> DEFINE dataRate == c.dataRate
  <2>1. OnLinkAdrReq(m, c) = Answer(set, a)
    <3> HIDE DEF dies, ok, set, a
    <3> QED BY <1>4, <1>9
  <2>2. set = SetLink(m, channels, dataRate, dbm)
    <3> HIDE DEF mask, dbm
    <3>1. [j \in DOMAIN m.channels |-> [m.channels[j] EXCEPT !.enabled = j \in mask]]
            = channels
      BY <1>3 DEF Masked
    <3> HIDE DEF channels
    <3> QED BY <3>1 DEF SetLink
  <2>3. dataRate \in DataRates /\ dbm \in Powers
    BY <1>1, <1>9, Tables
  <2>4. \E i \in DefaultChannels : i \in mask /\ m.channels[i].min <= dataRate
                                   /\ dataRate <= m.channels[i].max
    BY <1>3, <1>9 DEF SupportingChannels
  <2>5. ~ Dangerous(c) => dbm <= 14
    BY <1>1, <1>2, Tables
  <2>6. channelMaskOk /\ dataRateOk /\ txPowerOk
    BY <1>9
  <2>7. Conclude(Settings(m), c, a)
          = WithLink(Settings(m), dataRate, dbm, mask)
    <3> HIDE DEF a, channelMaskOk, dataRateOk, txPowerOk
    <3> QED BY <1>1, <1>7, <2>6 DEF Conclude, WithLink
  <2> HIDE DEF set, dbm, mask, a, dataRate
  <2>8. /\ channels \in Channels
        /\ \A i \in DefaultChannels : /\ channels[i].frequency = m.channels[i].frequency
                                      /\ channels[i].min = m.channels[i].min
                                      /\ channels[i].max = m.channels[i].max
                                      /\ channels[i].enabled = (i \in mask)
    BY <1>3, MaskIsSet
  <2>9. channels = Masked(m.channels, mask)
    OBVIOUS
  <2> HIDE DEF channels
  <2>10. /\ set \in Mac
        /\ set.channels = channels /\ set.dataRate = dataRate /\ set.txPower = dbm
        /\ set.failed = m.failed /\ set.macCommandList = m.macCommandList
        /\ set.rx1DrOffset = m.rx1DrOffset
        /\ set.secondReceiveWindowDataRate = m.secondReceiveWindowDataRate
        /\ set.secondReceiveWindowFrequency = m.secondReceiveWindowFrequency
        /\ set.aggregatedDutyCycle = m.aggregatedDutyCycle
    BY <2>2, <2>3, <2>8, LinkIsSet
  <2>11. Settings(set) = Conclude(Settings(m), c, a)
    <3>1. Settings(set)
            = [dataRate |-> dataRate, txPower |-> dbm, rx1DrOffset |-> m.rx1DrOffset,
               rx2DataRate |-> m.secondReceiveWindowDataRate,
               rx2Frequency |-> m.secondReceiveWindowFrequency,
               dutyCycle |-> m.aggregatedDutyCycle, channels |-> channels]
      BY <2>8, <2>10 DEF Settings
    <3>2. WithLink(Settings(m), dataRate, dbm, mask)
            = [dataRate |-> dataRate, txPower |-> dbm, rx1DrOffset |-> m.rx1DrOffset,
               rx2DataRate |-> m.secondReceiveWindowDataRate,
               rx2Frequency |-> m.secondReceiveWindowFrequency,
               dutyCycle |-> m.aggregatedDutyCycle, channels |-> channels]
      BY <1>3, <2>9, ViewOfLink
    <3> QED BY <2>7, <3>1, <3>2
  <2>12. Sound(m) /\ ~ Dangerous(c) => Sound(set)
    <3>1. \E i \in DefaultChannels : Supports(channels[i], dataRate)
      BY <2>4, <2>8 DEF Supports
    <3> QED BY <2>5, <2>8, <2>10, <3>1 DEF Sound, Safe
  <2> QED BY <1>6, <1>7, <2>1, <2>10, <2>11, <2>12, AnsweredIsCarried
<1> QED BY <1>5, <1>8, <1>9

(* The handler of each class *)
LEMMA Dispatch ==
  ASSUME NEW m, ~ m.failed, NEW c
  PROVE  /\ c.class = "LinkCheckAns" => Parse(m, c) = OnLinkCheckAns(m, c)
         /\ c.class = "LinkAdrReq" => Parse(m, c) = OnLinkAdrReq(m, c)
         /\ c.class = "DutyCycleReq" => Parse(m, c) = OnDutyCycleReq(m, c)
         /\ c.class = "RxParamSetupReq" => Parse(m, c) = OnRxParamSetupReq(m, c)
         /\ c.class = "DevStatusReq" => Parse(m, c) = OnDevStatusReq(m)
         /\ c.class = "NewChannelReq" => Parse(m, c) = OnNewChannelReq(m, c)
         /\ c.class = "RxTimingSetupReq" => Parse(m, c) = m
<1>1. c = Endless => c.class = "Endless"
  BY DEF Endless
<1> QED BY <1>1 DEF Parse

LEMMA Classes ==
  ASSUME NEW c \in Request
  PROVE  \/ c \in LinkCheckAns /\ c.class = "LinkCheckAns"
         \/ c \in LinkAdrReq /\ c.class = "LinkAdrReq"
         \/ c \in DutyCycleReq /\ c.class = "DutyCycleReq"
         \/ c \in RxParamSetupReq /\ c.class = "RxParamSetupReq"
         \/ c \in DevStatusReq /\ c.class = "DevStatusReq"
         \/ c \in NewChannelReq /\ c.class = "NewChannelReq"
         \/ c \in RxTimingSetupReq /\ c.class = "RxTimingSetupReq"
BY DEF Request, LinkCheckAns, LinkAdrReq, DutyCycleReq, RxParamSetupReq, DevStatusReq,
       NewChannelReq, RxTimingSetupReq

(* One turn of the loop of ParseCommands: every request, with any values   *)
(* in its fields, leaves a MAC that has reported what it set or, after a   *)
(* dangerous one, may have failed.  One that is not dangerous leaves a     *)
(* MAC that is alive and has an enabled channel for its data rate so.      *)
THEOREM CommandIsSafe ==
  ASSUME NEW m \in Mac, ~ m.failed, NEW c \in Request
  PROVE  Carried(m, c, Parse(m, c))
<1>1. CASE c \in RxTimingSetupReq /\ c.class = "RxTimingSetupReq"
  <2>1. Parse(m, c) = m
    BY <1>1, Dispatch
  <2>2. Reported(m, c, m)
    BY <1>1 DEF Reported, Unanswered
  <2> QED BY <2>1, <2>2 DEF Carried
<1> QED BY <1>1, Classes, Dispatch, LinkCheckIsCarried, LinkAdrIsCarried,
           DutyCycleIsCarried, RxParamSetupIsCarried, DevStatusIsCarried,
           NewChannelIsCarried

-----------------------------------------------------------------------------
(* Every non-empty set of naturals has a least element. *)
LEMMA Least ==
  ASSUME NEW T, T \subseteq Nat, T # {}
  PROVE  \E n \in T : \A k \in T : n <= k
<1> DEFINE R == {ss \in Nat \X Nat : ss[1] < ss[2]}
<1>1. IsWellFoundedOn(R, Nat)
  BY NatLessThanWellFounded DEF OpToRel
<1>2. PICK n \in T : \A k \in T : ~ (<<k, n>> \in R)
  <2> HIDE DEF R
  <2> QED BY <1>1, WFMin
<1>3. \A k \in T : k < n => <<k, n>> \in R
  OBVIOUS
<1>4. \A k \in T : ~ (k < n)
  BY <1>2, <1>3
<1> QED BY <1>4

(* Induction up to n, over a set of numbers. *)
LEMMA UpTo ==
  ASSUME NEW n \in Nat, NEW S, 0 \in S, \A k \in 1..n : k - 1 \in S => k \in S
  PROVE  \A k \in 0..n : k \in S
<1> DEFINE T == {k \in 0..n : k \notin S}
<1> SUFFICES ASSUME T # {}
             PROVE  FALSE
  OBVIOUS
<1>1. PICK k \in T : \A j \in T : k <= j
  <2>1. T \subseteq Nat
    OBVIOUS
  <2> HIDE DEF T
  <2> QED BY <2>1, Least
<1>2. k \in 1..n /\ k - 1 \in 0..n /\ ~ (k <= k - 1)
  OBVIOUS
<1> QED BY <1>1, <1>2

LEMMA MaxOfPrefix ==
  ASSUME NEW n \in Nat \ {0}, NEW s \in SUBSET (1..n), n \in s
  PROVE  Max(s) = n
<1>1. \A y \in s : n >= y
  OBVIOUS
<1>2. \A x \in s : (\A y \in s : x >= y) => x = n
  OBVIOUS
<1> QED BY <1>1, <1>2 DEF Max

(* The folds of the model: the loop over the commands of a downlink, the   *)
(* requests that wait for an answer, what the server concludes, and the    *)
(* length of the commands in a frame.                                      *)
Turn(fold, x, i, commands, answers) ==
  CASE fold = "parse" -> Parse(x, commands[i])
    [] fold = "ask" -> Ask(x, commands[i])
    [] fold = "believe" -> IF i > Len(answers) THEN x
                           ELSE Conclude(x, commands[i], answers[i])
    [] fold = "length" -> (x + SerializedSize[commands[i].class]) % 256

Folds(fold, iter, base, commands, answers, S) ==
  iter = [s \in SUBSET S |->
            IF s = {} THEN base
            ELSE Turn(fold, iter[s \ {Max(s)}], Max(s), commands, answers)]

LEMMA FoldExists ==
  ASSUME NEW fold, NEW base, NEW commands, NEW answers, NEW n \in Nat
  PROVE  \E iter : Folds(fold, iter, base, commands, answers, 1..n)
<1> DEFINE S == {k \in 0..n : \E iter : Folds(fold, iter, base, commands, answers, 1..k)}
<1>1. 0 \in S
  <2> DEFINE f == [s \in SUBSET (1..0) |-> base]
  <2>1. SUBSET (1..0) = {{}}
    OBVIOUS
  <2>2. Folds(fold, f, base, commands, answers, 1..0)
    BY <2>1 DEF Folds
  <2> QED BY <2>2
<1>2. ASSUME NEW k \in 1..n, k - 1 \in S
      PROVE  k \in S
  <2>1. PICK f : Folds(fold, f, base, commands, answers, 1..k - 1)
    BY <1>2
  <2> DEFINE g == [s \in SUBSET (1..k) |->
                     IF k \in s THEN Turn(fold, f[s \ {k}], k, commands, answers) ELSE f[s]]
  <2>2. ASSUME NEW s \in SUBSET (1..k)
        PROVE  g[s] = IF s = {} THEN base
                      ELSE Turn(fold, g[s \ {Max(s)}], Max(s), commands, answers)
    <3>1. CASE k \in s
      <4>1. Max(s) = k
        BY <3>1, MaxOfPrefix
      <4>2. s \ {k} \in SUBSET (1..k) /\ k \notin s \ {k}
        OBVIOUS
      <4>3. g[s \ {k}] = f[s \ {k}]
        BY <4>2
      <4> QED BY <3>1, <4>1, <4>3
    <3>2. CASE k \notin s
      <4>1. s \in SUBSET (1..k - 1)
        BY <3>2
      <4>2. f[s] = IF s = {} THEN base
                   ELSE Turn(fold, f[s \ {Max(s)}], Max(s), commands, answers)
        BY <2>1, <4>1 DEF Folds
      <4>3. g[s] = f[s] /\ g[s \ {Max(s)}] = f[s \ {Max(s)}]
        BY <3>2
      <4> QED BY <4>2, <4>3
    <3> QED BY <3>1, <3>2
  <2>3. Folds(fold, g, base, commands, answers, 1..k)
    BY <2>2 DEF Folds
  <2> QED BY <2>3
<1>3. \A k \in 0..n : k \in S
  <2> HIDE DEF S
  <2> QED BY <1>1, <1>2, UpTo
<1> QED BY <1>3

(* The values of a fold, one turn after the other. *)
Turns(fold, w, base, commands, answers, n) ==
  /\ w[0] = base
  /\ \A k \in 1..n : w[k] = Turn(fold, w[k - 1], k, commands, answers)

LEMMA FoldTurns ==
  ASSUME NEW fold, NEW iter, NEW base, NEW commands, NEW answers, NEW n \in Nat,
         Folds(fold, iter, base, commands, answers, 1..n)
  PROVE  \E w : Turns(fold, w, base, commands, answers, n) /\ w[n] = iter[1..n]
<1> DEFINE w == [k \in 0..n |-> iter[1..k]]
<1>1. w[0] = base
  <2>1. 1..0 = {} /\ {} \in SUBSET (1..n)
    OBVIOUS
  <2>2. iter[{}] = base
    BY <2>1 DEF Folds
  <2> QED BY <2>1, <2>2
<1>2. ASSUME NEW k \in 1..n
      PROVE  w[k] = Turn(fold, w[k - 1], k, commands, answers)
  <2>1. (1..k) \in SUBSET (1..n) /\ 1..k # {} /\ (1..k) \ {k} = 1..k - 1
    OBVIOUS
  <2>2. Max(1..k) = k
    BY MaxOfPrefix
  <2>3. iter[1..k] = Turn(fold, iter[(1..k) \ {Max(1..k)}], Max(1..k), commands, answers)
    BY <2>1 DEF Folds
  <2>4. iter[1..k] = Turn(fold, iter[1..k - 1], k, commands, answers)
    BY <2>1, <2>2, <2>3
  <2> QED BY <2>4
<1>3. w[n] = iter[1..n]
  OBVIOUS
<1> HIDE DEF w
<1>4. Turns(fold, w, base, commands, answers, n)
  BY <1>1, <1>2 DEF Turns
<1> QED BY <1>3, <1>4

ParseFolds(iter, m, commands, S) ==
  iter = [s \in SUBSET S |->
            IF s = {} THEN m ELSE Parse(iter[s \ {Max(s)}], commands[Max(s)])]

Parses(w, m, commands, n) ==
  /\ w[0] = m /\ ParseCommands(m, commands) = w[n]
  /\ \A k \in 1..n : w[k] = Parse(w[k - 1], commands[k])

LEMMA ParseTurns ==
  ASSUME NEW m, NEW commands, NEW n \in Nat, DOMAIN commands = 1..n
  PROVE  \E w : Parses(w, m, commands, n)
<1>1. ParseCommands(m, commands)
        = (CHOOSE iter : ParseFolds(iter, m, commands, DOMAIN commands))[DOMAIN commands]
  BY DEF ParseCommands, FoldLeft, MapThenFoldSet, ParseFolds
<1>2. \A iter : ParseFolds(iter, m, commands, 1..n)
                  <=> Folds("parse", iter, m, commands, << >>, 1..n)
  BY DEF ParseFolds, Folds, Turn
<1>3. PICK iter : /\ ParseFolds(iter, m, commands, 1..n)
                  /\ ParseCommands(m, commands) = iter[1..n]
  BY <1>1, <1>2, FoldExists
<1>4. PICK w : /\ Turns("parse", w, m, commands, << >>, n)
               /\ w[n] = iter[1..n]
  BY <1>2, <1>3, FoldTurns
<1>5. Parses(w, m, commands, n)
  BY <1>3, <1>4 DEF Turns, Turn, Parses
<1> QED BY <1>5

AskFolds(iter, waiting, commands, S) ==
  iter = [s \in SUBSET S |->
            IF s = {} THEN waiting ELSE Ask(iter[s \ {Max(s)}], commands[Max(s)])]

Asks(w, waiting, commands, n) ==
  /\ w[0] = waiting /\ AskAll(waiting, commands) = w[n]
  /\ \A k \in 1..n : w[k] = Ask(w[k - 1], commands[k])

LEMMA AskTurns ==
  ASSUME NEW waiting, NEW commands, NEW n \in Nat, DOMAIN commands = 1..n
  PROVE  \E w : Asks(w, waiting, commands, n)
<1>1. AskAll(waiting, commands)
        = (CHOOSE iter : AskFolds(iter, waiting, commands, DOMAIN commands))[DOMAIN commands]
  BY DEF AskAll, FoldLeft, MapThenFoldSet, AskFolds
<1>2. \A iter : AskFolds(iter, waiting, commands, 1..n)
                  <=> Folds("ask", iter, waiting, commands, << >>, 1..n)
  BY DEF AskFolds, Folds, Turn
<1>3. PICK iter : /\ AskFolds(iter, waiting, commands, 1..n)
                  /\ AskAll(waiting, commands) = iter[1..n]
  BY <1>1, <1>2, FoldExists
<1>4. PICK w : /\ Turns("ask", w, waiting, commands, << >>, n)
               /\ w[n] = iter[1..n]
  BY <1>2, <1>3, FoldTurns
<1>5. Asks(w, waiting, commands, n)
  BY <1>3, <1>4 DEF Turns, Turn, Asks
<1> QED BY <1>5

LengthFolds(iter, commands, S) ==
  iter = [s \in SUBSET S |->
            IF s = {} THEN 0
            ELSE (iter[s \ {Max(s)}] + SerializedSize[commands[Max(s)].class]) % 256]

(* The lengths of the first k commands *)
Lengths(w, commands, n) ==
  /\ w[0] = 0 /\ FOptsLen(commands) = w[n]
  /\ \A k \in 1..n : w[k] = (w[k - 1] + SerializedSize[commands[k].class]) % 256

LEMMA LengthTurns ==
  ASSUME NEW commands, NEW n \in Nat, DOMAIN commands = 1..n
  PROVE  \E w : Lengths(w, commands, n)
<1>1. FOptsLen(commands)
        = (CHOOSE iter : LengthFolds(iter, commands, DOMAIN commands))[DOMAIN commands]
  BY DEF FOptsLen, FoldLeft, MapThenFoldSet, LengthFolds
<1>2. \A iter : LengthFolds(iter, commands, 1..n)
                  <=> Folds("length", iter, 0, commands, << >>, 1..n)
  BY DEF LengthFolds, Folds, Turn
<1>3. PICK iter : /\ LengthFolds(iter, commands, 1..n)
                  /\ FOptsLen(commands) = iter[1..n]
  BY <1>1, <1>2, FoldExists
<1>4. PICK w : /\ Turns("length", w, 0, commands, << >>, n)
               /\ w[n] = iter[1..n]
  BY <1>2, <1>3, FoldTurns
<1>5. Lengths(w, commands, n)
  BY <1>3, <1>4 DEF Turns, Turn, Lengths
<1> QED BY <1>5

BelieveFolds(iter, v, requests, answers, index, S) ==
  iter = [s \in SUBSET S |->
            IF s = {} THEN v
            ELSE IF index[Max(s)] > Len(answers) THEN iter[s \ {Max(s)}]
                 ELSE Conclude(iter[s \ {Max(s)}], requests[index[Max(s)]],
                               answers[index[Max(s)]])]

(* The server's view after k of the answers *)
Beliefs(w, v, requests, answers, n) ==
  /\ w[0] = v /\ Believe(v, requests, answers) = w[n]
  /\ \A k \in 1..n : w[k] = IF k > Len(answers) THEN w[k - 1]
                            ELSE Conclude(w[k - 1], requests[k], answers[k])

LEMMA BelieveTurns ==
  ASSUME NEW v, NEW requests, NEW answers, NEW n \in Nat, DOMAIN requests = 1..n
  PROVE  \E w : Beliefs(w, v, requests, answers, n)
<1> DEFINE index == [i \in DOMAIN requests |-> i]
<1>1. Believe(v, requests, answers)
        = (CHOOSE iter : BelieveFolds(iter, v, requests, answers, index, DOMAIN index))
            [DOMAIN index]
  BY DEF Believe, FoldLeftDomain, FoldLeft, MapThenFoldSet, BelieveFolds
<1>2. DOMAIN index = 1..n /\ \A i \in 1..n : index[i] = i
  OBVIOUS
<1> HIDE DEF index
<1>3. ASSUME NEW s \in SUBSET (1..n), s # {}
      PROVE  Max(s) \in 1..n
  <2> DEFINE T == {j \in 0..n : n - j \in s}
  <2>1. T \subseteq Nat /\ T # {}
    <3>1. PICK i : i \in s /\ i \in 1..n
      BY <1>3
    <3>2. n - i \in 0..n /\ n - (n - i) = i
      BY <3>1
    <3>3. n - i \in T
      BY <3>1, <3>2
    <3> QED BY <3>3
  <2>2. PICK t \in T : \A j \in T : t <= j
    <3> HIDE DEF T
    <3> QED BY <2>1, Least
  <2>3. t \in 0..n /\ n - t \in s
    OBVIOUS
  <2>4. ASSUME NEW j \in s
        PROVE  n - t >= j
    <3>1. j \in 1..n /\ n - j \in 0..n /\ n - (n - j) = j
      OBVIOUS
    <3>2. n - j \in T
      BY <3>1
    <3>3. t <= n - j
      BY <2>2, <3>2
    <3> QED BY <2>3, <3>1, <3>3
  <2> HIDE DEF T
  <2>5. Max(s) \in s
    BY <2>3, <2>4 DEF Max
  <2> QED BY <2>5
<1>4. \A iter : BelieveFolds(iter, v, requests, answers, index, 1..n)
                  <=> Folds("believe", iter, v, requests, answers, 1..n)
  <2> SUFFICES ASSUME NEW iter, NEW s \in SUBSET (1..n)
               PROVE  (IF s = {} THEN v
                       ELSE IF index[Max(s)] > Len(answers) THEN iter[s \ {Max(s)}]
                            ELSE Conclude(iter[s \ {Max(s)}], requests[index[Max(s)]],
                                          answers[index[Max(s)]]))
                      = (IF s = {} THEN v
                         ELSE Turn("believe", iter[s \ {Max(s)}], Max(s), requests, answers))
    BY DEF BelieveFolds, Folds
  <2> QED BY <1>2, <1>3 DEF Turn
<1>5. PICK iter : /\ BelieveFolds(iter, v, requests, answers, index, 1..n)
                  /\ Believe(v, requests, answers) = iter[1..n]
  <2>1. \E iter : BelieveFolds(iter, v, requests, answers, index, 1..n)
    BY <1>4, FoldExists
  <2>2. Believe(v, requests, answers)
          = (CHOOSE iter : BelieveFolds(iter, v, requests, answers, index, 1..n))[1..n]
    BY <1>1, <1>2
  <2> QED BY <2>1, <2>2
<1>6. PICK w : /\ Turns("believe", w, v, requests, answers, n)
               /\ w[n] = iter[1..n]
  BY <1>4, <1>5, FoldTurns
<1>7. Beliefs(w, v, requests, answers, n)  BY <1>5, <1>6 DEF Turns, Turn, Beliefs
<1> QED BY <1>7

-----------------------------------------------------------------------------
(* A command whose bytes the receiver takes for one of its class, and      *)
(* after which it looks for the next one in the right place.               *)
Known(classes, c) ==
  /\ Serialize(c) \in Seq(Nat) /\ Len(Serialize(c)) = SerializedSize[c.class]
  /\ SerializedSize[c.class] \in 1..6
  /\ Serialize(c)[1] = CID[c.class]
  /\ CID[c.class] \in 2..Len(classes)
  /\ classes[CID[c.class]] = c.class

LEMMA BytesOf ==
  ASSUME NEW n \in Nat
  PROVE  n % 256 \in Nat /\ n \div 256 \in Nat /\ n \div 65536 \in Nat /\ n \div 100 \in Nat
BY SMT

LEMMA FrequencyIsBytes ==
  ASSUME NEW f \in Frequencies
  PROVE  /\ FrequencyBytes(f)[1] \in Nat /\ FrequencyBytes(f)[2] \in Nat
         /\ FrequencyBytes(f)[3] \in Nat
<1>1. f[1] \in Nat
  BY DEF Frequencies
<1> DEFINE code == f[1] \div 100
<1>2. code \in Nat
  BY <1>1, BytesOf
<1>3. FrequencyBytes(f) = <<(code \div 65536) % 256, (code \div 256) % 256, code % 256>>
  BY DEF FrequencyBytes
<1> HIDE DEF code
<1>4. code \div 65536 \in Nat /\ code \div 256 \in Nat
  BY <1>2, BytesOf
<1>5. (code \div 65536) % 256 \in Nat /\ (code \div 256) % 256 \in Nat /\ code % 256 \in Nat
  BY <1>2, <1>4, BytesOf
<1> QED BY <1>3, <1>5

(* The CIDs and lengths of the classes *)
LEMMA RequestCodes ==
  /\ CID["LinkCheckAns"] = 2 /\ SerializedSize["LinkCheckAns"] = 3
  /\ CID["LinkAdrReq"] = 3 /\ SerializedSize["LinkAdrReq"] = 5
  /\ CID["DutyCycleReq"] = 4 /\ SerializedSize["DutyCycleReq"] = 2
  /\ CID["RxParamSetupReq"] = 5 /\ SerializedSize["RxParamSetupReq"] = 5
  /\ CID["DevStatusReq"] = 6 /\ SerializedSize["DevStatusReq"] = 1
  /\ CID["NewChannelReq"] = 7 /\ SerializedSize["NewChannelReq"] = 6
  /\ CID["RxTimingSetupReq"] = 8 /\ SerializedSize["RxTimingSetupReq"] = 2
BY DEF CID, SerializedSize

LEMMA AnswerCodes ==
  /\ CID["LinkAdrAns"] = 3 /\ SerializedSize["LinkAdrAns"] = 2
  /\ CID["DutyCycleAns"] = 4 /\ SerializedSize["DutyCycleAns"] = 1
  /\ CID["RxParamSetupAns"] = 5 /\ SerializedSize["RxParamSetupAns"] = 2
  /\ CID["DevStatusAns"] = 6 /\ SerializedSize["DevStatusAns"] = 3
  /\ CID["NewChannelAns"] = 7 /\ SerializedSize["NewChannelAns"] = 2
BY DEF CID, SerializedSize

LEMMA Tabled ==
  /\ Len(DownlinkClass) = 9 /\ Len(UplinkClass) = 10
  /\ DownlinkClass[2] = "LinkCheckAns" /\ DownlinkClass[3] = "LinkAdrReq"
  /\ DownlinkClass[4] = "DutyCycleReq" /\ DownlinkClass[5] = "RxParamSetupReq"
  /\ DownlinkClass[6] = "DevStatusReq" /\ DownlinkClass[7] = "NewChannelReq"
  /\ DownlinkClass[8] = "RxTimingSetupReq"
  /\ UplinkClass[3] = "LinkAdrAns" /\ UplinkClass[4] = "DutyCycleAns"
  /\ UplinkClass[5] = "RxParamSetupAns" /\ UplinkClass[6] = "DevStatusAns"
  /\ UplinkClass[7] = "NewChannelAns"
BY DEF UplinkClass, DownlinkClass

(* A command of one to six bytes whose first one is its CID *)
LEMMA KnownBytes ==
  ASSUME NEW classes, NEW c, Data(c) \in Seq(Nat),
         CID[c.class] \in 2..Len(classes), CID[c.class] \in Nat,
         classes[CID[c.class]] = c.class,
         SerializedSize[c.class] = Len(Data(c)) + 1, Len(Data(c)) <= 5
  PROVE  Known(classes, c)
<1> DEFINE cid == CID[c.class]
           data == Data(c)
<1>1. Serialize(c) = <<cid>> \o data
  BY DEF Serialize
<1>2. cid \in Nat /\ <<cid>> \in Seq(Nat) /\ data \in Seq(Nat)
  OBVIOUS
<1>3. SerializedSize[c.class] = Len(data) + 1 /\ Len(data) <= 5
  OBVIOUS
<1> HIDE DEF cid, data
<1>4. /\ Serialize(c) \in Seq(Nat) /\ Len(Serialize(c)) = Len(data) + 1
      /\ Serialize(c)[1] = cid
  BY <1>1, <1>2
<1>5. Len(data) \in Nat
  BY <1>2
<1>6. SerializedSize[c.class] \in 1..6
  <2> DEFINE size == SerializedSize[c.class]
             l == Len(data)
  <2>1. size = l + 1 /\ l <= 5 /\ l \in Nat
    BY <1>3, <1>5
  <2> HIDE DEF size, l
  <2>2. size \in 1..6
    BY <2>1, SMTT(30)
  <2> QED BY <2>2 DEF size
<1>7. Len(Serialize(c)) = SerializedSize[c.class]
  BY <1>3, <1>4
<1> QED BY <1>4, <1>6, <1>7 DEF Known, cid

LEMMA RequestIsKnown ==
  ASSUME NEW c \in Request
  PROVE  Known(DownlinkClass, c)
<1>1. CASE c \in LinkCheckAns
  <2>1. c.class = "LinkCheckAns" /\ c.margin \in Nat /\ c.gwCnt \in Nat
    BY <1>1 DEF LinkCheckAns, Byte
  <2>2. Data(c) = <<c.margin, c.gwCnt>>
    BY <2>1 DEF Data
  <2>3. Data(c) \in Seq(Nat) /\ Len(Data(c)) = 2
    BY <2>1, <2>2
  <2>4. /\ CID[c.class] = 2 /\ SerializedSize[c.class] = 3
        /\ DownlinkClass[2] = c.class
    BY <2>1, RequestCodes, Tabled
  <2>5. SerializedSize[c.class] = Len(Data(c)) + 1 /\ Len(Data(c)) <= 5
    BY <2>3, <2>4
  <2>6. /\ CID[c.class] \in 2..Len(DownlinkClass) /\ CID[c.class] \in Nat
        /\ DownlinkClass[CID[c.class]] = c.class
    BY <2>4, Tabled
  <2> QED BY <2>3, <2>5, <2>6, KnownBytes
<1>2. CASE c \in LinkAdrReq
  <2>1. c.class = "LinkAdrReq" /\ c.channelMask \in Nat /\ c.dataRate \in Nibble
        /\ c.txPower \in Nibble /\ c.chMaskCntl \in Nibble /\ c.nbRep \in Nibble
    BY <1>2 DEF LinkAdrReq, Words
  <2> DEFINE x == Nibbles(c.dataRate, c.txPower)
             y == c.channelMask % 256
             z == (c.channelMask \div 256) % 256
             u == Nibbles(c.chMaskCntl, c.nbRep)
  <2>2. Data(c) = <<x, y, z, u>>
    BY <2>1 DEF Data, LinkAdrReqData, U16Bytes
  <2>3. x \in Nat /\ y \in Nat /\ z \in Nat /\ u \in Nat
    <3> DEFINE high == c.channelMask \div 256
    <3>1. y \in Nat /\ z \in Nat
      <4>1. high \in Nat /\ y \in Nat
        BY <2>1, BytesOf
      <4> HIDE DEF high
      <4>2. high % 256 \in Nat
        BY <4>1, BytesOf
      <4> QED BY <4>1, <4>2 DEF high
    <3>2. x \in Byte
      BY <2>1, NibblesApart
    <3>3. u \in Byte
      BY <2>1, NibblesApart
    <3> QED BY <3>1, <3>2, <3>3 DEF Byte
  <2> HIDE DEF x, y, z, u
  <2>4. Data(c) \in Seq(Nat) /\ Len(Data(c)) = 4
    BY <2>1, <2>2, <2>3
  <2>5. /\ CID[c.class] = 3 /\ SerializedSize[c.class] = 5
        /\ DownlinkClass[3] = c.class
    BY <2>1, RequestCodes, Tabled
  <2>6. SerializedSize[c.class] = Len(Data(c)) + 1 /\ Len(Data(c)) <= 5
    BY <2>4, <2>5
  <2>7. /\ CID[c.class] \in 2..Len(DownlinkClass) /\ CID[c.class] \in Nat
        /\ DownlinkClass[CID[c.class]] = c.class
    BY <2>5, Tabled
  <2> QED BY <2>4, <2>6, <2>7, KnownBytes
<1>3. CASE c \in DutyCycleReq
  <2>1. c.class = "DutyCycleReq" /\ c.maxDCycle \in Nat
    BY <1>3 DEF DutyCycleReq, Byte
  <2>2. Data(c) = <<c.maxDCycle>>
    BY <2>1 DEF Data
  <2>3. Data(c) \in Seq(Nat) /\ Len(Data(c)) = 1
    BY <2>1, <2>2
  <2>4. /\ CID[c.class] = 4 /\ SerializedSize[c.class] = 2
        /\ DownlinkClass[4] = c.class
    BY <2>1, RequestCodes, Tabled
  <2>5. SerializedSize[c.class] = Len(Data(c)) + 1 /\ Len(Data(c)) <= 5
    BY <2>3, <2>4
  <2>6. /\ CID[c.class] \in 2..Len(DownlinkClass) /\ CID[c.class] \in Nat
        /\ DownlinkClass[CID[c.class]] = c.class
    BY <2>4, Tabled
  <2> QED BY <2>3, <2>5, <2>6, KnownBytes
<1>4. CASE c \in RxParamSetupReq
  <2>1. c.class = "RxParamSetupReq" /\ c.frequency \in Frequencies
        /\ c.rx1DrOffset % 8 \in Nibble /\ c.rx2DataRate \in Nibble
    BY <1>4 DEF RxParamSetupReq, Nibble
  <2> DEFINE x == Nibbles(c.rx1DrOffset % 8, c.rx2DataRate)
             y == FrequencyBytes(c.frequency)[1]
             z == FrequencyBytes(c.frequency)[2]
             u == FrequencyBytes(c.frequency)[3]
  <2>2. Data(c) = <<x, y, z, u>>
    BY <2>1 DEF Data, RxParamSetupReqData
  <2>3. x \in Nat /\ y \in Nat /\ z \in Nat /\ u \in Nat
    BY <2>1, NibblesApart, FrequencyIsBytes DEF Byte
  <2> HIDE DEF x, y, z, u
  <2>4. Data(c) \in Seq(Nat) /\ Len(Data(c)) = 4
    BY <2>1, <2>2, <2>3
  <2>5. /\ CID[c.class] = 5 /\ SerializedSize[c.class] = 5
        /\ DownlinkClass[5] = c.class
    BY <2>1, RequestCodes, Tabled
  <2>6. SerializedSize[c.class] = Len(Data(c)) + 1 /\ Len(Data(c)) <= 5
    BY <2>4, <2>5
  <2>7. /\ CID[c.class] \in 2..Len(DownlinkClass) /\ CID[c.class] \in Nat
        /\ DownlinkClass[CID[c.class]] = c.class
    BY <2>5, Tabled
  <2> QED BY <2>4, <2>6, <2>7, KnownBytes
<1>5. CASE c \in DevStatusReq
  <2>1. c.class = "DevStatusReq"
    BY <1>5 DEF DevStatusReq
  <2>2. Data(c) = << >>
    BY <2>1 DEF Data
  <2>3. Data(c) \in Seq(Nat) /\ Len(Data(c)) = 0
    BY <2>1, <2>2
  <2>4. /\ CID[c.class] = 6 /\ SerializedSize[c.class] = 1
        /\ DownlinkClass[6] = c.class
    BY <2>1, RequestCodes, Tabled
  <2>5. SerializedSize[c.class] = Len(Data(c)) + 1 /\ Len(Data(c)) <= 5
    BY <2>3, <2>4
  <2>6. /\ CID[c.class] \in 2..Len(DownlinkClass) /\ CID[c.class] \in Nat
        /\ DownlinkClass[CID[c.class]] = c.class
    BY <2>4, Tabled
  <2> QED BY <2>3, <2>5, <2>6, KnownBytes
<1>6. CASE c \in NewChannelReq
  <2>1. c.class = "NewChannelReq" /\ c.chIndex \in Nat /\ c.frequency \in Frequencies
        /\ c.maxDataRate \in Nibble /\ c.minDataRate \in Nibble
    BY <1>6 DEF NewChannelReq, Byte
  <2> DEFINE x == Nibbles(c.maxDataRate, c.minDataRate)
             y == FrequencyBytes(c.frequency)[1]
             z == FrequencyBytes(c.frequency)[2]
             u == FrequencyBytes(c.frequency)[3]
  <2>2. Data(c) = <<c.chIndex, y, z, u, x>>
    BY <2>1 DEF Data, NewChannelReqData
  <2>3. x \in Nat /\ y \in Nat /\ z \in Nat /\ u \in Nat
    BY <2>1, NibblesApart, FrequencyIsBytes DEF Byte
  <2> HIDE DEF x, y, z, u
  <2>4. Data(c) \in Seq(Nat) /\ Len(Data(c)) = 5
    BY <2>1, <2>2, <2>3
  <2>5. /\ CID[c.class] = 7 /\ SerializedSize[c.class] = 6
        /\ DownlinkClass[7] = c.class
    BY <2>1, RequestCodes, Tabled
  <2>6. SerializedSize[c.class] = Len(Data(c)) + 1 /\ Len(Data(c)) <= 5
    BY <2>4, <2>5
  <2>7. /\ CID[c.class] \in 2..Len(DownlinkClass) /\ CID[c.class] \in Nat
        /\ DownlinkClass[CID[c.class]] = c.class
    BY <2>5, Tabled
  <2> QED BY <2>4, <2>6, <2>7, KnownBytes
<1>7. CASE c \in RxTimingSetupReq
  <2>1. c.class = "RxTimingSetupReq" /\ c.delay % 16 \in Nat
    BY <1>7 DEF RxTimingSetupReq, Nibble
  <2>2. Data(c) = <<c.delay % 16>>
    BY <2>1 DEF Data
  <2>3. Data(c) \in Seq(Nat) /\ Len(Data(c)) = 1
    BY <2>1, <2>2
  <2>4. /\ CID[c.class] = 8 /\ SerializedSize[c.class] = 2
        /\ DownlinkClass[8] = c.class
    BY <2>1, RequestCodes, Tabled
  <2>5. SerializedSize[c.class] = Len(Data(c)) + 1 /\ Len(Data(c)) <= 5
    BY <2>3, <2>4
  <2>6. /\ CID[c.class] \in 2..Len(DownlinkClass) /\ CID[c.class] \in Nat
        /\ DownlinkClass[CID[c.class]] = c.class
    BY <2>4, Tabled
  <2> QED BY <2>3, <2>5, <2>6, KnownBytes
<1> QED BY <1>1, <1>2, <1>3, <1>4, <1>5, <1>6, <1>7 DEF Request

LEMMA AnswerIsKnown ==
  ASSUME NEW c \in Answers
  PROVE  Known(UplinkClass, c)
<1>1. \A a \in BOOLEAN : Flag(a) \in Nat
  BY DEF Flag
<1>2. CASE c \in LinkAdrAns
  <2>1. c.class = "LinkAdrAns" /\ Flag(c.powerAck) \in Nat
        /\ Flag(c.dataRateAck) \in Nat /\ Flag(c.channelMaskAck) \in Nat
    BY <1>1, <1>2 DEF LinkAdrAns
  <2>2. Data(c) = <<4 * Flag(c.powerAck) + 2 * Flag(c.dataRateAck) + Flag(c.channelMaskAck)>>
    BY <2>1 DEF Data, LinkAdrAnsData
  <2>3. Data(c) \in Seq(Nat) /\ Len(Data(c)) = 1
    BY <2>1, <2>2
  <2>4. /\ CID[c.class] = 3 /\ SerializedSize[c.class] = 2
        /\ UplinkClass[3] = c.class
    BY <2>1, AnswerCodes, Tabled
  <2>5. SerializedSize[c.class] = Len(Data(c)) + 1 /\ Len(Data(c)) <= 5
    BY <2>3, <2>4
  <2>6. /\ CID[c.class] \in 2..Len(UplinkClass) /\ CID[c.class] \in Nat
        /\ UplinkClass[CID[c.class]] = c.class
    BY <2>4, Tabled
  <2> QED BY <2>3, <2>5, <2>6, KnownBytes
<1>3. CASE c \in RxParamSetupAns
  <2>1. c.class = "RxParamSetupAns" /\ Flag(c.rx1DrOffsetAck) \in Nat
        /\ Flag(c.rx2DataRateAck) \in Nat /\ Flag(c.channelAck) \in Nat
    BY <1>1, <1>3 DEF RxParamSetupAns
  <2>2. Data(c) = <<4 * Flag(c.rx1DrOffsetAck) + 2 * Flag(c.rx2DataRateAck) + Flag(c.channelAck)>>
    BY <2>1 DEF Data, RxParamSetupAnsData
  <2>3. Data(c) \in Seq(Nat) /\ Len(Data(c)) = 1
    BY <2>1, <2>2
  <2>4. /\ CID[c.class] = 5 /\ SerializedSize[c.class] = 2
        /\ UplinkClass[5] = c.class
    BY <2>1, AnswerCodes, Tabled
  <2>5. SerializedSize[c.class] = Len(Data(c)) + 1 /\ Len(Data(c)) <= 5
    BY <2>3, <2>4
  <2>6. /\ CID[c.class] \in 2..Len(UplinkClass) /\ CID[c.class] \in Nat
        /\ UplinkClass[CID[c.class]] = c.class
    BY <2>4, Tabled
  <2> QED BY <2>3, <2>5, <2>6, KnownBytes
<1>4. CASE c \in DutyCycleAns
  <2>1. c.class = "DutyCycleAns"
    BY <1>4 DEF DutyCycleAns
  <2>2. Data(c) = << >>
    BY <2>1 DEF Data
  <2>3. Data(c) \in Seq(Nat) /\ Len(Data(c)) = 0
    BY <2>1, <2>2
  <2>4. /\ CID[c.class] = 4 /\ SerializedSize[c.class] = 1
        /\ UplinkClass[4] = c.class
    BY <2>1, AnswerCodes, Tabled
  <2>5. SerializedSize[c.class] = Len(Data(c)) + 1 /\ Len(Data(c)) <= 5
    BY <2>3, <2>4
  <2>6. /\ CID[c.class] \in 2..Len(UplinkClass) /\ CID[c.class] \in Nat
        /\ UplinkClass[CID[c.class]] = c.class
    BY <2>4, Tabled
  <2> QED BY <2>3, <2>5, <2>6, KnownBytes
<1>5. CASE c \in DevStatusAns
  <2>1. c.class = "DevStatusAns" /\ c.battery \in Nat /\ c.margin \in Nat
    BY <1>5 DEF DevStatusAns, Byte
  <2>2. Data(c) = <<c.battery, c.margin>>
    BY <2>1 DEF Data
  <2>3. Data(c) \in Seq(Nat) /\ Len(Data(c)) = 2
    BY <2>1, <2>2
  <2>4. /\ CID[c.class] = 6 /\ SerializedSize[c.class] = 3
        /\ UplinkClass[6] = c.class
    BY <2>1, AnswerCodes, Tabled
  <2>5. SerializedSize[c.class] = Len(Data(c)) + 1 /\ Len(Data(c)) <= 5
    BY <2>3, <2>4
  <2>6. /\ CID[c.class] \in 2..Len(UplinkClass) /\ CID[c.class] \in Nat
        /\ UplinkClass[CID[c.class]] = c.class
    BY <2>4, Tabled
  <2> QED BY <2>3, <2>5, <2>6, KnownBytes
<1>6. CASE c \in NewChannelAns
  <2>1. c.class = "NewChannelAns" /\ Flag(c.dataRateRangeOk) \in Nat
        /\ Flag(c.channelFrequencyOk) \in Nat
    BY <1>1, <1>6 DEF NewChannelAns
  <2>2. Data(c) = <<2 * Flag(c.dataRateRangeOk) + Flag(c.channelFrequencyOk)>>
    BY <2>1 DEF Data, NewChannelAnsData
  <2>3. Data(c) \in Seq(Nat) /\ Len(Data(c)) = 1
    BY <2>1, <2>2
  <2>4. /\ CID[c.class] = 7 /\ SerializedSize[c.class] = 2
        /\ UplinkClass[7] = c.class
    BY <2>1, AnswerCodes, Tabled
  <2>5. SerializedSize[c.class] = Len(Data(c)) + 1 /\ Len(Data(c)) <= 5
    BY <2>3, <2>4
  <2>6. /\ CID[c.class] \in 2..Len(UplinkClass) /\ CID[c.class] \in Nat
        /\ UplinkClass[CID[c.class]] = c.class
    BY <2>4, Tabled
  <2> QED BY <2>3, <2>5, <2>6, KnownBytes
<1> QED BY <1>2, <1>3, <1>4, <1>5, <1>6 DEF Answers

-----------------------------------------------------------------------------
(* FlattenSeq is written with a recursive function. *)
Flattens(f, ss, n) ==
  f = [i \in 1..n |-> IF i = 1 THEN ss[i] ELSE f[i - 1] \o ss[i]]

LEMMA FlattenExists ==
  ASSUME NEW ss, NEW n \in Nat
  PROVE  \E f : Flattens(f, ss, n)
<1> DEFINE S == {k \in 0..n : \E f : Flattens(f, ss, k)}
<1>1. 0 \in S
  <2> DEFINE f == [i \in 1..0 |-> ss[i]]
  <2>1. Flattens(f, ss, 0)
    BY DEF Flattens
  <2> QED BY <2>1
<1>2. ASSUME NEW k \in 1..n, k - 1 \in S
      PROVE  k \in S
  <2>1. PICK f : Flattens(f, ss, k - 1)
    BY <1>2
  <2> DEFINE last == IF k = 1 THEN ss[k] ELSE f[k - 1] \o ss[k]
             g == [i \in 1..k |-> IF i = k THEN last ELSE f[i]]
  <2>2. ASSUME NEW i \in 1..k
        PROVE  g[i] = IF i = 1 THEN ss[i] ELSE g[i - 1] \o ss[i]
    <3>1. CASE i = k
      <4>1. k # 1 => k - 1 \in 1..k /\ k - 1 # k
        OBVIOUS
      <4> QED BY <3>1, <4>1
    <3>2. CASE i # k
      <4>1. i \in 1..k - 1 /\ (i # 1 => i - 1 \in 1..k /\ i - 1 # k)
        BY <3>2
      <4>2. f[i] = IF i = 1 THEN ss[i] ELSE f[i - 1] \o ss[i]
        BY <2>1, <4>1 DEF Flattens
      <4> QED BY <3>2, <4>1, <4>2
    <3> QED BY <3>1, <3>2
  <2> HIDE DEF last
  <2>3. Flattens(g, ss, k)
    BY <2>2 DEF Flattens
  <2> QED BY <2>3
<1>3. \A k \in 0..n : k \in S
  <2> HIDE DEF S
  <2> QED BY <1>1, <1>2, UpTo
<1> QED BY <1>3

(* The parts of a flattened sequence, one behind the other. *)
Parts(F, ss, n) ==
  /\ F[0] = << >> /\ FlattenSeq(ss) = F[n]
  /\ \A k \in 1..n : F[k] = F[k - 1] \o ss[k]
  /\ \A k \in 0..n : F[k] \in Seq(Nat)

LEMMA FlattenTurns ==
  ASSUME NEW n \in Nat, NEW ss \in [1..n -> Seq(Nat)]
  PROVE  \E F : Parts(F, ss, n)
<1>1. Len(ss) = n /\ ss \in Seq(Seq(Nat))
  OBVIOUS
<1>2. FlattenSeq(ss) = IF n = 0 THEN ss ELSE (CHOOSE f : Flattens(f, ss, n))[n]
  <2>1. FlattenSeq(ss) = IF Len(ss) = 0 THEN ss
                         ELSE (CHOOSE f : Flattens(f, ss, Len(ss)))[Len(ss)]
    BY DEF FlattenSeq, Flattens
  <2> QED BY <1>1, <2>1
<1>3. PICK f : Flattens(f, ss, n) /\ (n # 0 => FlattenSeq(ss) = f[n])
  BY <1>2, FlattenExists
<1> DEFINE F == [k \in 0..n |-> IF k = 0 THEN << >> ELSE f[k]]
<1> DEFINE S == {k \in 0..n : F[k] \in Seq(Nat)}
<1>4. F[0] = << >>
  OBVIOUS
<1>5. \A k \in 1..n : f[k] = IF k = 1 THEN ss[k] ELSE f[k - 1] \o ss[k]
  BY <1>3 DEF Flattens
<1>6. ASSUME NEW k \in 1..n
      PROVE  F[k] = F[k - 1] \o ss[k]
  <2>1. CASE k = 1
    <3>1. ss[1] \in Seq(Nat)
      BY <2>1
    <3>2. << >> \o ss[1] = ss[1]
      BY <3>1, ConcatEmptySeq
    <3> QED BY <1>5, <2>1, <3>2
  <2>2. CASE k # 1
    <3>1. F[k - 1] = f[k - 1] /\ F[k] = f[k]
      BY <2>2
    <3> QED BY <1>5, <2>2, <3>1
  <2> QED BY <2>1, <2>2
<1>7. FlattenSeq(ss) = F[n]
  <2>1. CASE n = 0
    <3>1. ss = << >>
      BY <1>1, <2>1
    <3> QED BY <1>2, <2>1, <3>1
  <2>2. CASE n # 0
    BY <1>3, <2>2
  <2> QED BY <2>1, <2>2
<1> HIDE DEF F
<1>8. \A k \in 0..n : k \in S
  <2>1. 0 \in S
    <3>1. F[0] \in Seq(Nat)
      BY <1>4, EmptySeq
    <3> QED BY <3>1
  <2>2. ASSUME NEW k \in 1..n, k - 1 \in S
        PROVE  k \in S
    <3>1. F[k - 1] \in Seq(Nat) /\ ss[k] \in Seq(Nat)
      BY <2>2
    <3>2. F[k] \in Seq(Nat)
      BY <1>6, <3>1, ConcatProperties
    <3> QED BY <3>2
  <2> HIDE DEF S
  <2> QED BY <2>1, <2>2, UpTo
<1>9. \A k \in 0..n : F[k] \in Seq(Nat)
  BY <1>8
<1>10. Parts(F, ss, n)
  BY <1>4, <1>6, <1>7, <1>9 DEF Parts
<1> QED BY <1>10

(* A later part leaves the earlier bytes in their places. *)
Extends(F, j, k) ==
  /\ Len(F[j]) <= Len(F[k]) /\ (j < k => Len(F[j]) < Len(F[k]))
  /\ \A i \in 1..Len(F[j]) : F[k][i] = F[j][i]

LEMMA PartsExtend ==
  ASSUME NEW n \in Nat, NEW ss \in [1..n -> Seq(Nat)], NEW F, Parts(F, ss, n),
         \A k \in 1..n : Len(ss[k]) >= 1
  PROVE  \A k \in 0..n : \A j \in 0..k : Extends(F, j, k)
<1> DEFINE S == {k \in 0..n : \A j \in 0..k : Extends(F, j, k)}
<1>1. /\ \A k \in 0..n : F[k] \in Seq(Nat) /\ Len(F[k]) \in Nat
      /\ \A k \in 1..n : F[k] = F[k - 1] \o ss[k]
  <2>1. /\ \A k \in 0..n : F[k] \in Seq(Nat)
        /\ \A k \in 1..n : F[k] = F[k - 1] \o ss[k]
    BY DEF Parts
  <2>2. \A t \in Seq(Nat) : Len(t) \in Nat
    BY LenProperties
  <2> QED BY <2>1, <2>2
<1>2. 0 \in S
  <2>1. Extends(F, 0, 0)
    BY <1>1 DEF Extends
  <2> QED BY <2>1
<1>3. ASSUME NEW k \in 1..n, k - 1 \in S
      PROVE  k \in S
  <2>1. /\ F[k - 1] \in Seq(Nat) /\ ss[k] \in Seq(Nat) /\ Len(ss[k]) >= 1
        /\ F[k] = F[k - 1] \o ss[k] /\ k - 1 \in 0..n
    <3>1. k - 1 \in 0..n
      OBVIOUS
    <3>2. F[k - 1] \in Seq(Nat) /\ ss[k] \in Seq(Nat)
      BY <1>1, <3>1
    <3> QED BY <1>1, <3>1, <3>2
  <2>2. /\ Len(F[k]) = Len(F[k - 1]) + Len(ss[k])
        /\ \A i \in 1..Len(F[k - 1]) : F[k][i] = F[k - 1][i]
    BY <2>1, ConcatProperties
  <2>3. Len(F[k - 1]) < Len(F[k])
    BY <1>1, <2>1, <2>2
  <2>4. ASSUME NEW j \in 0..k
        PROVE  Extends(F, j, k)
    <3>1. CASE j = k
      BY <1>1, <3>1 DEF Extends
    <3>2. CASE j # k
      <4>1. j \in 0..k - 1 /\ j \in 0..n /\ j < k
        BY <3>2
      <4> DEFINE l == k - 1
      <4>2. /\ Len(F[j]) <= Len(F[l])
            /\ \A i \in 1..Len(F[j]) : F[l][i] = F[j][i]
        BY <1>3, <4>1 DEF Extends
      <4>3. /\ Len(F[j]) \in Nat /\ Len(F[l]) \in Nat /\ Len(F[k]) \in Nat
            /\ Len(F[l]) < Len(F[k])
            /\ \A i \in 1..Len(F[l]) : F[k][i] = F[l][i]
        <5>1. j \in 0..n /\ l \in 0..n /\ k \in 0..n
          BY <2>1, <4>1
        <5>2. Len(F[j]) \in Nat /\ Len(F[l]) \in Nat /\ Len(F[k]) \in Nat
          <6> HIDE DEF l
          <6> QED BY <1>1, <5>1
        <5> QED BY <5>2, <2>2, <2>3
      <4> HIDE DEF l
      <4>4. Len(F[j]) < Len(F[k]) /\ \A i \in 1..Len(F[j]) : F[k][i] = F[j][i]
        <5>1. Len(F[j]) < Len(F[k])
          BY <4>2, <4>3
        <5>2. \A i \in 1..Len(F[j]) : i \in 1..Len(F[l])
          BY <4>2, <4>3
        <5> QED BY <4>2, <4>3, <5>1, <5>2
      <4> QED BY <4>3, <4>4 DEF Extends
    <3> QED BY <3>1, <3>2
  <2> QED BY <2>4
<1>4. \A k \in 0..n : k \in S
  <2> HIDE DEF S
  <2> QED BY <1>2, <1>3, UpTo
<1> QED BY <1>4

-----------------------------------------------------------------------------
(* One turn of the loop of LoraFrameHeader::Deserialize. *)
ReadAt(from, classes, header, byteNumber) ==
  LET byte(i) == IF i <= Len(header.bytes) THEN header.bytes[i] ELSE 0
      cid == byte(byteNumber + 1)
  IN IF byteNumber >= header.fOptsLen THEN << >>
     ELSE IF cid \in 2..Len(classes)
     THEN LET size == SerializedSize[classes[cid]]
              bytes == [i \in 1..size |-> byte(byteNumber + i)]
          IN << Deserialize(classes[cid], bytes) >> \o from[byteNumber + size]
     ELSE << Endless >>

ReadsAs(from, classes, header) ==
  from = [byteNumber \in Nat |-> ReadAt(from, classes, header, byteNumber)]

Reads(from, isUplink, header) ==
  LET class == IF isUplink THEN UplinkClass ELSE DownlinkClass
      byte(i) == IF i <= Len(header.bytes) THEN header.bytes[i] ELSE 0
  IN from = [byteNumber \in Nat |->
       LET cid == byte(byteNumber + 1)
       IN IF byteNumber >= header.fOptsLen THEN << >>
          ELSE IF cid \in 2..Len(class)
          THEN LET size == SerializedSize[class[cid]]
                   bytes == [i \in 1..size |-> byte(byteNumber + i)]
               IN << Deserialize(class[cid], bytes) >> \o from[byteNumber + size]
          ELSE << Endless >>]

LEMMA DeserializeReads ==
  ASSUME NEW isUplink, NEW header
  PROVE  DeserializeHeader(isUplink, header) = (CHOOSE from : Reads(from, isUplink, header))[0]
BY DEF DeserializeHeader, Reads

LEMMA ReadsInBothDirections ==
  ASSUME NEW header
  PROVE  /\ \A from : Reads(from, TRUE, header) <=> ReadsAs(from, UplinkClass, header)
         /\ \A from : Reads(from, FALSE, header) <=> ReadsAs(from, DownlinkClass, header)
BY DEF Reads, ReadsAs, ReadAt

(* A turn looks only ahead. *)
LEMMA ReadsAhead ==
  ASSUME NEW classes, NEW header, NEW b \in Nat, NEW f, NEW g,
         \A cid \in 2..Len(classes) : SerializedSize[classes[cid]] \in 1..6,
         \A n \in Nat : n > b => f[n] = g[n]
  PROVE  ReadAt(f, classes, header, b) = ReadAt(g, classes, header, b)
<1>1. \A cid \in 2..Len(classes) :
        f[b + SerializedSize[classes[cid]]] = g[b + SerializedSize[classes[cid]]]
  <2>1. ASSUME NEW cid \in 2..Len(classes)
        PROVE  f[b + SerializedSize[classes[cid]]] = g[b + SerializedSize[classes[cid]]]
    <3> DEFINE size == SerializedSize[classes[cid]]
    <3>1. size \in 1..6
      OBVIOUS
    <3> HIDE DEF size
    <3>2. b + size \in Nat /\ b + size > b
      BY <3>1
    <3>3. f[b + size] = g[b + size]
      BY <3>2
    <3> QED BY <3>3 DEF size
  <2> QED BY <2>1
<1> QED BY <1>1 DEF ReadAt

LEMMA ReadExists ==
  ASSUME NEW classes, NEW header, header.fOptsLen \in Nat,
         \A cid \in 2..Len(classes) : SerializedSize[classes[cid]] \in 1..6
  PROVE  \E from : ReadsAs(from, classes, header)
<1> DEFINE L == header.fOptsLen
           Right(f, d) == /\ f = [b \in Nat |-> f[b]]
                          /\ \A b \in Nat : b >= L - d => f[b] = ReadAt(f, classes, header, b)
           S == {d \in 0..L : \E f : Right(f, d)}
<1>1. 0 \in S
  <2> DEFINE f == [b \in Nat |-> << >>]
  <2>1. \A b \in Nat : b >= L => ReadAt(f, classes, header, b) = << >>
    BY DEF ReadAt
  <2>2. Right(f, 0)
    BY <2>1
  <2> QED BY <2>2
<1>2. ASSUME NEW d \in 1..L, d - 1 \in S
      PROVE  d \in S
  <2>1. PICK f : Right(f, d - 1)
    BY <1>2
  <2> DEFINE k == L - d
             new == ReadAt(f, classes, header, k)
             g == [b \in Nat |-> IF b = k THEN new ELSE f[b]]
  <2>2. k \in Nat /\ L - (d - 1) = k + 1
    OBVIOUS
  <2> HIDE DEF k, new
  <2>3. ASSUME NEW b \in Nat, b >= k
        PROVE  g[b] = ReadAt(g, classes, header, b)
    <3>1. \A n \in Nat : n > b => f[n] = g[n]
      BY <2>2, <2>3
    <3>2. ReadAt(f, classes, header, b) = ReadAt(g, classes, header, b)
      <4> HIDE DEF g
      <4> QED BY <3>1, ReadsAhead
    <3>3. b # k => f[b] = ReadAt(f, classes, header, b)
      BY <2>1, <2>2, <2>3
    <3>4. b = k => g[b] = ReadAt(f, classes, header, b)
      BY DEF new
    <3>5. b # k => g[b] = f[b]
      OBVIOUS
    <3> HIDE DEF g
    <3> QED BY <3>2, <3>3, <3>4, <3>5
  <2>4. g = [b \in Nat |-> g[b]]
    OBVIOUS
  <2> HIDE DEF g
  <2>5. Right(g, d)
    BY <2>3, <2>4 DEF k
  <2> QED BY <2>5
<1>3. \A d \in 0..L : d \in S
  <2> HIDE DEF S
  <2> QED BY <1>1, <1>2, UpTo
<1>4. PICK f : Right(f, L)
  <2>1. L \in S
    <3> HIDE DEF S
    <3> QED BY <1>3
  <2> QED BY <2>1
<1>5. \A b \in Nat : f[b] = ReadAt(f, classes, header, b)
  <2>1. \A b \in Nat : b >= L - L
    BY SMT
  <2> HIDE DEF L
  <2> QED BY <1>4, <2>1
<1>6. f = [b \in Nat |-> f[b]]
  BY <1>4
<1>7. ReadsAs(f, classes, header)
  BY <1>5, <1>6 DEF ReadsAs
<1> QED BY <1>7

(* What a command is at the receiver *)
Arrived(c) == Deserialize(c.class, Serialize(c))

(* Bytes that stand in a header behind the first b *)
StandsAt(s, header, b) ==
  /\ b + Len(s) <= Len(header.bytes) /\ Len(header.bytes) \in Nat
  /\ \A i \in 1..Len(s) : header.bytes[b + i] = s[i]

LEMMA OneIsRead ==
  ASSUME NEW classes, NEW header, NEW from, NEW c, Known(classes, c), NEW b \in Nat,
         b < header.fOptsLen, header.fOptsLen \in Nat, StandsAt(Serialize(c), header, b)
  PROVE  ReadAt(from, classes, header, b)
           = <<Arrived(c)>> \o from[b + Len(Serialize(c))]
<1> DEFINE s == Serialize(c)
           size == SerializedSize[c.class]
           cid == CID[c.class]
           byte(i) == IF i <= Len(header.bytes) THEN header.bytes[i] ELSE 0
           bytes == [i \in 1..size |-> byte(b + i)]
<1>1. /\ s \in Seq(Nat) /\ Len(s) = size /\ size \in 1..6 /\ s[1] = cid
      /\ cid \in 2..Len(classes) /\ classes[cid] = c.class
  BY DEF Known
<1>2. ASSUME NEW i \in 1..size
      PROVE  byte(b + i) = s[i]
  <2> HIDE DEF s, size, cid
  <2>1. /\ b + size <= Len(header.bytes) /\ Len(header.bytes) \in Nat /\ size \in Nat
        /\ header.bytes[b + i] = s[i]
    BY <1>1 DEF StandsAt, s
  <2>2. b + i <= Len(header.bytes)
    BY <2>1
  <2> QED BY <2>1, <2>2
<1>3. byte(b + 1) = cid
  BY <1>1, <1>2
<1>4. bytes = s
  <2>1. bytes = [i \in 1..size |-> s[i]]
    <3> HIDE DEF byte, size, s
    <3> QED BY <1>2
  <2> HIDE DEF bytes, s, size
  <2>2. s = [i \in 1..size |-> s[i]]
    BY <1>1
  <2> QED BY <2>1, <2>2
<1>5. ReadAt(from, classes, header, b)
        = << Deserialize(classes[cid], bytes) >> \o from[b + size]
  <2>1. ~ (b >= header.fOptsLen)
    OBVIOUS
  <2> QED BY <1>1, <1>3, <2>1 DEF ReadAt
<1> HIDE DEF bytes
<1> QED BY <1>1, <1>4, <1>5 DEF Arrived

(* The length in a header is that of the commands, as far as it fits. *)
LEMMA LengthFits ==
  ASSUME NEW n \in Nat, NEW commands, DOMAIN commands = 1..n, NEW F,
         Len(F[0]) = 0, \A k \in 0..n : Len(F[k]) \in Nat,
         \A k \in 1..n : /\ SerializedSize[commands[k].class] \in Nat
                         /\ Len(F[k]) = Len(F[k - 1]) + SerializedSize[commands[k].class]
  PROVE  /\ FOptsLen(commands) \in Nat /\ FOptsLen(commands) <= Len(F[n])
         /\ Len(F[n]) < 256 => FOptsLen(commands) = Len(F[n])
<1>1. PICK w : /\ w[0] = 0 /\ FOptsLen(commands) = w[n]
               /\ \A k \in 1..n :
                    w[k] = (w[k - 1] + SerializedSize[commands[k].class]) % 256
  <2>1. \E w : Lengths(w, commands, n)
    BY LengthTurns
  <2> QED BY <2>1 DEF Lengths
<1> DEFINE Right(k) == /\ w[k] \in Nat /\ w[k] <= Len(F[k])
                       /\ Len(F[k]) < 256 => w[k] = Len(F[k])
           S == {k \in 0..n : Right(k)}
<1>2. 0 \in S
  BY <1>1
<1>3. ASSUME NEW k \in 1..n, k - 1 \in S
      PROVE  k \in S
  <2> DEFINE x == w[k - 1]
             size == SerializedSize[commands[k].class]
             before == Len(F[k - 1])
  <2>1. /\ x \in Nat /\ x <= before /\ (before < 256 => x = before)
        /\ before \in Nat /\ size \in Nat
    BY <1>3
  <2>2. w[k] = (x + size) % 256 /\ Len(F[k]) = before + size
    BY <1>1
  <2> HIDE DEF x, size, before
  <2> DEFINE sum == x + size
  <2>3. sum \in Nat
    BY <2>1
  <2> HIDE DEF sum
  <2>4. sum % 256 \in Nat /\ sum % 256 <= sum /\ (sum < 256 => sum % 256 = sum)
    BY <2>3, SMT
  <2>5. Right(k)
    BY <2>1, <2>2, <2>4 DEF sum
  <2> QED BY <2>5
<1>4. \A k \in 0..n : k \in S
  <2> HIDE DEF S
  <2> QED BY <1>2, <1>3, UpTo
<1>5. n \in S
  <2> HIDE DEF S
  <2> QED BY <1>4
<1> QED BY <1>1, <1>5

(* What the receiver reads out of a frame are its first commands, as they  *)
(* arrive, and all of them if they fit.                                    *)
FirstOnes(read, commands) ==
  \E m \in 0..Len(commands) : /\ read = [i \in 1..m |-> Arrived(commands[i])]
                              /\ Fits(commands) => m = Len(commands)

LEMMA HeaderIsRead ==
  ASSUME NEW classes, NEW from, NEW n \in Nat, NEW commands, DOMAIN commands = 1..n,
         Len(commands) = n, \A i \in 1..n : Known(classes, commands[i]),
         ReadsAs(from, classes, SerializeHeader(commands))
  PROVE  FirstOnes(from[0], commands)
<1> DEFINE header == SerializeHeader(commands)
           ss == [i \in 1..n |-> Serialize(commands[i])]
<1>1. ss \in [1..n -> Seq(Nat)] /\ \A k \in 1..n : Len(ss[k]) >= 1
  <2>1. ASSUME NEW k \in 1..n
        PROVE  ss[k] = Serialize(commands[k]) /\ ss[k] \in Seq(Nat) /\ Len(ss[k]) >= 1
    <3>1. Known(classes, commands[k])
      OBVIOUS
    <3>2. Serialize(commands[k]) \in Seq(Nat) /\ Len(Serialize(commands[k])) >= 1
      BY <3>1 DEF Known
    <3> QED BY <3>2
  <2>2. ss \in [1..n -> Seq(Nat)]
    BY <2>1
  <2> QED BY <2>1, <2>2
<1>2. PICK F : Parts(F, ss, n)
  <2> HIDE DEF ss
  <2> QED BY <1>1, FlattenTurns
<1>3. /\ F[0] = << >> /\ FlattenSeq(ss) = F[n]
      /\ \A k \in 1..n : F[k] = F[k - 1] \o ss[k]
      /\ \A k \in 0..n : F[k] \in Seq(Nat)
  BY <1>2 DEF Parts
<1>4. /\ header.fOptsLen = FOptsLen(commands) % 8
      /\ header.bytes = F[n] \o <<FPort>>
  BY <1>3 DEF SerializeHeader
<1>5. \A k \in 0..n : Len(F[k]) \in Nat
  BY <1>3
<1>6. \A k \in 1..n : Len(F[k]) = Len(F[k - 1]) + SerializedSize[commands[k].class]
  <2> TAKE k \in 1..n
  <2>1. k - 1 \in 0..n
    OBVIOUS
  <2>2. F[k] = F[k - 1] \o ss[k] /\ F[k - 1] \in Seq(Nat) /\ ss[k] \in Seq(Nat)
    <3> HIDE DEF ss
    <3> QED BY <1>1, <1>3, <2>1
  <2>3. Len(F[k]) = Len(F[k - 1]) + Len(ss[k])
    <3> HIDE DEF ss
    <3> QED BY <2>2, ConcatProperties
  <2>4. Len(ss[k]) = SerializedSize[commands[k].class]
    <3>1. Known(classes, commands[k])
      OBVIOUS
    <3> QED BY <3>1 DEF Known
  <2> QED BY <2>3, <2>4
<1>7. \A k \in 0..n : \A j \in 0..k : Extends(F, j, k)
  <2> HIDE DEF ss
  <2> QED BY <1>1, <1>2, PartsExtend
<1> DEFINE L == header.fOptsLen
<1>8. L \in Nat /\ L <= Len(F[n]) /\ (Fits(commands) => L = Len(F[n]))
  <2> DEFINE length == FOptsLen(commands)
  <2>1. /\ length \in Nat /\ length <= Len(F[n])
        /\ Len(F[n]) < 256 => length = Len(F[n])
    <3>1. Len(F[0]) = 0
      BY <1>3
    <3>2. \A k \in 1..n : SerializedSize[commands[k].class] \in Nat
      BY DEF Known
    <3> QED BY <1>5, <1>6, <3>1, <3>2, LengthFits
  <2>2. Len(header.bytes) = Len(F[n]) + 1 /\ Len(F[n]) \in Nat
    <3>1. F[n] \in Seq(Nat) /\ <<FPort>> \in Seq(Nat)
      BY <1>3 DEF FPort
    <3> QED BY <1>4, <1>5, <3>1
  <2>3. Fits(commands) => Len(F[n]) <= 7
    BY <2>2 DEF Fits
  <2> HIDE DEF length
  <2>4. length % 8 \in Nat /\ length % 8 <= length /\ (length <= 7 => length % 8 = length)
    BY <2>1, SMT
  <2>5. L = length % 8
    BY <1>4 DEF length
  <2> QED BY <2>1, <2>2, <2>3, <2>4, <2>5
<1>9. /\ Len(header.bytes) = Len(F[n]) + 1
      /\ \A i \in 1..Len(F[n]) : header.bytes[i] = F[n][i]
  <2>1. F[n] \in Seq(Nat) /\ <<FPort>> \in Seq(Nat)
    BY <1>3 DEF FPort
  <2> QED BY <1>4, <2>1, ConcatProperties
<1> HIDE DEF ss, header, L
<1>10. PICK m \in 0..n : Len(F[m]) >= L /\ \A k \in 0..n : k < m => Len(F[k]) < L
  <2> DEFINE T == {k \in 0..n : Len(F[k]) >= L}
  <2>1. T \subseteq Nat /\ n \in T
    BY <1>5, <1>8
  <2>2. PICK m \in T : \A k \in T : m <= k
    <3> HIDE DEF T
    <3> QED BY <2>1, Least
  <2>3. \A k \in 0..n : k < m => ~ (Len(F[k]) >= L)
    BY <2>2
  <2> QED BY <1>5, <1>8, <2>3
<1>11. ASSUME NEW k \in 1..n, k <= m
       PROVE  from[Len(F[k - 1])] = <<Arrived(commands[k])>> \o from[Len(F[k])]
  <2> DEFINE b == Len(F[k - 1])
             c == commands[k]
  <2>1. k - 1 \in 0..n /\ k \in 0..n /\ k - 1 < m
    BY <1>11
  <2>2. b \in Nat /\ b < L
    BY <1>5, <1>10, <2>1
  <2>3. Known(classes, c)
    OBVIOUS
  <2>4. /\ Serialize(c) \in Seq(Nat) /\ Len(F[k]) = b + Len(Serialize(c))
        /\ F[k] = F[k - 1] \o Serialize(c)
    BY <1>3, <1>6, <2>3 DEF ss, Known
  <2>5. \A i \in 1..Len(Serialize(c)) : F[k][b + i] = Serialize(c)[i]
    <3>1. F[k - 1] \in Seq(Nat)
      BY <1>3, <2>1
    <3>2. Len(Serialize(c)) \in Nat
      BY <2>4
    <3> HIDE DEF c
    <3> DEFINE s == Serialize(c)
    <3>3. \A i \in 1..Len(F[k - 1]) + Len(s) :
            F[k][i] = IF i <= Len(F[k - 1]) THEN F[k - 1][i] ELSE s[i - Len(F[k - 1])]
      BY <2>4, <3>1, ConcatProperties
    <3>4. ASSUME NEW i \in 1..Len(s)
          PROVE  F[k][b + i] = s[i]
      <4>1. /\ b + i \in 1..Len(F[k - 1]) + Len(s) /\ ~ (b + i <= Len(F[k - 1]))
            /\ (b + i) - Len(F[k - 1]) = i
        BY <2>2, <3>2
      <4> QED BY <3>3, <4>1
    <3> QED BY <3>4
  <2>6. Len(F[k]) <= Len(F[n]) /\ \A i \in 1..Len(F[k]) : F[n][i] = F[k][i]
    <3>1. n \in 0..n /\ k \in 0..n
      OBVIOUS
    <3> QED BY <1>7, <3>1 DEF Extends
  <2>7. StandsAt(Serialize(c), header, b)
    <3>1. /\ Len(F[n]) \in Nat /\ Len(F[k]) \in Nat /\ Len(Serialize(c)) \in Nat
      BY <1>5, <2>1, <2>4
    <3> HIDE DEF b, c
    <3>2. \A i \in 1..Len(Serialize(c)) : b + i \in 1..Len(F[k]) /\ b + i \in 1..Len(F[n])
      BY <2>2, <2>4, <2>6, <3>1, SMTT(30)
    <3>3. \A i \in 1..Len(Serialize(c)) : header.bytes[b + i] = Serialize(c)[i]
      BY <1>9, <2>5, <2>6, <3>2
    <3>4. b + Len(Serialize(c)) <= Len(F[n])
      BY <2>2, <2>4, <2>6, <3>1
    <3> QED BY <1>9, <3>1, <3>3, <3>4, <2>2 DEF StandsAt
  <2>8. from[b] = ReadAt(from, classes, header, b)
    BY <2>2 DEF ReadsAs, header
  <2> HIDE DEF b, c
  <2>9. ReadAt(from, classes, header, b) = <<Arrived(c)>> \o from[b + Len(Serialize(c))]
    <3>1. b < header.fOptsLen /\ header.fOptsLen \in Nat
      BY <1>8, <2>2 DEF L
    <3>2. b \in Nat /\ Known(classes, c)
      BY <2>2, <2>3
    <3> HIDE DEF header
    <3> QED BY <2>7, <3>1, <3>2, OneIsRead, SMTT(40)
  <2> QED BY <2>4, <2>8, <2>9 DEF b, c
<1>12. from[Len(F[m])] = << >>
  <2>1. Len(F[m]) \in Nat
    BY <1>5
  <2>2. from[Len(F[m])] = ReadAt(from, classes, header, Len(F[m]))
    BY <2>1 DEF ReadsAs, header
  <2> QED BY <1>10, <2>2 DEF ReadAt, L
<1> DEFINE all == [i \in 1..m |-> Arrived(commands[i])]
           V == {Arrived(commands[i]) : i \in 1..n}
           Rest(d) == [i \in 1..d |-> Arrived(commands[m - d + i])]
           S == {d \in 0..m : from[Len(F[m - d])] = Rest(d)}
<1>13. 0 \in S
  BY <1>12
<1>14. ASSUME NEW d \in 1..m, d - 1 \in S
       PROVE  d \in S
  <2> DEFINE k == m - d + 1
  <2>1. k \in 1..n /\ k <= m /\ k - 1 = m - d /\ k = m - (d - 1)
    OBVIOUS
  <2>2. from[Len(F[k])] = Rest(d - 1)
    BY <1>14, <2>1
  <2>3. from[Len(F[k - 1])] = <<Arrived(commands[k])>> \o Rest(d - 1)
    <3> HIDE DEF k
    <3> QED BY <1>11, <2>1, <2>2
  <2>4. Rest(d - 1) \in Seq(V) /\ <<Arrived(commands[k])>> \in Seq(V)
        /\ Len(Rest(d - 1)) = d - 1 /\ Rest(d) \in Seq(V) /\ Len(Rest(d)) = d
    <3>1. \A i \in 1..d - 1 : Arrived(commands[m - (d - 1) + i]) \in V
      <4>1. \A i \in 1..d - 1 : m - (d - 1) + i \in 1..n
        OBVIOUS
      <4> QED BY <4>1
    <3>2. \A i \in 1..d : Arrived(commands[m - d + i]) \in V
      <4>1. \A i \in 1..d : m - d + i \in 1..n
        OBVIOUS
      <4> QED BY <4>1
    <3>3. Arrived(commands[k]) \in V
      BY <2>1
    <3> HIDE DEF V
    <3> QED BY <3>1, <3>2, <3>3, IsASeq
  <2> DEFINE t == <<Arrived(commands[k])>> \o Rest(d - 1)
  <2>5. /\ t \in Seq(V) /\ Len(t) = d
        /\ \A i \in 1..d : t[i] = IF i <= 1 THEN Arrived(commands[k])
                                  ELSE Rest(d - 1)[i - 1]
    <3> DEFINE one == <<Arrived(commands[k])>>
               rest == Rest(d - 1)
    <3>1. one \in Seq(V) /\ rest \in Seq(V) /\ Len(one) = 1 /\ Len(rest) = d - 1
          /\ one[1] = Arrived(commands[k])
      BY <2>4
    <3> HIDE DEF one, rest, V
    <3>2. /\ one \o rest \in Seq(V) /\ Len(one \o rest) = 1 + (d - 1)
          /\ \A i \in 1..1 + (d - 1) :
               (one \o rest)[i] = IF i <= 1 THEN one[i] ELSE rest[i - 1]
      <4>1. /\ one \o rest \in Seq(V) /\ Len(one \o rest) = Len(one) + Len(rest)
            /\ \A i \in 1..Len(one) + Len(rest) :
                 (one \o rest)[i] = IF i <= Len(one) THEN one[i] ELSE rest[i - Len(one)]
        BY <3>1, ConcatProperties
      <4> HIDE DEF Rest, k
      <4> QED BY <3>1, <4>1
    <3>3. 1 + (d - 1) = d
      OBVIOUS
    <3>4. \A i \in 1..d : i <= 1 => i = 1
      OBVIOUS
    <3>5. /\ one \o rest \in Seq(V) /\ Len(one \o rest) = d
          /\ \A i \in 1..d : (one \o rest)[i] = IF i <= 1 THEN Arrived(commands[k])
                                                 ELSE rest[i - 1]
      BY <3>1, <3>2, <3>3, <3>4
    <3> QED BY <3>5 DEF one, rest
  <2>6. \A i \in 1..d : t[i] = Rest(d)[i]
    <3> TAKE i \in 1..d
    <3>1. CASE i = 1
      <4>1. m - d + i = k
        BY <3>1
      <4> QED BY <2>5, <3>1, <4>1
    <3>2. CASE i # 1
      <4>1. i - 1 \in 1..d - 1 /\ m - (d - 1) + (i - 1) = m - d + i
        BY <3>2
      <4> QED BY <2>5, <3>2, <4>1
    <3> QED BY <3>1, <3>2
  <2>7. t = Rest(d)
    <3> HIDE DEF t, V, Rest
    <3> QED BY <2>4, <2>5, <2>6, SeqEqual
  <2>8. from[Len(F[m - d])] = Rest(d)
    <3> HIDE DEF k, Rest
    <3> QED BY <2>1, <2>3, <2>7 DEF t
  <2> QED BY <2>8
<1>15. from[0] = all
  <2>1. m \in S
    <3>1. \A d \in 0..m : d \in S
      <4>1. m \in Nat
        OBVIOUS
      <4> HIDE DEF S
      <4>2. \A d \in 1..m : d - 1 \in S => d \in S
        BY <1>14
      <4> QED BY <1>13, <4>1, <4>2, UpTo
    <3> QED BY <3>1
  <2>2. from[Len(F[0])] = Rest(m)
    BY <2>1
  <2>3. Len(F[0]) = 0
    BY <1>3
  <2>4. Rest(m) = all
    <3>1. \A i \in 1..m : m - m + i = i
      OBVIOUS
    <3> QED BY <3>1
  <2> HIDE DEF Rest, all
  <2> QED BY <2>2, <2>3, <2>4
<1>16. Fits(commands) => m = n
  <2>1. m # n => Len(F[m]) < Len(F[n])
    BY <1>7 DEF Extends
  <2> QED BY <1>5, <1>8, <1>10, <2>1
<1> QED BY <1>15, <1>16 DEF FirstOnes

-----------------------------------------------------------------------------
LEMMA TableSizes ==
  /\ \A cid \in 2..Len(DownlinkClass) : SerializedSize[DownlinkClass[cid]] \in 1..6
  /\ \A cid \in 2..Len(UplinkClass) : SerializedSize[UplinkClass[cid]] \in 1..6
<1>1. ASSUME NEW cid \in 2..9
      PROVE  DownlinkClass[cid] \in DOMAIN SerializedSize
  <2>1. /\ DownlinkClass[2] \in DOMAIN SerializedSize
        /\ DownlinkClass[3] \in DOMAIN SerializedSize
        /\ DownlinkClass[4] \in DOMAIN SerializedSize
        /\ DownlinkClass[5] \in DOMAIN SerializedSize
        /\ DownlinkClass[6] \in DOMAIN SerializedSize
        /\ DownlinkClass[7] \in DOMAIN SerializedSize
        /\ DownlinkClass[8] \in DOMAIN SerializedSize
        /\ DownlinkClass[9] \in DOMAIN SerializedSize
    BY DEF DownlinkClass, SerializedSize
  <2>2. \/ cid = 2 \/ cid = 3 \/ cid = 4 \/ cid = 5
        \/ cid = 6 \/ cid = 7 \/ cid = 8 \/ cid = 9
    OBVIOUS
  <2> QED BY <2>1, <2>2
<1>2. ASSUME NEW cid \in 2..10
      PROVE  UplinkClass[cid] \in DOMAIN SerializedSize
  <2>1. /\ UplinkClass[2] \in DOMAIN SerializedSize
        /\ UplinkClass[3] \in DOMAIN SerializedSize
        /\ UplinkClass[4] \in DOMAIN SerializedSize
        /\ UplinkClass[5] \in DOMAIN SerializedSize
        /\ UplinkClass[6] \in DOMAIN SerializedSize
        /\ UplinkClass[7] \in DOMAIN SerializedSize
        /\ UplinkClass[8] \in DOMAIN SerializedSize
        /\ UplinkClass[9] \in DOMAIN SerializedSize
        /\ UplinkClass[10] \in DOMAIN SerializedSize
    BY DEF UplinkClass, SerializedSize
  <2>2. \/ cid = 2 \/ cid = 3 \/ cid = 4 \/ cid = 5
        \/ cid = 6 \/ cid = 7 \/ cid = 8 \/ cid = 9 \/ cid = 10
    OBVIOUS
  <2> QED BY <2>1, <2>2
<1>3. \A class \in DOMAIN SerializedSize : SerializedSize[class] \in 1..6
  BY DEF SerializedSize
<1> QED BY <1>1, <1>2, <1>3, Tabled

LEMMA HeaderLength ==
  ASSUME NEW n \in Nat, NEW commands, DOMAIN commands = 1..n,
         \A i \in 1..n : SerializedSize[commands[i].class] \in Nat
  PROVE  SerializeHeader(commands).fOptsLen \in Nat
<1>1. PICK w : /\ w[0] = 0 /\ FOptsLen(commands) = w[n]
               /\ \A k \in 1..n :
                    w[k] = (w[k - 1] + SerializedSize[commands[k].class]) % 256
  <2>1. \E w : Lengths(w, commands, n)
    BY LengthTurns
  <2> QED BY <2>1 DEF Lengths
<1> DEFINE S == {k \in 0..n : w[k] \in Nat}
<1>2. 0 \in S
  BY <1>1
<1>3. ASSUME NEW k \in 1..n, k - 1 \in S
      PROVE  k \in S
  <2> DEFINE sum == w[k - 1] + SerializedSize[commands[k].class]
  <2>1. sum \in Nat
    BY <1>3
  <2>2. w[k] = sum % 256
    BY <1>1
  <2> HIDE DEF sum
  <2>3. w[k] \in Nat
    BY <2>1, <2>2, BytesOf
  <2> QED BY <2>3
<1>4. \A k \in 0..n : k \in S
  <2> HIDE DEF S
  <2> QED BY <1>2, <1>3, UpTo
<1> DEFINE length == FOptsLen(commands)
<1>5. length \in Nat
  BY <1>1, <1>4
<1>6. SerializeHeader(commands).fOptsLen = length % 8
  BY DEF SerializeHeader
<1> HIDE DEF length
<1>7. length % 8 \in Nat
  BY <1>5, SMT
<1> QED BY <1>6, <1>7

LEMMA FrameIsRead ==
  ASSUME NEW classes, NEW n \in Nat, NEW commands, DOMAIN commands = 1..n,
         Len(commands) = n, \A i \in 1..n : Known(classes, commands[i]),
         \A cid \in 2..Len(classes) : SerializedSize[classes[cid]] \in 1..6
  PROVE  /\ \E from : ReadsAs(from, classes, SerializeHeader(commands))
         /\ \A from : ReadsAs(from, classes, SerializeHeader(commands))
                        => FirstOnes(from[0], commands)
<1> DEFINE header == SerializeHeader(commands)
<1>1. header.fOptsLen \in Nat
  <2>1. \A i \in 1..n : SerializedSize[commands[i].class] \in Nat
    BY DEF Known
  <2> QED BY <2>1, HeaderLength
<1>2. \E from : ReadsAs(from, classes, header)
  <2> HIDE DEF header
  <2> QED BY <1>1, ReadExists
<1>3. ASSUME NEW from, ReadsAs(from, classes, SerializeHeader(commands))
      PROVE  FirstOnes(from[0], commands)
  BY <1>3, HeaderIsRead
<1> QED BY <1>2, <1>3

(* The device reads the first commands of a downlink, and the server those *)
(* of an uplink.                                                           *)
LEMMA DownlinkIsRead ==
  ASSUME NEW commands \in Seq(Request)
  PROVE  FirstOnes(ReadBack(FALSE, commands), commands)
<1> DEFINE n == Len(commands)
           header == SerializeHeader(commands)
           from == CHOOSE f : Reads(f, FALSE, header)
<1>1. n \in Nat /\ DOMAIN commands = 1..n /\ \A i \in 1..n : commands[i] \in Request
  OBVIOUS
<1>2. \A i \in 1..n : Known(DownlinkClass, commands[i])
  BY <1>1, RequestIsKnown
<1> HIDE DEF n
<1>3. /\ \E f : ReadsAs(f, DownlinkClass, header)
      /\ \A f : ReadsAs(f, DownlinkClass, header) => FirstOnes(f[0], commands)
  BY <1>1, <1>2, TableSizes, FrameIsRead DEF n
<1> HIDE DEF header
<1>4. Reads(from, FALSE, header)
  BY <1>3, ReadsInBothDirections
<1> HIDE DEF from
<1>5. FirstOnes(from[0], commands)
  BY <1>3, <1>4, ReadsInBothDirections
<1>6. ReadBack(FALSE, commands) = from[0]
  BY DeserializeReads DEF ReadBack, from, header
<1> QED BY <1>5, <1>6

LEMMA UplinkIsRead ==
  ASSUME NEW list \in Lists
  PROVE  FirstOnes(ReadBack(TRUE, list), list)
<1> DEFINE n == Len(list)
           header == SerializeHeader(list)
           from == CHOOSE f : Reads(f, TRUE, header)
<1>1. n \in Nat /\ DOMAIN list = 1..n /\ \A i \in 1..n : list[i] \in Answers
  BY DEF Lists
<1>2. \A i \in 1..n : Known(UplinkClass, list[i])
  BY <1>1, AnswerIsKnown
<1> HIDE DEF n
<1>3. /\ \E f : ReadsAs(f, UplinkClass, header)
      /\ \A f : ReadsAs(f, UplinkClass, header) => FirstOnes(f[0], list)
  BY <1>1, <1>2, TableSizes, FrameIsRead DEF n
<1> HIDE DEF header
<1>4. Reads(from, TRUE, header)
  BY <1>3, ReadsInBothDirections
<1> HIDE DEF from
<1>5. FirstOnes(from[0], list)
  BY <1>3, <1>4, ReadsInBothDirections
<1>6. ReadBack(TRUE, list) = from[0]
  BY DeserializeReads DEF ReadBack, from, header
<1> QED BY <1>5, <1>6

-----------------------------------------------------------------------------
(* A command in whose place another arrives: one of its class, as dangerous. *)
Alike(c, d) ==
  /\ d \in Request /\ d.class = c.class
  /\ Dangerous(d) <=> Dangerous(c)

LEMMA Decoded ==
  ASSUME NEW high \in Nat, NEW middle \in Nat, NEW low \in Nat
  PROVE  /\ FrequencyFrom(high, middle, low) \in Frequencies
         /\ << 100 * (256 * U16From(high, middle) + low), 0 >> \in Frequencies
<1>1. /\ 65536 * high + 256 * middle + low \in Nat
      /\ 256 * (high + 256 * middle) + low \in Nat
  OBVIOUS
<1> DEFINE x == 65536 * high + 256 * middle + low
           y == 256 * (high + 256 * middle) + low
<1>2. x \in Nat /\ y \in Nat
  BY <1>1
<1>3. /\ FrequencyFrom(high, middle, low) = <<100 * x, 0>>
      /\ << 100 * (256 * U16From(high, middle) + low), 0 >> = <<100 * y, 0>>
  BY DEF FrequencyFrom, U16From
<1> HIDE DEF x, y
<1>4. 100 * x \in Nat /\ 100 * y \in Nat
  BY <1>2
<1> QED BY <1>3, <1>4 DEF Frequencies

(* Of a RxParamSetupReq the frequency may be lost, the rest arrives.       *)
LEMMA RxParamSetupArrives ==
  ASSUME NEW c \in RxParamSetupReq
  PROVE  Arrived(c) \in RxParamSetupReq
<1> DEFINE b == Serialize(c)
           code == FrequencyBytes(c.frequency)
<1>1. /\ c.rx1DrOffset \in Nibble /\ c.rx1DrOffset % 8 = c.rx1DrOffset
      /\ c.rx2DataRate \in Nibble /\ c.class = "RxParamSetupReq"
      /\ c.rx1DrOffset \in 0..7 /\ c.frequency \in Frequencies
  BY DEF RxParamSetupReq, Nibble
<1>2. Data(c) = RxParamSetupReqData(c)
  BY <1>1 DEF Data
<1>3. code[1] \in Nat /\ code[2] \in Nat /\ code[3] \in Nat
  BY <1>1, FrequencyIsBytes
<1> HIDE DEF code
<1>4. /\ b[2] = Nibbles(c.rx1DrOffset, c.rx2DataRate)
      /\ b[3] = code[1] /\ b[4] = code[2] /\ b[5] = code[3]
  <2>1. Data(c) = << Nibbles(c.rx1DrOffset, c.rx2DataRate), code[1], code[2], code[3] >>
    BY <1>1, <1>2 DEF RxParamSetupReqData, code
  <2> QED BY <2>1 DEF Serialize
<1>5. Arrived(c) = RxParamSetupReqFrom(b)
  BY <1>1 DEF Arrived, Deserialize
<1> HIDE DEF b
<1> DEFINE frequency == FrequencyFrom(code[1], code[2], code[3])
<1>6. Arrived(c) = [class |-> "RxParamSetupReq", rx1DrOffset |-> c.rx1DrOffset,
                    rx2DataRate |-> c.rx2DataRate,
                    frequency |-> frequency]
  BY <1>1, <1>4, <1>5, NibblesApart DEF RxParamSetupReqFrom
<1>7. frequency \in Frequencies
  BY <1>3, Decoded
<1> HIDE DEF frequency
<1> QED BY <1>1, <1>6, <1>7 DEF RxParamSetupReq

LEMMA NewChannelArrives ==
  ASSUME NEW c \in NewChannelReq
  PROVE  Arrived(c) \in NewChannelReq
<1> DEFINE b == Serialize(c)
           code == FrequencyBytes(c.frequency)
<1>1. /\ c.chIndex \in Byte /\ c.maxDataRate \in Nibble /\ c.minDataRate \in Nibble
      /\ c.frequency \in Frequencies /\ c.class = "NewChannelReq"
  BY DEF NewChannelReq
<1>2. Data(c) = NewChannelReqData(c)
  BY <1>1 DEF Data
<1>3. code[1] \in Nat /\ code[2] \in Nat /\ code[3] \in Nat
  BY <1>1, FrequencyIsBytes
<1> HIDE DEF code
<1>4. /\ b[2] = c.chIndex /\ b[3] = code[1] /\ b[4] = code[2] /\ b[5] = code[3]
      /\ b[6] = Nibbles(c.maxDataRate, c.minDataRate)
  <2>1. Data(c) = << c.chIndex, code[1], code[2], code[3],
                     Nibbles(c.maxDataRate, c.minDataRate) >>
    BY <1>2 DEF NewChannelReqData, code
  <2> QED BY <2>1 DEF Serialize
<1>5. Arrived(c) = NewChannelReqFrom(b)
  BY <1>1 DEF Arrived, Deserialize
<1> HIDE DEF b
<1> DEFINE frequency == << 100 * (256 * U16From(code[1], code[2]) + code[3]), 0 >>
<1>6. Arrived(c) = [class |-> "NewChannelReq", chIndex |-> c.chIndex,
                    frequency |-> frequency,
                    maxDataRate |-> c.maxDataRate, minDataRate |-> c.minDataRate]
  BY <1>1, <1>4, <1>5, NibblesApart DEF NewChannelReqFrom
<1>7. frequency \in Frequencies
  BY <1>3, Decoded
<1> HIDE DEF frequency
<1> QED BY <1>1, <1>6, <1>7 DEF NewChannelReq

(* The other requests arrive as they were written. *)
LEMMA ShortOnesArrive ==
  ASSUME NEW c \in LinkCheckAns \cup DutyCycleReq \cup DevStatusReq \cup RxTimingSetupReq
  PROVE  Arrived(c) = c
<1>1. CASE c \in LinkCheckAns
  <2>1. c.class = "LinkCheckAns" /\ c = [class |-> "LinkCheckAns", margin |-> c.margin, gwCnt |-> c.gwCnt]
    BY <1>1 DEF LinkCheckAns
  <2>2. Serialize(c)[2] = c.margin /\ Serialize(c)[3] = c.gwCnt
    BY <2>1 DEF Serialize, Data
  <2> QED BY <2>1, <2>2 DEF Arrived, Deserialize
<1>2. CASE c \in DutyCycleReq
  <2>1. c.class = "DutyCycleReq" /\ c = [class |-> "DutyCycleReq", maxDCycle |-> c.maxDCycle]
    BY <1>2 DEF DutyCycleReq
  <2>2. Serialize(c)[2] = c.maxDCycle
    BY <2>1 DEF Serialize, Data
  <2> QED BY <2>1, <2>2 DEF Arrived, Deserialize
<1>3. CASE c \in DevStatusReq
  <2>1. c.class = "DevStatusReq" /\ c = [class |-> "DevStatusReq"]
    BY <1>3 DEF DevStatusReq
  <2> QED BY <2>1 DEF Arrived, Deserialize
<1>4. CASE c \in RxTimingSetupReq
  <2>1. /\ c.class = "RxTimingSetupReq" /\ c = [class |-> "RxTimingSetupReq", delay |-> c.delay]
        /\ c.delay \in Nibble
    BY <1>4 DEF RxTimingSetupReq
  <2>2. (c.delay % 16) % 16 = c.delay
    BY <2>1 DEF Nibble
  <2>3. Serialize(c)[2] = c.delay % 16
    BY <2>1 DEF Serialize, Data
  <2>4. Arrived(c) = [class |-> c.class, delay |-> (c.delay % 16) % 16]
    BY <2>1, <2>3 DEF Arrived, Deserialize
  <2> QED BY <2>1, <2>2, <2>4
<1> QED BY <1>1, <1>2, <1>3, <1>4

(* What arrives is a request of the same class, as dangerous as the one    *)
(* that was sent.                                                          *)
LEMMA RequestArrives ==
  ASSUME NEW c \in Request
  PROVE  Alike(c, Arrived(c))
<1>1. CASE c \in RxParamSetupReq
  <2>1. Arrived(c) \in RxParamSetupReq
    BY <1>1, RxParamSetupArrives
  <2>2. Arrived(c).class = "RxParamSetupReq" /\ c.class = "RxParamSetupReq"
    BY <1>1, <2>1 DEF RxParamSetupReq
  <2>3. Arrived(c) \in Request
    BY <2>1 DEF Request
  <2>4. ~ Dangerous(c) /\ ~ Dangerous(Arrived(c))
    BY <2>2 DEF Dangerous
  <2> QED BY <2>2, <2>3, <2>4 DEF Alike
<1>2. CASE c \in NewChannelReq
  <2>1. Arrived(c) \in NewChannelReq
    BY <1>2, NewChannelArrives
  <2>2. Arrived(c).class = "NewChannelReq" /\ c.class = "NewChannelReq"
    BY <1>2, <2>1 DEF NewChannelReq
  <2>3. Arrived(c) \in Request
    BY <2>1 DEF Request
  <2>4. Dangerous(c) /\ Dangerous(Arrived(c))
    BY <2>2 DEF Dangerous
  <2> QED BY <2>2, <2>3, <2>4 DEF Alike
<1>3. CASE c \in LinkAdrReq
  <2>1. Arrived(c) = c
    BY <1>3, LinkAdrReqSurvives DEF Arrived, LinkAdrReq
  <2> QED BY <2>1 DEF Alike
<1>4. CASE c \in LinkCheckAns \cup DutyCycleReq \cup DevStatusReq \cup RxTimingSetupReq
  <2>1. Arrived(c) = c
    BY <1>4, ShortOnesArrive
  <2> QED BY <2>1 DEF Alike
<1> QED BY <1>1, <1>2, <1>3, <1>4 DEF Request

LEMMA AnswerArrives ==
  ASSUME NEW a \in Answers
  PROVE  Arrived(a) = a
<1>1. CASE a \in LinkAdrAns \cup RxParamSetupAns \cup NewChannelAns
  BY <1>1, AnswersSurvive DEF Arrived
<1>2. CASE a \in DutyCycleAns
  <2>1. a.class = "DutyCycleAns" /\ a = [class |-> "DutyCycleAns"]
    BY <1>2 DEF DutyCycleAns
  <2> QED BY <2>1 DEF Arrived, Deserialize
<1>3. CASE a \in DevStatusAns
  <2>1. /\ a.class = "DevStatusAns" /\ a.margin \in 0..63
        /\ a = [class |-> "DevStatusAns", battery |-> a.battery, margin |-> a.margin]
    BY <1>3 DEF DevStatusAns
  <2>2. a.margin % 64 = a.margin
    BY <2>1
  <2>3. Serialize(a)[2] = a.battery /\ Serialize(a)[3] = a.margin
    BY <2>1 DEF Serialize, Data
  <2>4. Arrived(a) = [class |-> a.class, battery |-> a.battery, margin |-> a.margin % 64]
    BY <2>1, <2>3 DEF Arrived, Deserialize
  <2> QED BY <2>1, <2>2, <2>4
<1> QED BY <1>1, <1>2, <1>3 DEF Answers

-----------------------------------------------------------------------------
(* The server's view with the answers of the device is what the device has *)
(* set.                                                                    *)
Agreed(v, waiting, m) ==
  /\ Len(waiting) = Len(m.macCommandList)
  /\ Believe(v, waiting, m.macCommandList) = Settings(m)

LEMMA BelieveNone ==
  ASSUME NEW v, NEW answers
  PROVE  Believe(v, << >>, answers) = v
<1> DEFINE n == 0
           none == << >>
<1>1. n \in Nat /\ DOMAIN none = 1..n
  OBVIOUS
<1> HIDE DEF none, n
<1>2. PICK w : w[0] = v /\ Believe(v, none, answers) = w[n]
  <2>1. \E w : Beliefs(w, v, none, answers, n)
    BY <1>1, BelieveTurns
  <2> QED BY <2>1 DEF Beliefs
<1> QED BY <1>2 DEF n, none

LEMMA BelieveMore ==
  ASSUME NEW v, NEW q \in Seq(Request), NEW l \in Lists, Len(q) = Len(l),
         NEW c \in Request, NEW a \in Answers
  PROVE  Believe(v, Append(q, c), Append(l, a)) = Conclude(Believe(v, q, l), c, a)
<1> DEFINE n == Len(q)
           k == n + 1
           q2 == Append(q, c)
           l2 == Append(l, a)
<1>1. n \in Nat /\ DOMAIN q = 1..n /\ n = Len(l)
  OBVIOUS
<1>2. k \in Nat /\ DOMAIN q2 = 1..k /\ q2[k] = c /\ \A i \in 1..n : q2[i] = q[i]
  OBVIOUS
<1>3. Len(l2) = k /\ l2[k] = a /\ \A i \in 1..n : l2[i] = l[i]
  BY <1>1 DEF Lists
<1> HIDE DEF n, q2, l2
<1>4. PICK w : /\ w[0] = v /\ Believe(v, q, l) = w[n]
               /\ \A i \in 1..n : w[i] = IF i > Len(l) THEN w[i - 1]
                                         ELSE Conclude(w[i - 1], q[i], l[i])
  <2>1. \E w : Beliefs(w, v, q, l, n)
    BY <1>1, BelieveTurns
  <2> QED BY <2>1 DEF Beliefs
<1>5. PICK x : /\ x[0] = v /\ Believe(v, q2, l2) = x[k]
               /\ \A i \in 1..k : x[i] = IF i > Len(l2) THEN x[i - 1]
                                         ELSE Conclude(x[i - 1], q2[i], l2[i])
  <2> HIDE DEF k
  <2>1. \E x : Beliefs(x, v, q2, l2, k)
    BY <1>2, BelieveTurns
  <2> QED BY <2>1 DEF Beliefs
<1> DEFINE S == {i \in 0..n : x[i] = w[i]}
<1>6. 0 \in S
  BY <1>1, <1>4, <1>5
<1>7. ASSUME NEW i \in 1..n, i - 1 \in S
      PROVE  i \in S
  <2>1. i \in 1..k /\ ~ (i > Len(l)) /\ ~ (i > Len(l2)) /\ i \in 0..n
    BY <1>1, <1>3
  <2>2. x[i - 1] = w[i - 1]
    BY <1>7
  <2>3. x[i] = Conclude(x[i - 1], q2[i], l2[i]) /\ w[i] = Conclude(w[i - 1], q[i], l[i])
    <3> HIDE DEF k, S
    <3> QED BY <1>4, <1>5, <2>1
  <2>4. x[i] = w[i]
    BY <1>2, <1>3, <2>2, <2>3
  <2> QED BY <2>1, <2>4
<1>8. x[n] = w[n]
  <2>1. \A i \in 0..n : i \in S
    <3> HIDE DEF S
    <3> QED BY <1>1, <1>6, <1>7, UpTo
  <2> QED BY <1>1, <2>1
<1>9. x[k] = Conclude(x[n], c, a)
  <2>1. k \in 1..k /\ ~ (k > Len(l2)) /\ k - 1 = n
    BY <1>1, <1>3
  <2>2. x[k] = Conclude(x[k - 1], q2[k], l2[k])
    <3> HIDE DEF k
    <3> QED BY <1>5, <2>1
  <2> QED BY <1>2, <1>3, <2>1, <2>2
<1> QED BY <1>4, <1>5, <1>8, <1>9 DEF q2, l2

(* A MAC that has failed carries out no more commands. *)
LEMMA FailedStays ==
  ASSUME NEW m, m.failed, NEW c
  PROVE  Parse(m, c) = m
BY DEF Parse

LEMMA AskIsTyped ==
  ASSUME NEW q \in Seq(Request), NEW c \in Request
  PROVE  Ask(q, c) \in Seq(Request)
BY AppendProperties DEF Ask

(* One turn: the view agrees after the command and its answer as it did    *)
(* before.                                                                 *)
LEMMA TurnAgrees ==
  ASSUME NEW v, NEW q \in Seq(Request), NEW m \in Mac, ~ m.failed,
         NEW c \in Request, ~ Garbled(c), Agreed(v, q, m), ~ Parse(m, Arrived(c)).failed
  PROVE  Agreed(v, Ask(q, c), Parse(m, Arrived(c)))
<1> DEFINE d == Arrived(c)
           r == Parse(m, d)
           l == m.macCommandList
<1>1. d \in Request /\ d.class = c.class
  BY RequestArrives DEF Alike
<1> HIDE DEF d
<1>2. Reported(m, d, r)
  <2>1. Carried(m, d, r)
    BY <1>1, CommandIsSafe
  <2> QED BY <2>1 DEF Carried, d
<1>3. l \in Lists /\ Len(q) = Len(l) /\ Believe(v, q, l) = Settings(m)
  BY DEF Mac, Agreed
<1> HIDE DEF r, l
<1>4. CASE c.class \in Unanswered
  <2>1. r.macCommandList = l /\ Settings(r) = Settings(m)
    BY <1>1, <1>2, <1>4 DEF Reported, l
  <2>2. Ask(q, c) = q
    BY <1>4 DEF Ask
  <2> QED BY <1>3, <2>1, <2>2 DEF Agreed, r, d
<1>5. CASE c.class \notin Unanswered
  <2>1. PICK a \in Answers : /\ r.macCommandList = Append(l, a)
                             /\ Settings(r) = Conclude(Settings(m), d, a)
    BY <1>1, <1>2, <1>5 DEF Reported, l
  <2>2. Ask(q, c) = Append(q, c)
    BY <1>5 DEF Ask
  <2>3. d = c
    BY DEF Garbled, Arrived, d
  <2>4. Believe(v, Append(q, c), Append(l, a)) = Conclude(Believe(v, q, l), c, a)
    BY <1>3, BelieveMore
  <2>5. Len(Append(q, c)) = Len(Append(l, a))
    <3>1. Len(Append(l, a)) = Len(l) + 1
      BY <1>3 DEF Lists
    <3>2. Len(Append(q, c)) = Len(q) + 1
      OBVIOUS
    <3> QED BY <1>3, <3>1, <3>2
  <2> QED BY <1>3, <2>1, <2>2, <2>3, <2>4, <2>5 DEF Agreed, r, d
<1> QED BY <1>4, <1>5

(* The loop of ParseCommands over what arrives of a downlink *)
LEMMA LoopIsSafe ==
  ASSUME NEW m \in Mac, ~ m.failed, NEW commands, NEW e \in Nat,
         \A i \in 1..e : commands[i] \in Request
  PROVE  LET r == ParseCommands(m, [i \in 1..e |-> Arrived(commands[i])])
         IN /\ r \in Mac
            /\ Sound(m) /\ (\A i \in 1..e : ~ Dangerous(commands[i])) => Sound(r)
<1> DEFINE read == [i \in 1..e |-> Arrived(commands[i])]
           calm == Sound(m) /\ \A i \in 1..e : ~ Dangerous(commands[i])
<1>1. DOMAIN read = 1..e /\ \A i \in 1..e : read[i] = Arrived(commands[i])
  OBVIOUS
<1> HIDE DEF read
<1>2. PICK w : Parses(w, m, read, e)
  BY <1>1, ParseTurns
<1>3. /\ w[0] = m /\ ParseCommands(m, read) = w[e]
      /\ \A k \in 1..e : w[k] = Parse(w[k - 1], read[k])
  BY <1>2 DEF Parses
<1> DEFINE S == {k \in 0..e : w[k] \in Mac /\ (calm => Sound(w[k]))}
<1>4. 0 \in S
  BY <1>3
<1>5. ASSUME NEW k \in 1..e, k - 1 \in S
      PROVE  k \in S
  <2> DEFINE before == w[k - 1]
             c == commands[k]
             d == Arrived(c)
  <2>1. before \in Mac /\ (calm => Sound(before)) /\ w[k] = Parse(before, d)
        /\ c \in Request
    BY <1>1, <1>3, <1>5
  <2>2. d \in Request /\ (Dangerous(d) <=> Dangerous(c))
    BY <2>1, RequestArrives DEF Alike
  <2>3. calm => ~ Dangerous(c)
    OBVIOUS
  <2> HIDE DEF before, c, d, calm
  <2>4. CASE before.failed
    <3>1. w[k] = before
      BY <2>1, <2>4, FailedStays
    <3> QED BY <2>1, <3>1
  <2>5. CASE ~ before.failed
    <3>1. Carried(before, d, w[k])
      BY <2>1, <2>2, <2>5, CommandIsSafe
    <3>2. w[k] \in Mac /\ (calm => Sound(w[k]))
      BY <2>1, <2>2, <2>3, <3>1 DEF Carried
    <3> QED BY <3>2
  <2> QED BY <2>4, <2>5
<1>6. \A k \in 0..e : k \in S
  <2> HIDE DEF S
  <2> QED BY <1>4, <1>5, UpTo
<1>7. w[e] \in Mac /\ (calm => Sound(w[e]))
  BY <1>6
<1> QED BY <1>3, <1>7 DEF read

LEMMA AskAllIsTyped ==
  ASSUME NEW q \in Seq(Request), NEW commands \in Seq(Request)
  PROVE  AskAll(q, commands) \in Seq(Request)
<1> DEFINE n == Len(commands)
<1>1. n \in Nat /\ DOMAIN commands = 1..n /\ \A i \in 1..n : commands[i] \in Request
  OBVIOUS
<1> HIDE DEF n
<1>2. PICK w : Asks(w, q, commands, n)
  BY <1>1, AskTurns
<1>3. /\ w[0] = q /\ AskAll(q, commands) = w[n]
      /\ \A k \in 1..n : w[k] = Ask(w[k - 1], commands[k])
  BY <1>2 DEF Asks
<1> DEFINE S == {k \in 0..n : w[k] \in Seq(Request)}
<1>4. 0 \in S
  BY <1>1, <1>3
<1>5. ASSUME NEW k \in 1..n, k - 1 \in S
      PROVE  k \in S
  <2>1. w[k - 1] \in Seq(Request) /\ commands[k] \in Request
    BY <1>1, <1>5
  <2>2. w[k] \in Seq(Request)
    BY <1>3, <2>1, AskIsTyped
  <2> QED BY <2>2
<1>6. \A k \in 0..n : k \in S
  <2> HIDE DEF S
  <2> QED BY <1>1, <1>4, <1>5, UpTo
<1> QED BY <1>1, <1>3, <1>6

(* If a downlink arrives as it was sent and the MAC survives it, the view that     *)
(* agreed before agrees with the answers to come.                          *)
LEMMA LoopAgrees ==
  ASSUME NEW v, NEW q \in Seq(Request), NEW m \in Mac, ~ m.failed,
         NEW commands \in Seq(Request), \A i \in 1..Len(commands) : ~ Garbled(commands[i]),
         Agreed(v, q, m), NEW r, ~ r.failed,
         r = ParseCommands(m, [i \in 1..Len(commands) |-> Arrived(commands[i])])
  PROVE  Agreed(v, AskAll(q, commands), r)
<1> DEFINE n == Len(commands)
           read == [i \in 1..n |-> Arrived(commands[i])]
<1>1. /\ n \in Nat /\ DOMAIN commands = 1..n
      /\ \A i \in 1..n : commands[i] \in Request /\ ~ Garbled(commands[i])
  OBVIOUS
<1>2. DOMAIN read = 1..n /\ \A i \in 1..n : read[i] = Arrived(commands[i])
  OBVIOUS
<1>3. r = ParseCommands(m, read)
  OBVIOUS
<1> HIDE DEF read, n
<1>4. PICK w : Parses(w, m, read, n)
  BY <1>1, <1>2, ParseTurns
<1>5. PICK x : Asks(x, q, commands, n)
  BY <1>1, AskTurns
<1>6. /\ w[0] = m /\ r = w[n]
      /\ \A k \in 1..n : w[k] = Parse(w[k - 1], read[k])
  BY <1>3, <1>4 DEF Parses
<1>7. /\ x[0] = q /\ AskAll(q, commands) = x[n]
      /\ \A k \in 1..n : x[k] = Ask(x[k - 1], commands[k])
  BY <1>5 DEF Asks
<1> DEFINE S == {k \in 0..n : /\ w[k] \in Mac /\ x[k] \in Seq(Request)
                              /\ ~ w[k].failed => Agreed(v, x[k], w[k])}
<1>8. 0 \in S
  BY <1>1, <1>6, <1>7
<1>9. ASSUME NEW k \in 1..n, k - 1 \in S
      PROVE  k \in S
  <2> DEFINE before == w[k - 1]
             waiting == x[k - 1]
             c == commands[k]
  <2>1. /\ before \in Mac /\ waiting \in Seq(Request) /\ c \in Request /\ ~ Garbled(c)
        /\ ~ before.failed => Agreed(v, waiting, before)
    BY <1>1, <1>9
  <2>2. w[k] = Parse(before, Arrived(c)) /\ x[k] = Ask(waiting, c)
    BY <1>2, <1>6, <1>7
  <2> HIDE DEF before, waiting, c
  <2>3. x[k] \in Seq(Request)
    BY <2>1, <2>2, AskIsTyped
  <2>4. CASE before.failed
    <3>1. w[k] = before
      BY <2>2, <2>4, FailedStays
    <3>2. w[k] \in Mac /\ w[k].failed
      BY <2>1, <2>4, <3>1
    <3> HIDE DEF S
    <3>3. /\ w[k] \in Mac /\ x[k] \in Seq(Request)
          /\ ~ w[k].failed => Agreed(v, x[k], w[k])
      BY <2>3, <3>2
    <3> QED BY <3>3 DEF S
  <2>5. CASE ~ before.failed
    <3>1. Arrived(c) \in Request
      BY <2>1, RequestArrives DEF Alike
    <3>2. w[k] \in Mac
      BY <2>1, <2>2, <2>5, <3>1, CommandIsSafe DEF Carried
    <3>3. ~ w[k].failed => Agreed(v, x[k], w[k])
      BY <2>1, <2>2, <2>5, TurnAgrees
    <3> QED BY <2>3, <3>2, <3>3
  <2> QED BY <2>4, <2>5
<1>10. \A k \in 0..n : k \in S
  <2> HIDE DEF S
  <2> QED BY <1>1, <1>8, <1>9, UpTo
<1>11. n \in S
  BY <1>1, <1>10
<1> QED BY <1>6, <1>7, <1>11

-----------------------------------------------------------------------------
(* The inductive invariant of the first theorems.  Sound says more than    *)
(* the properties: that a Send cannot fail, and why.                       *)
SafetyInv ==
  /\ mac \in Mac /\ resting \subseteq SubBands /\ asked \in Seq(Request)
  /\ blind \in BOOLEAN /\ risky \in BOOLEAN
  /\ ~ risky => Sound(mac)

LEMMA InitIsMac ==
  ASSUME Init
  PROVE  mac \in Mac /\ Sound(mac)
<1> DEFINE start == [i \in DefaultChannels |->
                       LogicalLoraChannel(<<868, 100 + 200 * i>>, 0, 5)]
<1>1. \A i \in DefaultChannels :
        /\ start[i] \in Channel /\ start[i].frequency = <<868, 100 + 200 * i>>
        /\ Supports(start[i], 0)
  <2> TAKE i \in DefaultChannels
  <2>1. <<868, 100 + 200 * i>> \in Frequencies
    BY DEF Frequencies, DefaultChannels
  <2> DEFINE f == <<868, 100 + 200 * i>>
  <2>2. start[i] = [frequency |-> f, min |-> 0, max |-> 5, enabled |-> TRUE]
    BY DEF LogicalLoraChannel
  <2>3. f \in Frequencies
    BY <2>1
  <2> HIDE DEF f, start
  <2>4. start[i] \in Channel /\ start[i].frequency = f /\ Supports(start[i], 0)
    BY <2>2, <2>3 DEF Channel, Nibble, Supports
  <2> QED BY <2>4 DEF f
<1>2. start \in Channels
  BY <1>1 DEF Channels
<1>3. << >> \in Lists /\ <<869, 525>> \in Frequencies
  BY EmptySeq DEF Lists, Frequencies
<1>4. mac = [dataRate |-> 0, txPower |-> 14, rx1DrOffset |-> 0,
             secondReceiveWindowDataRate |-> 0,
             secondReceiveWindowFrequency |-> <<869, 525>>,
             aggregatedDutyCycle |-> 0,
             lastKnownLinkMargin |-> 0, lastKnownGatewayCount |-> 0,
             channels |-> start, macCommandList |-> << >>, failed |-> FALSE]
  BY DEF Init
<1> HIDE DEF start
<1>5. mac \in Mac
  BY <1>2, <1>3, <1>4 DEF Mac, DataRates, Powers, Byte
<1>6. Safe(mac.channels, mac.dataRate, mac.txPower)
  BY <1>1, <1>4 DEF Safe, DefaultChannels
<1> QED BY <1>4, <1>5, <1>6 DEF Sound

(* The default channels lie in a sub-band, and every sub-band allows 14    *)
(* dBm: a sound MAC does not fail in Send.                                 *)
LEMMA SoundSends ==
  ASSUME Sound(mac)
  PROVE  ~ SendFails
<1>1. /\ DOMAIN mac.channels = DefaultChannels /\ mac.txPower <= 14
      /\ mac.txPower \in Powers /\ mac.rx1DrOffset \in 0..5
      /\ \A i \in DefaultChannels : mac.channels[i].frequency = <<868, 100 + 200 * i>>
  BY DEF Sound, Safe, Mac, Channels
<1>2. ASSUME NEW i \in DefaultChannels
      PROVE  SubBandsOf(mac.channels[i]) # {}
  <2> DEFINE band == [first |-> <<868, 0>>, last |-> <<868, 600>>, maxTxPowerDbm |-> 14]
  <2>1. band \in SubBands
    BY DEF SubBands
  <2>2. BelongsToSubBand(<<868, 100 + 200 * i>>, band)
    BY DEF BelongsToSubBand, Below, DefaultChannels
  <2> HIDE DEF band
  <2>3. band \in SubBandsOf(mac.channels[i])
    BY <1>1, <2>1, <2>2 DEF SubBandsOf
  <2> QED BY <2>3
<1>3. \A band \in SubBands : band.maxTxPowerDbm \in {14, 27}
  BY DEF SubBands
<1>4. \A i \in DefaultChannels : \A band \in SubBandsOf(mac.channels[i]) :
        ~ (mac.txPower > band.maxTxPowerDbm)
  <2>1. \A i \in DefaultChannels : SubBandsOf(mac.channels[i]) \subseteq SubBands
    BY DEF SubBandsOf
  <2>2. mac.txPower \in Nat
    BY <1>1 DEF Powers
  <2> QED BY <1>1, <1>3, <2>1, <2>2
<1>5. ~ (mac.rx1DrOffset > 5)
  BY <1>1
<1> QED BY <1>1, <1>2, <1>4, <1>5 DEF SendFails

LEMMA ReceiveIsSafe ==
  ASSUME SafetyInv, NEW commands \in Downlinks, Receive(commands)
  PROVE  SafetyInv'
<1> DEFINE read == ReadBack(FALSE, commands)
           n == Len(commands)
<1>1. commands \in Seq(Request)
  BY DownlinksAssumption
<1>2. n \in Nat /\ \A i \in 1..n : commands[i] \in Request
  BY <1>1
<1>3. PICK e \in 0..n : read = [i \in 1..e |-> Arrived(commands[i])]
  BY <1>1, DownlinkIsRead DEF FirstOnes
<1>4. e \in Nat /\ e <= n
  BY <1>2
<1>5. /\ mac \in Mac /\ ~ mac.failed /\ mac' = ParseCommands(mac, read)
      /\ asked \in Seq(Request) /\ resting \subseteq SubBands /\ resting' = resting
      /\ risky' = (risky \/ \E i \in 1..n : Dangerous(commands[i]))
      /\ asked' = IF blind' THEN << >> ELSE AskAll(asked, commands)
      /\ blind' = (blind \/ ~ ArrivesAsSent(commands) \/ mac'.failed)
      /\ blind \in BOOLEAN /\ risky \in BOOLEAN /\ (~ risky => Sound(mac))
  BY DEF SafetyInv, Receive, Keep
<1> HIDE DEF read, n
<1>6. /\ mac' \in Mac
      /\ Sound(mac) /\ (\A i \in 1..e : ~ Dangerous(commands[i])) => Sound(mac')
  <2>1. \A i \in 1..e : commands[i] \in Request
    BY <1>2, <1>4
  <2>2. mac' = ParseCommands(mac, [i \in 1..e |-> Arrived(commands[i])])
    BY <1>3, <1>5
  <2>3. LET r == ParseCommands(mac, [i \in 1..e |-> Arrived(commands[i])])
        IN /\ r \in Mac
           /\ Sound(mac) /\ (\A i \in 1..e : ~ Dangerous(commands[i])) => Sound(r)
    BY <1>4, <1>5, <2>1, LoopIsSafe
  <2> QED BY <2>2, <2>3
<1>7. ~ risky' => Sound(mac')
  <2>1. ~ risky' => Sound(mac) /\ \A i \in 1..n : ~ Dangerous(commands[i])
    BY <1>5
  <2>2. 1..e \subseteq 1..n
    BY <1>2, <1>4
  <2> QED BY <1>6, <2>1, <2>2
<1>8. asked' \in Seq(Request)
  BY <1>1, <1>5, AskAllIsTyped, EmptySeq
<1>9. blind' \in BOOLEAN /\ risky' \in BOOLEAN
  <2>1. blind' \in BOOLEAN
    BY <1>5
  <2>2. risky' \in BOOLEAN
    BY <1>5
  <2> QED BY <2>1, <2>2
<1> QED BY <1>5, <1>6, <1>7, <1>8, <1>9 DEF SafetyInv, Sound

LEMMA EmptiedIsMac ==
  ASSUME NEW m \in Mac
  PROVE  /\ ApplyNecessaryOptions(m) \in Mac
         /\ ApplyNecessaryOptions(m).failed = m.failed
         /\ ApplyNecessaryOptions(m).macCommandList = << >>
         /\ Settings(ApplyNecessaryOptions(m)) = Settings(m)
         /\ Sound(m) => Sound(ApplyNecessaryOptions(m))
<1> DEFINE r == ApplyNecessaryOptions(m)
<1>1. r = [m EXCEPT !.macCommandList = << >>] /\ << >> \in Lists
  BY EmptySeq DEF ApplyNecessaryOptions, Lists
<1> HIDE DEF r
<1>2. r \in Mac /\ r.macCommandList = << >>
  BY <1>1 DEF Mac
<1>3. /\ r.failed = m.failed /\ r.channels = m.channels
      /\ r.dataRate = m.dataRate /\ r.txPower = m.txPower
      /\ r.rx1DrOffset = m.rx1DrOffset
      /\ r.secondReceiveWindowDataRate = m.secondReceiveWindowDataRate
      /\ r.secondReceiveWindowFrequency = m.secondReceiveWindowFrequency
      /\ r.aggregatedDutyCycle = m.aggregatedDutyCycle
  BY <1>1 DEF Mac
<1>4. Settings(r) = Settings(m)
  BY <1>3 DEF Settings
<1>5. Sound(m) => Sound(r)
  BY <1>2, <1>3 DEF Sound
<1> QED BY <1>2, <1>3, <1>4, <1>5 DEF r

LEMMA SendIsSafe ==
  ASSUME SafetyInv, NEW heard \in BOOLEAN, Send(heard)
  PROVE  SafetyInv'
<1>1. /\ mac' = ApplyNecessaryOptions(mac) /\ risky' = risky
      /\ blind' = (\/ blind
                   \/ asked # << >> /\ ~ (heard /\ Fits(mac.macCommandList))
                   \/ mac'.failed)
      /\ asked' = IF blind' THEN << >> ELSE << >>
  BY DEF Send, Keep
<1>2. resting' \subseteq SubBands
  <2>1. \E i \in DOMAIN mac.channels : \E band \in SubBandsOf(mac.channels[i]) \ resting :
          mac.txPower <= band.maxTxPowerDbm /\ resting' = resting \cup {band}
    BY DEF Send
  <2>2. PICK i \in DOMAIN mac.channels :
          \E band \in SubBandsOf(mac.channels[i]) \ resting : resting' = resting \cup {band}
    BY <2>1
  <2>3. PICK band \in SubBandsOf(mac.channels[i]) : resting' = resting \cup {band}
    BY <2>2
  <2> QED BY <2>3 DEF SafetyInv, SubBandsOf
<1>3. mac' \in Mac /\ (~ risky' => Sound(mac'))
  BY <1>1, EmptiedIsMac DEF SafetyInv
<1>4. asked' \in Seq(Request) /\ risky' \in BOOLEAN
  BY <1>1, EmptySeq DEF SafetyInv
<1>5. blind' \in BOOLEAN
  BY <1>1 DEF SafetyInv
<1> QED BY <1>2, <1>3, <1>4, <1>5 DEF SafetyInv, Sound

LEMMA SafetyIsInductive ==
  /\ Init => SafetyInv
  /\ SafetyInv /\ [Next]_vars => SafetyInv'
<1>1. Init => SafetyInv
  <2> SUFFICES ASSUME Init PROVE SafetyInv
    OBVIOUS
  <2>1. mac \in Mac /\ Sound(mac)
    BY InitIsMac
  <2>2. /\ resting = {} /\ asked = << >> /\ blind = FALSE /\ risky = FALSE
        /\ mac.failed = FALSE
    BY DEF Init
  <2>3. asked \in Seq(Request)
    BY <2>2, EmptySeq
  <2> QED BY <2>1, <2>2, <2>3 DEF SafetyInv
<1>2. ASSUME SafetyInv, [Next]_vars
      PROVE  SafetyInv'
  <2>1. CASE UNCHANGED vars
    BY <1>2, <2>1 DEF vars, SafetyInv, Sound
  <2>2. ASSUME NEW commands \in Downlinks, Receive(commands)
        PROVE  SafetyInv'
    BY <1>2, <2>2, ReceiveIsSafe
  <2>3. ASSUME NEW heard \in BOOLEAN, Send(heard)
        PROVE  SafetyInv'
    BY <1>2, <2>3, SendIsSafe
  <2>4. CASE SendFails
    <3>1. risky
      BY <1>2, <2>4, SoundSends DEF SafetyInv
    <3>2. mac' \in Mac
      BY <1>2, <2>4 DEF SafetyInv, SendFails, Fail, Mac
    <3> QED BY <1>2, <2>4, <3>1, <3>2 DEF SafetyInv, SendFails
  <2>5. CASE RestEnds
    <3>1. resting' \subseteq SubBands
      BY <1>2, <2>5 DEF SafetyInv, RestEnds
    <3> QED BY <1>2, <2>5, <3>1 DEF SafetyInv, RestEnds, Sound
  <2> QED BY <1>2, <2>1, <2>2, <2>3, <2>4, <2>5 DEF Next
<1> QED BY <1>1, <1>2

LEMMA SafetyAlways == Spec => []SafetyInv
<1> QED BY SafetyIsInductive, PTL DEF Spec

(* The settings of the device, its answers and the requests that wait are  *)
(* of their types, whatever the server sends and however often.            *)
THEOREM CommandTypes == Spec => []TypeOK
<1>1. SafetyInv => TypeOK
  <2> SUFFICES ASSUME SafetyInv
               PROVE  TypeOK
    OBVIOUS
  <2>1. /\ mac.dataRate \in 0..6 /\ mac.secondReceiveWindowDataRate \in 0..6
        /\ mac.txPower \in Powers /\ mac.rx1DrOffset \in 0..5
        /\ mac.aggregatedDutyCycle \in 0..255 /\ mac.lastKnownLinkMargin \in 0..255
        /\ mac.lastKnownGatewayCount \in 0..255 /\ mac.channels \in Channels
        /\ mac.macCommandList \in Lists /\ mac.failed \in BOOLEAN
    BY DEF SafetyInv, Mac, DataRates, Byte
  <2>2. mac.txPower \in {TxDbmForTxPower[i] : i \in 1..Len(TxDbmForTxPower)}
    BY <2>1 DEF Powers, TxDbmForTxPower
  <2>3. /\ DOMAIN mac.channels = DefaultChannels
        /\ \A i \in DefaultChannels :
             /\ mac.channels[i].enabled \in BOOLEAN
             /\ {mac.channels[i].min, mac.channels[i].max} \subseteq 0..15
    BY <2>1 DEF Channels, Channel, Nibble
  <2>4. \A i \in 1..Len(mac.macCommandList) :
          mac.macCommandList[i].class \in
            {"LinkAdrAns", "DutyCycleAns", "RxParamSetupAns", "DevStatusAns", "NewChannelAns"}
    <3>1. \A a \in Answers :
            a.class \in {"LinkAdrAns", "DutyCycleAns", "RxParamSetupAns", "DevStatusAns",
                         "NewChannelAns"}
      BY DEF Answers, LinkAdrAns, RxParamSetupAns, DutyCycleAns, DevStatusAns, NewChannelAns
    <3>2. \A i \in 1..Len(mac.macCommandList) : mac.macCommandList[i] \in Answers
      BY <2>1 DEF Lists
    <3> QED BY <3>1, <3>2
  <2>5. \A i \in 1..Len(asked) : asked[i].class \in DOMAIN CID
    <3>1. \A c \in Request : c.class \in DOMAIN CID
      BY Classes DEF CID
    <3>2. \A i \in 1..Len(asked) : asked[i] \in Request
      BY DEF SafetyInv
    <3> QED BY <3>1, <3>2
  <2> QED BY <2>1, <2>2, <2>3, <2>4, <2>5 DEF SafetyInv, TypeOK
<1> QED BY <1>1, SafetyAlways, PTL

(* Only a dangerous request can end the program, in a handler or in a      *)
(* Send however much later.                                                *)
THEOREM OnlyDangerFails == Spec => []FailsOnlyIfRisky
<1>1. SafetyInv => FailsOnlyIfRisky
  BY DEF SafetyInv, Sound, FailsOnlyIfRisky
<1> QED BY <1>1, SafetyAlways, PTL

(* No sequence of the other requests leaves the device without an enabled  *)
(* channel for its data rate.                                              *)
THEOREM ChannelRemains == Spec => []EnabledChannelSupports
<1>1. SafetyInv => EnabledChannelSupports
  BY DEF SafetyInv, Sound, Safe, Supports, Mac, Channels, EnabledChannelSupports
<1> QED BY <1>1, SafetyAlways, PTL

-----------------------------------------------------------------------------
(* With the answers that are under way the server's view agrees.           *)
ViewInv == ~ blind /\ ~ mac.failed => Agreed(view, asked, mac)

LEMMA ReceiveAgrees ==
  ASSUME SafetyInv, ViewInv, NEW commands \in Downlinks, Receive(commands)
  PROVE  ViewInv'
<1> SUFFICES ASSUME ~ blind', ~ mac'.failed
             PROVE  Agreed(view', asked', mac')
  BY DEF ViewInv
<1>1. commands \in Seq(Request)
  BY DownlinksAssumption
<1>2. /\ mac \in Mac /\ ~ mac.failed /\ asked \in Seq(Request)
      /\ mac' = ParseCommands(mac, ReadBack(FALSE, commands))
      /\ ~ blind /\ Fits(commands)
      /\ \A i \in 1..Len(commands) : ~ Garbled(commands[i])
      /\ asked' = AskAll(asked, commands) /\ view' = view
  BY DEF SafetyInv, Receive, Keep, ArrivesAsSent
<1>3. ReadBack(FALSE, commands) = [i \in 1..Len(commands) |-> Arrived(commands[i])]
  BY <1>1, <1>2, DownlinkIsRead DEF FirstOnes
<1>4. Agreed(view, asked, mac)
  BY <1>2 DEF ViewInv
<1> DEFINE r == mac'
<1>5. /\ r = ParseCommands(mac, [i \in 1..Len(commands) |-> Arrived(commands[i])])
      /\ ~ r.failed
  BY <1>2, <1>3
<1> HIDE DEF r
<1>6. Agreed(view, AskAll(asked, commands), r)
  BY <1>1, <1>2, <1>4, <1>5, LoopAgrees
<1> QED BY <1>2, <1>6 DEF r

LEMMA SendAgrees ==
  ASSUME SafetyInv, ViewInv, NEW heard \in BOOLEAN, Send(heard)
  PROVE  ViewInv'
<1> SUFFICES ASSUME ~ blind', ~ mac'.failed
             PROVE  Agreed(view', asked', mac')
  BY DEF ViewInv
<1> DEFINE sent == mac.macCommandList
           answers == ReadBack(TRUE, sent)
<1>1. /\ mac \in Mac /\ ~ mac.failed /\ asked \in Seq(Request) /\ ~ blind
      /\ mac' = ApplyNecessaryOptions(mac) /\ sent \in Lists
      /\ asked = << >> \/ Fits(sent)
      /\ asked' = << >> /\ view' = Believe(view, asked, answers)
  <2>1. mac.macCommandList \in Lists
    BY DEF SafetyInv, Mac
  <2> QED BY <2>1 DEF SafetyInv, Send, Keep
<1> HIDE DEF answers
<1>2. Len(asked) = Len(sent) /\ Believe(view, asked, sent) = Settings(mac)
  BY <1>1 DEF ViewInv, Agreed
<1>3. view' = Settings(mac)
  <2>1. CASE asked = << >>
    BY <1>1, <1>2, <2>1, BelieveNone
  <2>2. CASE Fits(sent)
    <3>1. answers = [i \in 1..Len(sent) |-> Arrived(sent[i])]
      BY <1>1, <2>2, UplinkIsRead DEF FirstOnes, answers
    <3>2. \A i \in 1..Len(sent) : sent[i] \in Answers
      BY <1>1 DEF Lists
    <3>3. answers = [i \in 1..Len(sent) |-> sent[i]]
      BY <3>1, <3>2, AnswerArrives
    <3>4. sent = [i \in 1..Len(sent) |-> sent[i]]
      BY <1>1 DEF Lists
    <3> QED BY <1>1, <1>2, <3>3, <3>4
  <2> QED BY <1>1, <2>1, <2>2
<1>4. mac'.macCommandList = << >> /\ Settings(mac') = Settings(mac)
  BY <1>1, EmptiedIsMac
<1>5. Believe(view', << >>, << >>) = view'
  BY BelieveNone
<1> QED BY <1>1, <1>3, <1>4, <1>5 DEF Agreed

LEMMA ViewIsInductive ==
  /\ Init => ViewInv
  /\ SafetyInv /\ ViewInv /\ [Next]_vars => ViewInv'
<1>1. Init => ViewInv
  <2> SUFFICES ASSUME Init
               PROVE  ViewInv
    OBVIOUS
  <2>1. asked = << >> /\ view = Settings(mac) /\ mac.macCommandList = << >>
    BY DEF Init
  <2> QED BY <2>1, BelieveNone DEF ViewInv, Agreed
<1>2. ASSUME SafetyInv, ViewInv, [Next]_vars
      PROVE  ViewInv'
  <2>1. CASE UNCHANGED vars
    BY <1>2, <2>1 DEF vars, ViewInv
  <2>2. ASSUME NEW commands \in Downlinks, Receive(commands)
        PROVE  ViewInv'
    BY <1>2, <2>2, ReceiveAgrees
  <2>3. ASSUME NEW heard \in BOOLEAN, Send(heard)
        PROVE  ViewInv'
    BY <1>2, <2>3, SendAgrees
  <2>4. CASE SendFails
    <3>1. mac'.failed
      BY <1>2, <2>4 DEF SafetyInv, SendFails, Fail, Mac
    <3> QED BY <3>1 DEF ViewInv
  <2>5. CASE RestEnds
    BY <1>2, <2>5 DEF RestEnds, ViewInv
  <2> QED BY <1>2, <2>1, <2>2, <2>3, <2>4, <2>5 DEF Next
<1> QED BY <1>1, <1>2

(* Server and device agree on all settings whenever no answer is under     *)
(* way: no sequence of requests that reach the device as they were sent,   *)
(* of any length and in any values of their fields, makes them disagree.   *)
THEOREM ServerAndDeviceAgree == Spec => []ViewAgrees
<1>1. SafetyInv /\ ViewInv => ViewAgrees
  <2> SUFFICES ASSUME ViewInv, asked = << >>, ~ blind, ~ mac.failed
               PROVE  view = Settings(mac)
    BY DEF ViewAgrees
  <2>1. Believe(view, << >>, mac.macCommandList) = Settings(mac)
    BY DEF ViewInv, Agreed
  <2> QED BY <2>1, BelieveNone
<1> QED BY <1>1, ViewIsInductive, SafetyAlways, PTL DEF Spec
=============================================================================

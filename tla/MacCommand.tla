------------------------------ MODULE MacCommand ------------------------------
(***************************************************************************)
(* The MAC commands a network server and an end device exchange: the       *)
(* classes of mac-command.cc, what each writes into a frame and what it    *)
(* reads back.  A command is a record with the name of its class and its   *)
(* fields.                                                                 *)
(*                                                                         *)
(* A frequency is a C++ double: here its whole part and its thousandths,   *)
(* <<868, 100>> for 868.1.  The code does not say which unit it is in:     *)
(* channels count in MHz, commands in Hz.                                  *)
(***************************************************************************)
EXTENDS Integers, Sequences

(* GetCIDFromMacCommand of the type that the constructor of each class     *)
(* sets.  Four constructors set DEV_STATUS_REQ, that of another class.     *)
CID ==
  [LinkCheckReq |-> 2, LinkCheckAns |-> 2, LinkAdrReq |-> 3, LinkAdrAns |-> 3,
   DutyCycleReq |-> 4, DutyCycleAns |-> 4, RxParamSetupReq |-> 5,
   RxParamSetupAns |-> 5, DevStatusReq |-> 6, DevStatusAns |-> 6,
   NewChannelReq |-> 7, NewChannelAns |-> 7, RxTimingSetupReq |-> 8,
   RxTimingSetupAns |-> 6, DlChannelAns |-> 6, TxParamSetupReq |-> 6,
   TxParamSetupAns |-> 6]

(* m_serializedSize, set by the constructors *)
SerializedSize ==
  [LinkCheckReq |-> 1, LinkCheckAns |-> 3, LinkAdrReq |-> 5, LinkAdrAns |-> 2,
   DutyCycleReq |-> 2, DutyCycleAns |-> 1, RxParamSetupReq |-> 5,
   RxParamSetupAns |-> 2, DevStatusReq |-> 1, DevStatusAns |-> 3,
   NewChannelReq |-> 6, NewChannelAns |-> 2, RxTimingSetupReq |-> 2,
   RxTimingSetupAns |-> 1, DlChannelAns |-> 1, TxParamSetupReq |-> 1,
   TxParamSetupAns |-> 1]

-----------------------------------------------------------------------------
(* Four bits above four bits, in one byte. *)
Nibbles(high, low) == ((16 * high) % 256) + (low % 16)

High(byte) == byte \div 16

Low(byte) == byte % 16

Flag(ack) == IF ack THEN 1 ELSE 0

(* The bit of that weight *)
Bit(n, weight) == (n \div weight) % 2 = 1

(* The three bytes of uint32_t (m_frequency / 100), the first the highest. *)
FrequencyBytes(frequency) ==
  LET encoded == frequency[1] \div 100
  IN << (encoded \div 65536) % 256, (encoded \div 256) % 256, encoded % 256 >>

FrequencyFrom(high, middle, low) ==
  << 100 * (65536 * high + 256 * middle + low), 0 >>

(* Buffer::Iterator writes and reads two bytes with the lower one first. *)
U16Bytes(n) == << n % 256, (n \div 256) % 256 >>

U16From(first, second) == first + 256 * second

-----------------------------------------------------------------------------
LinkAdrReqData(c) ==
  LET mask == U16Bytes(c.channelMask)
  IN << Nibbles(c.dataRate, c.txPower), mask[1], mask[2],
        Nibbles(c.chMaskCntl, c.nbRep) >>

LinkAdrReqFrom(b) ==
  [class |-> "LinkAdrReq", dataRate |-> High(b[2]), txPower |-> Low(b[2]),
   channelMask |-> U16From(b[3], b[4]), chMaskCntl |-> High(b[5]),
   nbRep |-> Low(b[5])]

(* LinkAdrReq::GetEnabledChannelsList *)
EnabledChannelsList(c) == {i \in 0..15 : Bit(c.channelMask, 2^i)}

LinkAdrAnsData(c) ==
  << 4 * Flag(c.powerAck) + 2 * Flag(c.dataRateAck) + Flag(c.channelMaskAck) >>

LinkAdrAnsFrom(b) ==
  [class |-> "LinkAdrAns", powerAck |-> Bit(b[2], 4),
   dataRateAck |-> Bit(b[2], 2), channelMaskAck |-> Bit(b[2], 1)]

(* The offset has three bits: the bits above it are cut off. *)
RxParamSetupReqData(c) ==
  LET code == FrequencyBytes(c.frequency)
  IN << Nibbles(c.rx1DrOffset % 8, c.rx2DataRate), code[1], code[2], code[3] >>

RxParamSetupReqFrom(b) ==
  [class |-> "RxParamSetupReq", rx1DrOffset |-> High(b[2]) % 8,
   rx2DataRate |-> Low(b[2]), frequency |-> FrequencyFrom(b[3], b[4], b[5])]

RxParamSetupAnsData(c) ==
  << 4 * Flag(c.rx1DrOffsetAck) + 2 * Flag(c.rx2DataRateAck) + Flag(c.channelAck) >>

RxParamSetupAnsFrom(b) ==
  [class |-> "RxParamSetupAns", rx1DrOffsetAck |-> Bit(b[2], 4),
   rx2DataRateAck |-> Bit(b[2], 2), channelAck |-> Bit(b[2], 1)]

NewChannelReqData(c) ==
  LET code == FrequencyBytes(c.frequency)
  IN << c.chIndex, code[1], code[2], code[3],
        Nibbles(c.maxDataRate, c.minDataRate) >>

(* The first two of the three bytes of the frequency are read as one       *)
(* number of two bytes, the lower one first.                               *)
NewChannelReqFrom(b) ==
  [class |-> "NewChannelReq", chIndex |-> b[2],
   frequency |-> << 100 * (256 * U16From(b[3], b[4]) + b[5]), 0 >>,
   maxDataRate |-> High(b[6]), minDataRate |-> Low(b[6])]

NewChannelAnsData(c) ==
  << 2 * Flag(c.dataRateRangeOk) + Flag(c.channelFrequencyOk) >>

NewChannelAnsFrom(b) ==
  [class |-> "NewChannelAns", dataRateRangeOk |-> Bit(b[2], 2),
   channelFrequencyOk |-> Bit(b[2], 1)]

-----------------------------------------------------------------------------
(* Serialize of a command: its CID and its data.  The classes that are not *)
(* named have none.                                                        *)
Data(c) ==
  CASE c.class = "LinkCheckAns" -> << c.margin, c.gwCnt >>
    [] c.class = "LinkAdrReq" -> LinkAdrReqData(c)
    [] c.class = "LinkAdrAns" -> LinkAdrAnsData(c)
    [] c.class = "DutyCycleReq" -> << c.maxDCycle >>
    [] c.class = "RxParamSetupReq" -> RxParamSetupReqData(c)
    [] c.class = "RxParamSetupAns" -> RxParamSetupAnsData(c)
    [] c.class = "DevStatusAns" -> << c.battery, c.margin >>
    [] c.class = "NewChannelReq" -> NewChannelReqData(c)
    [] c.class = "NewChannelAns" -> NewChannelAnsData(c)
    [] c.class = "RxTimingSetupReq" -> << c.delay % 16 >>
    [] OTHER -> << >>

Serialize(c) == << CID[c.class] >> \o Data(c)

(* Deserialize of a command of that class from the bytes b. *)
Deserialize(class, b) ==
  CASE class = "LinkCheckAns" -> [class |-> class, margin |-> b[2], gwCnt |-> b[3]]
    [] class = "LinkAdrReq" -> LinkAdrReqFrom(b)
    [] class = "LinkAdrAns" -> LinkAdrAnsFrom(b)
    [] class = "DutyCycleReq" -> [class |-> class, maxDCycle |-> b[2]]
    [] class = "RxParamSetupReq" -> RxParamSetupReqFrom(b)
    [] class = "RxParamSetupAns" -> RxParamSetupAnsFrom(b)
    [] class = "DevStatusAns" ->
         [class |-> class, battery |-> b[2], margin |-> b[3] % 64]
    [] class = "NewChannelReq" -> NewChannelReqFrom(b)
    [] class = "NewChannelAns" -> NewChannelAnsFrom(b)
    [] class = "RxTimingSetupReq" -> [class |-> class, delay |-> b[2] % 16]
    [] OTHER -> [class |-> class]

-----------------------------------------------------------------------------
(* What the fields of a command can hold: those of four bits are cut off   *)
(* or run into each other beyond them.                                     *)
Byte == 0..255

Nibble == 0..15

Words == {n \in Nat : n < 65536}

Frequencies == Nat \X Nat

LinkCheckAns == [class : {"LinkCheckAns"}, margin : Byte, gwCnt : Byte]

LinkAdrReq ==
  [class : {"LinkAdrReq"}, dataRate : Nibble, txPower : Nibble,
   channelMask : Words, chMaskCntl : Nibble, nbRep : Nibble]

DutyCycleReq == [class : {"DutyCycleReq"}, maxDCycle : Byte]

RxParamSetupReq ==
  [class : {"RxParamSetupReq"}, rx1DrOffset : 0..7, rx2DataRate : Nibble,
   frequency : Frequencies]

DevStatusReq == [class : {"DevStatusReq"}]

NewChannelReq ==
  [class : {"NewChannelReq"}, chIndex : Byte, frequency : Frequencies,
   maxDataRate : Nibble, minDataRate : Nibble]

RxTimingSetupReq == [class : {"RxTimingSetupReq"}, delay : Nibble]

(* The commands of a server *)
Request ==
  LinkCheckAns \cup LinkAdrReq \cup DutyCycleReq \cup RxParamSetupReq
    \cup DevStatusReq \cup NewChannelReq \cup RxTimingSetupReq
=============================================================================

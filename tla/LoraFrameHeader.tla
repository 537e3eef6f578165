--------------------------- MODULE LoraFrameHeader ---------------------------
(***************************************************************************)
(* The MAC commands in a frame header: LoraFrameHeader::Serialize and      *)
(* Deserialize.  The other fields of the header are left out.              *)
(***************************************************************************)
EXTENDS MacCommand, SequencesExt

(* FPort, the byte behind the commands: ApplyNecessaryOptions sets 1. *)
FPort == 1

(* The uint8_t m_fOptsLen that AddCommand and the other Add... keep *)
FOptsLen(commands) ==
  FoldLeft(LAMBDA length, c : (length + SerializedSize[c.class]) % 256, 0, commands)

(* Of the length three bits are written, of the commands all bytes. *)
SerializeHeader(commands) ==
  [fOptsLen |-> FOptsLen(commands) % 8,
   bytes |-> FlattenSeq([i \in 1..Len(commands) |-> Serialize(commands[i])])
               \o << FPort >>]

(* A CID means another command in an uplink than in a downlink. *)
UplinkClass ==
  << "", "LinkCheckReq", "LinkAdrAns", "DutyCycleAns", "RxParamSetupAns",
     "DevStatusAns", "NewChannelAns", "RxTimingSetupAns", "TxParamSetupAns",
     "DlChannelAns" >>

DownlinkClass ==
  << "", "LinkCheckAns", "LinkAdrReq", "DutyCycleReq", "RxParamSetupReq",
     "DevStatusReq", "NewChannelReq", "RxTimingSetupReq", "TxParamSetupReq" >>

(* What the loop yields when it meets a CID it does not know: byteNumber   *)
(* no longer grows and the loop never ends.                                *)
Endless == [class |-> "Endless"]

(* The commands that are read until byteNumber has reached the length.     *)
(* The payload behind FPort is zero.                                       *)
DeserializeHeader(isUplink, header) ==
  LET class == IF isUplink THEN UplinkClass ELSE DownlinkClass
      byte(i) == IF i <= Len(header.bytes) THEN header.bytes[i] ELSE 0
      from[byteNumber \in Nat] ==
        LET cid == byte(byteNumber + 1)
        IN IF byteNumber >= header.fOptsLen THEN << >>
           ELSE IF cid \in 2..Len(class)
           THEN LET size == SerializedSize[class[cid]]
                    bytes == [i \in 1..size |-> byte(byteNumber + i)]
                IN << Deserialize(class[cid], bytes) >> \o from[byteNumber + size]
           ELSE << Endless >>
  IN from[0]

(* What the receiver of a frame with these commands finds in it. *)
ReadBack(isUplink, commands) ==
  DeserializeHeader(isUplink, SerializeHeader(commands))
=============================================================================

------------------------ MODULE MCEndDeviceCommands ------------------------
(***************************************************************************)
(* Requests for the model checker: for each command values that a device   *)
(* accepts, values it refuses, and values one past its tables.  A channel  *)
(* index is given as a bit of the mask.                                    *)
(***************************************************************************)
EXTENDS EndDeviceCommands

LinkAdr(dataRate, txPower, mask) ==
  [class |-> "LinkAdrReq", dataRate |-> dataRate, txPower |-> txPower,
   channelMask |-> mask, chMaskCntl |-> 0, nbRep |-> 1]

RxParam(offset, dataRate, hz) ==
  [class |-> "RxParamSetupReq", rx1DrOffset |-> offset, rx2DataRate |-> dataRate,
   frequency |-> <<hz, 0>>]

NewChannel(i, frequency, low, high) ==
  [class |-> "NewChannelReq", chIndex |-> i, frequency |-> frequency,
   minDataRate |-> low, maxDataRate |-> high]

(* Two of these fill more than the seven bytes of a frame if both are for  *)
(* the data rate or the second window.                                     *)
Answered ==
  { LinkAdr(5, 1, 7), LinkAdr(3, 2, 2),   \* all channels; the second only
    LinkAdr(6, 1, 7), LinkAdr(2, 9, 1),   \* no channel has the data rate; no such power
    RxParam(3, 5, 868300000), RxParam(6, 2, 868300000),
    [class |-> "DutyCycleReq", maxDCycle |-> 2],
    [class |-> "DevStatusReq"] }

Others ==
  { LinkAdr(9, 1, 16),                    \* neither data rate nor channel exist
    LinkAdr(4, 3, 9),                     \* the first channel and one past the last
    LinkAdr(6, 1, 8),                     \* only one past the last
    LinkAdr(7, 1, 7), LinkAdr(2, 8, 7),   \* one past the tables
    LinkAdr(1, 0, 7),                     \* the highest power
    LinkAdr(1, 1, 0),                     \* no channel at all
    RxParam(1, 7, 868300000),
    [class |-> "DutyCycleReq", maxDCycle |-> 0],
    [class |-> "LinkCheckAns", margin |-> 10, gwCnt |-> 3],
    [class |-> "RxTimingSetupReq", delay |-> 5],
    NewChannel(0, <<868800000, 0>>, 0, 7),  \* read as another frequency
    NewChannel(1, <<600, 0>>, 1, 3),        \* read as it was sent
    NewChannel(3, <<868, 800>>, 0, 5) }     \* no such channel

MCDownlinks ==
  {<<c>> : c \in Others} \cup {<<c, d>> : c \in Answered, d \in Answered \cup Others}
    \cup {<<c>> : c \in Answered}
=============================================================================

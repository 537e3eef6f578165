# iot-uav-monitoring: a verification development

The repository simulates, on ns-3, a fleet of UAVs that carries LoRaWAN gateways over end devices
(EDs: the sensors of firefighters) and keeps itself connected to a base station. A UAV moves under
*virtual springs* towards the EDs it hears and the UAVs around it; when it loses the path to the
base station it may go on for a while, turns back, and tells the others what it left behind.

This directory holds TLA+ modules of the parts of that program that decide, remember and race, TLC
configurations that check them on small instances, and proofs checked by TLAPS. `PROJECT.json`
lists components, runs, mutants, hazards, theorems and, under `map`, the source lines each
definition stands for. Every definition is translated from the code under `src/`; where a comment
and the code differ, the module follows the code. The four runs marked `violation` show the differences
with the largest effect; the others are described under *What the checks say about the code*.

## Inventory

| part | state it keeps | operations | talks to | module |
|---|---|---|---|---|
| `LoraEdsMonitor` (src/loravsf) | `m_eds`, `m_eds_single_hist`, `m_eds_lost`, `m_eds_hist`, `m_clusters` | `UpdateList`, two `UpdateHistory`, `UpdateLostEds`, `FilterLostEds`, `CreateClusters`, `GetClusterInfo`, `ComputeClustersInfo`, `GetEdsList` | called by the gateway's trace source and by two periodic tasks of the mobility model | `LoraEdsMonitor` |
| `VirtualSprings2dMobilityModel` | `m_persist`, `m_hops`, `m_pause`, `m_lastNode`, `m_token`, position and speed | the control round `DoInitializePrivate`, the history task, `SendToken`/`ReceiveToken`, forces | OLSR routing table, monitors of neighbours, `SeedsManager` of all UAVs | `VirtualSprings`, `Excursion` |
| `SeedsManager` | `m_tokens` | `AddToken`, `GetSeeds` | called by the mobility models of all UAVs | `SeedsManager` |
| `EndDeviceLoraMac`, `EndDeviceLoraPhy` | radio state, two receive windows and their events, channels, data rate, power | `Send`, `TxFinished`, open and close windows, `StartReceive`, `EndReceive`, `ParseCommands` and a handler per MAC command | senders above, `LoraChannel` below | `EndDeviceLora`, `EndDeviceCommands` |
| `MacCommand` classes, `LoraFrameHeader` | fields of a command, list of commands | `Serialize`, `Deserialize`, `AddCommand` | MACs of server and device | `MacCommand`, `LoraFrameHeader` |
| `LogicalLoraChannelHelper`, `SubBand` | channels, next transmission time of each sub-band | `AddEvent`, `GetWaitingTime`, `SetChannel` | MACs of EDs and gateways | inside `EndDeviceLora`, `EndDeviceCommands`, `NetworkServer` |
| `SimpleNetworkServer`, `DeviceStatus`, `GatewayStatus` | per device: reply, gateways and powers; per gateway: booking | `Receive`, `SendOnFirstWindow`, `SendOnSecondWindow`, `GetGatewayForReply` | point-to-point links to the gateways | `NetworkServer` |
| `GatewayLoraMac`, `GatewayLoraPhy`, `Forwarder` | `m_isTransmitting`, waiting times, reception paths | `Send`, `TxFinished`, `StartReceive`, `EndReceive`, `ReceiveFrom...` | server link and `LoraChannel` | transmitting side `NetworkServer`, receiving side `GatewayReception` |
| `LoraInterferenceHelper` | record of the packets in the air | `Add`, `CleanOldEvents`, `IsDestroyedByInterference` | the PHY that owns it | `GatewayReception` |
| `UdpRelay` | `m_packetBuffer`, `m_sent` | `Send`, `SendBuffer` every 30 s | the gateway's receive callback, a UDP socket | `UdpRelay` |
| `FiremenMobilityModel` | strip, rectangle, number of walks, position, the one event | `DoInitialize`, `DoInitializePrivate`, `DoInitializePrivateRandomWalk`, `DoWalkRandom`, `Rebound`, `SetPosition` | nothing: it moves the EDs | `FiremenMobility` |
| `LoadMonitor` | times of forwarded packets | `ForwardedPacket`, `GetLoad`, `IsBusy` | control round of its UAV | an input of `VirtualSprings` (`idle`) |
| `LinkBudgetEstimator`, `kmeans`, propagation, `LoraChannel`, senders, `lorapso`, addresses, tags, helpers, scenarios, older copies of the models | | floating point, set-up or superseded | | not modelled |

ns-3 runs one event at a time, so there are no data races; what is hard is the order of events that
fall due together or drift apart, state kept from one event and used in a later one, and decisions
that each UAV, gateway or device takes on its own view. What makes each part correct:

* monitor: the records of an ED agree with each other and with what the control round reads from
  them; what is reported as lost is lost, recently, and reaches the others;
* fleet: a UAV that stays without a path and stops prolonging its stay ends up going home, tokens
  travel home with it and arrive, and all managers agree while everybody is within reach;
* end device: cycles of transmission and windows do not overlap, the radio is awake when it must
  be and asleep otherwise (which it is not after a reception that outlasts its window), a reply is
  found and cancels the second window;
* commands: server and device agree on the settings while nothing is lost or garbled, and no request shuts the device up or ends it;
* server and gateways: the one reply is never lost between its windows nor sent twice, it leaves in the
  right window, by a gateway that may transmit;
* reception: a demodulator per packet, and a verdict that does not depend on what was forgotten;
* relay: no packet is lost while there is no route, and what waits keeps its order;
* firemen: one chain of events per fireman, who stays in his rectangle and leaves it in time.

## Modules

`LoraEdsMonitor` is one UAV's monitor with an explicit clock. `UpdateList` is the reception callback
with the per-ED `UpdateHistory`; `UpdateHistory(l)` is the l-th periodic history task (mode 1 starts
two); `RoundWithoutClusters`, `RoundDirection`, `RoundKmeans` are the monitoring part of the control
round in modes 0/1, 2 and 3, each with all calls it makes. A `std::map` is a function on its keys, a
`std::queue` a sequence. Coordinates of centres of mass, velocities and the silhouette of k-means
are left open (any grouping k-means could return is tried).

`SeedsManager` holds `AddToken` and the ageing of tokens as operators (`GetSeeds` only reads). `VirtualSprings` composes it
with the control rounds of a fleet: one action per branch of `DoInitializePrivate` (`RoundLinked`,
`RoundTurnBack`, `RoundGoOnCovering`, `RoundGoOnEmpty`), in any order of the UAVs within a period;
`NextPeriod` is the next expiry of `DoWalk`'s timer and changes what is heard. The routing table, the
position (as the ratio the code computes from it) and the EDs heard are inputs of each round: OLSR
and the terrain may answer anything. `PredictionMode` is given for each UAV: in mode 1 it makes a token
of its own when it turns back, in mode 2 of the clusters it lost. A token is its place and the periods it has left; `missed`
remembers whether a token was ever sent while a UAV was out of reach. `Excursion` is the
abstract specification of a UAV's way out and home, which `VirtualSprings` implements with
`phase <- ` (linked / away / homeward) and `carrying <- ` (UAVs with a pending token).

`EndDeviceLora` is one class A device: MAC, PHY and duty cycle. Scheduled events are records with the
time left; `Tick` passes time when none is due. `Send`, `SwitchToStandby`, `TxFinished`, the four
window actions, `StartReceive` and `EndReceive` are the handlers; a failed assertion ends the run of
the program (`failed`), which is why deadlock is not checked there. `cut` (a `Send` has cut a reception short) and
`overrun` (the window that closed last did so during a reception) are history variables of the properties. All three default channels lie in one sub-band, so there is one
waiting time.

`MacCommand` is what each class of command writes into bytes and reads back, `LoraFrameHeader` the
list of commands in a frame: the length has three bits, a CID is looked up by direction. Both hold
operators only. `EndDeviceCommands` composes them with the MAC: `Receive` of a downlink runs
`ParseCommands` over what `ReadBack` yields, one operator per handler (`OnLinkAdrReq`, ...), and
`Send` chooses a channel, checks it, and takes the answers along. `view` is what the server may
conclude from the answers about every setting, the channels with their frequencies and data rates
included; it is given up (`blind`) once an uplink with answers is lost, a frame carries more than
seven bytes of commands, or a request is `Garbled` (read as another than was written); `risky` that the device has met a request it does not survive
(`Dangerous`). It leaves the windows to `EndDeviceLora`: a downlink may arrive whenever fewer than
`MaxAnswers` answers wait.

`GatewayReception` is the receiving side of a gateway. `air` is every packet in the order in which it
starts; a reception path is locked on one of them or free, `m_events` is the record of the
interference helper with the cleaning as the code has it, which steps over the event behind each
one it erases. `StartReceive` and `EndReceive` are the handlers, `Send` and `TxFinished` those of
an own transmission, which only adds itself to the record as an interferer. Powers are linear whole numbers, isolations in dB ratios.

`NetworkServer` is the way of an acknowledgement: `Uplink` (the gateways that received it and their
powers are inputs), `Receive`, `SendOnFirstWindow`, `SendOnSecondWindow` of the server, `Send` and
`TxFinished` of the gateways, links with a delay. `age` is the time since a device's last uplink;
`overlapped`, `sent` and `givenUp` are history variables.

`UdpRelay` is the application that forwards to the base station: `Send` with the socket taking the
packet (`Put`) or not (`Refuse`), `SendBuffer` as one action when the route is there and one when it is not
(`Route` switches it, outside this repository). `given`, `wire`, `waited` and `failures` are history variables.

`FiremenMobility` is one fireman: initialisation, the way to a waypoint in the strip of his team,
walks with rebounds inside the rectangle around it, the fall back into the next strip, and
`SetPosition` from outside at any time. Positions are on a grid; `pending` is the set of
events in the simulator, of which `m_event` holds one.

`MC*` modules give constants their values for TLC.

## Runs

| run | instance | shows |
|---|---|---|
| `monitor` | 2 EDs, 2 positions, modes 1-3, clock to 7 | types; `CoveredKept`, `HistTimesOrdered`, `TokenSourceFresh`, `ClusterEvidence`, `KmeansBlind`, `DirectionTracksReach` |
| `fleet` | 2 UAVs, one in mode 1 and one in mode 2, 1 ED, 2 close places, fair | types; `TokenComesHome`, `SameSeeds`, `ExcursionSpec`, `HandedOver`, `Homecoming` |
| `end_device` | see below, fair | `FailsOnlyByGap`, `InStep`, `AsleepUnlessOverrun`, `AnsweredOnce`, `Listens` |
| `end_device_sleep` | as above | violation: after a reception that outlasts its window the radio stays in STANDBY |
| `commands` | 3 channels, requests with good, refused and fatal values | types; `ViewAgrees`, `FailsOnlyIfRisky`, `EnabledChannelSupports` |
| `commands_power` | one `LinkAdrReq` | violation: a power no channel allows is acknowledged |
| `server` | 2 devices, 2 gateways, 2 powers | types; `OneReply`, `RepliesInWindow`, `RespectsDutyCycle` |
| `server_overlap` | 2 devices, 1 gateway | violation: a gateway transmits two packets at once |
| `server_acks` | 2 uplinks of a device | violation: the second confirmed uplink gets no ACK |
| `reception` | 4 packets, 3 paths on 2 frequencies, 2 spreading factors, fair | types; `PoolInStep`, `InterferersKept`, `FateAsOnAir`, `NoMutualCapture`, `PathsComeFree` |
| `relay` | 3 packets, buffer of 5, fair | `CopiesCounted`, `WaitedInOrder`, `Drained` |
| `firemen` | 2 teams, 3 strips, 2 calls of `SetPosition`, fair | `OneEvent`, `StaysInBounds`, `FallsBackInTime`, `FallsBack` |

**Bounds.** *Monitor*: ticks keep the order of the code's tolerances (history task 10 s = period <
retain 20 s < inter 40 s < lost 65 s < filter 3 min as 1, 2, 2, 3, 5); the retain and inter
tolerances coincide because both exceed one period and are below the lost tolerance, which is all
the guards compare. The clock bound 7 lets an ED be heard twice, be lost, be filtered and be heard
again. Two EDs make a centre of mass with a choice; the cluster threshold is 2 instead of 4.
*Fleet*: two UAVs that may hear one ED are enough for a UAV out of reach, giving way in both directions and
merging of tokens in a foreign manager, from a UAV that predicts and one that reports clusters; `Word` makes the counter wrap after two doublings instead of 32;
`Lifetime` 1 lets a token expire while it waits. The fleet theorems hold for any number of UAVs.
*End device*: a tick is about a third of a second. Windows open after 3 and 6 ticks (1 s and 2 s) for
one tick (0.2 s); packets of 1 and 2 ticks end before, packets of other devices of 4 ticks outlast
the second window. The factor 12 stands for 99 and keeps what matters: the next uplink comes
after both windows and the reply (`AirAssumption`). *Server*: the link delay and the booking are one
tick each; as due events run in any order, a booking may expire before the reply it was made for
arrives, as with the 2 ms and 1 ms of the code (`server_overlap` uses 2 and 1). Replies last 3 ticks: longer
than the link delay, as long as the delay between the windows, so that the fall-back to the second
window finds the gateway free or not, and a reply is given up. Duty cycles are 25% and 33%. *Relay*:
`MaxBuffer` bounds the duplicates that failed retries add; with three packets one can be sent directly between two that wait.
*Commands*: a downlink carries one or two requests, each with values the device accepts, refuses or
that lie one past a table, and new channels whose frequency is read as it was written and is not; two waiting answers can exceed the seven bytes the header's length field holds.
*Reception*: three paths on two frequencies, so that one frequency has a second path and the other
none; powers and ratios are positive, as linear values of dB are; SF 7 and 12 with isolation ratios 4 and 1/4; old events are those of 2 ticks ago and two
are kept, so that the record is cleaned, and steps over events, with four packets. `InterferersKept` and `FateAsOnAir`
speak of packets no longer than the threshold; an SF 12 packet of more than 2 s may outlive the record.
*Firemen*: the halves 3 and 2 of the rectangle differ in parity, so no walk meets a corner exactly
(with doubles that has no chance either); a walk of 7 rebounds several times; the fallback time 14 is a
multiple of it, where `>` and `>=` differ; waypoints up to one strip below the area; two calls of `SetPosition`.
Deadlock is not checked where the program may end on a failed assertion (`end_device`, `commands`)
or the bounds end it (`reception`, `firemen`).

**Fairness.** `fleet` assumes that control rounds and periods go on, `end_device` that
scheduled events run and the clock advances, `reception` that receptions and transmissions end when due, `firemen` that the
events of the fireman run, `relay` that the retry runs: the simulator executes every scheduled event. Nothing is
assumed about packets, routing tables or EDs. `Homecoming` states its own condition (no path, and no prolonging, from some
point on).

**Mutants.** Each property of a passing run is paired with a slip in the code that breaks it: an
operator such as `PushBoundedOffByOne` stands before the definition it varies (`PushBounded`),
and TLC finds the property violated once the one replaces the other. They are used nowhere else.

## What the checks say about the code

* Mode 3 (k-means, used by `system-exp-all`) can never send a token: an ED is declared lost with
  the tolerance by which its track is filtered in the next call. Proved for all constants with
  `LostTolKmeans >= FilterTol` (`KmeansReportsNothing`).
* The clusters of mode 2 have weight 0, so their seeds do not pull.
* `m_persist` doubles in every round without a path next to a similar UAV of greater id: such
  a UAV stays for as long as its neighbour does. That one of several similar UAVs stays with their EDs is not
  certain: at 0 intervals a UAV turns back before it compares itself with anybody (:300), and
  one that nobody outranks halves its own stay when it was last to leave (:327-328).
* A packet that reaches an end device in the 10 ns between the end of its transmission and `SwitchToStandby`
  (end-device-lora-phy.cc:139) fails the assertion in `SwitchToSleep`. Nothing else ends the
  program there (`FailsOnlyByGap`), whatever the timing of uplinks, foreign packets and replies.
* A reception that outlasts its window leaves the radio in STANDBY, where the comment at
  end-device-lora-mac.cc:464 expects `Receive` to put it to SLEEP (`end_device_sleep`). After the first window the
  second makes this good, unless the packet was a reply, which cancels it.
* `Send` does not look at the radio (end-device-lora-mac.cc:115) and may transmit over a reception (`cut`).
* A gateway counts as booked for half the time a reply needs to reach it.
* A failed retry of the relay duplicates the packet in front, and the later copy carries one more
  header (`CopiesCounted`).
* The second confirmed uplink of a device is never acknowledged, since `hasReply` is never reset
  (`server_acks`; simple-network-server.h:39-40 promises ACKs to confirmed uplinks); of the senders in the
  repository `OneShotSender` asks for confirmation, once.
* `GetDbmForTxPower` and `GetBandwidthFromDataRate` compare with `>`: power index 8 and data rate 7 end
  the program, although the comments at end-device-lora-mac.cc:652 and 669-671 expect 0. A channel index one past the
  list passes the check of the mask in the same way (:658). `Dangerous` lists these requests with
  those below, and `FailsOnlyIfRisky` says that no others end the program.
* `LinkAdrReq` for 16 dBm is acknowledged although no channel allows more than 14 dBm (`commands_power`).
* `NewChannelReq` is written with its bytes in one order and read in the other (mac-command.cc:888,
  `NewChannelReqSwapsBytes`). A new channel it does install lies outside all sub-bands; choosing it
  dereferences a null sub-band (logical-lora-channel-helper.cc:181).
* `RxParamSetupReq` carries the frequency in Hz (mac-command.h:352) and the device listens in MHz
  (end-device-lora-mac.h:150-155); `RxTimingSetupReq` is ignored; the aggregated duty cycle that
  `OnDutyCycleReq` stores is read by nothing; four answers and requests are constructed with the
  CID of `DevStatusReq` (mac-command.cc:1070, 1110, 1150, 1190).
* The length of the options in the frame header has three bits (lora-frame-header.cc:90), the
  comment beside it says 0 to 15 (:68): of answers of eight bytes the server reads none.
* The waypoints of a fireman may lie below the area: the lower edge of the next strip is only compared
  with 0 (firemen-mobility-model.cc:134), and the strip of a team starts at `m_teamId * length`
  (:131) where the attribute counts teams from 1 (:57-61).
* Cleaning the interferers erases every second one of consecutive old events only. That never changes
  a verdict on a packet of at most 2 s (`FateAsOnAir`), and the record grows past 100 only while
  all it holds is young (`RecordStaysBounded`).

## Proofs

`LoraEdsMonitorProofs` (constants as in the named assumptions of `LoraEdsMonitor`):

* `TypeCorrect`: the queues have one or two samples, the history at most three, whatever happens.
* `CoveredIsKept`: `CoveredKept` is not inductive, as a control round might take a covered ED for a
  silent one. `RecordsAgree` adds that the queue of *every* tracked ED ends with its entry in
  `m_eds`; with `Retain <= LostTol` (`ScheduleAssumption`) a covered ED is then never silent.
* `HistIsOrdered`: a centre of mass has the time of the covered ED with the greatest id, which need not
  be the last one heard. `HeardSinceLast` is what makes the order inductive: behind every covered ED
  stands one with an id at least as great that was heard no earlier than the last centre of mass.
* `KmeansReportsNothing`: inductive over "every lost ED has one sample" in mode 3.
* `TokenHasSource`, if the control round and the history task have one period: `TasksInStep` says that
  they then fall due at the same instants, the history task first, so that whoever is covered at a
  round has just gone into a centre of mass. The scenarios set both periods to 10 s
  (system-exp-all.cc:742; virtual-springs-2d-mobility-model.cc:174, 198); with the default of 1 s for
  the round (:55) a UAV may still have nothing to make a token of.
* `ClustersHaveEvidence`: `LostAged` and `ClustersAged` bound the age of every lost track, and of what was
  reported from one, by the two tolerances.
* `UsableTracksReach`, if the filter tolerance is a period longer than the lost tolerance of mode 2 (3 min,
  65 s and rounds of 10 s in the code): `TracksYoung` says that a track that is not lost yet is
  at the next round at most a period older than that tolerance: it is lost, and predicted from, before the filter.

`VirtualSpringsProofs` (any finite set of UAVs and EDs, any bounds):

* `FleetTypes`: `ControlOK` for the control state (`m_persist` stays within its word), `TokensOK` for the
  managers: whatever `AddToken` merges, and however many tokens age at once, what is kept is a
  sequence of tokens within their lifetime. `AddTokens` is a fold; it is reasoned about turn by turn.
* `TokensArrive`: one of the tokens `AddTokens` returns is the last one given to it, merged or not.
* `TokensTravelHome`: with the strengthening `HomewardDone`, a UAV that is going back has no
  intervals left, so it cannot set off again before a path was found and its token sent.
* `ImplementsExcursion`: each round maps to `Link`, `GoOn` or `TurnBack`, a new period to a stutter;
  uses the invariant of `TokensTravelHome`.
* `SeedsAgree`: as long as nothing was missed each step does the same to all managers.

`NetworkServerProofs` (any devices, gateways, powers, delays and times on air longer than the link delay):

* `ServerTypes`: what is scheduled has a natural time left, as time passes only when nothing is due.
* `ReplyAccountedFor`: `OneReply` is inductive once what is scheduled is known to be finite; each action
  moves the one reply of a device between the timers, the links, `sent` and `givenUp`.
* `FlagStaysInStep`: inductive with the above; `TxFinished` clears the flag, and the one packet on air is its own.
* `DutyCycleRespected`: `OnTheWay` says that a gateway has to wait while a reply travels to it only
  because it transmits another one, which outlasts the way; so a reply that arrives too early for
  the sub-band arrives over a transmission.
* `RepliesReachWindows`, if the links fit the windows (`LinksFitWindows`; 2 ms and 0.2 s in the code). `AgesAdd`
  gives the sum that stays fixed while a reply waits for a window, travels or is tried again:
  the age of the uplink and the time the reply still has to go.

`EndDeviceLoraProofs` (any delays and times on air within `DelayAssumption` and `AirAssumption`):

* `DeviceTypes`, `OnlyTheGapFails`, `RadioInStep`, `SleepsUnlessOverrun`, `NoWindowAfterReply` share one
  invariant about the *times* of the pending events. `OneCycle`: the events of the device are one of
  the few sets a cycle passes through, each a fixed time from the others. `Rests`: the duty cycle lets
  the next uplink start only behind both windows and the reply. `Awake`, `Receives`, `Hears` tie the
  radio to the window that is open and to the packet it is locked on; `Replies` bounds when a reply ends.
  Together they say that a window closes on a radio in standby or receiving, so that the one
  assertion left to fail is the one of the gap.

`EndDeviceCommandsProofs` (any downlinks):

* `LinkAdrReqSurvives`, `RxParamSetupReqSurvives`: the bytes of these requests, written by the server's
  classes and read by the device's, yield the same fields; `AnswersSurvive`: so do those of every answer.
  `NewChannelReqSwapsBytes` is the exception. What is not read back as it was written is `Garbled`.
* `CommandIsSafe`: one turn of `ParseCommands`, for any values of the fields of a request. `Carried` is what
  the turn promises: what is set is what is reported, and a request that is not `Dangerous` keeps the
  settings within the tables and some channel usable.
* `CommandTypes`, `OnlyDangerFails`, `ChannelRemains` take this through whole downlinks and sequences of them,
  of any length. `DownlinkIsRead` and `UplinkIsRead` say what the receiver makes of a frame header:
  its loop consumes one command after the other, and as the length of the options has three bits it
  reads what was written if that fits, and otherwise some of its first commands; never one
  that was not written. The invariant is `SafetyInv`.
* `ServerAndDeviceAgree`: `ViewInv` is `ViewAgrees` before the answers are in: the view the server
  *will* have once it has read the answers under way is that of the settings now. It is inductive
  turn by turn, as each turn appends the one answer by which the server concludes what the turn did.

The loops of the model are folds (`FoldLeft`, `FlattenSeq`) and one recursive function. Their equations are facts
about a `CHOOSE`n function, whose existence is proved by induction over the number of turns; that
induction is the lemma `UpTo`, a least counterexample, since the induction theorems of the
library take operators.

`GatewayReceptionProofs` (any paths, packets, powers and thresholds):

* `Types`, `DemodulatorsInStep`: the counter is the cardinality of the locked paths, and one path
  frees per end of a packet because a path is locked on a packet still to end.
* `InterferersAreKept`: inductive over `YoungKept`: an event not yet old is in the record, however
  the cleaning steps. What overlaps a packet on air of at most the threshold is not old.
* `RecordStaysBounded`: the first old event is always erased.
* `VerdictIsOnAir`: the energies are sums over sets, recursive over a member the definition chooses. They
  are shown not to depend on that choice (`SumsTakeAny`) nor on members that count for nothing
  (`SumWithoutZeros`), by induction over the subsets of a finite set. `OverlapIsShare`: the four
  cases of `GetOverlapTime` count the instants two packets share. `YoungKept` then makes the sum over the
  record that of all packets so far when a packet ends, and `FateInv` carries the verdict on: a packet
  that starts later shares no instant with it (`EnergyAsBefore`).
* `NoneCapturesTheOther`: each of the two got through against the energy of the other alone (`NotDrowned`), and
  the powers cancel from the product of the two inequalities (`NeitherCaptures`).

`FiremenMobilityProofs` (any area, strips and times in the named assumptions):

* `OneEventMoves`: at most one event is pending and `m_event` holds it, as every path to a new one cancels.
* `WalksStayInBounds`: the invariant adds that a scheduled rebound is due exactly at the side he
  meets first and that a walk through ends inside.
* `WholeStays`: he leaves the rectangle after the first whole number of walks longer than the fallback time,
  as the walks and the parts of a walk before and behind a rebound add up.

`UdpRelayProofs` (any packets and buffer):

* `NothingIsLost`: the copies of a packet that wait or were sent are one more than the failed
  retries with it in front.
* `WaitersKeepOrder`: not inductive, as a waiting copy of a later packet might stand without its
  predecessor. `InOrder`: before each waiting copy of a later packet stands, or was sent, one of the earlier.

Every safety invariant and action property of the passing runs is proved. Only model-checked is liveness:
`Homecoming`, `Listens`, `Drained`, `PathsComeFree`, `FallsBack` (the prover has no rule for fairness or
`ENABLED`). Three theorems have a hypothesis about the constants beyond the named assumptions, given
above with what meets it: `TokenHasSource`, `UsableTracksReach`, `RepliesReachWindows`.

## Not modelled

* Forces, the movement of UAVs, propagation and link budgets, k-means itself: floating point, with no decision whose
  order or staleness could be checked. Their results are inputs.
* `LoadMonitor`: its queue only yields whether the UAV is idle, an input (`idle`) of the control round.
* OLSR, UDP and the point-to-point devices: ns-3 itself, inputs or delays. `LoraChannel` hands a packet
  to every PHY after a delay; what arrives, when and how strong, is an input of each receiver.
* The wire format of addresses, tags and the headers around the commands: carried unchanged.
* Scenarios, helpers, examples and Matlab scripts: set-up and evaluation. `src/model`
  holds older copies of `src/loravsf` and of the UAV mobility models, and about half of
  virtual-springs-2d-mobility-model.cc is commented out. With `lorapso`, an unfinished module,
  they are most of the repository, which is why the mapped lines are about a tenth of it although
  the parts that decide and remember are modelled.

The modules leave out the undefined values the code can read, or take them as inputs: the centre of mass
accumulates into coordinates nobody has initialised (lora-eds-monitor.cc:96), and a distance is divided by
a range that may be zero. Some hazards have no property because nothing says what should hold: who stays with shared EDs, the stay of a
fireman after `SetPosition`, and settings after a lost uplink or a garbled `NewChannelReq`, where nobody
repeats anything.

## Plan

1. Compose `EndDeviceLora` with `EndDeviceCommands`: commands then arrive in windows only, and the
   data rate they set changes the time on air.
2. `LoraChannel` as the composition of `GatewayReception` with `EndDeviceLora` and `NetworkServer`,
   whose inputs it would restrict.
3. `LoadMonitor` with its queue, and the direction of spring forces on a grid.

------------------------- MODULE MCGatewayReception -------------------------
(* Three paths on two frequencies, the first frequency twice; two          *)
(* spreading factors, 6 dB against the same one and -6 dB against the      *)
(* other; a strong downlink, a weak and a too weak uplink, one that is     *)
(* longer than old events are kept; an own packet that drowns the rest.    *)
EXTENDS GatewayReception

MCfrequencies == << 8681, 8683 >>

MCsensitivity == [sf \in SF |-> 2]

MCIsolation ==
  [p \in SF \X SF |-> IF p[1] = p[2] THEN [num |-> 4, den |-> 1] ELSE [num |-> 1, den |-> 4]]

Packet(power, sf, freq, duration) ==
  [power |-> power, sf |-> sf, freq |-> freq, duration |-> duration]

MCUplink == { Packet(2, 7, 8681, 1), Packet(1, 12, 8681, 2), Packet(2, 12, 8683, 3) }
MCDownlink == { Packet(8, 7, 8681, 2) }
MCSent == { Packet(100, 7, 8683, 1) }
=============================================================================

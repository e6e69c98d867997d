------------------------- MODULE MCDeviceRegistry -------------------------
(* Instances of DeviceRegistry for TLC. *)
EXTENDS DeviceRegistry, TLC

CONSTANTS d1, d2, d3, i1, i2

\* d1 and d2 are the same hardware at the same address, plugged in twice.
Replugged == d1 :> i1 @@ d2 :> i1 @@ d3 :> i2
OneEach == d1 :> i1 @@ d2 :> i2
=============================================================================

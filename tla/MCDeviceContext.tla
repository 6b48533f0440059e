-------------------------- MODULE MCDeviceContext --------------------------
(* Two glasses models; the first can be unplugged and plugged in again as  *)
(* a new object while the old one is in use.                               *)
EXTENDS DeviceContext, TLC

CONSTANTS d1, d2, d3, d4, m1, m2

MCModelOf == (d1 :> m1) @@ (d2 :> m1) @@ (d3 :> m2) @@ (d4 :> m2)
=============================================================================

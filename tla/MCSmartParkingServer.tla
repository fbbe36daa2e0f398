------------------------ MODULE MCSmartParkingServer ------------------------
(***************************************************************************)
(* Instances of SmartParkingServer for TLC: the demo data scaled down to   *)
(* one zone of one slot and a request that takes it.                       *)
(***************************************************************************)
EXTENDS SmartParkingServer

CONSTANTS v1, v2, w1, w2

OneSlotZone == [zoneId |-> 1, parkingAreas |-> << 1 >>]

OneDemoZone == << OneSlotZone >>

OneDemoRequest == << << v1, 1 >> >>

NewZones == { OneSlotZone }

=============================================================================

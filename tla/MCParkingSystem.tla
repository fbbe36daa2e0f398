-------------------------- MODULE MCParkingSystem ---------------------------
(***************************************************************************)
(* Instances of ParkingSystem for TLC.                                     *)
(***************************************************************************)
EXTENDS ParkingSystem

CONSTANTS v1, v2

\* Two areas of one slot, one area of two slots, a zone without areas whose id
\* is not new, as POST /api/zones may create it.
MixedZones == { [zoneId |-> 1, parkingAreas |-> << 1, 1 >>],
                [zoneId |-> 2, parkingAreas |-> << 2 >>],
                [zoneId |-> 1, parkingAreas |-> << >>] }

\* One zone of two slots: the longest sequences of calls.
OneSmallZone == { [zoneId |-> 1, parkingAreas |-> << 2 >>] }

=============================================================================

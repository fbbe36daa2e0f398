-------------------------- MODULE AllocationEngine --------------------------
(***************************************************************************)
(* Zones, areas and slots, and the search for a slot (Zone.cpp,            *)
(* ParkingArea.cpp, ParkingSlot.cpp, AllocateEngine.cpp).                  *)
(*                                                                         *)
(* A zone is a record [zoneId, parkingAreas]; parkingAreas is the sequence *)
(* of the numbers of slots of its areas.  A slot is named by its place     *)
(* <<z, a, s>>: the s-th slot of the a-th area of the z-th zone of the     *)
(* system, which is what a ParkingSlot* points at.  Availability is a      *)
(* function of the place.                                                  *)
(*                                                                         *)
(* A search answers the set of slots it returns: one slot, or none for     *)
(* nullptr.                                                                *)
(***************************************************************************)
EXTENDS Integers, Sequences

\* The places of all the slots of a sequence of zones.
SlotsOfArea(zones, z, a) ==
    { <<z, a, s>> : s \in 1 .. zones[z].parkingAreas[a] }

SlotsOfZone(zones, z) ==
    UNION { SlotsOfArea(zones, z, a) : a \in DOMAIN zones[z].parkingAreas }

ParkingSlots(zones) == UNION { SlotsOfZone(zones, z) : z \in DOMAIN zones }

\* A loop that returns at its first hit: the least index of the hits.
First(hits) == { i \in hits : \A j \in hits : i <= j }

\* getFirstAvailableSlot that does not look at the availability.
GetFirstSlot(zones, isAvailable, z, a) == First(1 .. zones[z].parkingAreas[a])

\* getFirstAvailableSlot that gives up at the first slot.
GetSlotOneOrNone(zones, isAvailable, z, a) ==
    { s \in First(1 .. zones[z].parkingAreas[a]) : isAvailable[<<z, a, s>>] }

\* ParkingArea::getFirstAvailableSlot
GetFirstAvailableSlot(zones, isAvailable, z, a) ==
    First({ s \in 1 .. zones[z].parkingAreas[a] : isAvailable[<<z, a, s>>] })

\* Zone::findAvailableSlotInZone
FindAvailableSlotInZone(zones, isAvailable, z) ==
    LET areas == First({ a \in DOMAIN zones[z].parkingAreas :
                            GetFirstAvailableSlot(zones, isAvailable, z, a) # {} })
    IN  UNION { { <<z, a, s>> : s \in GetFirstAvailableSlot(zones, isAvailable, z, a) } :
                a \in areas }

\* The zones a search finds a slot in, among those with (or without) the id.
ZonesWithSlot(zones, isAvailable, requestedZoneId, sameId) ==
    { z \in DOMAIN zones :
        /\ (zones[z].zoneId = requestedZoneId) = sameId
        /\ FindAvailableSlotInZone(zones, isAvailable, z) # {} }

\* allocateSlot without its first loop: no preference for the requested zone.
AllocateAnywhere(requestedZoneId, zones, isAvailable) ==
    LET hits == First(ZonesWithSlot(zones, isAvailable, requestedZoneId, TRUE)
                      \cup ZonesWithSlot(zones, isAvailable, requestedZoneId, FALSE))
    IN  UNION { FindAvailableSlotInZone(zones, isAvailable, z) : z \in hits }

\* AllocationEngine::allocateSlot: the zones with the requested id first, any
\* other zone after them.  No zones, no slot.
AllocateSlot(requestedZoneId, zones, isAvailable) ==
    LET requested == First(ZonesWithSlot(zones, isAvailable, requestedZoneId, TRUE))
        other     == First(ZonesWithSlot(zones, isAvailable, requestedZoneId, FALSE))
        hit       == IF requested # {} THEN requested ELSE other
    IN  UNION { FindAvailableSlotInZone(zones, isAvailable, z) : z \in hit }

=============================================================================

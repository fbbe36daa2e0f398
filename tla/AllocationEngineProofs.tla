----------------------- MODULE AllocationEngineProofs -----------------------
(***************************************************************************)
(* What the search for a slot returns, for every layout of zones.          *)
(***************************************************************************)
EXTENDS AllocationEngine, WellFoundedInduction, SequenceTheorems, TLAPS

LessThan == { ss \in Nat \X Nat : ss[1] < ss[2] }

\* A loop over indices that returns at its first hit returns if there is a hit.
LEMMA LeastHit ==
    ASSUME NEW hits, hits \subseteq Nat, hits # {}
    PROVE  First(hits) # {}
<1>1. IsWellFoundedOn(LessThan, Nat)
  BY NatLessThanWellFounded, Zenon DEF OpToRel, LessThan
<1>2. \E x \in hits : \A y \in hits : <<y, x>> \notin LessThan
  BY <1>1, WFMin
<1>3. PICK x \in hits : \A y \in hits : <<y, x>> \notin LessThan
  BY <1>2
<1>4. \A y \in hits : x <= y
  <2> SUFFICES ASSUME NEW y \in hits, y < x PROVE FALSE
    OBVIOUS
  <2>1. <<y, x>> \in Nat \X Nat /\ <<y, x>>[1] < <<y, x>>[2]
    OBVIOUS
  <2>2. <<y, x>> \in LessThan
    BY <2>1, Zenon DEF LessThan
  <2> QED
    BY <2>2, <1>3
<1> QED
  BY <1>4 DEF First

LEMMA SeqElement ==
    ASSUME NEW T, NEW q \in Seq(T), NEW i \in DOMAIN q
    PROVE  q[i] \in T
  OBVIOUS

LEMMA FirstIsHit ==
    ASSUME NEW hits
    PROVE  First(hits) \subseteq hits
  BY DEF First

-----------------------------------------------------------------------------

\* A place is a slot of the system iff each of its indices is in range.
LEMMA SlotPlace ==
    ASSUME NEW zones, NEW p
    PROVE  p \in ParkingSlots(zones) <=>
             \E z \in DOMAIN zones : \E a \in DOMAIN zones[z].parkingAreas :
                \E s \in 1 .. zones[z].parkingAreas[a] : p = <<z, a, s>>
  BY DEF ParkingSlots, SlotsOfZone, SlotsOfArea

\* A new zone adds slots and takes none away.
LEMMA SlotsGrow ==
    ASSUME NEW Zs, NEW zones \in Seq(Zs), NEW zone \in Zs
    PROVE  ParkingSlots(zones) \subseteq ParkingSlots(Append(zones, zone))
<1> SUFFICES ASSUME NEW p \in ParkingSlots(zones)
             PROVE  p \in ParkingSlots(Append(zones, zone))
  OBVIOUS
<1>1. PICK z \in DOMAIN zones : \E a \in DOMAIN zones[z].parkingAreas :
            \E s \in 1 .. zones[z].parkingAreas[a] : p = <<z, a, s>>
  BY SlotPlace
<1>2. z \in DOMAIN Append(zones, zone) /\ Append(zones, zone)[z] = zones[z]
  OBVIOUS
<1> QED
  BY <1>1, <1>2, SlotPlace

\* The search of a zone returns only available slots of that zone.
LEMMA FoundInZone ==
    ASSUME NEW zones, NEW isAvailable, NEW z \in DOMAIN zones,
           NEW p \in FindAvailableSlotInZone(zones, isAvailable, z)
    PROVE  /\ p \in ParkingSlots(zones)
           /\ isAvailable[p]
           /\ p[1] = z
<1>1. PICK a \in DOMAIN zones[z].parkingAreas :
        \E s \in GetFirstAvailableSlot(zones, isAvailable, z, a) : p = <<z, a, s>>
  BY FirstIsHit DEF FindAvailableSlotInZone
<1>2. PICK s \in GetFirstAvailableSlot(zones, isAvailable, z, a) : p = <<z, a, s>>
  BY <1>1
<1>3. s \in 1 .. zones[z].parkingAreas[a] /\ isAvailable[<<z, a, s>>]
  BY <1>2, FirstIsHit DEF GetFirstAvailableSlot
<1> QED
  BY <1>1, <1>2, <1>3, SlotPlace

\* The search of a zone with an available slot returns one.
LEMMA ZoneWithSlot ==
    ASSUME NEW S, NEW zones \in Seq([zoneId : S, parkingAreas : Seq(Nat)]),
           NEW isAvailable, NEW z \in DOMAIN zones,
           NEW a \in DOMAIN zones[z].parkingAreas,
           NEW s \in 1 .. zones[z].parkingAreas[a], isAvailable[<<z, a, s>>]
    PROVE  FindAvailableSlotInZone(zones, isAvailable, z) # {}
<1> DEFINE areas == { b \in DOMAIN zones[z].parkingAreas :
                        GetFirstAvailableSlot(zones, isAvailable, z, b) # {} }
<1>1. zones[z].parkingAreas \in Seq(Nat)
  <2>1. zones[z] \in [zoneId : S, parkingAreas : Seq(Nat)]
    BY SeqElement
  <2> QED
    BY <2>1
<1>2. GetFirstAvailableSlot(zones, isAvailable, z, a) # {}
  <2>1. { t \in 1 .. zones[z].parkingAreas[a] : isAvailable[<<z, a, t>>] } # {}
    OBVIOUS
  <2>2. { t \in 1 .. zones[z].parkingAreas[a] : isAvailable[<<z, a, t>>] } \subseteq Nat
    OBVIOUS
  <2> QED
    BY <2>1, <2>2, LeastHit DEF GetFirstAvailableSlot
<1>3. areas # {} /\ areas \subseteq Nat
  BY <1>1, <1>2
<1>4. PICK b \in First(areas) : TRUE
  BY <1>3, LeastHit
<1>5. b \in DOMAIN zones[z].parkingAreas
      /\ GetFirstAvailableSlot(zones, isAvailable, z, b) # {}
  BY <1>4, FirstIsHit
<1>6. PICK t \in GetFirstAvailableSlot(zones, isAvailable, z, b) : TRUE
  BY <1>5
<1>7. <<z, b, t>> \in FindAvailableSlotInZone(zones, isAvailable, z)
  <2>1. <<z, b, t>> \in { <<z, b, u>> : u \in GetFirstAvailableSlot(zones, isAvailable, z, b) }
    BY <1>6
  <2> QED
    BY <2>1, <1>4, Zenon DEF FindAvailableSlotInZone
<1> QED
  BY <1>7

\* allocateSlot returns only available slots of the system.
LEMMA AllocatedIsFree ==
    ASSUME NEW zones, NEW isAvailable, NEW zoneId,
           NEW p \in AllocateSlot(zoneId, zones, isAvailable)
    PROVE  p \in ParkingSlots(zones) /\ isAvailable[p]
<1>1. PICK z \in DOMAIN zones : p \in FindAvailableSlotInZone(zones, isAvailable, z)
  BY FirstIsHit DEF AllocateSlot, ZonesWithSlot
<1> QED
  BY <1>1, FoundInZone

\* allocateSlot returns nullptr only if no slot of the system is available:
\* its two loops together miss no zone (AllocateEngine.cpp:12-38).
THEOREM NullptrMeansFull ==
    ASSUME NEW S, NEW zones \in Seq([zoneId : S, parkingAreas : Seq(Nat)]),
           NEW isAvailable, NEW zoneId,
           AllocateSlot(zoneId, zones, isAvailable) = {}
    PROVE  \A p \in ParkingSlots(zones) : ~isAvailable[p]
<1> SUFFICES ASSUME NEW p \in ParkingSlots(zones), isAvailable[p]
             PROVE  FALSE
  OBVIOUS
<1> PICK z \in DOMAIN zones : \E a \in DOMAIN zones[z].parkingAreas :
            \E s \in 1 .. zones[z].parkingAreas[a] : p = <<z, a, s>>
  BY SlotPlace
<1> PICK a \in DOMAIN zones[z].parkingAreas :
            \E s \in 1 .. zones[z].parkingAreas[a] : p = <<z, a, s>>
  OBVIOUS
<1> PICK s \in 1 .. zones[z].parkingAreas[a] : p = <<z, a, s>>
  OBVIOUS
<1> DEFINE requested == ZonesWithSlot(zones, isAvailable, zoneId, TRUE)
           other     == ZonesWithSlot(zones, isAvailable, zoneId, FALSE)
           hit       == IF First(requested) # {} THEN First(requested) ELSE First(other)
<1>1. FindAvailableSlotInZone(zones, isAvailable, z) # {}
  BY ZoneWithSlot
<1>2. z \in requested \cup other
  BY <1>1 DEF ZonesWithSlot
<1>3. requested \subseteq Nat /\ other \subseteq Nat
  BY DEF ZonesWithSlot
<1>4. hit # {}
  <2> HIDE DEF requested, other
  <2> QED BY <1>2, <1>3, LeastHit
<1>5. PICK y \in hit : TRUE
  BY <1>4
<1>6. y \in DOMAIN zones /\ FindAvailableSlotInZone(zones, isAvailable, y) # {}
  BY <1>5, FirstIsHit DEF ZonesWithSlot
<1> QED
  BY <1>5, <1>6 DEF AllocateSlot

-----------------------------------------------------------------------------

\* A hit of a loop is a hit before which there was none.
LEMMA FirstIsLeast ==
    ASSUME NEW hits, NEW i \in First(hits), NEW j \in hits
    PROVE  i <= j
  BY DEF First

\* The search of a zone returns its first available slot: by area, then slot.
LEMMA FirstInZone ==
    ASSUME NEW S, NEW zones \in Seq([zoneId : S, parkingAreas : Seq(Nat)]),
           NEW isAvailable, NEW z \in DOMAIN zones,
           NEW p \in FindAvailableSlotInZone(zones, isAvailable, z),
           NEW a \in DOMAIN zones[z].parkingAreas,
           NEW s \in 1 .. zones[z].parkingAreas[a], isAvailable[<<z, a, s>>]
    PROVE  p[2] < a \/ (p[2] = a /\ p[3] <= s)
<1> DEFINE found(b) == GetFirstAvailableSlot(zones, isAvailable, z, b)
           areas    == { b \in DOMAIN zones[z].parkingAreas : found(b) # {} }
<1>1. zones[z].parkingAreas \in Seq(Nat)
  <2>1. zones[z] \in [zoneId : S, parkingAreas : Seq(Nat)]
    BY SeqElement
  <2> QED
    BY <2>1
<1>2. PICK b \in First(areas) : \E t \in found(b) : p = <<z, b, t>>
  BY DEF FindAvailableSlotInZone
<1>3. PICK t \in found(b) : p = <<z, b, t>>
  BY <1>2
<1>4. b \in Nat /\ a \in Nat /\ s \in Nat
  BY <1>1, <1>2, FirstIsHit
<1>5. s \in { u \in 1 .. zones[z].parkingAreas[a] : isAvailable[<<z, a, u>>] }
  OBVIOUS
<1>6. a \in areas
  <2>1. found(a) # {}
    <3>1. { u \in 1 .. zones[z].parkingAreas[a] : isAvailable[<<z, a, u>>] } \subseteq Nat
      OBVIOUS
    <3> QED
      BY <1>5, <3>1, LeastHit DEF GetFirstAvailableSlot
  <2> QED
    BY <2>1
<1>7. b <= a
  <2> HIDE DEF areas
  <2> QED
    BY <1>2, <1>6, FirstIsLeast
<1>8. b = a => t <= s
  BY <1>3, <1>5, FirstIsLeast DEF GetFirstAvailableSlot
<1> QED
  BY <1>3, <1>4, <1>7, <1>8

\* A slot that allocateSlot returns is in a zone with the requested id if there
\* is an available one there, and in the first zone with one of its kind.
LEMMA FirstZone ==
    ASSUME NEW zones, DOMAIN zones \subseteq Nat, NEW isAvailable, NEW zoneId,
           NEW p \in AllocateSlot(zoneId, zones, isAvailable),
           NEW z \in DOMAIN zones,
           FindAvailableSlotInZone(zones, isAvailable, z) # {}
    PROVE  \E y \in DOMAIN zones :
             /\ p \in FindAvailableSlotInZone(zones, isAvailable, y)
             /\ zones[z].zoneId = zoneId => zones[y].zoneId = zoneId
             /\ (zones[z].zoneId = zoneId <=> zones[y].zoneId = zoneId) => y <= z
<1> DEFINE ofKind(sameId) == ZonesWithSlot(zones, isAvailable, zoneId, sameId)
           hit == IF First(ofKind(TRUE)) # {} THEN First(ofKind(TRUE))
                                              ELSE First(ofKind(FALSE))
<1>1. PICK y \in hit : p \in FindAvailableSlotInZone(zones, isAvailable, y)
  BY DEF AllocateSlot
<1>2. /\ ofKind(TRUE) \subseteq { x \in DOMAIN zones : zones[x].zoneId = zoneId }
      /\ ofKind(FALSE) \subseteq { x \in DOMAIN zones : zones[x].zoneId # zoneId }
      /\ zones[z].zoneId = zoneId => z \in ofKind(TRUE)
      /\ zones[z].zoneId # zoneId => z \in ofKind(FALSE)
  BY DEF ZonesWithSlot
<1>3. ofKind(TRUE) \subseteq Nat
  BY DEF ZonesWithSlot
<1> HIDE DEF ofKind
<1>4. zones[z].zoneId = zoneId => First(ofKind(TRUE)) # {}
  BY <1>2, <1>3, LeastHit
<1>5. y \in First(ofKind(TRUE)) \/ (y \in First(ofKind(FALSE)) /\ zones[z].zoneId # zoneId)
  BY <1>1, <1>4
<1>6. CASE y \in First(ofKind(TRUE))
  <2>1. y \in DOMAIN zones /\ zones[y].zoneId = zoneId
    BY <1>2, <1>6, FirstIsHit
  <2>2. zones[z].zoneId = zoneId => y <= z
    BY <1>2, <1>6, FirstIsLeast
  <2> QED
    BY <1>1, <2>1, <2>2
<1>7. CASE y \in First(ofKind(FALSE)) /\ zones[z].zoneId # zoneId
  <2>1. y \in DOMAIN zones
    BY <1>2, <1>7, FirstIsHit
  <2>2. y <= z
    BY <1>2, <1>7, FirstIsLeast
  <2> QED
    BY <1>1, <1>7, <2>1, <2>2
<1> QED
  BY <1>5, <1>6, <1>7

=============================================================================

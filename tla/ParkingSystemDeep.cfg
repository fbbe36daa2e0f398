CONSTANTS
    v1 = v1
    v2 = v2
    Vehicles = {v1}
    ZoneIds = {1}
    ZoneShapes <- OneSmallZone
    MaxZones = 1
    MaxRequests = 6
SPECIFICATION Spec
INVARIANTS
    TypeOK
    HistoryMatchesSlots
    HistoryInRequestOrder
    StaleRecordsAreTheMoved
    StateMatchesRecord
    DoubleBookingNeedsMove
    NoSlotLeak
PROPERTIES
    ImplementsLot
\* A write into freed memory may end the run.
CHECK_DEADLOCK FALSE

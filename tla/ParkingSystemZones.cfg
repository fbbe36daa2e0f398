CONSTANTS
    v1 = v1
    v2 = v2
    Vehicles = {v1}
    ZoneIds = {1, 2}
    ZoneShapes <- MixedZones
    MaxZones = 2
    MaxRequests = 3
SPECIFICATION Spec
PROPERTIES
    GrantsBestSlot
INVARIANTS
    VehiclesRegisteredOnce
\* A write into freed memory may end the run.
CHECK_DEADLOCK FALSE

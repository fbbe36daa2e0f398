CONSTANTS
    v1 = v1
    v2 = v2
    Vehicles = {v1}
    ZoneIds = {1}
    ZoneShapes <- OneSmallZone
    MaxZones = 2
    MaxRequests = 4
SPECIFICATION Spec
PROPERTIES
    TerminalIsFinal
CHECK_DEADLOCK FALSE

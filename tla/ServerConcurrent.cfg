SPECIFICATION FairSpec
CONSTANTS
    v1 = v1
    v2 = v2
    w1 = w1
    w2 = w2
    Workers = {w1, w2}
    Gets = {"dashboard", "zone"}
    Vehicles = {v1, v2}
    ZoneIds = {1}
    ZoneShapes <- NewZones
    DemoZones <- OneDemoZone
    DemoRequests <- OneDemoRequest
    MaxZones = 2
    MaxRequests = 4
INVARIANT TypeOK
INVARIANT SharingNeedsOverlap
INVARIANT AloneIsAnsweredOwnId
INVARIANT DashboardInWindow
PROPERTY AloneIsAtomic
PROPERTY EveryCallIsAnswered
CHECK_DEADLOCK FALSE

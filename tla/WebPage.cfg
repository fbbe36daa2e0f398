SPECIFICATION FairSpec
CONSTANTS
    Clicks = {"dashboard", "zones", "requests", "analytics", "select",
              "newRequest", "allocate", "createZone"}
    MaxClicks = 3
    MaxAtOnce = 2
INVARIANT TypeOK
INVARIANT OverlayHasOwner
 
 
 
PROPERTY OverlayGoesAway
\* All calls may be done.
CHECK_DEADLOCK FALSE

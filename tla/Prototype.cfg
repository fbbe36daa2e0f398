SPECIFICATION Spec
CONSTANTS
    DemoZones <- OneZone
    DemoTaken <- OneTaken
    SlotCounts = {1}
    MaxZones = 2
    MaxSlots = 2
    MaxVehicles = 2
    MaxDialogs = 3
INVARIANT TypeOK
INVARIANT HistoryIsExact
INVARIANT OneVehiclePerConfirm
INVARIANT OutsideHeals
PROPERTY ImplementsUndoLot

CONSTANTS
    Slots = {s1, s2}
    NumRequests = 2
    MaxHistory = 5
SPECIFICATION Spec
INVARIANTS
    UndoIsExact

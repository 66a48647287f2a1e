SPECIFICATION AdminSpec
CONSTANTS
    v1 = v1
    v2 = v2
    l1 = l1
    l2 = l2
    Incomplete = Incomplete
    Absent = Absent
    Values <- MCValues
    Stored <- MCStored
    Loads <- MCLoads
    MaxId = 2
    MaxClicks = 4
INVARIANTS
    SettledPageIsCurrent
    DraftsAreKept
PROPERTIES
    PageComesBack
CHECK_DEADLOCK FALSE

SPECIFICATION InventorySpec
CONSTANTS
    h1 = h1
    h2 = h2
    r1 = r1
    r2 = r2
    o1 = o1
    o2 = o2
    p1 = p1
    p2 = p2
    Handlers <- TwoHandlers
    Orders <- MCOrders
    Products <- MCProducts
    Lines <- MCLines
    Requests <- MCRequests
    Levels <- MCLevels
    InitialStock <- MCInitialStock
INVARIANTS
    ConservedUnlessStale
PROPERTIES
    ReservationIsFinal
CHECK_DEADLOCK FALSE

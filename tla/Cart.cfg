SPECIFICATION Spec
CONSTANTS
    r1 = r1
    r2 = r2
    r3 = r3
    r4 = r4
    p1 = p1
    p2 = p2
    c1 = c1
    NoCoupon = NoCoupon
    NoRow = NoRow
    Requests <- FourRequests
    Products <- MCProducts
    Counts <- OneOrTwo
    Coupons <- MCCoupons
SYMMETRY Interchangeable
INVARIANTS
    PiecesAreAccountedFor
    OneRowOfEach
PROPERTIES
    RemovedStaysRemoved
    ImplementsContents
CHECK_DEADLOCK FALSE

SPECIFICATION TrackingSpec
CONSTANTS
    o1 = o1
    o2 = o2
    o3 = o3
    p1 = p1
    p2 = p2
    NoOrder = NoOrder
    Orders <- MCOrders
    Products <- MCProducts
    LineChoices <- MCLineChoices
    InitialStock <- MCInitialStock
    SimulatorRejects <- MCSimulatorRejects
INVARIANTS
    OutcomeAgrees
    StockConserved
    EventsAreRaisedOnce
    StepsShownWereTaken
PROPERTIES
    ImplementsCheckout
    StepsStayComplete
    DecisionIsShown

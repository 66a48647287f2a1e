SPECIFICATION FairSpec
CONSTANTS
    o1 = o1
    o2 = o2
    p1 = p1
    Orders <- TwoOrders
    Products <- MCProducts
    LineChoices <- MCLineChoices
    InitialStock <- MCInitialStock
    SimulatorRejects <- MCSimulatorRejects
    DeadLetterAttemptLimit = 2
    MaxDeliveryCount = 2
    MaxFaults = 1
    MessagesExpire = FALSE
PROPERTY
    RejectionCompletes
CHECK_DEADLOCK FALSE

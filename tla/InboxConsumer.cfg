SPECIFICATION FairSpec
CONSTANTS
    c1 = c1
    c2 = c2
    m1 = m1
    m2 = m2
    m3 = m3
    m4 = m4
    m5 = m5
    e1 = e1
    e2 = e2
    e3 = e3
    Consumers <- MCConsumers
    Messages <- MCMessages
    EventIds <- MCEventIds
    EventOf <- MCEventOf
    Handled <- MCHandled
    Garbled <- MCGarbled
    Unreadable <- MCUnreadable
    MaxDeliveryCount = 2
    MaxFaults = 2
INVARIANTS
    EffectsHappenOnce
PROPERTIES
    EveryMessageIsSettled
    ImplementsPromise
CHECK_DEADLOCK FALSE

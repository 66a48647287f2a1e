SPECIFICATION EmailSpec
CONSTANTS
    m1 = m1
    m2 = m2
    m3 = m3
    m4 = m4
    Requests <- MCRequests
    Updates <- MCUpdates
    Foreign <- MCForeign
    MaxDeliveryCount = 3
    MaxFaults = 3
INVARIANTS
    LogMatchesQueue
PROPERTIES
    AcceptedRequestIsSettled
CHECK_DEADLOCK FALSE

SPECIFICATION Spec
CONSTANTS
    r1 = r1
    r2 = r2
    r3 = r3
    Slots <- ThreeRequests
    Impatient <- TwoRequests
    MaxAttempts = 3
    FailureThreshold = 5
    Downtimes = 2
INVARIANTS
    ThresholdIsActedOn
PROPERTIES
    CallsReturn
    RecoveryClosesCircuit
    OutageOpensCircuit

SPECIFICATION FairOutbox
CONSTANTS
    Rows <- MCRows
    Poison <- MCPoison
    BatchSize = 2
    DeadLetterAttemptLimit = 2
    MaxStops = 1
    MaxOutages = 1
INVARIANTS
    ProcessedWasAccepted
    DuplicatesHaveACause
PROPERTIES
    EveryRowIsSettled
CHECK_DEADLOCK FALSE

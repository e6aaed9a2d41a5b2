SPECIFICATION Spec
CONSTANTS
    Clients = {c1, c2}
    Oversized = {c2}
    Stalled = {c2}
    Closers = {x1, x2}
    maxConcurrent = 1
    retryMaxAttempts = 2
    Backlog = 1
INVARIANTS
    TypeOK
    SlotsMatchHandlers
    ClosedMeansQuiet
    SuccessMeansTyped
PROPERTIES
    CloseTerminates
    SendKeysTerminates
    ImplementsService
CHECK_DEADLOCK FALSE

SPECIFICATION Spec
CONSTANTS
    Clients = {c1}
    Oversized = {}
    Stalled = {}
    Closers = {x1}
    maxConcurrent = 1
    retryMaxAttempts = 2
    Backlog = 1
INVARIANT TypedAtMostOnce
CHECK_DEADLOCK FALSE

SPECIFICATION Spec
CONSTANTS
    Conn = {k1}
    maxConcurrent = 1
    Size = {24, 40}
    PtyRoom = 1
    MaxTyped = 1
INVARIANT OutputFlushed
CHECK_DEADLOCK FALSE

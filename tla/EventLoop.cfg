SPECIFICATION Spec
CONSTANTS
    Msg = {m1, m2}
    Fits = {m1}
    PtyRoom = 1
    MaxTyped = 1
    Backlog = 1
INVARIANTS
    OnlyWholeMessagesTyped
    ClientAlwaysClosed
    TerminalRestored
    
 
CHECK_DEADLOCK FALSE

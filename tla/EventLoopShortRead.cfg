SPECIFICATION SpecLively
CONSTANTS
    Msg = {m1}
    Fits = {m1}
    PtyRoom = 1
    MaxTyped = 1
    Backlog = 1
PROPERTY HeaderLeadsToMessage
CHECK_DEADLOCK FALSE

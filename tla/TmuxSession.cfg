SPECIFICATION Spec
CONSTANTS
    Procs = {p1, p2}
    Home = home
    Others = {s1}
    PaneIDs = {0, 1}
    Directions = {"right", "left", "up", "down"}
    NoPane = NoPane
    NoFocus = NoFocus
    MaxKeys = 2
INVARIANTS
    LinkHeldWhileChildRuns
    SetupIsUndone
    
    
    
PROPERTIES
    
    ChildEndIsCleanedUp
CHECK_DEADLOCK FALSE

SPECIFICATION Spec
CONSTANTS
    Procs = {p1, p2}
    Home = home
    Others = {s1}
    PaneIDs = {0, 1}
    Directions = {"right", "left", "up", "down"}
    NoPane = NoPane
    NoFocus = NoFocus
    MaxKeys = 2
PROPERTY KillClosesItsTarget
CHECK_DEADLOCK FALSE

SPECIFICATION Spec
CONSTANTS
    Conn = {k1, k2}
    maxConcurrent = 2
    Size = {24, 40}
    PtyRoom = 1
    MaxTyped = 1
INVARIANTS
    TypeOK
    HandlersHaveMaster
    NoShellLeftBehind
    ReturnJoinsAll
PROPERTIES
    ExitStopsService
    StdinReleasesRun
    ResizesReachPty
CHECK_DEADLOCK FALSE

SPECIFICATION Spec
CONSTANTS
    Workers = {w1, w2}
    Ref = {r1, r2, r3, r4}
    MaxPaneID = 2
SYMMETRY Symmetry
VIEW View
INVARIANTS
    TypeOK
    TableCoherent
    NextIDIsFree
    ListMatchesIndex
    StateFileUsable
    NoTempLeft
    OneActiveUnlessTorn
CHECK_DEADLOCK FALSE

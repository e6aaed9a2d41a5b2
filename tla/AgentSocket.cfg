SPECIFICATION Spec
CONSTANTS
    Agents = {a1, a2, a3}
    NoSocket = NoSocket
INVARIANTS
    ServingIsReachable
    NeverRefusedAlone

    
CHECK_DEADLOCK FALSE

SPECIFICATION Spec
CONSTANTS
    Spelling <- MCSpelling
    Session <- MCSession
    CommandLines <- MCCommandLines
INVARIANTS
    OptionsAsGiven
    RejectedForCause
    
    FormatExpandedOnce
CHECK_DEADLOCK FALSE

SPECIFICATION Spec
CONSTANTS
    Keys <- MCKeys
    Json <- MCArguments
    Arguments <- MCArguments
    MaxStarts = 3
    MaxRewinds = 1
    MaxWire = 2
    Truncation = TRUE
INVARIANTS
    TypeOK
    AssembledAsSent
    PythonKeepsOnlyFailures
    EndsOnlyProvoked
    
PROPERTY FinishedCallsComplete
CHECK_DEADLOCK FALSE

SPECIFICATION Spec
CONSTANTS
    Keys <- MCKeys
    Json <- MCArguments
    Arguments <- MCArguments
    MaxStarts = 1
    MaxRewinds = 0
    MaxWire = 1
    Truncation = TRUE
INVARIANT ClientsAgree
CHECK_DEADLOCK FALSE

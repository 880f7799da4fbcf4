SPECIFICATION Spec
CONSTANTS
    Text <- MCText
    Json <- MCJson
    Key <- MCKey
    Id = 1
    Args <- MCArgs
    Cuts <- MCCuts
    Rewindable = {"REASONING"}
    MaxWire = 1
    MaxRewinds = 1
PROPERTY RewindTruncates
CHECK_DEADLOCK FALSE

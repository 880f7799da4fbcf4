SPECIFICATION Spec
CONSTANTS
    Text <- MCText
    Json <- MCJson
    Key <- MCKey
    Id = 1
    Args <- MCArgs
    Cuts <- MCCuts
    Rewindable = {"CONTENT", "TOOL_CALL"}
    MaxWire = 2
    MaxRewinds = 1
INVARIANTS
    TypeOK
    EndMeansComplete
PROPERTIES
    ContentIsTextChannel
    ReasoningIsTextChannel
    TerminalFrameLands
CHECK_DEADLOCK FALSE

SPECIFICATION Spec
CONSTANTS
    Short = 4
    Base = 4
    OpenSize = 5
    Json <- MCJson
    Expected <- MCExpected
    Scripts <- CutArgs
    CutWrites = FALSE
    MayClose = FALSE
INVARIANT NeverUndecodable
CHECK_DEADLOCK FALSE

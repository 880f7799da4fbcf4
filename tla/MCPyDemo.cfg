SPECIFICATION Spec
CONSTANTS
    Short = 4
    Base = 4
    OpenSize = 5
    Json <- MCJson
    Expected <- MCExpected
    Scripts <- MCScripts
    CutWrites = TRUE
    MayClose = TRUE
INVARIANTS
    TypeOK
    FramesInOrder
    PassesOnWhole
    NeverUndecodable
    FailsOnlyByReading
PROPERTIES
    EndsIfAnswered
CHECK_DEADLOCK FALSE

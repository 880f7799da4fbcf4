SPECIFICATION Spec
CONSTANTS
    Short = 4
    Base = 4
    OpenSize = 5
    Json <- MCJson
    Expected <- MCExpected
    Scripts <- MCScripts
    CutWrites = FALSE
    MayClose = FALSE
PROPERTY DemoSettles
CHECK_DEADLOCK FALSE

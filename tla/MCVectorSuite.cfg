SPECIFICATION Spec
CONSTANTS
    U32Max = 2147483647
    Probes <- MCProbes
    MaxProbed = 64
INVARIANTS
    TypeOK
    CutFramesRefused
    AcceptedIsCanonical
    PayloadsSurvive
    DecodedSurvives
    RefusedStepAnswered
PROPERTIES
    SuiteValidates
CHECK_DEADLOCK FALSE

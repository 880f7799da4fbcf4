SPECIFICATION Spec
CONSTANTS
    Texts <- MCTexts
    MaxWire = 1
    MaxRewinds = 1
    MultibyteRewinds = FALSE
    UnsettledRewinds = TRUE
INVARIANT ShownWasSent

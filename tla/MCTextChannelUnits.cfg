SPECIFICATION Spec
CONSTANTS
    Texts <- MCTexts
    MaxWire = 1
    MaxRewinds = 1
    MultibyteRewinds = TRUE
    UnsettledRewinds = FALSE
PROPERTY RewindTruncates

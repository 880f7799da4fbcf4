SPECIFICATION Spec
CONSTANTS
    Texts <- MCTexts
    MaxWire = 2
    MaxRewinds = 2
    MultibyteRewinds = FALSE
    UnsettledRewinds = FALSE
INVARIANTS
    TypeOK
    NothingLost
    RenderedPromptly
    ShownWasSent
PROPERTIES
    ImplementsByteChannel
    ShownInTheEnd
    RewindTruncates

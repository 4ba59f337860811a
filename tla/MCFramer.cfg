SPECIFICATION FairSpec
CONSTANTS
    HdrSize = 2
    BodyMax = 2
    MaxPos = 9
    Wires <- MCWires
    FalseAnchors = {}
    FlipsCaptured = TRUE
INVARIANTS
    InSync
    EmittedTrue
PROPERTIES
    NoSilentSkip
    BlindStops
    HandlerReturns

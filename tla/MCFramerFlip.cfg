SPECIFICATION Spec
CONSTANTS
    HdrSize = 2
    BodyMax = 2
    MaxPos = 10
    Wires <- MCWires
    FalseAnchors = {}
    FlipsCaptured = FALSE
PROPERTIES
    BlindStops

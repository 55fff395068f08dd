SPECIFICATION Spec
CONSTANTS
    Blocks <- MCBlocks
    HexMessages <- MCHexMessages
    MaxLabelLength = 9
    MaxValueLength = 3
    MaxFields = 3
    MaxHexInRow = 2
    MaxHexMessage = 4
INVARIANTS
    OneBlockResyncs
    WholeIsApplied
    AppliedWasSent
    OverrunNeedsLoss
PROPERTIES
    NoSilentGap
CHECK_DEADLOCK FALSE

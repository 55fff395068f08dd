SPECIFICATION Spec
CONSTANTS
    LengthBase = 4
    MaxPacketSize = 13
    Packets <- MCJumbo
    MaxPackets = 2
INVARIANTS
    BigPacketsAreSkipped
CHECK_DEADLOCK FALSE

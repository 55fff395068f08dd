SPECIFICATION FairSpec
CONSTANTS
    LengthBase = 8
    MaxPacketSize = 5
    Packets <- MCPackets
    MaxPackets = 3
INVARIANTS
    DeliveredInOrder
PROPERTIES
    ArrivedIsDelivered
CHECK_DEADLOCK FALSE

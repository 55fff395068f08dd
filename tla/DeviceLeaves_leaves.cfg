SPECIFICATION Spec
CONSTANTS
    Word = 1048576
    Texts <- MCTexts
    MPPTRegisters <- MCMPPTRegisters
    BMVRegisters <- MCBMVRegisters
    Fills <- MCFills
INVARIANTS
    LeafTellsLastMessage
    LateSubscriberIsToldTheSame
    OnlyInt16TextsAreCut
    RegistersReadTheirLayout
    MPPTShowsBMV

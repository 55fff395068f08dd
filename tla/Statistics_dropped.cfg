SPECIFICATION Spec
CONSTANTS
    Clients = {alice, bob}
    Empty = Empty
    Unset = Unset
    maxConnections = 2
    ClockWord = 10
    Word = 24
    msInSecond = 2
    statsUpdateTimeIntervalMs = 4
    Passes = {0, 4, 9}
    Horizon = 13
    MaxEvents = 4
SYMMETRY Symmetry
INVARIANT DroppedTotalIsTrue
CHECK_DEADLOCK FALSE

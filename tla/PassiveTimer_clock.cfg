SPECIFICATION TimerSpec
CONSTANTS
    Half = 6
    Periods = {0, 1, 3, 5}
    MaxGap = 2
    Horizon = 40
INVARIANTS
    NeverEarly
    ExpiredUntilHalfTurn
    ElapsedIsExact

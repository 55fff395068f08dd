SPECIFICATION Spec
CONSTANTS
    CommandTimeout = 1
    PingPeriod = 51
    HistoryPeriod = 102
    HistoryRegisters = 2
    BlockPeriod = 10
    MaxUnanswered = 2
INVARIANTS
    TypeOK
    UpdatesLeaveInTime
    CommandsAccountedFor
    PollsInTime

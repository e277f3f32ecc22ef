CONSTANTS
    NoMemory = NoMemory
    HistoryLimit = 4
    SyncInterval = 2
    MaxTurns = 7
SPECIFICATION SpecMemoryInTurn
INVARIANT SynthesisEveryNTurns
CHECK_DEADLOCK FALSE

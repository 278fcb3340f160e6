SPECIFICATION FairSpec
CONSTANTS
    NoWorker = NoWorker
    LastRound = 3
    Workers = {w1}
    Slots <- FewCalls
    MaxFaults = 2
    Limit = 2
    Stuck = {1}
CHECK_DEADLOCK FALSE
INVARIANTS
    TypeOK
PROPERTIES
    PhasesOnlyAdvance
    OthersAreResolved

SPECIFICATION FairSpec
CONSTANTS
    c1 = c1
    c2 = c2
    w1 = w1
    w2 = w2
    NoWorker = NoWorker
    Calls = {c1, c2}
    Workers = {w1, w2}
    WorkerOf <- TwoWorkers
    Settlements = {s1}
    MaxSteps = 8
    MaxFaults = 4
    MaxExpiries = 0
INVARIANTS
    TypeOK
    SettledIsPaid
    BroadcastIsFollowedUp
PROPERTIES
    CompletedIsFinal
    BlockedSignsNothing
    PayoutCompletes

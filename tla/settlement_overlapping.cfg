SPECIFICATION Spec
CONSTANTS
    c1 = c1
    c2 = c2
    w1 = w1
    w2 = w2
    NoWorker = NoWorker
    Calls = {c1, c2}
    Workers = {w1, w2}
    WorkerOf <- TwoWorkers
    Settlements = {s1, s2}
    MaxSteps = 2
    MaxFaults = 0
    MaxExpiries = 1
INVARIANTS
    IInv
    OneTransactionPerLeg
    TreasuryAfterWinner
    WinnerConfirmedIsPaid
PROPERTIES
    KeepsPromise

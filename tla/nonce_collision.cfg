SPECIFICATION FairSpec
CONSTANTS
    c1 = c1
    c2 = c2
    w1 = w1
    w2 = w2
    NoWorker = NoWorker
    Calls = {c1, c2}
    Workers = {w1}
    WorkerOf <- OneWorker
    Settlements = {s1, s2}
    MaxSteps = 2
    MaxFaults = 0
    MaxExpiries = 0
PROPERTIES
    PayoutCompletes

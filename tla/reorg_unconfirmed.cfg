SPECIFICATION FairSpec
CONSTANTS
    t1 = t1
    t2 = t2
    s1 = s1
    s2 = s2
    NoPayment = NoPayment
    Transfers = {t1}
    Scans = {s1}
    Lookback = 2
    Confirmations = 2
    MaxBlocks = 2
    Shallow = 1
    MaxLag = 0
    Height = 4
    MaxReorgs = 1
    MaxFailures = 0
PROPERTIES
    ReorganizedPaymentIsConfirmed

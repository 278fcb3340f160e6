SPECIFICATION FairPunctualSpec
CONSTANTS
    o1 = o1
    o2 = o2
    o3 = o3
    NoRound = NoRound
    NoSnapshot = NoSnapshot
    NoTicket = NoTicket
    Orders = {o1, o2, o3}
    Quantity <- SomeQuantities
    MinPaid = 2
    Horizon = 4
    GenesisTime = 7
    Period = 3
    ValueLimit = 16
CHECK_DEADLOCK FALSE
INVARIANTS
    PoolIsTicketMoney
    EveryTicketCountsOnce
    SnapshotIsFaithful
    IInv
    DrawIsFair
PROPERTIES
    ClosedLedgerIsFrozen
    EveryRoundIsResolved
    KeepsPromise

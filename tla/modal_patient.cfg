SPECIFICATION FairSpec
CONSTANTS
    other = other
    okx = okx
    OldKey = 9
    NoOrder = 0
    Orders = {1, 2}
    Sources = {other, okx}
    DefaultSource = other
    MinimumTickets <- TwoSources
    TicketLimit = 2
    MaxTickets = 1
    Slots = {1, 2}
    ReopensWhileRestoring = FALSE
CHECK_DEADLOCK FALSE
INVARIANTS
    TypeOK
    SessionIsRestorable
    OutcomeIsTrue
PROPERTIES
    KeyIsKept
    OutcomeIsShown

SPECIFICATION Spec
CONSTANTS
    o1 = o1
    o2 = o2
    o3 = o3
    t1 = t1
    t2 = t2
    NoOrder = NoOrder
    NoTransfer = NoTransfer
    NoCode = NoCode
    Decimals = 3
    PrefixLength = 1
    Digits = 2
    Orders = {o1, o2, o3}
    Quantity <- OneTicketEach
    Quantities = {1}
    Codes <- SomeCodes
    AmountsOf <- SomeAmounts
    ExactAmount <- SomeExact
    Transfers = {t1, t2}
    TransferAmounts <- SentAmounts
    Reservation = 1
    Cooldown = 2
    Horizon = 4
CHECK_DEADLOCK FALSE
PROPERTIES
    LateMoneyIsReconciled

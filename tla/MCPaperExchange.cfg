SPECIFICATION Spec
CONSTANTS
    Symbols <- MCSymbols
    Executable <- MCExecutable
    Filters <- MCFilters
    Quotes <- MCQuotes
    Intents <- MCIntents
    Beta <- MCBeta
    Limits <- MCLimits
    MakerFee = 10
    TakerFee = 40
    TakerGate = FALSE
    InitialWallet = 10000000
    MaxAge = 0
    MaxOrders = 2
    MaxEvents = 6
INVARIANTS
    TypeOK
    OrderLifecycle
    BooksNonNegative
    LogReplaysOrders
    LogReplaysAccount
PROPERTIES
    OrdersMonotone
    PanicVeto
    PanicSettles
    PassProgress
    StaleUntilFlat

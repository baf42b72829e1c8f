SPECIFICATION Spec
CONSTANTS
    Symbols <- MCSymbols
    Executable <- MCExecutable
    Filters <- MCFilters
    Quotes <- MCQuotes
    Intents <- HalvedIntents
    Beta <- MCBeta
    Limits <- MCLimits
    MakerFee = 10
    TakerFee = 40
    TakerGate = FALSE
    InitialWallet = 10000000
    MaxAge = 0
    Threads = {t1, t2}
    Stored = TRUE
    MaxCalls = 4
SYMMETRY ThreadSymmetry
INVARIANTS
    TypeOK
    OrdersSound
PROPERTY StopIsFinal

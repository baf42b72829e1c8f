SPECIFICATION SerialSpec
CONSTANTS
    Symbols <- MCSymbols
    Executable <- MCExecutable
    Filters <- MCFilters
    Quotes <- MCQuotes
    Intents <- SerialIntents
    Beta <- MCBeta
    Limits <- MCLimits
    MakerFee = 10
    TakerFee = 40
    TakerGate = FALSE
    InitialWallet = 10000000
    MaxAge = 0
    Threads = {t1}
    Stored = TRUE
    MaxCalls = 4
PROPERTIES
    FilesCurrent
    ImplementsPaperExchange
    FilesCatchUp

SPECIFICATION Spec
CONSTANTS
    Symbols <- MCSymbols
    Executable <- MCExecutable
    Filters <- MCFilters
    Quotes <- MCQuotes
    Intents <- BuyOnly
    Beta <- MCBeta
    Limits <- MCLimits
    MakerFee = 10
    TakerFee = 40
    TakerGate = FALSE
    InitialWallet = 10000000
    MaxAge = 0
    MaxOrders = 3
    MaxEvents = 9
INVARIANT SymbolExposureCapped

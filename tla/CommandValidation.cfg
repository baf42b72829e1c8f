SPECIFICATION Spec
CONSTANTS
    Symbols <- MCSymbols
    Executable <- MCExecutable
    Filters <- MCFilters
    Quotes <- MCQuotes
    Intents <- TestnetIntents
    MakerFee = 10
    TakerFee = 40
    TakerGate = FALSE
INVARIANTS
    SimulationNeverLive
    LiveSealed
    ApprovalAuthorisesNothing
    PayloadFitsPaper

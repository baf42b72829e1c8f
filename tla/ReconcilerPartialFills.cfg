SPECIFICATION Spec
CONSTANTS
    Orders <- MCOrders
    Ids <- MCIds
    IdOf <- MCIdOf
    MaxFills = 2
    NoStatus = "none"
INVARIANT PartialFillsKept

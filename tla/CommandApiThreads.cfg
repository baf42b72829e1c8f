SPECIFICATION Spec
CONSTANTS
    Threads = {"t1", "t2"}
    Configs <- TwoConfigs
    Keys <- MCKeys
    Requests <- TwoRequests
    Payloads <- MCPayloads
    ShapeOf <- MCShapeOf
    Endpoints <- PaperEndpoints
    MaxRecords = 3
INVARIANTS DecisionsDurable GatedEffectsLogged
PROPERTY ImplementsAuditLog

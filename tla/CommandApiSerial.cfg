SPECIFICATION FairSpec
CONSTANTS
    Threads = {"t1"}
    Configs <- MCConfigs
    Keys <- MCKeys
    Requests <- MCRequests
    Payloads <- MCPayloads
    ShapeOf <- MCShapeOf
    Endpoints <- MCEndpoints
    MaxRecords = 3
INVARIANTS TypeOK AuditLinked KeyNamesEntry LatestBehindLog
PROPERTY ReceivedIsDecided

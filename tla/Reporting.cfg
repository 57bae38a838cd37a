\* KPM subscriptions
SPECIFICATION FairSpec
CONSTANTS
    Ids <- TwoIds
    Scripts <- MCScripts
    Prbs <- MCPrbs
    MaxPrbHistory = 3
INVARIANTS
    TypeOK
    OneReportChain
    WindowHasRoom
PROPERTIES
    ChainsDieAfterStop
    WindowFills
CHECK_DEADLOCK FALSE

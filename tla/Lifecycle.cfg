\* One subscriber and one caller of stop.
SPECIFICATION FairLifecycleSpec
CONSTANTS
    Pollers = {thread}
    t1 = t1  t2 = t2 
    Txns <- MCTxns
    RoundOf <- MCRoundOf
    Filters <- MCFilters
    Names <- MCNames
    Configs <- MCConfigs
    Durable = TRUE
    InitialWatermark = 0
    InitialTip = 0
    MaxTip = 3
    NodeLag = 1
    IndexerLag = 1
    MaxFailures = 1
    Stoppers = {s1}
    MaxRetries = 0
INVARIANTS StopsCleanly WaitsAtTip
PROPERTIES LoopCatchesUp RunsAsStartLoop

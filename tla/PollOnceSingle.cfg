\* One poller, every behaviour, a store that survives restarts, a node and an
\* indexer that may each be one round behind.
SPECIFICATION Spec
CONSTANTS
  Pollers = {p1}
  t1 = t1  t2a = t2a  t2b = t2b  t3 = t3  t4 = t4
  Txns <- MCTxns
  RoundOf <- MCRoundOf
  Filters <- ThreeFilters
  Names <- TwoNames
  Configs <- EveryConfig
  Durable = TRUE
  InitialWatermark = 0
  InitialTip = 0
  MaxTip = 5
  NodeLag = 1
  IndexerLag = 1
  MaxFailures = 1
INVARIANTS TypeOK NoLoss NoHoles WatermarkExists NothingTwice
PROPERTIES LeavesOutOldRoundsOnly NoRewind

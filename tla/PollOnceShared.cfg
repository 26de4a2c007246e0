\* Two pollers that share a watermark kept in memory.
SPECIFICATION FairSpec
CONSTANTS
  Pollers = {p1, p2}
  t1 = t1  t2a = t2a  t2b = t2b  t3 = t3  t4 = t4
  Txns <- MCTxns
  RoundOf <- MCRoundOf
  Filters <- OneFilter
  Names <- OneName
  Configs <- MixedConfigs
  Durable = FALSE
  InitialWatermark = 0
  InitialTip = 1
  MaxTip = 3
  NodeLag = 0
  IndexerLag = 1
  MaxFailures = 1
INVARIANTS NoLoss NoHoles
PROPERTIES CatchesUpEventually KeepsPromise

\* An indexer that may be further behind than the rounds left to algod.
SPECIFICATION Spec
CONSTANTS
  Pollers = {p1}
  t1 = t1  t2a = t2a  t2b = t2b  t3 = t3  t4 = t4
  Txns <- MCTxns
  RoundOf <- MCRoundOf
  Filters <- OneFilter
  Names <- OneName
  Configs <- CatchupConfigs
  Durable = TRUE
  InitialWatermark = 0
  InitialTip = 0
  MaxTip = 4
  NodeLag = 0
  IndexerLag = 2
  MaxFailures = 0
INVARIANT NoLoss

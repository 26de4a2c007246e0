\* Up to two rounds to a poll, and two ends of the program.
SPECIFICATION Spec
CONSTANTS
    t1 = t1  t2a = t2a  t2b = t2b  t3 = t3  t4 = t4
    Txns <- MCTxns
    RoundOf <- MCRoundOf
    Changes <- MCChanges
    Tracked = "tracked"
    InitialRound = 1
    InitialTip = 0
    MaxTip = 4
    MaxRounds = 2
    MaxCrashes = 2
INVARIANTS TypeOK NoRowMissing BrokenLinesFromCrashes CopiesFromCrashes
PROPERTIES NothingAcknowledgedAgain RecordsAsPromised

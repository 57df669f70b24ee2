\* One generation, no crash, a write racing the cache flush: the dirty-page
\* table loses the entry of a page whose disk copy is then stale.
CONSTANTS
    p1 = p1
    p2 = p2
    t1 = t1
    t2 = t2
    Pages <- MCPages
    Txns <- MCTxns
    Vals <- MCVals
    InitVal = 0
    NoVal = NoVal
    NoIdx = NoIdx
    NoTxn = NoTxn
    MaxGen = 0
    MaxWrites = 1
    MaxCrashes = 0
    MaxIoFaults = 0
    WalBeforeData = TRUE
SPECIFICATION RacyFlushSpec
INVARIANT DirtyCoversStale
CHECK_DEADLOCK FALSE

\* No crash: concurrent writes, commits, aborts, cache flushes and
\* checkpoints rotating up to one new generation.
CONSTANTS
    p1 = p1
    p2 = p2
    t1 = t1
    t2 = t2
    Pages <- MCPages
    Txns <- MCTxns
    Vals <- MCVals
    InitVal = 0
    NoVal = NoVal
    NoIdx = NoIdx
    NoTxn = NoTxn
    MaxGen = 1
    MaxWrites = 2
    MaxCrashes = 0
    MaxIoFaults = 0
    WalBeforeData = FALSE
SPECIFICATION Spec
INVARIANT TypeOK
INVARIANT OpenTxnsTracked
INVARIANT DirtyCoversStale
\* The workload is bounded: once every transaction has ended and the
\* generations are used up, the system may stop.
CHECK_DEADLOCK FALSE
SYMMETRY MCSymmetry

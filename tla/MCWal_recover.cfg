\* Up to two crashes and recoveries, one generation, each transaction writing once,
\* and a cache that writes pages only while the whole log is flushed.  With two
\* writes per transaction the undo scan bound (undo_partial) shows through: an
\* aborted transaction's first write survives and recovery replays it.
CONSTANTS
    p1 = p1
    p2 = p2
    t1 = t1
    t2 = t2
    Pages <- MCPages
    Txns <- MCTxns
    Vals <- MCVals
    InitVal = 0
    NoVal = NoVal
    NoIdx = NoIdx
    NoTxn = NoTxn
    MaxGen = 0
    MaxWrites = 1
    MaxCrashes = 2
    MaxIoFaults = 0
    WalBeforeData = TRUE
SPECIFICATION Spec
INVARIANT OpenTxnsTracked
INVARIANT DirtyCoversStale
PROPERTY RecoveryDurable
\* The workload is bounded: once every transaction has ended the system
\* may stop.
CHECK_DEADLOCK FALSE
SYMMETRY MCSymmetry

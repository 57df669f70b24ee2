\* A transaction writing twice, then aborted: undo stops at its last write.
CONSTANTS
    p1 = p1
    p2 = p2
    t1 = t1
    t2 = t2
    Pages <- MCPages
    Txns <- MCTxns
    Vals <- MCVals
    InitVal = 0
    NoVal = NoVal
    NoIdx = NoIdx
    NoTxn = NoTxn
    MaxGen = 0
    MaxWrites = 2
    MaxCrashes = 0
    MaxIoFaults = 0
    WalBeforeData = TRUE
SPECIFICATION Spec
PROPERTY UndoRestores
CHECK_DEADLOCK FALSE

\* A committed write in an older generation, a checkpoint, a crash, recovery.
CONSTANTS
    p1 = p1
    p2 = p2
    t1 = t1
    t2 = t2
    Pages <- MCPages
    Txns <- MCTxns
    Vals <- MCVals
    InitVal = 0
    NoVal = NoVal
    NoIdx = NoIdx
    NoTxn = NoTxn
    MaxGen = 1
    MaxWrites = 1
    MaxCrashes = 1
    MaxIoFaults = 0
    WalBeforeData = TRUE
SPECIFICATION Spec
PROPERTY RecoveryDurable
CHECK_DEADLOCK FALSE

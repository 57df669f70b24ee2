\* One append fails after State handled it; one write per transaction, so
\* undo_all's scan bound (undo_partial) alone cannot break undo here.
CONSTANTS
    p1 = p1
    p2 = p2
    t1 = t1
    t2 = t2
    Pages <- MCPages
    Txns <- MCTxns
    Vals <- MCVals
    InitVal = 0
    NoVal = NoVal
    NoIdx = NoIdx
    NoTxn = NoTxn
    MaxGen = 0
    MaxWrites = 1
    MaxCrashes = 0
    MaxIoFaults = 1
    WalBeforeData = TRUE
SPECIFICATION FaultSpec
PROPERTY UndoRestores
CHECK_DEADLOCK FALSE

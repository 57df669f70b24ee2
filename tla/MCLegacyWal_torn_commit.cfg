\* One write_all may fail after a prefix of the buffer; the client may
\* then retry the commit, cancel, or log more and commit.
SPECIFICATION Spec
CONSTANTS
    p1 = p1
    p2 = p2
    v1 = v1
    v2 = v2
    Pages <- MCPages
    Vals <- MCVals
    IdSize = 2
    PageSize = 2
    BufCap = 4
    MaxBytes = 8
    MaxFaults = 1
INVARIANT CommittedReplayed
\* The workload stops at MaxBytes.
CHECK_DEADLOCK FALSE

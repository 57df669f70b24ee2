\* Reliable writes; a page of 1 byte after a 2-byte page id, read through
\* a 4-byte BufReader: a record size that does not divide the reader
\* capacity, as a page_size of 100 with the 8 KiB default reader.
SPECIFICATION ReliableSpec
CONSTANTS
    p1 = p1
    p2 = p2
    v1 = v1
    v2 = v2
    Pages <- MCPages
    Vals <- MCVals
    IdSize = 2
    PageSize = 1
    BufCap = 4
    MaxBytes = 9
    MaxFaults = 0
INVARIANT ReplayCommitted
\* The workload stops at MaxBytes.
CHECK_DEADLOCK FALSE

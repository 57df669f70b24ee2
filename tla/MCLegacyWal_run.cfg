\* Reliable writes; a page id of 2 bytes and a page of 4 bytes read
\* through an 8-byte BufReader: a record does not divide the capacity but
\* the page is half of it, as a 4 KiB page after an 8-byte PageId read
\* through the 8 KiB default reader.  Up to three records.
SPECIFICATION ReliableSpec
CONSTANTS
    p1 = p1
    p2 = p2
    v1 = v1
    v2 = v2
    Pages <- MCPages
    Vals <- MCVals
    IdSize = 2
    PageSize = 4
    BufCap = 8
    MaxBytes = 18
    MaxFaults = 0
INVARIANT ReplayCommitted
\* The workload stops at MaxBytes.
CHECK_DEADLOCK FALSE

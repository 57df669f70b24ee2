\* Two threads, three segments and a cache of two descriptors: fast_cap is
\* 0 and graveyard_cap 1, so every store into a full cache evicts, a key
\* can come back through the graveyard into slow, and both threads can miss
\* on the same segment.  Five opens let the cache fill, evict and refill.
CONSTANTS
    t1 = t1
    t2 = t2
    s1 = s1
    s2 = s2
    s3 = s3
    noThread = noThread
    Threads <- MCThreads
    Segs <- MCSegs
    NoThread <- noThread
    MaxOpen = 2
    MaxOpens = 5
SPECIFICATION Spec
INVARIANT ReplacerTracked
PROPERTY OperationsComplete

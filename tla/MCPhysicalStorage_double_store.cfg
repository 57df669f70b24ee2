\* Two threads, three segments, a cache of two descriptors: both threads
\* can miss on the same segment before either stores it.
CONSTANTS
    t1 = t1
    t2 = t2
    s1 = s1
    s2 = s2
    s3 = s3
    noThread = noThread
    Threads <- MCThreads
    Segs <- MCSegs
    NoThread <- noThread
    MaxOpen = 2
    MaxOpens = 2
SPECIFICATION Spec
PROPERTY StoreUncached

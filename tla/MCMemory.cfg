SPECIFICATION MemorySpec
CONSTANTS
    Procs = {p1, p2, p3}
    WLOCK = 4
    w1 = w1
    w2 = w2
    NoWorker = NoWorker
    x1 = x1
    x2 = x2
    x3 = x3
    x4 = x4
INVARIANTS RegionsExact DataKept ListExact
PROPERTIES ContentExact QueueExact TreesExact ImplementsMap ImplementsRwLock SomeoneGetsIn
CHECK_DEADLOCK FALSE

SPECIFICATION Spec
CONSTANTS
    low = low
    mid = mid
    peer = peer
    high = high
    NoThread = NoThread
    SPIMutex = SPIMutex
    OtherMutex = OtherMutex
    Threads <- MCThreads
    Mutexes <- MCMutexes
    RealPrio <- MCRealPrio
    Scripts <- MCScripts
INVARIANTS TypeOK HighestRuns Inheritance ExchangePaired
PROPERTIES PassedToHighest MutexesKept WaitEnds

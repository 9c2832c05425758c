SPECIFICATION Spec
CONSTANTS
    lwip = lwip
    tcpip = tcpip
    NoThread = NoThread
    Lwip = lwip
    Threads <- MCThreads
    Prio <- MCPrio
    NextPointers <- MCNextPointers
    RxLens <- MCRxLens
    TxLens <- MCTxLens
    LowByteFirst = TRUE
INVARIANTS TypeOK BusUnderMutex BankCoherent RightRegister
PROPERTIES CallsAreAtomic CallsReturn

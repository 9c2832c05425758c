SPECIFICATION Spec
CONSTANTS
    Lwip = lwip
    Tcpip = tcpip
    Senders = {lwip}
    RxStop = 23
    MemTop = 35
    Radix = 8
    RxSizes = {1, 4}
    MaxRx = 5
    TxSizes = {1, 2}
    MaxTx = 3
    Apart = FALSE
INVARIANTS IntactUnlessClobbered RingIntact SentWhole
CONSTRAINT NotClobbered

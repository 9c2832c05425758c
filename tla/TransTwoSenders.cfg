SPECIFICATION Spec
CONSTANTS
    Lwip = lwip
    Tcpip = tcpip
    Senders = {lwip, tcpip}
    RxStop = 23
    MemTop = 35
    Radix = 8
    RxSizes = {1, 4}
    MaxRx = 1
    TxSizes = {2, 3}
    MaxTx = 2
    Apart = FALSE
INVARIANTS SentWhole

SPECIFICATION Spec
CONSTANTS
    Lwip = lwip
    Tcpip = tcpip
    Senders = {tcpip}
    RxStop = 23
    MemTop = 35
    Radix = 8
    RxSizes = {1, 4}
    MaxRx = 1
    TxSizes = {2}
    MaxTx = 1
    Apart = FALSE
INVARIANTS IntactUnlessClobbered

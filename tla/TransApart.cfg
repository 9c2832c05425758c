SPECIFICATION Spec
CONSTANTS
    Lwip = lwip
    Tcpip = tcpip
    Senders = {tcpip}
    RxStop = 23
    MemTop = 35
    Radix = 8
    RxSizes = {1, 4}
    MaxRx = 5
    TxSizes = {1, 2, 3}
    MaxTx = 3
    Apart = TRUE
INVARIANTS TypeOK InputIntact RingIntact CountMatchesQueue SentWhole ControlByteKept
PROPERTIES ReadPointerOdd ImplementsFrameQueue EverythingSent

SPECIFICATION Spec
CONSTANTS
    Blinker = blinker
    Lwip = lwip
    Tcpip = tcpip
    Length <- MessageLength
    MaxMessages <- MessageBound
    FifoDepth = 1
    BufferSize = 4
INVARIANTS TypeOK StreamExact SplitFromAbove
PROPERTIES LostOnlyWhenOvertaken PrintsReturn

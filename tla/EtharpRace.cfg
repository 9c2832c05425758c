SPECIFICATION Spec
CONSTANTS
    Lwip = lwip
    Tcpip = tcpip
    Addresses = {gateway, peer, other}
    Pbufs = {b1, b2}
    NULL = NULL
    ARP_TABLE_SIZE = 2
    ARP_MAXAGE = 4
    ARP_MAXPENDING = 2
    ARP_AGE_REREQUEST_USED_UNICAST = 2
    Alone = FALSE
INVARIANTS FreedOnce

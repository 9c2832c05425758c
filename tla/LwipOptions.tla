---------------------------- MODULE LwipOptions -----------------------------
(***************************************************************************)
(* The options of lwipopts.h that decide what lwIP's code and its memory   *)
(* look like in this program, and what must hold between them: the checks  *)
(* lwIP makes when it is compiled (core/init.c), and relations that        *)
(* nothing checks.  1 and 0 are the header's own truth values.             *)
(***************************************************************************)
EXTENDS Integers

On(option) == option # 0
Smaller(a, b) == IF a < b THEN a ELSE b
Larger(a, b) == IF a < b THEN b ELSE a

(* Locking and the threads.                                                 *)
NO_SYS == 0
NO_SYS_NO_TIMERS == 0
SYS_LIGHTWEIGHT_PROT == 0
LWIP_ALLOW_MEM_FREE_FROM_OTHER_CONTEXT == 0
LWIP_TCPIP_CORE_LOCKING == 0
LWIP_TCPIP_CORE_LOCKING_INPUT == 0

(* Memory.                                                                  *)
MEM_LIBC_MALLOC == 0
MEM_USE_POOLS == 0
MEMP_USE_CUSTOM_POOLS == 0
MEMP_MEM_MALLOC == 0
MEM_ALIGNMENT == 4
MEM_SIZE == 1600
MEMP_NUM_RAW_PCB == 4
MEMP_NUM_UDP_PCB == 4
MEMP_NUM_TCP_PCB == 5
MEMP_NUM_TCP_PCB_LISTEN == 8
MEMP_NUM_TCP_SEG == 16
MEMP_NUM_REASSDATA == 5
MEMP_NUM_ARP_QUEUE == 30
MEMP_NUM_IGMP_GROUP == 8
MEMP_NUM_NETCONN == 4
MEMP_NUM_TCPIP_MSG_API == 8
PBUF_POOL_SIZE == 12
LWIP_MEM_ALIGN_SIZE(size) == ((size + MEM_ALIGNMENT - 1) \div MEM_ALIGNMENT) * MEM_ALIGNMENT

(* The protocols.                                                           *)
PPP_SUPPORT == 0
PPPOE_SUPPORT == 0
PPPOS_SUPPORT == PPP_SUPPORT
LWIP_ARP == 1
ARP_TABLE_SIZE == 10
ARP_QUEUEING == 0
ETHARP_TRUST_IP_MAC == 0
ETHARP_SUPPORT_VLAN == 0
ETHARP_SUPPORT_STATIC_ENTRIES == 0
LWIP_ETHERNET == IF On(LWIP_ARP) \/ On(PPPOE_SUPPORT) THEN 1 ELSE 0
ETH_PAD_SIZE == 0
IP_REASSEMBLY == 1
IP_REASS_MAX_PBUFS == 10
IP_FRAG == 1
IP_FRAG_USES_STATIC_BUF == 0
IP_FRAG_MAX_MTU == 1500
IP_SOF_BROADCAST == 0
IP_SOF_BROADCAST_RECV == 0
LWIP_RAW == 1
LWIP_DHCP == 0
DHCP_DOES_ARP_CHECK == IF On(LWIP_DHCP) /\ On(LWIP_ARP) THEN 1 ELSE 0
LWIP_AUTOIP == 0
LWIP_DHCP_AUTOIP_COOP == 0
LWIP_IGMP == 0
LWIP_DNS == 0
LWIP_UDP == 1
LWIP_UDPLITE == 0
LWIP_NETIF_API == 0
LWIP_NETIF_TX_SINGLE_PBUF == 0
LWIP_NETCONN == 1
LWIP_SOCKET == 1

(* TCP.                                                                     *)
LWIP_TCP == 1
TCP_MSS == 536
TCP_WND == 4 * TCP_MSS
TCP_SND_BUF == 2 * TCP_MSS
TCP_SND_QUEUELEN == (4 * TCP_SND_BUF + (TCP_MSS - 1)) \div TCP_MSS
TCP_SNDLOWAT == Smaller(Larger(TCP_SND_BUF \div 2, 2 * TCP_MSS + 1), TCP_SND_BUF - 1)
TCP_SNDQUEUELOWAT == Larger(TCP_SND_QUEUELEN \div 2, 5)
TCP_MAXRTX == 12
TCP_SYNMAXRTX == 6
TCP_LISTEN_BACKLOG == 0
TCP_DEFAULT_LISTEN_BACKLOG == 255
TCP_OVERSIZE == TCP_MSS
LWIP_EVENT_API == 0
LWIP_CALLBACK_API == 1
PBUF_LINK_HLEN == 14 + ETH_PAD_SIZE
PBUF_POOL_BUFSIZE == LWIP_MEM_ALIGN_SIZE(TCP_MSS + 40 + PBUF_LINK_HLEN)
PBUF_IP_HLEN == 20
PBUF_TRANSPORT_HLEN == 20

MEMP_NUM_SYS_TIMEOUT ==
    LWIP_TCP + IP_REASSEMBLY + LWIP_ARP + 2 * LWIP_DHCP + LWIP_AUTOIP
        + LWIP_IGMP + LWIP_DNS + PPP_SUPPORT

-----------------------------------------------------------------------------
(* Every pool that an enabled protocol takes its control blocks from has    *)
(* some, and no more reassembly records than pbufs to put in them.          *)
PoolsSupplied ==
    /\ On(LWIP_ARP) /\ On(ARP_QUEUEING) => MEMP_NUM_ARP_QUEUE > 0
    /\ On(LWIP_RAW) => MEMP_NUM_RAW_PCB > 0
    /\ On(LWIP_UDP) => MEMP_NUM_UDP_PCB > 0
    /\ On(LWIP_TCP) => MEMP_NUM_TCP_PCB > 0
    /\ On(LWIP_IGMP) => MEMP_NUM_IGMP_GROUP > 1
    /\ On(LWIP_NETCONN) \/ On(LWIP_SOCKET) => MEMP_NUM_TCPIP_MSG_API > 0
    /\ On(IP_REASSEMBLY) => MEMP_NUM_REASSDATA <= IP_REASS_MAX_PBUFS
    /\ MEMP_NUM_NETCONN <= MEMP_NUM_TCP_PCB + MEMP_NUM_TCP_PCB_LISTEN
                               + MEMP_NUM_UDP_PCB + MEMP_NUM_RAW_PCB
    /\ ARP_TABLE_SIZE \in 1..127

(* An option is on only with those it needs.                                *)
DependenciesMet ==
    /\ On(IP_SOF_BROADCAST_RECV) => On(IP_SOF_BROADCAST)
    /\ On(LWIP_UDPLITE) \/ On(LWIP_DHCP) \/ On(LWIP_DNS) => On(LWIP_UDP)
    /\ On(LWIP_NETIF_API) \/ On(LWIP_SOCKET) \/ On(LWIP_NETCONN) => ~On(NO_SYS)
    /\ On(LWIP_DHCP_AUTOIP_COOP) => On(LWIP_DHCP) /\ On(LWIP_AUTOIP)
    /\ On(DHCP_DOES_ARP_CHECK) => On(LWIP_DHCP) /\ On(LWIP_ARP)
    /\ On(LWIP_AUTOIP) => On(LWIP_ARP)
    /\ ~(On(MEM_LIBC_MALLOC) /\ On(MEM_USE_POOLS))
    /\ On(MEM_USE_POOLS) => On(MEMP_USE_CUSTOM_POOLS) /\ ~On(MEMP_MEM_MALLOC)
    /\ On(PPP_SUPPORT) => On(PPPOS_SUPPORT) \/ On(PPPOE_SUPPORT)
    /\ On(LWIP_ARP) \/ On(PPPOE_SUPPORT) => On(LWIP_ETHERNET)
    /\ On(LWIP_TCPIP_CORE_LOCKING_INPUT) => On(LWIP_TCPIP_CORE_LOCKING)
    /\ On(LWIP_NETIF_TX_SINGLE_PBUF) =>
           On(TCP_OVERSIZE) /\ ~(On(IP_FRAG) /\ On(IP_FRAG_USES_STATIC_BUF))

(* TCP's counters fit their types, a window fits the pool, and the low-water*)
(* marks lie below what they are marks of.                                  *)
Headers == PBUF_LINK_HLEN + PBUF_IP_HLEN + PBUF_TRANSPORT_HLEN
TcpConsistent ==
    /\ TCP_WND <= 65535 /\ TCP_WND >= TCP_MSS
    /\ TCP_SND_QUEUELEN \in 2..65535
    /\ TCP_MAXRTX <= 12 /\ TCP_SYNMAXRTX <= 12
    /\ On(TCP_LISTEN_BACKLOG) => TCP_DEFAULT_LISTEN_BACKLOG \in 0..255
    /\ On(LWIP_EVENT_API) # On(LWIP_CALLBACK_API)
    /\ MEMP_NUM_TCP_SEG >= TCP_SND_QUEUELEN
    /\ TCP_SND_BUF >= 2 * TCP_MSS
    /\ TCP_SND_QUEUELEN >= 2 * (TCP_SND_BUF \div TCP_MSS)
    /\ TCP_SNDLOWAT < TCP_SND_BUF
    /\ TCP_SNDQUEUELOWAT < TCP_SND_QUEUELEN
    /\ PBUF_POOL_BUFSIZE > MEM_ALIGNMENT /\ PBUF_POOL_BUFSIZE > Headers
    /\ TCP_WND <= PBUF_POOL_SIZE * (PBUF_POOL_BUFSIZE - Headers)

-----------------------------------------------------------------------------
(* What the compiler does not check.                                        *)

\* sys_timeouts_init starts the timers of IP reassembly and of ARP, and one or
\* two for each protocol that is off here; TCP's starts with the first connection.
TimersStarted ==
    IP_REASSEMBLY + LWIP_ARP + 2 * LWIP_DHCP + LWIP_AUTOIP + LWIP_IGMP + LWIP_DNS + LWIP_TCP

\* The checksums lwIP fills in, and those it verifies.
ChecksumsGenerated == {"ip", "udp", "tcp", "icmp"}
ChecksumsChecked == {"ip", "udp", "tcp"}

\* The modules whose debug messages are on; LWIP_DEBUGF prints those, at every
\* level, through LWIP_PLATFORM_DIAG, that is, dbg_print_wrapper.
LWIP_DBG_MIN_LEVEL == 0
LWIP_DBG_TYPES_ON == 128
DebugCore == {"API_LIB", "API_MSG", "SOCKETS", "ICMP", "IGMP", "INET", "IP", "IP_REASS",
              "RAW", "MEM", "MEMP", "SYS"}
DebugProtocols == {"TCP", "TCP_INPUT", "TCP_FR", "TCP_RTO", "TCP_CWND", "TCP_WND", "TCP_OUTPUT",
                   "TCP_RST", "TCP_QLEN", "UDP", "TCPIP", "PPP", "SLIP", "DHCP", "AUTOIP",
                   "SNMP_MSG", "SNMP_MIB", "DNS"}
Prints(module, level) ==
    /\ module \in DebugCore \cup DebugProtocols
    /\ On(LWIP_DBG_TYPES_ON) /\ level >= LWIP_DBG_MIN_LEVEL
=============================================================================

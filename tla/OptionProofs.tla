---------------------------- MODULE OptionProofs ----------------------------
(***************************************************************************)
(* Theorems about the numbers of LwipOptions, Buffers, ChOptions and       *)
(* Board: that they pass the checks of lwIP and ChibiOS, and what nothing  *)
(* checks and the other modules rest on.  The constants are the            *)
(* repository's; there is no behaviour here and nothing is assumed.        *)
(***************************************************************************)
EXTENDS Buffers, Board, TLAPS

-----------------------------------------------------------------------------
(* lwIP's options.                                                          *)

\* The options pass the checks that lwIP makes of them when it is compiled.
LEMMA OptionsConsistent == PoolsSupplied /\ DependenciesMet /\ TcpConsistent
<1>1. PoolsSupplied
  BY DEF PoolsSupplied, On, MEMP_NUM_ARP_QUEUE, MEMP_NUM_RAW_PCB, MEMP_NUM_UDP_PCB,
         MEMP_NUM_TCP_PCB, MEMP_NUM_IGMP_GROUP, MEMP_NUM_TCPIP_MSG_API, MEMP_NUM_REASSDATA,
         IP_REASS_MAX_PBUFS, MEMP_NUM_NETCONN, MEMP_NUM_TCP_PCB_LISTEN, ARP_TABLE_SIZE
<1>2. DependenciesMet
  BY DEF DependenciesMet, On, IP_SOF_BROADCAST_RECV, LWIP_UDP, NO_SYS, LWIP_DHCP_AUTOIP_COOP,
         DHCP_DOES_ARP_CHECK, LWIP_DHCP, LWIP_AUTOIP, MEM_LIBC_MALLOC, MEM_USE_POOLS,
         PPP_SUPPORT, LWIP_ETHERNET, LWIP_ARP, LWIP_TCPIP_CORE_LOCKING_INPUT,
         LWIP_NETIF_TX_SINGLE_PBUF
<1>3. TcpConsistent
  <2>1. /\ TCP_MSS = 536 /\ TCP_WND = 2144 /\ TCP_SND_BUF = 1072
        /\ Headers = 54 /\ PBUF_POOL_BUFSIZE = 592 /\ MEM_ALIGNMENT = 4
    BY DEF TCP_MSS, TCP_WND, TCP_SND_BUF, Headers, PBUF_LINK_HLEN, PBUF_IP_HLEN, ETH_PAD_SIZE,
           PBUF_TRANSPORT_HLEN, PBUF_POOL_BUFSIZE, LWIP_MEM_ALIGN_SIZE, MEM_ALIGNMENT
  <2>2. TCP_SND_QUEUELEN = 8
    BY <2>1 DEF TCP_SND_QUEUELEN
  <2>3. TCP_SNDLOWAT = 1071 /\ TCP_SNDQUEUELOWAT = 5
    BY <2>1, <2>2 DEF TCP_SNDLOWAT, TCP_SNDQUEUELOWAT, Smaller, Larger
  <2> QED
    BY <2>1, <2>2, <2>3 DEF TcpConsistent, On, TCP_MAXRTX, TCP_SYNMAXRTX, TCP_LISTEN_BACKLOG,
           LWIP_EVENT_API, LWIP_CALLBACK_API, MEMP_NUM_TCP_SEG, PBUF_POOL_SIZE
<1> QED
  BY <1>1, <1>2, <1>3

\* Every timer finds a record in its pool: memp_malloc's NULL, on which
\* sys_timeout halts the system, is not met.
LEMMA TimersSupplied == ~On(NO_SYS_NO_TIMERS) /\ TimersStarted <= MEMP_NUM_SYS_TIMEOUT
PROOF BY DEF On, NO_SYS_NO_TIMERS, TimersStarted, MEMP_NUM_SYS_TIMEOUT, IP_REASSEMBLY, LWIP_ARP,
             LWIP_DHCP, LWIP_AUTOIP, LWIP_IGMP, LWIP_DNS, LWIP_TCP, PPP_SUPPORT

\* Nothing in lwIP keeps two threads out of its tables: neither its critical
\* sections nor its core lock exist in this build, and so only the order in
\* which the threads run protects them (Etharp's Alone).
LEMMA NothingLocksTheCore ==
    /\ ~On(SYS_LIGHTWEIGHT_PROT) /\ ~On(LWIP_TCPIP_CORE_LOCKING)
    /\ ~On(LWIP_ALLOW_MEM_FREE_FROM_OTHER_CONTEXT)
PROOF BY DEF On, SYS_LIGHTWEIGHT_PROT, LWIP_TCPIP_CORE_LOCKING,
             LWIP_ALLOW_MEM_FREE_FROM_OTHER_CONTEXT

\* The parts of etharp.c that are compiled, which are those Etharp models: an
\* entry holds one packet and not a queue, no entry is static, none is learnt
\* from an IP packet, and frames carry no VLAN tag and no padding.
LEMMA ArpAsModelled ==
    /\ ~On(ARP_QUEUEING) /\ ~On(ETHARP_SUPPORT_STATIC_ENTRIES)
    /\ ~On(ETHARP_TRUST_IP_MAC) /\ ~On(ETHARP_SUPPORT_VLAN) /\ ETH_PAD_SIZE = 0
PROOF BY DEF On, ARP_QUEUEING, ETHARP_SUPPORT_STATIC_ENTRIES, ETHARP_TRUST_IP_MAC,
             ETHARP_SUPPORT_VLAN, ETH_PAD_SIZE

\* The chip computes no checksum but the frame's own CRC (in transmit_end the
\* code that would use its DMA is commented out), and so lwIP must, for every
\* protocol that is on.
LEMMA ChecksumsInSoftware ==
    /\ {"ip", "icmp"} \subseteq ChecksumsGenerated /\ "ip" \in ChecksumsChecked
    /\ On(LWIP_UDP) => "udp" \in ChecksumsGenerated \cap ChecksumsChecked
    /\ On(LWIP_TCP) => "tcp" \in ChecksumsGenerated \cap ChecksumsChecked
PROOF BY DEF ChecksumsGenerated, ChecksumsChecked

\* Both threads print through the one buffer of dbg_print_wrapper: lwip_thread
\* from ip_input, at every packet, and the tcpip thread from ip_reass_tmr
\* (DbgPrint's dbg_print_wrapper); ARP, which also runs in both, prints nothing.
LEMMA BothThreadsPrint == Prints("IP", 0) /\ Prints("IP_REASS", 0) /\ ~Prints("ETHARP", 0)
PROOF BY DEF Prints, DebugCore, DebugProtocols, On, LWIP_DBG_TYPES_ON, LWIP_DBG_MIN_LEVEL

-----------------------------------------------------------------------------
(* Sizes.                                                                   *)

\* The sizes in bytes that the definitions come to.
LEMMA Sizes == /\ RXSTOP_INIT = 3071 /\ TXSTART_INIT = 3072 /\ TXSTOP_INIT = 4607
               /\ RXSTART_INIT = 0 /\ rxbufsize = 3071
               /\ MEM_SIZE_ALIGNED = 1600 /\ MEM_ALIGNMENT = 4
               /\ SIZEOF_STRUCT_MEM = 8 /\ SIZEOF_STRUCT_PBUF = 16
BY DEF RXSTOP_INIT, TXSTART_INIT, TXSTOP_INIT, RXSTART_INIT, rxbufsize, MEM_SIZE_ALIGNED, MEM_SIZE,
       MEM_ALIGNMENT, SIZEOF_STRUCT_MEM, SIZEOF_STRUCT_PBUF, LWIP_MEM_ALIGN_SIZE

\* The receive ring has 'room for 2 packets' (enc28j60.h) of the greatest length.
THEOREM RoomForTwoFrames == 2 * InRing(MaxFrame) <= RXSTOP_INIT - RXSTART_INIT + 1
PROOF BY Sizes DEF InRing, MaxFrame

\* enc_transmit_pbuf compares no size ('@todo check buffer size'), and need not:
\* every packet that lwIP builds for this interface ends, with the status that
\* the chip stores behind it, within the transmit buffer, though this begins one
\* byte before TXSTART_INIT.
THEOREM TransmitFits ==
    \A length \in 1..(SizeofEthHdr + mtu) :
        rxbufsize <= StatusAddress(length) /\ LastStatusByte(length) <= TXSTOP_INIT
PROOF BY Sizes DEF StatusAddress, LastStatusByte, SizeofEthHdr, mtu

\* Behind the transmit buffer lies the scratch area, which nothing reaches.
LEMMA ScratchUntouched ==
    \A length \in 1..(SizeofEthHdr + mtu) : LastStatusByte(length) < SCRATCH_START
PROOF BY TransmitFits, Sizes DEF SCRATCH_START, LastStatusByte, StatusAddress

\* Aligning a size adds at most three bytes.
LEMMA AlignedUp ==
    ASSUME NEW n \in Nat
    PROVE  LWIP_MEM_ALIGN_SIZE(n) \in n..(n + 3)
BY DEF LWIP_MEM_ALIGN_SIZE, MEM_ALIGNMENT

\* A frame of any length the chip accepts is received as long as nothing else
\* is allocated, but never two of the greatest length: pbuf_alloc does fail in
\* enc_read_received_pbuf when lwIP keeps a large frame (EncTrans's AllocFails).
THEOREM OneFrameInHeap ==
    /\ \A length \in 1..MaxFrame : FitAlone(length)
    /\ ~FitTogether(MaxFrame, MaxFrame)
<1>1. \A length \in 1..MaxFrame : FitAlone(length)
  BY Sizes, AlignedUp DEF FitAlone, PbufRam, MaxFrame
<1>2. ~FitTogether(MaxFrame, MaxFrame)
  BY Sizes, AlignedUp DEF FitTogether, PbufRam, MaxFrame
<1> QED BY <1>1, <1>2

\* While a frame of the greatest length is held there is no memory for an ARP
\* packet, so that an answer to it that needs address resolution is not even
\* asked for.
THEOREM NoRequestBesideFullFrame == ~FitTogether(MaxFrame, SIZEOF_ETHARP_PACKET)
PROOF BY Sizes, AlignedUp DEF FitTogether, PbufRam, MaxFrame, SIZEOF_ETHARP_PACKET, SizeofEthHdr

\* A datagram in fragments the first of which fills the MTU is never put
\* together again, though IP_REASSEMBLY is on: while lwIP holds that fragment no
\* other frame can be received.
THEOREM ReassemblyStarves ==
    On(IP_REASSEMBLY) /\ \A length \in MinFrame..MaxFrame : ~FitTogether(SizeofEthHdr + mtu, length)
<1>1. On(IP_REASSEMBLY)
  BY DEF On, IP_REASSEMBLY
<1>2. ASSUME NEW length \in MinFrame..MaxFrame PROVE ~FitTogether(SizeofEthHdr + mtu, length)
  <2>1. length \in Nat /\ length >= 60
    BY DEF MinFrame, MaxFrame
  <2>2. LWIP_MEM_ALIGN_SIZE(length) \in length..(length + 3)
    BY <2>1, AlignedUp
  <2>3. LWIP_MEM_ALIGN_SIZE(SizeofEthHdr + mtu) = 1516
    BY DEF LWIP_MEM_ALIGN_SIZE, MEM_ALIGNMENT, SizeofEthHdr, mtu
  <2> QED BY <2>1, <2>2, <2>3, Sizes DEF FitTogether, PbufRam, SizeofEthHdr, mtu
<1> QED BY <1>1, <1>2

\* A packet that waits for its destination's address is copied (etharp_query),
\* while the frame that caused it is still held: an answer as long as its
\* question is queued up to 776 bytes, and never beyond.
THEOREM LongAnswersNotQueued ==
    \A length \in 1..MaxFrame : FitTogether(length, length) <=> length <= 776
<1> SUFFICES ASSUME NEW length \in 1..MaxFrame
             PROVE  FitTogether(length, length) <=> length <= 776
  OBVIOUS
<1>1. length \in Nat
  BY DEF MaxFrame
<1>2. LWIP_MEM_ALIGN_SIZE(length) <= 776 <=> length <= 776
  BY <1>1 DEF LWIP_MEM_ALIGN_SIZE, MEM_ALIGNMENT
<1>3. LWIP_MEM_ALIGN_SIZE(length) \in Nat
  BY <1>1, AlignedUp
<1>4. FitTogether(length, length) <=> 2 * (24 + LWIP_MEM_ALIGN_SIZE(length)) <= 1600
  BY <1>3, Sizes DEF FitTogether, PbufRam
<1> QED BY <1>2, <1>3, <1>4

-----------------------------------------------------------------------------
(* The kernel's options.                                                    *)

\* The options pass ChibiOS's own checks.
LEMMA OptionsAccepted == TimeAccepted /\ PartsAccepted
<1>1. TimeAccepted
  BY DEF TimeAccepted, CH_CFG_ST_RESOLUTION, CH_CFG_ST_FREQUENCY, CH_CFG_ST_TIMEDELTA,
         CH_CFG_TIME_QUANTUM, DebugChecks
<1>2. PartsAccepted
  BY DEF PartsAccepted, Needs, Kernel, Synchronization, Memory, DebugChecks
<1> QED BY <1>1, <1>2

\* The five threads have five priorities, in the order that the start-up relies
\* on (lwipInit's comment, LwipStart's assumption on its constants), and there
\* is no time slicing and an idle thread below them: what runs is decided by the
\* priorities alone (ChKernel, LwipStart, Etharp and DbgPrint).
LEMMA PrioritiesOrdered ==
    /\ IDLEPRIO < LOWPRIO /\ LOWPRIO < TCPIP_THREAD_PRIO
    /\ TCPIP_THREAD_PRIO < LwipThreadPrio /\ LwipThreadPrio < NORMALPRIO
    /\ NORMALPRIO < BlinkerPrio /\ BlinkerPrio < HIGHPRIO
    /\ LOWPRIO + 2 < NORMALPRIO
    /\ CH_CFG_TIME_QUANTUM = 0 /\ ~CH_CFG_NO_IDLE_THREAD
BY DEF IDLEPRIO, LOWPRIO, TCPIP_THREAD_PRIO, LwipThreadPrio, NORMALPRIO, BlinkerPrio, HIGHPRIO,
       CH_CFG_TIME_QUANTUM, CH_CFG_NO_IDLE_THREAD

\* The system time wraps after 32.768 seconds.  A delay of up to 32 seconds, and
\* a timeout of up to 32767 milliseconds, keeps its length; beyond that it is
\* cut, and one of 32768 milliseconds becomes TIME_IMMEDIATE.
THEOREM DelaysExact ==
    /\ \A sec \in Nat : sec <= 32 => S2ST(sec) = 2000 * sec /\ S2ST(sec) < TIME_INFINITE
    /\ \A msec \in Nat : msec <= 32767 => MS2ST(msec) = 2 * msec /\ MS2ST(msec) < TIME_INFINITE
    /\ S2ST(33) < S2ST(1) /\ MS2ST(32768) = TIME_IMMEDIATE
<1>1. SystimeRange = 65536 /\ CH_CFG_ST_FREQUENCY = 2000
  BY DEF SystimeRange, CH_CFG_ST_RESOLUTION, CH_CFG_ST_FREQUENCY
<1>2. \A sec \in Nat : sec <= 32 => S2ST(sec) = 2000 * sec /\ S2ST(sec) < TIME_INFINITE
  BY <1>1 DEF S2ST, TIME_INFINITE
<1>3. \A msec \in Nat : msec <= 32767 => MS2ST(msec) = 2 * msec /\ MS2ST(msec) < TIME_INFINITE
  <2> SUFFICES ASSUME NEW msec \in Nat, msec <= 32767
               PROVE  MS2ST(msec) = 2 * msec /\ MS2ST(msec) < TIME_INFINITE
    OBVIOUS
  <2>1. (msec * 2000 + 999) \div 1000 = 2 * msec
    OBVIOUS
  <2>2. MS2ST(msec) = (2 * msec) % 65536
    BY <1>1, <2>1 DEF MS2ST
  <2>3. (2 * msec) % 65536 = 2 * msec /\ 2 * msec < 65535
    OBVIOUS
  <2>4. TIME_INFINITE = 65535
    BY <1>1 DEF TIME_INFINITE
  <2> QED BY <2>2, <2>3, <2>4
<1>4. S2ST(33) < S2ST(1) /\ MS2ST(32768) = TIME_IMMEDIATE
  BY <1>1 DEF S2ST, MS2ST, TIME_IMMEDIATE
<1> QED BY <1>2, <1>3, <1>4

\* None of them is cut, taken for no or endless waiting, or rounded up to the
\* least delay that the tickless timer can keep.
THEOREM DelaysKept ==
    /\ \A ticks \in Delays : CH_CFG_ST_TIMEDELTA <= ticks /\ ticks < TIME_INFINITE
    /\ \A msec \in Periods :
           CH_CFG_ST_TIMEDELTA <= MS2ST(msec) /\ MS2ST(msec) < TIME_INFINITE
<1>1. S2ST(1) = 2000 /\ S2ST(2) = 4000
  BY DelaysExact
<1>2. MS2ST(1000) = 2000 /\ MS2ST(250) = 500
  BY DEF MS2ST, SystimeRange, CH_CFG_ST_RESOLUTION, CH_CFG_ST_FREQUENCY
<1>3. TIME_INFINITE = 65535 /\ CH_CFG_ST_TIMEDELTA = 2
  BY DEF TIME_INFINITE, SystimeRange, CH_CFG_ST_RESOLUTION, CH_CFG_ST_TIMEDELTA
<1> QED BY <1>1, <1>2, <1>3 DEF Delays, Periods

\* lwIP's binding (sys_arch.c) finds the parts of the kernel that it calls:
\* semaphores and mailboxes in heap memory, threads in core memory, which is all
\* of the RAM, and their names in the registry.
LEMMA BindingSupplied ==
    ~On(NO_SYS) =>
        /\ {"SEMAPHORES", "MAILBOXES", "HEAP", "MEMCORE", "REGISTRY"} \subseteq Kernel
        /\ CH_CFG_MEMCORE_SIZE = 0
BY DEF Kernel, Synchronization, Memory, CH_CFG_MEMCORE_SIZE

\* spiExchange exists, and blocks; the driver's own lock of the bus does not, so
\* that only enc28j60.c's SPIMutex keeps two threads off it.  Mutexes are not
\* recursive, and nothing would report one that its owner takes a second time:
\* the assertions are not compiled (EncDriver's BusUnderMutex and CallsReturn).
LEMMA OnlySpiMutexProtects ==
    /\ {"SPI", "PAL"} \subseteq Drivers /\ SPI_USE_WAIT /\ ~SPI_USE_MUTUAL_EXCLUSION
    /\ "MUTEXES" \in Kernel /\ "MUTEXES_RECURSIVE" \notin Kernel
    /\ "ENABLE_ASSERTS" \notin DebugChecks
BY DEF Drivers, SPI_USE_WAIT, SPI_USE_MUTUAL_EXCLUSION, Kernel, Synchronization, Memory, DebugChecks

-----------------------------------------------------------------------------
(* The board.                                                               *)

\* The frequencies that these settings give.
LEMMA Clocks ==
    /\ STM32_PLLCLKIN = 6250000 /\ STM32_PLLCLKOUT = 50000000
    /\ STM32_SYSCLK = 50000000 /\ STM32_HCLK = 50000000
    /\ STM32_PCLK1 = 25000000 /\ STM32_PCLK2 = 25000000
    /\ STM32_ADCCLK = 6250000 /\ STM32_TIMCLK1 = 50000000
<1>1. STM32_PLLCLKIN = 6250000
  BY SMT DEF STM32_PLLCLKIN, STM32_HSECLK, PLLXTPRE
<1>2. STM32_PLLCLKOUT = 50000000 /\ STM32_SYSCLK = 50000000
  BY <1>1, SMT DEF STM32_PLLCLKOUT, STM32_SYSCLK, SW, STM32_PLLMUL_VALUE
<1>3. STM32_HCLK = 50000000
  BY <1>2, SMT DEF STM32_HCLK, HPRE
<1>4. STM32_PCLK1 = 25000000 /\ STM32_PCLK2 = 25000000
  BY <1>3, SMT DEF STM32_PCLK1, STM32_PCLK2, PPRE1, PPRE2
<1> QED BY <1>1, <1>2, <1>3, <1>4, SMT DEF STM32_ADCCLK, STM32_TIMCLK1, ADCPRE, PPRE1

\* The clocks pass ChibiOS's checks.  USB's would not be the 48 MHz that USB
\* needs, though mcuconf.h requires it; its driver is off.
LEMMA ClocksWithinLimits ==
    /\ ClocksAccepted /\ FlashWaitStates = 2
    /\ STM32_USBCLK # 48000000 /\ "USB" \notin Drivers
<1>1. ClocksAccepted
  <2>1. PLLSRC \in Oscillators /\ "HSE" \in Oscillators /\ "LSE" \notin Oscillators
    BY DEF PLLSRC, Oscillators
  <2>2. STM32_HSECLK = 6250000 /\ STM32_PLLMUL_VALUE = 8
    BY SMT DEF STM32_HSECLK, STM32_PLLMUL_VALUE
  <2> QED BY <2>1, <2>2, Clocks, SMT DEF ClocksAccepted
<1>2. FlashWaitStates = 2
  BY Clocks, SMT DEF FlashWaitStates
<1>3. STM32_USBCLK # 48000000
  BY Clocks, SMT DEF STM32_USBCLK
<1> QED BY <1>1, <1>2, <1>3 DEF Drivers

\* The system time ticks at exactly the frequency that chconf.h promises: the
\* timer's prescaler divides its clock without a remainder, and fits 16 bits.
THEOREM TicksExact ==
    /\ STM32_TIMCLK1 % CH_CFG_ST_FREQUENCY = 0
    /\ (STM32_TIMCLK1 \div CH_CFG_ST_FREQUENCY) - 1 \in 0..65535
    /\ STM32_ST_USE_TIMER \in 2..5
PROOF BY Clocks, SMT DEF CH_CFG_ST_FREQUENCY, STM32_ST_USE_TIMER

\* The chip takes up to 20 MHz, and below 8 MHz its MAC registers cannot be
\* relied upon (its errata): the SPI clock is between the two, so that every
\* register behaves as EncRegs has it.
THEOREM SpiClockInRange == 8000000 <= SpiClock /\ SpiClock <= 20000000
PROOF BY Clocks, SMT DEF SpiClock

\* The kernel's critical sections mask every interrupt that has a handler here,
\* so that none runs between two of their steps (ChSpi's DmaInterrupt and the
\* alarm of the timer), and no two have the same priority.
LEMMA HandlersMasked ==
    /\ {"SPI1"} \subseteq Units
    /\ {IrqPriority.SPI, IrqPriority.ST, IrqPriority.SERIAL}
           \subseteq CORTEX_MAX_KERNEL_PRIORITY..(CORTEX_PRIORITY_LEVELS - 1)
    /\ IrqPriority.ST < IrqPriority.SPI /\ IrqPriority.SPI < IrqPriority.SERIAL
    /\ STM32_SPI_SPI1_DMA_PRIORITY \in 0..3
BY DEF Units, IrqPriority, CORTEX_MAX_KERNEL_PRIORITY, CORTEX_PRIORITY_LEVELS,
       STM32_SPI_SPI1_DMA_PRIORITY

\* After reset the chip is neither selected nor held in reset until encInit does
\* it, its interrupt is an input, and the SPI and the LED have their pins.
THEOREM PinsAsUsed ==
    /\ \A pin \in {GPIO_ENC_RESET, GPIO_ENC_CS} : ModeC[pin] = "Output2MHz" /\ pin \notin LowC
    /\ ModeC[GPIO_ENC_INT] = "Input"
    /\ \A pin \in {GPIO_SPI_SCK, GPIO_SPI_MISO, GPIO_SPI_MOSI} : ModeA[pin] = "Alternate50MHz"
    /\ ModeA[GPIOA_PA0] = "Output2MHz" /\ GPIOA_PA0 \notin LowA
BY DEF ModeA, ModeC, LowA, LowC, Pins, GPIO_ENC_RESET, GPIO_ENC_CS, GPIO_ENC_INT, GPIO_SPI_SCK,
       GPIO_SPI_MISO, GPIO_SPI_MOSI, GPIOA_PA0

\* The debugger's pins are inputs with the pulls that board.h's comments name.
LEMMA DebuggerPins ==
    /\ ModeA[GPIOA_SWDIO] = "InputPull" /\ GPIOA_SWDIO \notin LowA
    /\ ModeA[GPIOA_SWCLK] = "InputPull" /\ GPIOA_SWCLK \in LowA
    /\ ModeB[GPIOB_SWO] = "InputPull" /\ GPIOB_SWO \notin LowB
BY DEF ModeA, ModeB, LowA, LowB, Pins, GPIOA_SWDIO, GPIOA_SWCLK, GPIOB_SWO

\* Names that the Nucleo board left behind and that nothing may use: its LED is
\* now the SPI's clock, and its serial port has no output.
LEMMA NamesLeftBehind ==
    /\ GPIOA_LED_GREEN = GPIO_SPI_SCK
    /\ ModeA[GPIOA_USART_TX] = "InputPull" /\ ModeA[GPIOA_USART_RX] = "InputPull"
BY DEF GPIOA_LED_GREEN, GPIO_SPI_SCK, ModeA, Pins, GPIOA_USART_TX, GPIOA_USART_RX
=============================================================================

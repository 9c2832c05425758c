----------------------------- MODULE ChOptions ------------------------------
(***************************************************************************)
(* The options of chconf.h and halconf.h that decide how the kernel and    *)
(* the SPI driver behave in this program, the checks ChibiOS makes of them *)
(* when it is compiled, and what the program relies on without any check:  *)
(* the priorities of its threads, delays that fit the system time, and the *)
(* parts of the kernel that its own code and lwIP's binding call.          *)
(***************************************************************************)
EXTENDS LwipOptions

(* Time.                                                                    *)
CH_CFG_ST_RESOLUTION == 16
CH_CFG_ST_FREQUENCY == 2000
CH_CFG_ST_TIMEDELTA == 2
CH_CFG_TIME_QUANTUM == 0

(* What is compiled.                                                        *)
CH_CFG_NO_IDLE_THREAD == FALSE
CH_CFG_MEMCORE_SIZE == 0                \* the whole RAM
Synchronization == {"TM", "REGISTRY", "WAITEXIT", "SEMAPHORES", "MUTEXES", "CONDVARS",
                    "CONDVARS_TIMEOUT", "EVENTS", "EVENTS_TIMEOUT", "MESSAGES", "MAILBOXES", "QUEUES"}
Memory == {"MEMCORE", "HEAP", "MEMPOOLS", "DYNAMIC"}
Kernel == Synchronization \cup Memory
DebugChecks == {"STATISTICS", "SYSTEM_STATE_CHECK", "ENABLE_CHECKS", "ENABLE_TRACE",
                "ENABLE_STACK_CHECK", "FILL_THREADS"}
Drivers == {"PAL", "SERIAL", "SPI"}     \* of the HAL
SPI_USE_WAIT == TRUE
SPI_USE_MUTUAL_EXCLUSION == FALSE

(* Conversions to system ticks, which keep only as many bits as systime_t.  *)
SystimeRange == IF CH_CFG_ST_RESOLUTION = 32 THEN 4294967296 ELSE 65536
TIME_IMMEDIATE == 0
TIME_INFINITE == SystimeRange - 1
S2ST(sec) == (sec * CH_CFG_ST_FREQUENCY) % SystimeRange
MS2ST(msec) == ((msec * CH_CFG_ST_FREQUENCY + 999) \div 1000) % SystimeRange

(* Priorities of the threads.                                               *)
IDLEPRIO == 1
LOWPRIO == 2
NORMALPRIO == 64                        \* of main, when chSysInit made it a thread
HIGHPRIO == 127
TCPIP_THREAD_PRIO == LOWPRIO + 1
BlinkerPrio == NORMALPRIO + 1
LwipThreadPrio == NORMALPRIO - 1

-----------------------------------------------------------------------------
TimeAccepted ==
    /\ CH_CFG_ST_RESOLUTION \in {16, 32}
    /\ CH_CFG_ST_FREQUENCY > 0
    /\ CH_CFG_ST_TIMEDELTA >= 0 /\ CH_CFG_ST_TIMEDELTA # 1
    /\ CH_CFG_ST_TIMEDELTA > 0 =>
           CH_CFG_TIME_QUANTUM = 0 /\ "THREADS_PROFILING" \notin DebugChecks
Needs(part, others) == part \in Kernel => others \cap Kernel # {}
PartsAccepted ==
    /\ Needs("CONDVARS", {"MUTEXES"})
    /\ Needs("DYNAMIC", {"WAITEXIT"})
    /\ Needs("DYNAMIC", {"HEAP", "MEMPOOLS"})
    /\ Needs("HEAP", {"MEMCORE"})
    /\ Needs("HEAP", {"MUTEXES", "SEMAPHORES"})
    /\ Needs("MAILBOXES", {"SEMAPHORES"})
    /\ Needs("MEMPOOLS", {"MEMCORE"})
    /\ "STATISTICS" \in DebugChecks => "TM" \in Kernel

-----------------------------------------------------------------------------
(* What the compiler does not check.                                        *)

\* The delays of this program, and the periods in milliseconds of the timers of
\* lwIP that are compiled here: reassembly's and ARP's, and TCP's.
Delays == {S2ST(1), S2ST(2), MS2ST(1000), 10}
Periods == {1000, 250}
=============================================================================

----------------------------- MODULE LwipStart ------------------------------
(***************************************************************************)
(* Start-up and scheduling: main() and the blinker (main.c), lwipInit and  *)
(* lwip_thread (lwipthread.c), and lwIP's tcpip thread, on one processor   *)
(* under ChibiOS's fixed priorities: a ready thread runs unless a ready    *)
(* thread of higher priority does, with no time slicing.  One step runs a  *)
(* thread up to the next point where another may be made ready or it       *)
(* blocks; "blocked" is a sleep, a wait for an SPI exchange's DMA or a     *)
(* wait in the mailbox, and ends some time later.                          *)
(***************************************************************************)
EXTENDS Integers

CONSTANTS NORMALPRIO, LOWPRIO

ASSUME PrioAssumption == NORMALPRIO \in Nat /\ LOWPRIO \in Nat /\ LOWPRIO + 2 < NORMALPRIO

Threads == {"main", "blinker", "lwip", "tcpip"}

VARIABLES
  pc,          \* where each thread is
  state,       \* "none", "ready", "blocked" or "suspended", for the scheduler
  prio,
  lwip_trp,    \* the suspended thread, or "NULL"
  mutexInit,   \* chMtxObjectInit(&SPIMutex) is done
  configured,  \* encInitRegisters is done
  netif_list   \* the interfaces that lwIP can send through

boot == <<mutexInit, configured, netif_list>>
vars == <<pc, state, prio, lwip_trp, boot>>

Ready(t) == state[t] = "ready"
Runs(t, p) == /\ pc[t] = p /\ Ready(t)
              /\ \A u \in Threads : Ready(u) => prio[u] <= prio[t]

\* The running thread goes on to q, still ready or no longer.
Moves(t, q, s) == /\ pc' = [pc EXCEPT ![t] = q]
                  /\ state' = [state EXCEPT ![t] = s]

\* It creates u, which begins at q0.
Creates(t, q, u, q0, p) ==
    /\ pc' = [pc EXCEPT ![t] = q, ![u] = q0]
    /\ state' = [state EXCEPT ![u] = "ready"]
    /\ prio' = [prio EXCEPT ![u] = p]

Wakes(t) == /\ state[t] = "blocked"
            /\ state' = [state EXCEPT ![t] = "ready"]
            /\ UNCHANGED <<pc, prio, lwip_trp, boot>>

Init == /\ pc = [t \in Threads |-> IF t = "main" THEN "boot" ELSE "none"]
        /\ state = [t \in Threads |-> IF t = "main" THEN "ready" ELSE "none"]
        /\ prio = [t \in Threads |-> IF t = "main" THEN NORMALPRIO ELSE 0]
        /\ lwip_trp = "NULL"
        /\ mutexInit = FALSE /\ configured = FALSE /\ netif_list = {}

-----------------------------------------------------------------------------
(* main and the blinker.                                                    *)

CreateBlinker == /\ Runs("main", "boot")
                 /\ Creates("main", "lwipInit", "blinker", "on", NORMALPRIO + 1)
                 /\ UNCHANGED <<lwip_trp, boot>>

Blink == /\ \E p \in {"on", "off"} :
              /\ Runs("blinker", p)
              /\ Moves("blinker", IF p = "on" THEN "off" ELSE "on", "blocked")
         /\ UNCHANGED <<prio, lwip_trp, boot>>

\* slip: the new thread above main
CreateLwipAbove == /\ Runs("main", "lwipInit")
                   /\ Creates("main", "suspend", "lwip", "tcpip_init", prio["main"] + 1)
                   /\ UNCHANGED <<lwip_trp, boot>>

CreateLwipThread == /\ Runs("main", "lwipInit")
                    /\ Creates("main", "suspend", "lwip", "tcpip_init", prio["main"] - 1)
                    /\ UNCHANGED <<lwip_trp, boot>>

\* slip: main waits for the reference in a loop, awake
SpinMain == /\ Runs("main", "suspend")
            /\ lwip_trp' = "main"
            /\ Moves("main", "suspend", "ready")
            /\ UNCHANGED <<prio, boot>>

\* chThdSuspendS(&lwip_trp).  There is no chThdResume of lwip_trp anywhere.
SuspendMain == /\ Runs("main", "suspend")
               /\ lwip_trp' = "main"
               /\ Moves("main", "suspended", "suspended")
               /\ UNCHANGED <<prio, boot>>

-----------------------------------------------------------------------------
(* lwip_thread, with encInit under netif_add.                               *)

\* slip: TCPIP_THREAD_PRIO left at lwIP's default of 1, ChibiOS's IDLEPRIO
TcpipInitDefault == /\ Runs("lwip", "tcpip_init")
                    /\ Creates("lwip", "netif_add", "tcpip", "fetch", 1)
                    /\ UNCHANGED <<lwip_trp, boot>>

\* The tcpip thread gets TCPIP_THREAD_PRIO (lwipopts.h), just above the lowest.
TcpipInit == /\ Runs("lwip", "tcpip_init")
             /\ Creates("lwip", "netif_add", "tcpip", "fetch", LOWPRIO + 1)
             /\ UNCHANGED <<lwip_trp, boot>>

\* slip: the interface listed before its init function is called
ListAndResetChip == /\ Runs("lwip", "netif_add")
                    /\ netif_list' = netif_list \cup {"thisif"}
                    /\ Moves("lwip", "encInit", "blocked")
                    /\ UNCHANGED <<prio, lwip_trp, mutexInit, configured>>

\* encInit pulses RESET and sleeps.
ResetChip == /\ Runs("lwip", "netif_add")
             /\ Moves("lwip", "encInit", "blocked")
             /\ UNCHANGED <<prio, lwip_trp, boot>>

InitMutex == /\ Runs("lwip", "encInit")
             /\ mutexInit' = TRUE
             /\ Moves("lwip", "encInitRegisters", "blocked")
             /\ UNCHANGED <<prio, lwip_trp, configured, netif_list>>

InitRegisters == /\ Runs("lwip", "encInitRegisters")
                 /\ configured' = TRUE
                 /\ Moves("lwip", "init_done", "blocked")
                 /\ UNCHANGED <<prio, lwip_trp, mutexInit, netif_list>>

\* netif_add links the interface only after its init function returned;
\* netif_set_up then announces it.
AddInterface == /\ Runs("lwip", "init_done")
                /\ netif_list' = netif_list \cup {"thisif"}
                /\ Moves("lwip", "set_up", "ready")
                /\ UNCHANGED <<prio, lwip_trp, mutexInit, configured>>

SetUp == /\ Runs("lwip", "set_up")
         /\ Moves("lwip", "poll", "blocked")
         /\ UNCHANGED <<prio, lwip_trp, boot>>

\* low_level_input: nothing there, and the loop sleeps; or a frame, handed to
\* ethernet_input, which may have to send and waits for the chip when it does.
PollNothing == /\ Runs("lwip", "poll")
               /\ Moves("lwip", "poll", "blocked")
               /\ UNCHANGED <<prio, lwip_trp, boot>>

PollFrame == /\ Runs("lwip", "poll")
             /\ Moves("lwip", "core", "ready")
             /\ UNCHANGED <<prio, lwip_trp, boot>>

\* slip: the loop sleeps only when there was no frame
EthernetInputAwake == /\ Runs("lwip", "core")
                      /\ \/ Moves("lwip", "poll", "ready")
                         \/ Moves("lwip", "core_send", "blocked")
                      /\ UNCHANGED <<prio, lwip_trp, boot>>

EthernetInput == /\ Runs("lwip", "core")
                 /\ \/ Moves("lwip", "poll", "blocked")
                    \/ Moves("lwip", "core_send", "blocked")
                 /\ UNCHANGED <<prio, lwip_trp, boot>>

EthernetInputSent == /\ Runs("lwip", "core_send")
                     /\ Moves("lwip", "poll", "blocked")
                     /\ UNCHANGED <<prio, lwip_trp, boot>>

-----------------------------------------------------------------------------
(* tcpip_thread: waits in its mailbox, where nobody posts, until a timer is *)
(* due, and runs the timer, which sends through a listed interface or not.  *)

MailboxWait == /\ Runs("tcpip", "fetch")
               /\ Moves("tcpip", "timer", "blocked")
               /\ UNCHANGED <<prio, lwip_trp, boot>>

RunTimer == /\ Runs("tcpip", "timer")
            /\ Moves("tcpip", "core", "ready")
            /\ UNCHANGED <<prio, lwip_trp, boot>>

TimerSends == /\ Runs("tcpip", "core") /\ netif_list # {}
              /\ Moves("tcpip", "core_send", "blocked")
              /\ UNCHANGED <<prio, lwip_trp, boot>>

TimerDone == /\ Runs("tcpip", "core") \/ Runs("tcpip", "core_send")
             /\ Moves("tcpip", "fetch", "ready")
             /\ UNCHANGED <<prio, lwip_trp, boot>>

Main    == CreateBlinker \/ CreateLwipThread \/ SuspendMain
Lwip    == \/ TcpipInit \/ ResetChip \/ InitMutex \/ InitRegisters \/ AddInterface \/ SetUp
           \/ PollNothing \/ PollFrame \/ EthernetInput \/ EthernetInputSent
Tcpip   == MailboxWait \/ RunTimer \/ TimerSends \/ TimerDone

Next == Main \/ Blink \/ Lwip \/ Tcpip \/ \E t \in Threads : Wakes(t)

(* The processor is never idle while a thread is ready, sleeps and          *)
(* exchanges end.  Wakes of two threads are not ordered against each other, *)
(* so a thread that keeps getting its turn is asked to use it infinitely    *)
(* often: lwip_thread sleeps 10 ticks, 5 ms, in every turn of its loop, and *)
(* the blinker a second.                                                    *)
Fairness == /\ WF_vars(Blink)
            /\ SF_vars(Main) /\ SF_vars(Lwip) /\ SF_vars(Tcpip)
            /\ \A t \in Threads : WF_vars(Wakes(t))

Spec == Init /\ [][Next]_vars /\ Fairness

-----------------------------------------------------------------------------
(* The priorities the program gives its threads, all above the idle one's.  *)
UserPrio == LOWPRIO..(NORMALPRIO + 1)

(* Types; that every thread that exists has a priority of that range.       *)
TypeOK ==
    /\ DOMAIN pc = Threads
    /\ state \in [Threads -> {"none", "ready", "blocked", "suspended"}]
    /\ prio \in [Threads -> Nat]
    /\ \A t \in Threads : state[t] # "none" => prio[t] \in UserPrio
    /\ lwip_trp \in {"NULL", "main"} /\ netif_list \subseteq {"thisif"}
    /\ mutexInit \in BOOLEAN /\ configured \in BOOLEAN

\* "this thread reaches the thread reference object first because the relative
\* priorities" (lwipInit): lwip_thread has not run before main is suspended.
ReferenceFirst == pc["lwip"] \notin {"none", "tcpip_init"} => lwip_trp = "main"

\* A thread that sends finds SPIMutex initialised and the chip configured,
\* though tcpip_thread runs timers from before encInit on.
ChipReady == \A t \in Threads : pc[t] = "core_send" => mutexInit /\ configured

\* The interface comes up: lwip_thread reaches its loop, under a main and a
\* blinker of higher priority.
PollingStarts == <>(pc["lwip"] = "poll")

\* tcpip_thread, at the bottom, goes on serving its timers.
TimersServed == []<>(pc["tcpip"] = "core")
=============================================================================

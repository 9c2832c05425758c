-------------------------- MODULE LwipStartProofs ---------------------------
(***************************************************************************)
(* Start-up for every NORMALPRIO and LOWPRIO: the two orders that main.c   *)
(* and lwipthread.c leave to the priorities alone, as theorems.  The       *)
(* invariant says where each thread may be while the others are where they *)
(* are, and that main never loses its priority nor ever blocks.            *)
(***************************************************************************)
EXTENDS LwipStart, TLAPS

LwipAt  == {"none", "tcpip_init", "netif_add", "encInit", "encInitRegisters", "init_done",
            "set_up", "poll", "core", "core_send"}
TcpipAt == {"none", "fetch", "timer", "core", "core_send"}

\* Each thread is at one of its own points.
Places == /\ pc["main"] \in {"boot", "lwipInit", "suspend", "suspended"}
          /\ pc["blinker"] \in {"none", "on", "off"}
          /\ pc["lwip"] \in LwipAt
          /\ pc["tcpip"] \in TcpipAt

\* main is ready until it suspends itself, above lwip_thread in priority, and
\* lwip_thread exists only from main's last step but one.
MainAbove == /\ pc["main"] = "suspended" => lwip_trp = "main"
             /\ pc["main"] # "suspended" => state["main"] = "ready"
             /\ state["main"] # "blocked"
             /\ prio["main"] = NORMALPRIO
             /\ pc["lwip"] # "none" => /\ prio["lwip"] = NORMALPRIO - 1
                                       /\ pc["main"] \in {"suspend", "suspended"}

\* How far the driver is follows from where lwip_thread is.
Progress == /\ pc["lwip"] \in LwipAt \ {"none", "tcpip_init", "netif_add", "encInit"} => mutexInit
            /\ pc["lwip"] \in {"init_done", "set_up", "poll", "core", "core_send"} => configured
            /\ netif_list # {} => mutexInit /\ configured
            /\ pc["tcpip"] = "core_send" => netif_list # {}

StartInv == TypeOK /\ Places /\ MainAbove /\ ReferenceFirst /\ Progress

\* Before anything runs: main alone, ready.
LEMMA StartInit == Init => StartInv
  <1> SUFFICES ASSUME Init PROVE StartInv
    OBVIOUS
  <1>1. /\ pc["main"] = "boot" /\ pc["blinker"] = "none" /\ pc["lwip"] = "none" /\ pc["tcpip"] = "none"
        /\ state["main"] = "ready" /\ prio["main"] = NORMALPRIO /\ netif_list = {}
    BY DEF Init, Threads
  <1>2. TypeOK
    <2>1. ASSUME NEW t \in Threads, state[t] # "none" PROVE prio[t] \in UserPrio
      <3>1. t = "main"
        BY <2>1 DEF Init
      <3> QED
        BY <1>1, <3>1, PrioAssumption DEF UserPrio
    <2> QED
      BY <2>1, PrioAssumption DEF Init, TypeOK, Threads
  <1>3. Places /\ MainAbove /\ ReferenceFirst /\ Progress
    BY <1>1 DEF Places, LwipAt, TcpipAt, MainAbove, ReferenceFirst, Progress
  <1> QED
    BY <1>2, <1>3 DEF StartInv

\* The thread that runs is above every ready one: main, while it is ready,
\* keeps lwip_thread from its first step.
LEMMA MainFirst ==
    ASSUME StartInv, pc["lwip"] # "none", NEW p, Runs("lwip", p)
    PROVE  pc["main"] = "suspended" /\ lwip_trp = "main"
  BY PrioAssumption DEF StartInv, TypeOK, Places, MainAbove, Runs, Ready, Threads

\* A wake-up moves nobody, and main is never blocked.
LEMMA WakesKeeps == ASSUME StartInv, NEW t \in Threads, Wakes(t) PROVE StartInv'
  BY DEF StartInv, TypeOK, Places, MainAbove, ReferenceFirst, Progress, Wakes, boot, Threads

\* main's three steps and the blinker's.
LEMMA MainKeeps == ASSUME StartInv, Main \/ Blink PROVE StartInv'
  <1> USE DEF StartInv, TypeOK, Places, LwipAt, TcpipAt, MainAbove, ReferenceFirst, Progress,
          Threads, boot
  <1>1. CASE CreateBlinker
    BY <1>1, PrioAssumption DEF CreateBlinker, Creates, Runs, Ready, UserPrio
  <1>2. CASE CreateLwipThread
    BY <1>2, PrioAssumption DEF CreateLwipThread, Creates, Runs, Ready, UserPrio
  <1>3. CASE SuspendMain
    BY <1>3 DEF SuspendMain, Moves, Runs, Ready
  <1>4. CASE Blink
    BY <1>4 DEF Blink, Moves, Runs, Ready
  <1> QED
    BY <1>1, <1>2, <1>3, <1>4 DEF Main

\* lwip_thread's steps, after main is suspended by MainFirst.
LEMMA LwipKeeps == ASSUME StartInv, Lwip PROVE StartInv'
  <1>1. \A p : pc["lwip"] # "none" /\ Runs("lwip", p) => pc["main"] = "suspended" /\ lwip_trp = "main"
    BY MainFirst
  <1> USE DEF StartInv, TypeOK, Places, LwipAt, TcpipAt, MainAbove, ReferenceFirst, Progress,
          Threads, boot
  <1>2. CASE TcpipInit
    BY <1>1, <1>2, PrioAssumption DEF TcpipInit, Creates, Runs, Ready, UserPrio
  <1>3. CASE ResetChip
    BY <1>1, <1>3 DEF ResetChip, Moves, Runs, Ready
  <1>4. CASE InitMutex
    BY <1>1, <1>4 DEF InitMutex, Moves, Runs, Ready
  <1>5. CASE InitRegisters
    BY <1>1, <1>5 DEF InitRegisters, Moves, Runs, Ready
  <1>6. CASE AddInterface
    BY <1>1, <1>6 DEF AddInterface, Moves, Runs, Ready
  <1>7. CASE SetUp
    BY <1>1, <1>7 DEF SetUp, Moves, Runs, Ready
  <1>8. CASE PollNothing
    BY <1>1, <1>8 DEF PollNothing, Moves, Runs, Ready
  <1>9. CASE PollFrame
    BY <1>1, <1>9 DEF PollFrame, Moves, Runs, Ready
  <1>10. CASE EthernetInput
    <2>1. CASE Moves("lwip", "poll", "blocked")
      BY <1>1, <1>10, <2>1 DEF EthernetInput, Moves, Runs, Ready
    <2>2. CASE Moves("lwip", "core_send", "blocked")
      BY <1>1, <1>10, <2>2 DEF EthernetInput, Moves, Runs, Ready
    <2> QED
      BY <1>10, <2>1, <2>2 DEF EthernetInput
  <1>11. CASE EthernetInputSent
    BY <1>1, <1>11 DEF EthernetInputSent, Moves, Runs, Ready
  <1> QED
    BY <1>2, <1>3, <1>4, <1>5, <1>6, <1>7, <1>8, <1>9, <1>10, <1>11 DEF Lwip

\* The tcpip thread sends only through a listed interface.
LEMMA TcpipKeeps == ASSUME StartInv, Tcpip PROVE StartInv'
  <1> USE DEF StartInv, TypeOK, Places, LwipAt, TcpipAt, MainAbove, ReferenceFirst, Progress,
          Threads, boot
  <1>1. CASE MailboxWait
    BY <1>1 DEF MailboxWait, Moves, Runs, Ready
  <1>2. CASE RunTimer
    BY <1>2 DEF RunTimer, Moves, Runs, Ready
  <1>3. CASE TimerSends
    BY <1>3 DEF TimerSends, Moves, Runs, Ready
  <1>4. CASE TimerDone
    BY <1>4 DEF TimerDone, Moves, Runs, Ready
  <1> QED
    BY <1>1, <1>2, <1>3, <1>4 DEF Tcpip

\* Every step of the start-up keeps the invariant.
LEMMA AlwaysStarting == Spec => []StartInv
  <1>1. StartInv /\ [Next]_vars => StartInv'
    <2> SUFFICES ASSUME StartInv, [Next]_vars PROVE StartInv'
      OBVIOUS
    <2>1. CASE UNCHANGED vars
      BY <2>1 DEF vars, boot, StartInv, TypeOK, Places, MainAbove, ReferenceFirst, Progress
    <2>2. CASE Next
      BY <2>2, WakesKeeps, MainKeeps, LwipKeeps, TcpipKeeps DEF Next
    <2> QED
      BY <2>1, <2>2
  <1> QED
    BY <1>1, StartInit, PTL DEF Spec

\* Every variable of the start-up has its type, whatever the priorities
\* NORMALPRIO and LOWPRIO of the kernel are.
THEOREM StartTypeCorrect == Spec => []TypeOK
  BY AlwaysStarting, PTL DEF StartInv

\* "this thread reaches the thread reference object first because the relative
\* priorities" (lwipInit): main is suspended on lwip_trp before lwip_thread has
\* taken its first step, at every pair of priorities.
THEOREM ReferenceFirstHolds == Spec => []ReferenceFirst
  BY AlwaysStarting, PTL DEF StartInv

\* No thread, the tcpip thread included, sends through the driver before encInit
\* has initialised SPIMutex and encInitRegisters has configured the chip.
THEOREM ChipReadyHolds == Spec => []ChipReady
  <1>1. StartInv => ChipReady
    BY DEF StartInv, TypeOK, Places, LwipAt, Progress, ChipReady, Threads
  <1> QED
    BY <1>1, AlwaysStarting, PTL
=============================================================================

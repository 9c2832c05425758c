------------------------------- MODULE ChSpi -------------------------------
(***************************************************************************)
(* Threads at the SPI bus: calls of the kernel's mutexes and of the HAL's  *)
(* SPI driver (spi.c), the DMA's interrupt that ends an exchange and the   *)
(* timer's that ends a sleep, on one processor.  A thread goes through one *)
(* of its Scripts after another; enc28j60.c's calls are "lock SPIMutex,    *)
(* exchanges, unlock", the polling loops such calls with or without sleep. *)
(***************************************************************************)
EXTENDS ChKernel

CONSTANTS SPIMutex, Scripts

\* After k operations of script s, m is held since the lock at place i.
HeldFrom(s, k, m, i) ==
    i \in 1..k /\ s[i] = <<"lock", m>> /\ \A j \in (i + 1)..k : s[j] # <<"unlock", m>>
Held(s, k) == {m \in Mutexes : \E i \in 1..k : HeldFrom(s, k, m, i)}

\* "Mutexes must be unlocked in reverse lock order" (chMtxUnlock); none is
\* locked twice or kept, and nobody is on the bus without SPIMutex.
Disciplined(s) ==
    /\ \A k \in DOMAIN s :
          LET m == s[k][2] IN
          /\ s[k][1] = "lock" => m \notin Held(s, k - 1)
          /\ s[k][1] = "unlock" =>
                \E i \in 1..(k - 1) :
                    /\ HeldFrom(s, k - 1, m, i)
                    /\ \A o \in Mutexes, j \in (i + 1)..(k - 1) : ~HeldFrom(s, k - 1, o, j)
          /\ s[k][1] = "exchange" => SPIMutex \in Held(s, k - 1)
    /\ Held(s, Len(s)) = {}

\* "lock" and "unlock" name a mutex; "exchange" and "sleep" name none.
ASSUME ScriptsAssumption ==
    /\ SPIMutex \in Mutexes
    /\ \A t \in Threads : \A s \in Scripts[t] :
          s \in Seq({"lock", "unlock", "exchange", "sleep"} \X Mutexes) /\ Disciplined(s)

VARIABLES
  script, ip,   \* what each thread is going through, and where in it
  spi_state,    \* SPID1.state
  spi_thread    \* SPID1.thread, the thread that waits for the exchange

spiVars == <<spi_state, spi_thread>>
place   == <<script, ip>>
vars    == <<kernelVars, place, spiVars>>

Op(t) == script[t][ip[t]]
Calls(t, op) == current = t /\ Unlocked /\ ip[t] <= Len(script[t]) /\ Op(t)[1] = op
GoesOn(t) == ip' = [ip EXCEPT ![t] = @ + 1] /\ UNCHANGED script

Init == /\ KernelInit
        /\ script = [t \in Threads |-> << >>] /\ ip = [t \in Threads |-> 1]
        /\ spi_state = "READY" /\ spi_thread = NoThread

\* A script is done, the next one begins.
NextScript(t) ==
    /\ current = t /\ Unlocked /\ ip[t] > Len(script[t])
    /\ \E s \in Scripts[t] : script' = [script EXCEPT ![t] = s]
    /\ ip' = [ip EXCEPT ![t] = 1]
    /\ UNCHANGED <<kernelVars, spiVars>>

\* slip: the owner is not asked for
LockOver(t) == /\ Calls(t, "lock")
               /\ m_owner' = [m_owner EXCEPT ![Op(t)[2]] = t]
               /\ p_mtxlist' = [p_mtxlist EXCEPT ![t] = <<Op(t)[2]>> \o @]
               /\ GoesOn(t)
               /\ UNCHANGED <<current, rlist, p_state, p_prio, m_queue, walk, spiVars>>

\* chMtxLock returns with the mutex, at once or when it is handed over.
LockFree(t) == Calls(t, "lock") /\ TakeMutex(Op(t)[2]) /\ GoesOn(t) /\ UNCHANGED spiVars
LockTaken(t) == Calls(t, "lock") /\ BeginWalk(Op(t)[2]) /\ UNCHANGED <<place, spiVars>>
WalkOn(t) == current = t /\ Walk /\ UNCHANGED <<place, spiVars>>
LockSleeps(t) == current = t /\ SleepOnMutex /\ GoesOn(t) /\ UNCHANGED spiVars

UnlockFree(t) == Calls(t, "unlock") /\ FreeMutex(Op(t)[2]) /\ GoesOn(t) /\ UNCHANGED spiVars
UnlockPass(t) == Calls(t, "unlock") /\ PassMutex(Op(t)[2]) /\ GoesOn(t) /\ UNCHANGED spiVars

\* spiExchange, spiSend and spiReceive start the DMA and suspend the thread
\* under one system lock.
Exchange(t) ==
    /\ Calls(t, "exchange")
    /\ spi_state' = "ACTIVE" /\ spi_thread' = t
    /\ GoSleep("SUSPENDED")
    /\ GoesOn(t)
    /\ UNCHANGED <<p_prio, p_mtxlist, m_owner, m_queue, walk>>

\* slips: the state left as for a driver with a callback; the thread not resumed
DmaInterruptComplete ==
    /\ Unlocked /\ spi_state = "ACTIVE"
    /\ spi_state' = "COMPLETE"
    /\ UNCHANGED <<kernelVars, place, spi_thread>>
DmaInterruptSilent ==
    /\ Unlocked /\ spi_state = "ACTIVE"
    /\ spi_state' = "READY" /\ spi_thread' = NoThread
    /\ UNCHANGED <<kernelVars, place>>

\* The DMA is done: _spi_isr_code, with osalThreadResumeI.
DmaInterrupt ==
    /\ Unlocked /\ spi_state = "ACTIVE"
    /\ spi_state' = "READY"
    /\ IF spi_thread # NoThread
       THEN ReadyAndReschedule(spi_thread, p_prio) /\ spi_thread' = NoThread
       ELSE UNCHANGED <<current, rlist, p_state, spi_thread>>
    /\ UNCHANGED <<p_prio, p_mtxlist, m_owner, m_queue, walk, place>>

\* chThdSleep
Sleep(t) ==
    /\ Calls(t, "sleep")
    /\ GoSleep("SLEEPING")
    /\ GoesOn(t)
    /\ UNCHANGED <<p_prio, p_mtxlist, m_owner, m_queue, walk, spiVars>>

\* The virtual timer's wakeup.
TimerInterrupt(t) ==
    /\ Unlocked /\ p_state[t] = "SLEEPING"
    /\ ReadyAndReschedule(t, p_prio)
    /\ UNCHANGED <<p_prio, p_mtxlist, m_owner, m_queue, walk, place, spiVars>>

Thread(t) == \/ NextScript(t) \/ LockFree(t) \/ LockTaken(t) \/ WalkOn(t) \/ LockSleeps(t)
             \/ UnlockFree(t) \/ UnlockPass(t) \/ Exchange(t) \/ Sleep(t)

Next == DmaInterrupt \/ \E t \in Threads : Thread(t) \/ TimerInterrupt(t)

(* Exchanges and sleeps end.  A thread that gets the processor again and    *)
(* again uses it: between two interrupts there is time for a step, for an   *)
(* exchange takes a microsecond and a sleep a tick at the least.            *)
Fairness == /\ WF_vars(DmaInterrupt)
            /\ \A t \in Threads : WF_vars(TimerInterrupt(t)) /\ SF_vars(Thread(t))

Spec == Init /\ [][Next]_vars /\ Fairness

-----------------------------------------------------------------------------
TypeOK == /\ KernelTypeOK
          /\ (\A t \in Threads : script[t] \in Scripts[t] \cup {<< >>}) /\ ip \in [Threads -> Nat]
          /\ spi_state \in {"READY", "ACTIVE"} /\ spi_thread \in Threads \cup {NoThread}

\* chSchWakeupS's "priority order violation": whenever the system lock is free
\* the running thread has the highest priority of all that could run, and the
\* ready list is in order, though priorities of its members change under it.
HighestRuns ==
    Unlocked =>
      LET order == IF current = NoThread THEN rlist ELSE <<current>> \o rlist IN
      /\ current = NoThread => rlist = << >>
      /\ \A i, j \in DOMAIN order : i < j => p_prio[order[i]] >= p_prio[order[j]]
      /\ Range(order) = {t \in Threads : p_state[t] \in {"READY", "CURRENT"}}

\* The "full priority inheritance" of chmtx.c: a thread runs at its own
\* priority or at that of the highest thread that waits, directly or through
\* others, for a mutex it owns, no more and no less; so it loses what it
\* inherited in whatever order mutexes are passed on.
Inheritance ==
    Unlocked =>
      \A t \in Threads :
        LET blocked == {u \in Threads : \E m \in Range(p_mtxlist[t]) : u \in Range(m_queue[m])}
        IN  /\ p_prio[t] >= RealPrio[t] /\ \A u \in blocked : p_prio[t] >= p_prio[u]
            /\ p_prio[t] = RealPrio[t] \/ \E u \in blocked : p_prio[t] = p_prio[u]

\* An unlock passes the mutex to the thread that has the highest priority now,
\* though waiting threads are boosted after they were queued.
PassedToHighest ==
    [][\A m \in Mutexes, w \in Threads :
         m_owner'[m] = w /\ w \in Range(m_queue[m])
           => \A u \in Range(m_queue[m]) : p_prio[u] <= p_prio[w]]_vars

\* An exchange and its thread belong together: the driver is active exactly
\* while the thread that started the exchange, and owns SPIMutex, is suspended
\* on it.  Otherwise a wake-up is lost, or an exchange started over another
\* ("not ready", "not NULL" in spi.c and chthreads.c).
ExchangePaired ==
    /\ spi_state = "ACTIVE" <=> spi_thread # NoThread
    /\ \A t \in Threads : p_state[t] = "SUSPENDED" <=> spi_thread = t
    /\ spi_thread # NoThread => m_owner[SPIMutex] = spi_thread

\* Each of the kernel's mutexes is what its callers take it for.
AbstractMutex(m) == INSTANCE Mutex WITH owner <- m_owner[m], waiting <- Range(m_queue[m])
MutexesKept == /\ \A m \in Mutexes : AbstractMutex(m)!Init
               /\ [][\A m \in Mutexes : [AbstractMutex(m)!Next]_(AbstractMutex(m)!vars)]_vars

\* A thread that waits for a mutex gets the processor back, with the mutex,
\* unless threads of higher priority come to wait for mutexes again and again
\* (SPIMutex has two users in all, so the second of them has nobody above it).
HigherWaits(t) == \E u \in Threads : p_state[u] = "WTMTX" /\ p_prio[u] > p_prio[t]
WaitEnds == \A t \in Threads : (p_state[t] = "WTMTX" ~> current = t) \/ []<>HigherWaits(t)
=============================================================================

------------------------------ MODULE ChKernel ------------------------------
(***************************************************************************)
(* The part of ChibiOS/RT under the driver: the ready list and the         *)
(* scheduler (chschd.c), mutexes with priority inheritance (chmtx.c),      *)
(* suspension on a thread reference (chthreads.c) and the timer's wake-up. *)
(* A kernel call runs under the system lock, so it is one step; only       *)
(* chMtxLock, whose walk along the owners is a loop, takes several, during *)
(* which no interrupt and no other thread gets in.                         *)
(***************************************************************************)
EXTENDS Integers, SequencesExt

CONSTANTS Threads, NoThread, Mutexes, RealPrio

HIGHPRIO == 127

ASSUME KernelAssumption ==
    /\ NoThread \notin Threads
    /\ RealPrio \in [Threads -> 0..HIGHPRIO]

VARIABLES
  current,     \* currp; NoThread is the idle thread
  rlist,       \* the ready list, without the idle thread at its end
  p_state,     \* each thread's state
  p_prio,      \* its priority, inherited or its own (p_realprio)
  p_mtxlist,   \* the mutexes it owns, the last one first
  m_owner,     \* each mutex's owner
  m_queue,     \* and its queue
  walk         \* the walk of chMtxLockS under way, or NoWalk

kernelVars == <<current, rlist, p_state, p_prio, p_mtxlist, m_owner, m_queue, walk>>

States == {"READY", "CURRENT", "WTMTX", "SUSPENDED", "SLEEPING"}

\* The mutex wanted and the thread the walk has come to.
NoWalk   == << >>
Walking  == walk # NoWalk
Unlocked == ~Walking      \* no system lock held

KernelTypeOK ==
    /\ current \in Threads \cup {NoThread}
    /\ rlist \in Seq(Threads)
    /\ p_state \in [Threads -> States] /\ p_prio \in [Threads -> 0..HIGHPRIO]
    /\ p_mtxlist \in [Threads -> Seq(Mutexes)]
    /\ m_owner \in [Mutexes -> Threads \cup {NoThread}]
    /\ m_queue \in [Mutexes -> Seq(Threads)]
    /\ walk \in {NoWalk} \cup (Mutexes \X (Threads \cup {NoThread}))

\* All threads are created and asleep; the idle thread runs.
KernelInit ==
    /\ current = NoThread /\ rlist = << >>
    /\ p_state = [t \in Threads |-> "SLEEPING"] /\ p_prio = RealPrio
    /\ p_mtxlist = [t \in Threads |-> << >>]
    /\ m_owner = [m \in Mutexes |-> NoThread] /\ m_queue = [m \in Mutexes |-> << >>]
    /\ walk = NoWalk

-----------------------------------------------------------------------------
(* Queues.  An insertion stops at the first thread of a set.                *)

InsertBefore(q, t, stops) ==
    LET places == {i \in DOMAIN q : q[i] \in stops} IN
    InsertAt(q, IF places = {} THEN Len(q) + 1
                ELSE CHOOSE i \in places : \A j \in places : i <= j, t)

\* chSchReadyI, queue_prio_insert: behind the threads of the same priority.
Behind(q, t, prio) == InsertBefore(q, t, {u \in Threads : prio[u] < prio[t]})

\* chSchDoRescheduleAhead: before them.
Ahead(q, t, prio) == InsertBefore(q, t, {u \in Threads : prio[u] <= prio[t]})

\* queue_dequeue
Without(q, t) == RemoveAt(q, CHOOSE i \in DOMAIN q : q[i] = t)

\* The current thread leaves the processor in state s, chSchGoSleepS.
GoSleep(s) ==
    /\ current' = IF rlist = << >> THEN NoThread ELSE Head(rlist)
    /\ rlist' = IF rlist = << >> THEN rlist ELSE Tail(rlist)
    /\ p_state' = [t \in Threads |-> IF t = current THEN s
                                     ELSE IF t = current' THEN "CURRENT" ELSE p_state[t]]

\* Thread t is made ready and the first of the list takes the processor if it
\* has the higher priority: chSchReadyI with chSchRescheduleS, or with the
\* end of the interrupt.
ReadyAndReschedule(t, prio) ==
    LET q == Behind(rlist, t, prio) IN
    IF current = NoThread \/ prio[Head(q)] > prio[current]
    THEN /\ current' = Head(q)
         /\ rlist' = IF current = NoThread THEN Tail(q) ELSE Ahead(Tail(q), current, prio)
         /\ p_state' = [u \in Threads |-> IF u = current' THEN "CURRENT"
                                          ELSE IF u \in {t, current} THEN "READY" ELSE p_state[u]]
    ELSE /\ rlist' = q
         /\ p_state' = [p_state EXCEPT ![t] = "READY"]
         /\ UNCHANGED current

-----------------------------------------------------------------------------
(* Mutexes.                                                                 *)

WaitsFor(t) == CHOOSE m \in Mutexes : t \in Range(m_queue[m])

\* chMtxLockS on a free mutex.
TakeMutex(m) ==
    /\ Unlocked /\ m_owner[m] = NoThread
    /\ m_owner' = [m_owner EXCEPT ![m] = current]
    /\ p_mtxlist' = [p_mtxlist EXCEPT ![current] = <<m>> \o @]
    /\ UNCHANGED <<current, rlist, p_state, p_prio, m_queue, walk>>

\* On an owned one the walk begins at the owner.
BeginWalk(m) ==
    /\ Unlocked /\ m_owner[m] # NoThread
    /\ walk' = <<m, m_owner[m]>>
    /\ UNCHANGED <<current, rlist, p_state, p_prio, p_mtxlist, m_owner, m_queue>>

\* slips: a boosted thread keeps its place; only the owner itself is boosted
SamePlaceInQueue(tp, prio) == m_queue
SamePlaceInList(tp, prio)  == rlist
NoFurther(tp) == NoThread

\* The boosted thread's new place in the queue it waits in or the ready list,
\* and the thread the walk goes on to.
Requeued(tp, prio) ==
    IF p_state[tp] = "WTMTX"
    THEN [m_queue EXCEPT ![WaitsFor(tp)] = Behind(Without(@, tp), tp, prio)] ELSE m_queue
Relisted(tp, prio) ==
    IF p_state[tp] = "READY" THEN Behind(Without(rlist, tp), tp, prio) ELSE rlist
NextOwner(tp) == IF p_state[tp] = "WTMTX" THEN m_owner[WaitsFor(tp)] ELSE NoThread

\* One turn of the loop of chMtxLockS.
Walk ==
    LET tp == walk[2] IN
    /\ Walking /\ tp # NoThread /\ p_prio[tp] < p_prio[current]
    /\ p_prio' = [p_prio EXCEPT ![tp] = p_prio[current]]
    /\ m_queue' = Requeued(tp, p_prio')
    /\ rlist' = Relisted(tp, p_prio')
    /\ walk' = [walk EXCEPT ![2] = NextOwner(tp)]
    /\ UNCHANGED <<current, p_state, p_mtxlist, m_owner>>

\* The walk is over: sleep on the mutex.
SleepOnMutex ==
    /\ Walking
    /\ walk[2] # NoThread => p_prio[walk[2]] >= p_prio[current]
    /\ m_queue' = [m_queue EXCEPT ![walk[1]] = Behind(@, current, p_prio)]
    /\ walk' = NoWalk
    /\ GoSleep("WTMTX")
    /\ UNCHANGED <<p_prio, p_mtxlist, m_owner>>

\* chMtxUnlock: without waiting threads the mutex becomes free.
FreeMutex(m) ==
    /\ Unlocked /\ m_queue[m] = << >>
    /\ m_owner' = [m_owner EXCEPT ![m] = NoThread]
    /\ p_mtxlist' = [p_mtxlist EXCEPT ![current] = Tail(@)]
    /\ UNCHANGED <<current, rlist, p_state, p_prio, m_queue, walk>>

\* The priority left to the owner of the mutexes in list.
Recalculated(t, list) ==
    LET heads == {p_prio[Head(m_queue[m])] : m \in {n \in Range(list) : m_queue[n] # << >>}}
    IN  CHOOSE p \in heads \cup {RealPrio[t]} : \A q \in heads \cup {RealPrio[t]} : q <= p

\* slip: the mutex is freed, the threads in its queue stay there
PassToNobody(m) ==
    /\ Unlocked /\ m_queue[m] # << >>
    /\ m_owner' = [m_owner EXCEPT ![m] = NoThread]
    /\ p_mtxlist' = [p_mtxlist EXCEPT ![current] = Tail(@)]
    /\ UNCHANGED <<current, rlist, p_state, p_prio, m_queue, walk>>

\* With waiting threads, the first one owns it, and the priority goes back to
\* what the mutexes still owned ask for.
PassMutex(m) ==
    LET w == Head(m_queue[m])
        rest == Tail(p_mtxlist[current]) IN
    /\ Unlocked /\ m_queue[m] # << >>
    /\ m_owner' = [m_owner EXCEPT ![m] = w]
    /\ m_queue' = [m_queue EXCEPT ![m] = Tail(@)]
    /\ p_mtxlist' = [p_mtxlist EXCEPT ![current] = rest, ![w] = <<m>> \o @]
    /\ p_prio' = [p_prio EXCEPT ![current] = Recalculated(current, rest)]
    /\ ReadyAndReschedule(w, p_prio')
    /\ UNCHANGED walk
=============================================================================

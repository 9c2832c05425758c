------------------------------- MODULE Mutex -------------------------------
(***************************************************************************)
(* What chMtxLock and chMtxUnlock promise their callers: a mutex with one  *)
(* owner and a queue of waiting threads, which an unlock hands to one of   *)
(* them without ever leaving it free in between.                           *)
(***************************************************************************)
CONSTANTS Threads, NoThread

VARIABLES owner, waiting

vars == <<owner, waiting>>

Init == owner = NoThread /\ waiting = {}

Take(t)  == owner = NoThread /\ owner' = t /\ UNCHANGED waiting
Queue(t) == /\ owner \notin {NoThread, t} /\ t \notin waiting
            /\ waiting' = waiting \cup {t}
            /\ UNCHANGED owner
Free     == /\ owner # NoThread /\ waiting = {}
            /\ owner' = NoThread
            /\ UNCHANGED waiting
Pass     == \E t \in waiting : owner' = t /\ waiting' = waiting \ {t}

Next == Free \/ Pass \/ \E t \in Threads : Take(t) \/ Queue(t)

Spec == Init /\ [][Next]_vars
=============================================================================

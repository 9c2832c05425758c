------------------------------ MODULE MCChSpi ------------------------------
(* Three priorities and two mutexes, so that a chain of owners has a middle. *)
EXTENDS ChSpi
CONSTANTS low, mid, peer, high, OtherMutex

MCThreads  == {low, mid, peer, high}
MCMutexes  == {SPIMutex, OtherMutex}
MCRealPrio == (low :> 1) @@ (mid :> 2) @@ (peer :> 2) @@ (high :> 3)
MCScripts  ==
    LET L(m) == <<"lock", m>>  U(m) == <<"unlock", m>>
        X == <<"exchange", SPIMutex>>  S == <<"sleep", SPIMutex>>
        Call == <<L(SPIMutex), X, U(SPIMutex)>>
        Nested == <<L(OtherMutex)>> \o Call \o <<U(OtherMutex), S>>
    IN  (low :> {Call \o <<S>>, Nested}) @@ (mid :> {Call \o <<S>>, Call})
        @@ (peer :> {Call \o <<S>>}) @@ (high :> {Nested})
=============================================================================

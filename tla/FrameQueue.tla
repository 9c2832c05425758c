----------------------------- MODULE FrameQueue -----------------------------
(***************************************************************************)
(* What the receive path promises lwIP: the frames the chip accepts reach  *)
(* netif->input whole, once each and in their order of arrival; a frame    *)
(* for which no pbuf can be had is left out, and costs no other frame.     *)
(***************************************************************************)
EXTENDS Sequences, Naturals

CONSTANT Frames

VARIABLES queue,       \* accepted by the chip, not yet dealt with
          delivered    \* handed to netif->input

fvars == <<queue, delivered>>

Init == queue = << >> /\ delivered = << >>

Arrive == /\ \E f \in Frames : queue' = Append(queue, f)
          /\ UNCHANGED delivered

Deliver == /\ queue # << >>
           /\ delivered' = Append(delivered, Head(queue))
           /\ queue' = Tail(queue)

Discard == /\ queue # << >>
           /\ queue' = Tail(queue)
           /\ UNCHANGED delivered

Next == Arrive \/ Deliver \/ Discard

Spec == Init /\ [][Next]_fvars /\ WF_fvars(Deliver \/ Discard)
=============================================================================

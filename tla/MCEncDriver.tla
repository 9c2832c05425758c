---------------------------- MODULE MCEncDriver -----------------------------
(* Two threads, as in the program: lwip above tcpip in priority.            *)
EXTENDS EncDriver, TLC

CONSTANTS lwip, tcpip

MCThreads == {lwip, tcpip}
MCPrio == lwip :> 63 @@ tcpip :> 3
\* The next frame at the start of the ring, where ERXND has to be read, and
\* elsewhere, with both bytes of the pointer in use.
MCNextPointers == {0, 1502}
MCRxLens == {64}
\* Two pbufs at most.
MCTxLens == {2}
MCOnePbuf == {1}
=============================================================================

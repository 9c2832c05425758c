---------------------------- MODULE MCDbgPrint ------------------------------
(* Messages long enough to fill the port in the middle; lwip_thread's are   *)
(* shorter than the tcpip thread's, so that both NULs are in the buffer.    *)
EXTENDS DbgPrint

MessageLength == [t \in Threads |-> IF t = Tcpip THEN 3 ELSE 2]
MessageBound == [t \in Threads |-> IF t = Lwip THEN 2 ELSE 1]
=============================================================================

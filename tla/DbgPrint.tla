----------------------------- MODULE DbgPrint -------------------------------
(***************************************************************************)
(* dbg_print (debug.c) and dbg_print_wrapper, through which lwIP's own     *)
(* debug messages go (LWIP_PLATFORM_DIAG), as the threads use them.        *)
(* dbg_print sends a string through ITM_SendChar, which polls the stimulus *)
(* port until there is room and then writes; nothing holds the port        *)
(* between the two, DbgMutex is never taken, and a write to a full port is *)
(* lost.  dbg_print_wrapper first formats its message into one buffer that *)
(* all threads share.                                                      *)
(***************************************************************************)
EXTENDS Integers, SequencesExt

CONSTANTS
  Blinker, Lwip, Tcpip,  \* the threads, from the highest priority to the lowest
  Length,                \* of each thread's messages
  MaxMessages,           \* bound on the messages of each
  FifoDepth,             \* of the ITM's port
  BufferSize             \* of debug.c's buffer

Threads == {Blinker, Lwip, Tcpip}

(* A message and its NUL fit in the buffer.  vsprintf does not check it,    *)
(* and lwIP's longest messages do not fit: what they overwrite is not here. *)
ASSUME DbgPrintAssumption ==
    /\ Blinker # Lwip /\ Lwip # Tcpip /\ Blinker # Tcpip
    /\ Length \in [Threads -> 1..(BufferSize - 1)]
    /\ MaxMessages \in [Threads -> Nat] /\ FifoDepth \in Nat \ {0} /\ BufferSize \in Nat

VARIABLES
  enabled,     \* ITM and its port 0 are enabled, that is, a probe listens
  fifo, out,   \* what is in the port, and what the probe received
  buffer,      \* of dbg_print_wrapper
  pc,          \* "out", "format" the message, "loop" over it, "poll", "write"
  wrapped,     \* t's message is in the buffer, and not a literal
  n, msg,      \* t's message, and the character msg points to
  ch,          \* the argument of ITM_SendChar
  lost,        \* history: characters written to a full port
  overtaken,   \* history: another wrote since this one saw the port ready
  spoilt       \* history: messages into which another formatted its own

vars == <<enabled, fifo, out, buffer, pc, wrapped, n, msg, ch, lost, overtaken, spoilt>>

NUL == << >>
Chars == UNION {{<<t, m, k>> : m \in 1..MaxMessages[t], k \in 1..Length[t]} : t \in Threads}
Places == 1..BufferSize

Init == /\ enabled \in BOOLEAN
        /\ fifo = << >> /\ out = << >>
        /\ buffer = [i \in Places |-> NUL]
        /\ pc = [t \in Threads |-> "out"] /\ wrapped = [t \in Threads |-> FALSE]
        /\ n = [t \in Threads |-> 0] /\ msg = [t \in Threads |-> 1]
        /\ ch = [t \in Threads |-> NUL]
        /\ lost = {} /\ overtaken = [t \in Threads |-> FALSE] /\ spoilt = {}

\* A thread wakes at any time and runs until it sleeps again, which no call
\* does while it prints: ITM_SendChar spins.
Above(t) == CASE t = Blinker -> {} [] t = Lwip -> {Blinker} [] t = Tcpip -> {Blinker, Lwip}
\* slip: ITM_SendChar sleeps in its poll loop instead of spinning
MayRunPolling(t) == \A u \in Above(t) : pc[u] \in {"out", "poll"}
MayRun(t) == \A u \in Above(t) : pc[u] = "out"
At(t, p) == pc[t] = p /\ MayRun(t)
Goto(t, p) == pc' = [pc EXCEPT ![t] = p]

\* The blinker prints literals, lwIP's timers only through the wrapper.
Call(t, inBuffer) ==
    /\ At(t, "out") /\ n[t] < MaxMessages[t]
    /\ n' = [n EXCEPT ![t] = @ + 1]
    /\ msg' = [msg EXCEPT ![t] = 1]
    /\ wrapped' = [wrapped EXCEPT ![t] = inBuffer]
    /\ Goto(t, IF inBuffer THEN "format" ELSE "loop")
    /\ UNCHANGED <<enabled, fifo, out, buffer, ch, lost, overtaken, spoilt>>
dbg_print(t) == t # Tcpip /\ Call(t, FALSE)
dbg_print_wrapper(t) == t # Blinker /\ Call(t, TRUE)

\* vsprintf stores the characters one by one, and a NUL after the last.
Format(t) ==
    LET last == msg[t] = Length[t] + 1
        others == {u \in Threads \ {t} : wrapped[u] /\ pc[u] # "out"}
    IN
    /\ At(t, "format")
    /\ buffer' = [buffer EXCEPT ![msg[t]] = IF last THEN NUL ELSE <<t, n[t], msg[t]>>]
    /\ msg' = [msg EXCEPT ![t] = IF last THEN 1 ELSE @ + 1]
    /\ IF last THEN Goto(t, "loop") ELSE UNCHANGED pc
    /\ spoilt' = spoilt \cup {<<u, n[u]>> : u \in others}
    /\ UNCHANGED <<enabled, fifo, out, wrapped, n, ch, lost, overtaken>>

\* *msg
Pointed(t) == IF wrapped[t] THEN buffer[msg[t]]
              ELSE IF msg[t] <= Length[t] THEN <<t, n[t], msg[t]>> ELSE NUL
\* slip: the terminating NUL is sent as well
AtNulPast(t) == msg[t] > Length[t] + 1
AtNul(t) == Pointed(t) = NUL

\* '\0' ends the loop.
Return(t) ==
    /\ At(t, "loop") /\ AtNul(t)
    /\ Goto(t, "out")
    /\ UNCHANGED <<enabled, fifo, out, buffer, wrapped, n, msg, ch, lost, overtaken, spoilt>>

\* Nobody listens: ITM_SendChar does nothing.
\* slip: the port is polled all the same, and never gets ready
SkipNever(t) ==
    /\ At(t, "loop") /\ ~AtNul(t) /\ ~enabled
    /\ UNCHANGED vars
Skip(t) ==
    /\ At(t, "loop") /\ ~AtNul(t) /\ ~enabled
    /\ msg' = [msg EXCEPT ![t] = @ + 1]
    /\ UNCHANGED <<enabled, fifo, out, buffer, pc, wrapped, n, ch, lost, overtaken, spoilt>>

\* slip: the character kept in a static, the same for all threads
SendCharStatic(t) ==
    /\ At(t, "loop") /\ ~AtNul(t) /\ enabled
    /\ ch' = [u \in Threads |-> Pointed(t)]
    /\ Goto(t, "poll")
    /\ UNCHANGED <<enabled, fifo, out, buffer, wrapped, n, msg, lost, overtaken, spoilt>>
SendChar(t) ==
    /\ At(t, "loop") /\ ~AtNul(t) /\ enabled
    /\ ch' = [ch EXCEPT ![t] = Pointed(t)]
    /\ Goto(t, "poll")
    /\ UNCHANGED <<enabled, fifo, out, buffer, wrapped, n, msg, lost, overtaken, spoilt>>

\* The port has room; as long as it has none, the thread spins.
HasRoom == Len(fifo) < FifoDepth
\* slip: the port is not polled
PollNothing(t) ==
    /\ At(t, "poll")
    /\ Goto(t, "write")
    /\ overtaken' = [overtaken EXCEPT ![t] = FALSE]
    /\ UNCHANGED <<enabled, fifo, out, buffer, wrapped, n, msg, ch, lost, spoilt>>
Poll(t) ==
    /\ At(t, "poll") /\ HasRoom
    /\ Goto(t, "write")
    /\ overtaken' = [overtaken EXCEPT ![t] = FALSE]
    /\ UNCHANGED <<enabled, fifo, out, buffer, wrapped, n, msg, ch, lost, spoilt>>

\* What t writes: the character, and for the properties which one of its own it should be.
Item(t) == [by |-> t, call |-> n[t], at |-> msg[t], char |-> ch[t]]

Write(t) ==
    /\ At(t, "write")
    /\ IF HasRoom THEN fifo' = Append(fifo, Item(t)) /\ UNCHANGED lost
       ELSE lost' = lost \cup {Item(t)} /\ UNCHANGED fifo
    /\ msg' = [msg EXCEPT ![t] = @ + 1]
    /\ overtaken' = [u \in Threads |-> overtaken[u] \/ (pc[u] = "write" /\ u # t)]
    /\ Goto(t, "loop")
    /\ UNCHANGED <<enabled, out, buffer, wrapped, n, ch, spoilt>>

Drain ==
    /\ fifo # << >>
    /\ out' = Append(out, Head(fifo)) /\ fifo' = Tail(fifo)
    /\ UNCHANGED <<enabled, buffer, pc, wrapped, n, msg, ch, lost, overtaken, spoilt>>

Printing(t) == Format(t) \/ Return(t) \/ Skip(t) \/ SendChar(t) \/ Poll(t) \/ Write(t)

Finished == /\ fifo = << >>
            /\ \A t \in Threads : n[t] = MaxMessages[t] /\ pc[t] = "out"

Next == \/ \E t \in Threads : dbg_print(t) \/ dbg_print_wrapper(t) \/ Printing(t)
        \/ Drain
        \/ Finished /\ UNCHANGED vars

(* A probe that listens goes on reading; a thread goes on printing when it  *)
(* may.  When a message is printed is not assumed.                          *)
Fairness == WF_vars(Drain) /\ \A t \in Threads : WF_vars(Printing(t))

Spec == Init /\ [][Next]_vars /\ Fairness

-----------------------------------------------------------------------------
(* Types; that msg stays within the buffer whoever formatted into it last.  *)
TypeOK ==
    /\ enabled \in BOOLEAN
    /\ \A c \in Range(fifo) \cup Range(out) \cup lost :
           c.by \in Threads /\ c.at \in Places /\ c.char \in Chars
    /\ Len(fifo) <= FifoDepth
    /\ buffer \in [Places -> Chars \cup {NUL}]
    /\ pc \in [Threads -> {"out", "format", "loop", "poll", "write"}]
    /\ wrapped \in [Threads -> BOOLEAN] /\ overtaken \in [Threads -> BOOLEAN]
    /\ \A t \in Threads : n[t] \in 0..MaxMessages[t]
    /\ msg \in [Threads -> Places] /\ ch \in [Threads -> Chars \cup {NUL}]
    /\ \A p \in spoilt : p[1] \in Threads /\ p[2] \in 1..MaxMessages[p[1]]

Stream == out \o fifo

\* c is printed before d by the same thread.
Before(c, d) == c.call < d.call \/ (c.call = d.call /\ c.at < d.at)

\* The characters of t's messages, and those that it has passed by now; of
\* the messages that are spoilt none.
Own(t) == {[by |-> t, call |-> m, at |-> k, char |-> <<t, m, k>>] : m \in 1..n[t], k \in 1..Length[t]}
Passed(t) ==
    {c \in Own(t) :
        /\ <<t, c.call>> \notin spoilt
        /\ c.call = n[t] => pc[t] = "out" \/ (pc[t] # "format" /\ c.at < msg[t])}

\* What the probe receives of a thread is what that thread printed, each
\* character once and in order, except for the characters that were lost and
\* the messages whose buffer another thread used meanwhile; only those of the
\* tcpip thread, at the bottom, can be.
StreamExact ==
    /\ \A t \in Threads :
           {c \in Range(Stream) : c.by = t /\ <<t, c.call>> \notin spoilt}
               = IF enabled THEN Passed(t) \ lost ELSE {}
    /\ \A i, j \in DOMAIN Stream :
           i < j /\ Stream[i].by = Stream[j].by => Before(Stream[i], Stream[j])
    /\ \A p \in spoilt : p[1] = Tcpip

\* A character is lost only if a thread above printed between the poll of
\* ITM_SendChar and its write, and so none of the blinker's ever is.
LostOnlyWhenOvertaken ==
    [][\A t \in Threads : Write(t) /\ lost' # lost => overtaken[t] /\ t # Blinker]_vars

\* Only a thread above splits a message: what lies between two characters of
\* one message is of that message, or of a thread of higher priority.
SplitFromAbove ==
    \A i, j \in DOMAIN Stream :
        i < j /\ Stream[i].by = Stream[j].by /\ Stream[i].call = Stream[j].call
        => \A l \in i..j : Stream[l].by \in {Stream[i].by} \cup Above(Stream[i].by)

\* Every call returns, with a probe that reads and with none at all: also the
\* wrapper's, whose loop looks for a NUL in a buffer that other threads fill
\* meanwhile.
PrintsReturn == \A t \in Threads : pc[t] # "out" ~> pc[t] = "out"
=============================================================================

--------------------------- MODULE DbgPrintProofs ---------------------------
(***************************************************************************)
(* Debug output for every length and number of messages and every depth of *)
(* the port.  What the argument needs about the port is RoomKept; about    *)
(* the characters, ContentInv, which says for every item when it is in the *)
(* stream; about priorities, SplitInv.                                     *)
(***************************************************************************)
EXTENDS DbgPrint, SequenceTheorems, TLAPS

Items == [by : Threads, call : Nat, at : Places, char : Chars]
InCall(t) == pc[t] # "out"
Spoilt(t) == <<t, n[t]>> \in spoilt

-----------------------------------------------------------------------------
(* Types, and the calls under way.                                          *)

Types ==
    /\ enabled \in BOOLEAN
    /\ fifo \in Seq(Items) /\ out \in Seq(Items) /\ lost \subseteq Items
    /\ Len(fifo) <= FifoDepth
    /\ buffer \in [Places -> Chars \cup {NUL}]
    /\ pc \in [Threads -> {"out", "format", "loop", "poll", "write"}]
    /\ wrapped \in [Threads -> BOOLEAN] /\ overtaken \in [Threads -> BOOLEAN]
    /\ n \in [Threads -> Nat] /\ \A t \in Threads : n[t] <= MaxMessages[t]
    /\ msg \in [Threads -> Places] /\ ch \in [Threads -> Chars \cup {NUL}]
    /\ spoilt \subseteq {Tcpip} \X (1..MaxMessages[Tcpip])

\* Nobody ever stores anything but a NUL in the last place of the buffer.
LastIsNul == buffer[BufferSize] = NUL

\* Where msg may be, whoever formatted into the buffer last.
CallKept(t) ==
    /\ InCall(t) => n[t] >= 1
    /\ pc[t] = "format" => wrapped[t]
    /\ pc[t] = "format" \/ (InCall(t) /\ ~wrapped[t]) => msg[t] <= Length[t] + 1
    /\ pc[t] \in {"poll", "write"} => /\ enabled /\ ch[t] \in Chars /\ msg[t] < BufferSize
                                      /\ ~wrapped[t] => msg[t] <= Length[t]
CallsKept == ~wrapped[Blinker] /\ \A t \in Threads : CallKept(t)

Common == Types /\ LastIsNul /\ CallsKept

\* What the poll found is still true, or another thread wrote meanwhile, and
\* that was one above.
RoomKept ==
    /\ \A t \in Threads : pc[t] = "write" /\ ~overtaken[t] => HasRoom
    /\ ~overtaken[Blinker]

-----------------------------------------------------------------------------
(* Contents.                                                                *)

\* t's message is in the buffer, as far as t has formatted it, unless another
\* thread formatted its own there; and the loop does not run past its NUL.
MessageKept(t) ==
    /\ wrapped[t] /\ pc[t] = "format" => \A k \in 1..(msg[t] - 1) : buffer[k] = <<t, n[t], k>>
    /\ wrapped[t] /\ pc[t] \in {"loop", "poll", "write"} =>
           /\ \A k \in 1..Length[t] : buffer[k] = <<t, n[t], k>>
           /\ buffer[Length[t] + 1] = NUL
           /\ msg[t] <= Length[t] + 1
    /\ pc[t] \in {"poll", "write"} => msg[t] <= Length[t] /\ ch[t] = <<t, n[t], msg[t]>>
MessagesKept == \A t \in Threads : Spoilt(t) \/ MessageKept(t)

\* t has passed the place of c in its messages.
Gone(t, c) == c.call = n[t] => pc[t] = "out" \/ (pc[t] # "format" /\ c.at < msg[t])

\* Nothing was written ahead of its time.
Behind(c) == c.call \in 1..n[c.by] /\ Gone(c.by, c)
AllBehind == \A c \in Range(Stream) \cup lost : Behind(c)

\* c is one of t's own characters.
IsOwn(t, c) == c.call \in 1..n[t] /\ c.at <= Length[t] /\ c.char = <<t, c.call, c.at>>
ExactOf(t) ==
    \A c \in Items :
        c.by = t /\ <<t, c.call>> \notin spoilt =>
            (c \in Range(Stream) <=> enabled /\ IsOwn(t, c) /\ Gone(t, c) /\ c \notin lost)
Exact == \A t \in Threads : ExactOf(t)

InOrder == \A i, j \in DOMAIN Stream :
               i < j /\ Stream[i].by = Stream[j].by => Before(Stream[i], Stream[j])

ContentInv == Common /\ MessagesKept /\ AllBehind /\ Exact /\ InOrder

-----------------------------------------------------------------------------
(* Priorities.                                                              *)

\* After the first character of a message that t is still printing there is
\* nothing but t's and of the threads above it.
OpenMessages ==
    \A t \in Threads : \A i, l \in DOMAIN Stream :
        InCall(t) /\ Stream[i].by = t /\ Stream[i].call = n[t] /\ i < l
            => Stream[l].by \in {t} \cup Above(t)

SplitInv == Common /\ AllBehind /\ OpenMessages /\ SplitFromAbove

-----------------------------------------------------------------------------
(* Characters and sequences.                                                *)

LEMMA CharIs ==
    ASSUME NEW t \in Threads, NEW m \in 1..MaxMessages[t], NEW k \in 1..Length[t]
    PROVE  <<t, m, k>> \in Chars
  BY DEF Chars

LEMMA NulIsNone == \A t, m, k : <<t, m, k>> # NUL
  BY DEF NUL

LEMMA NulNotChar == NUL \notin Chars
  BY DEF NUL, Chars

LEMMA Sizes ==
    /\ BufferSize \in Nat /\ FifoDepth \in Nat
    /\ \A t \in Threads : /\ Length[t] \in Nat /\ Length[t] >= 1 /\ Length[t] + 1 <= BufferSize
                          /\ MaxMessages[t] \in Nat
  BY DbgPrintAssumption

\* Whoever is above t, below it or t itself.
LEMMA Priorities ==
    ASSUME NEW t \in Threads, NEW u \in Threads
    PROVE  t = u \/ t \in Above(u) \/ u \in Above(t)
  BY DbgPrintAssumption DEF Threads, Above

LEMMA BlinkerOnTop ==
    ASSUME NEW t \in Threads, t # Blinker, MayRun(t)
    PROVE  pc[Blinker] = "out"
  BY DbgPrintAssumption DEF Threads, Above, MayRun

LEMMA DrainKeepsStream ==
    ASSUME Types, Drain
    PROVE  /\ Stream' = Stream
           /\ fifo' \in Seq(Items) /\ out' \in Seq(Items)
           /\ Len(fifo') < Len(fifo)
<1>1. fifo \in Seq(Items) /\ out \in Seq(Items) /\ fifo # << >>
  BY DEF Types, Drain
<1>2. Head(fifo) \in Items /\ Tail(fifo) \in Seq(Items) /\ Len(Tail(fifo)) = Len(fifo) - 1
  BY <1>1, HeadTailProperties
<1>3. fifo = <<Head(fifo)>> \o Tail(fifo)
  BY <1>1
<1>4. Append(out, Head(fifo)) = out \o <<Head(fifo)>>
  BY <1>1, <1>2
<1>5. (out \o <<Head(fifo)>>) \o Tail(fifo) = out \o (<<Head(fifo)>> \o Tail(fifo))
  BY <1>1, <1>2
<1>6. Stream' = Stream
  BY <1>3, <1>4, <1>5 DEF Drain, Stream
<1>7. Len(fifo) \in Nat
  BY <1>1
<1> QED BY <1>1, <1>2, <1>6, <1>7 DEF Drain

\* What becomes of the stream where a character finds room.
LEMMA StreamGrows ==
    ASSUME Types, NEW x \in Items, fifo' = Append(fifo, x), out' = out
    PROVE  /\ Stream \in Seq(Items) /\ Stream' = Append(Stream, x)
           /\ Len(Stream) \in Nat /\ DOMAIN Stream = 1..Len(Stream)
           /\ DOMAIN Stream' = 1..(Len(Stream) + 1)
           /\ \A i \in 1..Len(Stream) : Stream'[i] = Stream[i]
           /\ Stream'[Len(Stream) + 1] = x
           /\ Range(Stream') = Range(Stream) \cup {x}
<1>1. fifo \in Seq(Items) /\ out \in Seq(Items)
  BY DEF Types
<1>2. Stream \in Seq(Items)
  BY <1>1 DEF Stream
<1>3. Stream' = Append(Stream, x)
  BY <1>1 DEF Stream
<1>4. Len(Stream) \in Nat /\ DOMAIN Stream = 1..Len(Stream)
  BY <1>2
<1>5. Len(Append(Stream, x)) = Len(Stream) + 1
  BY <1>2
<1>6. DOMAIN Append(Stream, x) = 1..(Len(Stream) + 1)
  BY <1>2, <1>5
<1>7. \A i \in 1..Len(Stream) : Append(Stream, x)[i] = Stream[i]
  BY <1>2, <1>4
<1>8. Append(Stream, x)[Len(Stream) + 1] = x
  BY <1>2, <1>4
<1>9. Range(Append(Stream, x)) = Range(Stream) \cup {x}
  BY <1>4, <1>6, <1>7, <1>8 DEF Range
<1> QED BY <1>2, <1>3, <1>4, <1>6, <1>7, <1>8, <1>9

-----------------------------------------------------------------------------
(* Types.                                                                   *)

LEMMA InitCommon == Init => Common
<1> SUFFICES ASSUME Init PROVE Common
  OBVIOUS
<1>1. << >> \in Seq(Items) /\ Len(<< >>) = 0 /\ 1 \in Places /\ BufferSize \in Places
  BY Sizes DEF Places, Threads
<1>2. Types
  BY <1>1, Sizes DEF Init, Types
<1>3. LastIsNul
  BY <1>1 DEF Init, LastIsNul
<1>4. CallsKept
  BY DEF Init, CallsKept, CallKept, InCall, Threads
<1> QED BY <1>2, <1>3, <1>4 DEF Common

LEMMA ItemTyped ==
    ASSUME Common, NEW t \in Threads, pc[t] = "write"
    PROVE  Item(t) \in Items
<1>1. n[t] \in Nat /\ msg[t] \in Places
  BY DEF Common, Types
<1>2. CallKept(t)
  BY DEF Common, CallsKept
<1>3. ch[t] \in Chars
  BY <1>2 DEF CallKept
<1> QED BY <1>1, <1>3 DEF Item, Items

\* What the loop finds that is no NUL is a character, and not in the last place.
LEMMA PointedTyped ==
    ASSUME Common, NEW t \in Threads, pc[t] = "loop", ~AtNul(t)
    PROVE  Pointed(t) \in Chars /\ msg[t] < BufferSize /\ (~wrapped[t] => msg[t] <= Length[t])
<1>1. /\ msg[t] \in Places /\ n[t] \in 1..MaxMessages[t] /\ buffer[BufferSize] = NUL
      /\ buffer \in [Places -> Chars \cup {NUL}] /\ BufferSize \in Nat
      /\ Length[t] \in Nat /\ Length[t] + 1 <= BufferSize
  BY Sizes DEF Common, Types, LastIsNul, CallsKept, CallKept, InCall
<1>2. Pointed(t) # NUL
  BY DEF AtNul
<1>3. CASE wrapped[t]
  <2>1. Pointed(t) = buffer[msg[t]]
    BY <1>3 DEF Pointed
  <2>2. buffer[msg[t]] \in Chars
    BY <2>1, <1>1, <1>2
  <2>3. msg[t] # BufferSize
    BY <2>1, <1>1, <1>2
  <2> QED BY <2>1, <2>2, <2>3, <1>1, <1>3 DEF Places
<1>4. CASE ~wrapped[t]
  <2>1. msg[t] <= Length[t] /\ Pointed(t) = <<t, n[t], msg[t]>>
    BY <1>2, <1>4 DEF Pointed
  <2>2. msg[t] \in 1..Length[t]
    BY <2>1, <1>1 DEF Places
  <2>3. Pointed(t) \in Chars
    BY <2>1, <2>2, <1>1, CharIs
  <2> QED BY <2>1, <2>3, <1>1 DEF Places
<1> QED BY <1>3, <1>4

LEMMA CommonCall ==
    ASSUME Common, NEW t \in Threads, dbg_print(t) \/ dbg_print_wrapper(t)
    PROVE  Common'
<1>1. PICK b \in BOOLEAN : Call(t, b) /\ (b => t # Blinker)
  BY DEF dbg_print, dbg_print_wrapper
<1>2. 1 \in Places /\ n[t] \in Nat /\ MaxMessages[t] \in Nat /\ Length[t] \in Nat /\ Length[t] >= 1
  BY Sizes DEF Common, Types, Places
<1>3. Types'
  BY <1>1, <1>2 DEF Common, Types, Call, At, Goto
<1>4. LastIsNul'
  BY <1>1 DEF Common, LastIsNul, Call
<1>5. CallKept(t)'
  BY <1>1, <1>2 DEF Common, Types, Call, Goto, CallKept, InCall
<1>6. ASSUME NEW u \in Threads, u # t PROVE CallKept(u)'
  BY <1>1, <1>6 DEF Common, Types, Call, Goto, CallsKept, CallKept, InCall
<1>7. ~wrapped'[Blinker]
  BY <1>1 DEF Common, Types, CallsKept, Call, Threads
<1> QED BY <1>3, <1>4, <1>5, <1>6, <1>7 DEF Common, CallsKept

LEMMA CommonFormat ==
    ASSUME Common, NEW t \in Threads, Format(t)
    PROVE  Common' /\ t # Blinker
<1>1. /\ msg[t] \in Places /\ n[t] \in 1..MaxMessages[t] /\ Length[t] \in Nat /\ Length[t] >= 1
      /\ msg[t] <= Length[t] + 1 /\ Length[t] + 1 <= BufferSize /\ BufferSize \in Nat
      /\ pc[t] = "format" /\ wrapped[t] /\ t # Blinker
  BY Sizes DEF Common, Types, CallsKept, CallKept, InCall, Format, At
<1>2. IF msg[t] = Length[t] + 1 THEN TRUE ELSE msg[t] \in 1..Length[t] /\ msg[t] < BufferSize
  BY <1>1 DEF Places
<1> DEFINE stored == IF msg[t] = Length[t] + 1 THEN NUL ELSE <<t, n[t], msg[t]>>
<1>3. stored \in Chars \cup {NUL}
  BY <1>1, <1>2, CharIs
<1>4. buffer' = [buffer EXCEPT ![msg[t]] = stored] /\ (msg[t] = BufferSize => stored = NUL)
  BY <1>1, <1>2 DEF Format
<1> HIDE DEF stored
<1>5. buffer' \in [Places -> Chars \cup {NUL}] /\ LastIsNul'
  BY <1>1, <1>3, <1>4 DEF Common, Types, LastIsNul, Places
<1>6. msg' \in [Threads -> Places] /\ msg'[t] <= Length[t] + 1
  BY <1>1, <1>2 DEF Common, Types, Format, Places
<1>7. pc' \in [Threads -> {"out", "format", "loop", "poll", "write"}] /\ pc'[t] \in {"format", "loop"}
  BY <1>1 DEF Common, Types, Format, Goto
<1>8. ASSUME NEW u \in Threads, u # t PROVE pc'[u] = pc[u] /\ msg'[u] = msg[u]
  BY <1>8 DEF Common, Types, Format, Goto
<1>9. spoilt' \subseteq {Tcpip} \X (1..MaxMessages[Tcpip])
  <2>1. ASSUME NEW u \in Threads \ {t}, wrapped[u], pc[u] # "out"
        PROVE  <<u, n[u]>> \in {Tcpip} \X (1..MaxMessages[Tcpip])
    <3>1. u # Blinker
      BY <2>1 DEF Common, CallsKept
    <3>2. u \notin Above(t)
      BY <2>1 DEF Format, At, MayRun
    <3>3. u = Tcpip
      BY <3>1, <3>2, <2>1, <1>1, DbgPrintAssumption DEF Threads, Above
    <3>4. n[u] \in 1..MaxMessages[u]
      BY <2>1, Sizes DEF Common, Types, CallsKept, CallKept, InCall
    <3> QED BY <3>3, <3>4
  <2> QED BY <2>1 DEF Common, Types, Format
<1>10. Types'
  BY <1>5, <1>6, <1>7, <1>9 DEF Common, Types, Format
<1>11. CallKept(t)'
  BY <1>1, <1>6, <1>7 DEF Common, CallsKept, Format, CallKept, InCall
<1>12. ASSUME NEW u \in Threads, u # t PROVE CallKept(u)'
  BY <1>8, <1>12 DEF Common, CallsKept, Format, CallKept, InCall
<1>13. ~wrapped'[Blinker]
  BY DEF Common, CallsKept, Format
<1> QED BY <1>1, <1>5, <1>10, <1>11, <1>12, <1>13 DEF Common, CallsKept

LEMMA CommonLoop ==
    ASSUME Common, NEW t \in Threads, Return(t) \/ Skip(t) \/ SendChar(t) \/ Poll(t)
    PROVE  Common'
<1>1. CASE Return(t)
  <2>1. Types' /\ LastIsNul'
    BY <1>1 DEF Common, Types, LastIsNul, Return, Goto
  <2>2. CallsKept'
    BY <1>1 DEF Common, Types, CallsKept, CallKept, InCall, Return, Goto
  <2> QED BY <2>1, <2>2 DEF Common
<1>2. CASE Skip(t)
  <2>1. pc[t] = "loop" /\ ~AtNul(t)
    BY <1>2 DEF Skip, At
  <2>2. /\ msg[t] \in Places /\ msg[t] < BufferSize /\ BufferSize \in Nat /\ Length[t] \in Nat
        /\ ~wrapped[t] => msg[t] <= Length[t]
    BY <2>1, PointedTyped, Sizes DEF Common, Types
  <2>3. Types' /\ LastIsNul'
    BY <1>2, <2>2 DEF Common, Types, LastIsNul, Skip, Places
  <2>4. CallKept(t)'
    BY <1>2, <2>1, <2>2 DEF Common, Types, CallsKept, CallKept, InCall, Skip, Places
  <2>5. ASSUME NEW u \in Threads, u # t PROVE CallKept(u)'
    BY <1>2, <2>5 DEF Common, Types, CallsKept, CallKept, InCall, Skip
  <2> QED BY <1>2, <2>3, <2>4, <2>5 DEF Common, CallsKept, Skip
<1>3. CASE SendChar(t)
  <2>1. pc[t] = "loop" /\ ~AtNul(t)
    BY <1>3 DEF SendChar, At
  <2>2. Pointed(t) \in Chars /\ msg[t] < BufferSize /\ (~wrapped[t] => msg[t] <= Length[t])
    BY <2>1, PointedTyped
  <2>3. Types' /\ LastIsNul'
    BY <1>3, <2>2 DEF Common, Types, LastIsNul, SendChar, Goto
  <2>4. CallKept(t)'
    BY <1>3, <2>1, <2>2 DEF Common, Types, CallsKept, CallKept, InCall, SendChar, Goto
  <2>5. ASSUME NEW u \in Threads, u # t PROVE CallKept(u)'
    BY <1>3, <2>5 DEF Common, Types, CallsKept, CallKept, InCall, SendChar, Goto
  <2> QED BY <1>3, <2>3, <2>4, <2>5 DEF Common, CallsKept, SendChar
<1>4. CASE Poll(t)
  <2>1. pc[t] = "poll"
    BY <1>4 DEF Poll, At
  <2>2. Types' /\ LastIsNul'
    BY <1>4 DEF Common, Types, LastIsNul, Poll, Goto
  <2>3. CallsKept'
    BY <1>4, <2>1 DEF Common, Types, CallsKept, CallKept, InCall, Poll, Goto
  <2> QED BY <2>2, <2>3 DEF Common
<1> QED BY <1>1, <1>2, <1>3, <1>4

LEMMA CommonWrite ==
    ASSUME Common, NEW t \in Threads, Write(t)
    PROVE  Common'
<1>1. pc[t] = "write"
  BY DEF Write, At
<1>2. Item(t) \in Items
  BY <1>1, ItemTyped
<1>3. /\ msg[t] \in Places /\ msg[t] < BufferSize /\ BufferSize \in Nat /\ FifoDepth \in Nat
      /\ Length[t] \in Nat /\ (~wrapped[t] => msg[t] <= Length[t])
  <2>1. CallKept(t)
    BY DEF Common, CallsKept
  <2>2. msg[t] < BufferSize /\ (~wrapped[t] => msg[t] <= Length[t])
    BY <2>1, <1>1 DEF CallKept
  <2> QED BY <2>2, Sizes DEF Common, Types
<1>4. fifo' \in Seq(Items) /\ Len(fifo') <= FifoDepth /\ lost' \subseteq Items
  <2>1. fifo \in Seq(Items) /\ lost \subseteq Items /\ Len(fifo) <= FifoDepth /\ Len(fifo) \in Nat
    BY DEF Common, Types
  <2>2. CASE HasRoom
    <3>1. fifo' = Append(fifo, Item(t)) /\ lost' = lost
      BY <2>2 DEF Write
    <3> QED BY <3>1, <2>1, <2>2, <1>2, <1>3 DEF HasRoom
  <2>3. CASE ~HasRoom
    <3>1. fifo' = fifo /\ lost' = lost \cup {Item(t)}
      BY <2>3 DEF Write
    <3> QED BY <3>1, <2>1, <1>2
  <2> QED BY <2>2, <2>3
<1>5. Types' /\ LastIsNul'
  BY <1>3, <1>4 DEF Common, Types, LastIsNul, Write, Goto, Places
<1>6. CallKept(t)'
  BY <1>1, <1>3 DEF Common, Types, CallsKept, CallKept, InCall, Write, Goto, Places
<1>7. ASSUME NEW u \in Threads, u # t PROVE CallKept(u)'
  BY <1>7 DEF Common, Types, CallsKept, CallKept, InCall, Write, Goto
<1> QED BY <1>5, <1>6, <1>7 DEF Common, CallsKept, Write

LEMMA CommonStep == Common /\ [Next]_vars => Common'
<1> SUFFICES ASSUME Common, [Next]_vars PROVE Common'
  OBVIOUS
<1>1. ASSUME NEW t \in Threads, dbg_print(t) \/ dbg_print_wrapper(t) PROVE Common'
  BY <1>1, CommonCall
<1>2. ASSUME NEW t \in Threads, Printing(t) PROVE Common'
  BY <1>2, CommonFormat, CommonLoop, CommonWrite DEF Printing
<1>3. CASE Drain
  <2>1. fifo' \in Seq(Items) /\ out' \in Seq(Items) /\ Len(fifo') <= FifoDepth
    <3>1. Types /\ fifo \in Seq(Items)
      BY DEF Common, Types
    <3>2. fifo' \in Seq(Items) /\ out' \in Seq(Items) /\ Len(fifo') < Len(fifo)
      BY <3>1, <1>3, DrainKeepsStream
    <3> QED BY <3>1, <3>2, Sizes DEF Types
  <2>2. Types' /\ LastIsNul'
    BY <1>3, <2>1 DEF Common, Types, LastIsNul, Drain
  <2>3. CallsKept'
    BY <1>3 DEF Common, CallsKept, CallKept, InCall, Drain
  <2> QED BY <2>2, <2>3 DEF Common
<1>4. CASE UNCHANGED vars
  BY <1>4 DEF Common, Types, LastIsNul, CallsKept, CallKept, InCall, vars
<1> QED BY <1>1, <1>2, <1>3, <1>4 DEF Next

LEMMA CommonHolds == Spec => []Common
  BY InitCommon, CommonStep, PTL DEF Spec

\* Types, and msg within the buffer whichever thread formatted into it last:
\* for every length of the messages, every depth of the port.
THEOREM DbgPrintTypes == Spec => []TypeOK
<1>1. Common => TypeOK
  <2> SUFFICES ASSUME Common PROVE TypeOK
    OBVIOUS
  <2>1. \A c \in Items : c.by \in Threads /\ c.at \in Places /\ c.char \in Chars
    BY DEF Items
  <2>2. Range(fifo) \subseteq Items /\ Range(out) \subseteq Items /\ lost \subseteq Items
    BY DEF Common, Types, Range
  <2>3. \A t \in Threads : n[t] \in 0..MaxMessages[t]
    BY Sizes DEF Common, Types
  <2>4. \A p \in spoilt : p[1] \in Threads /\ p[2] \in 1..MaxMessages[p[1]]
    BY DEF Common, Types, Threads
  <2> QED BY <2>1, <2>2, <2>3, <2>4 DEF Common, Types, TypeOK
<1> QED BY <1>1, CommonHolds, PTL

-----------------------------------------------------------------------------
(* The port: how characters get lost.                                      *)

LEMMA RoomStep == Common /\ RoomKept /\ [Next]_vars => RoomKept'
<1> SUFFICES ASSUME Common, RoomKept, [Next]_vars PROVE RoomKept'
  OBVIOUS
<1> USE DEF Common, Types
<1>1. ASSUME NEW t \in Threads, dbg_print(t) \/ dbg_print_wrapper(t) PROVE RoomKept'
  BY <1>1 DEF RoomKept, HasRoom, dbg_print, dbg_print_wrapper, Call, Goto
<1>2. ASSUME NEW t \in Threads, Format(t) \/ Return(t) \/ Skip(t) \/ SendChar(t) PROVE RoomKept'
  BY <1>2 DEF RoomKept, HasRoom, Format, Return, Skip, SendChar, Goto
<1>3. ASSUME NEW t \in Threads, Poll(t) PROVE RoomKept'
  BY <1>3 DEF RoomKept, HasRoom, Poll, Goto, Threads
<1>4. ASSUME NEW t \in Threads, Write(t) PROVE RoomKept'
  <2>1. \A u \in Threads : pc'[u] = "write" => overtaken'[u]
    BY <1>4 DEF Write, Goto
  <2>2. t # Blinker => pc[Blinker] # "write"
    BY <1>4, BlinkerOnTop DEF Write, At
  <2>3. ~overtaken'[Blinker]
    BY <1>4, <2>2 DEF RoomKept, Write, Threads
  <2> QED BY <2>1, <2>3 DEF RoomKept
<1>5. CASE Drain
  <2>1. Len(fifo') < Len(fifo) /\ fifo' \in Seq(Items)
    BY <1>5, DrainKeepsStream
  <2> QED BY <1>5, <2>1, Sizes DEF RoomKept, HasRoom, Drain
<1>6. CASE UNCHANGED vars
  BY <1>6 DEF RoomKept, HasRoom, vars
<1> QED BY <1>1, <1>2, <1>3, <1>4, <1>5, <1>6 DEF Next, Printing

\* A character is lost only if a thread above printed between the poll of
\* ITM_SendChar and its write; none of the blinker's ever is.
THEOREM LossesExplained == Spec => LostOnlyWhenOvertaken
<1>1. Init => RoomKept
  BY DEF Init, RoomKept, Threads
<1>2. Spec => [](Common /\ RoomKept)
  BY <1>1, RoomStep, CommonHolds, PTL DEF Spec
<1>3. Common /\ RoomKept /\ [Next]_vars
      => [\A t \in Threads : Write(t) /\ lost' # lost => overtaken[t] /\ t # Blinker]_vars
  <2> SUFFICES ASSUME RoomKept, NEW t \in Threads, Write(t), lost' # lost
               PROVE  overtaken[t] /\ t # Blinker
    OBVIOUS
  <2>1. ~HasRoom /\ pc[t] = "write"
    BY DEF Write, At
  <2> QED BY <2>1 DEF RoomKept
<1> QED BY <1>2, <1>3, PTL DEF Spec, LostOnlyWhenOvertaken

-----------------------------------------------------------------------------
(* Contents: the stream is what the threads have passed.                    *)

LEMMA StreamTyped ==
    ASSUME Common
    PROVE  Stream \in Seq(Items) /\ Range(Stream) \subseteq Items /\ lost \subseteq Items
  BY DEF Common, Types, Stream, Range

\* An action of t that writes no character.
LEMMA NothingWritten ==
    ASSUME Common, AllBehind, Exact, InOrder, UNCHANGED <<enabled, fifo, out, lost>>, spoilt \subseteq spoilt',
           NEW t \in Threads,
           \A u \in Threads \ {t} : n'[u] = n[u] /\ pc'[u] = pc[u] /\ msg'[u] = msg[u],
           \A c \in Items : c.by = t /\ Behind(c) => Behind(c)',
           \A c \in Items : c.by = t /\ <<t, c.call>> \notin spoilt' /\ enabled
               /\ (c \in Range(Stream) => Behind(c)) =>
               (IsOwn(t, c) /\ Gone(t, c) <=> IsOwn(t, c)' /\ Gone(t, c)')
    PROVE  AllBehind' /\ Exact' /\ InOrder'
<1>1. Stream' = Stream /\ Stream \in Seq(Items) /\ Range(Stream) \subseteq Items /\ lost \subseteq Items
  BY StreamTyped DEF Stream
<1>2. Range(Stream)' = Range(Stream)
  BY <1>1
<1>3. \A c \in Items : c.by \in Threads
  BY DEF Items
<1>4. AllBehind'
  <2> SUFFICES ASSUME NEW c \in Range(Stream) \cup lost PROVE Behind(c)'
    BY <1>2 DEF AllBehind
  <2>1. c \in Items /\ c.by \in Threads /\ Behind(c)
    BY <1>1, <1>3 DEF AllBehind
  <2> QED BY <2>1 DEF Behind, Gone
<1>5. Exact'
  <2> SUFFICES ASSUME NEW u \in Threads, NEW c \in Items, c.by = u, <<u, c.call>> \notin spoilt'
               PROVE  c \in Range(Stream) <=> enabled /\ IsOwn(u, c)' /\ Gone(u, c)' /\ c \notin lost
    BY <1>2 DEF Exact, ExactOf
  <2>1. c \in Range(Stream) <=> enabled /\ IsOwn(u, c) /\ Gone(u, c) /\ c \notin lost
    BY DEF Exact, ExactOf
  <2>2. CASE u = t
    <3>1. c \in Range(Stream) => Behind(c)
      BY DEF AllBehind
    <3> QED BY <2>1, <2>2, <3>1
  <2>3. CASE u # t
    <3>1. (IsOwn(u, c) <=> IsOwn(u, c)') /\ (Gone(u, c) <=> Gone(u, c)')
      BY <2>3 DEF IsOwn, Gone
    <3> QED BY <2>1, <3>1
  <2> QED BY <2>2, <2>3
<1>6. InOrder'
  BY <1>1 DEF InOrder, Before
<1> QED BY <1>4, <1>5, <1>6

LEMMA ContentCall ==
    ASSUME ContentInv, NEW t \in Threads, dbg_print(t) \/ dbg_print_wrapper(t)
    PROVE  MessagesKept' /\ AllBehind' /\ Exact' /\ InOrder'
<1>1. PICK b \in BOOLEAN : Call(t, b)
  BY DEF dbg_print, dbg_print_wrapper
<1>2. Common /\ Types
  BY DEF ContentInv, Common
<1>3. \A u \in Threads \ {t} : n'[u] = n[u] /\ pc'[u] = pc[u] /\ msg'[u] = msg[u] /\ wrapped'[u] = wrapped[u]
  BY <1>1, <1>2 DEF Types, Call, Goto
<1>4. /\ n'[t] = n[t] + 1 /\ n[t] \in Nat /\ msg'[t] = 1 /\ pc'[t] \in {"format", "loop"} /\ pc[t] = "out"
      /\ pc'[t] = "loop" => ~wrapped'[t]
  BY <1>1, <1>2 DEF Types, Call, Goto, At
<1>5. UNCHANGED <<enabled, fifo, out, lost, spoilt, buffer, ch>>
  BY <1>1 DEF Call
<1>6. MessagesKept'
  <2>1. MessageKept(t)'
    BY <1>4 DEF MessageKept
  <2>2. ASSUME NEW u \in Threads, u # t PROVE Spoilt(u)' \/ MessageKept(u)'
    BY <1>3, <1>5, <2>2 DEF ContentInv, MessagesKept, MessageKept, Spoilt
  <2> QED BY <2>1, <2>2 DEF MessagesKept
<1>7. ASSUME NEW c \in Items, c.by = t, Behind(c) PROVE Behind(c)'
  <2>1. c.call \in Nat /\ c.call <= n[t] /\ c.call >= 1
    BY <1>4, <1>7 DEF Items, Behind
  <2> QED BY <2>1, <1>4, <1>7 DEF Behind, Gone
<1>8. ASSUME NEW c \in Items, c.by = t
      PROVE  IsOwn(t, c) /\ Gone(t, c) <=> IsOwn(t, c)' /\ Gone(t, c)'
  <2>1. c.call \in Nat /\ c.at \in Nat /\ c.at >= 1
    BY Sizes DEF Items, Places
  <2>2. Gone(t, c) /\ (Gone(t, c)' <=> c.call # n[t] + 1)
    BY <2>1, <1>4 DEF Gone
  <2>3. IsOwn(t, c)' <=> IsOwn(t, c) \/ (c.call = n[t] + 1 /\ IsOwn(t, c)')
    BY <2>1, <1>4 DEF IsOwn
  <2>4. IsOwn(t, c) => c.call # n[t] + 1
    BY <2>1, <1>4 DEF IsOwn
  <2> QED BY <2>2, <2>3, <2>4
<1>9. AllBehind' /\ Exact' /\ InOrder'
  <2>1. spoilt \subseteq spoilt'
    BY <1>5
  <2> QED BY <1>2, <1>3, <1>5, <1>7, <1>8, <2>1, NothingWritten DEF ContentInv
<1> QED BY <1>6, <1>9

LEMMA ContentFormat ==
    ASSUME ContentInv, NEW t \in Threads, Format(t)
    PROVE  MessagesKept' /\ AllBehind' /\ Exact' /\ InOrder'
<1>1. Common /\ Types
  BY DEF ContentInv, Common
<1>2. \A u \in Threads \ {t} : n'[u] = n[u] /\ pc'[u] = pc[u] /\ msg'[u] = msg[u]
  BY <1>1 DEF Types, Format, Goto
<1>3. /\ pc[t] = "format" /\ wrapped[t] /\ msg[t] \in Places /\ msg[t] <= Length[t] + 1
      /\ Length[t] + 1 <= BufferSize /\ Length[t] \in Nat /\ Length[t] >= 1 /\ n[t] \in Nat
  BY <1>1, Sizes DEF Common, Types, CallsKept, CallKept, Format, At
<1>4. UNCHANGED <<enabled, fifo, out, lost, wrapped, n, ch>> /\ spoilt \subseteq spoilt'
  BY DEF Format
<1>5. ASSUME msg[t] = Length[t] + 1 PROVE MessageKept(t) => MessageKept(t)'
  <2>1. msg'[t] = 1 /\ pc'[t] = "loop" /\ buffer' = [buffer EXCEPT ![msg[t]] = NUL]
    BY <1>1, <1>5 DEF Types, Format, Goto
  <2>2. MessageKept(t) => MessageKept(t)'
    <3> SUFFICES ASSUME MessageKept(t) PROVE MessageKept(t)'
      OBVIOUS
    <3>1. \A k \in 1..Length[t] : k # msg[t] /\ buffer[k] = <<t, n[t], k>>
      BY <1>3, <1>5 DEF MessageKept
    <3>2. buffer \in [Places -> Chars \cup {NUL}] /\ \A k \in 1..Length[t] : k \in Places
      BY <1>1, <1>3, Sizes DEF Types, Places
    <3>3. \A k \in 1..Length[t] : buffer'[k] = <<t, n[t], k>>
      BY <2>1, <3>1, <3>2
    <3>4. buffer'[Length[t] + 1] = NUL
      BY <2>1, <3>2, <1>3, <1>5
    <3> QED BY <3>3, <3>4, <2>1, <1>3, <1>4 DEF MessageKept
  <2> QED BY <2>1, <2>2
<1>6. ASSUME msg[t] # Length[t] + 1 PROVE MessageKept(t) => MessageKept(t)'
  <2>1. msg'[t] = msg[t] + 1 /\ pc'[t] = "format" /\ buffer' = [buffer EXCEPT ![msg[t]] = <<t, n[t], msg[t]>>]
    BY <1>1, <1>3, <1>6 DEF Types, Format, Goto
  <2>2. MessageKept(t) => MessageKept(t)'
    <3> SUFFICES ASSUME MessageKept(t) PROVE MessageKept(t)'
      OBVIOUS
    <3>1. \A k \in 1..(msg[t] - 1) : k # msg[t] /\ k \in Places /\ buffer[k] = <<t, n[t], k>>
      BY <1>3, Sizes DEF MessageKept, Places
    <3>2. buffer \in [Places -> Chars \cup {NUL}] /\ msg[t] \in Nat
      BY <1>1, <1>3, Sizes DEF Types, Places
    <3>3. \A k \in 1..msg[t] : k = msg[t] \/ k \in 1..(msg[t] - 1)
      BY <3>2
    <3>4. \A k \in 1..msg[t] : buffer'[k] = <<t, n[t], k>>
      BY <2>1, <3>1, <3>2, <3>3, <1>3
    <3>5. msg'[t] - 1 = msg[t]
      BY <2>1, <3>2
    <3> QED BY <3>4, <3>5, <2>1, <1>3, <1>4 DEF MessageKept
  <2> QED BY <2>1, <2>2
<1>7. MessageKept(t) => MessageKept(t)'
  BY <1>5, <1>6
<1>8. pc'[t] \in {"format", "loop"} /\ (pc'[t] = "loop" => msg'[t] = 1)
  BY <1>3, <1>1 DEF Types, Format, Goto
<1>9. MessagesKept'
  <2>1. Spoilt(t)' \/ MessageKept(t)'
    BY <1>7, <1>4 DEF ContentInv, MessagesKept, Spoilt
  <2>2. ASSUME NEW u \in Threads, u # t PROVE Spoilt(u)' \/ MessageKept(u)'
    <3>1. CASE wrapped[u] /\ pc[u] # "out"
      <4>1. u \in {v \in Threads \ {t} : wrapped[v] /\ pc[v] # "out"}
        BY <2>2, <3>1
      <4>2. <<u, n[u]>> \in spoilt'
        BY <4>1 DEF Format
      <4> QED BY <4>2, <1>4 DEF Spoilt
    <3>2. CASE ~wrapped[u] \/ pc[u] = "out"
      BY <2>2, <3>2, <1>2, <1>4 DEF ContentInv, MessagesKept, MessageKept, Spoilt
    <3> QED BY <3>1, <3>2
  <2> QED BY <2>1, <2>2 DEF MessagesKept
<1>10. \A c \in Items : c.by = t => ~(c.call = n[t] /\ Gone(t, c)) /\ ~(c.call = n'[t] /\ Gone(t, c)')
  <2> SUFFICES ASSUME NEW c \in Items, c.by = t
               PROVE  ~(c.call = n[t] /\ Gone(t, c)) /\ ~(c.call = n'[t] /\ Gone(t, c)')
    OBVIOUS
  <2>1. c.at \in Nat /\ c.at >= 1
    BY Sizes DEF Items, Places
  <2> QED BY <2>1, <1>3, <1>8 DEF Gone
<1>11. \A c \in Items : c.by = t => (IsOwn(t, c) <=> IsOwn(t, c)') /\ (Gone(t, c) <=> Gone(t, c)')
  BY <1>4, <1>10 DEF IsOwn, Gone
<1>12. \A c \in Items : c.by = t /\ Behind(c) => Behind(c)'
  BY <1>4, <1>11 DEF Behind
<1>13. AllBehind' /\ Exact' /\ InOrder'
  BY <1>1, <1>2, <1>4, <1>11, <1>12, NothingWritten DEF ContentInv
<1> QED BY <1>9, <1>13

\* Where the loop stands while t's message is whole.
LEMMA LoopPlace ==
    ASSUME ContentInv, NEW t \in Threads, pc[t] = "loop"
    PROVE  /\ AtNul(t) /\ ~Spoilt(t) => msg[t] = Length[t] + 1
           /\ AtNul(t) /\ ~wrapped[t] => msg[t] = Length[t] + 1
           /\ ~AtNul(t) /\ ~Spoilt(t) => msg[t] <= Length[t] /\ Pointed(t) = <<t, n[t], msg[t]>>
<1>1. /\ msg[t] \in Nat /\ msg[t] >= 1 /\ Length[t] \in Nat
      /\ ~wrapped[t] => msg[t] <= Length[t] + 1
  BY Sizes DEF ContentInv, Common, Types, CallsKept, CallKept, InCall, Places
<1>2. CASE ~wrapped[t]
  BY <1>1, <1>2, NulIsNone DEF AtNul, Pointed
<1>3. CASE wrapped[t] /\ ~Spoilt(t)
  <2>1. /\ \A k \in 1..Length[t] : buffer[k] = <<t, n[t], k>>
        /\ buffer[Length[t] + 1] = NUL /\ msg[t] <= Length[t] + 1
    BY <1>3 DEF ContentInv, MessagesKept, MessageKept
  <2>2. Pointed(t) = buffer[msg[t]]
    BY <1>3 DEF Pointed
  <2>3. CASE msg[t] = Length[t] + 1
    BY <2>1, <2>2, <2>3 DEF AtNul
  <2>4. CASE msg[t] <= Length[t]
    <3>1. msg[t] \in 1..Length[t]
      BY <2>4, <1>1
    <3>2. buffer[msg[t]] = <<t, n[t], msg[t]>>
      BY <3>1, <2>1
    <3>3. Pointed(t) # NUL
      BY <3>2, <2>2, NulIsNone
    <3> QED BY <2>2, <2>4, <3>2, <3>3 DEF AtNul
  <2> QED BY <2>1, <2>3, <2>4, <1>1
<1> QED BY <1>2, <1>3

LEMMA ContentReturn ==
    ASSUME ContentInv, NEW t \in Threads, Return(t)
    PROVE  MessagesKept' /\ AllBehind' /\ Exact' /\ InOrder'
<1>1. Common /\ Types
  BY DEF ContentInv, Common
<1>2. /\ pc' = [pc EXCEPT ![t] = "out"] /\ pc[t] = "loop" /\ AtNul(t)
      /\ UNCHANGED <<enabled, fifo, out, buffer, wrapped, n, msg, ch, lost, overtaken, spoilt>>
  BY DEF Return, Goto, At
<1>3. pc'[t] = "out" /\ \A u \in Threads \ {t} : pc'[u] = pc[u]
  BY <1>1, <1>2 DEF Types
<1>4. MessagesKept'
  BY <1>2, <1>3 DEF ContentInv, MessagesKept, MessageKept, Spoilt
<1>5. \A c \in Items : c.by = t /\ Behind(c) => Behind(c)'
  BY <1>2, <1>3 DEF Behind, Gone
<1>6. ASSUME NEW c \in Items, c.by = t, <<t, c.call>> \notin spoilt'
      PROVE  IsOwn(t, c) /\ Gone(t, c) <=> IsOwn(t, c)' /\ Gone(t, c)'
  <2>1. (IsOwn(t, c) <=> IsOwn(t, c)') /\ Gone(t, c)'
    BY <1>2, <1>3 DEF IsOwn, Gone
  <2>2. ASSUME IsOwn(t, c), c.call = n[t] PROVE c.at < msg[t]
    <3>1. msg[t] = Length[t] + 1
      BY <1>2, <1>6, <2>2, LoopPlace DEF Spoilt
    <3>2. c.at <= Length[t] /\ c.at \in Nat /\ Length[t] \in Nat
      BY <2>2, Sizes DEF IsOwn, Items, Places
    <3> QED BY <3>1, <3>2
  <2>3. IsOwn(t, c) => Gone(t, c)
    BY <2>2, <1>2 DEF Gone
  <2> QED BY <2>1, <2>3
<1>7. AllBehind' /\ Exact' /\ InOrder'
  <2>1. /\ spoilt \subseteq spoilt' /\ UNCHANGED <<enabled, fifo, out, lost>>
        /\ \A u \in Threads \ {t} : n'[u] = n[u] /\ pc'[u] = pc[u] /\ msg'[u] = msg[u]
    BY <1>2, <1>3
  <2> QED BY <1>1, <1>5, <1>6, <2>1, NothingWritten DEF ContentInv
<1> QED BY <1>4, <1>7

LEMMA ContentSkip ==
    ASSUME ContentInv, NEW t \in Threads, Skip(t)
    PROVE  MessagesKept' /\ AllBehind' /\ Exact' /\ InOrder'
<1>1. Common /\ Types
  BY DEF ContentInv, Common
<1>2. /\ msg' = [msg EXCEPT ![t] = msg[t] + 1] /\ pc[t] = "loop" /\ ~AtNul(t) /\ ~enabled
      /\ UNCHANGED <<enabled, fifo, out, buffer, pc, wrapped, n, ch, lost, overtaken, spoilt>>
  BY DEF Skip, At
<1>3. /\ msg'[t] = msg[t] + 1 /\ msg[t] \in Nat
      /\ \A u \in Threads \ {t} : msg'[u] = msg[u]
  BY <1>1, <1>2 DEF Types, Places
<1>4. MessagesKept'
  <2>1. Spoilt(t)' \/ MessageKept(t)'
    <3>1. CASE Spoilt(t)
      BY <3>1, <1>2 DEF Spoilt
    <3>2. CASE ~Spoilt(t)
      <4>1. msg[t] <= Length[t] /\ Length[t] \in Nat
        BY <1>2, <3>2, LoopPlace, Sizes
      <4>2. MessageKept(t)
        BY <3>2 DEF ContentInv, MessagesKept
      <4> QED BY <4>1, <4>2, <1>2, <1>3 DEF MessageKept
    <3> QED BY <3>1, <3>2
  <2>2. ASSUME NEW u \in Threads, u # t PROVE Spoilt(u)' \/ MessageKept(u)'
    BY <1>2, <1>3, <2>2 DEF ContentInv, MessagesKept, MessageKept, Spoilt
  <2> QED BY <2>1, <2>2 DEF MessagesKept
<1>5. ASSUME NEW c \in Items, c.by = t, Behind(c) PROVE Behind(c)'
  <2>1. c.at \in Nat
    BY DEF Items, Places
  <2> QED BY <2>1, <1>2, <1>3, <1>5 DEF Behind, Gone
<1>6. AllBehind' /\ Exact' /\ InOrder'
  <2>1. /\ spoilt \subseteq spoilt' /\ UNCHANGED <<enabled, fifo, out, lost>> /\ ~enabled
        /\ \A u \in Threads \ {t} : n'[u] = n[u] /\ pc'[u] = pc[u] /\ msg'[u] = msg[u]
    BY <1>2, <1>3
  <2> QED BY <1>1, <1>5, <2>1, NothingWritten DEF ContentInv
<1> QED BY <1>4, <1>6

LEMMA ContentSend ==
    ASSUME ContentInv, NEW t \in Threads, SendChar(t) \/ Poll(t)
    PROVE  MessagesKept' /\ AllBehind' /\ Exact' /\ InOrder'
<1>1. Common /\ Types
  BY DEF ContentInv, Common
<1>2. /\ pc'[t] \in {"poll", "write"} /\ pc[t] \in {"loop", "poll"}
      /\ \A u \in Threads \ {t} : pc'[u] = pc[u] /\ ch'[u] = ch[u]
      /\ UNCHANGED <<enabled, fifo, out, buffer, wrapped, n, msg, lost, spoilt>>
  BY <1>1 DEF Types, SendChar, Poll, Goto, At
<1>3. MessagesKept'
  <2>1. Spoilt(t)' \/ MessageKept(t)'
    <3>1. CASE Spoilt(t)
      BY <3>1, <1>2 DEF Spoilt
    <3>2. CASE ~Spoilt(t)
      <4>1. MessageKept(t)
        BY <3>2 DEF ContentInv, MessagesKept
      <4>2. CASE SendChar(t)
        <5>1. pc[t] = "loop" /\ ~AtNul(t) /\ ch'[t] = Pointed(t)
          BY <4>2, <1>1 DEF SendChar, At, Types
        <5>2. msg[t] <= Length[t] /\ ch'[t] = <<t, n[t], msg[t]>>
          BY <5>1, <3>2, LoopPlace
        <5> QED BY <4>1, <5>1, <5>2, <1>2 DEF MessageKept
      <4>3. CASE Poll(t)
        <5>1. pc[t] = "poll" /\ ch' = ch
          BY <4>3 DEF Poll, At
        <5> QED BY <4>1, <5>1, <1>2 DEF MessageKept
      <4> QED BY <4>2, <4>3
    <3> QED BY <3>1, <3>2
  <2>2. ASSUME NEW u \in Threads, u # t PROVE Spoilt(u)' \/ MessageKept(u)'
    BY <1>2, <2>2 DEF ContentInv, MessagesKept, MessageKept, Spoilt
  <2> QED BY <2>1, <2>2 DEF MessagesKept
<1>4. \A c \in Items : c.by = t => (IsOwn(t, c) <=> IsOwn(t, c)') /\ (Gone(t, c) <=> Gone(t, c)')
  BY <1>2 DEF IsOwn, Gone
<1>5. \A c \in Items : c.by = t /\ Behind(c) => Behind(c)'
  BY <1>2, <1>4 DEF Behind
<1>6. AllBehind' /\ Exact' /\ InOrder'
  <2>1. /\ spoilt \subseteq spoilt' /\ UNCHANGED <<enabled, fifo, out, lost>>
        /\ \A u \in Threads \ {t} : n'[u] = n[u] /\ pc'[u] = pc[u] /\ msg'[u] = msg[u]
    BY <1>2
  <2> QED BY <1>1, <1>4, <1>5, <2>1, NothingWritten DEF ContentInv
<1> QED BY <1>3, <1>6

LEMMA ContentWrite ==
    ASSUME ContentInv, NEW t \in Threads, Write(t)
    PROVE  MessagesKept' /\ AllBehind' /\ Exact' /\ InOrder'
<1>1. Common /\ Types /\ Stream \in Seq(Items) /\ Range(Stream) \subseteq Items /\ lost \subseteq Items
  BY StreamTyped DEF ContentInv, Common
<1>2. /\ msg' = [msg EXCEPT ![t] = msg[t] + 1] /\ pc' = [pc EXCEPT ![t] = "loop"] /\ pc[t] = "write"
      /\ UNCHANGED <<enabled, out, buffer, wrapped, n, ch, spoilt>>
  BY DEF Write, At, Goto
<1>3. /\ msg'[t] = msg[t] + 1 /\ msg[t] \in Nat /\ msg[t] >= 1 /\ pc'[t] = "loop"
      /\ n[t] \in Nat /\ n[t] >= 1 /\ Length[t] \in Nat /\ enabled
      /\ \A u \in Threads \ {t} : msg'[u] = msg[u] /\ pc'[u] = pc[u]
  BY <1>1, <1>2, Sizes DEF Types, Places, Common, CallsKept, CallKept, InCall
<1>4. Item(t) \in Items /\ Item(t).by = t /\ Item(t).call = n[t] /\ Item(t).at = msg[t] /\ Item(t).char = ch[t]
  BY <1>1, <1>2, ItemTyped DEF Item
<1>5. \/ /\ HasRoom /\ lost' = lost /\ Range(Stream') = Range(Stream) \cup {Item(t)}
         /\ fifo' = Append(fifo, Item(t))
      \/ lost' = lost \cup {Item(t)} /\ Stream' = Stream /\ Range(Stream') = Range(Stream)
  <2>1. CASE HasRoom
    <3>1. fifo' = Append(fifo, Item(t)) /\ lost' = lost
      BY <2>1 DEF Write
    <3> QED BY <3>1, <2>1, <1>1, <1>2, <1>4, StreamGrows
  <2>2. CASE ~HasRoom
    <3>1. fifo' = fifo /\ lost' = lost \cup {Item(t)}
      BY <2>2 DEF Write
    <3>2. Stream' = Stream
      BY <3>1, <1>2 DEF Stream
    <3> QED BY <3>1, <3>2
  <2> QED BY <2>1, <2>2
<1>6. MessagesKept'
  <2>1. Spoilt(t)' \/ MessageKept(t)'
    <3>1. CASE Spoilt(t)
      BY <3>1, <1>2 DEF Spoilt
    <3>2. CASE ~Spoilt(t)
      <4>1. MessageKept(t)
        BY <3>2 DEF ContentInv, MessagesKept
      <4> QED BY <4>1, <1>2, <1>3 DEF MessageKept
    <3> QED BY <3>1, <3>2
  <2>2. ASSUME NEW u \in Threads, u # t PROVE Spoilt(u)' \/ MessageKept(u)'
    BY <1>2, <1>3, <2>2 DEF ContentInv, MessagesKept, MessageKept, Spoilt
  <2> QED BY <2>1, <2>2 DEF MessagesKept
\* What t passes with this step is the place msg of its message.
<1>7. \A c \in Items : c.by = t => (Gone(t, c)' <=> Gone(t, c) \/ (c.call = n[t] /\ c.at = msg[t]))
  <2> SUFFICES ASSUME NEW c \in Items, c.by = t
               PROVE  Gone(t, c)' <=> Gone(t, c) \/ (c.call = n[t] /\ c.at = msg[t])
    OBVIOUS
  <2>1. c.at \in Nat
    BY Sizes DEF Items, Places
  <2> QED BY <2>1, <1>2, <1>3 DEF Gone
<1>8. \A u \in Threads, c \in Items : u # t => (Gone(u, c)' <=> Gone(u, c))
  BY <1>2, <1>3 DEF Gone
<1>9. \A c \in Range(Stream) \cup lost : c \in Items /\ c.by \in Threads /\ Behind(c)
                                         /\ ~(c.by = t /\ c.call = n[t] /\ c.at = msg[t])
  <2> SUFFICES ASSUME NEW c \in Range(Stream) \cup lost
               PROVE  c \in Items /\ c.by \in Threads /\ Behind(c) /\ ~(c.by = t /\ c.call = n[t] /\ c.at = msg[t])
    OBVIOUS
  <2>1. c \in Items /\ c.by \in Threads /\ Behind(c)
    BY <1>1 DEF ContentInv, AllBehind, Items
  <2> QED BY <2>1, <1>2, <1>3 DEF Behind, Gone
<1>10. AllBehind'
  <2>1. ASSUME NEW c \in Range(Stream) \cup lost PROVE Behind(c)'
    <3>1. c \in Items /\ c.by \in Threads /\ Behind(c)
      BY <1>9
    <3> QED BY <3>1, <1>2, <1>7, <1>8 DEF Behind
  <2>2. ASSUME NEW c \in Items, c = Item(t) PROVE Behind(c)'
    <3>1. n'[t] = n[t] /\ c.by = t /\ c.call = n[t] /\ c.at = msg[t]
      BY <2>2, <1>2, <1>4
    <3> QED BY <3>1, <1>3, <1>7 DEF Behind
  <2>3. \A c \in Range(Stream') \cup lost' : c \in Range(Stream) \cup lost \/ (c \in Items /\ c = Item(t))
    BY <1>4, <1>5
  <2> QED BY <2>1, <2>2, <2>3 DEF AllBehind
<1>11. Exact'
  <2> SUFFICES ASSUME NEW u \in Threads, NEW c \in Items, c.by = u, <<u, c.call>> \notin spoilt'
               PROVE  c \in Range(Stream') <=> enabled' /\ IsOwn(u, c)' /\ Gone(u, c)' /\ c \notin lost'
    BY DEF Exact, ExactOf
  <2>1. c \in Range(Stream) <=> enabled /\ IsOwn(u, c) /\ Gone(u, c) /\ c \notin lost
    BY <1>2 DEF ContentInv, Exact, ExactOf
  <2>2. IsOwn(u, c)' <=> IsOwn(u, c)
    BY <1>2 DEF IsOwn
  <2>3. CASE ~(u = t /\ c.call = n[t] /\ c.at = msg[t])
    <3>1. c # Item(t)
      BY <2>3, <1>4
    <3>2. Gone(u, c)' <=> Gone(u, c)
      BY <2>3, <1>7, <1>8
    <3>3. (c \in lost' <=> c \in lost) /\ (c \in Range(Stream') <=> c \in Range(Stream))
      BY <3>1, <1>5
    <3> QED BY <2>1, <2>2, <3>2, <3>3, <1>2
  <2>4. CASE u = t /\ c.call = n[t] /\ c.at = msg[t]
    <3>1. c \notin Range(Stream) /\ c \notin lost
      BY <2>4, <1>9
    <3>2. Gone(u, c)'
      BY <2>4, <1>7
    <3>3. msg[t] <= Length[t] /\ ch[t] = <<t, n[t], msg[t]>>
      BY <2>4, <1>2 DEF ContentInv, MessagesKept, MessageKept, Spoilt
    <3>4. IsOwn(u, c)' <=> c.char = ch[t]
      BY <2>2, <2>4, <3>3, <1>3 DEF IsOwn
    <3>5. c.char = ch[t] <=> c = Item(t)
      <4>1. c = [by |-> c.by, call |-> c.call, at |-> c.at, char |-> c.char]
        BY DEF Items
      <4> QED BY <4>1, <2>4, <1>4 DEF Item
    <3> QED BY <3>1, <3>2, <3>4, <3>5, <1>2, <1>3, <1>5
  <2> QED BY <2>3, <2>4
<1>12. InOrder'
  <2>1. CASE HasRoom /\ fifo' = Append(fifo, Item(t))
    <3>1. /\ Len(Stream) \in Nat /\ DOMAIN Stream = 1..Len(Stream)
          /\ DOMAIN Stream' = 1..(Len(Stream) + 1)
          /\ \A i \in 1..Len(Stream) : Stream'[i] = Stream[i]
          /\ Stream'[Len(Stream) + 1] = Item(t)
      BY <2>1, <1>1, <1>2, <1>4, StreamGrows
    <3> DEFINE L == Len(Stream)
    <3> HIDE DEF L
    <3>2. L \in Nat /\ DOMAIN Stream = 1..L /\ DOMAIN Stream' = 1..(L + 1)
          /\ (\A i \in 1..L : Stream'[i] = Stream[i]) /\ Stream'[L + 1] = Item(t)
      BY <3>1 DEF L
    <3> SUFFICES ASSUME NEW i \in 1..(L + 1), NEW j \in 1..(L + 1), i < j, Stream'[i].by = Stream'[j].by
                 PROVE  Before(Stream'[i], Stream'[j])
      BY <3>2 DEF InOrder, Before
    <3>3. i \in 1..L /\ (j \in 1..L \/ j = L + 1)
      BY <3>2
    <3>4. CASE j \in 1..L
      BY <3>2, <3>3, <3>4 DEF ContentInv, InOrder
    <3>5. CASE j = L + 1
      <4>1. Stream[i] \in Range(Stream) /\ Stream'[i] = Stream[i] /\ Stream[i].by = t
        BY <3>2, <3>3, <3>5, <1>4 DEF Range
      <4>2. Stream[i] \in Items /\ Behind(Stream[i])
        BY <4>1, <1>9
      <4>3. Stream[i].call <= n[t] /\ Stream[i].call \in Nat
            /\ (Stream[i].call = n[t] => Stream[i].at < msg[t])
        BY <4>1, <4>2, <1>2, <1>3 DEF Behind, Gone, Items
      <4> QED BY <4>1, <4>3, <3>2, <3>5, <1>3, <1>4 DEF Before
    <3> QED BY <3>3, <3>4, <3>5
  <2>2. CASE Stream' = Stream
    BY <2>2 DEF ContentInv, InOrder, Before
  <2> QED BY <2>1, <2>2, <1>5
<1> QED BY <1>6, <1>10, <1>11, <1>12

LEMMA ContentStep == ContentInv /\ [Next]_vars => ContentInv'
<1> SUFFICES ASSUME ContentInv, [Next]_vars PROVE ContentInv'
  OBVIOUS
<1>1. Common'
  BY CommonStep DEF ContentInv
<1>2. ASSUME NEW t \in Threads, dbg_print(t) \/ dbg_print_wrapper(t)
      PROVE  MessagesKept' /\ AllBehind' /\ Exact' /\ InOrder'
  BY <1>2, ContentCall
<1>3. ASSUME NEW t \in Threads, Printing(t) PROVE MessagesKept' /\ AllBehind' /\ Exact' /\ InOrder'
  BY <1>3, ContentFormat, ContentReturn, ContentSkip, ContentSend, ContentWrite DEF Printing
<1>4. ASSUME Stream' = Stream, UNCHANGED <<enabled, buffer, pc, wrapped, n, msg, ch, lost, spoilt>>
      PROVE  MessagesKept' /\ AllBehind' /\ Exact' /\ InOrder'
  <2>1. MessagesKept'
    BY <1>4 DEF ContentInv, MessagesKept, MessageKept, Spoilt
  <2>2. AllBehind'
    BY <1>4 DEF ContentInv, AllBehind, Behind, Gone
  <2>3. Exact'
    BY <1>4 DEF ContentInv, Exact, ExactOf, IsOwn, Gone
  <2>4. InOrder'
    BY <1>4 DEF ContentInv, InOrder, Before
  <2> QED BY <2>1, <2>2, <2>3, <2>4
<1>5. CASE Drain
  <2>1. Stream' = Stream
    BY <1>5, DrainKeepsStream DEF ContentInv, Common
  <2> QED BY <2>1, <1>1, <1>4, <1>5 DEF Drain, ContentInv
<1>6. CASE UNCHANGED vars
  <2>1. Stream' = Stream
    BY <1>6 DEF Stream, vars
  <2> QED BY <2>1, <1>1, <1>4, <1>6 DEF vars, ContentInv
<1> QED BY <1>1, <1>2, <1>3, <1>5, <1>6 DEF Next, ContentInv

LEMMA InitContent == Init => ContentInv
<1> SUFFICES ASSUME Init PROVE ContentInv
  OBVIOUS
<1>1. Stream = << >> /\ DOMAIN Stream = {} /\ Range(Stream) = {}
  <2>1. Stream = << >>
    BY DEF Init, Stream
  <2> QED BY <2>1 DEF Range
<1>2. \A t \in Threads : pc[t] = "out" /\ n[t] = 0
  BY DEF Init
<1>3. MessagesKept /\ AllBehind /\ InOrder
  BY <1>1, <1>2 DEF Init, MessagesKept, MessageKept, AllBehind, InOrder
<1>4. Exact
  BY <1>1, <1>2 DEF Exact, ExactOf, IsOwn
<1> QED BY <1>3, <1>4, InitCommon DEF ContentInv

\* What the probe receives of a thread is what that thread printed, each
\* character once and in order, except for those lost at a full port and the
\* messages in whose buffer another thread formatted: only the tcpip thread's.
THEOREM StreamExactHolds == Spec => []StreamExact
<1>1. ContentInv => StreamExact
  <2> SUFFICES ASSUME ContentInv PROVE StreamExact
    OBVIOUS
  <2>1. Range(Stream) \subseteq Items
    BY StreamTyped DEF ContentInv
  <2>2. ASSUME NEW t \in Threads
        PROVE  {c \in Range(Stream) : c.by = t /\ <<t, c.call>> \notin spoilt}
                   = IF enabled THEN Passed(t) \ lost ELSE {}
    <3>1. \A c : c \in Own(t) <=> c \in Items /\ c.by = t /\ IsOwn(t, c)
      <4>1. ASSUME NEW c \in Own(t) PROVE c \in Items /\ c.by = t /\ IsOwn(t, c)
        <5>1. PICK m \in 1..n[t], k \in 1..Length[t] :
                  c = [by |-> t, call |-> m, at |-> k, char |-> <<t, m, k>>]
          BY <4>1 DEF Own
        <5>2. m \in 1..MaxMessages[t] /\ k \in Places
          BY Sizes DEF ContentInv, Common, Types, Places
        <5>3. <<t, m, k>> \in Chars
          BY <5>2, CharIs
        <5> QED BY <5>1, <5>2, <5>3, Sizes DEF Items, IsOwn
      <4>2. ASSUME NEW c \in Items, c.by = t, IsOwn(t, c) PROVE c \in Own(t)
        <5>1. c = [by |-> c.by, call |-> c.call, at |-> c.at, char |-> c.char]
          BY DEF Items
        <5>2. c.call \in 1..n[t] /\ c.at \in 1..Length[t] /\ c.char = <<t, c.call, c.at>>
          BY <4>2, Sizes DEF IsOwn, Items, Places
        <5> QED BY <5>1, <5>2, <4>2 DEF Own
      <4> QED BY <4>1, <4>2
    <3>2. \A c : c \in Passed(t)
              <=> c \in Items /\ c.by = t /\ IsOwn(t, c) /\ <<t, c.call>> \notin spoilt /\ Gone(t, c)
      BY <3>1 DEF Passed, Gone
    <3>3. \A c \in Items : c.by = t /\ <<t, c.call>> \notin spoilt =>
              (c \in Range(Stream) <=> enabled /\ IsOwn(t, c) /\ Gone(t, c) /\ c \notin lost)
      BY DEF ContentInv, Exact, ExactOf
    <3>4. \A c : c \in {d \in Range(Stream) : d.by = t /\ <<t, d.call>> \notin spoilt}
                 <=> enabled /\ c \in Passed(t) /\ c \notin lost
      BY <2>1, <3>2, <3>3
    <3> QED BY <3>4
  <2>3. \A p \in spoilt : p[1] = Tcpip
    BY DEF ContentInv, Common, Types
  <2> QED BY <2>2, <2>3 DEF StreamExact, ContentInv, InOrder
<1> QED BY <1>1, InitContent, ContentStep, PTL DEF Spec

-----------------------------------------------------------------------------
(* Priorities: who may come between two characters of one message.          *)

LEMMA OpenWrite ==
    ASSUME SplitInv, NEW t \in Threads, Write(t)
    PROVE  OpenMessages' /\ SplitFromAbove'
<1>1. /\ Common /\ Types /\ Range(Stream) \subseteq Items /\ Item(t) \in Items /\ Item(t).by = t
      /\ Item(t).call = n[t] /\ pc[t] = "write" /\ n' = n /\ out' = out /\ MayRun(t)
  BY StreamTyped, ItemTyped DEF SplitInv, Common, Write, At, Item
<1>2. \A u \in Threads : InCall(u)' => InCall(u)
  BY <1>1 DEF Types, Write, Goto, InCall
<1>3. CASE ~HasRoom
  <2>1. Stream' = Stream
    BY <1>3 DEF Write, Stream
  <2> QED BY <2>1, <1>1, <1>2 DEF SplitInv, OpenMessages, SplitFromAbove
<1>4. CASE HasRoom
  <2>1. fifo' = Append(fifo, Item(t))
    BY <1>4 DEF Write
  <2>2. /\ Len(Stream) \in Nat /\ DOMAIN Stream = 1..Len(Stream)
        /\ DOMAIN Stream' = 1..(Len(Stream) + 1)
        /\ \A i \in 1..Len(Stream) : Stream'[i] = Stream[i]
        /\ Stream'[Len(Stream) + 1] = Item(t)
    BY <2>1, <1>1, StreamGrows
  <2> DEFINE L == Len(Stream)
  <2> HIDE DEF L
  <2>3. L \in Nat /\ DOMAIN Stream = 1..L /\ DOMAIN Stream' = 1..(L + 1)
        /\ (\A i \in 1..L : Stream'[i] = Stream[i]) /\ Stream'[L + 1] = Item(t)
    BY <2>2 DEF L
  <2>4. OpenMessages'
    <3> SUFFICES ASSUME NEW u \in Threads, NEW i \in 1..(L + 1), NEW l \in 1..(L + 1),
                        InCall(u), Stream'[i].by = u, Stream'[i].call = n[u], i < l
                 PROVE  Stream'[l].by \in {u} \cup Above(u)
      BY <2>3, <1>1, <1>2 DEF OpenMessages
    <3>1. i \in 1..L /\ (l \in 1..L \/ l = L + 1)
      BY <2>3
    <3>2. CASE l \in 1..L
      BY <2>3, <3>1, <3>2 DEF SplitInv, OpenMessages
    <3>3. CASE l = L + 1
      <4>1. u \notin Above(t)
        BY <1>1 DEF MayRun, InCall
      <4>2. t \in {u} \cup Above(u)
        BY <4>1, Priorities
      <4> QED BY <4>2, <3>3, <2>3, <1>1
    <3> QED BY <3>1, <3>2, <3>3
  <2>5. SplitFromAbove'
    <3> SUFFICES ASSUME NEW i \in 1..(L + 1), NEW j \in 1..(L + 1), i < j, Stream'[i].by = Stream'[j].by,
                        Stream'[i].call = Stream'[j].call, NEW l \in i..j
                 PROVE  Stream'[l].by \in {Stream'[i].by} \cup Above(Stream'[i].by)
      BY <2>3 DEF SplitFromAbove
    <3>1. i \in 1..L /\ l \in 1..(L + 1) /\ (j \in 1..L \/ j = L + 1) /\ (l = i \/ i < l)
      BY <2>3
    <3>2. CASE j \in 1..L
      <4>1. l \in 1..L
        BY <3>2, <2>3
      <4> QED BY <4>1, <2>3, <3>1, <3>2 DEF SplitInv, SplitFromAbove
    <3>3. CASE j = L + 1
      <4>1. Stream[i].by = t /\ Stream[i].call = n[t] /\ Stream'[i] = Stream[i]
        BY <3>1, <3>3, <2>3, <1>1
      <4>2. InCall(t)
        BY <1>1 DEF InCall
      <4>3. CASE l = i \/ l = L + 1
        BY <4>1, <4>3, <2>3, <1>1
      <4>4. CASE i < l /\ l \in 1..L
        BY <4>1, <4>2, <4>4, <2>3, <3>1 DEF SplitInv, OpenMessages
      <4> QED BY <4>3, <4>4, <3>1, <2>3
    <3> QED BY <3>1, <3>2, <3>3
  <2> QED BY <2>4, <2>5
<1> QED BY <1>3, <1>4

LEMMA OpenStep == ContentInv /\ SplitInv /\ [Next]_vars => SplitInv'
<1> SUFFICES ASSUME ContentInv, SplitInv, [Next]_vars PROVE SplitInv'
  OBVIOUS
<1>1. Common' /\ AllBehind'
  BY ContentStep DEF ContentInv
<1>2. Common /\ Types /\ Range(Stream) \subseteq Items
  BY StreamTyped DEF SplitInv, Common
<1>3. ASSUME Stream' = Stream, \A u \in Threads : InCall(u)' => InCall(u) /\ n'[u] = n[u]
      PROVE  OpenMessages' /\ SplitFromAbove'
  <2> QED BY <1>3 DEF SplitInv, OpenMessages, SplitFromAbove
<1>4. ASSUME NEW t \in Threads, dbg_print(t) \/ dbg_print_wrapper(t)
      PROVE  OpenMessages' /\ SplitFromAbove'
  <2>1. Stream' = Stream /\ n'[t] = n[t] + 1 /\ n[t] \in Nat
        /\ \A u \in Threads \ {t} : n'[u] = n[u] /\ pc'[u] = pc[u]
    BY <1>4, <1>2 DEF dbg_print, dbg_print_wrapper, Call, Goto, Stream, Types
  <2>2. \A i \in DOMAIN Stream : Stream[i].by = t => Stream[i].call # n'[t]
    <3> SUFFICES ASSUME NEW i \in DOMAIN Stream, Stream[i].by = t PROVE Stream[i].call # n'[t]
      OBVIOUS
    <3>1. Behind(Stream[i])
      BY DEF SplitInv, AllBehind, Range
    <3> QED BY <3>1, <2>1 DEF Behind
  <2>3. OpenMessages'
    BY <2>1, <2>2 DEF SplitInv, OpenMessages, InCall
  <2>4. SplitFromAbove'
    BY <2>1 DEF SplitInv, SplitFromAbove
  <2> QED BY <2>3, <2>4
<1>5. ASSUME NEW t \in Threads, Format(t) \/ Return(t) \/ Skip(t) \/ SendChar(t) \/ Poll(t)
      PROVE  OpenMessages' /\ SplitFromAbove'
  <2>1. Stream' = Stream
    BY <1>5 DEF Format, Return, Skip, SendChar, Poll, Stream
  <2>2. \A u \in Threads : InCall(u)' => InCall(u) /\ n'[u] = n[u]
    BY <1>2, <1>5 DEF Format, Return, Skip, SendChar, Poll, At, Goto, InCall, Types
  <2> QED BY <2>1, <2>2, <1>3
<1>6. CASE Drain
  <2>1. Stream' = Stream
    BY <1>2, <1>6, DrainKeepsStream
  <2>2. \A u \in Threads : InCall(u)' => InCall(u) /\ n'[u] = n[u]
    BY <1>6 DEF Drain, InCall
  <2> QED BY <2>1, <2>2, <1>1, <1>3 DEF SplitInv
<1>7. CASE UNCHANGED vars
  <2>1. Stream' = Stream
    BY <1>7 DEF vars, Stream
  <2>2. \A u \in Threads : InCall(u)' => InCall(u) /\ n'[u] = n[u]
    BY <1>7 DEF vars, InCall
  <2> QED BY <2>1, <2>2, <1>1, <1>3 DEF SplitInv
<1> QED BY <1>1, <1>4, <1>5, <1>6, <1>7, OpenWrite DEF Next, Printing, SplitInv

\* What lies between two characters of one message is of that message, or of
\* a thread of higher priority.
THEOREM SplitFromAboveHolds == Spec => []SplitFromAbove
<1>1. Init => SplitInv
  <2> SUFFICES ASSUME Init PROVE SplitInv
    OBVIOUS
  <2>1. DOMAIN Stream = {}
    BY DEF Init, Stream
  <2> QED BY <2>1, InitContent DEF ContentInv, SplitInv, OpenMessages, SplitFromAbove
<1>2. SplitInv => SplitFromAbove
  BY DEF SplitInv
<1> QED BY <1>1, <1>2, InitContent, ContentStep, OpenStep, PTL DEF Spec
=============================================================================

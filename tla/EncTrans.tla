------------------------------ MODULE EncTrans ------------------------------
(***************************************************************************)
(* enc28j60_trans.c and low_level_input: frames between lwIP's pbufs and   *)
(* the chip's buffer memory.  One step is one call of enc28j60.c, atomic   *)
(* by EncDriver's CallsAreAtomic; between two calls the other thread and   *)
(* the chip may do anything.                                               *)
(*                                                                         *)
(* The memory, the ring and the frames are small.  A pointer still takes   *)
(* two bytes of a header: Radix is what one byte of it holds, 256 in the   *)
(* chip, less here so that both bytes matter in a small ring.              *)
(***************************************************************************)
EXTENDS Naturals, Sequences, FiniteSets

CONSTANTS
  Lwip, Tcpip,
  Senders,         \* the threads that transmit
  RxStop,          \* RXSTOP_INIT; RXSTART_INIT is 0
  MemTop,          \* the last cell of the buffer memory
  Radix,
  RxSizes, MaxRx,  \* lengths of arriving frames, how many may arrive
  TxSizes, MaxTx,  \* tot_len of transmitted pbufs, how many are sent
  Apart            \* a behaviour receives or transmits, never both

Threads == {Lwip, Tcpip}

ASSUME TransAssumption ==
    /\ Lwip # Tcpip /\ Senders \subseteq Threads
    /\ RxStop \in Nat /\ RxStop % 2 = 1    \* errata 14 and 5 of the chip
    /\ MemTop \in Nat /\ MemTop > RxStop
    /\ Radix \in 2..256 /\ MemTop < Radix * Radix
    /\ RxSizes \subseteq Nat \ {0} /\ TxSizes \subseteq Nat \ {0}
    /\ \A n \in RxSizes : n < Radix * (Radix \div 2)    \* 15 bits, and MAMXFL has fewer
    /\ \A n \in TxSizes : RxStop + n + 7 <= MemTop     \* TransmitFits, in OptionProofs
    /\ MaxRx \in Nat /\ MaxTx \in Nat /\ Apart \in BOOLEAN

VARIABLES
  (* the chip *)
  mem, erdpt, ewrpt, etxst, etxnd, erxrdpt,
  erxwrpt,              \* where it writes the next frame
  epktcnt, txrts,
  (* enc28j60_trans.c *)
  next_frame_location,
  site,                 \* the call each thread makes next
  header, length, buf,  \* of enc_read_received_pbuf; buf is << >> for NULL
  pkt, left,            \* the pbuf being sent, how much is still to write
  last,                 \* the thread that made the last call
  (* history *)
  queue, place,         \* frames accepted and not yet dealt with, where each begins
  delivered, wire,      \* handed to netif->input, put on the wire
  arrived, asked,       \* how many frames came in, the frames to be sent
  clobbered             \* a byte of an unread frame was overwritten

rxPtrs  == <<erdpt, erxrdpt, erxwrpt>>
txPtrs  == <<ewrpt, etxst, etxnd>>
rxLocal == <<next_frame_location, header, length, buf>>
txLocal == <<pkt, left>>
rxPast  == <<queue, place, delivered, arrived>>
txPast  == <<wire, asked, clobbered>>
vars == <<mem, rxPtrs, txPtrs, epktcnt, txrts, rxLocal, site, txLocal, rxPast, txPast, last>>

rxbufsize == RxStop

-----------------------------------------------------------------------------
(* Memory and pointers.                                                     *)

\* The i-th cell after p of a buffer read: inside the ring it wraps at ERXND.
ReadCell(p, i) == IF p <= RxStop THEN (p + i) % (RxStop + 1) ELSE (p + i) % (MemTop + 1)
WriteCell(p, i) == (p + i) % (MemTop + 1)

Bytes(p, n) == [i \in 1..n |-> mem[ReadCell(p, i - 1)]]
Write(m, p, data) ==
    [c \in DOMAIN m |->
        IF \E i \in 1..Len(data) : WriteCell(p, i - 1) = c
        THEN data[CHOOSE i \in 1..Len(data) : WriteCell(p, i - 1) = c] ELSE m[c]]

\* slip: the status vector taken for the length
LengthFromStatus(h) == h[5] + Radix * (h[6] % (Radix \div 2))
\* slip: the high byte of the next pointer left out
NextLowByteOnly(h) == h[1]

\* header[2] | ((header[3] & 0x7f) << 8) and header[0] + (header[1] << 8).
LengthOf(h) == h[3] + Radix * (h[4] % (Radix \div 2))
NextOf(h)   == h[1] + Radix * h[2]

-----------------------------------------------------------------------------
(* The chip receives.  It writes a header of next pointer, length and       *)
(* status, then the frame, from ERXWRPT on, even-aligned, and never reaches *)
(* ERXRDPT; without room it drops the frame.                                *)

Even(n)  == n + (n % 2)
Space(n) == Even(6 + n)
FreeSpace == CASE erxwrpt > erxrdpt -> RxStop - (erxwrpt - erxrdpt)
               [] erxwrpt = erxrdpt -> RxStop
               [] erxwrpt < erxrdpt -> erxrdpt - erxwrpt - 1

RxFrame(id, n) == [i \in 1..n |-> (10 * id + i) % 256]
HeaderFor(next, n) == <<next % Radix, next \div Radix, n % Radix, n \div Radix, 1, 1>>

MayArrive == arrived < MaxRx /\ (Apart => asked = << >>)

FrameArrives ==
    /\ MayArrive
    /\ \E n \in RxSizes :
        LET next == ReadCell(erxwrpt, Space(n))
            data == HeaderFor(next, n) \o RxFrame(arrived + 1, n)
        IN  /\ Space(n) <= FreeSpace
            /\ mem' = [c \in DOMAIN mem |->
                   LET hits == {i \in 1..Len(data) : ReadCell(erxwrpt, i - 1) = c}
                   IN  IF hits = {} THEN mem[c] ELSE data[CHOOSE i \in hits : TRUE]]
            /\ erxwrpt' = next
            /\ queue' = Append(queue, RxFrame(arrived + 1, n))
            /\ place' = Append(place, erxwrpt)
    /\ arrived' = arrived + 1
    /\ epktcnt' = epktcnt + 1
    /\ UNCHANGED <<erdpt, erxrdpt, txPtrs, txrts, rxLocal, site, txLocal, delivered, txPast, last>>

FrameDropped ==
    /\ MayArrive
    /\ \E n \in RxSizes : Space(n) > FreeSpace
    /\ arrived' = arrived + 1
    /\ UNCHANGED <<mem, rxPtrs, txPtrs, epktcnt, txrts, rxLocal, site, txLocal,
                   queue, place, delivered, txPast, last>>

\* The chip sends mem[ETXST+1 .. ETXND] under the control byte at ETXST and
\* writes a 7-byte status vector after it.
Transmitted ==
    /\ txrts
    /\ txrts' = FALSE
    /\ wire' = Append(wire, [control |-> mem[etxst],
                             data |-> [i \in 1..(etxnd - etxst) |-> mem[WriteCell(etxst, i)]]])
    /\ mem' = Write(mem, etxnd + 1, <<9, 9, 9, 9, 9, 9, 9>>)
    /\ UNCHANGED <<rxPtrs, txPtrs, epktcnt, rxLocal, site, txLocal, rxPast, asked, clobbered, last>>

-----------------------------------------------------------------------------
(* The lwip thread has the higher priority and blocks only at SPIMutex, for *)
(* an exchange or asleep.  Unless it sleeps between polls or polls TXRTS,   *)
(* the tcpip thread makes at most one call between two of its calls: the    *)
(* one it was already waiting for the mutex with.                           *)
MayRun(t) == t = Lwip \/ site[Lwip] \in {"poll", "spin"} \/ last = Lwip
Calls(t)  == MayRun(t) /\ last' = t

(* low_level_input and enc_read_received_pbuf, in the lwip thread.          *)

Goto(t, s) == site' = [site EXCEPT ![t] = s]

Init ==
    /\ mem = [c \in 0..MemTop |-> 0]
    /\ erdpt = 0 /\ ewrpt = 0 /\ etxst = RxStop + 1 /\ etxnd = MemTop
    /\ erxrdpt = 0 /\ erxwrpt = 0 /\ epktcnt = 0 /\ txrts = FALSE
    /\ next_frame_location = 0 /\ header = << >> /\ length = 0 /\ buf = << >>
    /\ site = [t \in Threads |-> IF t = Lwip THEN "poll" ELSE "idle"]
    /\ pkt = [t \in Threads |-> << >>] /\ left = [t \in Threads |-> 0]
    /\ queue = << >> /\ place = << >> /\ delivered = << >> /\ wire = << >>
    /\ arrived = 0 /\ asked = << >> /\ clobbered = FALSE
    /\ last = Lwip

\* EPKTCNT is read, and not zero.
PacketCounted ==
    /\ Calls(Lwip)
    /\ site[Lwip] = "poll" /\ epktcnt # 0
    /\ Goto(Lwip, "start")
    /\ UNCHANGED <<mem, rxPtrs, txPtrs, epktcnt, txrts, rxLocal, txLocal, rxPast, txPast>>

\* EPKTCNT is zero: sleep, and poll again.
NoPacket ==
    /\ site[Lwip] = "poll" /\ epktcnt = 0
    /\ UNCHANGED vars

\* slip: the header read from wherever ERDPT stands
ReceiveStartAnywhere ==
    /\ Calls(Lwip)
    /\ site[Lwip] = "start"
    /\ header' = Bytes(erdpt, 6)
    /\ length' = LengthOf(header')
    /\ erdpt' = ReadCell(erdpt, 6)
    /\ Goto(Lwip, "alloc")
    /\ UNCHANGED <<mem, erxrdpt, erxwrpt, txPtrs, epktcnt, txrts, next_frame_location, buf,
                   txLocal, rxPast, txPast>>

ReceiveStart ==
    /\ Calls(Lwip)
    /\ site[Lwip] = "start"
    /\ header' = Bytes(next_frame_location, 6)
    /\ length' = LengthOf(header')
    /\ erdpt' = ReadCell(next_frame_location, 6)
    /\ Goto(Lwip, "alloc")
    /\ UNCHANGED <<mem, erxrdpt, erxwrpt, txPtrs, epktcnt, txrts, next_frame_location, buf,
                   txLocal, rxPast, txPast>>

\* pbuf_alloc succeeded; the payload is read from wherever ERDPT stands.
ReadPayload ==
    /\ Calls(Lwip)
    /\ site[Lwip] = "alloc"
    /\ buf' = Bytes(erdpt, length)
    /\ erdpt' = ReadCell(erdpt, length)
    /\ Goto(Lwip, "end")
    /\ UNCHANGED <<mem, erxrdpt, erxwrpt, txPtrs, epktcnt, txrts, next_frame_location, header,
                   length, txLocal, rxPast, txPast>>

\* slip: without a pbuf, the frame is counted off but its memory not released
AllocFailsUnreleased ==
    /\ site[Lwip] = "alloc"
    /\ Goto(Lwip, "decrement")
    /\ UNCHANGED <<mem, rxPtrs, txPtrs, epktcnt, txrts, rxLocal, txLocal, rxPast, txPast, last>>

AllocFails ==
    /\ site[Lwip] = "alloc"
    /\ Goto(Lwip, "end")
    /\ UNCHANGED <<mem, rxPtrs, txPtrs, epktcnt, txrts, rxLocal, txLocal, rxPast, txPast, last>>

\* slip: the errata workaround left out; the wrap left out
ReleaseToNext(next) == next
ReleaseBefore(next) == next - 1

\* receive_end: ERXND is RxStop, read in a call of its own that changes nothing.
ReleasePointer(next) == IF next = 0 THEN RxStop ELSE next - 1

ReleaseFrame ==
    /\ Calls(Lwip)
    /\ site[Lwip] = "end"
    /\ next_frame_location' = NextOf(header)
    /\ erxrdpt' = ReleasePointer(NextOf(header))
    /\ Goto(Lwip, "decrement")
    /\ UNCHANGED <<mem, erdpt, erxwrpt, txPtrs, epktcnt, txrts, header, length, buf, txLocal,
                   rxPast, txPast>>

\* slip: PKTDEC only for a frame that is delivered
DecrementDeliveredOnly ==
    /\ Calls(Lwip)
    /\ site[Lwip] = "decrement"
    /\ header' = << >> /\ length' = 0
    /\ IF buf = << >>
       THEN /\ queue' = Tail(queue) /\ place' = Tail(place)
            /\ Goto(Lwip, "poll")
            /\ UNCHANGED epktcnt
       ELSE /\ Goto(Lwip, "input")
            /\ epktcnt' = epktcnt - 1
            /\ UNCHANGED <<queue, place>>
    /\ UNCHANGED <<mem, rxPtrs, txPtrs, txrts, next_frame_location, buf, txLocal, delivered,
                   arrived, txPast>>

\* PKTDEC; a frame without a pbuf ends here, one with goes to lwIP.
Decrement ==
    /\ Calls(Lwip)
    /\ site[Lwip] = "decrement"
    /\ epktcnt' = IF epktcnt = 0 THEN 0 ELSE epktcnt - 1
    /\ header' = << >> /\ length' = 0
    /\ IF buf = << >>
       THEN /\ queue' = Tail(queue) /\ place' = Tail(place)
            /\ Goto(Lwip, "poll")
       ELSE /\ Goto(Lwip, "input")
            /\ UNCHANGED <<queue, place>>
    /\ UNCHANGED <<mem, rxPtrs, txPtrs, txrts, next_frame_location, buf, txLocal, delivered,
                   arrived, txPast>>

\* netif->input(buf, netif).
Input ==
    /\ site[Lwip] = "input"
    /\ delivered' = Append(delivered, buf)
    /\ queue' = Tail(queue) /\ place' = Tail(place)
    /\ buf' = << >>
    /\ Goto(Lwip, "handled")
    /\ UNCHANGED <<mem, rxPtrs, txPtrs, epktcnt, txrts, next_frame_location, header, length,
                   txLocal, arrived, txPast, last>>

\* Input handled, or everything it led to is sent: sleep and poll again.
BackToPolling ==
    /\ site[Lwip] = "handled"
    /\ Goto(Lwip, "poll")
    /\ UNCHANGED <<mem, rxPtrs, txPtrs, epktcnt, txrts, rxLocal, txLocal, rxPast, txPast, last>>

Receive == \/ PacketCounted \/ NoPacket \/ ReceiveStart \/ ReadPayload \/ AllocFails
           \/ ReleaseFrame \/ Decrement \/ Input \/ BackToPolling

-----------------------------------------------------------------------------
(* enc_transmit_pbuf, in either thread.                                     *)

TxFrame(id, n) == [i \in 1..n |-> (100 + 10 * id + i) % 256]

UnreadCells ==
    LET used == (erxwrpt + RxStop + 1 - next_frame_location) % (RxStop + 1)
    IN  {ReadCell(next_frame_location, i) : i \in 0..(used - 1)}

\* The lwip thread sends when lwIP answers an input, the tcpip thread when a
\* timer of lwIP's fires.
TransmitStart(t) ==
    /\ Calls(t)
    /\ t \in Senders /\ Len(asked) < MaxTx /\ (Apart => arrived = 0)
    /\ site[t] \in {"handled", "idle"}
    /\ \E n \in TxSizes :
          /\ pkt' = [pkt EXCEPT ![t] = TxFrame(Len(asked) + 1, n)]
          /\ left' = [left EXCEPT ![t] = n]
          /\ asked' = Append(asked, TxFrame(Len(asked) + 1, n))
    /\ etxst' = rxbufsize
    /\ Goto(t, "control")
    /\ UNCHANGED <<mem, rxPtrs, ewrpt, etxnd, epktcnt, txrts, rxLocal, rxPast, wire, clobbered>>

\* slip: the payload written from the control byte's own address on
ControlByteForgotten(t) ==
    /\ Calls(t)
    /\ site[t] = "control"
    /\ ewrpt' = rxbufsize
    /\ Goto(t, "partial")
    /\ UNCHANGED <<mem, rxPtrs, etxst, etxnd, epktcnt, txrts, rxLocal, txLocal, rxPast, txPast>>

ControlByte(t) ==
    /\ Calls(t)
    /\ site[t] = "control"
    /\ mem' = Write(mem, rxbufsize, <<0>>)
    /\ ewrpt' = WriteCell(rxbufsize, 1)
    /\ clobbered' = (clobbered \/ rxbufsize \in UnreadCells)
    /\ Goto(t, "partial")
    /\ UNCHANGED <<rxPtrs, etxst, etxnd, epktcnt, txrts, rxLocal, txLocal, rxPast, wire, asked>>

\* One pbuf of the chain, written from wherever EWRPT stands.
TransmitPartial(t) ==
    /\ Calls(t)
    /\ site[t] = "partial"
    /\ \E n \in 1..left[t] :
        LET done == Len(pkt[t]) - left[t] IN
        /\ mem' = Write(mem, ewrpt, SubSeq(pkt[t], done + 1, done + n))
        /\ ewrpt' = WriteCell(ewrpt, n)
        /\ left' = [left EXCEPT ![t] = left[t] - n]
        /\ Goto(t, IF n = left[t] THEN "txnd" ELSE "partial")
    /\ UNCHANGED <<rxPtrs, etxst, etxnd, epktcnt, txrts, rxLocal, pkt, rxPast, txPast>>

\* slip: ETXND one past the last byte
TransmitEndPastLast(t) ==
    /\ Calls(t)
    /\ site[t] = "txnd"
    /\ etxnd' = rxbufsize + 1 + Len(pkt[t])
    /\ Goto(t, "request")
    /\ UNCHANGED <<mem, rxPtrs, ewrpt, etxst, epktcnt, txrts, rxLocal, txLocal, rxPast, txPast>>

TransmitEnd(t) ==
    /\ Calls(t)
    /\ site[t] = "txnd"
    /\ etxnd' = rxbufsize + 1 + Len(pkt[t]) - 1
    /\ Goto(t, "request")
    /\ UNCHANGED <<mem, rxPtrs, ewrpt, etxst, epktcnt, txrts, rxLocal, txLocal, rxPast, txPast>>

\* slip: TXRTS polled but never set
RequestForgotten(t) ==
    /\ Calls(t)
    /\ site[t] = "request"
    /\ Goto(t, "spin")
    /\ UNCHANGED <<mem, rxPtrs, txPtrs, epktcnt, txrts, rxLocal, txLocal, rxPast, txPast>>

RequestToSend(t) ==
    /\ Calls(t)
    /\ site[t] = "request"
    /\ txrts' = TRUE
    /\ Goto(t, "spin")
    /\ UNCHANGED <<mem, rxPtrs, txPtrs, epktcnt, rxLocal, txLocal, rxPast, txPast>>

\* TXRTS reads zero, and the two buffer reads that follow move ERDPT.
ReadBack(t) ==
    /\ Calls(t)
    /\ site[t] = "spin" /\ ~txrts
    /\ erdpt' = ReadCell(rxbufsize, 45)
    /\ Goto(t, "result")
    /\ UNCHANGED <<mem, erxrdpt, erxwrpt, txPtrs, epktcnt, txrts, rxLocal, txLocal, rxPast, txPast>>

ReadResult(t) ==
    /\ Calls(t)
    /\ site[t] = "result"
    /\ erdpt' = ReadCell(rxbufsize + 1 + Len(pkt[t]), 7)
    /\ pkt' = [pkt EXCEPT ![t] = << >>]
    /\ Goto(t, IF t = Lwip THEN "handled" ELSE "idle")
    /\ UNCHANGED <<mem, erxrdpt, erxwrpt, txPtrs, epktcnt, txrts, rxLocal, left, rxPast, txPast>>

Transmit(t) == \/ TransmitStart(t) \/ ControlByte(t) \/ TransmitPartial(t) \/ TransmitEnd(t)
               \/ RequestToSend(t) \/ ReadBack(t) \/ ReadResult(t)

Next == \/ FrameArrives \/ FrameDropped \/ Transmitted
        \/ Receive
        \/ \E t \in Threads : Transmit(t)

(* lwip_thread polls for ever; that the chip finishes a transmission is     *)
(* assumed, for nothing in the code gives up waiting for it.  Nothing makes *)
(* a thread begin to send.                                                  *)
GoOnSending(t) == site[t] \notin {"handled", "idle"} /\ Transmit(t)
Fairness == /\ WF_vars(Receive)
            /\ WF_vars(Transmitted)
            /\ \A t \in Threads : WF_vars(GoOnSending(t))

Spec == Init /\ [][Next]_vars /\ Fairness

-----------------------------------------------------------------------------
TypeOK ==
    /\ DOMAIN mem = 0..MemTop /\ \A c \in 0..MemTop : mem[c] \in 0..255
    /\ {erdpt, ewrpt, etxst, etxnd, erxrdpt, erxwrpt, next_frame_location} \subseteq 0..MemTop
    /\ epktcnt \in 0..MaxRx /\ arrived \in 0..MaxRx /\ length \in Nat
    /\ Len(queue) <= MaxRx /\ Len(delivered) <= MaxRx
    /\ Len(wire) <= MaxTx /\ Len(asked) <= MaxTx
    /\ \A t \in Threads : left[t] \in 0..Len(pkt[t])
    /\ last \in Threads

\* low_level_input hands lwIP the frame whose turn it is, byte for byte.
InputIntact == site[Lwip] = "input" => buf = Head(queue)

\* ... as long as no transmission has written over an unread byte of the ring:
\* with one thread at work, that overlap is the only way to damage a frame.
IntactUnlessClobbered == ~clobbered => InputIntact

\* Between two frames, the ring from next_frame_location to ERXWRPT is exactly
\* the unread frames: their headers chain from one to the next and no byte of
\* them has been overwritten by the chip, which sees only ERXRDPT.
RingIntact ==
    LET at == Append(place, erxwrpt) IN
    (site[Lwip] \in {"poll", "start", "handled"} /\ ~clobbered) =>
        /\ at[1] = next_frame_location
        /\ \A k \in 1..Len(queue) :
              LET h == Bytes(at[k], 6)
              IN  /\ NextOf(h) = at[k + 1]
                  /\ LengthOf(h) = Len(queue[k])
                  /\ Bytes(ReadCell(at[k], 6), LengthOf(h)) = queue[k]

\* EPKTCNT counts the frames not yet dealt with, whether their pbuf could be
\* allocated or not: PKTDEC is done exactly once for each.
CountMatchesQueue ==
    epktcnt + (IF site[Lwip] = "input" THEN 1 ELSE 0) = Len(queue)

\* The errata workaround: receive_end only ever moves ERXRDPT to an odd address,
\* as long as no transmission has written over a header it computes it from.
\* The even value that encInitRegisters writes is where Init begins.
ReadPointerOdd == [][erxrdpt' # erxrdpt /\ ~clobbered => erxrdpt' % 2 = 1]_vars

\* The receive path implements the queue of frames.
AllFrames == {RxFrame(id, n) : id \in 1..MaxRx, n \in RxSizes}
Receiving == INSTANCE FrameQueue WITH Frames <- AllFrames
ImplementsFrameQueue == Receiving!Spec

\* What goes on the wire is what lwIP asked for, byte for byte, however its
\* pbufs were cut and whatever the chip received meanwhile.
SentWhole ==
    \A i \in 1..Len(wire) : \E j \in 1..Len(asked) : wire[i].data = asked[j]

\* "no overrides" (transmit_start): the chip reads the control byte that was
\* written for this frame.
ControlByteKept == \A i \in 1..Len(wire) : wire[i].control = 0

\* Everything asked for does go on the wire, given a chip that ends
\* what it was told to send.
EverythingSent ==
    \A j \in 1..MaxTx : Len(asked) >= j ~>
        (Len(asked) >= j /\ \E i \in 1..Len(wire) : wire[i].data = asked[j])
=============================================================================

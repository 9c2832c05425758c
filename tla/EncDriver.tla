----------------------------- MODULE EncDriver ------------------------------
(***************************************************************************)
(* Who calls enc28j60.c, and in which order: encInitRegisters, the receive *)
(* path and the transmit path of enc28j60_trans.c, run by the lwip thread, *)
(* and the transmit path again, run by lwIP's tcpip thread when a timer    *)
(* makes it send (ARP, IP reassembly).  Composes EncSpi with these call    *)
(* graphs; packet contents are EncTrans's business.                        *)
(*                                                                         *)
(* site[t] is the call thread t makes next; a call that is under way is    *)
(* in EncSpi's stage[t], and a site's decision on the previous call's      *)
(* value is taken when the site is reached.                                *)
(***************************************************************************)
EXTENDS EncSpi

CONSTANTS
  Lwip,           \* the thread that runs lwip_thread; every other only sends
  NextPointers,   \* what a received header may say about the next frame
  RxLens, TxLens, \* frame lengths
  LowByteFirst    \* the order in which the build evaluates _encReadReg's operands

ASSUME DriverAssumption ==
    /\ Lwip \in Threads
    /\ NextPointers \subseteq 0..RXSTOP_INIT
    /\ RxLens \subseteq 1..1518 /\ TxLens \subseteq 1..1518
    /\ LowByteFirst \in BOOLEAN

VARIABLES
  site,
  k,          \* the step of encInitRegisters made last
  up,         \* netif_add has returned: the interface exists
  next_frame_location,
  header,     \* header[0..1] of the frame being read
  frame,      \* a pbuf was allocated for it
  txlen,      \* tot_len of the frame being sent
  left        \* how much of it transmit_partial still has to write

local      == <<k, up, next_frame_location, header, frame>>
driverVars == <<site, local, txlen, left>>
vars       == <<spiVars, driverVars>>

rxbufsize == RXSTOP_INIT

-----------------------------------------------------------------------------
mac == <<0, 4, 237, 52, 201, 193>>

\* encInitRegisters and the EREVID read after it.  Three steps are repeated or
\* skipped on what the chip answered; NextInit says which.
ClkReady == 2
Drain    == 5
InitCalls ==
    << encWriteOp("SRC", 0, {}),
       encReadRegByte(ESTAT),
       encSetBank(ECON1),
       encWriteOp("BFS", ECON1, {TXRST, RXRST}),
       encReadRegByte(EPKTCNT),
       encWriteOp("BFS", ECON2, {PKTDEC}),
       encWriteOp("BFC", ECON1, {TXRST, RXRST}),
       encWriteReg(ERXST, RXSTART_INIT),
       encWriteReg(ERXRDPT, RXSTART_INIT),
       encWriteReg(ERXND, RXSTOP_INIT),
       encWriteReg(ETXST, TXSTART_INIT),
       encWriteReg(ETXND, TXSTOP_INIT),
       encWriteRegByte(ERXFCON, 139),
       encWriteRegByte(MACON1, 13),
       encWriteRegByte(MACON2, 0),
       encWriteRegByte(MACON3, 51),
       encWritePhy(0, 256),              \* PHCON1_PDPXMD
       encWritePhy(16, 256),             \* PHCON2_HDLDIS
       encWriteReg(MAIPG, 18),
       encWriteRegByte(MABBIPG, 21),
       encWriteReg(MAMXFL, 1518),
       encWriteRegByte(MAADR[5], mac[1]),
       encWriteRegByte(MAADR[4], mac[2]),
       encWriteRegByte(MAADR[3], mac[3]),
       encWriteRegByte(MAADR[2], mac[4]),
       encWriteRegByte(MAADR[1], mac[5]),
       encWriteRegByte(MAADR[0], mac[6]),
       encWriteOp("BFS", ECON1, {RXEN}),
       encReadRegByte(EREVID) >>

\* !x & ESTAT_CLKRDY is (!x) & 1: the wait ends on any non-zero ESTAT.
NextInit(i, value) ==
    CASE i = ClkReady /\ value = 0 -> ClkReady
      [] i = Drain /\ value = 0    -> Drain + 2
      [] i = Drain + 1             -> Drain
      [] OTHER                     -> i + 1

\* Only encSetBank is called from outside without SPIMutex.
TakesMutex(b) == b[1].op # "BANK"

Make(t, b) == Begin(t, b, TakesMutex(b))

\* A site's decision that makes no call.
Skip(t) == stage[t] = "out" /\ UNCHANGED spiVars

At(t, s)  == site[t] = s /\ stage[t] = "out"
Goto(t, s) == site' = [site EXCEPT ![t] = s]
Value(t)  == ret[t][1]

DriverInit ==
    /\ SpiInit
    /\ site = [t \in Threads |-> IF t = Lwip THEN "init" ELSE "idle"]
    /\ k = 0 /\ up = FALSE
    /\ next_frame_location = 0 /\ header = 0 /\ frame = FALSE
    /\ txlen = [t \in Threads |-> 0] /\ left = [t \in Threads |-> 0]

InitRegisters ==
    LET i == NextInit(k, IF k = 0 THEN 0 ELSE Value(Lwip)) IN
    /\ At(Lwip, "init")
    /\ IF i <= Len(InitCalls)
       THEN /\ Make(Lwip, InitCalls[i])
            /\ k' = i
            /\ UNCHANGED <<site, up>>
       ELSE /\ Skip(Lwip)
            /\ Goto(Lwip, "handled")
            /\ up' = TRUE
            /\ UNCHANGED k
    /\ UNCHANGED <<next_frame_location, header, frame, txlen, left>>

-----------------------------------------------------------------------------
(* Receiving: low_level_input and enc_read_received_pbuf.                   *)

\* One pass of lwip_thread's loop.
PollPacketCount ==
    /\ At(Lwip, "poll")
    /\ Make(Lwip, encReadRegByte(EPKTCNT))
    /\ Goto(Lwip, "counted")
    /\ UNCHANGED <<local, txlen, left>>

NoPacket ==
    /\ At(Lwip, "counted") /\ Value(Lwip) = 0
    /\ Skip(Lwip) /\ Goto(Lwip, "poll")
    /\ UNCHANGED <<local, txlen, left>>

ReceiveStart ==
    /\ At(Lwip, "counted") /\ Value(Lwip) # 0
    /\ Make(Lwip, encReadBuf(next_frame_location, 6))
    /\ \E next \in NextPointers : header' = next
    /\ Goto(Lwip, "alloc")
    /\ UNCHANGED <<k, up, next_frame_location, frame, txlen, left>>

\* pbuf_alloc succeeds: read the payload from where the header ended.
ReadPayload ==
    /\ At(Lwip, "alloc")
    /\ \E len \in RxLens : Make(Lwip, encReadBuf(ENC_READLOCATION_ANY, len))
    /\ frame' = TRUE
    /\ Goto(Lwip, "end")
    /\ UNCHANGED <<k, up, next_frame_location, header, txlen, left>>

\* pbuf_alloc fails: discard, but release the frame's memory all the same.
AllocFails ==
    /\ At(Lwip, "alloc")
    /\ Skip(Lwip) /\ Goto(Lwip, "end")
    /\ UNCHANGED <<local, txlen, left>>

\* receive_end.
ReleaseFrame ==
    /\ At(Lwip, "end")
    /\ next_frame_location' = header
    /\ IF header = 0
       THEN /\ Make(Lwip, encReadReg(ERXND, LowByteFirst))
            /\ Goto(Lwip, "rxnd")
       ELSE /\ Make(Lwip, encWriteReg(ERXRDPT, header - 1))
            /\ Goto(Lwip, "bank")
    /\ UNCHANGED <<k, up, header, frame, txlen, left>>

ReleaseToEnd ==
    /\ At(Lwip, "rxnd")
    /\ Make(Lwip, encWriteReg(ERXRDPT, Word(ret[Lwip], LowByteFirst)))
    /\ Goto(Lwip, "bank")
    /\ UNCHANGED <<local, txlen, left>>

\* slip: the bank of EPKTCNT, for the count the commented-out line 39 printed
BankOfPacketCount ==
    /\ At(Lwip, "bank")
    /\ Make(Lwip, encSetBank(EPKTCNT))
    /\ Goto(Lwip, "decrement")
    /\ UNCHANGED <<local, txlen, left>>

BankForDecrement ==
    /\ At(Lwip, "bank")
    /\ Make(Lwip, encSetBank(ECON2))
    /\ Goto(Lwip, "decrement")
    /\ UNCHANGED <<local, txlen, left>>

Decrement ==
    /\ At(Lwip, "decrement")
    /\ Make(Lwip, encWriteOp("BFS", ECON2, {PKTDEC}))
    /\ Goto(Lwip, IF frame THEN "handled" ELSE "poll")
    /\ frame' = FALSE
    /\ UNCHANGED <<k, up, next_frame_location, header, txlen, left>>

\* lwIP has dealt with the input, or with what it had to send, and the loop
\* sleeps and polls again.
BackToPolling ==
    /\ At(Lwip, "handled")
    /\ Skip(Lwip) /\ Goto(Lwip, "poll")
    /\ UNCHANGED <<local, txlen, left>>

-----------------------------------------------------------------------------
(* Transmitting: enc_transmit_pbuf, from either thread.                     *)

TransmitStart(t) ==
    /\ \/ At(t, "handled")
       \/ At(t, "idle") /\ up
    /\ \E n \in TxLens : /\ txlen' = [txlen EXCEPT ![t] = n]
                         /\ left' = [left EXCEPT ![t] = n]
    /\ Make(t, encWriteReg(ETXST, rxbufsize))
    /\ Goto(t, "control")
    /\ UNCHANGED local

ControlByte(t) ==
    /\ At(t, "control")
    /\ Make(t, encWriteBuf(rxbufsize, 1))
    /\ Goto(t, "partial")
    /\ UNCHANGED <<local, txlen, left>>

\* One pbuf of the chain; the last is the one whose len is its tot_len.
TransmitPartial(t) ==
    /\ At(t, "partial")
    /\ \E n \in 1..left[t] :
          /\ Make(t, encWriteBufRaw(n))
          /\ left' = [left EXCEPT ![t] = left[t] - n]
          /\ Goto(t, IF n = left[t] THEN "txnd" ELSE "partial")
    /\ UNCHANGED <<local, txlen>>

TransmitEnd(t) ==
    /\ At(t, "txnd")
    /\ Make(t, encWriteReg(ETXND, rxbufsize + 1 + txlen[t] - 1))
    /\ Goto(t, "request")
    /\ UNCHANGED <<local, txlen, left>>

RequestToSend(t) ==
    /\ At(t, "request")
    /\ Make(t, encWriteOp("BFS", ECON1, {TXRTS}))
    /\ Goto(t, "spin")
    /\ UNCHANGED <<local, txlen, left>>

\* while (encReadRegByte(ECON1) & ECON1_TXRTS);
Spin(t) ==
    /\ At(t, "spin") \/ (At(t, "spun") /\ Value(t) # 0)
    /\ Make(t, encReadRegByte(ECON1))
    /\ Goto(t, "spun")
    /\ UNCHANGED <<local, txlen, left>>

ReadBack(t) ==
    /\ At(t, "spun") /\ Value(t) = 0
    /\ Make(t, encReadBuf(rxbufsize, 45))
    /\ Goto(t, "result")
    /\ UNCHANGED <<local, txlen, left>>

ReadResult(t) ==
    /\ At(t, "result")
    /\ Make(t, encReadBuf(rxbufsize + 1 + txlen[t], 7))
    /\ txlen' = [txlen EXCEPT ![t] = 0]
    /\ Goto(t, IF t = Lwip THEN "handled" ELSE "idle")
    /\ UNCHANGED <<local, left>>

Transmit(t) == \/ TransmitStart(t) \/ ControlByte(t) \/ TransmitPartial(t) \/ TransmitEnd(t)
               \/ RequestToSend(t) \/ Spin(t) \/ ReadBack(t) \/ ReadResult(t)

Receive == \/ PollPacketCount \/ NoPacket \/ ReceiveStart \/ ReadPayload \/ AllocFails
           \/ ReleaseFrame \/ ReleaseToEnd \/ BankForDecrement \/ Decrement \/ BackToPolling

Driver == InitRegisters \/ Receive \/ \E t \in Threads : Transmit(t)
InCall(t) == Run(t) /\ UNCHANGED driverVars

Next == \/ Driver
        \/ \E t \in Threads : InCall(t)
        \/ MiiDone /\ UNCHANGED driverVars

(* A call that is under way goes on: a thread is off the processor only    *)
(* while it sleeps, waits for SPIMutex or waits for an exchange's DMA, and *)
(* the thread of higher priority does one of these over and over (each     *)
(* TXRTS or MISTAT poll is an exchange).  Nothing makes a thread start a   *)
(* call, and nothing makes the chip finish a transmission.                 *)
Fairness == (\A t \in Threads : WF_vars(InCall(t))) /\ WF_vars(MiiDone /\ UNCHANGED driverVars)

Spec == DriverInit /\ [][Next]_vars /\ Fairness

-----------------------------------------------------------------------------
TypeOK ==
    /\ SpiTypeOK
    /\ site \in [Threads -> {"init", "poll", "counted", "alloc", "end", "rxnd", "bank",
                            "decrement", "handled", "idle", "control", "partial", "txnd",
                            "request", "spin", "spun", "result"}]
    /\ k \in 0..Len(InitCalls) /\ up \in BOOLEAN /\ frame \in BOOLEAN
    /\ next_frame_location \in 0..RXSTOP_INIT /\ header \in 0..RXSTOP_INIT
    /\ txlen \in [Threads -> 0..1518] /\ left \in [Threads -> 0..1518]

\* Every exchange on the SPI bus, and every look at rx_buffer after one, is
\* made by the thread that holds SPIMutex.  encSetBank is also called without
\* it (receive_end, encInitRegisters): this says that such a call never finds
\* a bank to switch, whatever the other thread does meanwhile.
BusUnderMutex == \A t \in Threads : stage[t] \in OnBus \cup {"take"} => owner = t

\* Whenever SPIMutex is free the chip has the bank selected that enc_address
\* remembers: the cache is never stale for the next call.
BankCoherent == owner = NoThread => Bank = enc_address

\* An access is sent as the thread wrote it and lands on the register its
\* address names, in the right bank.
RightRegister == \A t \in Threads :
    (stage[t] = "access" /\ filled[t]) =>
        /\ tx_buffer = Intended(t)
        /\ NeedsBank(Here(t)) => Target = Here(t).a % 128

\* Every public call of enc28j60.c is atomic to its callers: 16-bit values are
\* never torn and a buffer transfer starts where its call said.
Atomic == INSTANCE AtomicRegs WITH Calls <- Seq(Access), file <- settled, req <- body, ans <- ret
CallsAreAtomic == Atomic!Spec

\* A call that was begun returns, even while the other thread spins on a
\* transmission that never ends: the mutex is released at every poll and goes
\* to the thread that waits for it.
CallsReturn == \A t \in Threads : stage[t] # "out" ~> stage[t] = "out"
=============================================================================

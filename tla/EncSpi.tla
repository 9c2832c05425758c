------------------------------- MODULE EncSpi -------------------------------
(***************************************************************************)
(* enc28j60.c's access machinery: threads that run driver calls against    *)
(* one chip, over the SPI buffers, the bank cache and SPIMutex they share. *)
(* A step ends wherever another thread may run: at the mutex, and around   *)
(* every SPI exchange, which blocks its thread until the DMA is done.      *)
(* Which calls the threads make is EncDriver's business.                   *)
(***************************************************************************)
EXTENDS EncRegs

CONSTANTS Threads, NoThread, Prio

ASSUME ThreadsAssumption ==
    /\ NoThread \notin Threads
    /\ Prio \in [Threads -> Nat]

VARIABLES
  (* the chip *)
  regs,         \* the registers that keep what was written
  econ1,        \* the bits of ECON1, TXRTS apart
  busy,         \* MISTAT.BUSY
  (* statics of enc28j60.c *)
  owner,        \* the thread that holds SPIMutex
  waiting,      \* the threads in its queue
  enc_address,  \* the bank the driver believes selected, as a number 0..3
  tx_buffer,    \* the command in tx_buffer[0..1]
  rx_buffer,    \* rx_buffer[1] and rx_buffer[2]
  (* each thread's call *)
  stage,        \* where in the call it is
  filled,       \* tx_buffer is written, the exchange is still to come
  locked,       \* the call takes SPIMutex
  body,         \* its accesses
  idx,          \* the one it is at
  got,          \* what they answered so far
  ret,          \* the value its last call returned
  (* history, for the refinement *)
  settled       \* the registers as the last finished call left them

chip    == <<regs, econ1, busy>>
mutex   == <<owner, waiting>>
calls   == <<locked, body>>
spiVars == <<chip, mutex, enc_address, tx_buffer, rx_buffer, stage, filled,
             calls, idx, got, ret, settled>>

\* "bank" tests the cache, "clear" and "select" switch the chip's bank,
\* "access" is the access itself, "take" reads the answer from rx_buffer.
Stages == {"out", "lock", "wait", "bank", "clear", "select", "access", "take", "unlock"}
OnBus  == {"clear", "select", "access"}

\* What tx_buffer[0..1] says: an opcode, an offset and a byte or a bit set.
Command == [op : {"RCR", "WCR", "BFS", "BFC", "SRC", "RBM", "WBM"},
            offset : 0..31, d : 0..255, bits : SUBSET (0..7)]
Cmd(op, offset, d, bits) == [op |-> op, offset |-> offset, d |-> d, bits |-> bits]

SpiTypeOK ==
    /\ regs \in [Stored -> 0..255] /\ econ1 \subseteq 0..7 /\ busy \in BOOLEAN
    /\ owner \in Threads \cup {NoThread} /\ waiting \subseteq Threads
    /\ enc_address \in 0..3
    /\ tx_buffer \in Command /\ rx_buffer \in (0..255) \X (0..255)
    /\ stage \in [Threads -> Stages] /\ filled \in [Threads -> BOOLEAN]
    /\ locked \in [Threads -> BOOLEAN]
    /\ body \in [Threads -> Seq(Access)] /\ idx \in [Threads -> Nat]
    /\ got \in [Threads -> Seq(Nat)] /\ ret \in [Threads -> Seq(Nat)]
    /\ settled \in [Stored -> 0..255]

\* encInit has pulsed the chip's RESET pin and initialised the mutex;
\* enc_address and the buffers are zeroed statics.
SpiInit ==
    /\ regs = ResetRegs /\ econ1 = {} /\ busy = FALSE
    /\ owner = NoThread /\ waiting = {} /\ enc_address = 0
    /\ tx_buffer = Cmd("RCR", 0, 0, {}) /\ rx_buffer = <<0, 0>>
    /\ stage = [t \in Threads |-> "out"] /\ filled = [t \in Threads |-> FALSE]
    /\ locked = [t \in Threads |-> FALSE] /\ body = [t \in Threads |-> << >>]
    /\ idx = [t \in Threads |-> 1]
    /\ got = [t \in Threads |-> << >>] /\ ret = [t \in Threads |-> << >>]
    /\ settled = regs

-----------------------------------------------------------------------------
Here(t) == body[t][idx[t]]
Bank == IF econ1 \cap BSEL = {} THEN 0 ELSE
        IF econ1 \cap BSEL = {0} THEN 1 ELSE
        IF econ1 \cap BSEL = {1} THEN 2 ELSE 3

\* The stage in which the i-th access of b begins, or the end of the call.
EntryStage(b, i) == IF i > Len(b) THEN "unlock"
                    ELSE IF NeedsBank(b[i]) THEN "bank" ELSE "access"

Begin(t, b, takesMutex) ==
    /\ stage[t] = "out" /\ b # << >>
    /\ body' = [body EXCEPT ![t] = b]
    /\ locked' = [locked EXCEPT ![t] = takesMutex]
    /\ idx' = [idx EXCEPT ![t] = 1]
    /\ stage' = [stage EXCEPT ![t] = IF takesMutex THEN "lock" ELSE EntryStage(b, 1)]
    /\ ret' = [ret EXCEPT ![t] = << >>]
    /\ UNCHANGED <<chip, mutex, enc_address, tx_buffer, rx_buffer, filled, got, settled>>

\* slip: SPIMutex taken without waiting for its owner
LockBarging(t) ==
    /\ stage[t] = "lock"
    /\ owner' = t
    /\ stage' = [stage EXCEPT ![t] = EntryStage(body[t], 1)]
    /\ UNCHANGED <<waiting, chip, enc_address, tx_buffer, rx_buffer, filled, calls, idx,
                   got, ret, settled>>

\* chMtxLock(&SPIMutex)
Lock(t) ==
    /\ stage[t] = "lock"
    /\ IF owner = NoThread
       THEN /\ owner' = t
            /\ stage' = [stage EXCEPT ![t] = EntryStage(body[t], 1)]
            /\ UNCHANGED waiting
       ELSE /\ waiting' = waiting \cup {t}
            /\ stage' = [stage EXCEPT ![t] = "wait"]
            /\ UNCHANGED owner
    /\ UNCHANGED <<chip, enc_address, tx_buffer, rx_buffer, filled, calls, idx, got, ret, settled>>

Finish(t) ==
    /\ body' = [body EXCEPT ![t] = << >>]
    /\ locked' = [locked EXCEPT ![t] = FALSE]
    /\ idx' = [idx EXCEPT ![t] = 1]
    /\ got' = [got EXCEPT ![t] = << >>]
    /\ ret' = [ret EXCEPT ![t] = got[t]]
    /\ UNCHANGED <<chip, enc_address, tx_buffer, rx_buffer, filled>>

\* slip: SPIMutex freed, the threads in its queue not woken
UnlockWithoutWakeup(t) ==
    /\ stage[t] = "unlock" /\ locked[t]
    /\ owner' = NoThread
    /\ stage' = [stage EXCEPT ![t] = "out"]
    /\ settled' = regs
    /\ Finish(t)
    /\ UNCHANGED waiting

\* chMtxUnlock(&SPIMutex): the mutex passes straight to the first thread of
\* the queue, which ChibiOS keeps by priority.
Unlock(t) ==
    /\ stage[t] = "unlock" /\ locked[t]
    /\ IF waiting = {}
       THEN /\ owner' = NoThread
            /\ stage' = [stage EXCEPT ![t] = "out"]
            /\ UNCHANGED waiting
       ELSE \E w \in waiting :
            /\ \A u \in waiting : Prio[u] <= Prio[w]
            /\ owner' = w
            /\ waiting' = waiting \ {w}
            /\ stage' = [stage EXCEPT ![t] = "out", ![w] = EntryStage(body[w], 1)]
    /\ settled' = regs
    /\ Finish(t)

\* The end of a call made without the mutex.
Return(t) ==
    /\ stage[t] = "unlock" /\ ~locked[t]
    /\ stage' = [stage EXCEPT ![t] = "out"]
    /\ Finish(t)
    /\ UNCHANGED <<mutex, settled>>

-----------------------------------------------------------------------------
\* The next access, or the end of the call.
Advance(t, answer) ==
    /\ idx' = [idx EXCEPT ![t] = idx[t] + 1]
    /\ got' = [got EXCEPT ![t] = Append(got[t], answer)]
    /\ stage' = [stage EXCEPT ![t] = EntryStage(body[t], idx[t] + 1)]

\* encSetBank, up to its first exchange.
SetBank(t) ==
    LET b == BankOf(Here(t).a) IN
    /\ stage[t] = "bank"
    /\ IF b # enc_address
       THEN /\ enc_address' = b
            /\ stage' = [stage EXCEPT ![t] = "clear"]
            /\ UNCHANGED <<idx, got>>
       ELSE /\ IF Here(t).op = "BANK" THEN Advance(t, 0)
               ELSE /\ stage' = [stage EXCEPT ![t] = "access"]
                    /\ UNCHANGED <<idx, got>>
            /\ UNCHANGED enc_address
    /\ UNCHANGED <<chip, mutex, tx_buffer, rx_buffer, filled, calls, ret, settled>>

\* The command thread t is about to send.
Intended(t) ==
    CASE stage[t] = "clear"  -> Cmd("BFC", Offset(ECON1), 0, BSEL)
      [] stage[t] = "select" -> Cmd("BFS", Offset(ECON1), 0, BankBits(enc_address))
      [] OTHER -> Cmd(IF Here(t).op = "POLL" THEN "RCR" ELSE Here(t).op,
                      Offset(Here(t).a), Here(t).d, Here(t).bits)

\* tx_buffer[0] = ...; tx_buffer[1] = ...; spiSelect
Fill(t) ==
    /\ stage[t] \in OnBus /\ ~filled[t]
    /\ tx_buffer' = Intended(t)
    /\ filled' = [filled EXCEPT ![t] = TRUE]
    /\ UNCHANGED <<chip, mutex, enc_address, rx_buffer, stage, calls, idx, got, ret, settled>>

\* One exchange: the chip executes whatever tx_buffer holds at that moment on
\* whatever bank it has selected; n is the length of a buffer transfer.
VolatileBytes == {0, 8}       \* all that callers tell apart: zero, TXRTS set
MacMii == {a - 128 : a \in {MACON1, MACON2, MACON3, MABBIPG, MAIPG, MAIPG + 1, MAMXFL,
                            MAMXFL + 1, MIREGADR, MIWR, MIWR + 1, MISTAT}}
          \cup {MAADR[i] - 128 : i \in 0..5}

Econ1After(c) ==
    CASE c.op = "SRC" -> {}
      [] c.op = "BFS" /\ c.offset = ECON1 -> econ1 \cup (c.bits \ {TXRTS})
      [] c.op = "BFC" /\ c.offset = ECON1 -> econ1 \ c.bits
      [] OTHER -> econ1

BytesOf(r) == IF r \in Stored THEN {regs[r]}
              ELSE IF r = MISTAT - 128 THEN {IF busy THEN 1 ELSE 0}
              ELSE VolatileBytes

Target == Reg(Bank, tx_buffer.offset)
AsAccess(n) == Acc(tx_buffer.op, 0, tx_buffer.d, tx_buffer.bits, n)

Exchange(t, received) ==
    /\ filled[t]
    /\ filled' = [filled EXCEPT ![t] = FALSE]
    /\ regs' = Effect(regs, AsAccess(Here(t).n), Target)
    /\ econ1' = Econ1After(tx_buffer)
    /\ busy' = (busy \/ (tx_buffer.op = "WCR" /\ Target = MIWR + 1 - 128))
    /\ IF Here(t).op \in {"RBM", "WBM"}         \* spiSend, spiReceive
       THEN UNCHANGED rx_buffer
       ELSE rx_buffer' = <<IF Target \in MacMii THEN 0 ELSE received,
                           IF IsMacMii(Here(t).a) /\ stage[t] = "access" /\ IsRead(Here(t))
                           THEN received ELSE rx_buffer[2]>>
    /\ UNCHANGED <<mutex, enc_address, tx_buffer, calls, ret, settled>>

\* The two exchanges of encSetBank.
SwitchBank(t) ==
    /\ stage[t] \in {"clear", "select"}
    /\ Exchange(t, 0)
    /\ IF stage[t] = "select" /\ Here(t).op = "BANK" THEN Advance(t, 0)
       ELSE /\ stage' = [stage EXCEPT ![t] = IF stage[t] = "clear" THEN "select" ELSE "access"]
            /\ UNCHANGED <<idx, got>>

\* The exchange of the access itself.
Transfer(t) ==
    /\ stage[t] = "access"
    /\ IF IsRead(Here(t))
       THEN /\ \E v \in BytesOf(Target) : Exchange(t, v)
            /\ stage' = [stage EXCEPT ![t] = "take"]
            /\ UNCHANGED <<idx, got>>
       ELSE /\ Exchange(t, 0)
            /\ Advance(t, Answer(regs, AsAccess(Here(t).n), Target))

\* result = rx_buffer[1] or rx_buffer[2]; a poll goes round again.
Take(t) ==
    LET result == IF IsMacMii(Here(t).a) THEN rx_buffer[2] ELSE rx_buffer[1] IN
    /\ stage[t] = "take"
    /\ IF Here(t).op = "POLL" /\ result # 0
       THEN /\ stage' = [stage EXCEPT ![t] = "bank"]
            /\ UNCHANGED <<idx, got>>
       ELSE Advance(t, result)
    /\ UNCHANGED <<chip, mutex, enc_address, tx_buffer, rx_buffer, filled, calls, ret, settled>>

Run(t) == \/ Lock(t) \/ Unlock(t) \/ Return(t) \/ SetBank(t)
          \/ Fill(t) \/ SwitchBank(t) \/ Transfer(t) \/ Take(t)

\* The PHY's serial interface finishes.
MiiDone == /\ busy
           /\ busy' = FALSE
           /\ UNCHANGED <<regs, econ1, mutex, enc_address, tx_buffer, rx_buffer, stage,
                          filled, calls, idx, got, ret, settled>>
=============================================================================

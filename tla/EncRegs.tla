------------------------------ MODULE EncRegs ------------------------------
(***************************************************************************)
(* The ENC28J60's control registers as the driver names them, the calls of *)
(* enc28j60.c as sequences of register accesses, and what the chip does    *)
(* with one access.  No state of its own: EncSpi runs these accesses one   *)
(* SPI transaction at a time, AtomicRegs runs a whole call at once.        *)
(*                                                                         *)
(* A register address carries its offset (bits 0-4), its bank (bits 5-6)   *)
(* and the MAC/MII flag (bit 7); numbers are decimal, the header's         *)
(* hexadecimal value stands beside each.                                   *)
(***************************************************************************)
EXTENDS Integers, Sequences

\* Present in every bank.
ESTAT == 29      \* 0x1D
ECON2 == 30      \* 0x1E
ECON1 == 31      \* 0x1F
\* Bank 0: 16-bit pointers, low byte first.
ERDPT   == 0
EWRPT   == 2
ETXST   == 4
ETXND   == 6
ERXST   == 8
ERXND   == 10
ERXRDPT == 12
\* Bank 1.
ERXFCON == 56    \* 0x18|0x20
EPKTCNT == 57    \* 0x19|0x20
\* Bank 2, MAC and MII.
MACON1   == 192  \* 0x00|0x40|0x80
MACON2   == 193
MACON3   == 194
MABBIPG  == 196
MAIPG    == 198
MAMXFL   == 202
MIREGADR == 212  \* 0x14|0x40|0x80
MIWR     == 214
\* Bank 3.
MAADR == [i \in 0..5 |-> <<225, 224, 227, 226, 229, 228>>[i + 1]]
MISTAT == 234    \* 0x0A|0x60|0x80
EREVID == 114    \* 0x12|0x60

BankOfWithFlag(a) == a \div 32      \* slip: BANK_MASK 0xE0, the MAC/MII flag in it
BankOf(a)   == (a % 128) \div 32    \* (address & BANK_MASK) >> 5
Offset(a)   == a % 32               \* address & ADDR_MASK
IsMacMii(a) == a >= 128             \* address & 0x80
LowByte(d)  == d % 256
HighByte(d) == (d \div 256) % 256
BankBitsSwapped(b) == {n \in {0, 1} : (b = 2 - n) \/ (b = 3)}  \* slip: BSEL0 for BSEL1
BankBits(b) == {n \in {0, 1} : (b = n + 1) \/ (b = 3)}  \* BSEL0, BSEL1

BSEL  == {0, 1}  \* ECON1_BSEL1|ECON1_BSEL0
RXEN  == 2       \* ECON1_RXEN
TXRTS == 3       \* ECON1_TXRTS
RXRST == 6
TXRST == 7
PKTDEC == 6      \* ECON2_PKTDEC
ENC_READLOCATION_ANY == 65535

RXSTART_INIT == 0
RXSTOP_INIT  == 3071   \* 0x0BFF
TXSTART_INIT == 3072   \* 0x0C00
TXSTOP_INIT  == 4607   \* 0x11FF

-----------------------------------------------------------------------------
(* One access: "POLL" is a read repeated while it answers non-zero, "BANK"  *)
(* an encSetBank with no transfer after it, "RBM" and "WBM" the buffer      *)
(* memory commands, which name no register and so select no bank.  d is the *)
(* byte of a write, bits the set of bits of a bit-field operation, n the    *)
(* length of a buffer transfer.                                             *)

Access == [op : {"RCR", "POLL", "WCR", "BFS", "BFC", "SRC", "RBM", "WBM", "BANK"},
           a : 0..255, d : 0..255, bits : SUBSET (0..7), n : Nat]

Acc(op, a, d, bits, n) == [op |-> op, a |-> a, d |-> d, bits |-> bits, n |-> n]
Rcr(a)       == Acc("RCR", a, 0, {}, 0)
Poll(a)      == Acc("POLL", a, 0, {}, 0)
Wcr(a, d)    == Acc("WCR", a, d, {}, 0)
Bfs(a, bits) == Acc("BFS", a, 0, bits, 0)
Bfc(a, bits) == Acc("BFC", a, 0, bits, 0)
Rbm(n)       == Acc("RBM", 0, 0, {}, n)
Wbm(n)       == Acc("WBM", 0, 0, {}, n)

\* slip: _encWriteRegByte forgets encSetBank
NeedsBankButForWrites(acc) == acc.op \notin {"RBM", "WBM", "WCR"}
NeedsBank(acc) == acc.op \notin {"RBM", "WBM"}
IsRead(acc)    == acc.op \in {"RCR", "POLL"}

(* The calls of enc28j60.c.  Each takes SPIMutex, does its accesses in this *)
(* order and releases it; encSetBank called from outside does not.          *)
encSetBank(a)         == <<Acc("BANK", a, 0, {}, 0)>>
encReadRegByte(a)     == <<Rcr(a)>>
encWriteRegByte(a, d) == <<Wcr(a, d)>>
encWriteOp(op, a, bits) == <<Acc(op, a, 0, bits, 0)>>
encWriteReg(a, d)     == <<Wcr(a, LowByte(d)), Wcr(a + 1, HighByte(d))>>

\* C leaves the order of the two operands of + to the compiler.
encReadReg(a, lowFirst) == IF lowFirst THEN <<Rcr(a), Rcr(a + 1)>> ELSE <<Rcr(a + 1), Rcr(a)>>
Word(answers, lowFirst) == IF lowFirst THEN answers[1] + 256 * answers[2]
                           ELSE answers[2] + 256 * answers[1]

encWritePhy(a, d) ==
    <<Poll(MISTAT), Wcr(MIREGADR, a), Wcr(MIWR, LowByte(d)),
      Wcr(MIWR + 1, HighByte(d)), Poll(MISTAT)>>

\* An empty sequence: the call returns before it takes the mutex.
encReadBuf(address, len) ==
    IF len = 0 THEN << >>
    ELSE IF address = ENC_READLOCATION_ANY THEN <<Rbm(len)>>
    ELSE encWriteReg(ERDPT, address) \o <<Rbm(len)>>

encWriteBufRaw(len) == IF len = 0 THEN << >> ELSE <<Wbm(len)>>

encWriteBuf(address, len) ==
    IF len = 0 THEN << >> ELSE encWriteReg(EWRPT, address) \o <<Wbm(len)>>

-----------------------------------------------------------------------------
(* The chip.  Stored names the registers that keep what the driver wrote,   *)
(* by bank and offset; every other register answers a read with a value     *)
(* that the driver cannot predict (packet count, status, transmit request). *)

Pointers == {ERDPT, EWRPT, ETXST, ETXND, ERXST, ERXND, ERXRDPT}
Stored == UNION {{p, p + 1} : p \in Pointers \cup {MAIPG - 128, MAMXFL - 128, MIWR - 128}}
          \cup {ERXFCON}
          \cup {a - 128 : a \in {MACON1, MACON2, MACON3, MABBIPG, MIREGADR}}
          \cup {MAADR[i] - 128 : i \in 0..5}

\* The register that an offset selects while ECON1 holds the bank b.
Reg(b, offset) == IF offset >= 27 THEN offset ELSE 32 * b + offset

Poke(regs, r, v) == [x \in Stored |-> IF x = r THEN v ELSE regs[x]]

Pointer(regs, p) == regs[p] + 256 * regs[p + 1]
PokePointer(regs, p, v) == Poke(Poke(regs, p, LowByte(v)), p + 1, HighByte(v))

\* Reads wrap from ERXND to ERXST, writes at the end of the 8K memory.
AfterRead(regs, n) ==
    LET p == Pointer(regs, ERDPT)
        nd == Pointer(regs, ERXND)
    IN  IF p <= nd /\ nd < p + n
        THEN Pointer(regs, ERXST) + (p + n - nd - 1)
        ELSE (p + n) % 8192
AfterWrite(regs, n) == (Pointer(regs, EWRPT) + n) % 8192

ResetRegs == [r \in Stored |->
    CASE r \in {ERDPT, ERXST, ERXRDPT} -> 250
      [] r \in {ERDPT + 1, ERXST + 1, ERXRDPT + 1} -> 5
      [] r = ERXND -> 255
      [] r = ERXND + 1 -> 31
      [] OTHER -> 0]

\* The registers after an access to register r.
Effect(regs, acc, r) ==
    CASE acc.op = "WCR" -> Poke(regs, r, acc.d)
      [] acc.op = "RBM" -> PokePointer(regs, ERDPT, AfterRead(regs, acc.n))
      [] acc.op = "WBM" -> PokePointer(regs, EWRPT, AfterWrite(regs, acc.n))
      [] acc.op = "SRC" -> ResetRegs
      [] OTHER -> regs

\* What an access reports: the register read, or where in the buffer memory
\* the transfer began.
Answer(regs, acc, r) ==
    CASE acc.op = "RCR" /\ r \in Stored -> regs[r]
      [] acc.op = "RBM" -> Pointer(regs, ERDPT)
      [] acc.op = "WBM" -> Pointer(regs, EWRPT)
      [] OTHER -> 0
Volatile(acc) == acc.op = "RCR" /\ acc.a % 128 \notin Stored
=============================================================================

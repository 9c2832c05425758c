-------------------------- MODULE EncDriverProofs ---------------------------
(***************************************************************************)
(* Proofs about EncDriver, for every set of threads, every priority, every *)
(* frame length and either evaluation order of _encReadReg.                *)
(***************************************************************************)
EXTENDS EncDriver, TLAPS

-----------------------------------------------------------------------------
(* Accesses and calls.                                                      *)

NonEmpty(S) == Seq(S) \ {<< >>}

\* What the driver asks of the chip: the registers of every bank are named
\* with bank 0, the reset command too, a bit-field operation on ECON1 leaves
\* the bank selection to encSetBank, and a read skips the dummy byte wherever
\* the chip sends one.
Good == {x \in Access :
            /\ (x.op = "SRC" \/ Offset(x.a) >= 27) => BankOf(x.a) = 0
            /\ (x.op \in {"BFS", "BFC"} /\ Offset(x.a) = ECON1) => x.bits \cap BSEL = {}
            /\ (x.op = "RCR" /\ ~IsMacMii(x.a)) => x.a \notin MacMii}

\* Accesses that need bank 0, or none.
Low == {x \in Good : BankOf(x.a) = 0}

\* The bank and the offset of an address.
LEMMA BankRange == ASSUME NEW a \in 0..255
                   PROVE  /\ BankOf(a) \in 0..3 /\ Offset(a) \in 0..31
                          /\ a % 128 = 32 * BankOf(a) + Offset(a)
  BY DEF BankOf, Offset

\* No MAC or MII register is in the first two banks, nor is EREVID one.
LEMMA NoDummyByte == \A a \in (0..63) \cup {EREVID} : a \notin MacMii
  <1>1. MacMii \subseteq 64..110 \ {114}
    BY DEF MacMii, MACON1, MACON2, MACON3, MABBIPG, MAIPG, MAMXFL, MIREGADR, MIWR, MISTAT, MAADR
  <1> QED
    BY <1>1 DEF EREVID

\* Reads and writes of a register, and buffer transfers.
LEMMA PlainAccesses ==
    /\ \A a \in 0..255 : Offset(a) < 27 => Poll(a) \in Good /\ (a \notin MacMii => Rcr(a) \in Good)
    /\ \A a, d \in 0..255 : Offset(a) < 27 => Wcr(a, d) \in Good
    /\ \A a \in 0..31 : Rcr(a) \in Low
    /\ \A a \in 0..31, d \in 0..255 : Wcr(a, d) \in Low
    /\ \A n \in Nat : Rbm(n) \in Low /\ Wbm(n) \in Low
  <1> USE DEF Access, Acc, Good, Low
  <1>1. ASSUME NEW a \in 0..255, Offset(a) < 27
        PROVE  Poll(a) \in Good /\ (a \notin MacMii => Rcr(a) \in Good)
    <2>1. Offset(a) \in Nat /\ ~(Offset(a) >= 27)
      BY <1>1 DEF Offset
    <2> QED
      BY <2>1 DEF Rcr, Poll
  <1>2. ASSUME NEW a \in 0..255, NEW d \in 0..255, Offset(a) < 27 PROVE Wcr(a, d) \in Good
    <2>1. Offset(a) \in Nat /\ ~(Offset(a) >= 27)
      BY <1>2 DEF Offset
    <2> QED
      BY <2>1 DEF Wcr
  <1>3. \A a \in 0..31 : BankOf(a) = 0
    BY DEF BankOf
  <1>4. ASSUME NEW a \in 0..31 PROVE Rcr(a) \in Low
    BY <1>3, NoDummyByte DEF Rcr
  <1>5. ASSUME NEW a \in 0..31, NEW d \in 0..255 PROVE Wcr(a, d) \in Low
    BY <1>3 DEF Wcr
  <1>6. ASSUME NEW n \in Nat PROVE Rbm(n) \in Low /\ Wbm(n) \in Low
    BY <1>3 DEF Rbm, Wbm
  <1> QED
    BY <1>1, <1>2, <1>4, <1>5, <1>6

\* A 16-bit value is written as two bytes.
LEMMA ByteTyped == ASSUME NEW d \in Nat PROVE LowByte(d) \in 0..255 /\ HighByte(d) \in 0..255
  BY DEF LowByte, HighByte

\* Calls of one and of two accesses, and calls that go on after others.
LEMMA Calls ==
    ASSUME NEW S
    PROVE  /\ \A x \in S : <<x>> \in NonEmpty(S)
           /\ \A x, y \in S : <<x, y>> \in NonEmpty(S)
           /\ \A s \in NonEmpty(S), x \in S : s \o <<x>> \in NonEmpty(S)
  <1>1. \A x \in S : <<x>> \in NonEmpty(S)
    BY DEF NonEmpty
  <1>2. ASSUME NEW x \in S, NEW y \in S PROVE <<x, y>> \in NonEmpty(S)
    <2>1. <<x, y>> \in Seq(S)
      OBVIOUS
    <2>2. Len(<<x, y>>) = 2 /\ Len(<< >>) = 0
      OBVIOUS
    <2>3. <<x, y>> # << >>
      BY <2>2
    <2> QED
      BY <2>1, <2>3 DEF NonEmpty
  <1>3. ASSUME NEW s \in NonEmpty(S), NEW x \in S PROVE s \o <<x>> \in NonEmpty(S)
    <2>1. s \in Seq(S) /\ <<x>> \in Seq(S)
      BY DEF NonEmpty
    <2>2. s \o <<x>> \in Seq(S) /\ Len(s \o <<x>>) = Len(s) + 1 /\ Len(s) \in Nat
      BY <2>1
    <2>3. s \o <<x>> # << >>
      BY <2>2
    <2> QED
      BY <2>2, <2>3 DEF NonEmpty
  <1> QED
    BY <1>1, <1>2, <1>3

\* What is low is good, calls included.
LEMMA LowIsGood == Low \subseteq Good /\ NonEmpty(Low) \subseteq NonEmpty(Good)
  BY DEF Low, NonEmpty

\* Bit-field operations, a chip reset, and encSetBank called from outside.
LEMMA OtherAccesses ==
    /\ \A op \in {"BFS", "BFC", "SRC"}, a \in 0..31, bits \in SUBSET (2..7) :
          encWriteOp(op, a, bits) \in NonEmpty(Low)
    /\ \A a \in 0..31 : encSetBank(a) \in NonEmpty(Low)
  <1>1. \A a \in 0..31 : BankOf(a) = 0
    BY DEF BankOf
  <1>2. ASSUME NEW op \in {"BFS", "BFC", "SRC"}, NEW a \in 0..31, NEW bits \in SUBSET (2..7)
        PROVE  encWriteOp(op, a, bits) \in NonEmpty(Low)
    <2>1. Acc(op, a, 0, bits, 0) \in Access /\ bits \cap BSEL = {}
      BY DEF Acc, Access, BSEL
    <2>2. Acc(op, a, 0, bits, 0) \in Low
      BY <2>1, <1>1 DEF Acc, Good, Low
    <2> QED
      BY <2>2, Calls DEF encWriteOp
  <1>3. ASSUME NEW a \in 0..31 PROVE encSetBank(a) \in NonEmpty(Low)
    <2>1. Acc("BANK", a, 0, {}, 0) \in Low
      BY <1>1 DEF Acc, Access, Good, Low
    <2> QED
      BY <2>1, Calls DEF encSetBank
  <1> QED
    BY <1>2, <1>3

\* A register's two bytes, in bank 0.
LEMMA LowWords ==
    ASSUME NEW a \in 0..30
    PROVE  /\ encReadReg(a, LowByteFirst) \in NonEmpty(Low)
           /\ \A d \in Nat : encWriteReg(a, d) \in NonEmpty(Low)
  <1>1. a \in 0..31 /\ a + 1 \in 0..31
    OBVIOUS
  <1>2. encReadReg(a, LowByteFirst) \in NonEmpty(Low)
    BY <1>1, PlainAccesses, Calls DEF encReadReg
  <1>3. ASSUME NEW d \in Nat PROVE encWriteReg(a, d) \in NonEmpty(Low)
    <2>1. Wcr(a, LowByte(d)) \in Low /\ Wcr(a + 1, HighByte(d)) \in Low
      BY <1>1, ByteTyped, PlainAccesses
    <2> QED
      BY <2>1, Calls DEF encWriteReg
  <1> QED
    BY <1>2, <1>3

\* The buffer transfers: an address, perhaps, and the data.
LEMMA BufferTransfers ==
    ASSUME NEW n \in Nat \ {0}
    PROVE  /\ \A a \in Nat : /\ encReadBuf(a, n) \in NonEmpty(Low)
                             /\ encWriteBuf(a, n) \in NonEmpty(Low)
           /\ encWriteBufRaw(n) \in NonEmpty(Low)
  <1>1. Rbm(n) \in Low /\ Wbm(n) \in Low /\ n # 0
    BY PlainAccesses
  <1>2. \A a \in Nat : /\ encWriteReg(ERDPT, a) \in NonEmpty(Low)
                       /\ encWriteReg(EWRPT, a) \in NonEmpty(Low)
    BY LowWords DEF ERDPT, EWRPT
  <1>3. ASSUME NEW a \in Nat PROVE encReadBuf(a, n) \in NonEmpty(Low)
    BY <1>1, <1>2, Calls DEF encReadBuf
  <1>4. ASSUME NEW a \in Nat PROVE encWriteBuf(a, n) \in NonEmpty(Low)
    BY <1>1, <1>2, Calls DEF encWriteBuf
  <1>5. encWriteBufRaw(n) \in NonEmpty(Low)
    BY <1>1, Calls DEF encWriteBufRaw
  <1> QED
    BY <1>3, <1>4, <1>5

\* encWritePhy.
LEMMA PhyWrite ==
    ASSUME NEW a \in 0..255, NEW d \in Nat PROVE encWritePhy(a, d) \in NonEmpty(Good)
  <1>1. /\ MISTAT \in 0..255 /\ MIREGADR \in 0..255 /\ MIWR \in 0..255 /\ MIWR + 1 \in 0..255
        /\ Offset(MISTAT) < 27 /\ Offset(MIREGADR) < 27
        /\ Offset(MIWR) < 27 /\ Offset(MIWR + 1) < 27
    BY DEF MISTAT, MIREGADR, MIWR, Offset
  <1>2. Poll(MISTAT) \in Good /\ Wcr(MIREGADR, a) \in Good
    BY <1>1, PlainAccesses
  <1>3. Wcr(MIWR, LowByte(d)) \in Good /\ Wcr(MIWR + 1, HighByte(d)) \in Good
    BY ZenonT(30), <1>1, PlainAccesses, ByteTyped
  <1> DEFINE b == encWritePhy(a, d)
  <1>4. b \in Seq(Good) /\ Len(b) = 5
    BY <1>2, <1>3 DEF encWritePhy
  <1>5. b # << >>
    BY <1>4
  <1> QED
    BY <1>4, <1>5 DEF NonEmpty

\* encWriteReg and encWriteRegByte, of whichever bank.
LEMMA GoodWrites ==
    ASSUME NEW a \in 0..254, Offset(a) < 26
    PROVE  /\ \A d \in Nat : encWriteReg(a, d) \in NonEmpty(Good)
           /\ \A d \in 0..255 : encWriteRegByte(a, d) \in NonEmpty(Good)
           /\ a \notin MacMii => encReadRegByte(a) \in NonEmpty(Good)
  <1>1. a \in 0..255 /\ a + 1 \in 0..255 /\ Offset(a) < 27 /\ Offset(a + 1) < 27
    BY DEF Offset
  <1>2. ASSUME NEW d \in Nat PROVE encWriteReg(a, d) \in NonEmpty(Good)
    <2>1. Wcr(a, LowByte(d)) \in Good /\ Wcr(a + 1, HighByte(d)) \in Good
      BY <1>1, ByteTyped, PlainAccesses
    <2> QED
      BY <2>1, Calls DEF encWriteReg
  <1>3. ASSUME NEW d \in 0..255 PROVE encWriteRegByte(a, d) \in NonEmpty(Good)
    BY <1>1, PlainAccesses, Calls DEF encWriteRegByte
  <1>4. ASSUME a \notin MacMii PROVE encReadRegByte(a) \in NonEmpty(Good)
    BY <1>1, <1>4, PlainAccesses, Calls DEF encReadRegByte
  <1> QED
    BY <1>2, <1>3, <1>4

\* The initialisation: good calls, of bank 0 up to the encSetBank that is
\* made without SPIMutex.
LEMMA InitCallsGood ==
    /\ Len(InitCalls) = 29
    /\ \A i \in 1..29 : InitCalls[i] \in NonEmpty(Good)
    /\ \A i \in 1..3 : InitCalls[i] \in NonEmpty(Low)
    /\ InitCalls[3] = encSetBank(ECON1)
  <1>1. Len(InitCalls) = 29 /\ InitCalls[3] = encSetBank(ECON1)
    BY DEF InitCalls
  <1>2. InitCalls[1] \in NonEmpty(Low) /\ InitCalls[2] \in NonEmpty(Low)
    /\ InitCalls[3] \in NonEmpty(Low)
    <2>1. InitCalls[1] \in NonEmpty(Low)
      BY OtherAccesses DEF InitCalls
    <2>2. InitCalls[2] \in NonEmpty(Low)
      <3>1. InitCalls[2] = encReadRegByte(ESTAT)
        BY DEF InitCalls
      <3>2. ESTAT \in 0..31
        BY DEF ESTAT
      <3>3. Rcr(ESTAT) \in Low
        BY <3>2, PlainAccesses
      <3> QED
        BY <3>1, <3>3, Calls DEF encReadRegByte
    <2>3. InitCalls[3] \in NonEmpty(Low)
      BY OtherAccesses DEF InitCalls, ECON1
    <2> QED
      BY <2>1, <2>2, <2>3
  <1>3. \A i \in {4, 6, 7, 28} : InitCalls[i] \in NonEmpty(Low)
    BY OtherAccesses DEF InitCalls, ECON1, ECON2, TXRST, RXRST, PKTDEC, RXEN
  <1>4. \A i \in {8, 9, 10, 11, 12} : InitCalls[i] \in NonEmpty(Low)
    BY LowWords DEF InitCalls, ERXST, ERXRDPT, ERXND, ETXST, ETXND,
                    RXSTART_INIT, RXSTOP_INIT, TXSTART_INIT, TXSTOP_INIT
  <1>5. \A i \in {5, 13, 14, 15, 16, 29} : InitCalls[i] \in NonEmpty(Good)
    <2>1. /\ InitCalls[5] = encReadRegByte(EPKTCNT) /\ InitCalls[29] = encReadRegByte(EREVID)
          /\ InitCalls[13] = encWriteRegByte(ERXFCON, 139)
          /\ InitCalls[14] = encWriteRegByte(MACON1, 13)
          /\ InitCalls[15] = encWriteRegByte(MACON2, 0)
          /\ InitCalls[16] = encWriteRegByte(MACON3, 51)
      BY DEF InitCalls
    <2>2. \A a \in {EPKTCNT, EREVID, ERXFCON, MACON1, MACON2, MACON3} :
             a \in 0..254 /\ Offset(a) < 26
      BY DEF Offset, EPKTCNT, ERXFCON, MACON1, MACON2, MACON3, EREVID
    <2>3. ASSUME NEW a \in {EPKTCNT, EREVID, ERXFCON, MACON1, MACON2, MACON3}
          PROVE  /\ a \notin MacMii => encReadRegByte(a) \in NonEmpty(Good)
                 /\ \A d \in 0..255 : encWriteRegByte(a, d) \in NonEmpty(Good)
      <3>1. a \in 0..254 /\ Offset(a) < 26
        BY <2>2
      <3> QED
        BY <3>1, GoodWrites
    <2>4. 139 \in 0..255 /\ 13 \in 0..255 /\ 0 \in 0..255 /\ 51 \in 0..255
      OBVIOUS
    <2>5. EPKTCNT \notin MacMii /\ EREVID \notin MacMii
      BY NoDummyByte DEF EPKTCNT
    <2>6. /\ InitCalls[5] \in NonEmpty(Good)
          /\ InitCalls[13] \in NonEmpty(Good)
          /\ InitCalls[14] \in NonEmpty(Good)
          /\ InitCalls[15] \in NonEmpty(Good)
          /\ InitCalls[16] \in NonEmpty(Good)
          /\ InitCalls[29] \in NonEmpty(Good)
      BY <2>1, <2>3, <2>4, <2>5
    <2> QED
      BY <2>6
  <1>6. InitCalls[17] \in NonEmpty(Good) /\ InitCalls[18] \in NonEmpty(Good)
    <2>1. InitCalls[17] = encWritePhy(0, 256) /\ InitCalls[18] = encWritePhy(16, 256)
      BY DEF InitCalls
    <2> QED
      BY <2>1, PhyWrite
  <1>7. \A i \in {19, 20, 21} : InitCalls[i] \in NonEmpty(Good)
    <2>1. /\ InitCalls[19] = encWriteReg(MAIPG, 18) /\ InitCalls[20] = encWriteRegByte(MABBIPG, 21)
          /\ InitCalls[21] = encWriteReg(MAMXFL, 1518)
      BY DEF InitCalls
    <2>2. \A a \in {MAIPG, MABBIPG, MAMXFL} : a \in 0..254 /\ Offset(a) < 26
      BY DEF Offset, MAIPG, MABBIPG, MAMXFL
    <2>3. \A a \in {MAIPG, MABBIPG, MAMXFL} :
             /\ \A d \in Nat : encWriteReg(a, d) \in NonEmpty(Good)
             /\ \A d \in 0..255 : encWriteRegByte(a, d) \in NonEmpty(Good)
      BY ZenonT(30), <2>2, GoodWrites
    <2>4. 18 \in Nat /\ 21 \in 0..255 /\ 1518 \in Nat
      OBVIOUS
    <2> QED
      BY <2>1, <2>3, <2>4
  <1>8. \A i \in {22, 23, 24, 25, 26, 27} : InitCalls[i] \in NonEmpty(Good)
    <2>1. /\ InitCalls[22] = encWriteRegByte(MAADR[5], mac[1])
          /\ InitCalls[23] = encWriteRegByte(MAADR[4], mac[2])
          /\ InitCalls[24] = encWriteRegByte(MAADR[3], mac[3])
          /\ InitCalls[25] = encWriteRegByte(MAADR[2], mac[4])
          /\ InitCalls[26] = encWriteRegByte(MAADR[1], mac[5])
          /\ InitCalls[27] = encWriteRegByte(MAADR[0], mac[6])
      BY DEF InitCalls
    <2>2. /\ MAADR[5] = 228 /\ MAADR[4] = 229 /\ MAADR[3] = 226
          /\ MAADR[2] = 227 /\ MAADR[1] = 224 /\ MAADR[0] = 225
      BY DEF MAADR
    <2>3. \A a \in {224, 225, 226, 227, 228, 229} : a \in 0..254 /\ Offset(a) < 26
      BY DEF Offset
    <2>4. /\ mac[1] \in 0..255 /\ mac[2] \in 0..255 /\ mac[3] \in 0..255
          /\ mac[4] \in 0..255 /\ mac[5] \in 0..255 /\ mac[6] \in 0..255
      BY DEF mac
    <2>5. ASSUME NEW a \in {224, 225, 226, 227, 228, 229}, NEW d \in 0..255
          PROVE  encWriteRegByte(a, d) \in NonEmpty(Good)
      <3>1. a \in 0..254 /\ Offset(a) < 26
        BY <2>3
      <3> QED
        BY <3>1, GoodWrites
    <2>6. /\ InitCalls[22] \in NonEmpty(Good)
          /\ InitCalls[23] \in NonEmpty(Good)
          /\ InitCalls[24] \in NonEmpty(Good)
          /\ InitCalls[25] \in NonEmpty(Good)
          /\ InitCalls[26] \in NonEmpty(Good)
          /\ InitCalls[27] \in NonEmpty(Good)
      BY SMTT(30), <2>1, <2>2, <2>4, <2>5
    <2> QED
      BY <2>6
  <1>9. \A i \in 1..29 : InitCalls[i] \in NonEmpty(Good)
    <2>1. \A i \in 1..29 : \/ i = 1 \/ i = 2 \/ i = 3
                           \/ i \in {4, 6, 7, 28} \/ i \in {8, 9, 10, 11, 12}
                           \/ i \in {5, 13, 14, 15, 16, 29} \/ i = 17 \/ i = 18
                           \/ i \in {19, 20, 21} \/ i \in {22, 23, 24, 25, 26, 27}
      OBVIOUS
    <2> QED
      BY <2>1, <1>2, <1>3, <1>4, <1>5, <1>6, <1>7, <1>8, LowIsGood
  <1>10. \A i \in 1..3 : i = 1 \/ i = 2 \/ i = 3
    OBVIOUS
  <1> QED
    BY <1>1, <1>2, <1>9, <1>10

-----------------------------------------------------------------------------
(* The chip's registers stay bytes.                                         *)

Registers == [Stored -> 0..255]

\* Each pointer is two stored registers.
LEMMA PointersStored == \A p \in Pointers : p \in Stored /\ p + 1 \in Stored
  <1>1. ASSUME NEW p \in Pointers PROVE p \in Stored /\ p + 1 \in Stored
    <2> DEFINE pairs == {{q, q + 1} : q \in Pointers \cup {MAIPG - 128, MAMXFL - 128, MIWR - 128}}
    <2>1. {p, p + 1} \in pairs
      OBVIOUS
    <2>2. p \in UNION pairs /\ p + 1 \in UNION pairs
      BY <2>1
    <2> QED
      BY ZenonT(30), <2>2 DEF Stored
  <1> QED
    BY <1>1

\* A byte written to a register leaves a register file.
LEMMA PokeTyped ==
    ASSUME NEW file \in Registers, NEW r, NEW v \in 0..255
    PROVE  Poke(file, r, v) \in Registers
  BY DEF Poke, Registers

\* A pointer's value.
LEMMA PointerTyped ==
    ASSUME NEW file \in Registers, NEW p \in Pointers
    PROVE  Pointer(file, p) \in Nat
  <1>1. p \in Nat /\ file[p] \in 0..255 /\ file[p + 1] \in 0..255
    BY PointersStored DEF Registers, Pointers, ERDPT, EWRPT, ETXST, ETXND, ERXST, ERXND, ERXRDPT
  <1>2. \A x, y \in 0..255 : x + 256 * y \in Nat
    OBVIOUS
  <1>3. file[p] + 256 * file[p + 1] \in Nat
    BY <1>1, <1>2
  <1> QED
    BY <1>3 DEF Pointer

\* An access leaves bytes in the registers, and what it reports is a number.
LEMMA EffectTyped ==
    ASSUME NEW file \in Registers, NEW r, NEW c \in Access
    PROVE  /\ Effect(file, c, r) \in Registers
           /\ Answer(file, c, r) \in Nat
  <1>1. /\ ERDPT \in Pointers /\ EWRPT \in Pointers /\ ERXST \in Pointers /\ ERXND \in Pointers
    BY DEF Pointers
  <1>2. /\ Pointer(file, ERDPT) \in Nat /\ Pointer(file, EWRPT) \in Nat
        /\ Pointer(file, ERXST) \in Nat /\ Pointer(file, ERXND) \in Nat
    BY <1>1, PointerTyped
  <1>3. c.d \in 0..255 /\ c.n \in Nat
    BY DEF Access
  <1>4. AfterRead(file, c.n) \in Nat /\ AfterWrite(file, c.n) \in Nat
    <2>1. AfterWrite(file, c.n) \in Nat
      BY <1>2, <1>3 DEF AfterWrite
    <2> DEFINE p == Pointer(file, ERDPT)
               nd == Pointer(file, ERXND)
               st == Pointer(file, ERXST)
    <2> HIDE DEF p, nd, st
    <2>2. p \in Nat /\ nd \in Nat /\ st \in Nat
      BY <1>2 DEF p, nd, st
    <2>3. IF p <= nd /\ nd < p + c.n THEN st + (p + c.n - nd - 1) \in Nat
          ELSE (p + c.n) % 8192 \in Nat
      BY <2>2, <1>3
    <2> QED
      BY <2>1, <2>3 DEF AfterRead, p, nd, st
  <1>5. ASSUME NEW p, NEW v \in Nat PROVE PokePointer(file, p, v) \in Registers
    BY <1>5, ByteTyped, PokeTyped DEF PokePointer
  <1>6. ResetRegs \in Registers
    BY DEF ResetRegs, Registers
  <1>7. Poke(file, r, c.d) \in Registers
    BY <1>3, PokeTyped
  <1>8. Effect(file, c, r) \in Registers
    BY <1>4, <1>5, <1>6, <1>7 DEF Effect
  <1>9. r \in Stored => file[r] \in Nat
    BY DEF Registers
  <1>10. Answer(file, c, r) \in Nat
    BY <1>2, <1>9 DEF Answer
  <1> QED
    BY <1>8, <1>10

-----------------------------------------------------------------------------
(* Type correctness.  TypeOK is not inductive by itself: what a thread      *)
(* sends is only typed while idx points into body, and a command is only a  *)
(* command once encSetBank's own pseudo-access is behind it.                *)

WellFormed(t) ==
    /\ body[t] \in Seq(Good)
    /\ stage[t] \in {"out", "lock", "wait"} => idx[t] = 1
    /\ stage[t] \notin {"out", "unlock"} => idx[t] \in 1..Len(body[t])
    /\ stage[t] = "unlock" => idx[t] = Len(body[t]) + 1
    /\ Len(got[t]) = idx[t] - 1
    /\ stage[t] \in {"bank", "clear", "select"} => NeedsBank(Here(t))
    /\ stage[t] \in {"access", "take"} => Here(t).op # "BANK"
    /\ stage[t] = "take" => IsRead(Here(t))
    /\ filled[t] => stage[t] \in OnBus

\* SPIMutex's queue holds threads that wait for it.
Queued == \A t \in waiting : stage[t] = "wait"

\* ReleaseToEnd uses both bytes of the register read before it.
TwoBytesRead == site[Lwip] = "rxnd" =>
                    IF stage[Lwip] = "out" THEN Len(ret[Lwip]) = 2 ELSE Len(body[Lwip]) = 2

Sites == {"init", "poll", "counted", "alloc", "end", "rxnd", "bank", "decrement", "handled",
          "idle", "control", "partial", "txnd", "request", "spin", "spun", "result"}

FrameLens == 0..1518

DriverTyped ==
    /\ site \in [Threads -> Sites]
    /\ k \in 0..29 /\ up \in BOOLEAN /\ frame \in BOOLEAN
    /\ next_frame_location \in 0..RXSTOP_INIT /\ header \in 0..RXSTOP_INIT
    /\ txlen \in [Threads -> FrameLens] /\ left \in [Threads -> FrameLens]

\* The part of the invariant that a call under way can disturb, and all of it.
CallsTyped == SpiTypeOK /\ (\A t \in Threads : WellFormed(t)) /\ Queued
Typed == CallsTyped /\ DriverTyped /\ TwoBytesRead

\* Where the i-th access of a call begins.
LEMMA EntryStageTyped ==
    ASSUME NEW b \in Seq(Good), NEW i \in 1..(Len(b) + 1)
    PROVE  \/ EntryStage(b, i) = "unlock" /\ i = Len(b) + 1
           \/ EntryStage(b, i) = "bank" /\ i \in 1..Len(b) /\ NeedsBank(b[i])
           \/ EntryStage(b, i) = "access" /\ i \in 1..Len(b) /\ b[i].op \in {"RBM", "WBM"}
  <1>1. i <= Len(b) => b[i] \in Access
    BY DEF Good
  <1> QED
    BY <1>1 DEF EntryStage, NeedsBank, Access

\* A call begins: its body is fixed and every other thread is where it was.
LEMMA BeginTyped ==
    ASSUME CallsTyped, NEW t \in Threads, NEW b \in NonEmpty(Good), NEW m \in BOOLEAN,
           Begin(t, b, m)
    PROVE  CallsTyped' /\ body'[t] = b /\ stage'[t] # "out"
                       /\ \A u \in Threads \ {t} : /\ body'[u] = body[u] /\ stage'[u] = stage[u]
                                                   /\ ret'[u] = ret[u]
  <1>1. b \in Seq(Good) /\ b \in Seq(Access) /\ Len(b) \in Nat \ {0}
    BY DEF NonEmpty, Good
  <1> DEFINE s == IF m THEN "lock" ELSE EntryStage(b, 1)
  <1>2. \/ s = "lock"
        \/ s = "bank" /\ NeedsBank(b[1])
        \/ s = "access" /\ b[1].op \in {"RBM", "WBM"}
    BY <1>1, EntryStageTyped
  <1>3. /\ body' = [body EXCEPT ![t] = b] /\ stage' = [stage EXCEPT ![t] = s]
        /\ idx' = [idx EXCEPT ![t] = 1] /\ got' = got /\ filled' = filled
        /\ ret' = [ret EXCEPT ![t] = << >>] /\ locked' = [locked EXCEPT ![t] = m]
        /\ stage[t] = "out"
        /\ UNCHANGED <<regs, econ1, busy, owner, waiting, enc_address, tx_buffer, rx_buffer, settled>>
    BY DEF Begin, chip, mutex
  <1> HIDE DEF s
  <1>4. SpiTypeOK'
    <2>1. s \in Stages
      BY <1>2 DEF Stages
    <2>2. stage' \in [Threads -> Stages]
      BY <1>3, <2>1 DEF CallsTyped, SpiTypeOK
    <2>3. body' \in [Threads -> Seq(Access)] /\ idx' \in [Threads -> Nat]
      BY <1>1, <1>3 DEF CallsTyped, SpiTypeOK
    <2>4. locked' \in [Threads -> BOOLEAN] /\ ret' \in [Threads -> Seq(Nat)]
      BY <1>3 DEF CallsTyped, SpiTypeOK
    <2> QED
      BY <1>3, <2>2, <2>3, <2>4 DEF CallsTyped, SpiTypeOK
  <1>5. ASSUME NEW u \in Threads PROVE WellFormed(u)'
    <2>1. CASE u = t
      <3>1. body'[t] = b /\ stage'[t] = s /\ idx'[t] = 1 /\ got'[t] = got[t] /\ filled'[t] = filled[t]
        BY <1>3 DEF CallsTyped, SpiTypeOK
      <3>2. Len(got[t]) = 0
        BY <1>3 DEF CallsTyped, SpiTypeOK, WellFormed
      <3>4. ~filled[t]
        BY <1>3 DEF CallsTyped, WellFormed, OnBus
      <3>3. Here(t)' = b[1]
        BY <3>1 DEF Here
      <3> QED
        BY <1>1, <1>2, <2>1, <3>1, <3>2, <3>3, <3>4 DEF WellFormed
    <2>2. CASE u # t
      <3>1. /\ body'[u] = body[u] /\ stage'[u] = stage[u] /\ idx'[u] = idx[u]
            /\ got'[u] = got[u] /\ filled'[u] = filled[u]
        BY <1>3, <2>2 DEF CallsTyped, SpiTypeOK
      <3>2. Here(u)' = Here(u)
        BY <3>1 DEF Here
      <3> QED
        BY <3>1, <3>2 DEF CallsTyped, WellFormed
    <2> QED
      BY <2>1, <2>2
  <1>6. Queued'
    BY <1>3 DEF CallsTyped, SpiTypeOK, Queued
  <1> QED
    BY ZenonT(30), <1>2, <1>3, <1>4, <1>5, <1>6 DEF CallsTyped, SpiTypeOK

\* A thread whose call does not move stays well formed.
LEMMA Untouched ==
    ASSUME CallsTyped, NEW u \in Threads, body'[u] = body[u], stage'[u] = stage[u],
           idx'[u] = idx[u], got'[u] = got[u], filled'[u] = filled[u]
    PROVE  WellFormed(u)'
  <1>1. Here(u)' = Here(u)
    BY DEF Here
  <1> QED
    BY <1>1 DEF CallsTyped, WellFormed

\* The start of the accesses, once SPIMutex is there.
LEMMA Entered ==
    ASSUME CallsTyped, NEW u \in Threads, stage[u] \in {"lock", "wait"},
           stage'[u] = EntryStage(body[u], 1),
           body'[u] = body[u], idx'[u] = idx[u], got'[u] = got[u], filled'[u] = filled[u]
    PROVE  WellFormed(u)' /\ stage'[u] \in Stages \ {"unlock", "out"}
  <1>1. /\ body[u] \in Seq(Good) /\ idx[u] = 1 /\ idx[u] \in 1..Len(body[u])
        /\ Len(got[u]) = 0
    BY DEF CallsTyped, WellFormed
  <1>2. ~filled[u]
    BY DEF CallsTyped, WellFormed, OnBus
  <1>3. /\ 1 \in 1..(Len(body[u]) + 1) /\ Len(body[u]) # 0 /\ Len(body[u]) \in Nat
    BY <1>1
  <1>4. \/ stage'[u] = "bank" /\ NeedsBank(body[u][1])
        \/ stage'[u] = "access" /\ body[u][1].op \in {"RBM", "WBM"}
    BY <1>1, <1>3, EntryStageTyped
  <1>5. Here(u)' = body[u][1]
    BY <1>1 DEF Here
  <1>6. WellFormed(u)'
    BY <1>1, <1>2, <1>4, <1>5 DEF WellFormed
  <1> QED
    BY <1>4, <1>6 DEF Stages

\* From one access to the next.
LEMMA Advanced ==
    ASSUME CallsTyped, NEW t \in Threads, NEW answer \in Nat, Advance(t, answer),
           stage[t] \in {"bank", "select", "access", "take"}, body' = body, ~filled'[t]
    PROVE  /\ WellFormed(t)'
           /\ stage' \in [Threads -> Stages] /\ idx' \in [Threads -> Nat]
           /\ got' \in [Threads -> Seq(Nat)]
           /\ stage'[t] # "out"
           /\ \A u \in Threads \ {t} :
                stage'[u] = stage[u] /\ idx'[u] = idx[u] /\ got'[u] = got[u]
  <1>1. /\ body[t] \in Seq(Good) /\ idx[t] \in 1..Len(body[t]) /\ Len(got[t]) = idx[t] - 1
        /\ got[t] \in Seq(Nat) /\ idx[t] \in Nat
    BY ZenonT(30) DEF CallsTyped, WellFormed, SpiTypeOK
  <1> DEFINE i == idx[t] + 1
             s == EntryStage(body[t], i)
  <1>2. /\ idx' = [idx EXCEPT ![t] = i] /\ stage' = [stage EXCEPT ![t] = s]
        /\ got' = [got EXCEPT ![t] = Append(got[t], answer)]
    BY DEF Advance
  <1>3. /\ i \in 1..(Len(body[t]) + 1) /\ i \in Nat
        /\ Append(got[t], answer) \in Seq(Nat) /\ Len(Append(got[t], answer)) = i - 1
    BY <1>1
  <1>4. \/ s = "unlock" /\ i = Len(body[t]) + 1
        \/ s = "bank" /\ i \in 1..Len(body[t]) /\ NeedsBank(body[t][i])
        \/ s = "access" /\ i \in 1..Len(body[t]) /\ body[t][i].op \in {"RBM", "WBM"}
    BY <1>1, <1>3, EntryStageTyped
  <1> HIDE DEF i, s
  <1>5. /\ stage' \in [Threads -> Stages] /\ idx' \in [Threads -> Nat]
        /\ got' \in [Threads -> Seq(Nat)]
    BY <1>2, <1>3, <1>4 DEF CallsTyped, SpiTypeOK, Stages
  <1>6. /\ stage'[t] = s /\ idx'[t] = i /\ Len(got'[t]) = i - 1 /\ body'[t] = body[t]
    BY <1>2, <1>3 DEF CallsTyped, SpiTypeOK
  <1>7. Here(t)' = body[t][i]
    BY <1>6 DEF Here
  <1>8. WellFormed(t)'
    BY <1>1, <1>4, <1>6, <1>7 DEF WellFormed
  <1>9. \A u \in Threads \ {t} : stage'[u] = stage[u] /\ idx'[u] = idx[u] /\ got'[u] = got[u]
    BY <1>2 DEF CallsTyped, SpiTypeOK
  <1> QED
    BY <1>4, <1>5, <1>6, <1>8, <1>9

-----------------------------------------------------------------------------
(* One lemma per action of a call under way.                                *)

\* chMtxLock: the mutex is taken, or the thread queues for it.
LEMMA LockTyped == ASSUME CallsTyped, NEW t \in Threads, Lock(t) PROVE CallsTyped'
  <1>1. /\ stage[t] = "lock" /\ body' = body /\ idx' = idx /\ got' = got /\ filled' = filled
        /\ UNCHANGED <<regs, econ1, busy, enc_address, tx_buffer, rx_buffer, locked, ret, settled>>
    BY DEF Lock, chip, calls
  <1>2. CASE owner = NoThread
    <2>1. /\ owner' = t /\ waiting' = waiting
          /\ stage' = [stage EXCEPT ![t] = EntryStage(body[t], 1)]
      BY <1>2 DEF Lock
    <2>2. stage'[t] = EntryStage(body[t], 1) /\ \A u \in Threads \ {t} : stage'[u] = stage[u]
      BY <2>1 DEF CallsTyped, SpiTypeOK
    <2>3. WellFormed(t)' /\ stage'[t] \in Stages
      BY <1>1, <2>2, Entered
    <2>4. stage' \in [Threads -> Stages]
      BY <2>1, <2>2, <2>3 DEF CallsTyped, SpiTypeOK
    <2>5. SpiTypeOK'
      BY <1>1, <2>1, <2>4 DEF CallsTyped, SpiTypeOK
    <2>6. \A u \in Threads \ {t} : WellFormed(u)'
      BY <1>1, <2>2, Untouched
    <2>7. Queued'
      BY <1>1, <2>1, <2>2 DEF CallsTyped, SpiTypeOK, Queued
    <2> QED
      BY <2>3, <2>5, <2>6, <2>7 DEF CallsTyped
  <1>3. CASE owner # NoThread
    <2>1. /\ owner' = owner /\ waiting' = waiting \cup {t}
          /\ stage' = [stage EXCEPT ![t] = "wait"]
      BY <1>3 DEF Lock
    <2>2. stage'[t] = "wait" /\ \A u \in Threads \ {t} : stage'[u] = stage[u]
      BY <2>1 DEF CallsTyped, SpiTypeOK
    <2>3. Here(t)' = Here(t) /\ ~filled[t]
      BY <1>1 DEF Here, CallsTyped, WellFormed, OnBus
    <2>4. WellFormed(t)'
      BY <1>1, <2>2, <2>3 DEF CallsTyped, WellFormed
    <2>5. stage' \in [Threads -> Stages]
      BY <2>1 DEF CallsTyped, SpiTypeOK, Stages
    <2>6. SpiTypeOK'
      BY <1>1, <2>1, <2>5 DEF CallsTyped, SpiTypeOK
    <2>7. \A u \in Threads \ {t} : WellFormed(u)'
      BY <1>1, <2>2, Untouched
    <2>8. Queued'
      BY <2>1, <2>2 DEF CallsTyped, SpiTypeOK, Queued
    <2> QED
      BY <2>4, <2>6, <2>7, <2>8 DEF CallsTyped
  <1> QED
    BY <1>2, <1>3

\* The end of a call, with or without SPIMutex.
LEMMA Finished ==
    ASSUME CallsTyped, NEW t \in Threads, Finish(t), stage[t] = "unlock", stage'[t] = "out"
    PROVE  /\ WellFormed(t)'
           /\ body' \in [Threads -> Seq(Access)] /\ locked' \in [Threads -> BOOLEAN]
           /\ idx' \in [Threads -> Nat] /\ got' \in [Threads -> Seq(Nat)]
           /\ ret' \in [Threads -> Seq(Nat)] /\ Len(ret'[t]) = Len(body[t])
           /\ UNCHANGED <<regs, econ1, busy, enc_address, tx_buffer, rx_buffer, filled>>
           /\ \A u \in Threads \ {t} : /\ body'[u] = body[u] /\ idx'[u] = idx[u]
                                       /\ got'[u] = got[u] /\ ret'[u] = ret[u]
  <1>1. /\ body' = [body EXCEPT ![t] = << >>] /\ locked' = [locked EXCEPT ![t] = FALSE]
        /\ idx' = [idx EXCEPT ![t] = 1] /\ got' = [got EXCEPT ![t] = << >>]
        /\ ret' = [ret EXCEPT ![t] = got[t]]
        /\ UNCHANGED <<regs, econ1, busy, enc_address, tx_buffer, rx_buffer, filled>>
    BY DEF Finish, chip
  <1>2. /\ << >> \in Seq(Access) /\ << >> \in Seq(Nat) /\ << >> \in Seq(Good)
        /\ Len(<< >>) = 0
    OBVIOUS
  <1>3. /\ body' \in [Threads -> Seq(Access)] /\ locked' \in [Threads -> BOOLEAN]
        /\ idx' \in [Threads -> Nat] /\ got' \in [Threads -> Seq(Nat)]
        /\ ret' \in [Threads -> Seq(Nat)]
    BY <1>1, <1>2 DEF CallsTyped, SpiTypeOK
  <1>4. /\ body'[t] = << >> /\ idx'[t] = 1 /\ got'[t] = << >> /\ filled'[t] = filled[t]
        /\ ret'[t] = got[t]
    BY <1>1 DEF CallsTyped, SpiTypeOK
  <1>5. ~filled[t]
    BY DEF CallsTyped, WellFormed, OnBus
  <1>6. WellFormed(t)'
    BY <1>2, <1>4, <1>5 DEF WellFormed
  <1>7. Len(got[t]) = Len(body[t])
    <2>1. Len(body[t]) \in Nat /\ idx[t] = Len(body[t]) + 1 /\ Len(got[t]) = idx[t] - 1
      BY DEF CallsTyped, WellFormed
    <2> QED
      BY <2>1
  <1>8. \A u \in Threads \ {t} : /\ body'[u] = body[u] /\ idx'[u] = idx[u]
                                 /\ got'[u] = got[u] /\ ret'[u] = ret[u]
    BY <1>1 DEF CallsTyped, SpiTypeOK
  <1> QED
    BY <1>1, <1>3, <1>4, <1>6, <1>7, <1>8

\* chMtxUnlock hands the mutex over, or frees it, and the call returns.
LEMMA UnlockTyped == ASSUME CallsTyped, NEW t \in Threads, Unlock(t) PROVE CallsTyped'
  <1>1. stage[t] = "unlock" /\ settled' = regs /\ Finish(t) /\ t \notin waiting
    BY DEF Unlock, CallsTyped, Queued
  <1>2. CASE waiting = {}
    <2>1. owner' = NoThread /\ stage' = [stage EXCEPT ![t] = "out"] /\ waiting' = waiting
      BY <1>2 DEF Unlock
    <2>2. stage'[t] = "out" /\ \A u \in Threads \ {t} : stage'[u] = stage[u]
      BY <2>1 DEF CallsTyped, SpiTypeOK
    <2>3. SpiTypeOK'
      <3>1. stage' \in [Threads -> Stages]
        BY <2>1 DEF CallsTyped, SpiTypeOK, Stages
      <3>2. /\ body' \in [Threads -> Seq(Access)] /\ locked' \in [Threads -> BOOLEAN]
            /\ idx' \in [Threads -> Nat] /\ got' \in [Threads -> Seq(Nat)]
            /\ ret' \in [Threads -> Seq(Nat)]
            /\ UNCHANGED <<regs, econ1, busy, enc_address, tx_buffer, rx_buffer, filled>>
        BY <1>1, <2>2, Finished
      <3> QED
        BY <1>1, <2>1, <3>1, <3>2 DEF CallsTyped, SpiTypeOK
    <2>4. ASSUME NEW u \in Threads \ {t} PROVE WellFormed(u)'
      BY <1>1, <2>2, Finished, Untouched
    <2>5. Queued'
      BY <1>2, <2>1 DEF Queued
    <2> QED
      BY <1>1, <2>2, <2>3, <2>4, <2>5, Finished DEF CallsTyped
  <1>3. CASE waiting # {}
    <2>1. PICK w \in waiting :
             /\ owner' = w /\ waiting' = waiting \ {w}
             /\ stage' = [stage EXCEPT ![t] = "out", ![w] = EntryStage(body[w], 1)]
      BY <1>3 DEF Unlock
    <2>2. w \in Threads /\ w # t /\ stage[w] = "wait"
      BY <1>1 DEF CallsTyped, SpiTypeOK, Queued
    <2>3. /\ stage'[t] = "out" /\ stage'[w] = EntryStage(body[w], 1)
          /\ \A u \in Threads \ {t, w} : stage'[u] = stage[u]
      BY <2>1, <2>2 DEF CallsTyped, SpiTypeOK
    <2>4. WellFormed(w)' /\ stage'[w] \in Stages
      BY <1>1, <2>2, <2>3, Finished, Entered
    <2>5. SpiTypeOK'
      <3>1. stage' \in [Threads -> Stages]
        BY ZenonT(30), <2>1, <2>2, <2>3, <2>4 DEF CallsTyped, SpiTypeOK, Stages
      <3>2. /\ body' \in [Threads -> Seq(Access)] /\ locked' \in [Threads -> BOOLEAN]
            /\ idx' \in [Threads -> Nat] /\ got' \in [Threads -> Seq(Nat)]
            /\ ret' \in [Threads -> Seq(Nat)]
            /\ UNCHANGED <<regs, econ1, busy, enc_address, tx_buffer, rx_buffer, filled>>
        BY <1>1, <2>3, Finished
      <3> QED
        BY <1>1, <2>1, <2>2, <3>1, <3>2 DEF CallsTyped, SpiTypeOK
    <2>6. ASSUME NEW u \in Threads \ {t, w} PROVE WellFormed(u)'
      BY <1>1, <2>3, Finished, Untouched
    <2>7. Queued'
      BY <1>1, <2>1, <2>2, <2>3 DEF CallsTyped, SpiTypeOK, Queued
    <2>8. WellFormed(t)'
      BY <1>1, <2>3, Finished
    <2> QED
      BY <2>4, <2>5, <2>6, <2>7, <2>8 DEF CallsTyped
  <1> QED
    BY <1>2, <1>3

\* A call that took no mutex returns.
LEMMA ReturnTyped == ASSUME CallsTyped, NEW t \in Threads, Return(t) PROVE CallsTyped'
  <1>1. /\ stage[t] = "unlock" /\ Finish(t) /\ stage' = [stage EXCEPT ![t] = "out"]
        /\ UNCHANGED <<owner, waiting, settled>>
    BY DEF Return, mutex
  <1>2. stage'[t] = "out" /\ \A u \in Threads \ {t} : stage'[u] = stage[u]
    BY <1>1 DEF CallsTyped, SpiTypeOK
  <1>3. stage' \in [Threads -> Stages]
    BY <1>1 DEF CallsTyped, SpiTypeOK, Stages
  <1>4. SpiTypeOK'
    <2>1. /\ body' \in [Threads -> Seq(Access)] /\ locked' \in [Threads -> BOOLEAN]
          /\ idx' \in [Threads -> Nat] /\ got' \in [Threads -> Seq(Nat)]
          /\ ret' \in [Threads -> Seq(Nat)]
          /\ UNCHANGED <<regs, econ1, busy, enc_address, tx_buffer, rx_buffer, filled>>
      BY <1>1, <1>2, Finished
    <2> QED
      BY <1>1, <1>3, <2>1 DEF CallsTyped, SpiTypeOK
  <1>5. ASSUME NEW u \in Threads \ {t} PROVE WellFormed(u)'
    BY <1>1, <1>2, Finished, Untouched
  <1>6. Queued'
    BY <1>1, <1>2 DEF CallsTyped, SpiTypeOK, Queued
  <1> QED
    BY <1>1, <1>2, <1>4, <1>5, <1>6, Finished DEF CallsTyped

\* encSetBank remembers the bank, or finds it already selected.
LEMMA SetBankTyped == ASSUME CallsTyped, NEW t \in Threads, SetBank(t) PROVE CallsTyped'
  <1> DEFINE b == BankOf(Here(t).a)
  <1>1. /\ stage[t] = "bank" /\ body' = body /\ filled' = filled
        /\ UNCHANGED <<regs, econ1, busy, owner, waiting, tx_buffer, rx_buffer, locked, ret, settled>>
    BY DEF SetBank, chip, mutex, calls
  <1>2. /\ Here(t) \in Access /\ NeedsBank(Here(t)) /\ idx[t] \in 1..Len(body[t])
        /\ Len(got[t]) = idx[t] - 1 /\ b \in 0..3
    <2>1. /\ idx[t] \in 1..Len(body[t]) /\ body[t] \in Seq(Good) /\ NeedsBank(Here(t))
          /\ Len(got[t]) = idx[t] - 1
      BY <1>1 DEF CallsTyped, WellFormed
    <2>2. Here(t) \in Access
      BY <2>1 DEF Here, Good
    <2> QED
      BY <2>1, <2>2, BankRange DEF Access
  <1>3. ~filled[t]
    BY <1>1 DEF CallsTyped, WellFormed, OnBus
  <1>4. CASE b # enc_address \/ Here(t).op # "BANK"
    <2> DEFINE s == IF b # enc_address THEN "clear" ELSE "access"
    <2>1. /\ stage' = [stage EXCEPT ![t] = s] /\ idx' = idx /\ got' = got
          /\ enc_address' \in {b, enc_address}
      BY <1>4 DEF SetBank
    <2>2. stage'[t] = s /\ \A u \in Threads \ {t} : stage'[u] = stage[u]
      BY <2>1 DEF CallsTyped, SpiTypeOK
    <2>3. SpiTypeOK'
      <3>1. stage' \in [Threads -> Stages]
        BY <2>1 DEF CallsTyped, SpiTypeOK, Stages
      <3>2. enc_address' \in 0..3
        BY <1>2, <2>1 DEF CallsTyped, SpiTypeOK
      <3> QED
        BY <1>1, <2>1, <3>1, <3>2 DEF CallsTyped, SpiTypeOK
    <2>4. WellFormed(t)'
      <3>1. Here(t)' = Here(t)
        BY <1>1, <2>1 DEF Here
      <3> QED
        BY <1>1, <1>2, <1>3, <1>4, <2>1, <2>2, <3>1 DEF CallsTyped, WellFormed
    <2>5. \A u \in Threads \ {t} : WellFormed(u)'
      BY <1>1, <2>1, <2>2, Untouched
    <2>6. Queued'
      BY <1>1, <2>2 DEF CallsTyped, SpiTypeOK, Queued
    <2> QED
      BY <2>3, <2>4, <2>5, <2>6 DEF CallsTyped
  <1>5. CASE b = enc_address /\ Here(t).op = "BANK"
    <2>1. Advance(t, 0) /\ enc_address' = enc_address
      BY <1>5 DEF SetBank
    <2>2. ~filled'[t]
      BY <1>1, <1>3
    <2>3. SpiTypeOK'
      BY <1>1, <2>1, <2>2, Advanced DEF CallsTyped, SpiTypeOK
    <2>4. ASSUME NEW u \in Threads \ {t} PROVE WellFormed(u)'
      BY <1>1, <2>1, <2>2, Advanced, Untouched
    <2>5. Queued'
      <3>1. \A u \in Threads \ {t} : stage'[u] = stage[u]
        BY <1>1, <2>1, <2>2, Advanced
      <3> QED
        BY <1>1, <3>1 DEF CallsTyped, SpiTypeOK, Queued
    <2>6. WellFormed(t)'
      BY <1>1, <2>1, <2>2, Advanced
    <2> QED
      BY <2>3, <2>4, <2>5, <2>6 DEF CallsTyped
  <1> QED
    BY <1>4, <1>5

\* The access a thread is at, while its call is under way.
LEMMA HereTyped ==
    ASSUME CallsTyped, NEW t \in Threads, stage[t] \notin {"out", "unlock"}
    PROVE  /\ Here(t) \in Good /\ Here(t) \in Access
           /\ Here(t).a \in 0..255 /\ Here(t).d \in 0..255 /\ Here(t).n \in Nat
           /\ Here(t).bits \in SUBSET (0..7)
  <1>1. idx[t] \in 1..Len(body[t]) /\ body[t] \in Seq(Good)
    BY DEF CallsTyped, WellFormed
  <1>2. Here(t) \in Good
    BY <1>1 DEF Here
  <1> QED
    BY <1>2 DEF Good, Access

\* What a thread sends is a command.
LEMMA IntendedTyped ==
    ASSUME CallsTyped, NEW t \in Threads, stage[t] \in OnBus
    PROVE  Intended(t) \in Command
  <1>1. /\ Here(t) \in Access /\ Offset(Here(t).a) \in 0..31
        /\ Here(t).d \in 0..255 /\ Here(t).bits \in SUBSET (0..7)
    <2>1. /\ Here(t) \in Access /\ Here(t).a \in 0..255
          /\ Here(t).d \in 0..255 /\ Here(t).bits \in SUBSET (0..7)
      BY HereTyped DEF OnBus
    <2> QED
      BY <2>1, BankRange
  <1>2. Cmd("BFC", Offset(ECON1), 0, BSEL) \in Command
    BY DEF Cmd, Command, Offset, ECON1, BSEL
  <1>3. Cmd("BFS", Offset(ECON1), 0, BankBits(enc_address)) \in Command
    BY DEF Cmd, Command, Offset, ECON1, BankBits
  <1>4. CASE stage[t] = "access"
    <2>1. Here(t).op \in {"RCR", "POLL", "WCR", "BFS", "BFC", "SRC", "RBM", "WBM"}
      BY <1>1, <1>4 DEF CallsTyped, WellFormed, Access
    <2>2. (IF Here(t).op = "POLL" THEN "RCR" ELSE Here(t).op)
             \in {"RCR", "WCR", "BFS", "BFC", "SRC", "RBM", "WBM"}
      BY <2>1
    <2> QED
      BY <1>1, <1>4, <2>2 DEF Intended, Cmd, Command
  <1>5. CASE stage[t] \in {"clear", "select"}
    BY <1>2, <1>3, <1>5 DEF Intended
  <1> QED
    BY <1>4, <1>5 DEF OnBus

\* The command and its data go into tx_buffer.
LEMMA FillTyped == ASSUME CallsTyped, NEW t \in Threads, Fill(t) PROVE CallsTyped'
  <1>1. /\ stage[t] \in OnBus /\ tx_buffer' = Intended(t)
        /\ filled' = [filled EXCEPT ![t] = TRUE]
        /\ UNCHANGED <<regs, econ1, busy, owner, waiting, enc_address, rx_buffer, stage,
                       locked, body, idx, got, ret, settled>>
    BY DEF Fill, chip, mutex, calls
  <1>2. SpiTypeOK'
    <2>1. tx_buffer' \in Command
      BY <1>1, IntendedTyped
    <2> QED
      BY <1>1, <2>1 DEF CallsTyped, SpiTypeOK
  <1>3. \A u \in Threads \ {t} : filled'[u] = filled[u]
    BY <1>1 DEF CallsTyped, SpiTypeOK
  <1>4. WellFormed(t)'
    <2>1. Here(t)' = Here(t)
      BY <1>1 DEF Here
    <2> QED
      BY <1>1, <2>1 DEF CallsTyped, WellFormed
  <1>5. \A u \in Threads \ {t} : WellFormed(u)'
    BY <1>1, <1>3, Untouched
  <1>6. Queued'
    BY <1>1 DEF CallsTyped, Queued
  <1> QED
    BY <1>2, <1>4, <1>5, <1>6 DEF CallsTyped

\* The access that a command names.
LEMMA AsAccessTyped ==
    ASSUME CallsTyped, NEW n \in Nat
    PROVE  AsAccess(n) \in Access
  BY SMTT(30) DEF CallsTyped, SpiTypeOK, AsAccess, Acc, Access, Command

\* The part of an exchange that does not depend on its stage.
LEMMA Exchanged ==
    ASSUME CallsTyped, NEW t \in Threads, NEW v \in 0..255, Exchange(t, v)
    PROVE  /\ stage[t] \in OnBus
           /\ regs' \in Registers /\ econ1' \subseteq 0..7 /\ busy' \in BOOLEAN
           /\ rx_buffer' \in (0..255) \X (0..255) /\ filled' \in [Threads -> BOOLEAN]
           /\ ~filled'[t] /\ \A u \in Threads \ {t} : filled'[u] = filled[u]
           /\ UNCHANGED <<owner, waiting, enc_address, tx_buffer, locked, body, ret, settled>>
  <1>1. /\ filled[t] /\ filled' = [filled EXCEPT ![t] = FALSE]
        /\ UNCHANGED <<owner, waiting, enc_address, tx_buffer, locked, body, ret, settled>>
    BY DEF Exchange, mutex, calls
  <1>2. stage[t] \in OnBus
    BY <1>1 DEF CallsTyped, WellFormed
  <1>3. regs' \in Registers
    <2>1. regs \in Registers /\ Here(t).n \in Nat
      BY <1>2, HereTyped DEF CallsTyped, SpiTypeOK, Registers, OnBus
    <2>2. Effect(regs, AsAccess(Here(t).n), Target) \in Registers
      BY <2>1, AsAccessTyped, EffectTyped
    <2> QED
      BY <2>2 DEF Exchange
  <1>4. econ1' \subseteq 0..7
    <2>1. Econ1After(tx_buffer) \subseteq 0..7
      <3>1. tx_buffer \in Command /\ econ1 \subseteq 0..7
        BY DEF CallsTyped, SpiTypeOK
      <3> QED
        BY <3>1 DEF Econ1After, Command
    <2> QED
      BY <2>1 DEF Exchange
  <1>5. busy' \in BOOLEAN
    BY DEF Exchange
  <1>6. rx_buffer' \in (0..255) \X (0..255)
    <2>1. rx_buffer[2] \in 0..255 /\ rx_buffer \in (0..255) \X (0..255)
      BY DEF CallsTyped, SpiTypeOK
    <2> QED
      BY <2>1 DEF Exchange
  <1>7. filled' \in [Threads -> BOOLEAN] /\ ~filled'[t]
    BY <1>1 DEF CallsTyped, SpiTypeOK
  <1>8. \A u \in Threads \ {t} : filled'[u] = filled[u]
    BY <1>1 DEF CallsTyped, SpiTypeOK
  <1> QED
    BY <1>1, <1>2, <1>3, <1>4, <1>5, <1>6, <1>7, <1>8

\* The two exchanges of encSetBank that clear and set the bank bits of ECON1.
LEMMA SwitchBankTyped == ASSUME CallsTyped, NEW t \in Threads, SwitchBank(t) PROVE CallsTyped'
  <1>1. stage[t] \in {"clear", "select"} /\ Exchange(t, 0)
    BY DEF SwitchBank
  <1>2. /\ regs' \in Registers /\ econ1' \subseteq 0..7 /\ busy' \in BOOLEAN
        /\ rx_buffer' \in (0..255) \X (0..255) /\ filled' \in [Threads -> BOOLEAN]
        /\ ~filled'[t] /\ \A u \in Threads \ {t} : filled'[u] = filled[u]
        /\ UNCHANGED <<owner, waiting, enc_address, tx_buffer, locked, body, ret, settled>>
    <2>1. 0 \in 0..255
      OBVIOUS
    <2> QED
      BY ZenonT(30), <1>1, <2>1, Exchanged
  <1>3. CASE stage[t] = "select" /\ Here(t).op = "BANK"
    <2>1. Advance(t, 0)
      BY <1>3 DEF SwitchBank
    <2>2. /\ WellFormed(t)' /\ stage' \in [Threads -> Stages] /\ idx' \in [Threads -> Nat]
          /\ got' \in [Threads -> Seq(Nat)]
          /\ \A u \in Threads \ {t} :
                stage'[u] = stage[u] /\ idx'[u] = idx[u] /\ got'[u] = got[u]
      BY <1>2, <1>3, <2>1, Advanced
    <2>3. SpiTypeOK'
      BY <1>2, <2>2 DEF CallsTyped, SpiTypeOK, Registers
    <2>4. \A u \in Threads \ {t} : WellFormed(u)'
      BY <1>2, <2>2, Untouched
    <2>5. Queued'
      <3>1. waiting' = waiting /\ waiting \subseteq Threads /\ t \notin waiting
        BY <1>1, <1>2 DEF CallsTyped, SpiTypeOK, Queued
      <3> QED
        BY <2>2, <3>1 DEF CallsTyped, Queued
    <2> QED
      BY <2>2, <2>3, <2>4, <2>5 DEF CallsTyped
  <1>4. CASE ~(stage[t] = "select" /\ Here(t).op = "BANK")
    <2> DEFINE s == IF stage[t] = "clear" THEN "select" ELSE "access"
    <2>1. stage' = [stage EXCEPT ![t] = s] /\ idx' = idx /\ got' = got
      BY <1>4 DEF SwitchBank
    <2>2. stage'[t] = s /\ \A u \in Threads \ {t} : stage'[u] = stage[u]
      BY <2>1 DEF CallsTyped, SpiTypeOK
    <2>3. SpiTypeOK'
      <3>1. stage' \in [Threads -> Stages]
        BY <2>1 DEF CallsTyped, SpiTypeOK, Stages
      <3> QED
        BY <1>2, <2>1, <3>1 DEF CallsTyped, SpiTypeOK, Registers
    <2>4. WellFormed(t)'
      <3>1. Here(t)' = Here(t)
        BY <1>2, <2>1 DEF Here
      <3> QED
        BY <1>1, <1>2, <1>4, <2>1, <2>2, <3>1 DEF CallsTyped, WellFormed
    <2>5. \A u \in Threads \ {t} : WellFormed(u)'
      BY <1>2, <2>1, <2>2, Untouched
    <2>6. Queued'
      <3>1. waiting' = waiting /\ waiting \subseteq Threads /\ t \notin waiting
        BY <1>1, <1>2 DEF CallsTyped, SpiTypeOK, Queued
      <3> QED
        BY <2>2, <3>1 DEF CallsTyped, Queued
    <2> QED
      BY <2>3, <2>4, <2>5, <2>6 DEF CallsTyped
  <1> QED
    BY <1>3, <1>4

\* A byte that the chip sends back.
LEMMA BytesTyped == ASSUME CallsTyped, NEW r PROVE BytesOf(r) \subseteq 0..255
  <1>1. r \in Stored => regs[r] \in 0..255
    BY DEF CallsTyped, SpiTypeOK
  <1> QED
    BY <1>1 DEF BytesOf, VolatileBytes

\* An exchange, then the next access.
LEMMA ExchangedAndAdvanced ==
    ASSUME CallsTyped, NEW t \in Threads, NEW v \in 0..255, Exchange(t, v),
           stage[t] \in {"select", "access"}, NEW answer \in Nat, Advance(t, answer)
    PROVE  CallsTyped'
  <1>1. /\ regs' \in Registers /\ econ1' \subseteq 0..7 /\ busy' \in BOOLEAN
        /\ rx_buffer' \in (0..255) \X (0..255) /\ filled' \in [Threads -> BOOLEAN]
        /\ ~filled'[t] /\ \A u \in Threads \ {t} : filled'[u] = filled[u]
        /\ UNCHANGED <<owner, waiting, enc_address, tx_buffer, locked, body, ret, settled>>
    BY ZenonT(30), Exchanged
  <1>2. /\ WellFormed(t)' /\ stage' \in [Threads -> Stages] /\ idx' \in [Threads -> Nat]
        /\ got' \in [Threads -> Seq(Nat)]
        /\ \A u \in Threads \ {t} :
              stage'[u] = stage[u] /\ idx'[u] = idx[u] /\ got'[u] = got[u]
    BY <1>1, Advanced
  <1>3. SpiTypeOK'
    BY <1>1, <1>2 DEF CallsTyped, SpiTypeOK, Registers
  <1>4. \A u \in Threads \ {t} : WellFormed(u)'
    BY <1>1, <1>2, Untouched
  <1>5. Queued'
    BY <1>1, <1>2 DEF CallsTyped, SpiTypeOK, Queued
  <1> QED
    BY <1>2, <1>3, <1>4, <1>5 DEF CallsTyped

\* A move from stage to stage within one access.
LEMMA MovedWithin ==
    ASSUME CallsTyped, NEW t \in Threads, stage[t] \notin {"out", "lock", "wait", "unlock"},
           NEW s \in {"bank", "clear", "select", "access", "take"},
           stage' = [stage EXCEPT ![t] = s], idx' = idx, got' = got, body' = body,
           waiting' = waiting, ~filled'[t], \A u \in Threads \ {t} : filled'[u] = filled[u],
           s \in {"bank", "clear", "select"} => NeedsBank(Here(t)),
           s \in {"access", "take"} => Here(t).op # "BANK",
           s = "take" => IsRead(Here(t))
    PROVE  /\ \A u \in Threads : WellFormed(u)'
           /\ Queued' /\ stage' \in [Threads -> Stages]
  <1>1. stage'[t] = s /\ \A u \in Threads \ {t} : stage'[u] = stage[u]
    BY DEF CallsTyped, SpiTypeOK
  <1>2. stage' \in [Threads -> Stages]
    BY DEF CallsTyped, SpiTypeOK, Stages
  <1>3. WellFormed(t)'
    <2>1. Here(t)' = Here(t)
      BY DEF Here
    <2>2. stage[t] \notin {"out", "unlock"} => idx[t] \in 1..Len(body[t])
      BY DEF CallsTyped, WellFormed
    <2> QED
      BY <1>1, <2>1, <2>2 DEF CallsTyped, WellFormed
  <1>4. \A u \in Threads \ {t} : WellFormed(u)'
    BY <1>1, Untouched
  <1>5. Queued'
    BY <1>1 DEF CallsTyped, SpiTypeOK, Queued
  <1> QED
    BY <1>2, <1>3, <1>4, <1>5

\* The exchange of the access itself: the chip acts on tx_buffer.
LEMMA TransferTyped == ASSUME CallsTyped, NEW t \in Threads, Transfer(t) PROVE CallsTyped'
  <1>1. stage[t] = "access" /\ Here(t).op # "BANK"
    BY DEF Transfer, CallsTyped, WellFormed
  <1>2. CASE IsRead(Here(t))
    <2>1. \E v \in BytesOf(Target) : Exchange(t, v)
      BY <1>2 DEF Transfer
    <2>2. PICK v \in 0..255 : Exchange(t, v)
      BY <2>1, BytesTyped
    <2>3. stage' = [stage EXCEPT ![t] = "take"] /\ idx' = idx /\ got' = got
      BY <1>2 DEF Transfer
    <2>4. /\ regs' \in Registers /\ econ1' \subseteq 0..7 /\ busy' \in BOOLEAN
          /\ rx_buffer' \in (0..255) \X (0..255) /\ filled' \in [Threads -> BOOLEAN]
          /\ ~filled'[t] /\ \A u \in Threads \ {t} : filled'[u] = filled[u]
          /\ UNCHANGED <<owner, waiting, enc_address, tx_buffer, locked, body, ret, settled>>
      BY ZenonT(30), <2>2, Exchanged
    <2>5. /\ \A u \in Threads : WellFormed(u)'
          /\ Queued' /\ stage' \in [Threads -> Stages]
      <3>1. /\ stage[t] \notin {"out", "lock", "wait", "unlock"} /\ body' = body
            /\ waiting' = waiting
        BY <1>1, <2>4
      <3> QED
        BY <1>1, <1>2, <2>3, <2>4, <3>1, MovedWithin
    <2>6. SpiTypeOK'
      BY <2>3, <2>4, <2>5 DEF CallsTyped, SpiTypeOK, Registers
    <2> QED
      BY <2>5, <2>6 DEF CallsTyped
  <1>3. CASE ~IsRead(Here(t))
    <2> DEFINE a == Answer(regs, AsAccess(Here(t).n), Target)
    <2>1. Exchange(t, 0) /\ Advance(t, a)
      BY <1>3 DEF Transfer
    <2>2. a \in Nat
      <3>1. Here(t).n \in Nat /\ regs \in Registers
        BY <1>1, HereTyped DEF CallsTyped, SpiTypeOK, Registers
      <3> QED
        BY <3>1, AsAccessTyped, EffectTyped
    <2>3. 0 \in 0..255
      OBVIOUS
    <2> HIDE DEF a
    <2> QED
      BY <1>1, <2>1, <2>2, <2>3, ExchangedAndAdvanced
  <1> QED
    BY <1>2, <1>3

\* The answer is taken from rx_buffer, and the next access begins.
LEMMA TakeTyped == ASSUME CallsTyped, NEW t \in Threads, Take(t) PROVE CallsTyped'
  <1> DEFINE result == IF IsMacMii(Here(t).a) THEN rx_buffer[2] ELSE rx_buffer[1]
  <1>1. /\ stage[t] = "take" /\ IsRead(Here(t)) /\ ~filled[t]
        /\ UNCHANGED <<regs, econ1, busy, owner, waiting, enc_address, tx_buffer, rx_buffer,
                       filled, locked, body, ret, settled>>
    BY DEF Take, CallsTyped, WellFormed, OnBus, chip, mutex, calls
  <1>2. result \in Nat
    <2>1. rx_buffer \in (0..255) \X (0..255)
      BY DEF CallsTyped, SpiTypeOK
    <2>2. rx_buffer[1] \in 0..255 /\ rx_buffer[2] \in 0..255
      BY <2>1
    <2> QED
      BY <2>2
  <1>3. CASE Here(t).op = "POLL" /\ result # 0
    <2>1. stage' = [stage EXCEPT ![t] = "bank"] /\ idx' = idx /\ got' = got
      BY <1>3 DEF Take
    <2>2. NeedsBank(Here(t))
      BY <1>1 DEF IsRead, NeedsBank
    <2>3. /\ \A u \in Threads : WellFormed(u)'
          /\ Queued' /\ stage' \in [Threads -> Stages]
      <3>1. stage[t] \notin {"out", "lock", "wait", "unlock"} /\ body' = body
            /\ waiting' = waiting /\ ~filled'[t]
            /\ \A u \in Threads \ {t} : filled'[u] = filled[u]
        BY <1>1
      <3> QED
        BY <2>1, <2>2, <3>1, MovedWithin
    <2>4. SpiTypeOK'
      BY <1>1, <2>1, <2>3 DEF CallsTyped, SpiTypeOK
    <2> QED
      BY <2>3, <2>4 DEF CallsTyped
  <1>4. CASE ~(Here(t).op = "POLL" /\ result # 0)
    <2>1. Advance(t, result)
      BY <1>4 DEF Take
    <2> HIDE DEF result
    <2>2. /\ WellFormed(t)' /\ stage' \in [Threads -> Stages] /\ idx' \in [Threads -> Nat]
          /\ got' \in [Threads -> Seq(Nat)]
          /\ \A u \in Threads \ {t} :
                stage'[u] = stage[u] /\ idx'[u] = idx[u] /\ got'[u] = got[u]
      <3>1. stage[t] \in {"bank", "select", "access", "take"} /\ body' = body /\ ~filled'[t]
        BY <1>1
      <3> QED
        BY <1>2, <2>1, <3>1, Advanced
    <2>3. SpiTypeOK'
      BY <1>1, <2>2 DEF CallsTyped, SpiTypeOK
    <2>4. \A u \in Threads \ {t} : WellFormed(u)'
      BY <1>1, <2>2, Untouched
    <2>5. Queued'
      BY <1>1, <2>2 DEF CallsTyped, SpiTypeOK, Queued
    <2> QED
      BY <2>2, <2>3, <2>4, <2>5 DEF CallsTyped
  <1> QED
    BY <1>3, <1>4

\* A step of a call under way, or of the PHY.
LEMMA RunTyped ==
    /\ \A t \in Threads : CallsTyped /\ Run(t) => CallsTyped'
    /\ CallsTyped /\ MiiDone => CallsTyped'
    /\ CallsTyped /\ UNCHANGED spiVars => CallsTyped'
  <1>1. ASSUME CallsTyped, NEW t \in Threads, Run(t) PROVE CallsTyped'
    BY <1>1, LockTyped, UnlockTyped, ReturnTyped, SetBankTyped, FillTyped, SwitchBankTyped,
       TransferTyped, TakeTyped DEF Run
  <1>2. ASSUME CallsTyped, UNCHANGED <<regs, econ1, owner, waiting, enc_address, tx_buffer,
                 rx_buffer, stage, filled, locked, body, idx, got, ret, settled>>,
               busy' \in BOOLEAN
        PROVE  CallsTyped'
    <2>1. SpiTypeOK'
      BY <1>2 DEF CallsTyped, SpiTypeOK
    <2>2. \A u \in Threads : WellFormed(u)'
      BY <1>2, Untouched
    <2>3. Queued'
      BY <1>2 DEF CallsTyped, Queued
    <2> QED
      BY <2>1, <2>2, <2>3 DEF CallsTyped
  <1>3. CallsTyped /\ MiiDone => CallsTyped'
    BY <1>2 DEF MiiDone, mutex, calls
  <1>4. CallsTyped /\ UNCHANGED spiVars => CallsTyped'
    BY <1>2 DEF spiVars, chip, mutex, calls, CallsTyped, SpiTypeOK
  <1> QED
    BY <1>1, <1>3, <1>4

\* What a step of a call means for the call of any thread u: it goes on, it
\* returns with one answer per access, or there is none.
LEMMA RunMoves ==
    ASSUME CallsTyped, NEW t \in Threads, NEW u \in Threads, Run(t)
    PROVE  \/ stage[u] # "out" /\ stage'[u] # "out" /\ body'[u] = body[u]
           \/ stage[u] = "unlock" /\ stage'[u] = "out" /\ Len(ret'[u]) = Len(body[u])
           \/ stage[u] = "out" /\ stage'[u] = "out" /\ ret'[u] = ret[u]
  <1> DEFINE Moves == \/ stage[u] # "out" /\ stage'[u] # "out" /\ body'[u] = body[u]
                      \/ stage[u] = "out" /\ stage'[u] = "out" /\ ret'[u] = ret[u]
  <1>1. \A b, i : EntryStage(b, i) # "out"
    BY DEF EntryStage
  <1>2. ASSUME NEW s, s # "out", stage' = [stage EXCEPT ![t] = s], stage[t] # "out",
               body' = body, ret' = ret
        PROVE  Moves
    BY <1>2 DEF CallsTyped, SpiTypeOK
  <1>3. stage[t] # "out"
    <2>1. filled[t] => stage[t] # "out"
      BY DEF CallsTyped, WellFormed, OnBus
    <2> QED
      BY <2>1 DEF Run, Lock, Unlock, Return, SetBank, Fill, SwitchBank, Transfer, Take, OnBus
  <1>4. CASE Lock(t)
    <2>1. body' = body /\ ret' = ret /\ \E s : s # "out" /\ stage' = [stage EXCEPT ![t] = s]
      BY <1>1, <1>4 DEF Lock, calls
    <2> QED
      BY <1>2, <1>3, <2>1
  <1>5. CASE SetBank(t)
    <2>1. body' = body /\ ret' = ret /\ \E s : s # "out" /\ stage' = [stage EXCEPT ![t] = s]
      BY <1>1, <1>5 DEF SetBank, Advance, calls
    <2> QED
      BY <1>2, <1>3, <2>1
  <1>6. CASE Fill(t)
    BY <1>3, <1>6 DEF Fill, calls
  <1>7. CASE SwitchBank(t)
    <2>1. body' = body /\ ret' = ret /\ \E s : s # "out" /\ stage' = [stage EXCEPT ![t] = s]
      BY ZenonT(30), <1>1, <1>7 DEF SwitchBank, Exchange, Advance, calls
    <2> QED
      BY <1>2, <1>3, <2>1
  <1>8. CASE Transfer(t)
    <2>1. body' = body /\ ret' = ret
      BY <1>8 DEF Transfer, Exchange, calls
    <2>2. \E s : s # "out" /\ stage' = [stage EXCEPT ![t] = s]
      BY <1>1, <1>8 DEF Transfer, Advance
    <2> QED
      BY <1>2, <1>3, <2>1, <2>2
  <1>9. CASE Take(t)
    <2>1. body' = body /\ ret' = ret
      BY <1>9 DEF Take, calls
    <2>2. \E s : s # "out" /\ stage' = [stage EXCEPT ![t] = s]
      BY <1>1, <1>9 DEF Take, Advance
    <2> QED
      BY <1>2, <1>3, <2>1, <2>2
  <1>10. CASE Unlock(t) \/ Return(t)
    <2>1. stage[t] = "unlock" /\ Finish(t) /\ t \notin waiting
      BY <1>10 DEF Unlock, Return, CallsTyped, Queued
    <2>2. \E w \in Threads : /\ w \in waiting \/ w = t
                            /\ \/ stage' = [stage EXCEPT ![t] = "out"]
                               \/ /\ w \in waiting
                                  /\ stage' = [stage EXCEPT ![t] = "out",
                                                           ![w] = EntryStage(body[w], 1)]
      BY <1>10 DEF Unlock, Return, CallsTyped, SpiTypeOK
    <2>3. stage'[t] = "out"
      BY <2>1, <2>2 DEF CallsTyped, SpiTypeOK
    <2>4. /\ Len(ret'[t]) = Len(body[t])
          /\ \A x \in Threads \ {t} : body'[x] = body[x] /\ ret'[x] = ret[x]
      BY <2>1, <2>3, Finished
    <2>5. \A x \in Threads \ {t} :
             stage'[x] = stage[x] \/ (x \in waiting /\ stage'[x] = EntryStage(body[x], 1))
      BY <2>1, <2>2 DEF CallsTyped, SpiTypeOK
    <2>6. \A x \in waiting : stage[x] = "wait"
      BY DEF CallsTyped, Queued
    <2> QED
      BY <1>1, <2>1, <2>3, <2>4, <2>5, <2>6
  <1> QED
    BY <1>4, <1>5, <1>6, <1>7, <1>8, <1>9, <1>10 DEF Run

-----------------------------------------------------------------------------
(* One step of the call graph.                                              *)

\* A site that makes a call.
LEMMA CallMade ==
    ASSUME Typed, NEW t \in Threads, NEW b \in NonEmpty(Good), Make(t, b),
           NEW s \in Sites, Goto(t, s), (t = Lwip /\ s = "rxnd") => Len(b) = 2
    PROVE  CallsTyped' /\ site' \in [Threads -> Sites] /\ TwoBytesRead'
  <1>1. /\ CallsTyped' /\ body'[t] = b /\ stage'[t] # "out"
        /\ \A u \in Threads \ {t} : /\ body'[u] = body[u] /\ stage'[u] = stage[u]
                                    /\ ret'[u] = ret[u]
    <2>1. CallsTyped /\ TakesMutex(b) \in BOOLEAN /\ Begin(t, b, TakesMutex(b))
      BY DEF Typed, TakesMutex, Make
    <2> QED
      BY <2>1, BeginTyped
  <1>2. site \in [Threads -> Sites] /\ site' = [site EXCEPT ![t] = s] /\ Lwip \in Threads
    BY DriverAssumption DEF Typed, DriverTyped, Goto
  <1>3. site' \in [Threads -> Sites]
    BY <1>2
  <1>4. CASE t = Lwip
    BY <1>1, <1>2, <1>4 DEF TwoBytesRead
  <1>5. CASE t # Lwip
    BY <1>1, <1>2, <1>5 DEF Typed, TwoBytesRead
  <1> QED
    BY <1>1, <1>3, <1>4, <1>5

\* A site that makes none.
LEMMA NoCallMade ==
    ASSUME Typed, NEW t \in Threads, Skip(t), NEW s \in Sites \ {"rxnd"}, Goto(t, s)
    PROVE  CallsTyped' /\ site' \in [Threads -> Sites] /\ TwoBytesRead'
  <1>1. CallsTyped' /\ stage' = stage /\ ret' = ret /\ body' = body
    BY RunTyped DEF Typed, Skip, spiVars, calls
  <1>2. site \in [Threads -> Sites] /\ site' = [site EXCEPT ![t] = s] /\ Lwip \in Threads
    BY DriverAssumption DEF Typed, DriverTyped, Goto
  <1>3. site' \in [Threads -> Sites]
    BY <1>2
  <1>4. TwoBytesRead'
    BY <1>1, <1>2 DEF Typed, TwoBytesRead
  <1> QED
    BY <1>1, <1>3, <1>4

\* A step of encInitRegisters, its three loops included.
LEMMA InitRegistersTyped == ASSUME Typed, InitRegisters PROVE Typed'
  <1> DEFINE i == NextInit(k, IF k = 0 THEN 0 ELSE Value(Lwip))
  <1>1. Lwip \in Threads /\ k \in 0..29 /\ site[Lwip] = "init" /\ site \in [Threads -> Sites]
    BY DriverAssumption DEF Typed, DriverTyped, InitRegisters, At
  <1>2. i \in Nat \ {0}
    BY <1>1 DEF NextInit, ClkReady, Drain
  <1>3. UNCHANGED <<next_frame_location, header, frame, txlen, left>>
    BY DEF InitRegisters
  <1>4. CASE i <= Len(InitCalls)
    <2>1. Make(Lwip, InitCalls[i]) /\ k' = i /\ UNCHANGED <<site, up>>
      BY <1>4 DEF InitRegisters
    <2>2. i \in 1..29 /\ InitCalls[i] \in NonEmpty(Good)
      BY <1>2, <1>4, InitCallsGood
    <2>3. Goto(Lwip, "init") /\ "init" \in Sites
      BY <1>1, <2>1 DEF Goto, Sites
    <2>4. CallsTyped' /\ site' \in [Threads -> Sites] /\ TwoBytesRead'
      BY <1>1, <2>1, <2>2, <2>3, CallMade
    <2>5. k' \in 0..29
      BY <2>1, <2>2
    <2> QED
      BY <1>3, <2>1, <2>4, <2>5 DEF Typed, DriverTyped
  <1>5. CASE ~(i <= Len(InitCalls))
    <2>1. Skip(Lwip) /\ Goto(Lwip, "handled") /\ up' = TRUE /\ k' = k
      BY <1>5 DEF InitRegisters
    <2>2. CallsTyped' /\ site' \in [Threads -> Sites] /\ TwoBytesRead'
      BY <1>1, <2>1, NoCallMade DEF Sites
    <2> QED
      BY <1>3, <2>1, <2>2 DEF Typed, DriverTyped
  <1> QED
    BY <1>4, <1>5

\* A call of the receive path, or of the transmit path, that changes no more
\* than the sites.
LEMMA PlainCall ==
    ASSUME Typed, NEW t \in Threads, NEW b \in NonEmpty(Good), Make(t, b),
           NEW s \in Sites \ {"rxnd"}, Goto(t, s), UNCHANGED <<local, txlen, left>>
    PROVE  Typed'
  <1>1. CallsTyped' /\ site' \in [Threads -> Sites] /\ TwoBytesRead'
    BY CallMade
  <1> QED
    BY <1>1 DEF Typed, DriverTyped, local

\* A site that makes no call is passed: only the place in the program moves.
LEMMA PlainSkip ==
    ASSUME Typed, NEW t \in Threads, Skip(t), NEW s \in Sites \ {"rxnd"}, Goto(t, s),
           UNCHANGED <<local, txlen, left>>
    PROVE  Typed'
  <1>1. CallsTyped' /\ site' \in [Threads -> Sites] /\ TwoBytesRead'
    BY NoCallMade
  <1> QED
    BY <1>1 DEF Typed, DriverTyped, local

\* The receive path's calls.
LEMMA ReceiveCalls ==
    /\ encReadRegByte(EPKTCNT) \in NonEmpty(Good)
    /\ \A n \in Nat \ {0}, a \in Nat : encReadBuf(a, n) \in NonEmpty(Low)
    /\ encReadReg(ERXND, LowByteFirst) \in NonEmpty(Low)
    /\ Len(encReadReg(ERXND, LowByteFirst)) = 2
    /\ \A d \in Nat : encWriteReg(ERXRDPT, d) \in NonEmpty(Low)
    /\ encSetBank(ECON2) \in NonEmpty(Low)
    /\ encWriteOp("BFS", ECON2, {PKTDEC}) \in NonEmpty(Low)
  <1>1. encReadRegByte(EPKTCNT) \in NonEmpty(Good)
    <2>1. EPKTCNT \in 0..254 /\ Offset(EPKTCNT) < 26 /\ EPKTCNT \notin MacMii
      BY NoDummyByte DEF EPKTCNT, Offset
    <2> QED
      BY <2>1, GoodWrites
  <1>2. /\ encReadReg(ERXND, LowByteFirst) \in NonEmpty(Low)
        /\ \A d \in Nat : encWriteReg(ERXRDPT, d) \in NonEmpty(Low)
    BY LowWords DEF ERXND, ERXRDPT
  <1>3. Len(encReadReg(ERXND, LowByteFirst)) = 2
    BY DEF encReadReg
  <1>4. /\ encSetBank(ECON2) \in NonEmpty(Low)
        /\ encWriteOp("BFS", ECON2, {PKTDEC}) \in NonEmpty(Low)
    BY OtherAccesses DEF ECON2, PKTDEC
  <1> QED
    BY <1>1, <1>2, <1>3, <1>4, BufferTransfers

\* The transmit path's calls.
LEMMA TransmitCalls ==
    /\ \A d \in Nat : /\ encWriteReg(ETXST, d) \in NonEmpty(Low)
                      /\ encWriteReg(ETXND, d) \in NonEmpty(Low)
    /\ \A n \in Nat \ {0} : /\ encWriteBufRaw(n) \in NonEmpty(Low)
                            /\ \A a \in Nat : /\ encWriteBuf(a, n) \in NonEmpty(Low)
                                              /\ encReadBuf(a, n) \in NonEmpty(Low)
    /\ encWriteOp("BFS", ECON1, {TXRTS}) \in NonEmpty(Low)
    /\ encReadRegByte(ECON1) \in NonEmpty(Low)
  <1>1. \A d \in Nat : /\ encWriteReg(ETXST, d) \in NonEmpty(Low)
                      /\ encWriteReg(ETXND, d) \in NonEmpty(Low)
    BY LowWords DEF ETXST, ETXND
  <1>2. encWriteOp("BFS", ECON1, {TXRTS}) \in NonEmpty(Low)
    BY OtherAccesses DEF ECON1, TXRTS
  <1>3. encReadRegByte(ECON1) \in NonEmpty(Low)
    <2>1. ECON1 \in 0..31
      BY DEF ECON1
    <2>2. Rcr(ECON1) \in Low
      BY <2>1, PlainAccesses
    <2> QED
      BY <2>2, Calls DEF encReadRegByte
  <1> QED
    BY <1>1, <1>2, <1>3, BufferTransfers

\* The word that ReleaseToEnd writes back.
LEMMA WordTyped ==
    ASSUME NEW answers \in Seq(Nat), Len(answers) = 2
    PROVE  Word(answers, LowByteFirst) \in Nat
  <1>1. answers[1] \in Nat /\ answers[2] \in Nat
    OBVIOUS
  <1> QED
    BY <1>1 DEF Word

\* A step of low_level_input: the count, the header, the payload, the end.
LEMMA ReceiveTyped == ASSUME Typed, Receive PROVE Typed'
  <1>1. /\ Lwip \in Threads /\ NextPointers \subseteq 0..RXSTOP_INIT
        /\ RxLens \subseteq 1..1518
        /\ header \in 0..RXSTOP_INIT /\ next_frame_location \in 0..RXSTOP_INIT
        /\ RXSTOP_INIT \in Nat /\ frame \in BOOLEAN
    <2>1. RXSTOP_INIT \in Nat
      BY DEF RXSTOP_INIT
    <2> QED
      BY <2>1, DriverAssumption DEF Typed, DriverTyped
  <1>2. CASE PollPacketCount
    BY <1>1, <1>2, ReceiveCalls, PlainCall DEF PollPacketCount, Sites
  <1>3. CASE NoPacket
    BY <1>1, <1>3, PlainSkip DEF NoPacket, Sites
  <1>4. CASE ReceiveStart
    <2>1. /\ Make(Lwip, encReadBuf(next_frame_location, 6)) /\ Goto(Lwip, "alloc")
          /\ header' \in NextPointers /\ UNCHANGED <<k, up, next_frame_location, frame, txlen, left>>
      BY <1>4 DEF ReceiveStart
    <2>2. encReadBuf(next_frame_location, 6) \in NonEmpty(Good)
      <3>1. next_frame_location \in Nat /\ 6 \in Nat \ {0}
        BY <1>1
      <3> QED
        BY <3>1, ReceiveCalls, LowIsGood
    <2>3. CallsTyped' /\ site' \in [Threads -> Sites] /\ TwoBytesRead'
      BY <1>1, <2>1, <2>2, CallMade DEF Sites
    <2> QED
      BY <1>1, <2>1, <2>3 DEF Typed, DriverTyped
  <1>5. CASE ReadPayload
    <2>1. PICK len \in RxLens : Make(Lwip, encReadBuf(ENC_READLOCATION_ANY, len))
      BY <1>5 DEF ReadPayload
    <2>2. /\ Goto(Lwip, "end") /\ frame' = TRUE
          /\ UNCHANGED <<k, up, next_frame_location, header, txlen, left>>
      BY <1>5 DEF ReadPayload
    <2>3. encReadBuf(ENC_READLOCATION_ANY, len) \in NonEmpty(Good)
      BY <1>1, ReceiveCalls, LowIsGood DEF ENC_READLOCATION_ANY
    <2>4. CallsTyped' /\ site' \in [Threads -> Sites] /\ TwoBytesRead'
      BY <1>1, <2>1, <2>2, <2>3, CallMade DEF Sites
    <2> QED
      BY <2>2, <2>4 DEF Typed, DriverTyped
  <1>6. CASE AllocFails
    BY <1>1, <1>6, PlainSkip DEF AllocFails, Sites
  <1>7. CASE ReleaseFrame
    <2>1. next_frame_location' = header /\ UNCHANGED <<k, up, header, frame, txlen, left>>
      BY <1>7 DEF ReleaseFrame
    <2>2. CASE header = 0
      <3>1. Make(Lwip, encReadReg(ERXND, LowByteFirst)) /\ Goto(Lwip, "rxnd")
        BY <1>7, <2>2 DEF ReleaseFrame
      <3>2. /\ encReadReg(ERXND, LowByteFirst) \in NonEmpty(Good)
            /\ Len(encReadReg(ERXND, LowByteFirst)) = 2 /\ "rxnd" \in Sites
        BY ReceiveCalls, LowIsGood DEF Sites
      <3>3. CallsTyped' /\ site' \in [Threads -> Sites] /\ TwoBytesRead'
        BY <1>1, <3>1, <3>2, CallMade
      <3> QED
        BY <1>1, <2>1, <3>3 DEF Typed, DriverTyped
    <2>3. CASE header # 0
      <3>1. Make(Lwip, encWriteReg(ERXRDPT, header - 1)) /\ Goto(Lwip, "bank")
        BY <1>7, <2>3 DEF ReleaseFrame
      <3>2. header - 1 \in Nat
        BY <1>1, <2>3
      <3>3. encWriteReg(ERXRDPT, header - 1) \in NonEmpty(Good) /\ "bank" \in Sites
        BY <3>2, ReceiveCalls, LowIsGood DEF Sites
      <3>4. CallsTyped' /\ site' \in [Threads -> Sites] /\ TwoBytesRead'
        BY <1>1, <3>1, <3>3, CallMade
      <3> QED
        BY <1>1, <2>1, <3>4 DEF Typed, DriverTyped
    <2> QED
      BY <2>2, <2>3
  <1>8. CASE ReleaseToEnd
    <2>1. /\ Make(Lwip, encWriteReg(ERXRDPT, Word(ret[Lwip], LowByteFirst))) /\ Goto(Lwip, "bank")
          /\ UNCHANGED <<local, txlen, left>> /\ stage[Lwip] = "out" /\ site[Lwip] = "rxnd"
      BY <1>8 DEF ReleaseToEnd, At
    <2>2. ret[Lwip] \in Seq(Nat) /\ Len(ret[Lwip]) = 2
      BY <1>1, <2>1 DEF Typed, CallsTyped, SpiTypeOK, TwoBytesRead
    <2>3. Word(ret[Lwip], LowByteFirst) \in Nat
      BY <2>2, WordTyped
    <2>4. encWriteReg(ERXRDPT, Word(ret[Lwip], LowByteFirst)) \in NonEmpty(Good)
          /\ "bank" \in Sites \ {"rxnd"}
      BY <2>3, ReceiveCalls, LowIsGood DEF Sites
    <2> QED
      BY <1>1, <2>1, <2>4, PlainCall
  <1>9. CASE BankForDecrement
    BY <1>1, <1>9, ReceiveCalls, LowIsGood, PlainCall DEF BankForDecrement, Sites
  <1>10. CASE Decrement
    <2> DEFINE s == IF frame THEN "handled" ELSE "poll"
    <2>1. /\ Make(Lwip, encWriteOp("BFS", ECON2, {PKTDEC})) /\ Goto(Lwip, s)
          /\ frame' = FALSE /\ UNCHANGED <<k, up, next_frame_location, header, txlen, left>>
      BY <1>10 DEF Decrement
    <2>2. encWriteOp("BFS", ECON2, {PKTDEC}) \in NonEmpty(Good) /\ s \in Sites /\ s # "rxnd"
      BY ReceiveCalls, LowIsGood DEF Sites
    <2> HIDE DEF s
    <2>3. CallsTyped' /\ site' \in [Threads -> Sites] /\ TwoBytesRead'
      BY <1>1, <2>1, <2>2, CallMade
    <2>4. frame' \in BOOLEAN
      BY <2>1
    <2> QED
      BY <2>1, <2>3, <2>4 DEF Typed, DriverTyped
  <1>11. CASE BackToPolling
    BY <1>1, <1>11, PlainSkip DEF BackToPolling, Sites
  <1> QED
    BY <1>2, <1>3, <1>4, <1>5, <1>6, <1>7, <1>8, <1>9, <1>10, <1>11 DEF Receive

\* Lengths of frames and of what is left of them.
LEMMA LensTyped ==
    /\ FrameLens \subseteq Nat /\ 0 \in FrameLens /\ TxLens \subseteq FrameLens
    /\ \A m \in FrameLens : \A x \in 1..m : x \in Nat \ {0} /\ m - x \in FrameLens
  <1>1. FrameLens \subseteq Nat /\ 0 \in FrameLens
    BY DEF FrameLens
  <1>2. TxLens \subseteq FrameLens
    BY DriverAssumption DEF FrameLens
  <1>3. ASSUME NEW m \in FrameLens, NEW x \in 1..m PROVE x \in Nat \ {0} /\ m - x \in FrameLens
    <2>1. m \in Nat /\ m <= 1518
      BY DEF FrameLens
    <2>2. x \in Nat \ {0} /\ m - x \in Nat /\ m - x <= 1518
      BY <2>1
    <2> QED
      BY <2>2 DEF FrameLens
  <1> QED
    BY <1>1, <1>2, <1>3

\* A step of low_level_output, in whichever thread runs it.
LEMMA TransmitTyped == ASSUME Typed, NEW t \in Threads, Transmit(t) PROVE Typed'
  <1>1. /\ TxLens \subseteq FrameLens /\ rxbufsize \in Nat
        /\ txlen \in [Threads -> FrameLens] /\ left \in [Threads -> FrameLens]
        /\ txlen[t] \in FrameLens /\ left[t] \in FrameLens
    <2>1. rxbufsize \in Nat
      BY DEF rxbufsize, RXSTOP_INIT
    <2>4. TxLens \subseteq FrameLens
      BY DriverAssumption, LensTyped
    <2>2. /\ txlen \in [Threads -> FrameLens] /\ left \in [Threads -> FrameLens]
      BY DEF Typed, DriverTyped
    <2> HIDE DEF rxbufsize
    <2>3. txlen[t] \in FrameLens /\ left[t] \in FrameLens
      BY <2>2
    <2> QED
      BY <2>1, <2>2, <2>3, <2>4
  <1>2. CASE TransmitStart(t)
    <2>1. PICK n \in TxLens : /\ txlen' = [txlen EXCEPT ![t] = n]
                             /\ left' = [left EXCEPT ![t] = n]
      BY <1>2 DEF TransmitStart
    <2>2. Make(t, encWriteReg(ETXST, rxbufsize)) /\ Goto(t, "control") /\ UNCHANGED local
      BY <1>2 DEF TransmitStart
    <2>3. encWriteReg(ETXST, rxbufsize) \in NonEmpty(Good) /\ "control" \in Sites
      BY <1>1, TransmitCalls, LowIsGood DEF Sites
    <2>4. CallsTyped' /\ site' \in [Threads -> Sites] /\ TwoBytesRead'
      BY <2>2, <2>3, CallMade
    <2>5. n \in FrameLens
      BY <1>1
    <2>6. txlen' \in [Threads -> FrameLens] /\ left' \in [Threads -> FrameLens]
      <3>1. txlen' \in [Threads -> FrameLens]
        BY <1>1, <2>1, <2>5
      <3>2. left' \in [Threads -> FrameLens]
        BY <1>1, <2>1, <2>5
      <3> QED
        BY <3>1, <3>2
    <2> QED
      BY <2>2, <2>4, <2>6 DEF Typed, DriverTyped, local
  <1>3. CASE ControlByte(t)
    <2>1. encWriteBuf(rxbufsize, 1) \in NonEmpty(Good)
      <3>1. 1 \in Nat \ {0}
        OBVIOUS
      <3> QED
        BY <1>1, <3>1, TransmitCalls, LowIsGood
    <2> QED
      BY <1>3, <2>1, PlainCall DEF ControlByte, Sites
  <1>4. CASE TransmitPartial(t)
    <2>1. PICK n \in 1..left[t] : /\ Make(t, encWriteBufRaw(n))
                                 /\ left' = [left EXCEPT ![t] = left[t] - n]
                                 /\ Goto(t, IF n = left[t] THEN "txnd" ELSE "partial")
      BY <1>4 DEF TransmitPartial
    <2>2. UNCHANGED <<local, txlen>>
      BY <1>4 DEF TransmitPartial
    <2>3. n \in Nat \ {0} /\ left[t] - n \in FrameLens
      BY <1>1, LensTyped
    <2> DEFINE s == IF n = left[t] THEN "txnd" ELSE "partial"
    <2>4. encWriteBufRaw(n) \in NonEmpty(Good) /\ s \in Sites /\ s # "rxnd"
      BY <2>3, TransmitCalls, LowIsGood DEF Sites
    <2>5. Goto(t, s)
      BY <2>1
    <2> HIDE DEF s
    <2>6. CallsTyped' /\ site' \in [Threads -> Sites] /\ TwoBytesRead'
      BY <2>1, <2>4, <2>5, CallMade
    <2>7. left' \in [Threads -> FrameLens]
      BY <1>1, <2>1, <2>3
    <2> QED
      BY <2>2, <2>6, <2>7 DEF Typed, DriverTyped, local
  <1>5. CASE TransmitEnd(t)
    <2>1. encWriteReg(ETXND, rxbufsize + 1 + txlen[t] - 1) \in NonEmpty(Good)
      <3>1. \A m, x \in Nat : m + 1 + x - 1 \in Nat
        OBVIOUS
      <3>2. rxbufsize + 1 + txlen[t] - 1 \in Nat
        BY <1>1, <3>1, LensTyped
      <3> QED
        BY <3>2, TransmitCalls, LowIsGood
    <2> QED
      BY <1>5, <2>1, PlainCall DEF TransmitEnd, Sites
  <1>6. CASE RequestToSend(t)
    BY <1>6, TransmitCalls, LowIsGood, PlainCall DEF RequestToSend, Sites
  <1>7. CASE Spin(t)
    BY <1>7, TransmitCalls, LowIsGood, PlainCall DEF Spin, Sites
  <1>8. CASE ReadBack(t)
    <2>1. encReadBuf(rxbufsize, 45) \in NonEmpty(Good)
      <3>1. 45 \in Nat \ {0}
        OBVIOUS
      <3> QED
        BY <1>1, <3>1, TransmitCalls, LowIsGood
    <2> QED
      BY <1>8, <2>1, PlainCall DEF ReadBack, Sites
  <1>9. CASE ReadResult(t)
    <2> DEFINE s == IF t = Lwip THEN "handled" ELSE "idle"
               a == rxbufsize + 1 + txlen[t]
    <2>1. /\ Make(t, encReadBuf(a, 7)) /\ txlen' = [txlen EXCEPT ![t] = 0] /\ Goto(t, s)
          /\ UNCHANGED <<local, left>>
      BY <1>9 DEF ReadResult
    <2>2. encReadBuf(a, 7) \in NonEmpty(Good)
      <3>1. \A m, x \in Nat : m + 1 + x \in Nat
        OBVIOUS
      <3>2. txlen[t] \in Nat
        BY <1>1, LensTyped
      <3>3. a \in Nat
        BY <1>1, <3>1, <3>2
      <3>4. 7 \in Nat \ {0}
        OBVIOUS
      <3> HIDE DEF a
      <3> QED
        BY <3>3, <3>4, TransmitCalls, LowIsGood
    <2>3. s \in Sites /\ s # "rxnd"
      BY DEF Sites
    <2> HIDE DEF s, a
    <2>4. CallsTyped' /\ site' \in [Threads -> Sites] /\ TwoBytesRead'
      BY <2>1, <2>2, <2>3, CallMade
    <2>5. txlen' \in [Threads -> FrameLens]
      BY <1>1, <2>1, LensTyped
    <2> QED
      BY <2>1, <2>4, <2>5 DEF Typed, DriverTyped, local
  <1> QED
    BY <1>2, <1>3, <1>4, <1>5, <1>6, <1>7, <1>8, <1>9 DEF Transmit

\* A step that leaves the call graph alone keeps what it says of the values read.
LEMMA ReadKept ==
    ASSUME Typed, CallsTyped', UNCHANGED driverVars,
           \/ UNCHANGED <<stage, body, ret>> \/ \E t \in Threads : Run(t)
    PROVE  Typed'
  <1>1. site' = site /\ DriverTyped'
    BY DEF Typed, DriverTyped, driverVars, local
  <1>2. TwoBytesRead'
    <2>1. CASE UNCHANGED <<stage, body, ret>>
      BY <1>1, <2>1 DEF Typed, TwoBytesRead
    <2>2. CASE \E t \in Threads : Run(t)
      <3>1. Lwip \in Threads
        BY DriverAssumption
      <3>2. \/ stage[Lwip] # "out" /\ stage'[Lwip] # "out" /\ body'[Lwip] = body[Lwip]
            \/ /\ stage[Lwip] = "unlock" /\ stage'[Lwip] = "out"
               /\ Len(ret'[Lwip]) = Len(body[Lwip])
            \/ stage[Lwip] = "out" /\ stage'[Lwip] = "out" /\ ret'[Lwip] = ret[Lwip]
        BY <2>2, <3>1, RunMoves DEF Typed
      <3> QED
        BY <1>1, <3>2 DEF Typed, TwoBytesRead
    <2> QED
      BY <2>1, <2>2
  <1> QED
    BY <1>1, <1>2 DEF Typed

\* The strengthened type invariant holds at first and is kept by every step.
LEMMA InitTyped == DriverInit => Typed
  <1> SUFFICES ASSUME DriverInit PROVE Typed
    OBVIOUS
  <1>1. SpiTypeOK
    <2>1. ResetRegs \in Registers
      BY DEF ResetRegs, Registers
    <2>2. Cmd("RCR", 0, 0, {}) \in Command
      BY DEF Cmd, Command
    <2>3. << >> \in Seq(Access) /\ << >> \in Seq(Nat) /\ "out" \in Stages
      BY DEF Stages
    <2>4. /\ stage \in [Threads -> Stages] /\ filled \in [Threads -> BOOLEAN]
          /\ locked \in [Threads -> BOOLEAN]
      BY <2>3 DEF DriverInit, SpiInit
    <2>5. body \in [Threads -> Seq(Access)] /\ idx \in [Threads -> Nat]
      BY <2>3 DEF DriverInit, SpiInit
    <2>6. got \in [Threads -> Seq(Nat)] /\ ret \in [Threads -> Seq(Nat)]
      BY <2>3 DEF DriverInit, SpiInit
    <2>7. regs \in Registers /\ settled \in Registers
      BY <2>1 DEF DriverInit, SpiInit
    <2>10. busy \in BOOLEAN
      BY DEF DriverInit, SpiInit
    <2>8. /\ econ1 \subseteq 0..7
          /\ owner \in Threads \cup {NoThread} /\ waiting \subseteq Threads
          /\ enc_address \in 0..3
      BY DEF DriverInit, SpiInit
    <2>9. tx_buffer \in Command /\ rx_buffer \in (0..255) \X (0..255)
      BY <2>2 DEF DriverInit, SpiInit
    <2> QED
      BY <2>4, <2>5, <2>6, <2>7, <2>8, <2>9, <2>10 DEF SpiTypeOK, Registers
  <1>2. \A t \in Threads : WellFormed(t)
    BY DEF DriverInit, SpiInit, WellFormed
  <1>3. Queued
    BY DEF DriverInit, SpiInit, Queued
  <1>4. DriverTyped
    <2>1. site \in [Threads -> Sites]
      BY DEF DriverInit, Sites
    <2>2. txlen \in [Threads -> FrameLens]
      BY LensTyped DEF DriverInit
    <2>3. left \in [Threads -> FrameLens]
      BY LensTyped DEF DriverInit
    <2>5. up \in BOOLEAN
      BY DEF DriverInit
    <2>6. frame \in BOOLEAN
      BY DEF DriverInit
    <2>4. /\ k \in 0..29
          /\ next_frame_location \in 0..RXSTOP_INIT /\ header \in 0..RXSTOP_INIT
      <3>1. 0 \in 0..RXSTOP_INIT
        BY DEF RXSTOP_INIT
      <3> QED
        BY <3>1 DEF DriverInit
    <2> QED
      BY <2>1, <2>2, <2>3, <2>4, <2>5, <2>6 DEF DriverTyped
  <1>5. TwoBytesRead
    BY DriverAssumption DEF DriverInit, TwoBytesRead
  <1> QED
    BY <1>1, <1>2, <1>3, <1>4, <1>5 DEF Typed, CallsTyped

\* Every step keeps the types.
LEMMA NextTyped == Typed /\ [Next]_vars => Typed'
  <1> SUFFICES ASSUME Typed, [Next]_vars PROVE Typed'
    OBVIOUS
  <1>1. CASE Driver
    BY <1>1, InitRegistersTyped, ReceiveTyped, TransmitTyped DEF Driver
  <1>2. CASE \E t \in Threads : InCall(t)
    <2>1. CallsTyped' /\ UNCHANGED driverVars /\ \E t \in Threads : Run(t)
      BY <1>2, RunTyped DEF InCall, Typed
    <2> QED
      BY <2>1, ReadKept
  <1>3. CASE MiiDone /\ UNCHANGED driverVars
    <2>1. CallsTyped' /\ UNCHANGED <<stage, body, ret>>
      BY <1>3, RunTyped DEF MiiDone, Typed, calls
    <2> QED
      BY <1>3, <2>1, ReadKept
  <1>4. CASE UNCHANGED vars
    <2>1. CallsTyped' /\ UNCHANGED <<stage, body, ret>> /\ UNCHANGED driverVars
      BY <1>4, RunTyped DEF vars, spiVars, Typed, calls
    <2> QED
      BY <2>1, ReadKept
  <1> QED
    BY <1>1, <1>2, <1>3, <1>4 DEF Next

\* The type invariant holds in every reachable state.
LEMMA AlwaysTyped == Spec => []Typed
  BY InitTyped, NextTyped, PTL DEF Spec

\* Every variable keeps its type: in particular tx_buffer only ever holds
\* commands of the chip, and every address, bank and byte is in its range.
THEOREM TypeCorrect == Spec => []TypeOK
  <1>1. Typed => TypeOK
    BY InitCallsGood DEF Typed, CallsTyped, DriverTyped, Sites, FrameLens, TypeOK
  <1> QED
    BY <1>1, AlwaysTyped, PTL
=============================================================================

--------------------------- MODULE EncBankProofs ----------------------------
(***************************************************************************)
(* The bank cache and SPIMutex, proved for every instance of EncDriver:    *)
(* only the owner of SPIMutex is on the bus, enc_address is never stale    *)
(* when the mutex is free, and an access lands on the register it names.   *)
(* From this: every public call happens at once, as AtomicRegs says.       *)
(***************************************************************************)
EXTENDS EncDriverProofs, WellFoundedInduction

Inside == {"bank", "clear", "select", "access", "take", "unlock"}

\* SPIMutex's owner is the one thread inside a call that takes it; a call that
\* does not take it never gets further than the test of the bank.
MutexKept(t) ==
    /\ (locked[t] /\ stage[t] \in Inside) => owner = t
    /\ owner = t => locked[t] /\ stage[t] \in Inside
    /\ stage[t] \in {"lock", "wait"} => locked[t]
    /\ (stage[t] \in Inside /\ ~locked[t]) => stage[t] \in {"bank", "unlock"}

\* What enc_address and tx_buffer say while a thread is between its test of the
\* bank and its access.
BankKept(t) ==
    /\ stage[t] \in {"clear", "select"} => enc_address = BankOf(Here(t).a)
    /\ (stage[t] = "access" /\ NeedsBank(Here(t))) => enc_address = BankOf(Here(t).a)
    /\ stage[t] = "select" => econ1 \cap BSEL = {}
    /\ filled[t] => tx_buffer = Intended(t)

CacheKept == (\A t \in Threads : stage[t] \notin {"clear", "select"}) => Bank = enc_address

\* Why the calls made without the mutex find bank 0: nobody but lwip_thread
\* uses another bank, and lwip_thread's call before them left bank 0.
ZeroSite == site[Lwip] = "decrement" \/ (site[Lwip] = "init" /\ k <= 3)
Released == site[Lwip] \in {"rxnd", "bank"}
Tested   == stage[Lwip] \notin {"lock", "wait"} /\ ~(stage[Lwip] = "bank" /\ idx[Lwip] = 1)
LowSite  == site[Lwip] \notin {"init", "counted"} \/ ZeroSite

OthersLow    == \A t \in Threads \ {Lwip} :
                    body[t] \in Seq(Low) /\ (stage[t] # "out" => locked[t])
LwipLow      == (LowSite /\ stage[Lwip] # "out") => body[Lwip] \in Seq(Low)
UnlockedCall == (stage[Lwip] # "out" /\ ~locked[Lwip]) =>
                    ZeroSite /\ Len(body[Lwip]) = 1 /\ body[Lwip][1].op = "BANK"
ZeroBank     == ZeroSite \/ (Released /\ Tested) => enc_address = 0
BankTested   == (Released /\ stage[Lwip] # "out") => NeedsBank(body[Lwip][1])
Quiet == OthersLow /\ LwipLow /\ UnlockedCall /\ ZeroBank /\ BankTested

Protocol == \A t \in Threads : MutexKept(t) /\ BankKept(t)

\* The inductive invariant, beside the types.
Safe    == Protocol /\ CacheKept /\ Quiet
BankInv == Typed /\ Safe

-----------------------------------------------------------------------------
(* Its consequences.                                                        *)

\* Nobody else is on the bus with the owner.
LEMMA Alone ==
    ASSUME Protocol, NEW t \in Threads, owner = t, NEW u \in Threads \ {t}
    PROVE  stage[u] \notin OnBus \cup {"take"}
  <1>1. MutexKept(u)
    BY DEF Protocol
  <1> QED
    BY <1>1 DEF MutexKept, OnBus, Inside

\* Whoever is on the bus owns the mutex.
LEMMA OwnsBus ==
    ASSUME Protocol, NEW t \in Threads, stage[t] \in OnBus \cup {"take"}
    PROVE  owner = t /\ locked[t]
  <1>1. MutexKept(t)
    BY DEF Protocol
  <1> QED
    BY <1>1 DEF MutexKept, OnBus, Inside

\* The bits of ECON1 say the bank they were set to.
LEMMA BankOfBits ==
    ASSUME NEW b \in 0..3
    PROVE  /\ BankBits(b) \subseteq BSEL
           /\ (IF BankBits(b) = {} THEN 0 ELSE IF BankBits(b) = {0} THEN 1
               ELSE IF BankBits(b) = {1} THEN 2 ELSE 3) = b
  <1>1. BankBits(b) \subseteq BSEL
    BY DEF BankBits, BSEL
  <1>2. /\ (0 \in BankBits(b) <=> b = 1 \/ b = 3)
        /\ (1 \in BankBits(b) <=> b = 2 \/ b = 3)
    BY DEF BankBits
  <1>3. CASE b = 0
    BY <1>1, <1>2, <1>3 DEF BSEL
  <1>4. CASE b = 1
    <2>1. BankBits(b) = {0}
      BY <1>1, <1>2, <1>4 DEF BSEL
    <2>2. {0} # {}
      OBVIOUS
    <2> QED
      BY <1>1, <1>4, <2>1, <2>2
  <1>5. CASE b = 2
    <2>1. BankBits(b) = {1}
      BY <1>1, <1>2, <1>5 DEF BSEL
    <2>2. BankBits(b) # {} /\ BankBits(b) # {0}
      BY <1>2, <1>5
    <2> QED
      BY <1>1, <1>5, <2>1, <2>2
  <1>6. CASE b = 3
    <2>1. 0 \in BankBits(b) /\ 1 \in BankBits(b)
      BY <1>2, <1>6
    <2>2. BankBits(b) # {} /\ BankBits(b) # {0} /\ BankBits(b) # {1}
      BY <2>1
    <2> QED
      BY <1>1, <1>6, <2>2
  <1> QED
    BY <1>1, <1>3, <1>4, <1>5, <1>6

\* The register that a good access lands on, its bank being selected.
LEMMA LandsRight ==
    ASSUME NEW x \in Good
    PROVE  Reg(BankOf(x.a), Offset(x.a)) = x.a % 128
  <1>1. x.a \in 0..255
    BY DEF Good, Access
  <1>2. x.a % 128 = 32 * BankOf(x.a) + Offset(x.a) /\ BankOf(x.a) \in 0..3 /\ Offset(x.a) \in 0..31
    BY <1>1, BankRange
  <1>3. Offset(x.a) >= 27 => BankOf(x.a) = 0
    BY DEF Good
  <1> QED
    BY <1>2, <1>3 DEF Reg

\* What the invariant is for.
LEMMA InvImplies == BankInv => BusUnderMutex /\ BankCoherent /\ RightRegister
  <1> SUFFICES ASSUME BankInv PROVE BusUnderMutex /\ BankCoherent /\ RightRegister
    OBVIOUS
  <1>1. BusUnderMutex
    BY OwnsBus DEF BankInv, Safe, BusUnderMutex
  <1>2. BankCoherent
    <2>1. SUFFICES ASSUME owner = NoThread PROVE Bank = enc_address
      BY DEF BankCoherent
    <2>2. ASSUME NEW t \in Threads PROVE stage[t] \notin {"clear", "select"}
      BY <2>1, OwnsBus, ThreadsAssumption DEF BankInv, Safe, OnBus
    <2> QED
      BY <2>2 DEF BankInv, Safe, CacheKept
  <1>3. RightRegister
    <2>1. SUFFICES ASSUME NEW t \in Threads, stage[t] = "access", filled[t]
                   PROVE  /\ tx_buffer = Intended(t)
                          /\ NeedsBank(Here(t)) => Target = Here(t).a % 128
      BY DEF RightRegister
    <2>2. BankKept(t) /\ owner = t
      BY <2>1, OwnsBus DEF BankInv, Safe, Protocol, OnBus
    <2>3. tx_buffer = Intended(t)
      BY <2>1, <2>2 DEF BankKept
    <2>4. ASSUME NeedsBank(Here(t)) PROVE Target = Here(t).a % 128
      <3>1. enc_address = BankOf(Here(t).a)
        BY <2>1, <2>2, <2>4 DEF BankKept
      <3>2. Bank = enc_address
        <4>1. \A u \in Threads : stage[u] \notin {"clear", "select"}
          BY <2>1, <2>2, Alone DEF BankInv, Safe, OnBus
        <4> QED
          BY <4>1 DEF BankInv, Safe, CacheKept
      <3>3. tx_buffer.offset = Offset(Here(t).a)
        BY <2>1, <2>3 DEF Intended, Cmd
      <3>4. Here(t) \in Good
        BY <2>1, HereTyped DEF BankInv, Typed
      <3> QED
        BY <3>1, <3>2, <3>3, <3>4, LandsRight DEF Target
    <2> QED
      BY <2>3, <2>4
  <1> QED
    BY <1>1, <1>2, <1>3

-----------------------------------------------------------------------------
(* Threads that a step does not concern, and the parts a step leaves alone. *)

\* A thread that neither moves nor sees the bank change.
LEMMA Bystander ==
    ASSUME NEW u, MutexKept(u), BankKept(u), owner' = owner, stage'[u] = stage[u],
           locked'[u] = locked[u], body'[u] = body[u], idx'[u] = idx[u], filled'[u] = filled[u],
           enc_address' = enc_address, econ1' = econ1, tx_buffer' = tx_buffer
    PROVE  MutexKept(u)' /\ BankKept(u)'
  <1>1. Here(u)' = Here(u) /\ Intended(u)' = Intended(u)
    BY DEF Here, Intended
  <1>2. MutexKept(u)'
    BY DEF MutexKept
  <1>3. BankKept(u)'
    BY <1>1 DEF BankKept
  <1> QED
    BY <1>2, <1>3

\* While t owns the mutex, nobody else depends on the bank.
LEMMA Outsider ==
    ASSUME CallsTyped, Protocol, NEW t \in Threads, owner = t, owner' = t,
           NEW u \in Threads \ {t}, stage'[u] = stage[u], locked'[u] = locked[u],
           filled'[u] = filled[u]
    PROVE  MutexKept(u)' /\ BankKept(u)'
  <1>1. stage[u] \notin OnBus \cup {"take"} /\ MutexKept(u)
    BY Alone DEF Protocol
  <1>2. ~filled'[u]
    BY <1>1 DEF CallsTyped, WellFormed
  <1>3. MutexKept(u)'
    BY <1>1 DEF MutexKept
  <1>4. BankKept(u)'
    BY <1>1, <1>2 DEF BankKept, OnBus
  <1> QED
    BY <1>3, <1>4

\* The owner stays inside its call.
LEMMA StillOwner ==
    ASSUME NEW t, owner' = t, locked'[t], stage'[t] \in Inside
    PROVE  MutexKept(t)'
  BY DEF MutexKept, Inside

\* The calls that are made say no more and no less than before.
LEMMA QuietStays ==
    ASSUME Quiet, UNCHANGED <<driverVars, body, locked>>,
           \A u \in Threads : (stage'[u] = "out") <=> (stage[u] = "out"),
           ZeroSite \/ (Released /\ Tested') => enc_address' = 0
    PROVE  Quiet'
  <1>1. /\ ZeroSite' = ZeroSite /\ Released' = Released /\ LowSite' = LowSite
    BY DEF ZeroSite, Released, LowSite, driverVars, local
  <1>2. (stage'[Lwip] = "out") <=> (stage[Lwip] = "out")
    BY DriverAssumption
  <1>3. OthersLow'
    BY DEF Quiet, OthersLow
  <1>4. LwipLow' /\ UnlockedCall' /\ BankTested'
    BY <1>1, <1>2 DEF Quiet, LwipLow, UnlockedCall, BankTested
  <1>5. ZeroBank'
    BY <1>1 DEF ZeroBank
  <1> QED
    BY <1>3, <1>4, <1>5 DEF Quiet

-----------------------------------------------------------------------------
(* One lemma per action of a call under way.                                *)

\* Threads that enter their accesses start with a test of the bank, or with a
\* transfer that needs none.
LEMMA Entering ==
    ASSUME CallsTyped, NEW u \in Threads, stage[u] \in {"lock", "wait"},
           stage'[u] = EntryStage(body[u], 1), body'[u] = body[u], idx'[u] = idx[u],
           filled'[u] = filled[u], locked'[u], owner' = u
    PROVE  /\ MutexKept(u)' /\ BankKept(u)'
           /\ stage'[u] \in {"bank", "access"}
           /\ NeedsBank(body[u][1]) => stage'[u] = "bank" /\ idx'[u] = 1
  <1>1. /\ body[u] \in Seq(Good) /\ idx[u] = 1 /\ Len(body[u]) \in Nat \ {0} /\ ~filled[u]
    BY DEF CallsTyped, WellFormed, OnBus
  <1>2. \/ stage'[u] = "bank" /\ NeedsBank(body[u][1])
        \/ stage'[u] = "access" /\ ~NeedsBank(body[u][1])
    <2>1. 1 \in 1..(Len(body[u]) + 1)
      BY <1>1
    <2> QED
      BY <1>1, <2>1, EntryStageTyped DEF NeedsBank
  <1>3. Here(u)' = body[u][1]
    BY <1>1 DEF Here
  <1>4. MutexKept(u)'
    BY <1>2 DEF MutexKept, Inside
  <1>5. BankKept(u)'
    BY <1>1, <1>2, <1>3 DEF BankKept
  <1> QED
    BY <1>1, <1>2, <1>4, <1>5

\* The mutex goes to a thread that finds it free; otherwise it only queues.
LEMMA LockSafe ==
    ASSUME BankInv, NEW t \in Threads, Lock(t), UNCHANGED driverVars PROVE Safe'
  <1>1. /\ stage[t] = "lock" /\ CallsTyped /\ Protocol /\ locked[t] /\ Quiet
        /\ UNCHANGED <<regs, econ1, busy, enc_address, tx_buffer, rx_buffer, filled,
                       locked, body, idx, got, ret, settled>>
    BY DEF Lock, chip, calls, BankInv, Typed, Safe, Protocol, MutexKept
  <1>2. CASE owner = NoThread
    <2>1. owner' = t /\ stage' = [stage EXCEPT ![t] = EntryStage(body[t], 1)]
      BY <1>2 DEF Lock
    <2>2. stage'[t] = EntryStage(body[t], 1) /\ \A u \in Threads \ {t} : stage'[u] = stage[u]
      BY <1>1, <2>1 DEF CallsTyped, SpiTypeOK
    <2>3. /\ MutexKept(t)' /\ BankKept(t)' /\ stage'[t] \in {"bank", "access"}
          /\ NeedsBank(body[t][1]) => stage'[t] = "bank" /\ idx'[t] = 1
      BY <1>1, <2>1, <2>2, Entering
    <2>4. ASSUME NEW u \in Threads \ {t} PROVE MutexKept(u)' /\ BankKept(u)'
      <3>1. MutexKept(u) /\ BankKept(u)
        BY <1>1 DEF Protocol
      <3>2. ~(locked[u] /\ stage[u] \in Inside)
        BY <1>2, <3>1, ThreadsAssumption DEF MutexKept
      <3>3. MutexKept(u)'
        BY <1>1, <2>1, <2>2, <3>1, <3>2 DEF MutexKept
      <3>4. Here(u)' = Here(u) /\ Intended(u)' = Intended(u)
        BY <1>1, <2>2 DEF Here, Intended
      <3> QED
        BY <1>1, <2>2, <3>1, <3>3, <3>4 DEF BankKept
    <2>5. CacheKept'
      <3>1. Bank' = Bank
        BY <1>1 DEF Bank
      <3> QED
        BY <1>1, <2>2, <3>1 DEF BankInv, Safe, CacheKept
    <2>6. ZeroSite \/ (Released /\ Tested') => enc_address' = 0
      <3>1. Released /\ Tested' => Tested
        BY <1>1, <2>2, <2>3, DriverAssumption DEF Tested, Quiet, BankTested
      <3> QED
        BY <1>1, <3>1 DEF Quiet, ZeroBank
    <2>7. Quiet'
      BY <1>1, <2>2, <2>3, <2>6, QuietStays
    <2> QED
      BY <2>3, <2>4, <2>5, <2>7 DEF Safe, Protocol
  <1>3. CASE owner # NoThread
    <2>1. owner' = owner /\ stage' = [stage EXCEPT ![t] = "wait"]
      BY <1>3 DEF Lock
    <2>2. stage'[t] = "wait" /\ \A u \in Threads \ {t} : stage'[u] = stage[u]
      BY <1>1, <2>1 DEF CallsTyped, SpiTypeOK
    <2>3. MutexKept(t)' /\ BankKept(t)'
      <3>1. MutexKept(t) /\ ~filled[t]
        BY <1>1 DEF Protocol, CallsTyped, WellFormed, OnBus
      <3>2. MutexKept(t)'
        BY <1>1, <2>1, <2>2, <3>1 DEF MutexKept, Inside
      <3> QED
        BY <1>1, <2>2, <3>1, <3>2 DEF BankKept
    <2>4. ASSUME NEW u \in Threads \ {t} PROVE MutexKept(u)' /\ BankKept(u)'
      <3>1. MutexKept(u) /\ BankKept(u)
        BY <1>1 DEF Protocol
      <3> QED
        BY <1>1, <2>1, <2>2, <3>1, Bystander
    <2>5. CacheKept'
      <3>1. Bank' = Bank
        BY <1>1 DEF Bank
      <3> QED
        BY <1>1, <2>2, <3>1 DEF BankInv, Safe, CacheKept
    <2>6. ZeroSite \/ (Released /\ Tested') => enc_address' = 0
      <3>1. Tested' => Tested
        BY <1>1, <2>2, DriverAssumption DEF Tested
      <3> QED
        BY <1>1, <3>1 DEF Quiet, ZeroBank
    <2>7. Quiet'
      BY <1>1, <2>2, <2>6, QuietStays
    <2> QED
      BY <2>3, <2>4, <2>5, <2>7 DEF Safe, Protocol
  <1> QED
    BY <1>2, <1>3

\* The end of a call, for the call itself and for the promises kept by Quiet.
LEMMA Finishing ==
    ASSUME BankInv, NEW t \in Threads, Finish(t), UNCHANGED driverVars,
           stage[t] = "unlock", stage'[t] = "out", owner' # t,
           \A u \in Threads \ {t} : (stage'[u] = "out") <=> (stage[u] = "out"),
           Released /\ Tested' => Tested
    PROVE  /\ MutexKept(t)' /\ BankKept(t)' /\ Quiet' /\ Bank' = Bank
           /\ UNCHANGED <<econ1, enc_address, tx_buffer, filled>>
           /\ \A u \in Threads \ {t} :
                 body'[u] = body[u] /\ idx'[u] = idx[u] /\ locked'[u] = locked[u]
  <1>1. CallsTyped /\ Quiet /\ Lwip \in Threads /\ ~filled[t]
    BY DriverAssumption DEF BankInv, Typed, Safe, CallsTyped, WellFormed, OnBus
  <1>2. /\ body'[t] = << >> /\ ~locked'[t] /\ UNCHANGED <<econ1, enc_address, tx_buffer, filled>>
        /\ \A u \in Threads \ {t} :
              body'[u] = body[u] /\ idx'[u] = idx[u] /\ locked'[u] = locked[u]
    BY <1>1 DEF Finish, chip, CallsTyped, SpiTypeOK
  <1>3. MutexKept(t)' /\ BankKept(t)'
    BY <1>1, <1>2 DEF MutexKept, BankKept, Inside
  <1>4. /\ ZeroSite' = ZeroSite /\ Released' = Released /\ LowSite' = LowSite
    BY DEF ZeroSite, Released, LowSite, driverVars, local
  <1>5. << >> \in Seq(Low)
    OBVIOUS
  <1>6. OthersLow'
    BY <1>1, <1>2, <1>5 DEF Quiet, OthersLow
  <1>7. LwipLow'
    BY <1>1, <1>2, <1>4, <1>5 DEF Quiet, LwipLow
  <1>8. UnlockedCall'
    BY <1>1, <1>2, <1>4 DEF Quiet, UnlockedCall
  <1>9. ZeroBank'
    BY <1>1, <1>2, <1>4 DEF Quiet, ZeroBank
  <1>10. BankTested'
    BY <1>1, <1>2, <1>4 DEF Quiet, BankTested
  <1>11. Bank' = Bank
    BY <1>2 DEF Bank
  <1> QED
    BY <1>2, <1>3, <1>6, <1>7, <1>8, <1>9, <1>10, <1>11 DEF Quiet

\* A call without the mutex ends: it never touched the bus alone.
LEMMA ReturnSafe ==
    ASSUME BankInv, NEW t \in Threads, Return(t), UNCHANGED driverVars PROVE Safe'
  <1>1. /\ stage[t] = "unlock" /\ ~locked[t] /\ Finish(t) /\ owner' = owner
        /\ stage' = [stage EXCEPT ![t] = "out"] /\ CallsTyped /\ Protocol
    BY DEF Return, mutex, BankInv, Typed, Safe
  <1>2. stage'[t] = "out" /\ \A u \in Threads \ {t} : stage'[u] = stage[u]
    BY <1>1 DEF CallsTyped, SpiTypeOK
  <1>3. owner' # t
    BY <1>1 DEF Protocol, MutexKept
  <1>4. Released /\ Tested' => Tested
    <2>1. stage[Lwip] = "unlock" => Tested
      BY DEF Tested
    <2>2. t # Lwip => stage'[Lwip] = stage[Lwip] /\ idx'[Lwip] = idx[Lwip]
      BY <1>1, <1>2, Finished, DriverAssumption
    <2> QED
      BY <1>1, <2>1, <2>2 DEF Tested
  <1>5. /\ MutexKept(t)' /\ BankKept(t)' /\ Quiet' /\ Bank' = Bank
        /\ UNCHANGED <<econ1, enc_address, tx_buffer, filled>>
        /\ \A u \in Threads \ {t} :
              body'[u] = body[u] /\ idx'[u] = idx[u] /\ locked'[u] = locked[u]
    BY <1>1, <1>2, <1>3, <1>4, Finishing
  <1>6. ASSUME NEW u \in Threads \ {t} PROVE MutexKept(u)' /\ BankKept(u)'
    <2>1. MutexKept(u) /\ BankKept(u)
      BY <1>1 DEF Protocol
    <2> QED
      BY <1>1, <1>2, <1>5, <2>1, Bystander
  <1>7. CacheKept'
    BY <1>1, <1>2, <1>5 DEF BankInv, Safe, CacheKept
  <1> QED
    BY <1>5, <1>6, <1>7 DEF Safe, Protocol

\* The mutex is left with no exchange pending, to one of those waiting.
LEMMA UnlockSafe ==
    ASSUME BankInv, NEW t \in Threads, Unlock(t), UNCHANGED driverVars PROVE Safe'
  <1>1. /\ stage[t] = "unlock" /\ locked[t] /\ Finish(t) /\ CallsTyped /\ Protocol /\ Quiet
        /\ owner = t /\ t \notin waiting /\ Lwip \in Threads
    BY DriverAssumption DEF Unlock, BankInv, Typed, Safe, CallsTyped, Queued, Protocol,
                            MutexKept, Inside
  <1>2. \A u \in Threads \ {t} : ~(locked[u] /\ stage[u] \in Inside)
    BY <1>1 DEF Protocol, MutexKept
  <1>3. stage[Lwip] = "unlock" => Tested
    BY DEF Tested
  <1>4. CASE waiting = {}
    <2>1. owner' = NoThread /\ stage' = [stage EXCEPT ![t] = "out"]
      BY <1>4 DEF Unlock
    <2>2. stage'[t] = "out" /\ \A u \in Threads \ {t} : stage'[u] = stage[u]
      BY <1>1, <2>1 DEF CallsTyped, SpiTypeOK
    <2>3. Released /\ Tested' => Tested
      <3>1. t # Lwip => stage'[Lwip] = stage[Lwip] /\ idx'[Lwip] = idx[Lwip]
        BY <1>1, <2>2, Finished
      <3> QED
        BY <1>1, <1>3, <3>1 DEF Tested
    <2>4. owner' # t
      BY <2>1, ThreadsAssumption
    <2>5. /\ MutexKept(t)' /\ BankKept(t)' /\ Quiet' /\ Bank' = Bank
          /\ UNCHANGED <<econ1, enc_address, tx_buffer, filled>>
          /\ \A u \in Threads \ {t} :
                body'[u] = body[u] /\ idx'[u] = idx[u] /\ locked'[u] = locked[u]
      BY <1>1, <2>2, <2>3, <2>4, Finishing
    <2>6. ASSUME NEW u \in Threads \ {t} PROVE MutexKept(u)' /\ BankKept(u)'
      <3>1. MutexKept(u) /\ BankKept(u)
        BY <1>1 DEF Protocol
      <3>2. MutexKept(u)'
        BY <1>2, <2>1, <2>2, <2>5, <3>1, ThreadsAssumption DEF MutexKept
      <3>3. Here(u)' = Here(u) /\ Intended(u)' = Intended(u)
        BY <2>2, <2>5 DEF Here, Intended
      <3> QED
        BY <2>2, <2>5, <3>1, <3>2, <3>3 DEF BankKept
    <2>7. CacheKept'
      BY <1>1, <2>2, <2>5 DEF BankInv, Safe, CacheKept
    <2> QED
      BY <2>5, <2>6, <2>7 DEF Safe, Protocol
  <1>5. CASE waiting # {}
    <2>1. PICK w \in waiting :
             /\ owner' = w
             /\ stage' = [stage EXCEPT ![t] = "out", ![w] = EntryStage(body[w], 1)]
      BY <1>5 DEF Unlock
    <2>2. w \in Threads /\ w # t /\ stage[w] = "wait" /\ locked[w]
      BY <1>1 DEF CallsTyped, SpiTypeOK, Queued, Protocol, MutexKept
    <2>3. /\ stage'[t] = "out" /\ stage'[w] = EntryStage(body[w], 1)
          /\ \A u \in Threads \ {t, w} : stage'[u] = stage[u]
      BY <1>1, <2>1, <2>2 DEF CallsTyped, SpiTypeOK
    <2>4. /\ body'[w] = body[w] /\ idx'[w] = idx[w] /\ filled' = filled /\ locked'[w] = locked[w]
          /\ \A u \in Threads \ {t} : idx'[u] = idx[u]
      BY <1>1, <2>2 DEF Finish, CallsTyped, SpiTypeOK
    <2>5. /\ MutexKept(w)' /\ BankKept(w)' /\ stage'[w] \in {"bank", "access"}
          /\ NeedsBank(body[w][1]) => stage'[w] = "bank" /\ idx'[w] = 1
      BY <1>1, <2>1, <2>2, <2>3, <2>4, Entering
    <2>6. Released /\ Tested' => Tested
      <3>1. CASE Lwip = t
        BY <1>1, <1>3, <3>1
      <3>2. CASE Lwip = w
        BY <1>1, <2>2, <2>5, <3>2 DEF Tested, Quiet, BankTested
      <3>3. CASE Lwip # t /\ Lwip # w
        BY <1>1, <2>3, <2>4, <3>3 DEF Tested
      <3> QED
        BY <3>1, <3>2, <3>3
    <2>7. /\ MutexKept(t)' /\ BankKept(t)' /\ Quiet' /\ Bank' = Bank
          /\ UNCHANGED <<econ1, enc_address, tx_buffer, filled>>
          /\ \A u \in Threads \ {t} :
                body'[u] = body[u] /\ idx'[u] = idx[u] /\ locked'[u] = locked[u]
      <3>1. owner' # t /\ \A u \in Threads \ {t} : (stage'[u] = "out") <=> (stage[u] = "out")
        BY <2>1, <2>2, <2>3, <2>5
      <3> QED
        BY <1>1, <2>3, <2>6, <3>1, Finishing
    <2>8. ASSUME NEW u \in Threads \ {t, w} PROVE MutexKept(u)' /\ BankKept(u)'
      <3>1. MutexKept(u) /\ BankKept(u)
        BY <1>1 DEF Protocol
      <3>2. MutexKept(u)'
        BY <1>2, <2>1, <2>2, <2>3, <2>7, <3>1 DEF MutexKept
      <3>3. Here(u)' = Here(u) /\ Intended(u)' = Intended(u)
        BY <2>3, <2>7 DEF Here, Intended
      <3> QED
        BY <2>3, <2>7, <3>1, <3>2, <3>3 DEF BankKept
    <2>9. CacheKept'
      <3>1. \A u \in Threads : stage'[u] \in {"clear", "select"} <=> stage[u] \in {"clear", "select"}
        BY <1>1, <2>2, <2>3, <2>5
      <3> QED
        BY <2>7, <3>1 DEF BankInv, Safe, CacheKept
    <2> QED
      BY <2>5, <2>7, <2>8, <2>9 DEF Safe, Protocol
  <1> QED
    BY <1>4, <1>5

\* The next access depends on no bank before it has tested it.
LEMMA Advancing ==
    ASSUME CallsTyped, NEW t \in Threads, NEW answer, Advance(t, answer),
           stage[t] \in {"bank", "select", "access", "take"}, body' = body, ~filled'[t]
    PROVE  /\ BankKept(t)' /\ stage'[t] \in {"unlock", "bank", "access"}
           /\ stage'[t] = EntryStage(body[t], idx[t] + 1)
           /\ \A u \in Threads \ {t} : stage'[u] = stage[u] /\ idx'[u] = idx[u]
  <1>1. /\ body[t] \in Seq(Good) /\ idx[t] \in 1..Len(body[t])
    BY DEF CallsTyped, WellFormed
  <1>2. /\ stage'[t] = EntryStage(body[t], idx[t] + 1) /\ idx'[t] = idx[t] + 1
        /\ \A u \in Threads \ {t} : stage'[u] = stage[u] /\ idx'[u] = idx[u]
    BY DEF Advance, CallsTyped, SpiTypeOK
  <1>3. idx[t] + 1 \in 1..(Len(body[t]) + 1)
    BY <1>1
  <1>4. \/ stage'[t] \in {"unlock", "bank"}
        \/ stage'[t] = "access" /\ ~NeedsBank(body[t][idx[t] + 1])
    BY <1>1, <1>2, <1>3, EntryStageTyped DEF NeedsBank
  <1>5. Here(t)' = body[t][idx[t] + 1]
    BY <1>2 DEF Here
  <1>6. BankKept(t)'
    BY <1>4, <1>5 DEF BankKept
  <1> QED
    BY <1>2, <1>4, <1>6

\* A step of the owner on the bus, whatever it does to the chip's bank.
LEMMA OwnerStep ==
    ASSUME BankInv, NEW t \in Threads, stage[t] \in OnBus \cup {"take"},
           UNCHANGED <<driverVars, body, locked, owner, enc_address>>,
           stage'[t] \in Inside, BankKept(t)', CacheKept',
           \A u \in Threads \ {t} :
              stage'[u] = stage[u] /\ filled'[u] = filled[u] /\ idx'[u] = idx[u]
    PROVE  Safe'
  <1>1. CallsTyped /\ Protocol /\ Quiet /\ owner = t /\ locked[t] /\ Lwip \in Threads
    BY OwnsBus, DriverAssumption DEF BankInv, Typed, Safe
  <1>2. \A u \in Threads \ {t} : MutexKept(u)' /\ BankKept(u)'
    BY <1>1, Outsider
  <1>3. MutexKept(t)'
    BY <1>1, StillOwner
  <1>4. \A u \in Threads : (stage'[u] = "out") <=> (stage[u] = "out")
    BY DEF OnBus, Inside
  <1>5. Tested' => Tested
    <2>1. CASE t = Lwip
      BY <2>1 DEF Tested, OnBus
    <2>2. CASE t # Lwip
      BY <1>1, <2>2 DEF Tested
    <2> QED
      BY <2>1, <2>2
  <1>6. ZeroSite \/ (Released /\ Tested') => enc_address' = 0
    BY <1>1, <1>5 DEF Quiet, ZeroBank
  <1>7. Quiet'
    BY <1>1, <1>4, <1>6, QuietStays
  <1> QED
    BY <1>2, <1>3, <1>7 DEF Safe, Protocol

\* tx_buffer holds what its owner intends.
LEMMA FillSafe ==
    ASSUME BankInv, NEW t \in Threads, Fill(t), UNCHANGED driverVars PROVE Safe'
  <1>1. /\ stage[t] \in OnBus /\ tx_buffer' = Intended(t) /\ CallsTyped
        /\ filled' = [filled EXCEPT ![t] = TRUE]
        /\ UNCHANGED <<econ1, owner, enc_address, stage, locked, body, idx>>
    BY DEF Fill, chip, mutex, calls, BankInv, Typed
  <1>2. \A u \in Threads \ {t} : filled'[u] = filled[u]
    BY <1>1 DEF CallsTyped, SpiTypeOK
  <1>3. Here(t)' = Here(t) /\ Intended(t)' = Intended(t) /\ Bank' = Bank
    BY <1>1 DEF Here, Intended, Bank
  <1>4. BankKept(t)'
    <2>1. BankKept(t)
      BY DEF BankInv, Safe, Protocol
    <2> QED
      BY <1>1, <1>3, <2>1 DEF BankKept
  <1>5. CacheKept'
    BY <1>1, <1>3 DEF BankInv, Safe, CacheKept
  <1>6. stage'[t] \in Inside
    BY <1>1 DEF OnBus, Inside
  <1> QED
    BY <1>1, <1>2, <1>4, <1>5, <1>6, OwnerStep

\* While the owner is past its bank test, the cache is right.
LEMMA CacheRight ==
    ASSUME BankInv, NEW t \in Threads, owner = t, stage[t] \notin {"clear", "select"}
    PROVE  Bank = enc_address
  <1>1. \A u \in Threads \ {t} : stage[u] \notin OnBus \cup {"take"}
    BY Alone DEF BankInv, Safe
  <1>2. \A u \in Threads : stage[u] \notin {"clear", "select"}
    BY <1>1 DEF OnBus
  <1> QED
    BY <1>2 DEF BankInv, Safe, CacheKept

\* The bank depends on ECON1 only through BSEL.
LEMMA SameBank == ASSUME econ1' \cap BSEL = econ1 \cap BSEL PROVE Bank' = Bank
  BY DEF Bank

\* An access is over, its buffer consumed; the bank is still remembered.
LEMMA TakeSafe ==
    ASSUME BankInv, NEW t \in Threads, Take(t), UNCHANGED driverVars PROVE Safe'
  <1>1. /\ stage[t] = "take" /\ CallsTyped /\ ~filled[t]
        /\ UNCHANGED <<econ1, owner, enc_address, filled, locked, body>>
    BY DEF Take, chip, mutex, calls, BankInv, Typed, CallsTyped, WellFormed, OnBus
  <1>2. owner = t
    BY <1>1, OwnsBus DEF BankInv, Safe
  <1>3. /\ BankKept(t)' /\ stage'[t] \in {"unlock", "bank", "access"}
        /\ \A u \in Threads \ {t} : stage'[u] = stage[u] /\ idx'[u] = idx[u]
    <2>1. CASE \E a : Advance(t, a)
      <3>1. ~filled'[t] /\ body' = body
        BY <1>1
      <3> QED
        BY <1>1, <2>1, <3>1, Advancing
    <2>2. CASE stage' = [stage EXCEPT ![t] = "bank"] /\ idx' = idx
      <3>1. stage'[t] = "bank" /\ \A u \in Threads \ {t} : stage'[u] = stage[u]
        BY <1>1, <2>2 DEF CallsTyped, SpiTypeOK
      <3> QED
        BY <1>1, <2>2, <3>1 DEF BankKept
    <2> QED
      BY <2>1, <2>2 DEF Take
  <1>4. CacheKept'
    <2>1. Bank = enc_address /\ Bank' = Bank
      BY <1>1, <1>2, CacheRight, SameBank
    <2> QED
      BY <1>1, <2>1 DEF CacheKept
  <1>5. stage[t] \in OnBus \cup {"take"} /\ stage'[t] \in Inside
    BY <1>1, <1>3 DEF Inside
  <1> QED
    BY <1>1, <1>3, <1>4, <1>5, OwnerStep

\* ECON1 follows the remembered bank, first to 0 and then to the bank.
LEMMA SwitchBankSafe ==
    ASSUME BankInv, NEW t \in Threads, SwitchBank(t), UNCHANGED driverVars PROVE Safe'
  <1>1. /\ stage[t] \in {"clear", "select"} /\ CallsTyped /\ BankKept(t) /\ Exchange(t, 0)
        /\ filled[t] /\ enc_address \in 0..3
    BY DEF SwitchBank, Exchange, BankInv, Typed, Safe, Protocol, CallsTyped, SpiTypeOK
  <1>2. /\ filled' = [filled EXCEPT ![t] = FALSE] /\ econ1' = Econ1After(tx_buffer)
        /\ UNCHANGED <<owner, enc_address, locked, body>>
    BY <1>1 DEF Exchange, mutex, calls
  <1>3. ~filled'[t] /\ \A u \in Threads \ {t} : filled'[u] = filled[u]
    BY <1>1, <1>2 DEF CallsTyped, SpiTypeOK
  <1>4. tx_buffer = Intended(t) /\ owner = t
    BY <1>1, OwnsBus DEF BankKept, BankInv, Safe, OnBus
  <1>5. \A u \in Threads \ {t} : stage[u] \notin {"clear", "select"}
    BY <1>4, Alone DEF BankInv, Safe, OnBus
  <1>6. Offset(ECON1) = ECON1
    BY DEF Offset, ECON1
  <1>7. CASE stage[t] = "clear"
    <2>1. stage' = [stage EXCEPT ![t] = "select"] /\ idx' = idx
      BY <1>7 DEF SwitchBank
    <2>2. stage'[t] = "select" /\ \A u \in Threads \ {t} : stage'[u] = stage[u]
      BY <1>1, <2>1 DEF CallsTyped, SpiTypeOK
    <2>3. tx_buffer = Cmd("BFC", Offset(ECON1), 0, BSEL)
      BY <1>4, <1>7 DEF Intended
    <2>4. econ1' = econ1 \ BSEL
      BY <1>2, <1>6, <2>3 DEF Econ1After, Cmd
    <2>5. econ1' \cap BSEL = {}
      BY <2>4
    <2>6. BankKept(t)'
      <3>1. Here(t)' = Here(t)
        BY <1>2, <2>1 DEF Here
      <3> QED
        BY <1>1, <1>2, <1>3, <1>7, <2>2, <2>5, <3>1 DEF BankKept
    <2>7. CacheKept'
      BY <2>2 DEF CacheKept
    <2>8. stage[t] \in OnBus \cup {"take"} /\ stage'[t] \in Inside
      BY <1>7, <2>2 DEF OnBus, Inside
    <2> QED
      BY <1>2, <1>3, <2>1, <2>2, <2>6, <2>7, <2>8, OwnerStep
  <1>8. CASE stage[t] = "select"
    <2>1. tx_buffer = Cmd("BFS", Offset(ECON1), 0, BankBits(enc_address))
      BY <1>4, <1>8 DEF Intended
    <2>2. econ1' = econ1 \cup (BankBits(enc_address) \ {TXRTS})
      BY <1>2, <1>6, <2>1 DEF Econ1After, Cmd
    <2>3. econ1 \cap BSEL = {} /\ BankBits(enc_address) \subseteq BSEL /\ TXRTS \notin BSEL
      BY <1>1, <1>8, BankOfBits DEF BankKept, TXRTS, BSEL
    <2>4. econ1' \cap BSEL = BankBits(enc_address)
      BY <2>2, <2>3
    <2>5. Bank' = enc_address
      BY <1>1, <2>4, BankOfBits DEF Bank
    <2>6. /\ BankKept(t)' /\ stage'[t] \in {"unlock", "bank", "access"}
          /\ \A u \in Threads \ {t} : stage'[u] = stage[u] /\ idx'[u] = idx[u]
      <3>1. CASE Here(t).op = "BANK"
        <4>1. Advance(t, 0)
          BY <1>8, <3>1 DEF SwitchBank
        <4> QED
          BY <1>1, <1>2, <1>3, <1>8, <4>1, Advancing
      <3>2. CASE Here(t).op # "BANK"
        <4>1. stage' = [stage EXCEPT ![t] = "access"] /\ idx' = idx
          BY <1>8, <3>2 DEF SwitchBank
        <4>2. stage'[t] = "access" /\ \A u \in Threads \ {t} : stage'[u] = stage[u]
          BY <1>1, <4>1 DEF CallsTyped, SpiTypeOK
        <4>3. Here(t)' = Here(t)
          BY <1>2, <4>1 DEF Here
        <4> QED
          BY <1>1, <1>2, <1>3, <1>8, <4>1, <4>2, <4>3 DEF BankKept
      <3> QED
        BY <3>1, <3>2
    <2>7. CacheKept'
      BY <1>2, <2>5 DEF CacheKept
    <2>8. stage[t] \in OnBus \cup {"take"} /\ stage'[t] \in Inside
      BY <1>8, <2>6 DEF OnBus, Inside
    <2> QED
      BY <1>2, <1>3, <2>6, <2>7, <2>8, OwnerStep
  <1> QED
    BY <1>1, <1>7, <1>8

\* A good access leaves the bank selected that it found.
LEMMA BankSurvives ==
    ASSUME BankInv, NEW t \in Threads, stage[t] = "access", filled[t],
           econ1' = Econ1After(tx_buffer), enc_address' = enc_address
    PROVE  Bank' = enc_address'
  <1> DEFINE x == Here(t)
  <1>1. /\ x \in Good /\ BankKept(t) /\ owner = t /\ x.op # "BANK"
    BY HereTyped, OwnsBus DEF BankInv, Typed, Safe, Protocol, OnBus, CallsTyped, WellFormed
  <1>2. Bank = enc_address
    BY <1>1, CacheRight
  <1>3. tx_buffer = Cmd(IF x.op = "POLL" THEN "RCR" ELSE x.op, Offset(x.a), x.d, x.bits)
    BY <1>1 DEF BankKept, Intended
  <1>4. CASE x.op = "SRC"
    <2>1. BankOf(x.a) = 0 /\ NeedsBank(x)
      BY <1>1, <1>4 DEF Good, NeedsBank
    <2>2. enc_address = 0
      BY <1>1, <2>1 DEF BankKept
    <2>3. econ1' = {}
      BY <1>3, <1>4 DEF Econ1After, Cmd
    <2> QED
      BY <2>2, <2>3 DEF Bank
  <1>5. CASE x.op \in {"BFS", "BFC"} /\ Offset(x.a) = ECON1
    <2>1. x.bits \cap BSEL = {}
      BY <1>1, <1>5 DEF Good
    <2>2. econ1' = econ1 \cup (x.bits \ {TXRTS}) \/ econ1' = econ1 \ x.bits
      BY <1>3, <1>5 DEF Econ1After, Cmd
    <2>3. econ1' \cap BSEL = econ1 \cap BSEL
      BY <2>1, <2>2
    <2> QED
      BY <1>2, <2>3, SameBank
  <1>6. CASE x.op # "SRC" /\ ~(x.op \in {"BFS", "BFC"} /\ Offset(x.a) = ECON1)
    <2>1. econ1' = econ1
      BY <1>3, <1>6 DEF Econ1After, Cmd
    <2> QED
      BY <1>2, <2>1, SameBank
  <1> QED
    BY <1>4, <1>5, <1>6

\* The access leaves the bank bits alone: a soft reset comes only at bank 0.
LEMMA TransferSafe ==
    ASSUME BankInv, NEW t \in Threads, Transfer(t), UNCHANGED driverVars PROVE Safe'
  <1>1. stage[t] = "access" /\ CallsTyped
    BY DEF Transfer, BankInv, Typed
  <1>2. PICK v : Exchange(t, v)
    BY DEF Transfer
  <1>3. /\ filled[t] /\ filled' = [filled EXCEPT ![t] = FALSE] /\ econ1' = Econ1After(tx_buffer)
        /\ UNCHANGED <<owner, enc_address, locked, body>>
    BY <1>2 DEF Exchange, mutex, calls
  <1>4. ~filled'[t] /\ \A u \in Threads \ {t} : filled'[u] = filled[u]
    BY <1>1, <1>3 DEF CallsTyped, SpiTypeOK
  <1>5. CacheKept'
    BY <1>1, <1>3, BankSurvives DEF CacheKept
  <1>6. /\ BankKept(t)' /\ stage'[t] \in {"unlock", "bank", "access", "take"}
        /\ \A u \in Threads \ {t} : stage'[u] = stage[u] /\ idx'[u] = idx[u]
    <2>1. CASE \E a : Advance(t, a)
      <3>1. body' = body
        BY <1>3
      <3> QED
        BY <1>1, <1>4, <2>1, <3>1, Advancing
    <2>2. CASE stage' = [stage EXCEPT ![t] = "take"] /\ idx' = idx
      <3>1. stage'[t] = "take" /\ \A u \in Threads \ {t} : stage'[u] = stage[u]
        BY <1>1, <2>2 DEF CallsTyped, SpiTypeOK
      <3> QED
        BY <1>4, <2>2, <3>1 DEF BankKept
    <2> QED
      BY <2>1, <2>2 DEF Transfer
  <1>7. stage[t] \in OnBus \cup {"take"} /\ stage'[t] \in Inside
    BY <1>1, <1>6 DEF OnBus, Inside
  <1> QED
    BY <1>3, <1>4, <1>5, <1>6, <1>7, OwnerStep

\* The remembered bank changes under the mutex, before ECON1 does.
LEMMA SetBankSafe ==
    ASSUME BankInv, NEW t \in Threads, SetBank(t), UNCHANGED driverVars PROVE Safe'
  <1> DEFINE b == BankOf(Here(t).a)
  <1>1. /\ stage[t] = "bank" /\ CallsTyped /\ Protocol /\ Quiet /\ ~filled[t]
        /\ UNCHANGED <<econ1, owner, tx_buffer, filled, locked, body>> /\ Lwip \in Threads
        /\ body[t] \in Seq(Good) /\ idx[t] \in 1..Len(body[t])
    BY DriverAssumption DEF SetBank, chip, mutex, calls, BankInv, Typed, Safe, CallsTyped,
                            WellFormed, OnBus
  <1>2. enc_address' = b
    BY DEF SetBank
  <1>3. /\ stage'[t] \in {"clear", "access", "unlock", "bank"}
        /\ (stage'[t] = "clear" <=> b # enc_address) /\ BankKept(t)'
        /\ \A u \in Threads \ {t} : stage'[u] = stage[u] /\ idx'[u] = idx[u]
    <2>1. CASE b = enc_address /\ Here(t).op = "BANK"
      <3>1. Advance(t, 0)
        BY <2>1 DEF SetBank
      <3> QED
        BY <1>1, <2>1, <3>1, Advancing
    <2>2. CASE ~(b = enc_address /\ Here(t).op = "BANK")
      <3> DEFINE s == IF b # enc_address THEN "clear" ELSE "access"
      <3>1. stage' = [stage EXCEPT ![t] = s] /\ idx' = idx
        BY <2>2 DEF SetBank
      <3>2. stage'[t] = s /\ \A u \in Threads \ {t} : stage'[u] = stage[u]
        BY <1>1, <3>1 DEF CallsTyped, SpiTypeOK
      <3>3. Here(t)' = Here(t)
        BY <1>1, <3>1 DEF Here
      <3> QED
        BY <1>1, <1>2, <3>1, <3>2, <3>3 DEF BankKept
    <2> QED
      BY <2>1, <2>2
  <1>4. body[t] \in Seq(Low) => b = 0
    BY <1>1 DEF Here, Low
  <1>5. ZeroSite \/ (Released /\ Tested') => enc_address' = 0
    <2>1. CASE t = Lwip
      BY <1>1, <1>2, <1>4, <2>1 DEF Quiet, LwipLow, LowSite, Released
    <2>2. CASE t # Lwip
      BY <1>1, <1>2, <1>4, <2>2 DEF Quiet, OthersLow
    <2> QED
      BY <2>1, <2>2
  <1>6. Quiet'
    <2>1. \A u \in Threads : (stage'[u] = "out") <=> (stage[u] = "out")
      BY <1>1, <1>3
    <2> QED
      BY <1>1, <1>5, <2>1, QuietStays
  <1>7. CacheKept'
    <2>1. SUFFICES ASSUME \A u \in Threads : stage'[u] \notin {"clear", "select"}
                   PROVE  Bank' = enc_address'
      BY DEF CacheKept
    <2>2. b = enc_address /\ \A u \in Threads : stage[u] \notin {"clear", "select"}
      BY <1>1, <1>3, <2>1
    <2>3. Bank = enc_address
      BY <2>2 DEF BankInv, Safe, CacheKept
    <2> QED
      BY <1>1, <1>2, <2>2, <2>3, SameBank
  <1>8. CASE locked[t]
    <2>1. owner = t
      BY <1>1, <1>8 DEF Protocol, MutexKept, Inside
    <2>2. MutexKept(t)'
      BY <1>1, <1>3, <1>8, <2>1 DEF MutexKept, Inside
    <2>3. \A u \in Threads \ {t} : MutexKept(u)' /\ BankKept(u)'
      BY <1>1, <1>3, <2>1, Outsider
    <2> QED
      BY <1>3, <1>6, <1>7, <2>2, <2>3 DEF Safe, Protocol
  <1>9. CASE ~locked[t]
    <2>1. /\ t = Lwip /\ ZeroSite /\ Len(body[t]) = 1 /\ body[t][1].op = "BANK"
          /\ enc_address = 0 /\ body[t] \in Seq(Low)
      BY <1>1, <1>9 DEF Quiet, OthersLow, UnlockedCall, ZeroBank, LwipLow, LowSite
    <2>2. idx[t] = 1 /\ Here(t).op = "BANK" /\ b = enc_address
      BY <1>1, <1>4, <2>1 DEF Here
    <2>3. stage'[t] = "unlock"
      <3>1. Advance(t, 0)
        BY <2>2 DEF SetBank
      <3>2. stage'[t] = EntryStage(body[t], 2)
        BY <1>1, <2>2, <3>1, Advancing
      <3> QED
        BY <2>1, <3>2 DEF EntryStage
    <2>4. owner # t
      BY <1>1, <1>9 DEF Protocol, MutexKept
    <2>5. MutexKept(t)'
      BY <1>1, <1>9, <2>3, <2>4 DEF MutexKept, Inside
    <2>6. ASSUME NEW u \in Threads \ {t} PROVE MutexKept(u)' /\ BankKept(u)'
      <3>1. MutexKept(u) /\ BankKept(u) /\ enc_address' = enc_address
        BY <1>1, <1>2, <2>2 DEF Protocol
      <3> QED
        BY <1>1, <1>3, <3>1, Bystander
    <2> QED
      BY <1>3, <1>6, <1>7, <2>5, <2>6 DEF Safe, Protocol
  <1> QED
    BY <1>8, <1>9

\* Every step inside a call keeps the invariant.
LEMMA RunSafe ==
    ASSUME BankInv, NEW t \in Threads, Run(t), UNCHANGED driverVars PROVE Safe'
  BY LockSafe, UnlockSafe, ReturnSafe, SetBankSafe, FillSafe, SwitchBankSafe, TransferSafe,
     TakeSafe DEF Run

-----------------------------------------------------------------------------
(* One step of the call graph.                                              *)

\* Which calls take SPIMutex, and which begin with a test of the bank.
LEMMA Locking ==
    /\ \A a \in Nat : TakesMutex(encReadRegByte(a)) /\ ~TakesMutex(encSetBank(a))
    /\ \A a, d \in Nat : /\ TakesMutex(encWriteRegByte(a, d)) /\ TakesMutex(encWritePhy(a, d))
                        /\ TakesMutex(encWriteReg(a, d)) /\ NeedsBank(encWriteReg(a, d)[1])
    /\ \A op \in {"BFS", "BFC", "SRC"}, a \in Nat :
         \A bits : TakesMutex(encWriteOp(op, a, bits))
    /\ \A a \in Nat : /\ TakesMutex(encReadReg(a, LowByteFirst))
                     /\ NeedsBank(encReadReg(a, LowByteFirst)[1])
    /\ \A n \in Nat \ {0} : TakesMutex(encWriteBufRaw(n))
    /\ \A n \in Nat \ {0}, a \in Nat : TakesMutex(encReadBuf(a, n)) /\ TakesMutex(encWriteBuf(a, n))
  <1> USE DEF TakesMutex, Acc
  <1>1. \A a \in Nat : TakesMutex(encReadRegByte(a)) /\ ~TakesMutex(encSetBank(a))
    BY DEF encReadRegByte, encSetBank, Rcr
  <1>2. ASSUME NEW a \in Nat, NEW d \in Nat
        PROVE  /\ TakesMutex(encWriteRegByte(a, d)) /\ TakesMutex(encWritePhy(a, d))
               /\ TakesMutex(encWriteReg(a, d)) /\ NeedsBank(encWriteReg(a, d)[1])
    BY DEF encWriteRegByte, encWritePhy, encWriteReg, Wcr, Poll, NeedsBank
  <1>3. \A op \in {"BFS", "BFC", "SRC"}, a \in Nat :
         \A bits : TakesMutex(encWriteOp(op, a, bits))
    BY DEF encWriteOp
  <1>4. \A a \in Nat : /\ TakesMutex(encReadReg(a, LowByteFirst))
                     /\ NeedsBank(encReadReg(a, LowByteFirst)[1])
    BY DEF encReadReg, Rcr, NeedsBank
  <1>5. \A n \in Nat \ {0} : TakesMutex(encWriteBufRaw(n))
    BY DEF encWriteBufRaw, Wbm
  <1>6. ASSUME NEW n \in Nat \ {0}, NEW a \in Nat
        PROVE  TakesMutex(encReadBuf(a, n)) /\ TakesMutex(encWriteBuf(a, n))
    <2>1. ASSUME NEW x, NEW y, NEW z PROVE (<<x, y>> \o <<z>>)[1] = x
      OBVIOUS
    <2> QED
      BY <2>1 DEF encReadBuf, encWriteBuf, encWriteReg, Wcr, Rbm, Wbm
  <1> QED
    BY <1>1, <1>2, <1>3, <1>4, <1>5, <1>6

\* A call is made: its promises are those the invariant keeps.
LEMMA Called ==
    ASSUME BankInv, NEW t \in Threads, NEW b \in NonEmpty(Good), Make(t, b),
           TakesMutex(b) \/ (t = Lwip /\ ZeroSite' /\ Len(b) = 1 /\ b[1].op = "BANK"),
           t # Lwip => /\ b \in Seq(Low) /\ ZeroSite' = ZeroSite
                       /\ Released' = Released /\ LowSite' = LowSite,
           t = Lwip => /\ LowSite' => b \in Seq(Low)
                       /\ ZeroSite' => enc_address = 0
                       /\ Released' => NeedsBank(b[1]) /\ TakesMutex(b)
    PROVE  Safe'
  <1>1. /\ CallsTyped /\ Protocol /\ Quiet /\ Lwip \in Threads /\ stage[t] = "out" /\ ~filled[t]
        /\ owner # t
    BY DriverAssumption DEF BankInv, Typed, Safe, Make, Begin, CallsTyped, WellFormed, OnBus,
                            Protocol, MutexKept, Inside
  <1> DEFINE s == IF TakesMutex(b) THEN "lock" ELSE EntryStage(b, 1)
  <1>2. /\ body' = [body EXCEPT ![t] = b] /\ locked' = [locked EXCEPT ![t] = TakesMutex(b)]
        /\ idx' = [idx EXCEPT ![t] = 1] /\ stage' = [stage EXCEPT ![t] = s]
        /\ UNCHANGED <<econ1, owner, enc_address, tx_buffer, filled>>
    BY DEF Make, Begin, chip, mutex
  <1>3. IF TakesMutex(b) THEN s = "lock" ELSE s = "bank"
    <2>1. ~TakesMutex(b) => NeedsBank(b[1]) /\ Len(b) = 1
      BY DEF NeedsBank
    <2> QED
      BY <2>1 DEF EntryStage
  <1> HIDE DEF s
  <1>4. /\ body'[t] = b /\ locked'[t] = TakesMutex(b) /\ stage'[t] = s /\ idx'[t] = 1
        /\ \A u \in Threads \ {t} : /\ body'[u] = body[u] /\ locked'[u] = locked[u]
                                    /\ stage'[u] = stage[u] /\ idx'[u] = idx[u]
    BY <1>1, <1>2 DEF CallsTyped, SpiTypeOK
  <1>5. MutexKept(t)'
    BY <1>1, <1>2, <1>3, <1>4 DEF MutexKept, Inside
  <1>6. BankKept(t)'
    BY <1>1, <1>2, <1>3, <1>4 DEF BankKept
  <1>7. ASSUME NEW u \in Threads \ {t} PROVE MutexKept(u)' /\ BankKept(u)'
    <2>1. MutexKept(u) /\ BankKept(u)
      BY <1>1 DEF Protocol
    <2> QED
      BY <1>2, <1>4, <2>1, Bystander
  <1>8. CacheKept'
    <2>1. Bank' = Bank
      BY <1>2 DEF Bank
    <2> QED
      BY <1>1, <1>2, <1>3, <1>4, <2>1 DEF BankInv, Safe, CacheKept
  <1>9. OthersLow'
    BY <1>1, <1>4 DEF Quiet, OthersLow
  <1>10. CASE t = Lwip
    <2>1. LwipLow' /\ BankTested'
      BY <1>4, <1>10 DEF LwipLow, BankTested
    <2>2. UnlockedCall'
      BY <1>4, <1>10 DEF UnlockedCall
    <2>3. ZeroBank'
      BY <1>2, <1>3, <1>4, <1>10 DEF ZeroBank, Tested
    <2> QED
      BY <1>5, <1>6, <1>7, <1>8, <1>9, <2>1, <2>2, <2>3 DEF Safe, Protocol, Quiet
  <1>11. CASE t # Lwip
    <2>1. LwipLow' /\ BankTested'
      BY <1>1, <1>4, <1>11 DEF Quiet, LwipLow, BankTested
    <2>2. UnlockedCall'
      BY <1>1, <1>4, <1>11 DEF Quiet, UnlockedCall
    <2>3. ZeroBank'
      BY <1>1, <1>2, <1>4, <1>11 DEF Quiet, ZeroBank, Tested
    <2> QED
      BY <1>5, <1>6, <1>7, <1>8, <1>9, <2>1, <2>2, <2>3 DEF Safe, Protocol, Quiet
  <1> QED
    BY <1>10, <1>11

\* A call that stays in bank 0, made from a site that promises nothing more.
LEMMA LowCall ==
    ASSUME BankInv, NEW t \in Threads, NEW b \in NonEmpty(Low), Make(t, b), TakesMutex(b),
           NEW s \in Sites \ {"init", "counted", "decrement", "rxnd", "bank"}, Goto(t, s), k' = k
    PROVE  Safe'
  <1>1. b \in NonEmpty(Good) /\ b \in Seq(Low)
    BY LowIsGood DEF NonEmpty
  <1>2. site \in [Threads -> Sites] /\ site' = [site EXCEPT ![t] = s] /\ Lwip \in Threads
    BY DriverAssumption DEF BankInv, Typed, DriverTyped, Goto
  <1>3. CASE t = Lwip
    <2>1. ~ZeroSite' /\ ~Released'
      BY <1>2, <1>3 DEF ZeroSite, Released
    <2> QED
      BY <1>1, <1>3, <2>1, Called
  <1>4. CASE t # Lwip
    <2>1. ZeroSite' = ZeroSite /\ Released' = Released /\ LowSite' = LowSite
      BY <1>2, <1>4 DEF ZeroSite, Released, LowSite
    <2> QED
      BY <1>1, <1>4, <2>1, Called
  <1> QED
    BY <1>3, <1>4

\* No call is made.
LEMMA NotCalled ==
    ASSUME BankInv, Skip(Lwip), NEW s \in Sites \ {"init", "decrement", "rxnd", "bank"},
           Goto(Lwip, s)
    PROVE  Safe'
  <1>1. /\ CallsTyped /\ Protocol /\ Quiet /\ Lwip \in Threads /\ stage[Lwip] = "out"
        /\ UNCHANGED <<owner, stage, locked, body, idx, filled, enc_address, econ1, tx_buffer>>
    BY DriverAssumption DEF BankInv, Typed, Safe, Skip, spiVars, chip, mutex, calls
  <1>2. site'[Lwip] = s
    BY <1>1 DEF BankInv, Typed, DriverTyped, Goto
  <1>3. ASSUME NEW u \in Threads PROVE MutexKept(u)' /\ BankKept(u)'
    <2>1. MutexKept(u) /\ BankKept(u)
      BY <1>1 DEF Protocol
    <2> QED
      BY <1>1, <2>1, Bystander
  <1>4. CacheKept'
    <2>1. Bank' = Bank
      BY <1>1 DEF Bank
    <2> QED
      BY <1>1, <2>1 DEF BankInv, Safe, CacheKept
  <1>5. ~ZeroSite' /\ ~Released'
    BY <1>2 DEF ZeroSite, Released
  <1>6. Quiet'
    BY <1>1, <1>5 DEF Quiet, OthersLow, LwipLow, UnlockedCall, ZeroBank, BankTested
  <1> QED
    BY <1>3, <1>4, <1>6 DEF Safe, Protocol

\* Every step of a transmission makes a call that stays in bank 0.
LEMMA TransmitLow ==
    ASSUME Typed, NEW t \in Threads, Transmit(t)
    PROVE  \E b \in NonEmpty(Low), s \in Sites \ {"init", "counted", "decrement", "rxnd", "bank"} :
              Make(t, b) /\ TakesMutex(b) /\ Goto(t, s) /\ k' = k
  <1>1. /\ k' = k /\ rxbufsize \in Nat /\ rxbufsize + 1 \in Nat
        /\ txlen[t] \in Nat /\ left[t] \in FrameLens
    <2>1. k' = k
      BY DEF Transmit, TransmitStart, ControlByte, TransmitPartial, TransmitEnd, RequestToSend,
             Spin, ReadBack, ReadResult, local
    <2>2. txlen[t] \in FrameLens /\ left[t] \in FrameLens
      BY DEF Typed, DriverTyped
    <2>3. rxbufsize \in Nat /\ rxbufsize + 1 \in Nat
      BY DEF rxbufsize, RXSTOP_INIT
    <2> QED
      BY <2>1, <2>2, <2>3, LensTyped
  <1>2. 1 \in Nat \ {0} /\ 7 \in Nat \ {0} /\ 45 \in Nat \ {0}
    OBVIOUS
  <1>3. CASE TransmitStart(t)
    <2>1. Make(t, encWriteReg(ETXST, rxbufsize)) /\ Goto(t, "control")
      BY <1>3 DEF TransmitStart
    <2>2. TakesMutex(encWriteReg(ETXST, rxbufsize))
      BY <1>1, Locking DEF ETXST
    <2> QED
      BY <1>1, <2>1, <2>2, TransmitCalls DEF Sites
  <1>4. CASE ControlByte(t)
    <2>1. Make(t, encWriteBuf(rxbufsize, 1)) /\ Goto(t, "partial")
      BY <1>4 DEF ControlByte
    <2> QED
      BY <1>1, <1>2, <2>1, TransmitCalls, Locking DEF Sites
  <1>5. CASE TransmitPartial(t)
    <2>1. PICK n \in 1..left[t] : /\ Make(t, encWriteBufRaw(n))
                                 /\ Goto(t, IF n = left[t] THEN "txnd" ELSE "partial")
      BY <1>5 DEF TransmitPartial
    <2>2. n \in Nat \ {0}
      BY <1>1, LensTyped
    <2> QED
      BY <1>1, <2>1, <2>2, TransmitCalls, Locking DEF Sites
  <1>6. CASE TransmitEnd(t)
    <2> DEFINE d == rxbufsize + 1 + txlen[t] - 1
    <2>1. Make(t, encWriteReg(ETXND, d)) /\ Goto(t, "request")
      BY <1>6 DEF TransmitEnd
    <2>2. d \in Nat
      <3>1. \A m, x \in Nat : m + 1 + x - 1 \in Nat
        OBVIOUS
      <3> QED
        BY <1>1, <3>1
    <2> HIDE DEF d
    <2>3. TakesMutex(encWriteReg(ETXND, d))
      BY <2>2, Locking DEF ETXND
    <2> QED
      BY <1>1, <2>1, <2>2, <2>3, TransmitCalls DEF Sites
  <1>7. CASE RequestToSend(t)
    <2>1. Make(t, encWriteOp("BFS", ECON1, {TXRTS})) /\ Goto(t, "spin")
      BY <1>7 DEF RequestToSend
    <2>2. TakesMutex(encWriteOp("BFS", ECON1, {TXRTS}))
      BY Locking DEF ECON1
    <2> QED
      BY <1>1, <2>1, <2>2, TransmitCalls DEF Sites
  <1>8. CASE Spin(t)
    <2>1. Make(t, encReadRegByte(ECON1)) /\ Goto(t, "spun")
      BY <1>8 DEF Spin
    <2>2. TakesMutex(encReadRegByte(ECON1))
      BY Locking DEF ECON1
    <2> QED
      BY <1>1, <2>1, <2>2, TransmitCalls DEF Sites
  <1>9. CASE ReadBack(t)
    <2>1. Make(t, encReadBuf(rxbufsize, 45)) /\ Goto(t, "result")
      BY <1>9 DEF ReadBack
    <2> QED
      BY <1>1, <1>2, <2>1, TransmitCalls, Locking DEF Sites
  <1>10. CASE ReadResult(t)
    <2> DEFINE a == rxbufsize + 1 + txlen[t]
    <2>1. Make(t, encReadBuf(a, 7)) /\ Goto(t, IF t = Lwip THEN "handled" ELSE "idle")
      BY <1>10 DEF ReadResult
    <2>2. a \in Nat
      <3>1. \A m, x \in Nat : m + x \in Nat
        OBVIOUS
      <3> QED
        BY <1>1, <3>1
    <2> HIDE DEF a
    <2> QED
      BY <1>1, <1>2, <2>1, <2>2, TransmitCalls, Locking DEF Sites
  <1> QED
    BY <1>3, <1>4, <1>5, <1>6, <1>7, <1>8, <1>9, <1>10 DEF Transmit

\* Every step of a transmission keeps it: it stays in the low registers.
LEMMA TransmitSafe ==
    ASSUME BankInv, NEW t \in Threads, Transmit(t) PROVE Safe'
  <1>1. Typed
    BY DEF BankInv
  <1> QED
    BY <1>1, TransmitLow, LowCall

\* The receive path: the packet count alone leaves bank 0, and every call of
\* receive_end after it goes back there.
LEMMA ReceiveSafe == ASSUME BankInv, Receive PROVE Safe'
  <1>1. /\ Lwip \in Threads /\ NextPointers \subseteq 0..RXSTOP_INIT /\ RxLens \subseteq 1..1518
        /\ header \in 0..RXSTOP_INIT /\ next_frame_location \in Nat /\ RXSTOP_INIT \in Nat
        /\ CallsTyped /\ DriverTyped /\ TwoBytesRead /\ Quiet /\ site \in [Threads -> Sites]
    <2>1. RXSTOP_INIT \in Nat
      BY DEF RXSTOP_INIT
    <2> QED
      BY <2>1, DriverAssumption DEF BankInv, Typed, Safe, DriverTyped
  <1>2. \A s : Goto(Lwip, s) => site'[Lwip] = s
    BY <1>1 DEF Goto
  <1>3. CASE PollPacketCount
    <2>1. Make(Lwip, encReadRegByte(EPKTCNT)) /\ site'[Lwip] = "counted"
      BY <1>2, <1>3 DEF PollPacketCount
    <2>2. TakesMutex(encReadRegByte(EPKTCNT)) /\ encReadRegByte(EPKTCNT) \in NonEmpty(Good)
      BY Locking, ReceiveCalls DEF EPKTCNT
    <2>3. ~ZeroSite' /\ ~Released' /\ ~LowSite'
      BY <2>1 DEF ZeroSite, Released, LowSite
    <2> QED
      BY <1>1, <2>1, <2>2, <2>3, Called
  <1>4. CASE NoPacket \/ AllocFails \/ BackToPolling
    BY <1>4, NotCalled DEF NoPacket, AllocFails, BackToPolling, Sites
  <1>5. CASE ReceiveStart
    <2>1. Make(Lwip, encReadBuf(next_frame_location, 6)) /\ Goto(Lwip, "alloc") /\ k' = k
      BY <1>5 DEF ReceiveStart
    <2>2. 6 \in Nat \ {0}
      OBVIOUS
    <2>3. /\ encReadBuf(next_frame_location, 6) \in NonEmpty(Low)
          /\ TakesMutex(encReadBuf(next_frame_location, 6))
      BY <1>1, <2>2, ReceiveCalls, Locking
    <2> QED
      BY <1>1, <2>1, <2>3, LowCall DEF Sites
  <1>6. CASE ReadPayload
    <2>1. PICK len \in RxLens : Make(Lwip, encReadBuf(ENC_READLOCATION_ANY, len))
      BY <1>6 DEF ReadPayload
    <2>2. Goto(Lwip, "end") /\ k' = k
      BY <1>6 DEF ReadPayload
    <2>3. len \in Nat \ {0} /\ ENC_READLOCATION_ANY \in Nat
      BY <1>1 DEF ENC_READLOCATION_ANY
    <2>4. /\ encReadBuf(ENC_READLOCATION_ANY, len) \in NonEmpty(Low)
          /\ TakesMutex(encReadBuf(ENC_READLOCATION_ANY, len))
      BY <2>3, ReceiveCalls, Locking
    <2> QED
      BY <1>1, <2>1, <2>2, <2>4, LowCall DEF Sites
  <1>7. ASSUME NEW b \in NonEmpty(Low), Make(Lwip, b), TakesMutex(b), NeedsBank(b[1]),
               site'[Lwip] \in {"rxnd", "bank"}
        PROVE  Safe'
    <2>1. b \in NonEmpty(Good) /\ b \in Seq(Low)
      BY LowIsGood DEF NonEmpty
    <2>2. ~ZeroSite'
      BY <1>7 DEF ZeroSite
    <2> QED
      BY <1>1, <1>7, <2>1, <2>2, Called
  <1>8. \A d \in Nat : /\ encWriteReg(ERXRDPT, d) \in NonEmpty(Low)
                      /\ TakesMutex(encWriteReg(ERXRDPT, d))
                      /\ NeedsBank(encWriteReg(ERXRDPT, d)[1])
    BY ReceiveCalls, Locking DEF ERXRDPT
  <1>9. CASE ReleaseFrame
    <2>1. CASE header = 0
      <3>1. Make(Lwip, encReadReg(ERXND, LowByteFirst)) /\ site'[Lwip] = "rxnd"
        BY <1>2, <1>9, <2>1 DEF ReleaseFrame
      <3>2. /\ encReadReg(ERXND, LowByteFirst) \in NonEmpty(Low)
            /\ TakesMutex(encReadReg(ERXND, LowByteFirst))
            /\ NeedsBank(encReadReg(ERXND, LowByteFirst)[1])
        BY ReceiveCalls, Locking DEF ERXND
      <3> QED
        BY <1>7, <3>1, <3>2
    <2>2. CASE header # 0
      <3>1. Make(Lwip, encWriteReg(ERXRDPT, header - 1)) /\ site'[Lwip] = "bank"
        BY <1>2, <1>9, <2>2 DEF ReleaseFrame
      <3>2. header - 1 \in Nat
        BY <1>1, <2>2
      <3> QED
        BY <1>7, <1>8, <3>1, <3>2
    <2> QED
      BY <2>1, <2>2
  <1>10. CASE ReleaseToEnd
    <2>1. /\ Make(Lwip, encWriteReg(ERXRDPT, Word(ret[Lwip], LowByteFirst)))
          /\ site'[Lwip] = "bank" /\ site[Lwip] = "rxnd" /\ stage[Lwip] = "out"
      BY <1>2, <1>10 DEF ReleaseToEnd, At
    <2>2. ret[Lwip] \in Seq(Nat) /\ Len(ret[Lwip]) = 2
      BY <1>1, <2>1 DEF CallsTyped, SpiTypeOK, TwoBytesRead
    <2>3. Word(ret[Lwip], LowByteFirst) \in Nat
      BY <2>2, WordTyped
    <2> QED
      BY <1>7, <1>8, <2>1, <2>3
  <1>11. CASE BankForDecrement
    <2> DEFINE b == encSetBank(ECON2)
    <2>1. /\ Make(Lwip, b) /\ site'[Lwip] = "decrement" /\ site[Lwip] = "bank"
          /\ stage[Lwip] = "out"
      BY <1>2, <1>11 DEF BankForDecrement, At
    <2>2. b \in NonEmpty(Good) /\ b \in Seq(Low)
      BY ReceiveCalls, LowIsGood DEF NonEmpty
    <2>3. Len(b) = 1 /\ b[1].op = "BANK"
      BY DEF encSetBank, Acc
    <2>4. enc_address = 0
      BY <1>1, <2>1 DEF Quiet, ZeroBank, Released, Tested
    <2>5. ZeroSite' /\ ~Released'
      BY <2>1 DEF ZeroSite, Released
    <2>6. \/ TakesMutex(b)
          \/ Lwip = Lwip /\ ZeroSite' /\ Len(b) = 1 /\ b[1].op = "BANK"
      BY <2>3, <2>5
    <2>7. /\ LowSite' => b \in Seq(Low)
          /\ ZeroSite' => enc_address = 0
          /\ Released' => NeedsBank(b[1]) /\ TakesMutex(b)
      BY <2>2, <2>4, <2>5
    <2> HIDE DEF b
    <2> QED
      BY <1>1, <2>1, <2>2, <2>6, <2>7, Called
  <1>12. CASE Decrement
    <2> DEFINE b == encWriteOp("BFS", ECON2, {PKTDEC})
               s == IF frame THEN "handled" ELSE "poll"
    <2>1. Make(Lwip, b) /\ Goto(Lwip, s) /\ k' = k
      BY <1>12 DEF Decrement
    <2>2. b \in NonEmpty(Low) /\ TakesMutex(b)
      BY ReceiveCalls, Locking DEF ECON2
    <2>3. s \in Sites \ {"init", "counted", "decrement", "rxnd", "bank"}
      BY DEF Sites
    <2> HIDE DEF b, s
    <2> QED
      BY <1>1, <2>1, <2>2, <2>3, LowCall
  <1> QED
    BY <1>3, <1>4, <1>5, <1>6, <1>9, <1>10, <1>11, <1>12 DEF Receive

\* Of encInitRegisters' calls, all but encSetBank take SPIMutex.
LEMMA InitCallsLocking == \A i \in 1..29 : i # 3 => TakesMutex(InitCalls[i])
  <1>1. /\ InitCalls[1] = encWriteOp("SRC", 0, {})
        /\ InitCalls[2] = encReadRegByte(ESTAT) /\ InitCalls[5] = encReadRegByte(EPKTCNT)
        /\ InitCalls[4] = encWriteOp("BFS", ECON1, {TXRST, RXRST})
        /\ InitCalls[6] = encWriteOp("BFS", ECON2, {PKTDEC})
        /\ InitCalls[7] = encWriteOp("BFC", ECON1, {TXRST, RXRST})
        /\ InitCalls[28] = encWriteOp("BFS", ECON1, {RXEN})
        /\ InitCalls[29] = encReadRegByte(EREVID)
    BY DEF InitCalls
  <1>2. \A i \in {1, 2, 4, 5, 6, 7, 28, 29} : TakesMutex(InitCalls[i])
    BY <1>1, Locking DEF ESTAT, EPKTCNT, ECON1, ECON2, EREVID
  <1>3. \A i \in {8, 9, 10, 11, 12, 19, 21} : \E a, d \in Nat : InitCalls[i] = encWriteReg(a, d)
    <2>1. /\ InitCalls[8] = encWriteReg(ERXST, RXSTART_INIT)
          /\ InitCalls[9] = encWriteReg(ERXRDPT, RXSTART_INIT)
          /\ InitCalls[10] = encWriteReg(ERXND, RXSTOP_INIT)
          /\ InitCalls[11] = encWriteReg(ETXST, TXSTART_INIT)
          /\ InitCalls[12] = encWriteReg(ETXND, TXSTOP_INIT)
          /\ InitCalls[19] = encWriteReg(MAIPG, 18) /\ InitCalls[21] = encWriteReg(MAMXFL, 1518)
      BY DEF InitCalls
    <2>2. /\ ERXST \in Nat /\ ERXRDPT \in Nat /\ ERXND \in Nat /\ ETXST \in Nat /\ ETXND \in Nat
          /\ MAIPG \in Nat /\ MAMXFL \in Nat /\ RXSTART_INIT \in Nat /\ RXSTOP_INIT \in Nat
          /\ TXSTART_INIT \in Nat /\ TXSTOP_INIT \in Nat /\ 18 \in Nat /\ 1518 \in Nat
      BY DEF ERXST, ERXRDPT, ERXND, ETXST, ETXND, MAIPG, MAMXFL, RXSTART_INIT, RXSTOP_INIT,
             TXSTART_INIT, TXSTOP_INIT
    <2> QED
      BY <2>1, <2>2
  <1>4. \A i \in {13, 14, 15, 16, 20, 22, 23, 24, 25, 26, 27} :
           \E a, d \in Nat : InitCalls[i] = encWriteRegByte(a, d)
    <2>1. /\ InitCalls[13] = encWriteRegByte(ERXFCON, 139)
          /\ InitCalls[14] = encWriteRegByte(MACON1, 13)
          /\ InitCalls[15] = encWriteRegByte(MACON2, 0)
          /\ InitCalls[16] = encWriteRegByte(MACON3, 51)
          /\ InitCalls[20] = encWriteRegByte(MABBIPG, 21)
          /\ InitCalls[22] = encWriteRegByte(228, 0)
          /\ InitCalls[23] = encWriteRegByte(229, 4)
          /\ InitCalls[24] = encWriteRegByte(226, 237)
          /\ InitCalls[25] = encWriteRegByte(227, 52)
          /\ InitCalls[26] = encWriteRegByte(224, 201)
          /\ InitCalls[27] = encWriteRegByte(225, 193)
      BY DEF InitCalls, MAADR, mac
    <2>2. /\ ERXFCON \in Nat /\ MACON1 \in Nat /\ MACON2 \in Nat /\ MACON3 \in Nat
          /\ MABBIPG \in Nat
      BY DEF ERXFCON, MACON1, MACON2, MACON3, MABBIPG
    <2> QED
      BY <2>1, <2>2
  <1>5. \A i \in {17, 18} : \E a, d \in Nat : InitCalls[i] = encWritePhy(a, d)
    BY DEF InitCalls
  <1>6. \A i \in 1..29 : \/ i = 3 \/ i \in {1, 2, 4, 5, 6, 7, 28, 29}
                         \/ i \in {8, 9, 10, 11, 12, 19, 21} \/ i \in {17, 18}
                         \/ i \in {13, 14, 15, 16, 20, 22, 23, 24, 25, 26, 27}
    OBVIOUS
  <1>7. /\ \A i \in {8, 9, 10, 11, 12, 19, 21} : TakesMutex(InitCalls[i])
        /\ \A i \in {13, 14, 15, 16, 20, 22, 23, 24, 25, 26, 27} : TakesMutex(InitCalls[i])
        /\ \A i \in {17, 18} : TakesMutex(InitCalls[i])
    <2>1. \A b : (\E a, d \in Nat : b = encWriteReg(a, d)) => TakesMutex(b)
      BY Locking
    <2>2. \A b : (\E a, d \in Nat : b = encWriteRegByte(a, d)) => TakesMutex(b)
      BY Locking
    <2>3. \A b : (\E a, d \in Nat : b = encWritePhy(a, d)) => TakesMutex(b)
      BY Locking
    <2>4. \A i \in {8, 9, 10, 11, 12, 19, 21} : TakesMutex(InitCalls[i])
      BY <1>3, <2>1
    <2>5. \A i \in {13, 14, 15, 16, 20, 22, 23, 24, 25, 26, 27} : TakesMutex(InitCalls[i])
      BY <1>4, <2>2
    <2>6. \A i \in {17, 18} : TakesMutex(InitCalls[i])
      BY <1>5, <2>3
    <2> QED
      BY <2>4, <2>5, <2>6
  <1> QED
    BY <1>2, <1>6, <1>7

\* Until encSetBank is called without the mutex, encInitRegisters has only used
\* bank 0.
LEMMA InitRegistersSafe == ASSUME BankInv, InitRegisters PROVE Safe'
  <1> DEFINE i == NextInit(k, IF k = 0 THEN 0 ELSE Value(Lwip))
  <1>1. /\ Lwip \in Threads /\ k \in 0..29 /\ site[Lwip] = "init" /\ Quiet
    BY DriverAssumption DEF BankInv, Safe, Typed, DriverTyped, InitRegisters, At
  <1>2. i \in Nat \ {0} /\ (i <= 3 => k <= 3)
    BY <1>1 DEF NextInit, ClkReady, Drain
  <1>3. CASE i <= Len(InitCalls)
    <2>1. Make(Lwip, InitCalls[i]) /\ k' = i /\ site' = site
      BY <1>3 DEF InitRegisters
    <2>2. i \in 1..29 /\ InitCalls[i] \in NonEmpty(Good)
      BY <1>2, <1>3, InitCallsGood
    <2>3. (ZeroSite' <=> i <= 3) /\ LowSite' = ZeroSite' /\ ~Released'
      BY <1>1, <2>1 DEF ZeroSite, LowSite, Released
    <2> HIDE DEF i
    <2>4. CASE i <= 3
      <3>1. InitCalls[i] \in Seq(Low)
        <4>1. i \in 1..3
          BY <2>2, <2>4
        <4> QED
          BY <4>1, InitCallsGood DEF NonEmpty
      <3>2. enc_address = 0
        BY <1>1, <1>2, <2>4 DEF Quiet, ZeroBank, ZeroSite
      <3>3. \/ TakesMutex(InitCalls[i])
            \/ Lwip = Lwip /\ ZeroSite' /\ Len(InitCalls[i]) = 1 /\ InitCalls[i][1].op = "BANK"
        <4>1. CASE i = 3
          BY <2>3, <2>4, <4>1, InitCallsGood DEF encSetBank, Acc
        <4> QED
          BY <2>2, <4>1, InitCallsLocking
      <3> QED
        BY <1>1, <2>1, <2>2, <2>3, <3>1, <3>2, <3>3, Called
    <2>5. CASE ~(i <= 3)
      <3>1. TakesMutex(InitCalls[i])
        BY <2>2, <2>5, InitCallsLocking
      <3> QED
        BY <1>1, <2>1, <2>2, <2>3, <2>5, <3>1, Called
    <2> QED
      BY <2>4, <2>5
  <1>4. CASE ~(i <= Len(InitCalls))
    <2>1. Skip(Lwip) /\ Goto(Lwip, "handled")
      BY <1>4 DEF InitRegisters
    <2> QED
      BY <2>1, NotCalled DEF Sites
  <1> QED
    BY <1>3, <1>4

-----------------------------------------------------------------------------
(* The invariant is inductive.                                              *)

\* A step that moves no thread and no bank.
LEMMA NobodyMoves ==
    ASSUME BankInv, UNCHANGED <<owner, stage, locked, body, idx, filled, enc_address, econ1,
                                tx_buffer, driverVars>>
    PROVE  Safe'
  <1>1. Protocol /\ CacheKept /\ Quiet
    BY DEF BankInv, Safe
  <1>2. ASSUME NEW u \in Threads PROVE MutexKept(u)' /\ BankKept(u)'
    <2>1. MutexKept(u) /\ BankKept(u)
      BY <1>1 DEF Protocol
    <2> QED
      BY <2>1, Bystander
  <1>3. CacheKept'
    <2>1. Bank' = Bank
      BY DEF Bank
    <2> QED
      BY <1>1, <2>1 DEF CacheKept
  <1>4. Quiet'
    <2>1. ZeroSite \/ (Released /\ Tested') => enc_address' = 0
      BY <1>1 DEF Quiet, ZeroBank, Tested
    <2> QED
      BY <1>1, <2>1, QuietStays
  <1> QED
    BY <1>2, <1>3, <1>4 DEF Safe, Protocol

\* It holds when encInitRegisters begins.
LEMMA InitSafe == DriverInit => BankInv
  <1> SUFFICES ASSUME DriverInit PROVE BankInv
    OBVIOUS
  <1>1. /\ econ1 = {} /\ owner = NoThread /\ enc_address = 0 /\ Lwip \in Threads
        /\ \A t \in Threads : /\ stage[t] = "out" /\ ~filled[t] /\ ~locked[t]
                              /\ body[t] = << >>
        /\ site[Lwip] = "init" /\ k = 0
    BY DriverAssumption DEF DriverInit, SpiInit
  <1>2. ASSUME NEW t \in Threads PROVE MutexKept(t) /\ BankKept(t)
    <2>1. MutexKept(t)
      BY <1>1, ThreadsAssumption DEF MutexKept, Inside
    <2>2. BankKept(t)
      BY <1>1 DEF BankKept
    <2> QED
      BY <2>1, <2>2
  <1>3. CacheKept
    BY <1>1 DEF CacheKept, Bank
  <1>4. Quiet
    <2>1. OthersLow
      <3>1. << >> \in Seq(Low)
        OBVIOUS
      <3> QED
        BY <1>1, <3>1 DEF OthersLow
    <2> QED
      BY <1>1, <2>1 DEF Quiet, LwipLow, UnlockedCall, ZeroBank, BankTested
  <1> QED
    BY <1>2, <1>3, <1>4, InitTyped DEF BankInv, Safe, Protocol

\* Every step of the driver keeps it.
LEMMA NextSafe == BankInv /\ [Next]_vars => BankInv'
  <1> SUFFICES ASSUME BankInv, [Next]_vars PROVE BankInv'
    OBVIOUS
  <1>1. Typed'
    BY NextTyped DEF BankInv
  <1>2. CASE Driver
    BY <1>1, <1>2, InitRegistersSafe, ReceiveSafe, TransmitSafe DEF Driver, BankInv
  <1>3. CASE \E t \in Threads : InCall(t)
    BY <1>1, <1>3, RunSafe DEF InCall, BankInv
  <1>4. CASE MiiDone /\ UNCHANGED driverVars
    BY <1>1, <1>4, NobodyMoves DEF MiiDone, mutex, calls, BankInv
  <1>5. CASE UNCHANGED vars
    BY <1>1, <1>5, NobodyMoves DEF vars, spiVars, chip, mutex, calls, BankInv
  <1> QED
    BY <1>2, <1>3, <1>4, <1>5 DEF Next

\* It holds in every reachable state.
LEMMA AlwaysSafe == Spec => []BankInv
  BY InitSafe, NextSafe, PTL DEF Spec

\* Every exchange on the SPI bus is made by the owner of SPIMutex, although
\* receive_end and encInitRegisters call encSetBank without it: such a call
\* always finds bank 0 selected, and so never touches the bus.
THEOREM BusUnderMutexHolds == Spec => []BusUnderMutex
  BY AlwaysSafe, InvImplies, PTL

\* Whenever SPIMutex is free, enc_address names the bank the chip has selected.
THEOREM BankCoherentHolds == Spec => []BankCoherent
  BY AlwaysSafe, InvImplies, PTL

\* Every access of every call is sent as it was written and lands on the
\* register that its address names.
THEOREM RightRegisterHolds == Spec => []RightRegister
  BY AlwaysSafe, InvImplies, PTL

-----------------------------------------------------------------------------
(* The register file that a call works through.                             *)

\* A set of numbers has a least one.
LEMMA Least == ASSUME NEW S, S \subseteq Nat, S # {} PROVE \E n \in S : \A m \in S : n <= m
  <1> DEFINE R == OpToRel(<, Nat)
  <1>1. IsWellFoundedOn(R, Nat)
    BY NatLessThanWellFounded
  <1>2. \A x, y \in Nat : x < y => <<x, y>> \in R
    BY DEF OpToRel
  <1> HIDE DEF R
  <1>3. PICK n \in S : \A m \in S : ~(<<m, n>> \in R)
    BY <1>1, WFMin
  <1>4. \A m \in S : ~(m < n)
    BY <1>2, <1>3
  <1> QED
    BY <1>3, <1>4

\* AtomicRegs has its own copy of what the chip does.
LEMMA SameChip ==
    /\ \A file, x, r : Atomic!Effect(file, x, r) = Effect(file, x, r)
    /\ \A file, x, r : Atomic!Answer(file, x, r) = Answer(file, x, r)
    /\ \A x : Atomic!Volatile(x) = Volatile(x)
    /\ Atomic!Stored = Stored
  <1>1. Atomic!Pointers = Pointers
    BY DEF Atomic!Pointers, Pointers, Atomic!ERDPT, ERDPT, Atomic!EWRPT, EWRPT, Atomic!ETXST, ETXST,
           Atomic!ETXND, ETXND, Atomic!ERXST, ERXST, Atomic!ERXND, ERXND, Atomic!ERXRDPT, ERXRDPT
  <1>2. Atomic!Stored = Stored
    BY Zenon, <1>1 DEF Atomic!Stored, Stored, Atomic!MAIPG, MAIPG, Atomic!MAMXFL, MAMXFL, Atomic!MIWR, MIWR,
           Atomic!ERXFCON, ERXFCON, Atomic!MACON1, MACON1, Atomic!MACON2, MACON2, Atomic!MACON3, MACON3,
           Atomic!MABBIPG, MABBIPG, Atomic!MIREGADR, MIREGADR, Atomic!MAADR, MAADR
  <1>3. \A file, r, v : Atomic!Poke(file, r, v) = Poke(file, r, v)
    BY Zenon, <1>2 DEF Atomic!Poke, Poke
  <1>4. \A file, p : Atomic!Pointer(file, p) = Pointer(file, p)
    BY Zenon DEF Atomic!Pointer, Pointer
  <1>5. \A file, p, v : Atomic!PokePointer(file, p, v) = PokePointer(file, p, v)
    BY Zenon, <1>3 DEF Atomic!PokePointer, PokePointer, Atomic!LowByte, LowByte, Atomic!HighByte, HighByte
  <1>6. ASSUME NEW file, NEW n PROVE Atomic!AfterRead(file, n) = AfterRead(file, n)
    <2>1. /\ Atomic!Pointer(file, Atomic!ERDPT) = Pointer(file, ERDPT)
          /\ Atomic!Pointer(file, Atomic!ERXST) = Pointer(file, ERXST)
          /\ Atomic!Pointer(file, Atomic!ERXND) = Pointer(file, ERXND)
      BY <1>4 DEF Atomic!ERDPT, ERDPT, Atomic!ERXST, ERXST, Atomic!ERXND, ERXND
    <2> QED
      BY <2>1 DEF Atomic!AfterRead, AfterRead
  <1>7. \A file, n : Atomic!AfterWrite(file, n) = AfterWrite(file, n)
    BY Zenon, <1>4 DEF Atomic!AfterWrite, AfterWrite, Atomic!EWRPT, EWRPT
  <1>8. Atomic!ResetRegs = ResetRegs
    BY Zenon, <1>2 DEF Atomic!ResetRegs, ResetRegs, Atomic!ERDPT, ERDPT, Atomic!ERXST, ERXST, Atomic!ERXND, ERXND,
           Atomic!ERXRDPT, ERXRDPT
  <1>9. \A file, x, r : Atomic!Effect(file, x, r) = Effect(file, x, r)
    BY Zenon, <1>3, <1>5, <1>6, <1>7, <1>8 DEF Atomic!Effect, Effect, Atomic!ERDPT, ERDPT, Atomic!EWRPT, EWRPT
  <1>10. \A file, x, r : Atomic!Answer(file, x, r) = Answer(file, x, r)
    BY Zenon, <1>2, <1>4 DEF Atomic!Answer, Answer, Atomic!ERDPT, ERDPT, Atomic!EWRPT, EWRPT
  <1>11. \A x : Atomic!Volatile(x) = Volatile(x)
    BY Zenon, <1>2 DEF Atomic!Volatile, Volatile
  <1> QED
    BY <1>2, <1>9, <1>10, <1>11

\* The files that the first n accesses of b leave, one after the other.
IsRun(file, b, n, f) ==
    f = [i \in 0..n |-> IF i = 0 THEN file ELSE Atomic!Effect(f[i-1], b[i], b[i].a % 128)]

\* There is such a sequence for every n, by induction on n.
LEMMA RunExists ==
    ASSUME NEW file, NEW b, NEW n \in Nat
    PROVE  \E f : IsRun(file, b, n, f)
  <1> DEFINE Without == {m \in Nat : ~ \E f : IsRun(file, b, m, f)}
  <1>1. ASSUME NEW m \in Without, \A l \in Without : m <= l PROVE FALSE
    <2>1. m \in Nat /\ ~ \E f : IsRun(file, b, m, f)
      OBVIOUS
    <2>2. CASE m = 0
      <3> DEFINE f == [i \in 0..0 |-> file]
      <3>1. \A i \in 0..0 : i = 0
        OBVIOUS
      <3>2. IsRun(file, b, 0, f)
        BY <3>1 DEF IsRun
      <3> QED
        BY <2>1, <2>2, <3>2
    <2>3. CASE m # 0
      <3>1. m - 1 \in Nat /\ ~(m <= m - 1)
        BY <2>1, <2>3
      <3>2. m - 1 \notin Without
        BY <1>1, <3>1
      <3>3. PICK g : IsRun(file, b, m - 1, g)
        BY <3>1, <3>2
      <3> DEFINE f == [i \in 0..m |-> IF i = m THEN Atomic!Effect(g[m-1], b[m], b[m].a % 128) ELSE g[i]]
      <3>4. DOMAIN g = 0..(m - 1)
        BY <3>3 DEF IsRun
      <3>5. g[0] = file /\ \A i \in 1..(m - 1) : g[i] = Atomic!Effect(g[i-1], b[i], b[i].a % 128)
        BY <3>1, <3>3 DEF IsRun
      <3>6. ASSUME NEW i \in 0..m
            PROVE  f[i] = IF i = 0 THEN file ELSE Atomic!Effect(f[i-1], b[i], b[i].a % 128)
        <4>1. CASE i = 0
          BY <2>1, <2>3, <3>5, <4>1
        <4>2. CASE i = m
          <5>1. i - 1 \in 0..m /\ i - 1 # m /\ i # 0
            BY <2>1, <2>3, <4>2
          <5>2. f[i-1] = g[i-1]
            BY <5>1
          <5> QED
            BY <4>2, <5>1, <5>2
        <4>3. CASE i # 0 /\ i # m
          <5>1. i - 1 \in 0..m /\ i - 1 # m /\ i \in 1..(m - 1)
            BY <2>1, <4>3
          <5>2. f[i-1] = g[i-1] /\ f[i] = g[i]
            BY <4>3, <5>1
          <5> QED
            BY <3>5, <4>3, <5>1, <5>2
        <4> QED
          BY <4>1, <4>2, <4>3
      <3>7. f = [i \in 0..m |-> IF i = 0 THEN file ELSE Atomic!Effect(f[i-1], b[i], b[i].a % 128)]
        <4> DEFINE h == [i \in 0..m |-> IF i = 0 THEN file ELSE Atomic!Effect(f[i-1], b[i], b[i].a % 128)]
        <4>1. f = [i \in 0..m |-> f[i]]
          OBVIOUS
        <4> HIDE DEF f
        <4>2. h = [i \in 0..m |-> f[i]]
          BY <3>6
        <4> QED
          BY <4>1, <4>2
      <3> HIDE DEF f
      <3> QED
        BY <2>1, <3>7 DEF IsRun
    <2> QED
      BY <2>2, <2>3
  <1>2. Without = {}
    <2> HIDE DEF Without
    <2>1. Without \subseteq Nat
      BY DEF Without
    <2> QED
      BY <1>1, <2>1, Least
  <1> QED
    BY <1>2

\* AtomicRegs!Files is such a sequence.
After(file, b, n) == Atomic!Files(file, b)[n]

\* An access on the register it names: what it does and what it reports.
Done(file, x)  == Effect(file, x, x.a % 128)
Reply(file, x) == Answer(file, x, x.a % 128)

LEMMA AfterNone == ASSUME NEW file, NEW b, Len(b) \in Nat PROVE After(file, b, 0) = file
  <1> DEFINE f == Atomic!Files(file, b)
  <1>1. f = CHOOSE g : IsRun(file, b, Len(b), g)
    BY Zenon DEF Atomic!Files, IsRun
  <1>2. IsRun(file, b, Len(b), f)
    BY <1>1, RunExists, Zenon
  <1> HIDE DEF f
  <1>3. f[0] = file
    BY <1>2 DEF IsRun
  <1> QED
    BY <1>3 DEF After, f

LEMMA AfterOne ==
    ASSUME NEW file, NEW b, Len(b) \in Nat, NEW i \in 1..Len(b)
    PROVE  After(file, b, i) = Done(After(file, b, i - 1), b[i])
  <1> DEFINE f == Atomic!Files(file, b)
  <1>1. f = CHOOSE g : IsRun(file, b, Len(b), g)
    BY Zenon DEF Atomic!Files, IsRun
  <1>2. IsRun(file, b, Len(b), f)
    BY <1>1, RunExists, Zenon
  <1> HIDE DEF f
  <1>3. f[i] = Atomic!Effect(f[i-1], b[i], b[i].a % 128)
    BY <1>2 DEF IsRun
  <1> QED
    BY <1>3, SameChip DEF After, f, Done

-----------------------------------------------------------------------------
(* A call under way, against the register file that it works through.       *)

\* SPIMutex being free, the registers are as the last call left them; else
\* they are as far as the owner's call has come.
FileKept ==
    /\ owner = NoThread => regs = settled
    /\ \A t \in Threads : owner = t => regs = After(settled, body[t], idx[t] - 1)

\* What a call was answered so far is what the file says.
AnswersKept(t) == \A i \in 1..Len(got[t]) :
    \/ Volatile(body[t][i])
    \/ got[t][i] = Reply(After(settled, body[t], i - 1), body[t][i])

\* So is the byte in rx_buffer that is still to be taken.
Received(t) == IF IsMacMii(Here(t).a) THEN rx_buffer[2] ELSE rx_buffer[1]
TakeKept(t) == (stage[t] = "take" /\ Here(t).op = "RCR" /\ ~Volatile(Here(t))) =>
                   Received(t) = regs[Here(t).a % 128]

\* There is a call exactly while a thread is in one.
BodyKept(t) == stage[t] = "out" <=> body[t] = << >>

Kept == FileKept /\ \A t \in Threads : AnswersKept(t) /\ TakeKept(t) /\ BodyKept(t)

\* A call that does not move, and a register file that does not change.
LEMMA AnswersStay ==
    ASSUME NEW u, AnswersKept(u), body'[u] = body[u], got'[u] = got[u], settled' = settled
    PROVE  AnswersKept(u)'
  BY DEF AnswersKept

\* A call that has no answer yet.
LEMMA NoAnswers == ASSUME NEW u, Len(got'[u]) = 0 PROVE AnswersKept(u)'
  <1>1. \A i \in 1..Len(got'[u]) : FALSE
    OBVIOUS
  <1> QED
    BY <1>1 DEF AnswersKept

LEMMA TakeStays ==
    ASSUME NEW u, TakeKept(u), stage'[u] = stage[u], body'[u] = body[u], idx'[u] = idx[u],
           UNCHANGED <<regs, rx_buffer>>
    PROVE  TakeKept(u)'
  <1>1. Here(u)' = Here(u)
    BY DEF Here
  <1> QED
    BY <1>1 DEF TakeKept, Received

LEMMA FileStays ==
    ASSUME FileKept, UNCHANGED <<regs, settled, owner>>,
           \A u \in Threads : owner = u => body'[u] = body[u] /\ idx'[u] = idx[u]
    PROVE  FileKept'
  BY DEF FileKept

\* Nobody's call moves.
LEMMA NobodyKeeps ==
    ASSUME Kept, UNCHANGED <<regs, owner, rx_buffer, stage, body, idx, got, settled>>
    PROVE  Kept'
  <1>1. FileKept'
    BY FileStays DEF Kept
  <1>2. ASSUME NEW u \in Threads PROVE AnswersKept(u)' /\ TakeKept(u)' /\ BodyKept(u)'
    BY AnswersStay, TakeStays DEF Kept, BodyKept
  <1> QED
    BY <1>1, <1>2 DEF Kept

\* A thread moves within an access, and the registers stay.
LEMMA StaysAt ==
    ASSUME BankInv, Kept, NEW t \in Threads, NEW s, s \notin {"out", "take"}, stage[t] # "out",
           stage' = [stage EXCEPT ![t] = s],
           UNCHANGED <<regs, owner, body, idx, got, settled>>,
           owner # t => rx_buffer' = rx_buffer
    PROVE  Kept'
  <1>1. stage'[t] = s /\ \A u \in Threads \ {t} : stage'[u] = stage[u]
    BY DEF BankInv, Typed, CallsTyped, SpiTypeOK
  <1>2. FileKept'
    BY FileStays DEF Kept
  <1>3. ASSUME NEW u \in Threads PROVE AnswersKept(u)' /\ BodyKept(u)'
    BY <1>1, AnswersStay DEF Kept, BodyKept
  <1>4. ASSUME NEW u \in Threads PROVE TakeKept(u)'
    <2>1. CASE u = t
      BY <1>1, <2>1 DEF TakeKept
    <2>2. CASE u # t /\ owner = t
      <3>1. stage[u] # "take"
        BY <2>2, Alone DEF BankInv, Safe
      <3> QED
        BY <1>1, <2>2, <3>1 DEF TakeKept
    <2>3. CASE u # t /\ owner # t
      BY <1>1, <2>3, TakeStays DEF Kept
    <2> QED
      BY <2>1, <2>2, <2>3
  <1> QED
    BY <1>2, <1>3, <1>4 DEF Kept

\* An access is done: the registers, and the answer, are those of the file.
LEMMA AdvanceKeeps ==
    ASSUME BankInv, Kept, NEW t \in Threads, NEW answer \in Nat, Advance(t, answer),
           stage[t] \in {"bank", "select", "access", "take"},
           UNCHANGED <<owner, body, settled>>,
           regs' = Done(regs, Here(t)),
           Volatile(Here(t)) \/ answer = Reply(regs, Here(t)),
           owner # t => Here(t).op = "BANK" /\ regs' = regs /\ rx_buffer' = rx_buffer
    PROVE  Kept'
  <1>1. /\ body[t] \in Seq(Access) /\ Len(body[t]) \in Nat /\ idx[t] \in 1..Len(body[t]) /\ idx[t] \in Nat
        /\ got[t] \in Seq(Nat) /\ Len(got[t]) = idx[t] - 1 /\ Here(t) = body[t][idx[t]]
    <2>1. body[t] \in Seq(Access) /\ idx[t] \in Nat /\ got[t] \in Seq(Nat)
      BY DEF BankInv, Typed, CallsTyped, SpiTypeOK
    <2>2. idx[t] \in 1..Len(body[t]) /\ Len(got[t]) = idx[t] - 1
      BY DEF BankInv, Typed, CallsTyped, WellFormed
    <2> QED
      BY <2>1, <2>2 DEF Here
  <1>2. /\ idx'[t] = idx[t] + 1 /\ got'[t] = Append(got[t], answer)
        /\ stage'[t] = EntryStage(body[t], idx[t] + 1)
        /\ \A u \in Threads \ {t} : stage'[u] = stage[u] /\ idx'[u] = idx[u] /\ got'[u] = got[u]
    BY DEF Advance, BankInv, Typed, CallsTyped, SpiTypeOK
  <1>3. stage'[t] \notin {"out", "take"}
    BY <1>2 DEF EntryStage
  <1> DEFINE i == idx[t]
             f == After(settled, body[t], i - 1)
  <1> HIDE DEF i, f
  <1>4. FileKept'
    <2>1. CASE owner = t
      <3>1. regs = f
        BY <2>1 DEF Kept, FileKept, i, f
      <3>2. After(settled, body[t], i) = Done(f, Here(t))
        <4>1. Len(body[t]) \in Nat /\ i \in 1..Len(body[t]) /\ Here(t) = body[t][i]
          BY <1>1 DEF i
        <4>2. After(settled, body[t], i) = Done(After(settled, body[t], i - 1), body[t][i])
          BY <4>1, AfterOne
        <4> QED
          BY <4>1, <4>2 DEF f
      <3>3. idx'[t] - 1 = i
        BY <1>1, <1>2 DEF i
      <3>4. regs' = After(settled', body'[t], idx'[t] - 1)
        BY <3>1, <3>2, <3>3
      <3>5. owner' = t /\ t # NoThread
        BY <2>1, ThreadsAssumption
      <3> QED
        BY <3>4, <3>5 DEF FileKept
    <2>2. CASE owner # t
      BY <1>2, <2>2, FileStays DEF Kept
    <2> QED
      BY <2>1, <2>2
  <1>5. Volatile(Here(t)) \/ answer = Reply(f, Here(t))
    <2>1. CASE owner = t
      BY <2>1 DEF Kept, FileKept, i, f
    <2>2. CASE owner # t
      <3>1. Here(t).op = "BANK"
        BY <2>2
      <3>2. \A g : Reply(g, Here(t)) = 0
        BY <3>1 DEF Reply, Answer
      <3>3. ~Volatile(Here(t))
        BY <3>1 DEF Volatile
      <3> QED
        BY <3>2, <3>3
    <2> QED
      BY <2>1, <2>2
  <1>6. AnswersKept(t)'
    <2>1. Len(got'[t]) = i /\ \A j \in 1..i : got'[t][j] = IF j = i THEN answer ELSE got[t][j]
      <3>1. i = Len(got[t]) + 1 /\ got'[t] = Append(got[t], answer) /\ got[t] \in Seq(Nat)
        BY <1>1, <1>2 DEF i
      <3> QED
        BY <3>1
    <2>2. ASSUME NEW j \in 1..i
          PROVE  \/ Volatile(body[t][j])
                 \/ got'[t][j] = Reply(After(settled, body[t], j - 1), body[t][j])
      <3>1. CASE j = i
        BY <1>1, <1>5, <2>1, <3>1 DEF i, f
      <3>2. CASE j # i
        <4>1. j \in 1..Len(got[t])
          BY <1>1, <3>2 DEF i
        <4>2. got'[t][j] = got[t][j]
          BY <2>1, <3>2
        <4> QED
          BY <4>1, <4>2 DEF Kept, AnswersKept
      <3> QED
        BY <3>1, <3>2
    <2> QED
      BY <2>1, <2>2 DEF AnswersKept
  <1>7. ASSUME NEW u \in Threads PROVE AnswersKept(u)' /\ BodyKept(u)'
    <2>1. CASE u = t
      <3>1. body[t] # << >>
        BY DEF Kept, BodyKept
      <3> QED
        BY <1>3, <1>6, <2>1, <3>1 DEF BodyKept
    <2>2. CASE u # t
      BY <1>2, <2>2, AnswersStay DEF Kept, BodyKept
    <2> QED
      BY <2>1, <2>2
  <1>8. ASSUME NEW u \in Threads PROVE TakeKept(u)'
    <2>1. CASE u = t
      BY <1>3, <2>1 DEF TakeKept
    <2>2. CASE u # t /\ owner = t
      <3>1. stage[u] # "take"
        BY <2>2, Alone DEF BankInv, Safe
      <3> QED
        BY <1>2, <2>2, <3>1 DEF TakeKept
    <2>3. CASE u # t /\ owner # t
      BY <1>2, <2>3, TakeStays DEF Kept
    <2> QED
      BY <2>1, <2>2, <2>3
  <1> QED
    BY <1>4, <1>7, <1>8 DEF Kept

-----------------------------------------------------------------------------
(* One lemma per action of a call under way.                                *)

\* No entry point of an access is the end of a call.
LEMMA EntryInside == \A b, i : EntryStage(b, i) \notin {"out", "take", "wait", "lock"}
  BY DEF EntryStage

\* The thread that is on the bus sent its own command.
LEMMA SentAsMeant ==
    ASSUME BankInv, NEW t \in Threads, filled[t]
    PROVE  stage[t] \in OnBus /\ owner = t /\ tx_buffer = Intended(t)
  <1>1. stage[t] \in OnBus
    BY DEF BankInv, Typed, CallsTyped, WellFormed
  <1> QED
    BY <1>1, OwnsBus DEF BankInv, Safe, Protocol, BankKept

\* The chip does with a command what the access asks.
LEMMA DoneAsAsked ==
    ASSUME BankInv, NEW t \in Threads, filled[t], stage[t] = "access", ~IsRead(Here(t))
    PROVE  /\ Effect(regs, AsAccess(Here(t).n), Target) = Done(regs, Here(t))
           /\ Answer(regs, AsAccess(Here(t).n), Target) = Reply(regs, Here(t))
  <1> DEFINE x == Here(t)
             c == AsAccess(x.n)
  <1>1. tx_buffer = Intended(t) /\ (NeedsBank(x) => Target = x.a % 128)
    BY InvImplies DEF RightRegister
  <1>2. x.op \in {"WCR", "BFS", "BFC", "SRC", "RBM", "WBM"}
    <2>1. x \in Good /\ x.op # "BANK"
      BY HereTyped DEF BankInv, Typed, CallsTyped, WellFormed
    <2> QED
      BY <2>1 DEF Good, Access, IsRead
  <1>3. tx_buffer.op = x.op /\ tx_buffer.d = x.d
    BY <1>1, <1>2 DEF Intended, Cmd
  <1>4. c.op = x.op /\ c.d = x.d /\ c.n = x.n
    BY <1>3 DEF AsAccess, Acc
  <1>5. c.op = "WCR" => Target = x.a % 128
    BY <1>1, <1>4 DEF NeedsBank
  <1> HIDE DEF c, x
  <1>6. Effect(regs, c, Target) = Effect(regs, x, x.a % 128)
    BY <1>2, <1>4, <1>5 DEF Effect
  <1>7. Answer(regs, c, Target) = Answer(regs, x, x.a % 128)
    BY <1>2, <1>4 DEF Answer
  <1> QED
    BY <1>6, <1>7 DEF Done, Reply, c, x

\* Reads, bit-field operations and bank switches leave the registers alone.
LEMMA RegistersLeft ==
    /\ \A file, n, r : tx_buffer.op \in {"RCR", "BFC", "BFS"} => Effect(file, AsAccess(n), r) = file
    /\ \A file, x : x.op \in {"RCR", "POLL", "BANK"} => Done(file, x) = file
    /\ \A file, x : x.op \in {"POLL", "BANK"} => Reply(file, x) = 0
  BY DEF Effect, AsAccess, Acc, Done, Reply, Answer

LEMMA LockKeeps == ASSUME BankInv, Kept, NEW t \in Threads, Lock(t) PROVE Kept'
  <1>1. /\ stage[t] = "lock" /\ idx[t] = 1 /\ Len(body[t]) \in Nat
        /\ UNCHANGED <<regs, rx_buffer, body, idx, got, settled>>
    <2>1. stage[t] = "lock" /\ UNCHANGED <<regs, rx_buffer, body, idx, got, settled>>
      BY DEF Lock, chip, calls
    <2> QED
      BY <2>1 DEF BankInv, Typed, CallsTyped, SpiTypeOK, WellFormed
  <1>2. CASE owner = NoThread
    <2>1. owner' = t /\ stage' = [stage EXCEPT ![t] = EntryStage(body[t], 1)]
      BY <1>2 DEF Lock
    <2>2. stage'[t] \notin {"out", "take"} /\ \A u \in Threads \ {t} : stage'[u] = stage[u]
      BY <2>1, EntryInside DEF BankInv, Typed, CallsTyped, SpiTypeOK
    <2>3. FileKept'
      <3>1. regs = settled /\ After(settled, body[t], 0) = settled
        BY <1>1, <1>2, AfterNone DEF Kept, FileKept
      <3>2. idx'[t] - 1 = 0
        BY <1>1
      <3>3. regs' = After(settled', body'[t], idx'[t] - 1)
        BY <1>1, <3>1, <3>2
      <3> QED
        BY <2>1, <3>3, ThreadsAssumption DEF FileKept
    <2>4. ASSUME NEW u \in Threads PROVE AnswersKept(u)' /\ BodyKept(u)' /\ TakeKept(u)'
      <3>1. AnswersKept(u)' /\ BodyKept(u)'
        BY <1>1, <2>2, AnswersStay DEF Kept, BodyKept
      <3>2. TakeKept(u)'
        <4>1. CASE u = t
          BY <2>2, <4>1 DEF TakeKept
        <4>2. CASE u # t
          BY <1>1, <2>2, <4>2, TakeStays DEF Kept
        <4> QED
          BY <4>1, <4>2
      <3> QED
        BY <3>1, <3>2
    <2> QED
      BY <2>3, <2>4 DEF Kept
  <1>3. CASE owner # NoThread
    <2>1. owner' = owner /\ stage' = [stage EXCEPT ![t] = "wait"]
      BY <1>3 DEF Lock
    <2> QED
      BY <1>1, <2>1, StaysAt
  <1> QED
    BY <1>2, <1>3

\* The end of a call: what it leaves in the file, and what it returns.
LEMMA ReturnsDone ==
    ASSUME BankInv, Kept, NEW t \in Threads, stage[t] = "unlock"
    PROVE  /\ body[t] # << >> /\ Len(body[t]) \in Nat /\ Len(got[t]) = Len(body[t])
           /\ IF locked[t] THEN owner = t /\ regs = After(settled, body[t], Len(body[t]))
              ELSE owner # t /\ settled = After(settled, body[t], Len(body[t]))
           /\ \A i \in 1..Len(body[t]) :
                 Volatile(body[t][i]) \/ got[t][i] = Reply(After(settled, body[t], i - 1), body[t][i])
  <1>1. /\ Len(body[t]) \in Nat /\ Len(got[t]) = Len(body[t]) /\ idx[t] - 1 = Len(body[t])
        /\ body[t] # << >>
    <2>1. body[t] \in Seq(Good) /\ idx[t] = Len(body[t]) + 1 /\ Len(got[t]) = idx[t] - 1
      BY DEF BankInv, Typed, CallsTyped, WellFormed
    <2>2. body[t] # << >>
      BY DEF Kept, BodyKept
    <2> QED
      BY <2>1, <2>2
  <1>2. \A i \in 1..Len(body[t]) :
           Volatile(body[t][i]) \/ got[t][i] = Reply(After(settled, body[t], i - 1), body[t][i])
    BY <1>1 DEF Kept, AnswersKept
  <1>3. MutexKept(t)
    BY DEF BankInv, Safe, Protocol
  <1>4. CASE locked[t]
    <2>1. owner = t
      BY <1>3, <1>4 DEF MutexKept, Inside
    <2>2. regs = After(settled, body[t], idx[t] - 1)
      BY <2>1 DEF Kept, FileKept
    <2> QED
      BY <1>1, <1>2, <1>4, <2>1, <2>2
  <1>5. CASE ~locked[t]
    <2>1. owner # t
      BY <1>3, <1>5 DEF MutexKept
    <2>2. Len(body[t]) = 1 /\ body[t][1].op = "BANK"
      <3>1. t = Lwip
        BY <1>5 DEF BankInv, Safe, Quiet, OthersLow
      <3> QED
        BY <1>5, <3>1 DEF BankInv, Safe, Quiet, UnlockedCall
    <2>3. After(settled, body[t], 1) = Done(After(settled, body[t], 0), body[t][1])
      <3>1. 1 \in 1..Len(body[t]) /\ 1 - 1 = 0
        BY <2>2
      <3>2. After(settled, body[t], 1) = Done(After(settled, body[t], 1 - 1), body[t][1])
        BY <1>1, <3>1, AfterOne
      <3> QED
        BY <3>1, <3>2
    <2>4. After(settled, body[t], 0) = settled
      BY <1>1, AfterNone
    <2>5. After(settled, body[t], Len(body[t])) = settled
      BY <2>2, <2>3, <2>4, RegistersLeft
    <2> QED
      BY <1>1, <1>2, <1>5, <2>1, <2>5
  <1> QED
    BY <1>4, <1>5

\* What a returning call leaves to itself and to the others.
LEMMA FinishKeeps ==
    ASSUME BankInv, Kept, NEW t \in Threads, Finish(t), stage[t] = "unlock", stage'[t] = "out"
    PROVE  /\ body'[t] = << >> /\ idx'[t] = 1 /\ got'[t] = << >> /\ ret'[t] = got[t]
           /\ UNCHANGED <<regs, rx_buffer>>
           /\ body' = [body EXCEPT ![t] = << >>]
           /\ \A u \in Threads \ {t} : /\ body'[u] = body[u] /\ idx'[u] = idx[u]
                                       /\ got'[u] = got[u] /\ ret'[u] = ret[u]
           /\ AnswersKept(t)' /\ TakeKept(t)' /\ BodyKept(t)'
  <1>1. /\ body'[t] = << >> /\ idx'[t] = 1 /\ got'[t] = << >> /\ ret'[t] = got[t]
        /\ UNCHANGED <<regs, rx_buffer>> /\ body' = [body EXCEPT ![t] = << >>]
    BY DEF Finish, chip, BankInv, Typed, CallsTyped, SpiTypeOK
  <1>2. \A u \in Threads \ {t} : /\ body'[u] = body[u] /\ idx'[u] = idx[u]
                                 /\ got'[u] = got[u] /\ ret'[u] = ret[u]
    BY Finished DEF BankInv, Typed
  <1>3. AnswersKept(t)'
    <2>1. Len(got'[t]) = 0
      BY <1>1
    <2> QED
      BY <2>1, NoAnswers
  <1>4. TakeKept(t)' /\ BodyKept(t)'
    BY <1>1 DEF TakeKept, BodyKept
  <1> QED
    BY <1>1, <1>2, <1>3, <1>4

LEMMA ReturnKeeps == ASSUME BankInv, Kept, NEW t \in Threads, Return(t) PROVE Kept'
  <1>1. /\ stage[t] = "unlock" /\ ~locked[t] /\ stage' = [stage EXCEPT ![t] = "out"]
        /\ Finish(t) /\ owner' = owner /\ settled' = settled
    BY DEF Return, mutex
  <1>2. stage'[t] = "out" /\ \A u \in Threads \ {t} : stage'[u] = stage[u]
    BY <1>1 DEF BankInv, Typed, CallsTyped, SpiTypeOK
  <1>3. /\ UNCHANGED <<regs, rx_buffer>> /\ AnswersKept(t)' /\ TakeKept(t)' /\ BodyKept(t)'
        /\ \A u \in Threads \ {t} : body'[u] = body[u] /\ idx'[u] = idx[u] /\ got'[u] = got[u]
    BY <1>1, <1>2, FinishKeeps
  <1>4. owner # t
    BY <1>1, ReturnsDone
  <1>5. FileKept'
    BY <1>1, <1>3, <1>4, FileStays DEF Kept
  <1>6. ASSUME NEW u \in Threads \ {t} PROVE AnswersKept(u)' /\ BodyKept(u)' /\ TakeKept(u)'
    BY <1>1, <1>2, <1>3, AnswersStay, TakeStays DEF Kept, BodyKept
  <1> QED
    BY <1>3, <1>5, <1>6 DEF Kept

\* A thread that holds no mutex yet, and does not queue in vain, has no answer.
LEMMA OthersUnanswered ==
    ASSUME BankInv, NEW t \in Threads, owner = t, NEW u \in Threads \ {t},
           Kept, body'[u] = body[u], got'[u] = got[u]
    PROVE  AnswersKept(u)'
  <1>1. WellFormed(u) /\ MutexKept(u) /\ body[u] \in Seq(Good) /\ idx[u] \in Nat
    BY DEF BankInv, Typed, CallsTyped, SpiTypeOK, Safe, Protocol, WellFormed
  <1>2. CASE stage[u] \in {"out", "lock", "wait"}
    <2>1. Len(got'[u]) = 0
      BY <1>1, <1>2 DEF WellFormed
    <2> QED
      BY <2>1, NoAnswers
  <1>3. CASE stage[u] \notin {"out", "lock", "wait"}
    <2>1. ~locked[u]
      <3>1. stage[u] \in Inside
        BY <1>3 DEF Inside, BankInv, Typed, CallsTyped, SpiTypeOK, Stages
      <3> QED
        BY <1>1, <3>1 DEF MutexKept
    <2>2. Len(body[u]) = 1 /\ body[u][1].op = "BANK"
      <3>1. u = Lwip
        BY <1>3, <2>1 DEF BankInv, Safe, Quiet, OthersLow
      <3> QED
        BY <1>3, <2>1, <3>1 DEF BankInv, Safe, Quiet, UnlockedCall
    <2>3. \A i \in 1..Len(got[u]) : i = 1
      <3>1. idx[u] \in 1..2
        BY <1>1, <1>3, <2>2 DEF WellFormed
      <3> QED
        BY <1>1, <3>1 DEF WellFormed
    <2>4. \A file : Reply(file, body[u][1]) = 0
      BY <2>2, RegistersLeft
    <2>5. ~Volatile(body[u][1])
      BY <2>2 DEF Volatile
    <2>6. AnswersKept(u)
      BY DEF Kept
    <2>7. \A i \in 1..Len(got[u]) : got[u][i] = 0
      BY <2>3, <2>4, <2>5, <2>6 DEF AnswersKept
    <2>8. \A i \in 1..Len(got'[u]) : got'[u][i] = Reply(After(settled', body'[u], i - 1), body'[u][i])
      BY <2>3, <2>4, <2>7
    <2> QED
      BY <2>8 DEF AnswersKept
  <1> QED
    BY <1>2, <1>3

LEMMA UnlockKeeps == ASSUME BankInv, Kept, NEW t \in Threads, Unlock(t) PROVE Kept'
  <1>1. /\ stage[t] = "unlock" /\ locked[t] /\ Finish(t) /\ settled' = regs
    BY DEF Unlock
  <1>2. owner = t /\ t \notin waiting
    BY <1>1, ReturnsDone DEF BankInv, Typed, CallsTyped, Queued
  <1>3. PICK w \in Threads \cup {NoThread} :
           /\ owner' = w /\ stage'[t] = "out" /\ w # t
           /\ IF w = NoThread THEN \A u \in Threads \ {t} : stage'[u] = stage[u]
              ELSE /\ stage[w] = "wait" /\ stage'[w] = EntryStage(body[w], 1)
                   /\ \A u \in Threads \ {t, w} : stage'[u] = stage[u]
    <2>1. CASE waiting = {}
      <3>1. owner' = NoThread /\ stage' = [stage EXCEPT ![t] = "out"]
        BY <2>1 DEF Unlock
      <3> QED
        BY <3>1, ThreadsAssumption DEF BankInv, Typed, CallsTyped, SpiTypeOK
    <2>2. CASE waiting # {}
      <3>1. PICK w \in waiting :
               owner' = w /\ stage' = [stage EXCEPT ![t] = "out", ![w] = EntryStage(body[w], 1)]
        BY <2>2 DEF Unlock
      <3>2. w \in Threads /\ w # t /\ stage[w] = "wait" /\ w # NoThread
        <4>1. waiting \subseteq Threads /\ \A u \in waiting : stage[u] = "wait"
          BY DEF BankInv, Typed, CallsTyped, SpiTypeOK, Queued
        <4> QED
          BY <1>2, <4>1, ThreadsAssumption
      <3>3. /\ stage'[t] = "out" /\ stage'[w] = EntryStage(body[w], 1)
            /\ \A u \in Threads \ {t, w} : stage'[u] = stage[u]
        BY <3>1, <3>2 DEF BankInv, Typed, CallsTyped, SpiTypeOK
      <3> QED
        BY <3>1, <3>2, <3>3
    <2> QED
      BY <2>1, <2>2
  <1>4. /\ UNCHANGED <<regs, rx_buffer>> /\ AnswersKept(t)' /\ TakeKept(t)' /\ BodyKept(t)'
        /\ \A u \in Threads \ {t} : body'[u] = body[u] /\ idx'[u] = idx[u] /\ got'[u] = got[u]
    BY <1>1, <1>3, FinishKeeps
  <1>5. FileKept'
    <2>1. CASE w = NoThread
      BY <1>1, <1>3, <1>4, <2>1, ThreadsAssumption DEF FileKept
    <2>2. CASE w # NoThread
      <3>1. w \in Threads \ {t} /\ idx[w] = 1 /\ Len(body[w]) \in Nat
        BY <1>3, <2>2 DEF BankInv, Typed, CallsTyped, SpiTypeOK, WellFormed
      <3>2. idx'[w] - 1 = 0 /\ body'[w] = body[w]
        BY <1>4, <3>1
      <3>3. After(regs, body[w], 0) = regs
        BY <3>1, AfterNone
      <3>4. regs' = After(settled', body'[w], idx'[w] - 1)
        BY <1>1, <1>4, <3>2, <3>3
      <3> QED
        BY <1>3, <2>2, <3>4 DEF FileKept
    <2> QED
      BY <2>1, <2>2
  <1>6. ASSUME NEW u \in Threads \ {t} PROVE AnswersKept(u)' /\ BodyKept(u)' /\ TakeKept(u)'
    <2>1. AnswersKept(u)'
      BY <1>2, <1>4, OthersUnanswered
    <2>2. stage'[u] = stage[u] \/ (stage[u] = "wait" /\ stage'[u] = EntryStage(body[u], 1))
      BY <1>3
    <2>3. BodyKept(u)'
      BY <1>4, <2>2, EntryInside DEF Kept, BodyKept
    <2>4. stage[u] # "take"
      BY <1>2, Alone DEF BankInv, Safe
    <2>5. TakeKept(u)'
      BY <2>2, <2>4, EntryInside DEF TakeKept
    <2> QED
      BY <2>1, <2>3, <2>5
  <1> QED
    BY <1>4, <1>5, <1>6 DEF Kept

LEMMA SetBankKeeps == ASSUME BankInv, Kept, NEW t \in Threads, SetBank(t) PROVE Kept'
  <1>1. /\ stage[t] = "bank"
        /\ UNCHANGED <<regs, owner, rx_buffer, body, settled>>
    BY DEF SetBank, chip, mutex, calls
  <1>2. CASE BankOf(Here(t).a) = enc_address /\ Here(t).op = "BANK"
    <2>1. Advance(t, 0)
      BY <1>2 DEF SetBank
    <2>2. Done(regs, Here(t)) = regs /\ Reply(regs, Here(t)) = 0
      BY <1>2, RegistersLeft
    <2>3. regs' = Done(regs, Here(t)) /\ 0 \in Nat
      BY <1>1, <2>2
    <2> QED
      BY <1>1, <1>2, <2>1, <2>2, <2>3, AdvanceKeeps
  <1>3. CASE ~(BankOf(Here(t).a) = enc_address /\ Here(t).op = "BANK")
    <2>1. \E s \in {"clear", "access"} : stage' = [stage EXCEPT ![t] = s] /\ UNCHANGED <<idx, got>>
      BY <1>3 DEF SetBank
    <2> QED
      BY <1>1, <2>1, StaysAt
  <1> QED
    BY <1>2, <1>3

LEMMA FillKeeps == ASSUME BankInv, Kept, NEW t \in Threads, Fill(t) PROVE Kept'
  BY NobodyKeeps DEF Fill, chip, mutex, calls

LEMMA SwitchBankKeeps == ASSUME BankInv, Kept, NEW t \in Threads, SwitchBank(t) PROVE Kept'
  <1>1. /\ stage[t] \in {"clear", "select"} /\ filled[t]
        /\ regs' = Effect(regs, AsAccess(Here(t).n), Target)
        /\ UNCHANGED <<owner, body, settled>>
    BY DEF SwitchBank, Exchange, mutex, calls
  <1>2. owner = t /\ tx_buffer = Intended(t)
    BY <1>1, SentAsMeant
  <1>3. regs' = regs
    <2>1. tx_buffer.op \in {"BFC", "BFS"}
      BY <1>1, <1>2 DEF Intended, Cmd
    <2> QED
      BY <1>1, <2>1, RegistersLeft
  <1>4. CASE stage[t] = "select" /\ Here(t).op = "BANK"
    <2>1. Advance(t, 0)
      BY <1>4 DEF SwitchBank
    <2>2. Done(regs, Here(t)) = regs /\ Reply(regs, Here(t)) = 0
      BY <1>4, RegistersLeft
    <2>3. regs' = Done(regs, Here(t)) /\ 0 \in Nat
      BY <1>3, <2>2
    <2> QED
      BY <1>1, <1>2, <1>4, <2>1, <2>2, <2>3, AdvanceKeeps
  <1>5. CASE ~(stage[t] = "select" /\ Here(t).op = "BANK")
    <2>1. \E s \in {"select", "access"} : stage' = [stage EXCEPT ![t] = s] /\ UNCHANGED <<idx, got>>
      BY <1>5 DEF SwitchBank
    <2> QED
      BY <1>1, <1>2, <1>3, <2>1, StaysAt
  <1> QED
    BY <1>4, <1>5

\* What a read of a register puts into rx_buffer is what the register says.
LEMMA ReadKeeps ==
    ASSUME BankInv, Kept, NEW t \in Threads, Transfer(t), IsRead(Here(t)) PROVE Kept'
  <1>1. stage[t] = "access" /\ stage' = [stage EXCEPT ![t] = "take"] /\ UNCHANGED <<idx, got>>
    BY DEF Transfer
  <1>2. PICK v \in BytesOf(Target) : Exchange(t, v)
    BY DEF Transfer
  <1>3. /\ filled[t] /\ regs' = Effect(regs, AsAccess(Here(t).n), Target)
        /\ UNCHANGED <<owner, body, settled>>
    BY <1>2 DEF Exchange, mutex, calls
  <1>4. owner = t /\ tx_buffer = Intended(t) /\ Here(t) \in Good /\ Here(t).a \in 0..255
    BY <1>1, <1>3, SentAsMeant, HereTyped DEF BankInv, Typed
  <1>5. regs' = regs
    <2>1. tx_buffer.op = "RCR"
      BY <1>1, <1>4 DEF Intended, Cmd, IsRead
    <2> QED
      BY <1>3, <2>1, RegistersLeft
  <1>6. /\ stage'[t] = "take" /\ \A u \in Threads \ {t} : stage'[u] = stage[u]
        /\ Here(t)' = Here(t)
    BY <1>1, <1>3 DEF BankInv, Typed, CallsTyped, SpiTypeOK, Here
  <1>7. TakeKept(t)'
    <2>1. SUFFICES ASSUME Here(t).op = "RCR", ~Volatile(Here(t))
                   PROVE  Received(t)' = regs[Here(t).a % 128]
      BY <1>5, <1>6 DEF TakeKept, Volatile
    <2>2. Target = Here(t).a % 128
      <3>1. NeedsBank(Here(t))
        BY <2>1 DEF NeedsBank
      <3> QED
        BY <1>1, <1>3, <3>1, InvImplies DEF RightRegister
    <2>3. v = regs[Here(t).a % 128]
      BY <2>1, <2>2 DEF Volatile, BytesOf
    <2>4. rx_buffer' = <<IF Target \in MacMii THEN 0 ELSE v,
                         IF IsMacMii(Here(t).a) THEN v ELSE rx_buffer[2]>>
      <3>1. Here(t).op \notin {"RBM", "WBM"}
        BY <2>1
      <3> QED
        BY <1>1, <1>2, <3>1 DEF Exchange
    <2>5. CASE IsMacMii(Here(t).a)
      BY <1>6, <2>3, <2>4, <2>5 DEF Received
    <2>6. CASE ~IsMacMii(Here(t).a)
      <3>1. Here(t).a % 128 = Here(t).a
        BY <1>4, <2>6 DEF IsMacMii
      <3>2. Target \notin MacMii
        BY <1>4, <2>1, <2>2, <2>6, <3>1 DEF Good
      <3> QED
        BY <1>6, <2>3, <2>4, <2>6, <3>2 DEF Received
    <2> QED
      BY <2>5, <2>6
  <1>8. FileKept'
    BY <1>1, <1>3, <1>5, FileStays DEF Kept
  <1>9. ASSUME NEW u \in Threads PROVE AnswersKept(u)' /\ BodyKept(u)'
    BY <1>1, <1>3, <1>6, AnswersStay DEF Kept, BodyKept
  <1>10. ASSUME NEW u \in Threads \ {t} PROVE TakeKept(u)'
    <2>1. stage[u] # "take"
      BY <1>4, Alone DEF BankInv, Safe
    <2> QED
      BY <1>6, <2>1 DEF TakeKept
  <1> QED
    BY <1>7, <1>8, <1>9, <1>10 DEF Kept

LEMMA TransferKeeps == ASSUME BankInv, Kept, NEW t \in Threads, Transfer(t) PROVE Kept'
  <1>1. CASE IsRead(Here(t))
    BY <1>1, ReadKeeps
  <1>2. CASE ~IsRead(Here(t))
    <2> DEFINE a == Answer(regs, AsAccess(Here(t).n), Target)
    <2>1. stage[t] = "access" /\ Exchange(t, 0) /\ Advance(t, a)
      BY <1>2 DEF Transfer
    <2>2. /\ filled[t] /\ regs' = Effect(regs, AsAccess(Here(t).n), Target)
          /\ UNCHANGED <<owner, body, settled>>
      BY <2>1 DEF Exchange, mutex, calls
    <2>3. regs' = Done(regs, Here(t)) /\ a = Reply(regs, Here(t))
      BY <1>2, <2>1, <2>2, DoneAsAsked
    <2>4. a \in Nat
      <3>1. Here(t).n \in Nat /\ regs \in Registers /\ CallsTyped
        BY <2>1, HereTyped DEF BankInv, Typed, CallsTyped, SpiTypeOK, Registers
      <3> QED
        BY <3>1, AsAccessTyped, EffectTyped
    <2>5. owner = t
      BY <2>2, SentAsMeant
    <2> HIDE DEF a
    <2> QED
      BY <2>1, <2>2, <2>3, <2>4, <2>5, AdvanceKeeps
  <1> QED
    BY <1>1, <1>2

LEMMA TakeStepKeeps == ASSUME BankInv, Kept, NEW t \in Threads, Take(t) PROVE Kept'
  <1> DEFINE result == Received(t)
  <1>1. /\ stage[t] = "take" /\ owner = t /\ IsRead(Here(t))
        /\ UNCHANGED <<regs, owner, rx_buffer, body, settled>>
    <2>1. stage[t] = "take" /\ UNCHANGED <<regs, owner, rx_buffer, body, settled>>
      BY DEF Take, chip, mutex, calls
    <2> QED
      BY <2>1, OwnsBus DEF BankInv, Safe, Typed, CallsTyped, WellFormed
  <1>2. Done(regs, Here(t)) = regs
    BY <1>1, RegistersLeft DEF IsRead
  <1>3. CASE Here(t).op = "POLL" /\ result # 0
    <2>1. stage' = [stage EXCEPT ![t] = "bank"] /\ UNCHANGED <<idx, got>>
      BY <1>3 DEF Take, Received
    <2> QED
      BY <1>1, <2>1, StaysAt
  <1>4. CASE ~(Here(t).op = "POLL" /\ result # 0)
    <2>1. Advance(t, result)
      BY <1>4 DEF Take, Received
    <2>2. result \in Nat
      <3>1. rx_buffer \in (0..255) \X (0..255)
        BY DEF BankInv, Typed, CallsTyped, SpiTypeOK
      <3>2. rx_buffer[1] \in Nat /\ rx_buffer[2] \in Nat
        BY <3>1
      <3> QED
        BY <3>2 DEF Received
    <2>3. Volatile(Here(t)) \/ result = Reply(regs, Here(t))
      <3>1. CASE Here(t).op = "POLL"
        BY <1>4, <3>1, RegistersLeft
      <3>2. CASE Here(t).op = "RCR" /\ ~Volatile(Here(t))
        <4>1. result = regs[Here(t).a % 128] /\ Here(t).a % 128 \in Stored
          BY <1>1, <3>2 DEF Kept, TakeKept, Volatile
        <4> QED
          BY <3>2, <4>1 DEF Reply, Answer
      <3> QED
        BY <1>1, <3>1, <3>2 DEF IsRead
    <2>4. regs' = Done(regs, Here(t))
      BY <1>1, <1>2
    <2> HIDE DEF result
    <2> QED
      BY <1>1, <2>1, <2>2, <2>3, <2>4, AdvanceKeeps
  <1> QED
    BY <1>3, <1>4

\* Every step inside a call keeps the file and the answers.
LEMMA RunKeeps == ASSUME BankInv, Kept, NEW t \in Threads, Run(t) PROVE Kept'
  BY LockKeeps, UnlockKeeps, ReturnKeeps, SetBankKeeps, FillKeeps, SwitchBankKeeps, TransferKeeps,
     TakeStepKeeps DEF Run

-----------------------------------------------------------------------------
(* The refinement of AtomicRegs.                                            *)

\* A site makes one call, or none.
LEMMA DriverCalls ==
    ASSUME Driver PROVE UNCHANGED spiVars \/ \E t \in Threads : \E b : Make(t, b)
  <1>1. Lwip \in Threads
    BY DriverAssumption
  <1>2. CASE InitRegisters
    <2>1. Skip(Lwip) \/ \E b : Make(Lwip, b)
      BY <1>2, Zenon DEF InitRegisters
    <2> QED
      BY <1>1, <2>1 DEF Skip
  <1>3. CASE Receive
    <2>1. Skip(Lwip) \/ \E b : Make(Lwip, b)
      BY <1>3, Zenon DEF Receive, PollPacketCount, NoPacket, ReceiveStart, ReadPayload, AllocFails,
                         ReleaseFrame, ReleaseToEnd, BankForDecrement, Decrement, BackToPolling
    <2> QED
      BY <1>1, <2>1 DEF Skip
  <1>4. CASE \E t \in Threads : Transmit(t)
    BY <1>4, Zenon DEF Transmit, TransmitStart, ControlByte, TransmitPartial, TransmitEnd,
                       RequestToSend, Spin, ReadBack, ReadResult
  <1> QED
    BY <1>2, <1>3, <1>4 DEF Driver

\* A call begins with no answer and outside the mutex.
LEMMA MakeKeeps == ASSUME BankInv, Kept, NEW t \in Threads, NEW b, Make(t, b) PROVE Kept'
  <1> DEFINE m == TakesMutex(b)
             s == IF m THEN "lock" ELSE EntryStage(b, 1)
  <1>1. /\ stage[t] = "out" /\ b # << >> /\ body' = [body EXCEPT ![t] = b]
        /\ idx' = [idx EXCEPT ![t] = 1] /\ stage' = [stage EXCEPT ![t] = s]
        /\ UNCHANGED <<regs, owner, rx_buffer, got, settled>>
    BY DEF Make, Begin, chip, mutex
  <1>2. s \notin {"out", "take"}
    BY EntryInside
  <1> HIDE DEF s
  <1>3. /\ body'[t] = b /\ stage'[t] = s
        /\ \A u \in Threads \ {t} : body'[u] = body[u] /\ idx'[u] = idx[u] /\ stage'[u] = stage[u]
    BY <1>1 DEF BankInv, Typed, CallsTyped, SpiTypeOK
  <1>4. owner # t
    BY <1>1 DEF BankInv, Safe, Protocol, MutexKept, Inside
  <1>5. FileKept'
    BY <1>1, <1>3, <1>4, FileStays DEF Kept
  <1>6. AnswersKept(t)' /\ TakeKept(t)' /\ BodyKept(t)'
    <2>1. Len(got'[t]) = 0
      BY <1>1 DEF BankInv, Typed, CallsTyped, SpiTypeOK, WellFormed
    <2> QED
      BY <1>1, <1>2, <1>3, <2>1, NoAnswers DEF TakeKept, BodyKept
  <1>7. ASSUME NEW u \in Threads \ {t} PROVE AnswersKept(u)' /\ TakeKept(u)' /\ BodyKept(u)'
    BY <1>1, <1>3, AnswersStay, TakeStays DEF Kept, BodyKept
  <1> QED
    BY <1>5, <1>6, <1>7 DEF Kept

\* What a step is to EncSpi.
LEMMA StepKinds ==
    ASSUME [Next]_vars
    PROVE  \/ \E t \in Threads : Run(t) \/ \E b : Make(t, b)
           \/ UNCHANGED <<regs, owner, rx_buffer, stage, body, idx, got, ret, settled>>
  <1>1. CASE Driver
    BY <1>1, DriverCalls DEF spiVars, chip, mutex, calls
  <1>2. CASE \E t \in Threads : InCall(t)
    BY <1>2 DEF InCall
  <1>3. CASE MiiDone
    BY <1>3 DEF MiiDone, mutex, calls
  <1>4. CASE UNCHANGED vars
    BY <1>4 DEF vars, spiVars, chip, mutex, calls
  <1> QED
    BY <1>1, <1>2, <1>3, <1>4 DEF Next

LEMMA NextKeeps == BankInv /\ Kept /\ [Next]_vars => Kept'
  BY StepKinds, RunKeeps, MakeKeeps, NobodyKeeps

LEMMA InitKeeps == DriverInit => Kept
  <1> SUFFICES ASSUME DriverInit PROVE Kept
    OBVIOUS
  <1>1. owner = NoThread /\ settled = regs
    BY DEF DriverInit, SpiInit
  <1>2. FileKept
    BY <1>1, ThreadsAssumption DEF FileKept
  <1>3. ASSUME NEW t \in Threads PROVE AnswersKept(t) /\ TakeKept(t) /\ BodyKept(t)
    <2>1. stage[t] = "out" /\ body[t] = << >> /\ got[t] = << >>
      BY DEF DriverInit, SpiInit
    <2>2. \A i \in 1..Len(got[t]) : FALSE
      BY <2>1
    <2> QED
      BY <2>1, <2>2 DEF AnswersKept, TakeKept, BodyKept
  <1> QED
    BY <1>2, <1>3 DEF Kept

LEMMA AlwaysKept == Spec => []Kept
  BY InitKeeps, NextKeeps, AlwaysSafe, PTL DEF Spec

\* A call is asked for when it begins...
LEMMA MakeIsAsk ==
    ASSUME BankInv, BankInv', Kept, NEW t \in Threads, NEW b, Make(t, b) PROVE Atomic!Ask(t)
  <1>1. /\ stage[t] = "out" /\ b # << >> /\ body' = [body EXCEPT ![t] = b]
        /\ ret' = [ret EXCEPT ![t] = << >>] /\ settled' = settled
    BY DEF Make, Begin
  <1>2. body \in [Threads -> Seq(Access)] /\ body' \in [Threads -> Seq(Access)]
    BY DEF BankInv, Typed, CallsTyped, SpiTypeOK
  <1>3. body[t] = << >>
    BY <1>1 DEF Kept, BodyKept
  <1>4. body' \in [Threads -> Seq(Access) \cup {<< >>}]
    BY <1>2
  <1>5. body'[t] # << >> /\ \A u \in Threads \ {t} : body'[u] = body[u]
    BY <1>1, <1>2
  <1> QED
    BY <1>1, <1>3, <1>4, <1>5 DEF Atomic!Ask

\* ... and performed when it returns, with or without the mutex.
LEMMA ReturnIsPerform ==
    ASSUME BankInv, BankInv', Kept, NEW t \in Threads, Unlock(t) \/ Return(t)
    PROVE  Atomic!Perform(t)
  <1> DEFINE b == body[t]
             files == Atomic!Files(settled, b)
  <1>1. /\ stage[t] = "unlock" /\ Finish(t) /\ t \notin waiting
        /\ IF locked[t] THEN settled' = regs ELSE settled' = settled
    BY DEF Unlock, Return, BankInv, Typed, CallsTyped, Queued
  <1>2. /\ b # << >> /\ Len(got[t]) = Len(b) /\ settled' = files[Len(b)]
        /\ \A i \in 1..Len(b) : Volatile(b[i]) \/ got[t][i] = Reply(files[i-1], b[i])
    BY <1>1, ReturnsDone DEF After
  <1>3. /\ body' = [body EXCEPT ![t] = << >>] /\ ret' = [ret EXCEPT ![t] = got[t]]
    BY <1>1 DEF Finish
  <1>4. ret \in [Threads -> Seq(Nat)] /\ ret' \in [Threads -> Seq(Nat)]
    BY DEF BankInv, Typed, CallsTyped, SpiTypeOK
  <1>5. ret'[t] = got[t] /\ \A u \in Threads \ {t} : ret'[u] = ret[u]
    BY <1>3, <1>4
  <1> HIDE DEF files
  <1>6. \A i \in 1..Len(b) :
           Atomic!Volatile(b[i]) \/ ret'[t][i] = Atomic!Answer(files[i-1], b[i], b[i].a % 128)
    BY <1>2, <1>5, SameChip DEF Reply
  <1>7. files = Atomic!Files(settled, body[t])
    BY DEF files
  <1> QED
    BY Zenon, <1>2, <1>3, <1>4, <1>5, <1>6, <1>7 DEF Atomic!Perform

\* In between, nothing that a caller can see happens.
LEMMA InsideIsHidden ==
    ASSUME NEW t \in Threads, Run(t), ~Unlock(t), ~Return(t)
    PROVE  UNCHANGED <<settled, body, ret>>
  BY DEF Run, Lock, SetBank, Fill, SwitchBank, Transfer, Take, Exchange, calls

\* Every public call of enc28j60.c is atomic to its callers: what it did to the
\* registers and what it returned are what it would have, had it run alone at
\* the moment it returned.
THEOREM CallsAreAtomicHolds == Spec => CallsAreAtomic
  <1>1. DriverInit => Atomic!Init
    <2> SUFFICES ASSUME DriverInit PROVE Atomic!Init
      OBVIOUS
    <2>1. settled \in [Stored -> 0..255]
      BY InitTyped DEF Typed, CallsTyped, SpiTypeOK
    <2>2. settled \in [Atomic!Stored -> 0..255]
      BY <2>1, SameChip
    <2> QED
      BY <2>2 DEF Atomic!Init, DriverInit, SpiInit
  <1>2. BankInv /\ BankInv' /\ Kept /\ [Next]_vars => [Atomic!Next]_(Atomic!avars)
    <2> SUFFICES ASSUME BankInv, BankInv', Kept, [Next]_vars
                 PROVE  Atomic!Next \/ UNCHANGED <<settled, body, ret>>
      BY DEF Atomic!avars
    <2>1. ASSUME NEW t \in Threads, Run(t) PROVE Atomic!Next \/ UNCHANGED <<settled, body, ret>>
      BY <2>1, ReturnIsPerform, InsideIsHidden DEF Atomic!Next
    <2>2. ASSUME NEW t \in Threads, NEW b, Make(t, b) PROVE Atomic!Next
      BY <2>2, MakeIsAsk DEF Atomic!Next
    <2> QED
      BY <2>1, <2>2, StepKinds
  <1>3. Spec => []BankInv /\ []Kept
    BY AlwaysSafe, AlwaysKept, PTL
  <1> QED
    BY <1>1, <1>2, <1>3, PTL DEF Spec, CallsAreAtomic, Atomic!Spec
=============================================================================

# Verification of arm_ethernetboard

`arm_ethernetboard` is the firmware of a small board: an STM32F1 under ChibiOS
that drives a Microchip ENC28J60 Ethernet controller over SPI and runs lwIP on
it.  The program's own code is about 900 lines of C; everything under `deps/`
is vendored, and `config/` and `board/` are ChibiOS's and lwIP's option headers
as this board sets them.  This directory holds TLA+ models of that code, of the
parts of the kernel and of lwIP that it leans on, the TLC runs that check them,
and TLAPS proofs: of every safety property that a run checks, for every value of
the constants, and of what the options say about each other.

## 1. Inventory

| Part | State it keeps | Operations | Interacts through |
|---|---|---|---|
| Start-up and scheduling: `main.c`, `lwipInit`, `lwip_thread` (`lwipthread.c`) | threads and priorities, `lwip_trp`, lwIP's `netif_list` | create threads, suspend main, `tcpip_init`, `netif_add`, `netif_set_up`, poll every 10 ticks | thread creation, priorities, lwIP calls |
| Register access: `enc28j60.c` | `SPIMutex`, `enc_address` (cached bank), `tx_buffer`, `rx_buffer`; in the chip: the registers, ECON1's bank bits, MISTAT.BUSY | the `enc...` calls: byte and word reads and writes, bit-field operations, PHY write, buffer transfers, `encSetBank` | blocking SPI exchanges; called by both threads |
| Chip initialisation: `encInit`, `encInitRegisters` | the step reached | reset, drain, pointers, filters, MAC, PHY, enable | the register calls |
| Reception: `low_level_input`, `enc_read_received_pbuf` | `next_frame_location`; in the chip: the ring, ERDPT, ERXRDPT, ERXWRPT, EPKTCNT | count, read header, allocate, read payload, release, decrement, hand to lwIP | the register calls; the chip writes the ring at any time |
| Transmission: `low_level_output`, `enc_transmit_pbuf` | in the chip: ETXST, ETXND, EWRPT, TXRTS, the transmit buffer | start, one write per pbuf, end, wait, read back | the register calls; run by `lwip_thread` and by lwIP's tcpip thread |
| Debug output: `debug.c` | `DbgMutex` (never taken), `buffer` | characters to ITM, formatting | called from every thread, and by lwIP through `LWIP_PLATFORM_DIAG` |
| Kernel: ChibiOS's `chschd.c`, `chmtx.c`, `spi.c` | ready list, priorities, mutex queues, `SPID1` | lock, unlock, exchange, sleep; DMA and timer interrupts | called by every thread; interrupts |
| lwIP's ARP table: `netif/etharp.c` | `arp_table`, `etharp_cached_entry`, the queued pbufs | timer tick, ARP input, output and query | `lwip_thread` through `ethernet_input`, tcpip thread through its timers |
| Options: `config/`, `board/` | - | which parts exist, how large they are, at which priority and clock | every part above |
| CMSIS, STM32 HAL, tinyprintf | | | modelled only where `debug.c` calls them |

Three threads matter.  `lwip_thread` (priority NORMALPRIO-1) polls and
receives, and sends when lwIP answers what it received.  lwIP's tcpip thread
(LOWPRIO+1, `config/lwipopts.h:1253`) runs lwIP's timers, some of which send.
`main` (NORMALPRIO) and the blinker (NORMALPRIO+1) are above both and touch
neither the chip nor lwIP.  There is no time slicing (`config/chconf.h:82`).

What is hard here:

* **Interleaving inside one register access.**  An SPI exchange blocks its
  thread until the DMA is done, and the command buffer, the answer buffer and
  the bank cache are shared.  `SPIMutex` protects them, except that
  `encSetBank` is called without it by `receive_end` and `encInitRegisters`.
* **Interleaving between accesses.**  Nothing holds a whole reception or a
  whole transmission together, while the chip's pointers are shared.
* **The chip as a third actor.**  It writes the receive ring, reads the
  transmit buffer and changes EPKTCNT, TXRTS and MISTAT.BUSY on its own.
* **Boundaries**: the ring's wrap, ERXRDPT's errata workaround, the transmit
  buffer's place beside the ring, `pbuf_alloc`'s failure.
* **lwIP's core in two threads**: `lwip_thread` calls `ethernet_input` itself,
  while the tcpip thread runs lwIP's timers, and nothing locks the tables.
* **Start-up order**: the tcpip thread and its timers exist before the mutex
  and the chip are initialised.

What makes each part correct:

* register access: the bus is used under the mutex only, the cached bank is
  true, an access reaches the register it names, a call is atomic, a call
  returns;
* reception: frames reach lwIP whole, once, in order; the ring and the count
  stay in step with the chip whether a pbuf was had or not;
* transmission: what goes on the wire is what was asked for, and it goes out;
* the kernel: a mutex has one owner and passes to the highest waiter, priorities
  are inherited and given back exactly, no wake-up is lost;
* the ARP table: a queued packet is freed once on every path, an address has one
  entry, and a pending entry ends;
* debug output: a thread's characters come out once and in order, and losing or
  splitting takes a thread above;
* the options: what one part assumes about another's size, priority or clock;
* start-up: nobody sends before the chip is ready, the reference is set before
  the thread that was to resume it runs, the interface comes up, no thread is
  starved.

`PROJECT.json` lists the hazards line by line, with the properties that watch
each.

## 2. Modules

| Module | Models | Built on |
|---|---|---|
| `EncRegs` | register addresses, the calls of `enc28j60.c` as sequences of accesses, the chip's response to one access | - |
| `AtomicRegs` | abstract specification: a register file on which each call happens at once | `EncRegs` |
| `EncSpi` | the access machinery: mutex, bank cache, SPI buffers, one step per exchange | `EncRegs` |
| `EncDriver` | who calls what in which order, at the level of register calls | `EncSpi`, instance of `AtomicRegs` |
| `EncTrans` | frames, the ring and the transmit buffer, byte by byte; one step per register call | instance of `FrameQueue` |
| `FrameQueue` | abstract specification: what reception promises lwIP | - |
| `LwipStart` | start-up and scheduling of the threads | - |
| `Mutex` | abstract specification: what `chMtxLock` and `chMtxUnlock` promise | - |
| `ChKernel` | ChibiOS's ready list, scheduler, mutexes with priority inheritance | - |
| `ChSpi` | threads at mutexes and at the blocking SPI driver, interrupts | `ChKernel`, instance of `Mutex` |
| `Etharp` | lwIP's ARP table under two threads | - |
| `DbgPrint` | `dbg_print`, `dbg_print_wrapper`, ITM | - |
| `LwipOptions` | `config/lwipopts.h`, and the conditions of lwIP's `init.c` | - |
| `Buffers` | sizes: ring, transmit buffer, MTU, lwIP's heap | `LwipOptions`, `EncRegs` |
| `ChOptions` | `config/chconf.h`, `config/halconf.h`: kernel parts, priorities, system time | `LwipOptions` |
| `Board` | `config/mcuconf.h`, `board/board.h`: clocks, interrupt priorities, pins | `ChOptions` |
| `EncDriverProofs` | types of `EncDriver`, and the lemmas on its calls | `EncDriver` |
| `EncBankProofs` | the bus, the bank cache, and that each call is atomic | `EncDriverProofs` |
| `EncTransProofs` | reception and transmission | `EncTrans` |
| `LwipStartProofs` | the order of the start-up | `LwipStart` |
| `ChSpiProofs` | the scheduler, the mutexes, the SPI driver | `ChSpi` |
| `EtharpProofs` | the ARP table | `Etharp` |
| `DbgPrintProofs` | the debug output | `DbgPrint` |
| `OptionProofs` | theorems about the options and sizes | `LwipOptions`, `Buffers`, `ChOptions`, `Board` |
| `MCEncDriver`, `MCEncTrans`, `MCChSpi`, `MCDbgPrint` | values of the constants for TLC | |

The driver is split in two levels.  `EncDriver` knows threads, the mutex and
every SPI exchange, but not the frames' contents; it shows that each public
call of `enc28j60.c` is atomic (`CallsAreAtomic`).  `EncTrans` uses exactly
that: one step per call, and the contents of the memory in full.

### EncRegs and EncSpi

A call is a sequence of accesses (`encWriteReg(a, d)` is two `WCR`s), and an
access carries its opcode, its register with bank and MAC/MII bits, and its
data.  `EncSpi` runs the sequence for each thread:

    lock -> [ bank -> (clear -> select ->) access -> (take ->) ]* -> unlock

* `bank` is `encSetBank`'s test and its write of `enc_address`;
* `clear`, `select` and `access` are the three places that exchange on the
  bus, each in two steps, `Fill` (write `tx_buffer`, select the chip) and the
  exchange, because the thread blocks between them: the chip executes whatever
  `tx_buffer` holds at the second step in whatever bank it has selected;
* `take` reads the answer out of `rx_buffer` after the exchange;
* `Lock` and `Unlock` are ChibiOS's: a thread that finds the mutex taken
  queues, and unlocking hands the mutex to the first of the queue.

A call that does not take the mutex (`encSetBank` from outside) skips `lock`
and `unlock`'s hand-over.  Nothing in the model keeps such a call, or a bug,
off the bus: the properties have to show it.

Abstractions: a register whose value the driver cannot know (ESTAT, EPKTCNT,
EREVID, TXRTS in ECON1) answers any of `VolatileBytes`; buffer transfers carry
a length and report where they started; the second byte of `tx_buffer`, which
a read leaves alone, counts as zero, for the chip ignores it; the answer of a
MAC or MII register is in `rx_buffer[2]` after its dummy byte, as in the code.
`enc_address` is the bank's number, the code's mask shifted by five.

Priority inheritance is left out of this mutex: it decides how soon the owner
runs, and `EncSpi` lets either thread run at every step.  `ChKernel` has it.

### EncDriver

`site[t]` is the call that thread `t` makes next; every `enc...` call of
`encInitRegisters`, `low_level_input`, `receive_end` and `enc_transmit_pbuf`
is an action that begins it, and a decision on a returned value is taken at
the next site.  `InitCalls` is `encInitRegisters` in source order;
`NextInit` holds its two loops, including the precedence of
`!encReadOp(...) & ESTAT_CLKRDY` as C has it.  The other thread may begin a
transmission at any time once the interface is up.

### EncTrans and FrameQueue

The memory is an array of cells; the chip writes a frame's header (next
pointer, length, status) and payload from ERXWRPT on, wrapping at ERXND,
whenever there is room up to ERXRDPT, and otherwise drops it.  The driver's
steps are those of `EncDriver`, with the bytes.  `MayRun` is the scheduling: 
`lwip_thread` has the higher priority and leaves the processor only to sleep,
to wait for an exchange or for the mutex.  While it is neither asleep nor
polling TXRTS, the tcpip thread makes at most one call between two of its
calls: the one whose `chMtxLock` was already waiting.

Two steps stand for more than one call.  `ReleaseFrame` is the read of ERXND
and the write of ERXRDPT, and `encSetBank` behind it, which has no effect here
(`EncDriver` has all three); `ReadBack` is the last poll of TXRTS and the first
of the two reads behind it.  The chip of this model treats an odd and an even
ERXRDPT alike: that the code avoids even ones is `ReadPointerOdd`, what the
erratum would do otherwise is not modelled.

`Radix` stands for 256: what one byte of a pointer or a length holds.  With
`Radix = 8` and a ring of 24 cells both bytes of a pointer matter, and the
length's top bit is masked as `0x7f` masks it.  The frames of the runs are too
short to need the length's high byte: that part is shown by `ReceivesInOrder`
and `RingsIntact` of `EncTransProofs`, for every length.  The history variables
`queue`, `place` (where each frame of the queue begins), `delivered`, `wire`,
`asked` and `clobbered` are read by no action's guard but the bound on the
number of packets. `TransAssumption` asks of the sizes what the code gives: a
ring that ends at an odd address, as the errata demand, received lengths below
2^15 (MAMXFL is 1518), and sent ones that fit in the transmit buffer with the
status behind them, which `TransmitFits` of `OptionProofs` proves of the
repository's numbers.

`FrameQueue` is the promise: a queue of accepted frames, each delivered whole
at its turn or discarded.

### LwipStart

Four threads with ChibiOS's states; a thread runs only if no ready thread has
a higher priority.  A step takes a thread to the next point where it blocks or
makes another ready.  lwIP's `netif_add` (init function first, then the list,
`deps/lwip/src/core/netif.c:261-267`) and the tcpip thread's wait for timers
are modelled from their source as far as they decide who runs the driver when.
The gratuitous ARP request that `netif_set_up` sends is one blocking step of
`lwip_thread` (`SetUp`), at which the chip has been configured.

### ChKernel, ChSpi and Mutex

`ChKernel` keeps `chschd.c`'s and `chmtx.c`'s data: the ready list in order,
each thread's current and own priority, each mutex's owner and queue, the list
of mutexes a thread owns.  A kernel call runs under the system lock and is one
step, except `chMtxLockS`'s walk along a chain of owners, which is one step per
owner (`Walk`): each is boosted and moved to its new place, in the queue of the
mutex it waits for (`Requeued`) or in the ready list (`Relisted`).  While the
walk is under way (`~Unlocked`) nothing else happens.  `PassMutex` is
`chMtxUnlock` with a waiter: the priority is computed again from the mutexes
still owned, the first waiter becomes owner and is made ready, and the thread
with the highest priority runs.

`ChSpi` adds what threads do: each goes through scripts of `lock`, `unlock`,
`exchange` and `sleep`, as the callers of `enc28j60.c` do.  The scripts are
`Disciplined`: mutexes are unlocked in reverse order, which `chMtxUnlock`
demands in its comment and its assertion, none is locked twice or kept, and an
exchange is made under `SPIMutex`.  Every call of `enc28j60.c` is of this kind,
"lock, exchanges, unlock"; that the calls of `encSetBank` without the mutex make
no exchange is `BusUnderMutex` of `EncDriver`.  `spiExchange`
suspends its thread, the DMA's interrupt resumes it.  There is one processor,
and `current` is the thread on it.  `MutexesKept` says that each mutex, with
its hand-over and its inheritance, is `Mutex`: that is what `EncSpi`'s `Lock`
and `Unlock` take it for.

### Etharp

One entry has the fields of `struct etharp_entry`; with `ARP_QUEUEING` off
(`ArpAsModelled` in `OptionProofs`) its queue is one pbuf.  `frame[t]` is where
thread `t` is in `etharp.c` and its locals.  A step goes up to the next access
of the table, or to a transmission, during which the thread is blocked and the
other may run.  `MayRun` is the scheduling: `lwip_thread` may preempt the tcpip
thread between any two steps, the tcpip thread runs only while `lwip_thread`
sleeps or transmits.  `Alone` is the exclusion that lwIP takes for granted;
the code does not have it (`NothingLocksTheCore`), and the run without it is a
violation.

`low_level_output`'s missing result is a choice: what `etharp_request` returns
is 0 or not.  The times in ticks are cut down to a few; the order of the
constants is kept (`EtharpAssumption`).  A pbuf is the packet of the queue; a
packet being sent by its caller belongs to the caller and is not in `ref`.

### DbgPrint

Three threads by priority.  A step is one access to shared state: a character
stored by `vsprintf`, a character read through `msg`, the poll of the stimulus
port, the write to it.  A character is a message's name and its place in it, so
that what arrives can be compared with what was printed.  `enabled` is whether
a probe listens: without one `ITM_SendChar` returns at once.  Nobody sleeps
while it prints: `ITM_SendChar` spins, and only a thread above interrupts.

### LwipOptions, Buffers, ChOptions, Board

Definitions of the options that decide how the parts above behave, under their
own names.  What lwIP and ChibiOS check about them with `#error` is stated as
an operator (`PoolsSupplied`, `DependenciesMet`, `TimeAccepted`,
`ClocksAccepted`) and proved of these values in `OptionProofs`; so is what no
compiler checks, and what the models rest on.  They have no behaviour and no
run.

## 3. Runs

| Run | Shows | Bounds |
|---|---|---|
| `EncDriver` | types, `BusUnderMutex`, `BankCoherent`, `RightRegister`, refinement of `AtomicRegs`, `CallsReturn` | both threads, next pointers 0 and 1502, packets of 2 bytes in one or two pbufs, low byte read first |
| `TransApart` | each direction without the other. Reception: `InputIntact`, `RingIntact`, `CountMatchesQueue`, `ReadPointerOdd`, refinement of `FrameQueue` (with its liveness). Transmission: `SentWhole`, `ControlByteKept`, `EverythingSent` | five arrivals of 1 or 4 bytes into a ring of 24, or three packets of up to 3 bytes from the tcpip thread |
| `TransSingle` | `IntactUnlessClobbered`, `RingIntact`, `SentWhole` with reception and `lwip_thread`'s own sending | five arrivals, three packets of 1 or 2 bytes; cut off at the first overwritten byte |
| `TransOverlap`, `TransTwoSenders`, `TransReadMoved` | violations, see section 5 | the smallest that reach them |
| `LwipStart` | `ReferenceFirst`, `ChipReady`, `PollingStarts`, `TimersServed` | none beyond two priorities |
| `ChSpi` | `HighestRuns`, `Inheritance`, `PassedToHighest`, `ExchangePaired`, `WaitEnds`, refinement of `Mutex` | four threads of three priorities, two mutexes, nested by the lowest and the highest |
| `Etharp` | `RefsExact`, `StableUnqueued`, `OneEntryEach`, `PendingEnds`, with `Alone` | two entries, three hosts, two pbufs, entries of age up to 4 |
| `EtharpRace`, `EtharpFlood` | violations, see section 5 | as `Etharp` |
| `DbgPrint` | `StreamExact`, `LostOnlyWhenOvertaken`, `SplitFromAbove`, `PrintsReturn` | messages of two or three characters, two from `lwip_thread` and one from each other, a port of one character |

Why the bounds are enough.  `EncDriver` loops: after one frame and one packet
every control state has been left and entered again with every bank, cache
value and buffer content that the call graph can produce, so the runs cover
unbounded sequences of frames.  Two threads are all the program has; the
proofs hold for any number.  Both pbuf counts occur (the loop of
`enc_transmit_pbuf` with and without a second turn), and both values of the
next pointer that `receive_end` tells apart.  In `EncTrans` a frame takes 8 or
10 cells: three small ones fill the ring, with five the ring wraps twice, and
a wrap falls inside a header, inside a payload and between the two.

In `ChSpi` the two nested mutexes make chains of owners with a middle, and two
threads of one priority make the order among equals matter.  In `Etharp` two
entries for three hosts make every call of a full table recycle; two pbufs for
two entries let the queue of each be full and allocation fail.  In `DbgPrint`
the port holds less than a message, and the lengths differ so that a message
can be cut short or prolonged by another's NUL.

`TransSingle` uses a constraint: once a transmission has overwritten an unread
byte nothing more is claimed, and `TransOverlap` shows what follows.

### Fairness

* `EncDriver`: a call under way goes on (`InCall`), and the PHY's serial
  interface finishes.  A thread off the processor is asleep, waiting for the
  mutex or for a DMA; each of these ends, and the thread of higher priority
  goes through one of them at every access, so the lower one gets its turn.
  Nothing is assumed about starting calls or about the end of a transmission.
* `EncTrans`: `lwip_thread` polls for ever; a transmission that was begun goes
  on; and the chip ends what it was told to send.  The last is an assumption:
  the code waits for TXRTS without a timeout.
* `LwipStart`: sleeps and exchanges end (`Wakes`, weak); the processor is
  never idle while a thread is ready.  The threads' own steps get strong
  fairness: lwip_thread sleeps 10 ticks in every turn and the blinker a
  second, so that the processor is free for a lower thread again and again,
  and the model, which does not order two wake-ups against each other, would
  otherwise let them always coincide.

* `ChSpi`: the DMA and the timer end what they began (weak).  A thread's steps
  get strong fairness: between two interrupts there is time for a step.
* `Etharp`: lwIP's timer fires again and again, and a call that was begun goes
  on (strong, because the other thread may be in between).  Nothing is assumed
  about answers or about what is sent.
* `DbgPrint`: a probe that listens goes on reading; a thread goes on printing
  when no thread above prints.

## 4. Proofs

Every theorem holds for every value of the constants that the named assumptions
allow:

* `ThreadsAssumption`, `DriverAssumption` (`EncSpi`, `EncDriver`): `NoThread` is
  not a thread, priorities are numbers, `Lwip` is a thread, next pointers lie in
  the ring, lengths are between 1 and 1518, the compiler evaluates
  `_encReadReg`'s operands in one order or the other;
* `TransAssumption` (`EncTrans`): the sizes, see section 2;
* `PrioAssumption` (`LwipStart`): `LOWPRIO` lies at least three below
  `NORMALPRIO`, as ChibiOS defines them;
* `KernelAssumption`, `ScriptsAssumption` (`ChKernel`, `ChSpi`): priorities are
  at most ChibiOS's `HIGHPRIO`, scripts are `Disciplined`;
* `EtharpAssumption` (`Etharp`): the table has 1 to 127 entries ("must fit in an
  `s8_t`"), a pending entry expires after two ticks at least and no later than a
  stable one;
* `DbgPrintAssumption` (`DbgPrint`): every message fits in the buffer with its
  NUL, the port holds at least one character.

The theorems about options have no assumption: their constants are the
repository's.  Some theorems have a hypothesis besides, which is not an
assumption about constants but a condition under which the code is correct; a
run with `expect: violation` shows each of them needed (`EtharpRace` for
`Alone`, `TransReadMoved` and `TransOverlap` for `OneReader` and `Apart`,
`TransTwoSenders` for the one sender).

### Register access

`TypeCorrect` (`EncDriverProofs`): `Spec => []TypeOK`.  The types alone are not
inductive.  `Typed` adds what a call looks like at each stage (`WellFormed`:
its accesses are good ones, `idx` points into them, answers are as many as the
accesses done), that only waiting threads are queued, and that two bytes were
read when `receive_end` puts them together.  One lemma per action of `EncSpi`
and per call of the call graph; the lemmas on calls (`InitCallsGood`,
`ReceiveCalls`, `TransmitCalls`) establish that every access the program makes
is `Good`: its address and data are bytes, it resets only in bank 0, it never
touches the bank bits, and an offset that is present in every bank is named
without a bank.

`BusUnderMutexHolds`, `BankCoherentHolds`, `RightRegisterHolds`
(`EncBankProofs`) follow from one inductive invariant, `BankInv`:

* `MutexKept`: the mutex's owner is the one thread inside a call that takes it;
* `BankKept`, `CacheKept`: between the test of the bank and the access,
  `enc_address` is the access's bank and `tx_buffer` its command; with no
  switch under way the chip agrees with the cache;
* `Quiet`: why the calls without the mutex are harmless.  `encSetBank` is
  called without it with ECON1 and ECON2, which name bank 0.  The tcpip thread
  only ever uses bank 0, the soft reset and the ESTAT reads before the first
  such call do too, and `receive_end` writes ERXRDPT, in bank 0, just before
  the second.  So `enc_address` is 0 at both places whatever the other thread
  does in between, and the call touches nothing.

The last point is what makes the code correct, and it is fragile: a single
access to another bank from the tcpip thread's path, or between the write of
ERXRDPT and `encSetBank`, breaks it.  `Quiet` states the condition that a
change to the code must keep.

`CallsAreAtomicHolds` (`EncBankProofs`): `Spec => CallsAreAtomic`, that is,
`EncSpi` with `EncDriver`'s calls implements `AtomicRegs`.  The register file of
`AtomicRegs` is `settled`, what the last finished call left; a call is performed
at the moment it returns.  To `BankInv` the argument adds `Kept`:

* `FileKept`: while the mutex is free the chip's registers are `settled`; while
  it has an owner they are what the first `idx - 1` accesses of the owner's call
  make of `settled`;
* `AnswersKept`, `TakeKept`: what a call has been answered so far, and the byte
  in `rx_buffer` that it has not taken yet, are what that file says, except of
  registers that answer what they like (`Volatile`);
* `BodyKept`: a thread has a call exactly while it is in one.

`RightRegister` is what makes one access do on the chip what it does on the file
(`DoneAsAsked`), `BusUnderMutex` what keeps the others out.  The call of
`encSetBank` without the mutex takes effect at its own return, when another
thread may be half through its call: it is atomic because it changes no register
and reports nothing (`ReturnsDone`).  A read takes the byte behind the dummy
byte where the chip sends one, and only there: the third part of `Good`, which
`NoDummyByte` establishes.  `AtomicRegs` computes the files of a call by a
recursive function; that there is one (`RunExists`) is proved by taking the least
length for which there is none.

`Safe`, which is `BankInv` without its types, and `Kept` were first checked by
TLC on the `EncDriver` run's instance.

### Reception and transmission

`EncTransProofs` proves everything the runs of `EncTrans` check but liveness, for
every size of the ring and of the memory, for frames of any length and any number
of them.

* `Common` holds always: types, who is where, and that nothing goes on the wire
  more often than it was asked for.
* `SentBy(s)` is about one sending thread: what is written of its pbuf lies
  behind the control byte, the pointers and lengths of the transmission are those
  of the pbuf.  Hence `FramesSentWhole` and, with nothing received meanwhile,
  `ControlBytesKept`.
* `RingKept` is about reception, if nobody but `lwip_thread` uses the chip
  (`OneReader`): the unread frames lie one behind the other from
  `next_frame_location` to ERXWRPT (`InOrder`, by distances in the ring, so that
  the wrap is no special case), each with a header that points to the next
  (`AllStored`); ERXRDPT is what `receive_end` computes of `next_frame_location`
  (`PointersKept`), and what `enc_read_received_pbuf` has found out so far is
  true of the first frame (`ReaderKept`).  It is claimed until a transmission
  overwrites an unread byte; with `Apart` that never happens.

From `ReceiveInv`, which is all of this, follow `EncTransTypes`, `InputsIntact`,
`InputIntactUnlessClobbered`, `RingsIntact`, `CountsMatch` and, as properties of
a step, `ReadPointersOdd` and `ReceivesInOrder`.  `ReadPointersOdd` says that
every move of ERXRDPT is to an odd address, under `OneReader` and until a
transmission overwrites an unread byte; the moves are `receive_end`'s.  The even
address that `encInitRegisters` writes first (`enc28j60.c:61`) is the initial
state, and no theorem makes it odd.  `ReceivesInOrder` says that the steps of
the receive path are steps of `FrameQueue`, or change nothing it sees.
`FrameQueue`'s own liveness stays with the run.

### Start-up

`StartTypeCorrect`, `ReferenceFirstHolds`, `ChipReadyHolds`
(`LwipStartProofs`) follow from `StartInv`: main keeps `NORMALPRIO` and is
ready until it suspends itself, so `lwip_thread`, one below, takes no step
before `lwip_trp` is set (`MainAbove`); and where `lwip_thread` is says how much
of the driver is initialised before the interface is listed (`Progress`).

### Kernel

`ChSpiProofs` rests on `Inv`: types; `SchedKept` (the ready list is ordered and
holds exactly the ready threads, and nobody in it is above the running one);
`QueuesKept` (the queues are ordered, and a thread is in the queue of the mutex
that its last operation locks); `OwnersKept` (a thread's list of mutexes is what
its script has locked and not unlocked, in reverse order, which is where
`Disciplined` is needed); `WalkKept`; and `ExchangePaired`.  One lemma for each
action, and for each of the kernel's operations on queues one that says what it
does to a queue in order.  From it:

* `ChSpiTypes`, `HighestRunsHolds`, `ExchangePairedHolds`;
* `PassedToHighestHolds` and `MutexesKeptHolds`, by `StepsOfMutexes`, which says
  how one step changes the owner and the queue of one mutex: each mutex
  implements `Mutex`;
* `InheritanceHolds`, from the further invariant `PrioInv`: a thread has its own
  priority or that of a thread blocked on it, except the thread to which the walk
  of `chMtxLockS` has come (`PrioKept`), and the walk goes along a chain of
  owners (`WalkPrio`).  Priorities are bounded by `HIGHPRIO`, so that
  `chMtxUnlock`'s maximum over the mutexes still owned exists.

### ARP table

`EtharpProofs`: under `Alone`, one thread at the table, `EtharpInv` holds.  It
says what a thread's locals are at each point of each call (`LocalsKept`), that
what a thread has found out about the table is still true when it uses it
(`FoundKept`: no entry has the address before one is claimed for it, none but
that one after), the age and the queue of each entry (`EntriesKept`), and that a
pbuf in use is held by exactly one entry or one thread (`RefsKept`).  Hence
`EtharpTypes`, `OneEntryForEachAddress`, `NoneLeftOnStableEntries`,
`EveryPbufHeldOnce`, and `NoneFreedTwice`, the property that `EtharpRace` finds
violated with two threads.

### Debug output

`DbgPrintProofs` needs no hypothesis: `DbgMutex` is never taken, and the
theorems say exactly what that costs.  `Common` keeps the buffer's last place a
NUL, so that no message runs out of the buffer whoever formatted into it last.
`RoomKept` (what the poll found is true or a thread above wrote meanwhile) gives
`LossesExplained`.  `ContentInv` follows the characters: a message that nobody
formatted over is in the buffer as its thread left it (`MessagesKept`), what has
been written is behind the writer (`AllBehind`), once and in order (`Exact`,
`InOrder`); hence `StreamExactHolds`.  `SplitInv` is about priorities: after a
message's first character come only its thread's and those of threads above;
hence `SplitFromAboveHolds`.

### Options

`OptionProofs`.  Each statement is about numbers that are spread over several
headers and that nothing compares:

* `Buffers`: `TransmitFits` answers `enc28j60_trans.c:133`'s '@todo check buffer
  size': with an mtu of 1500 no packet, nor the status that the chip stores
  behind it, reaches the end of the transmit buffer, though this begins a byte
  early; `RoomForTwoFrames` is `enc28j60.h:12`'s comment.  `OneFrameInHeap`,
  `NoRequestBesideFullFrame`, `ReassemblyStarves` and `LongAnswersNotQueued` say
  what the heap of 1600 bytes cannot do: it never holds two large frames, a
  datagram whose first fragment is full is never put together, and an answer of
  more than 776 bytes whose address is not known is dropped.
* `LwipOptions`: lwIP's own checks (`OptionsConsistent`), a record for every
  timer (`TimersSupplied`), no lock anywhere (`NothingLocksTheCore`), and that
  `Etharp` models the parts of `etharp.c` that are compiled (`ArpAsModelled`).
* `ChOptions`: five threads, five priorities, no time slicing
  (`PrioritiesOrdered`, on which the scheduling of every model rests); only
  `SPIMutex` protects the bus (`OnlySpiMutexProtects`); with 16 bits of system
  time delays are exact up to 32 seconds (`DelaysExact`), and the program's are
  below (`DelaysKept`).
* `Board`: the clock tree gives exactly the tick that `chconf.h` promises
  (`TicksExact`) and an SPI clock of 12.5 MHz, between the 8 MHz that the chip's
  errata demand and its 20 MHz (`SpiClockInRange`); the USB clock would not be
  48 MHz, and USB is off; interrupts are masked in the kernel
  (`HandlersMasked`); the pins are set up as the program uses them
  (`PinsAsUsed`).

### What is only model-checked

Liveness, which is out of the prover's reach: `CallsReturn`, `EverythingSent`
and `FrameQueue`'s liveness, `PollingStarts`, `TimersServed`, `WaitEnds`,
`PendingEnds`, `PrintsReturn`.  A violation (section 5) is a trace and needs no
proof.

## 5. Where the code and its documentation part

* `TransOverlap`: `rxbufsize` is `RXSTOP_INIT`, the last byte of the receive
  ring, not `TXSTART_INIT`.  A transmission overwrites a byte of a frame that
  wraps there; a reception overwrites the control byte.
* `TransTwoSenders`: `enc_transmit_pbuf` is not atomic and is run by two
  threads; their packets mix.
* `TransReadMoved`: the payload read relies on ERDPT, which the tcpip thread's
  transmission moves.
* `EtharpRace`: `ethernet_input` runs in `lwip_thread` while the tcpip thread is
  inside `etharp_tmr`, which its comment says it has to itself; one queued pbuf
  is freed twice.
* `EtharpFlood`: `low_level_output` returns nothing, lwIP takes the register's
  content for its result, and the state that limits ARP requests to one in two
  seconds is not set.

`PROJECT.json` quotes the lines.  One more is not a question of behaviour:
`lwipthread.c:234` says that `lwipInit` exits, but nothing in the repository
resumes `lwip_trp`.  In `LwipStart` main stays suspended.

## 6. Not modelled

* `encReadPhy` and `print_regs`: never called.
* `dbg_print_val`'s overflow of `buf[4]` and messages longer than `buffer[50]`:
  what they overwrite is the compiler's and the linker's choice.  The hard-fault
  handler: it stops the processor.
* lwIP's protocols other than ARP, whose tables two threads share as well.
* `sys_arch.c`: its mailbox waits mix ticks and milliseconds, but nobody posts
  to the tcpip thread's mailbox.
* `config/stm32f1xx_hal_conf.h` (ST's library is not used), the options of
  drivers that are off, build files.
* Errata of the chip other than those the code works around; a failing SPI
  bus; power cycles (nothing persists: a restart is `Init`).

## 7. Plan

Done: the models of the driver, the start-up, the kernel's mutexes, the ARP
table and the debug output; the options and sizes; theorems for every safety
property and every refinement that the runs check.

Next, extending the model:
1. A corrected `EncTrans` (transmit buffer at `TXSTART_INIT`, one lock around a
   transmission and around a reception), to show that the findings are the
   only causes.
2. The lwIP binding (`sys_arch.c`) for a firmware that posts to the mailbox,
   that is, one with `tcpip_input`.
3. lwIP's reassembly table, with the heap's bound of `Buffers`.

Next, proving more:
1. The three parts of `EncTrans` that need two senders to fail, with a lock
   around a transmission and around a reception (item 1 above) in place of the
   hypotheses `OneReader` and `Apart`.
2. The same for `Etharp` with lwIP's core lock in place of `Alone`.
3. That `EncTrans`'s steps on the chip's pointers are those that `AtomicRegs`
   performs for the calls of `EncRegs`.

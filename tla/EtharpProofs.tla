---------------------------- MODULE EtharpProofs ----------------------------
(***************************************************************************)
(* The ARP table for every size of the table, every set of hosts and pbufs *)
(* and every length of the timeouts, as long as one thread leaves lwIP     *)
(* before the other enters (Alone).  What lwIP's comments take for granted *)
(* then holds; the run EtharpRace shows that without Alone it does not.    *)
(***************************************************************************)
EXTENDS Etharp, FiniteSetTheorems, WellFoundedInduction, TLAPS

\* The packet queued in the entry is in use: no thread has freed it already.
Held(e) == \A t \in Threads : frame[t].pc \in {"clear", "put"} => i(t) # e

\* One thread at a time is inside.
OneInside == \A t \in Threads : frame[t].pc # "idle" => frame[Other(t)].pc = "idle"

\* A thread's locals are what the call it is in, and the point it has reached
\* in it, leave there.
LocalsOf(t) ==
    /\ frame[t].pc = "idle" => frame[t] = Outside
    /\ frame[t].call = "none" => frame[t].pc = "idle"
    /\ frame[t].call = "tmr" => /\ t = Tcpip
                                /\ frame[t].pc \in {"tmr", "free", "clear", "request"}
    /\ frame[t].call \in {"input", "inputForUs"} =>
           frame[t].pc \in {"free", "clear", "find", "claim", "found", "take", "flush", "send"}
    /\ frame[t].call = "query" =>
           frame[t].pc \in {"free", "clear", "find", "claim", "found", "rerequest", "request",
                            "check", "queue", "put", "send"}
    /\ frame[t].call \in {"input", "inputForUs", "query"} => frame[t].ipaddr \in Addresses
    /\ frame[t].p # NULL <=> frame[t].pc \in {"flush", "queue", "put"}
LocalsKept == \A t \in Threads : LocalsOf(t)

\* What a thread has found out about the table is still true when it uses it:
\* no entry has its address before it claims one, no other than its own after.
FoundBy(t) ==
    /\ frame[t].pc \in {"free", "clear", "claim"} /\ frame[t].call # "tmr" =>
           frame[t].call # "input" /\ Matches(frame[t].ipaddr) = {}
    /\ frame[t].pc = "claim" => Entry(t).state = "EMPTY"
    /\ frame[t].pc = "found" =>
           /\ Entry(t).ipaddr = frame[t].ipaddr
           /\ Matches(frame[t].ipaddr) \subseteq {i(t)}
           /\ Entry(t).state = "EMPTY" => Entry(t).ctime = 0
    /\ frame[t].pc = "rerequest" => Entry(t).state \in Stable
    /\ frame[t].pc \in {"queue", "put"} => Entry(t).state = "PENDING"
FoundKept == \A t \in Threads : FoundBy(t)

\* An entry in use has an address and is younger than the age at which it
\* expires, unless it is just being freed; one not in use has no packet, and a
\* stable one has none but the one that is just being taken out.
EntryKept(e) ==
    /\ arp_table[e].state = "EMPTY" => arp_table[e].q = NULL
    /\ arp_table[e].state # "EMPTY" => arp_table[e].ipaddr \in Addresses
Young(e) == arp_table[e].state # "EMPTY" =>
    \/ arp_table[e].ctime < ARP_MAXAGE
    \/ \E t \in Threads : frame[t].pc \in {"free", "clear"} /\ i(t) = e
Unqueued(e) == arp_table[e].state \in Stable /\ arp_table[e].q # NULL =>
    \E t \in Threads : frame[t].pc = "take" /\ i(t) = e
EntriesKept == \A e \in Entries : EntryKept(e) /\ Young(e) /\ Unqueued(e)

\* A pbuf in use is held by one entry or one thread, one not in use by none.
RefsKept ==
    /\ \A b \in Pbufs : ref[b] \in {0, 1}
    /\ \A e, f \in Entries :
           Held(e) /\ Held(f) /\ arp_table[e].q # NULL /\ arp_table[e].q = arp_table[f].q => e = f
    /\ \A e \in Entries, t \in Threads :
           Held(e) /\ arp_table[e].q = frame[t].p => frame[t].p = NULL
    /\ \A e \in Entries : Held(e) /\ arp_table[e].q # NULL => ref[arp_table[e].q] = 1
    /\ \A t \in Threads : frame[t].p # NULL => ref[frame[t].p] = 1
    /\ \A b \in Pbufs : ref[b] = 1 => \/ \E e \in Entries : Held(e) /\ arp_table[e].q = b
                                      \/ \E t \in Threads : frame[t].p = b

EtharpInv == TypeOK /\ OneInside /\ LocalsKept /\ FoundKept /\ EntriesKept /\ RefsKept /\ OneEntryEach

-----------------------------------------------------------------------------
(* A step of one thread, with the other outside: the invariant's parts as   *)
(* they then read.                                                          *)

HeldBut(t, e) == frame[t].pc \in {"clear", "put"} => i(t) # e

TableBut(t) ==
    \A e \in Entries :
        /\ EntryKept(e)
        /\ arp_table[e].state # "EMPTY" =>
               arp_table[e].ctime < ARP_MAXAGE \/ (frame[t].pc \in {"free", "clear"} /\ i(t) = e)
        /\ arp_table[e].state \in Stable /\ arp_table[e].q # NULL => frame[t].pc = "take" /\ i(t) = e

RefsBut(t) ==
    /\ \A b \in Pbufs : ref[b] \in {0, 1}
    /\ \A e, f \in Entries :
           HeldBut(t, e) /\ HeldBut(t, f) /\ arp_table[e].q # NULL /\ arp_table[e].q = arp_table[f].q
               => e = f
    /\ \A e \in Entries : HeldBut(t, e) /\ arp_table[e].q = frame[t].p => frame[t].p = NULL
    /\ \A e \in Entries : HeldBut(t, e) /\ arp_table[e].q # NULL => ref[arp_table[e].q] = 1
    /\ frame[t].p # NULL => ref[frame[t].p] = 1
    /\ \A b \in Pbufs : ref[b] = 1 => \/ \E e \in Entries : HeldBut(t, e) /\ arp_table[e].q = b
                                      \/ frame[t].p = b

\* A thread that runs is alone, and the invariant is about it and the table.
LEMMA Mover ==
    ASSUME EtharpInv, Alone, NEW t \in Threads, MayRun(t)
    PROVE  /\ \A u \in Threads : u # t => frame[u] = Outside
           /\ arp_table \in [Entries -> EntryType] /\ frame \in [Threads -> FrameType]
           /\ ref \in [Pbufs -> Int]
           /\ i(t) \in Entries /\ i(t) = frame[t].i
           /\ frame[t] \in FrameType /\ arp_table[i(t)] \in EntryType
           /\ LocalsOf(t) /\ FoundBy(t) /\ TableBut(t) /\ RefsBut(t)
  <1>1. frame[Other(t)].pc = "idle" /\ Other(t) \in Threads /\ Threads = {t, Other(t)} /\ Other(t) # t
    BY EtharpAssumption DEF MayRun, Other, Threads
  <1>2. frame[Other(t)] = Outside /\ \A u \in Threads : u # t => frame[u] = Outside
    BY <1>1 DEF EtharpInv, LocalsKept, LocalsOf
  <1>3. /\ arp_table \in [Entries -> EntryType] /\ frame \in [Threads -> FrameType]
        /\ ref \in [Pbufs -> Int] /\ i(t) \in Entries
    BY DEF EtharpInv, TypeOK, FrameType, i
  <1>4. Outside.pc = "idle" /\ Outside.p = NULL
    BY DEF Outside
  <1>5. \A e \in Entries : Held(e) <=> HeldBut(t, e)
    BY <1>2, <1>4 DEF Held, HeldBut
  <1>6. TableBut(t)
    BY <1>2, <1>4 DEF EtharpInv, EntriesKept, Young, Unqueued, TableBut
  <1>7. RefsBut(t)
    BY <1>2, <1>4, <1>5, EtharpAssumption DEF EtharpInv, RefsKept, RefsBut
  <1> QED
    BY <1>2, <1>3, <1>6, <1>7 DEF EtharpInv, LocalsKept, FoundKept, i

\* The invariant holds after the step if it does about the thread and the table.
LEMMA Moved ==
    ASSUME EtharpInv, Alone, NEW t \in Threads, MayRun(t),
           \A u \in Threads : u # t => frame'[u] = frame[u],
           TypeOK', LocalsOf(t)', FoundBy(t)', TableBut(t)', RefsBut(t)', OneEntryEach'
    PROVE  EtharpInv'
  <1>1. \A u \in Threads : u # t => frame'[u] = Outside
    BY Mover
  <1>2. Outside.pc = "idle" /\ Outside.p = NULL
    BY DEF Outside
  <1>3. \A e \in Entries : Held(e)' <=> HeldBut(t, e)'
    BY <1>1, <1>2 DEF Held, HeldBut
  <1>4. OneInside'
    BY <1>1, <1>2, EtharpAssumption DEF OneInside, Other, Threads
  <1>5. LocalsKept'
    BY <1>1, EtharpAssumption DEF LocalsKept, LocalsOf, Outside
  <1>6. FoundKept'
    BY <1>1, <1>2 DEF FoundKept, FoundBy
  <1>7. EntriesKept'
    BY DEF TableBut, EntriesKept, Young, Unqueued, i
  <1>8. RefsKept'
    BY <1>1, <1>2, <1>3 DEF RefsKept, RefsBut
  <1> QED
    BY <1>4, <1>5, <1>6, <1>7, <1>8 DEF EtharpInv

-----------------------------------------------------------------------------
(* How a thread moves on, and how its entry changes.                        *)

LEMMA GotoIs ==
    ASSUME frame \in [Threads -> FrameType], NEW t \in Threads, NEW label \in Labels, Goto(t, label)
    PROVE  /\ frame' \in [Threads -> FrameType] /\ \A u \in Threads : u # t => frame'[u] = frame[u]
           /\ frame'[t].pc = label /\ frame'[t].call = frame[t].call /\ frame'[t].i = frame[t].i
           /\ frame'[t].ipaddr = frame[t].ipaddr /\ frame'[t].p = frame[t].p
  BY DEF Goto, FrameType

LEMMA LeaveIs ==
    ASSUME frame \in [Threads -> FrameType], NEW t \in Threads, Leave(t)
    PROVE  /\ frame' \in [Threads -> FrameType] /\ \A u \in Threads : u # t => frame'[u] = frame[u]
           /\ frame'[t] = Outside
  <1>1. Outside \in FrameType
    BY EtharpAssumption DEF Outside, FrameType, Labels, Sending, Entries
  <1> QED
    BY <1>1 DEF Leave

\* From one entry to the next, in etharp_tmr.
LEMMA NextEntryIs ==
    ASSUME frame \in [Threads -> FrameType], NEW t \in Threads, NextEntry(t)
    PROVE  /\ frame' \in [Threads -> FrameType] /\ \A u \in Threads : u # t => frame'[u] = frame[u]
           /\ \/ frame'[t] = Outside
              \/ /\ frame'[t].pc = "tmr" /\ frame'[t].call = frame[t].call
                 /\ frame'[t].ipaddr = frame[t].ipaddr /\ frame'[t].p = frame[t].p
  <1>1. CASE i(t) + 1 = ARP_TABLE_SIZE
    BY <1>1, LeaveIs DEF NextEntry
  <1>2. CASE i(t) + 1 # ARP_TABLE_SIZE
    <2>1. frame[t].i \in Entries /\ frame[t].i + 1 # ARP_TABLE_SIZE
      BY <1>2 DEF FrameType, i
    <2>2. frame[t].i + 1 \in Entries /\ "tmr" \in Labels
      BY <2>1, EtharpAssumption DEF Entries, Labels
    <2> QED
      BY <1>2, <2>2 DEF NextEntry, FrameType
  <1> QED BY <1>1, <1>2

\* Outside, everything that is asked of a thread's locals holds.
LEMMA OutsideKept ==
    ASSUME NEW t \in Threads, frame[t] = Outside
    PROVE  LocalsOf(t) /\ FoundBy(t) /\ \A e \in Entries : HeldBut(t, e)
  BY EtharpAssumption DEF LocalsOf, FoundBy, HeldBut, Outside

LEMMA TickKeeps == ASSUME EtharpInv, Alone, Tick PROVE EtharpInv'
  <1> DEFINE t == Tcpip
             e == i(t)
             entry == arp_table[e]
             age == entry.ctime + 1
  <1>1. t \in Threads /\ MayRun(t) /\ frame[t].pc = "tmr"
    BY DEF Tick, At, Threads
  <1>2. /\ arp_table \in [Entries -> EntryType] /\ frame \in [Threads -> FrameType]
        /\ e \in Entries /\ e = frame[t].i /\ entry \in EntryType
        /\ TableBut(t) /\ RefsBut(t) /\ frame[t].call = "tmr" /\ frame[t].p = NULL
    BY <1>1, Mover DEF LocalsOf, FrameType
  <1> HIDE DEF t, e
  <1>3. entry.state # "EMPTY" => age \in 0..ARP_MAXAGE
    BY <1>1, <1>2, EtharpAssumption DEF TableBut, EntryType
  <1>4. /\ frame' \in [Threads -> FrameType] /\ \A u \in Threads : u # t => frame'[u] = frame[u]
        /\ \/ frame'[t] = Outside
           \/ frame'[t].pc \in {"tmr", "free", "request"} /\ frame'[t].call = "tmr" /\ frame'[t].p = NULL
        /\ entry.state # "EMPTY" /\ Expires(entry, age) => frame'[t].pc = "free" /\ frame'[t].i = e
    <2>1. {"tmr", "free", "request"} \subseteq Labels
      BY DEF Labels, Sending
    <2> QED
      BY <1>1, <1>2, <2>1, GotoIs, NextEntryIs DEF Tick, t, e, Entry, Stable
  <1>5. /\ arp_table' \in [Entries -> EntryType]
        /\ \A x \in Entries : x # e => arp_table'[x] = arp_table[x]
        /\ arp_table'[e].ipaddr = entry.ipaddr /\ arp_table'[e].q = entry.q
        /\ arp_table'[e].state = "EMPTY" <=> entry.state = "EMPTY"
        /\ arp_table'[e].state \in Stable <=> entry.state \in Stable
        /\ entry.state # "EMPTY" => arp_table'[e].ctime = age
    BY <1>1, <1>2, <1>3 DEF Tick, Entry, EntryType, States, Stable, t, e
  <1>6. entry.state # "EMPTY" => arp_table'[e].ctime < ARP_MAXAGE \/ (frame'[t].pc = "free" /\ frame'[t].i = e)
    BY <1>3, <1>4, <1>5, EtharpAssumption DEF Expires
  <1>7. TypeOK'
    BY <1>4, <1>5 DEF EtharpInv, TypeOK, Tick
  <1>8. LocalsOf(t)' /\ FoundBy(t)' /\ \A x \in Entries : HeldBut(t, x)'
    BY <1>1, <1>4, OutsideKept, EtharpAssumption DEF LocalsOf, FoundBy, HeldBut, t, Outside
  <1>9. TableBut(t)'
    BY <1>1, <1>2, <1>5, <1>6 DEF TableBut, EntryKept, i
  <1>10. RefsBut(t)'
    BY <1>1, <1>2, <1>4, <1>5, <1>8 DEF RefsBut, Tick, HeldBut, Outside
  <1>11. OneEntryEach'
    BY <1>2, <1>5 DEF EtharpInv, OneEntryEach
  <1> QED
    BY <1>1, <1>4, <1>7, <1>8, <1>9, <1>10, <1>11, Moved

\* The timer begins.
LEMMA TimerKeeps == ASSUME EtharpInv, Alone, etharp_tmr PROVE EtharpInv'
  <1> DEFINE t == Tcpip
  <1>1. t \in Threads /\ MayRun(t) /\ frame[t].pc = "idle"
    BY DEF etharp_tmr, At, Threads
  <1>2. /\ frame \in [Threads -> FrameType] /\ frame[t] = Outside /\ TableBut(t) /\ RefsBut(t)
    BY <1>1, Mover DEF LocalsOf
  <1> HIDE DEF t
  <1>3. /\ frame' \in [Threads -> FrameType] /\ \A u \in Threads : u # t => frame'[u] = frame[u]
        /\ frame'[t].pc = "tmr" /\ frame'[t].call = "tmr" /\ frame'[t].p = NULL
    <2>1. "tmr" \in Labels
      BY DEF Labels
    <2> QED
      BY <1>1, <1>2, <2>1 DEF etharp_tmr, t, FrameType, Outside
  <1>4. asked' \in [Entries -> 0..LongAgo]
    BY DEF etharp_tmr, EtharpInv, TypeOK, LongAgo
  <1>5. TypeOK'
    BY <1>3, <1>4 DEF EtharpInv, TypeOK, etharp_tmr
  <1>6. LocalsOf(t)' /\ FoundBy(t)' /\ \A x \in Entries : HeldBut(t, x)'
    BY <1>3 DEF LocalsOf, FoundBy, HeldBut, t
  <1>7. TableBut(t)' /\ OneEntryEach'
    BY <1>1, <1>2 DEF TableBut, EntryKept, etharp_tmr, EtharpInv, OneEntryEach
  <1>8. RefsBut(t)'
    BY <1>1, <1>2, <1>3, <1>6 DEF RefsBut, etharp_tmr, HeldBut, Outside
  <1> QED
    BY <1>1, <1>3, <1>5, <1>6, <1>7, <1>8, Moved

-----------------------------------------------------------------------------
(* etharp_free_entry, whose caller is the timer or etharp_find_entry.       *)

\* What follows on the freed entry: the next one, or its claim.
LEMMA AfterFreeIs ==
    ASSUME frame \in [Threads -> FrameType], NEW t \in Threads, frame[t].p = NULL, AfterFree(t)
    PROVE  /\ frame' \in [Threads -> FrameType] /\ \A u \in Threads : u # t => frame'[u] = frame[u]
           /\ frame'[t].p = NULL /\ frame'[t].pc \in {"idle", "tmr", "claim"}
           /\ \/ frame[t].call = "tmr" /\ frame'[t] = Outside
              \/ frame[t].call = "tmr" /\ frame'[t].pc = "tmr" /\ frame'[t].call = "tmr"
              \/ /\ frame[t].call # "tmr" /\ frame'[t].pc = "claim" /\ frame'[t].i = frame[t].i
                 /\ frame'[t].call = frame[t].call /\ frame'[t].ipaddr = frame[t].ipaddr
  <1>1. "claim" \in Labels
    BY DEF Labels
  <1> QED
    BY <1>1, GotoIs, NextEntryIs DEF AfterFree, Outside

\* The entry is given up, without a packet.
LEMMA EntryGivenUp ==
    ASSUME EtharpInv, Alone, NEW t \in Threads, MayRun(t), frame[t].pc \in {"free", "clear"},
           AfterFree(t), UNCHANGED <<etharp_cached_entry, ref, asked>>,
           arp_table' \in [Entries -> EntryType],
           \A x \in Entries : x # i(t) => arp_table'[x] = arp_table[x],
           arp_table'[i(t)].state = "EMPTY", arp_table'[i(t)].q = NULL,
           frame[t].pc = "free" => Entry(t).q = NULL
    PROVE  EtharpInv'
  <1> DEFINE e == i(t)
  <1>1. /\ arp_table \in [Entries -> EntryType] /\ frame \in [Threads -> FrameType]
        /\ e \in Entries /\ e = frame[t].i /\ LocalsOf(t) /\ FoundBy(t)
        /\ TableBut(t) /\ RefsBut(t) /\ frame[t].p = NULL
    BY Mover DEF LocalsOf
  <1> HIDE DEF e
  <1>2. /\ frame' \in [Threads -> FrameType] /\ \A u \in Threads : u # t => frame'[u] = frame[u]
        /\ frame'[t].p = NULL /\ frame'[t].pc \in {"idle", "tmr", "claim"}
        /\ \/ frame[t].call = "tmr" /\ frame'[t] = Outside
           \/ frame[t].call = "tmr" /\ frame'[t].pc = "tmr" /\ frame'[t].call = "tmr"
           \/ /\ frame[t].call # "tmr" /\ frame'[t].pc = "claim" /\ frame'[t].i = e
              /\ frame'[t].call = frame[t].call /\ frame'[t].ipaddr = frame[t].ipaddr
    BY <1>1, AfterFreeIs
  <1>3. TypeOK'
    BY <1>2 DEF EtharpInv, TypeOK
  <1>4. LocalsOf(t)' /\ \A x \in Entries : HeldBut(t, x)'
    BY <1>1, <1>2, OutsideKept DEF LocalsOf, HeldBut, Outside
  <1>5. FoundBy(t)'
    <2>1. CASE frame[t].call = "tmr"
      BY <1>2, <2>1 DEF FoundBy, Outside
    <2>2. CASE frame[t].call # "tmr"
      <3>1. Matches(frame[t].ipaddr) = {} /\ frame[t].call # "input"
        BY <1>1, <2>2 DEF FoundBy
      <3>2. Matches(frame[t].ipaddr)' = {}
        BY <1>1, <1>2, <2>2, <3>1 DEF Matches, e
      <3> QED
        BY <1>2, <2>2, <3>1, <3>2 DEF FoundBy, Entry, i, e
    <2> QED BY <2>1, <2>2
  <1>6. TableBut(t)'
    BY <1>1, <1>2 DEF TableBut, EntryKept, e, Stable
  <1>7. RefsBut(t)'
    BY <1>1, <1>2, <1>4 DEF RefsBut, HeldBut, e, Entry
  <1>8. OneEntryEach'
    BY <1>1 DEF EtharpInv, OneEntryEach, e
  <1> QED
    BY <1>2, <1>3, <1>4, <1>5, <1>6, <1>7, <1>8, Moved

LEMMA ClearKeeps == ASSUME EtharpInv, Alone, NEW t \in Threads, ClearEntry(t) PROVE EtharpInv'
  <1>1. MayRun(t) /\ frame[t].pc = "clear"
    BY DEF ClearEntry, At
  <1>2. arp_table \in [Entries -> EntryType] /\ i(t) \in Entries
    BY <1>1, Mover
  <1>3. /\ arp_table' \in [Entries -> EntryType]
        /\ \A x \in Entries : x # i(t) => arp_table'[x] = arp_table[x]
        /\ arp_table'[i(t)].state = "EMPTY" /\ arp_table'[i(t)].q = NULL
    BY <1>2 DEF ClearEntry, EntryType, States
  <1> QED
    BY <1>1, <1>3, EntryGivenUp DEF ClearEntry

\* The packet queued in the entry is freed, or there is none.
LEMMA FreeKeeps == ASSUME EtharpInv, Alone, NEW t \in Threads, FreeQueued(t) PROVE EtharpInv'
  <1> DEFINE e == i(t)
             b == arp_table[e].q
  <1>1. MayRun(t) /\ frame[t].pc = "free"
    BY DEF FreeQueued, At
  <1>2. /\ arp_table \in [Entries -> EntryType] /\ frame \in [Threads -> FrameType]
        /\ ref \in [Pbufs -> Int] /\ e \in Entries /\ e = frame[t].i /\ LocalsOf(t) /\ FoundBy(t)
        /\ TableBut(t) /\ RefsBut(t) /\ frame[t].p = NULL
    BY <1>1, Mover DEF LocalsOf
  <1>3. CASE b = NULL
    <2>1. /\ arp_table' \in [Entries -> EntryType]
          /\ \A x \in Entries : x # i(t) => arp_table'[x] = arp_table[x]
          /\ arp_table'[i(t)].state = "EMPTY" /\ arp_table'[i(t)].q = NULL
      BY <1>2, <1>3 DEF FreeQueued, Set, Entry, EntryType, States
    <2> QED
      BY <1>1, <1>3, <2>1, EntryGivenUp DEF FreeQueued, Entry
  <1>4. CASE b # NULL
    <2> HIDE DEF e
    <2>1. b \in Pbufs
      BY <1>2, <1>4 DEF EntryType
    <2>2. UNCHANGED <<arp_table, etharp_cached_entry, asked>> /\ ref' = [ref EXCEPT ![b] = @ - 1]
      BY <1>4 DEF FreeQueued, pbuf_free, Entry, e
    <2>3. /\ frame' \in [Threads -> FrameType] /\ \A u \in Threads : u # t => frame'[u] = frame[u]
          /\ frame'[t].pc = "clear" /\ frame'[t].call = frame[t].call /\ frame'[t].i = e
          /\ frame'[t].ipaddr = frame[t].ipaddr /\ frame'[t].p = NULL
      <3>1. "clear" \in Labels /\ Goto(t, "clear")
        BY <1>4 DEF Labels, FreeQueued, Entry, e
      <3> QED
        BY <1>2, <3>1, GotoIs
    <2>4. TypeOK'
      BY <1>2, <2>1, <2>2, <2>3 DEF EtharpInv, TypeOK
    <2>5. LocalsOf(t)' /\ FoundBy(t)'
      BY <1>1, <1>2, <2>2, <2>3 DEF LocalsOf, FoundBy, Matches
    <2>6. TableBut(t)' /\ OneEntryEach'
      BY <1>1, <1>2, <2>2, <2>3 DEF TableBut, EntryKept, EtharpInv, OneEntryEach, i
    <2>7. RefsBut(t)'
      <3>1. /\ \A x \in Entries : HeldBut(t, x)
            /\ \A x \in Entries : HeldBut(t, x)' <=> x # e
        BY <1>1, <2>3 DEF HeldBut, i
      <3>2. ref[b] = 1 /\ ref'[b] = 0 /\ \A c \in Pbufs : c # b => ref'[c] = ref[c]
        BY <1>2, <1>4, <2>1, <2>2, <3>1 DEF RefsBut
      <3>3. \A x \in Entries : x # e => arp_table[x].q # b
        BY <1>2, <1>4, <3>1 DEF RefsBut
      <3> QED
        BY <1>2, <1>4, <2>2, <2>3, <3>1, <3>2, <3>3 DEF RefsBut, EntryType
    <2> QED
      BY <1>1, <2>3, <2>4, <2>5, <2>6, <2>7, Moved
  <1> QED BY <1>3, <1>4

-----------------------------------------------------------------------------
(* etharp_find_entry: its choices are of entries that there are.            *)

\* Of finitely many, one has the greatest value.
LEMMA GreatestExists ==
    ASSUME NEW S, IsFiniteSet(S), S # {}, NEW value \in [S -> Int]
    PROVE  \E e \in S : \A f \in S : value[e] >= value[f]
  <1> DEFINE Above(e) == {f \in S : value[f] > value[e]}
             T == {Above(e) : e \in S}
  <1>1. IsWellFoundedOn(StrictSubsetOrdering(S), SUBSET S)
    BY FS_StrictSubsetOrderingWellFounded, FS_FiniteSubsetsOfFinite
  <1>2. T \subseteq SUBSET S /\ T # {}
    <2>1. \A e \in S : Above(e) \in SUBSET S /\ Above(e) \in T
      OBVIOUS
    <2> HIDE DEF Above
    <2> QED BY <2>1
  <1>3. PICK A \in T : \A B \in T : <<B, A>> \notin StrictSubsetOrdering(S)
    BY <1>1, <1>2, WFMin
  <1>4. PICK e \in S : A = Above(e)
    BY <1>3
  <1>5. ASSUME NEW f \in S, value[f] > value[e] PROVE FALSE
    <2>1. Above(f) \subseteq Above(e) /\ Above(f) # Above(e)
      BY <1>5
    <2>2. Above(f) \in T /\ Above(f) \in SUBSET S /\ Above(e) \in SUBSET S
      OBVIOUS
    <2>3. <<Above(f), Above(e)>> \in StrictSubsetOrdering(S)
      BY <2>1, <2>2 DEF StrictSubsetOrdering
    <2> QED BY <1>3, <1>4, <2>2, <2>3
  <1> QED BY <1>5

LEMMA EntriesFinite == ASSUME NEW S, S \subseteq Entries PROVE IsFiniteSet(S) /\ S \subseteq Int
  <1>1. 0 \in Int /\ ARP_TABLE_SIZE - 1 \in Int
    BY EtharpAssumption
  <1>2. IsFiniteSet(Entries)
    BY <1>1, FS_Interval DEF Entries
  <1>3. IsFiniteSet(S)
    BY <1>2, FS_Subset
  <1> QED BY <1>1, <1>3 DEF Entries

LEMMA LastIn == ASSUME NEW S, S \subseteq Entries, S # {} PROVE Last(S) \in S
  <1> DEFINE value == [e \in S |-> e]
  <1>1. IsFiniteSet(S) /\ value \in [S -> Int]
    BY EntriesFinite
  <1> HIDE DEF value
  <1>2. \E e \in S : \A f \in S : value[e] >= value[f]
    BY <1>1, GreatestExists
  <1>3. \E e \in S : \A f \in S : e >= f
    BY <1>2 DEF value
  <1> QED BY <1>3 DEF Last

LEMMA FirstIn == ASSUME NEW S, S \subseteq Entries, S # {} PROVE First(S) \in S
  <1> DEFINE value == [e \in S |-> 0 - e]
  <1>1. IsFiniteSet(S) /\ value \in [S -> Int] /\ S \subseteq Int
    BY EntriesFinite
  <1> HIDE DEF value
  <1>2. PICK e \in S : \A f \in S : value[e] >= value[f]
    BY <1>1, GreatestExists
  <1>3. \A f \in S : e <= f
    BY <1>1, <1>2 DEF value
  <1> QED BY <1>3 DEF First

LEMMA OldestIn ==
    ASSUME arp_table \in [Entries -> EntryType], NEW S, S \subseteq Entries, S # {}
    PROVE  Oldest(S) \in S
  <1> DEFINE value == [e \in S |-> arp_table[e].ctime]
             T == {e \in S : \A f \in S : arp_table[e].ctime >= arp_table[f].ctime}
  <1>1. IsFiniteSet(S) /\ value \in [S -> Int]
    BY EntriesFinite, EtharpAssumption DEF EntryType
  <1> HIDE DEF value
  <1>2. PICK e \in S : \A f \in S : value[e] >= value[f]
    BY <1>1, GreatestExists
  <1>3. e \in T
    BY <1>2 DEF value
  <1>4. T \subseteq Entries /\ T # {}
    BY <1>3
  <1> HIDE DEF T
  <1>5. Last(T) \in T
    BY <1>4, LastIn
  <1> QED BY <1>5 DEF T, Oldest

\* With no entry to spare, one is recycled.
LEMMA RecycledIn ==
    ASSUME arp_table \in [Entries -> EntryType], InState({"EMPTY"}) = {}
    PROVE  Recycled \in Entries
  <1> DEFINE unqueued == {e \in InState({"PENDING"}) : arp_table[e].q = NULL}
  <1>1. InState(Stable) \cup InState({"PENDING"}) = Entries /\ 0 \in Entries
    BY EtharpAssumption DEF InState, EntryType, States, Entries
  <1>2. InState(Stable) \subseteq Entries /\ InState({"PENDING"}) \subseteq Entries /\ unqueued \subseteq Entries
    BY DEF InState
  <1>3. \A S \in SUBSET Entries : S # {} => Oldest(S) \in Entries
    BY OldestIn
  <1> QED
    BY <1>1, <1>2, <1>3 DEF Recycled

\* A step that changes neither the table nor the references.
LEMMA OnlyMoves ==
    ASSUME EtharpInv, Alone, NEW t \in Threads, MayRun(t), UNCHANGED <<arp_table, ref>>,
           frame' \in [Threads -> FrameType], \A u \in Threads : u # t => frame'[u] = frame[u],
           frame[t].pc \notin {"free", "clear", "take", "put"}, frame'[t].pc \notin {"clear", "put"},
           frame'[t].p = frame[t].p, LocalsOf(t)', FoundBy(t)',
           etharp_cached_entry' \in Entries, asked' \in [Entries -> 0..LongAgo]
    PROVE  EtharpInv'
  <1>1. TableBut(t) /\ RefsBut(t)
    BY Mover
  <1>2. TypeOK'
    BY DEF EtharpInv, TypeOK
  <1>3. \A x \in Entries : HeldBut(t, x) /\ HeldBut(t, x)'
    BY DEF HeldBut
  <1>4. TableBut(t)' /\ OneEntryEach'
    BY <1>1 DEF TableBut, EntryKept, EtharpInv, OneEntryEach
  <1>5. RefsBut(t)'
    BY <1>1, <1>3 DEF RefsBut
  <1> QED
    BY <1>2, <1>4, <1>5, Moved

LEMMA FindKeeps == ASSUME EtharpInv, Alone, NEW t \in Threads, etharp_find_entry(t) PROVE EtharpInv'
  <1> DEFINE found == Matches(frame[t].ipaddr)
             Take(e, label) == frame' = [frame EXCEPT ![t].i = e, ![t].pc = label]
  <1>1. MayRun(t) /\ frame[t].pc = "find" /\ UNCHANGED <<arp_table, etharp_cached_entry, ref, asked>>
    BY DEF etharp_find_entry, At
  <1>2. /\ arp_table \in [Entries -> EntryType] /\ frame \in [Threads -> FrameType] /\ LocalsOf(t)
        /\ etharp_cached_entry \in Entries /\ asked \in [Entries -> 0..LongAgo]
        /\ frame[t].call \in {"input", "inputForUs", "query"} /\ frame[t].ipaddr \in Addresses
        /\ frame[t].p = NULL
    BY <1>1, Mover DEF LocalsOf, EtharpInv, TypeOK, FrameType
  <1>3. ASSUME NEW e \in Entries, NEW label \in {"found", "claim", "free"}, Take(e, label)
        PROVE  /\ frame' \in [Threads -> FrameType] /\ \A u \in Threads : u # t => frame'[u] = frame[u]
               /\ frame'[t].pc = label /\ frame'[t].call = frame[t].call /\ frame'[t].i = e
               /\ frame'[t].ipaddr = frame[t].ipaddr /\ frame'[t].p = NULL
    <2>1. label \in Labels
      BY DEF Labels
    <2> QED
      BY <1>2, <1>3, <2>1 DEF FrameType
  <1>4. CASE found # {} /\ Take(First(found), "found")
    <2>1. First(found) \in found /\ found \subseteq Entries
      BY <1>4, FirstIn DEF Matches
    <2>2. found \subseteq {First(found)}
      BY <2>1 DEF EtharpInv, OneEntryEach, Matches
    <2>3. LocalsOf(t)' /\ FoundBy(t)'
      BY <1>1, <1>2, <1>3, <1>4, <2>1, <2>2 DEF LocalsOf, FoundBy, Matches, Entry, i
    <2> QED
      BY <1>1, <1>2, <1>3, <1>4, <2>1, <2>3, OnlyMoves
  <1>5. CASE found = {} /\ frame[t].call = "input" /\ Leave(t)
    <2>1. LocalsOf(t)' /\ FoundBy(t)' /\ frame'[t].pc = "idle" /\ frame'[t].p = NULL
      BY <1>2, <1>5, LeaveIs, OutsideKept DEF LocalsOf, FoundBy, Outside
    <2> QED
      BY <1>1, <1>2, <1>5, <2>1, LeaveIs, OnlyMoves
  <1>6. CASE /\ found = {} /\ frame[t].call # "input" /\ InState({"EMPTY"}) # {}
             /\ Take(First(InState({"EMPTY"})), "claim")
    <2> DEFINE e == First(InState({"EMPTY"}))
    <2>1. e \in Entries /\ arp_table[e].state = "EMPTY"
      BY <1>6, FirstIn DEF InState
    <2> HIDE DEF e
    <2>2. /\ frame' \in [Threads -> FrameType] /\ \A u \in Threads : u # t => frame'[u] = frame[u]
          /\ frame'[t].pc = "claim" /\ frame'[t].call = frame[t].call /\ frame'[t].i = e
          /\ frame'[t].ipaddr = frame[t].ipaddr /\ frame'[t].p = NULL
      BY <1>3, <1>6, <2>1 DEF e
    <2>3. LocalsOf(t)' /\ FoundBy(t)'
      BY <1>1, <1>2, <1>6, <2>1, <2>2 DEF LocalsOf, FoundBy, Matches, Entry, i
    <2> QED
      BY <1>1, <1>2, <2>2, <2>3, OnlyMoves
  <1>7. CASE /\ found = {} /\ frame[t].call # "input" /\ InState({"EMPTY"}) = {}
             /\ Take(Recycled, "free")
    <2>1. Recycled \in Entries
      BY <1>2, <1>7, RecycledIn
    <2>2. /\ frame' \in [Threads -> FrameType] /\ \A u \in Threads : u # t => frame'[u] = frame[u]
          /\ frame'[t].pc = "free" /\ frame'[t].call = frame[t].call
          /\ frame'[t].ipaddr = frame[t].ipaddr /\ frame'[t].p = NULL
      BY <1>3, <1>7, <2>1
    <2>3. LocalsOf(t)' /\ FoundBy(t)'
      BY <1>1, <1>2, <1>7, <2>2 DEF LocalsOf, FoundBy, Matches
    <2> QED
      BY <1>1, <1>2, <2>2, <2>3, OnlyMoves
  <1> QED
    BY <1>4, <1>5, <1>6, <1>7 DEF etharp_find_entry

\* The free entry gets its new address, which no other has.
LEMMA ClaimKeeps == ASSUME EtharpInv, Alone, NEW t \in Threads, ClaimEntry(t) PROVE EtharpInv'
  <1> DEFINE e == i(t)
  <1>1. MayRun(t) /\ frame[t].pc = "claim" /\ Goto(t, "found") /\ "found" \in Labels
    BY DEF ClaimEntry, At, Labels
  <1>2. /\ arp_table \in [Entries -> EntryType] /\ frame \in [Threads -> FrameType]
        /\ e \in Entries /\ e = frame[t].i /\ LocalsOf(t) /\ FoundBy(t) /\ TableBut(t) /\ RefsBut(t)
        /\ frame[t] \in FrameType /\ frame[t].ipaddr \in Addresses
    BY <1>1, Mover DEF LocalsOf, FrameType
  <1>3. arp_table[e].state = "EMPTY" /\ frame[t].call # "input" /\ Matches(frame[t].ipaddr) = {}
    BY <1>1, <1>2 DEF FoundBy, LocalsOf, Entry
  <1> HIDE DEF e
  <1>4. /\ arp_table' \in [Entries -> EntryType] /\ \A x \in Entries : x # e => arp_table'[x] = arp_table[x]
        /\ arp_table'[e].state = "EMPTY" /\ arp_table'[e].q = arp_table[e].q
        /\ arp_table'[e].ipaddr = frame[t].ipaddr /\ arp_table'[e].ctime = 0
    BY <1>2, <1>3, EtharpAssumption DEF ClaimEntry, EntryType, e
  <1>5. asked' \in [Entries -> 0..LongAgo]
    BY <1>2 DEF ClaimEntry, EtharpInv, TypeOK, LongAgo, e
  <1>6. /\ frame' \in [Threads -> FrameType] /\ \A u \in Threads : u # t => frame'[u] = frame[u]
        /\ frame'[t].pc = "found" /\ frame'[t].call = frame[t].call /\ frame'[t].i = e
        /\ frame'[t].ipaddr = frame[t].ipaddr /\ frame'[t].p = frame[t].p
    BY <1>1, <1>2, GotoIs
  <1>7. TypeOK'
    BY <1>4, <1>5, <1>6 DEF EtharpInv, TypeOK, ClaimEntry
  <1>8. LocalsOf(t)' /\ FoundBy(t)' /\ \A x \in Entries : HeldBut(t, x) /\ HeldBut(t, x)'
    BY <1>1, <1>2, <1>3, <1>4, <1>6 DEF LocalsOf, FoundBy, HeldBut, Matches, Entry, i
  <1>9. TableBut(t)' /\ OneEntryEach'
    BY <1>1, <1>2, <1>3, <1>4 DEF TableBut, EntryKept, EtharpInv, OneEntryEach, Stable
  <1>10. RefsBut(t)'
    BY <1>2, <1>4, <1>6, <1>8 DEF RefsBut, ClaimEntry
  <1> QED
    BY <1>1, <1>6, <1>7, <1>8, <1>9, <1>10, Moved

-----------------------------------------------------------------------------
(* etharp_arp_input with etharp_update_arp_entry.                           *)

LEMMA InputKeeps == ASSUME EtharpInv, Alone, etharp_arp_input PROVE EtharpInv'
  <1> DEFINE t == Lwip
  <1>1. /\ t \in Threads /\ MayRun(t) /\ frame[t].pc = "idle"
        /\ UNCHANGED <<arp_table, etharp_cached_entry, ref, asked>>
    BY DEF etharp_arp_input, At, Threads
  <1>2. /\ frame \in [Threads -> FrameType] /\ frame[t] = Outside
        /\ etharp_cached_entry \in Entries /\ asked \in [Entries -> 0..LongAgo]
    BY <1>1, Mover DEF LocalsOf, EtharpInv, TypeOK
  <1> HIDE DEF t
  <1>3. PICK ip \in Addresses, c \in {"input", "inputForUs"} :
            frame' = [frame EXCEPT ![t].pc = "find", ![t].call = c, ![t].ipaddr = ip]
    BY DEF etharp_arp_input, t
  <1>4. /\ frame' \in [Threads -> FrameType] /\ \A u \in Threads : u # t => frame'[u] = frame[u]
        /\ frame'[t].pc = "find" /\ frame'[t].call = c /\ frame'[t].ipaddr = ip /\ frame'[t].p = NULL
    <2>1. "find" \in Labels
      BY DEF Labels
    <2> QED
      BY <1>1, <1>2, <1>3, <2>1 DEF FrameType, Outside
  <1>5. LocalsOf(t)' /\ FoundBy(t)'
    BY <1>4 DEF LocalsOf, FoundBy
  <1> QED
    BY <1>1, <1>2, <1>4, <1>5, OnlyMoves DEF Outside

\* The entry becomes stable; its packet is taken out next.
LEMMA ResolveKeeps == ASSUME EtharpInv, Alone, NEW t \in Threads, Resolve(t) PROVE EtharpInv'
  <1> DEFINE e == i(t)
  <1>1. /\ MayRun(t) /\ frame[t].pc = "found" /\ frame[t].call # "query"
        /\ Goto(t, "take") /\ "take" \in Labels /\ UNCHANGED <<etharp_cached_entry, ref, asked>>
    BY DEF Resolve, At, Labels
  <1>2. /\ arp_table \in [Entries -> EntryType] /\ frame \in [Threads -> FrameType]
        /\ e \in Entries /\ e = frame[t].i /\ LocalsOf(t) /\ FoundBy(t) /\ TableBut(t) /\ RefsBut(t)
        /\ frame[t].ipaddr \in Addresses /\ frame[t].call \in {"input", "inputForUs"}
    BY <1>1, Mover DEF LocalsOf, FrameType
  <1>3. arp_table[e].ipaddr = frame[t].ipaddr /\ Matches(frame[t].ipaddr) \subseteq {e}
    BY <1>1, <1>2 DEF FoundBy, Entry
  <1> HIDE DEF e
  <1>4. /\ arp_table' \in [Entries -> EntryType] /\ \A x \in Entries : x # e => arp_table'[x] = arp_table[x]
        /\ arp_table'[e].state = "STABLE" /\ arp_table'[e].q = arp_table[e].q
        /\ arp_table'[e].ipaddr = frame[t].ipaddr /\ arp_table'[e].ctime = 0
    BY <1>2, <1>3, EtharpAssumption DEF Resolve, MarkStable, EntryType, States, Stable, e
  <1>5. /\ frame' \in [Threads -> FrameType] /\ \A u \in Threads : u # t => frame'[u] = frame[u]
        /\ frame'[t].pc = "take" /\ frame'[t].call = frame[t].call /\ frame'[t].i = e
        /\ frame'[t].ipaddr = frame[t].ipaddr /\ frame'[t].p = frame[t].p
    BY <1>1, <1>2, GotoIs
  <1>6. TypeOK'
    BY <1>1, <1>4, <1>5 DEF EtharpInv, TypeOK
  <1>7. LocalsOf(t)' /\ FoundBy(t)' /\ \A x \in Entries : HeldBut(t, x) /\ HeldBut(t, x)'
    BY <1>1, <1>2, <1>5 DEF LocalsOf, FoundBy, HeldBut
  <1>8. TableBut(t)'
    BY <1>1, <1>2, <1>4, <1>5, EtharpAssumption DEF TableBut, EntryKept, i
  <1>9. OneEntryEach'
    BY <1>2, <1>3, <1>4 DEF EtharpInv, OneEntryEach, Matches
  <1>10. RefsBut(t)'
    BY <1>1, <1>2, <1>4, <1>5, <1>7 DEF RefsBut
  <1> QED
    BY <1>1, <1>5, <1>6, <1>7, <1>8, <1>9, <1>10, Moved

\* An answer is sent, or the packet is done with.
LEMMA ReplyIs ==
    ASSUME frame \in [Threads -> FrameType], NEW t \in Threads, Reply(t)
    PROVE  /\ frame' \in [Threads -> FrameType] /\ \A u \in Threads : u # t => frame'[u] = frame[u]
           /\ frame'[t].p = NULL
           /\ \/ frame'[t] = Outside
              \/ /\ frame'[t].pc = "send" /\ frame'[t].call = "inputForUs"
                 /\ frame'[t].ipaddr = frame[t].ipaddr
  <1>1. CASE Leave(t)
    BY <1>1, LeaveIs DEF Outside
  <1>2. CASE frame[t].call = "inputForUs" /\ frame' = [frame EXCEPT ![t].pc = "send", ![t].p = NULL]
    <2>1. "send" \in Labels
      BY DEF Labels, Sending
    <2> QED BY <1>2, <2>1 DEF FrameType
  <1> QED BY <1>1, <1>2 DEF Reply

\* After it, nothing is asked of the thread.
LEMMA Replied ==
    ASSUME NEW t \in Threads, LocalsOf(t), frame[t].call \in {"input", "inputForUs"},
           frame'[t].p = NULL,
           \/ frame'[t] = Outside
           \/ /\ frame'[t].pc = "send" /\ frame'[t].call = "inputForUs"
              /\ frame'[t].ipaddr = frame[t].ipaddr
    PROVE  /\ LocalsOf(t)' /\ FoundBy(t)' /\ \A x \in Entries : HeldBut(t, x)'
           /\ frame'[t].pc \in {"idle", "send"}
  <1>1. CASE frame'[t] = Outside
    BY <1>1, OutsideKept, EtharpAssumption DEF LocalsOf, FoundBy, HeldBut, Outside
  <1>2. CASE frame'[t].pc = "send" /\ frame'[t].call = "inputForUs" /\ frame'[t].ipaddr = frame[t].ipaddr
    BY <1>2 DEF LocalsOf, FoundBy, HeldBut
  <1> QED BY <1>1, <1>2

LEMMA TakeKeeps == ASSUME EtharpInv, Alone, NEW t \in Threads, TakeQueued(t) PROVE EtharpInv'
  <1> DEFINE e == i(t)
             b == arp_table[e].q
  <1>1. MayRun(t) /\ frame[t].pc = "take" /\ UNCHANGED <<etharp_cached_entry, ref, asked>>
    BY DEF TakeQueued, At
  <1>2. /\ arp_table \in [Entries -> EntryType] /\ frame \in [Threads -> FrameType]
        /\ e \in Entries /\ e = frame[t].i /\ LocalsOf(t) /\ TableBut(t) /\ RefsBut(t)
        /\ frame[t].call \in {"input", "inputForUs"} /\ frame[t].p = NULL
    BY <1>1, Mover DEF LocalsOf, FrameType
  <1>3. \A x \in Entries : HeldBut(t, x)
    BY <1>1 DEF HeldBut
  <1>4. CASE b = NULL
    <2>1. Reply(t) /\ UNCHANGED arp_table
      BY <1>4 DEF TakeQueued, Entry
    <2>2. /\ frame' \in [Threads -> FrameType] /\ \A u \in Threads : u # t => frame'[u] = frame[u]
          /\ frame'[t].p = NULL /\ LocalsOf(t)' /\ FoundBy(t)' /\ \A x \in Entries : HeldBut(t, x)'
          /\ frame'[t].pc \in {"idle", "send"}
      BY <1>2, <2>1, ReplyIs, Replied
    <2>3. TypeOK'
      BY <1>1, <2>1, <2>2 DEF EtharpInv, TypeOK
    <2>4. TableBut(t)' /\ OneEntryEach'
      BY <1>1, <1>2, <1>4, <2>1 DEF TableBut, EntryKept, EtharpInv, OneEntryEach
    <2>5. RefsBut(t)'
      BY <1>1, <1>2, <1>3, <2>1, <2>2 DEF RefsBut
    <2> QED
      BY <1>1, <2>2, <2>3, <2>4, <2>5, Moved
  <1>5. CASE b # NULL
    <2> HIDE DEF e
    <2>1. b \in Pbufs /\ "flush" \in Labels
      BY <1>2, <1>5 DEF EntryType, Labels, Sending
    <2>2. frame' = [frame EXCEPT ![t].pc = "flush", ![t].p = b] /\ arp_table' = [arp_table EXCEPT ![e].q = NULL]
      BY <1>5 DEF TakeQueued, Entry, Set, e
    <2>3. /\ frame' \in [Threads -> FrameType] /\ \A u \in Threads : u # t => frame'[u] = frame[u]
          /\ frame'[t].pc = "flush" /\ frame'[t].call = frame[t].call /\ frame'[t].i = e
          /\ frame'[t].ipaddr = frame[t].ipaddr /\ frame'[t].p = b
      BY <1>2, <2>1, <2>2 DEF FrameType
    <2>4. /\ arp_table' \in [Entries -> EntryType]
          /\ \A x \in Entries : x # e => arp_table'[x] = arp_table[x]
          /\ arp_table'[e].state = arp_table[e].state /\ arp_table'[e].q = NULL
          /\ arp_table'[e].ipaddr = arp_table[e].ipaddr /\ arp_table'[e].ctime = arp_table[e].ctime
      BY <1>2, <2>2 DEF EntryType
    <2>5. TypeOK'
      BY <1>1, <2>3, <2>4 DEF EtharpInv, TypeOK
    <2>6. LocalsOf(t)' /\ FoundBy(t)' /\ \A x \in Entries : HeldBut(t, x)'
      BY <1>2, <1>5, <2>3 DEF LocalsOf, FoundBy, HeldBut
    <2>7. TableBut(t)' /\ OneEntryEach'
      BY <1>1, <1>2, <2>4 DEF TableBut, EntryKept, EtharpInv, OneEntryEach, e
    <2>8. RefsBut(t)'
      <3>1. \A x \in Entries : x # e => arp_table[x].q # b
        BY <1>2, <1>3, <1>5 DEF RefsBut
      <3>2. ref[b] = 1
        BY <1>2, <1>3, <1>5 DEF RefsBut
      <3> QED
        BY <1>1, <1>2, <1>3, <2>1, <2>3, <2>4, <2>6, <3>1, <3>2 DEF RefsBut
    <2> QED
      BY <1>1, <2>3, <2>5, <2>6, <2>7, <2>8, Moved
  <1> QED BY <1>4, <1>5

\* The packet taken out is sent, and freed.
LEMMA FlushKeeps == ASSUME EtharpInv, Alone, NEW t \in Threads, FlushDone(t) PROVE EtharpInv'
  <1> DEFINE b == frame[t].p
  <1>1. /\ MayRun(t) /\ frame[t].pc = "flush" /\ Reply(t) /\ ref' = [ref EXCEPT ![b] = @ - 1]
        /\ UNCHANGED <<arp_table, etharp_cached_entry, asked>>
    BY DEF FlushDone, At, pbuf_free
  <1>2. /\ arp_table \in [Entries -> EntryType] /\ frame \in [Threads -> FrameType]
        /\ LocalsOf(t) /\ TableBut(t) /\ RefsBut(t) /\ ref \in [Pbufs -> Int]
        /\ frame[t].call \in {"input", "inputForUs"} /\ b \in Pbufs /\ b # NULL
    BY <1>1, Mover DEF LocalsOf, FrameType
  <1>3. /\ frame' \in [Threads -> FrameType] /\ \A u \in Threads : u # t => frame'[u] = frame[u]
        /\ frame'[t].p = NULL /\ LocalsOf(t)' /\ FoundBy(t)' /\ \A x \in Entries : HeldBut(t, x)'
    BY <1>1, <1>2, ReplyIs, Replied
  <1>4. TypeOK'
    BY <1>1, <1>2, <1>3 DEF EtharpInv, TypeOK
  <1>5. TableBut(t)' /\ OneEntryEach'
    BY <1>1, <1>2 DEF TableBut, EntryKept, EtharpInv, OneEntryEach
  <1>6. RefsBut(t)'
    <2> HIDE DEF b
    <2>1. \A x \in Entries : HeldBut(t, x)
      BY <1>1 DEF HeldBut
    <2>2. (\A x \in Entries : arp_table[x].q # b) /\ ref[b] = 1
      BY <1>2, <2>1 DEF RefsBut, b
    <2>3. ref'[b] = 0 /\ \A c \in Pbufs : c # b => ref'[c] = ref[c]
      BY <1>1, <1>2, <2>2
    <2> QED
      BY <1>1, <1>2, <1>3, <2>1, <2>2, <2>3 DEF RefsBut, EntryType, b
  <1> QED
    BY <1>1, <1>3, <1>4, <1>5, <1>6, Moved

LEMMA SendKeeps == ASSUME EtharpInv, Alone, NEW t \in Threads, SendDone(t) PROVE EtharpInv'
  <1>1. /\ MayRun(t) /\ frame[t].pc = "send" /\ Leave(t)
        /\ UNCHANGED <<arp_table, etharp_cached_entry, ref, asked>>
    BY DEF SendDone, At
  <1>2. /\ frame \in [Threads -> FrameType] /\ frame[t].p = NULL
        /\ etharp_cached_entry \in Entries /\ asked \in [Entries -> 0..LongAgo]
    BY <1>1, Mover DEF LocalsOf, EtharpInv, TypeOK
  <1>3. /\ frame' \in [Threads -> FrameType] /\ \A u \in Threads : u # t => frame'[u] = frame[u]
        /\ frame'[t] = Outside
    BY <1>1, <1>2, LeaveIs
  <1>4. LocalsOf(t)' /\ FoundBy(t)' /\ frame'[t].pc = "idle" /\ frame'[t].p = NULL
    BY <1>3, EtharpAssumption DEF LocalsOf, FoundBy, Outside
  <1> QED
    BY <1>1, <1>2, <1>3, <1>4, OnlyMoves

-----------------------------------------------------------------------------
(* etharp_output and etharp_query.                                          *)

LEMMA OutputKeeps == ASSUME EtharpInv, Alone, NEW t \in Threads, etharp_output(t) PROVE EtharpInv'
  <1>1. MayRun(t) /\ frame[t].pc = "idle" /\ UNCHANGED <<arp_table, ref, asked>>
    BY DEF etharp_output, At
  <1>2. /\ frame \in [Threads -> FrameType] /\ frame[t] = Outside /\ frame[t].p = NULL
        /\ etharp_cached_entry \in Entries /\ asked \in [Entries -> 0..LongAgo]
    BY <1>1, Mover DEF LocalsOf, EtharpInv, TypeOK, Outside
  <1>3. PICK ip \in Addresses :
            \/ \E e \in StableFor(ip), label \in {"rerequest", "send"} :
                  /\ etharp_cached_entry' = e
                  /\ frame' = [frame EXCEPT ![t] = [pc |-> label, call |-> "query", i |-> e,
                                                    ipaddr |-> ip, p |-> NULL]]
            \/ /\ UNCHANGED etharp_cached_entry
               /\ frame' = [frame EXCEPT ![t] = [pc |-> "find", call |-> "query", i |-> 0,
                                                 ipaddr |-> ip, p |-> NULL]]
    <2>1. \A ip \in Addresses : StableFor(ip) # {} => First(StableFor(ip)) \in StableFor(ip)
      BY FirstIn DEF StableFor, InState
    <2> QED
      BY <2>1 DEF etharp_output
  <1>4. ASSUME NEW e \in Entries, NEW label \in {"rerequest", "send", "find"},
               label = "find" \/ arp_table[e].state \in Stable,
               frame' = [frame EXCEPT ![t] = [pc |-> label, call |-> "query", i |-> e,
                                              ipaddr |-> ip, p |-> NULL]]
        PROVE  /\ frame' \in [Threads -> FrameType] /\ \A u \in Threads : u # t => frame'[u] = frame[u]
               /\ frame'[t].pc = label /\ frame'[t].p = NULL /\ LocalsOf(t)' /\ FoundBy(t)'
    <2>1. label \in Labels
      BY DEF Labels, Sending
    <2>2. /\ frame' \in [Threads -> FrameType] /\ \A u \in Threads : u # t => frame'[u] = frame[u]
          /\ frame'[t] = [pc |-> label, call |-> "query", i |-> e, ipaddr |-> ip, p |-> NULL]
      BY <1>2, <1>4, <2>1 DEF FrameType
    <2>3. LocalsOf(t)' /\ FoundBy(t)'
      BY <1>1, <1>4, <2>2 DEF LocalsOf, FoundBy, Entry, i
    <2> QED BY <2>2, <2>3
  <1>5. CASE \E e \in StableFor(ip), label \in {"rerequest", "send"} :
                 /\ etharp_cached_entry' = e
                 /\ frame' = [frame EXCEPT ![t] = [pc |-> label, call |-> "query", i |-> e,
                                                   ipaddr |-> ip, p |-> NULL]]
    <2>1. PICK e \in StableFor(ip), label \in {"rerequest", "send"} :
                 /\ etharp_cached_entry' = e
                 /\ frame' = [frame EXCEPT ![t] = [pc |-> label, call |-> "query", i |-> e,
                                                   ipaddr |-> ip, p |-> NULL]]
      BY <1>5
    <2>2. e \in Entries /\ arp_table[e].state \in Stable
      BY DEF StableFor, InState
    <2>3. /\ frame' \in [Threads -> FrameType] /\ \A u \in Threads : u # t => frame'[u] = frame[u]
          /\ frame'[t].pc = label /\ frame'[t].p = NULL /\ LocalsOf(t)' /\ FoundBy(t)'
      BY <1>4, <2>1, <2>2
    <2> QED
      BY <1>1, <1>2, <2>1, <2>2, <2>3, OnlyMoves
  <1>6. CASE /\ UNCHANGED etharp_cached_entry
             /\ frame' = [frame EXCEPT ![t] = [pc |-> "find", call |-> "query", i |-> 0,
                                               ipaddr |-> ip, p |-> NULL]]
    <2>1. 0 \in Entries
      BY EtharpAssumption DEF Entries
    <2>2. /\ frame' \in [Threads -> FrameType] /\ \A u \in Threads : u # t => frame'[u] = frame[u]
          /\ frame'[t].pc = "find" /\ frame'[t].p = NULL /\ LocalsOf(t)' /\ FoundBy(t)'
      BY <1>4, <1>6, <2>1
    <2> QED
      BY <1>1, <1>2, <1>6, <2>2, OnlyMoves
  <1> QED BY <1>3, <1>5, <1>6

\* A step on the thread's entry that leaves its address and its packet alone.
LEMMA EntryStep ==
    ASSUME EtharpInv, Alone, NEW t \in Threads, MayRun(t), UNCHANGED <<etharp_cached_entry, ref>>,
           frame[t].pc \notin {"free", "clear", "take", "put"}, NEW label \in Labels, Goto(t, label),
           label \notin {"clear", "put"}, LocalsOf(t)', FoundBy(t)',
           asked' \in [Entries -> 0..LongAgo], arp_table' \in [Entries -> EntryType],
           \A x \in Entries : x # i(t) => arp_table'[x] = arp_table[x],
           arp_table'[i(t)].q = arp_table[i(t)].q, arp_table'[i(t)].ipaddr = arp_table[i(t)].ipaddr,
           arp_table'[i(t)].ctime = arp_table[i(t)].ctime,
           \/ arp_table'[i(t)].state = arp_table[i(t)].state
           \/ arp_table'[i(t)].state \in Stable /\ arp_table[i(t)].state \in Stable
           \/ /\ frame[t].pc = "found" /\ frame[t].ipaddr \in Addresses
              /\ arp_table'[i(t)].state = "PENDING" /\ arp_table[i(t)].state = "EMPTY"
    PROVE  EtharpInv'
  <1> DEFINE e == i(t)
  <1>1. /\ arp_table \in [Entries -> EntryType] /\ frame \in [Threads -> FrameType]
        /\ e \in Entries /\ e = frame[t].i /\ FoundBy(t) /\ TableBut(t) /\ RefsBut(t)
    BY Mover
  <1>2. /\ frame' \in [Threads -> FrameType] /\ \A u \in Threads : u # t => frame'[u] = frame[u]
        /\ frame'[t].pc = label /\ frame'[t].p = frame[t].p
    BY <1>1, GotoIs
  <1>3. \A x \in Entries : HeldBut(t, x) /\ HeldBut(t, x)'
    BY <1>2 DEF HeldBut
  <1>4. TypeOK'
    BY <1>2 DEF EtharpInv, TypeOK
  <1>5. frame[t].pc = "found" /\ arp_table[e].state = "EMPTY" =>
            arp_table[e].ctime = 0 /\ arp_table[e].ipaddr = frame[t].ipaddr
                /\ Matches(frame[t].ipaddr) \subseteq {e}
    BY <1>1 DEF FoundBy, Entry
  <1> HIDE DEF e
  <1>6. TableBut(t)'
    <2>1. 0 < ARP_MAXAGE /\ "PENDING" \notin Stable
      BY EtharpAssumption DEF Stable
    <2> QED
      BY <1>1, <1>5, <2>1 DEF TableBut, EntryKept, Stable, e
  <1>7. OneEntryEach'
    BY <1>1, <1>5 DEF EtharpInv, OneEntryEach, Matches, e, Stable
  <1>8. RefsBut(t)'
    BY <1>1, <1>2, <1>3 DEF RefsBut, e
  <1> QED
    BY <1>2, <1>4, <1>6, <1>7, <1>8, Moved

LEMMA RerequestKeeps == ASSUME EtharpInv, Alone, NEW t \in Threads, RerequestDone(t) PROVE EtharpInv'
  <1> DEFINE e == i(t)
  <1>1. /\ MayRun(t) /\ frame[t].pc = "rerequest" /\ Goto(t, "send") /\ "send" \in Labels
        /\ UNCHANGED <<etharp_cached_entry, ref>>
    BY DEF RerequestDone, At, Labels, Sending
  <1>2. /\ arp_table \in [Entries -> EntryType] /\ frame \in [Threads -> FrameType]
        /\ e \in Entries /\ LocalsOf(t) /\ FoundBy(t) /\ asked \in [Entries -> 0..LongAgo]
        /\ arp_table[e].state \in Stable /\ frame[t].call = "query"
    BY <1>1, Mover DEF EtharpInv, TypeOK, FoundBy, Entry, LocalsOf, FrameType
  <1>3. /\ frame'[t].pc = "send" /\ frame'[t].call = "query" /\ frame'[t].ipaddr = frame[t].ipaddr
        /\ frame'[t].p = frame[t].p
    BY <1>1, <1>2, GotoIs
  <1> HIDE DEF e
  <1>4. LocalsOf(t)' /\ FoundBy(t)'
    BY <1>1, <1>2, <1>3 DEF LocalsOf, FoundBy
  <1>5. asked' \in [Entries -> 0..LongAgo]
    BY <1>2 DEF RerequestDone, LongAgo
  <1>6. /\ arp_table' \in [Entries -> EntryType]
        /\ \A x \in Entries : x # e => arp_table'[x] = arp_table[x]
        /\ arp_table'[e].q = arp_table[e].q /\ arp_table'[e].ipaddr = arp_table[e].ipaddr
        /\ arp_table'[e].ctime = arp_table[e].ctime /\ arp_table'[e].state \in Stable
    BY <1>2 DEF RerequestDone, Set, EntryType, States, Stable, e
  <1> QED
    BY <1>1, <1>2, <1>4, <1>5, <1>6, EntryStep DEF e

LEMMA AskKeeps == ASSUME EtharpInv, Alone, NEW t \in Threads, Ask(t) PROVE EtharpInv'
  <1> DEFINE e == i(t)
  <1>1. /\ MayRun(t) /\ frame[t].pc = "found" /\ frame[t].call = "query"
        /\ UNCHANGED <<etharp_cached_entry, ref, asked>>
    BY DEF Ask, At
  <1>2. /\ arp_table \in [Entries -> EntryType] /\ frame \in [Threads -> FrameType]
        /\ e \in Entries /\ LocalsOf(t) /\ asked \in [Entries -> 0..LongAgo]
        /\ frame[t].ipaddr \in Addresses
    BY <1>1, Mover DEF EtharpInv, TypeOK, LocalsOf
  <1> HIDE DEF e
  <1>3. PICK label \in {"request", "check"} :
            /\ Goto(t, label)
            /\ \/ /\ arp_table[e].state = "EMPTY"
                  /\ arp_table' = [arp_table EXCEPT ![e].state = "PENDING"]
               \/ UNCHANGED arp_table
    BY DEF Ask, Entry, Set, e
  <1>4. label \in Labels
    BY DEF Labels, Sending
  <1>5. /\ frame'[t].pc = label /\ frame'[t].call = "query" /\ frame'[t].ipaddr = frame[t].ipaddr
        /\ frame'[t].p = frame[t].p
    BY <1>1, <1>2, <1>3, <1>4, GotoIs
  <1>6. LocalsOf(t)' /\ FoundBy(t)'
    BY <1>1, <1>2, <1>5 DEF LocalsOf, FoundBy
  <1>7. /\ arp_table' \in [Entries -> EntryType]
        /\ \A x \in Entries : x # e => arp_table'[x] = arp_table[x]
        /\ arp_table'[e].q = arp_table[e].q /\ arp_table'[e].ipaddr = arp_table[e].ipaddr
        /\ arp_table'[e].ctime = arp_table[e].ctime
        /\ \/ arp_table'[e].state = arp_table[e].state
           \/ arp_table'[e].state = "PENDING" /\ arp_table[e].state = "EMPTY"
    BY <1>2, <1>3 DEF EntryType, States
  <1> QED
    BY <1>1, <1>2, <1>3, <1>4, <1>6, <1>7, EntryStep DEF e

LEMMA RequestKeeps == ASSUME EtharpInv, Alone, NEW t \in Threads, RequestDone(t) PROVE EtharpInv'
  <1>1. /\ MayRun(t) /\ frame[t].pc = "request"
        /\ UNCHANGED <<arp_table, etharp_cached_entry, ref, asked>>
    BY DEF RequestDone, At
  <1>2. /\ frame \in [Threads -> FrameType] /\ LocalsOf(t) /\ frame[t].p = NULL
        /\ etharp_cached_entry \in Entries /\ asked \in [Entries -> 0..LongAgo]
        /\ frame[t].call \in {"tmr", "query"}
    BY <1>1, Mover DEF LocalsOf, EtharpInv, TypeOK, FrameType
  <1>3. CASE frame[t].call = "tmr"
    <2>1. /\ frame' \in [Threads -> FrameType] /\ \A u \in Threads : u # t => frame'[u] = frame[u]
          /\ \/ frame'[t] = Outside
             \/ frame'[t].pc = "tmr" /\ frame'[t].call = "tmr" /\ frame'[t].p = NULL
      BY <1>2, <1>3, NextEntryIs DEF RequestDone
    <2>2. LocalsOf(t)' /\ FoundBy(t)' /\ frame'[t].pc \in {"idle", "tmr"} /\ frame'[t].p = NULL
      BY <1>2, <1>3, <2>1, EtharpAssumption DEF LocalsOf, FoundBy, Outside
    <2> QED
      BY <1>1, <1>2, <2>1, <2>2, OnlyMoves
  <1>4. CASE frame[t].call = "query"
    <2>1. Goto(t, "check") /\ "check" \in Labels
      BY <1>4 DEF RequestDone, Labels
    <2>2. /\ frame' \in [Threads -> FrameType] /\ \A u \in Threads : u # t => frame'[u] = frame[u]
          /\ frame'[t].pc = "check" /\ frame'[t].call = "query" /\ frame'[t].ipaddr = frame[t].ipaddr
          /\ frame'[t].p = frame[t].p
      BY <1>2, <1>4, <2>1, GotoIs
    <2>3. LocalsOf(t)' /\ FoundBy(t)'
      BY <1>2, <1>4, <2>2 DEF LocalsOf, FoundBy
    <2> QED
      BY <1>1, <1>2, <2>2, <2>3, OnlyMoves
  <1> QED BY <1>2, <1>3, <1>4

LEMMA CheckKeeps == ASSUME EtharpInv, Alone, NEW t \in Threads, CheckState(t) PROVE EtharpInv'
  <1> DEFINE e == i(t)
  <1>1. MayRun(t) /\ frame[t].pc = "check" /\ UNCHANGED <<arp_table, asked>>
    BY DEF CheckState, At
  <1>2. /\ arp_table \in [Entries -> EntryType] /\ frame \in [Threads -> FrameType]
        /\ e \in Entries /\ e = frame[t].i /\ LocalsOf(t) /\ TableBut(t) /\ RefsBut(t)
        /\ ref \in [Pbufs -> Int] /\ frame[t].p = NULL /\ frame[t].call = "query"
        /\ etharp_cached_entry \in Entries /\ asked \in [Entries -> 0..LongAgo]
    BY <1>1, Mover DEF LocalsOf, EtharpInv, TypeOK, FrameType
  <1>3. CASE etharp_cached_entry' = e /\ Goto(t, "send") /\ UNCHANGED ref
    <2>1. "send" \in Labels
      BY DEF Labels, Sending
    <2>2. /\ frame' \in [Threads -> FrameType] /\ \A u \in Threads : u # t => frame'[u] = frame[u]
          /\ frame'[t].pc = "send" /\ frame'[t].call = "query" /\ frame'[t].ipaddr = frame[t].ipaddr
          /\ frame'[t].p = frame[t].p
      BY <1>2, <1>3, <2>1, GotoIs
    <2>3. LocalsOf(t)' /\ FoundBy(t)'
      BY <1>1, <1>2, <2>2 DEF LocalsOf, FoundBy
    <2> QED
      BY <1>1, <1>2, <1>3, <2>2, <2>3, OnlyMoves
  <1>4. CASE Leave(t) /\ UNCHANGED <<ref, etharp_cached_entry>>
    <2>1. /\ frame' \in [Threads -> FrameType] /\ \A u \in Threads : u # t => frame'[u] = frame[u]
          /\ frame'[t] = Outside
      BY <1>2, <1>4, LeaveIs
    <2>2. LocalsOf(t)' /\ FoundBy(t)' /\ frame'[t].pc = "idle" /\ frame'[t].p = NULL
      BY <2>1, EtharpAssumption DEF LocalsOf, FoundBy, Outside
    <2> QED
      BY <1>1, <1>2, <1>4, <2>1, <2>2, OnlyMoves
  <1>5. ASSUME NEW b \in Pbufs, arp_table[e].state = "PENDING", ref[b] = 0,
               ref' = [ref EXCEPT ![b] = 1], frame' = [frame EXCEPT ![t].pc = "queue", ![t].p = b],
               UNCHANGED etharp_cached_entry
        PROVE  EtharpInv'
    <2> HIDE DEF e
    <2>1. "queue" \in Labels /\ b # NULL
      BY EtharpAssumption DEF Labels
    <2>2. /\ frame' \in [Threads -> FrameType] /\ \A u \in Threads : u # t => frame'[u] = frame[u]
          /\ frame'[t].pc = "queue" /\ frame'[t].call = "query" /\ frame'[t].ipaddr = frame[t].ipaddr
          /\ frame'[t].p = b /\ frame'[t].i = e
      BY <1>2, <1>5, <2>1 DEF FrameType
    <2>3. ref' \in [Pbufs -> Int] /\ ref'[b] = 1 /\ \A c \in Pbufs : c # b => ref'[c] = ref[c]
      BY <1>2, <1>5
    <2>4. TypeOK'
      BY <1>1, <1>5, <2>2, <2>3 DEF EtharpInv, TypeOK
    <2>5. LocalsOf(t)' /\ FoundBy(t)'
      BY <1>1, <1>2, <1>5, <2>1, <2>2 DEF LocalsOf, FoundBy, Entry, i
    <2>6. \A x \in Entries : HeldBut(t, x) /\ HeldBut(t, x)'
      BY <1>1, <2>2 DEF HeldBut
    <2>7. TableBut(t)' /\ OneEntryEach'
      BY <1>1, <1>2 DEF TableBut, EntryKept, EtharpInv, OneEntryEach
    <2>8. \A x \in Entries : arp_table[x].q # b
      BY <1>2, <1>5, <2>1, <2>6 DEF RefsBut
    <2>9. RefsBut(t)'
      <3>1. \A x \in Entries : arp_table[x].q \in Pbufs \cup {NULL}
        BY <1>2 DEF EntryType
      <3>2. \A c \in Pbufs : ref[c] \in {0, 1} /\ (ref[c] = 1 => \E x \in Entries : arp_table[x].q = c)
        BY <1>2, EtharpAssumption DEF RefsBut
      <3>3. \A x, y \in Entries : arp_table[x].q # NULL /\ arp_table[x].q = arp_table[y].q => x = y
        BY <1>2, <2>6 DEF RefsBut
      <3>4. \A x \in Entries : arp_table[x].q # NULL => ref[arp_table[x].q] = 1
        BY <1>2, <2>6 DEF RefsBut
      <3> QED
        BY <1>1, <2>1, <2>2, <2>3, <2>6, <2>8, <3>1, <3>2, <3>3, <3>4 DEF RefsBut
    <2> QED
      BY <1>1, <2>2, <2>4, <2>5, <2>7, <2>9, Moved
  <1> QED
    BY <1>3, <1>4, <1>5 DEF CheckState, Entry

\* The packet that was queued before is freed, with the new one in hand.
LEMMA FreeEarlierKeeps == ASSUME EtharpInv, Alone, NEW t \in Threads, FreeEarlier(t) PROVE EtharpInv'
  <1> DEFINE e == i(t)
             b == arp_table[e].q
  <1>1. /\ MayRun(t) /\ frame[t].pc = "queue" /\ Goto(t, "put") /\ "put" \in Labels
        /\ UNCHANGED <<arp_table, etharp_cached_entry, asked>>
        /\ IF b = NULL THEN UNCHANGED ref ELSE ref' = [ref EXCEPT ![b] = @ - 1]
    BY DEF FreeEarlier, At, Labels, pbuf_free, Entry
  <1>2. /\ arp_table \in [Entries -> EntryType] /\ frame \in [Threads -> FrameType]
        /\ e \in Entries /\ e = frame[t].i /\ LocalsOf(t) /\ FoundBy(t) /\ TableBut(t) /\ RefsBut(t)
        /\ ref \in [Pbufs -> Int] /\ frame[t].p # NULL /\ frame[t].call = "query"
        /\ arp_table[e].state = "PENDING" /\ b \in Pbufs \cup {NULL}
    BY <1>1, Mover DEF LocalsOf, FoundBy, Entry, EntryType, FrameType
  <1>3. /\ frame' \in [Threads -> FrameType] /\ \A u \in Threads : u # t => frame'[u] = frame[u]
        /\ frame'[t].pc = "put" /\ frame'[t].call = "query" /\ frame'[t].ipaddr = frame[t].ipaddr
        /\ frame'[t].p = frame[t].p /\ frame'[t].i = e
    BY <1>1, <1>2, GotoIs
  <1>4. \A x \in Entries : HeldBut(t, x) /\ (HeldBut(t, x)' <=> x # e)
    BY <1>1, <1>3 DEF HeldBut, i
  <1>5. /\ ref' \in [Pbufs -> Int] /\ \A c \in Pbufs : c # b => ref'[c] = ref[c]
        /\ b # NULL => ref'[b] = 0 /\ b # frame[t].p /\ \A x \in Entries : x # e => arp_table[x].q # b
    <2> HIDE DEF e
    <2>1. b # NULL => ref[b] = 1 /\ b # frame[t].p /\ \A x \in Entries : x # e => arp_table[x].q # b
      BY <1>2, <1>4 DEF RefsBut
    <2> HIDE DEF b
    <2>2. CASE b = NULL
      BY <1>1, <1>2, <2>2
    <2>3. CASE b # NULL
      BY <1>1, <1>2, <2>1, <2>3
    <2> QED BY <2>2, <2>3
  <1>6. TypeOK'
    BY <1>1, <1>3, <1>5 DEF EtharpInv, TypeOK
  <1>7. LocalsOf(t)' /\ FoundBy(t)'
    BY <1>1, <1>2, <1>3 DEF LocalsOf, FoundBy, Entry, i
  <1>8. TableBut(t)' /\ OneEntryEach'
    BY <1>1, <1>2 DEF TableBut, EntryKept, EtharpInv, OneEntryEach
  <1>9. RefsBut(t)'
    <2> HIDE DEF e
    <2>1. \A x \in Entries : arp_table[x].q \in Pbufs \cup {NULL}
      BY <1>2 DEF EntryType
    <2>2. /\ \A c \in Pbufs : ref'[c] \in {0, 1}
          /\ \A c \in Pbufs : ref'[c] = 1 => c # b /\ ref[c] = 1
      BY <1>2, <1>5, EtharpAssumption DEF RefsBut
    <2>3. frame[t].p \in Pbufs /\ ref'[frame[t].p] = 1
      BY <1>2, <1>5, <1>3 DEF RefsBut, FrameType
    <2> QED
      BY <1>1, <1>2, <1>3, <1>4, <1>5, <2>1, <2>2, <2>3 DEF RefsBut
  <1> QED
    BY <1>1, <1>3, <1>6, <1>7, <1>8, <1>9, Moved

\* The new packet takes its place.
LEMMA PutKeeps == ASSUME EtharpInv, Alone, NEW t \in Threads, PutQueued(t) PROVE EtharpInv'
  <1> DEFINE e == i(t)
             b == frame[t].p
  <1>1. /\ MayRun(t) /\ frame[t].pc = "put" /\ Leave(t) /\ arp_table' = [arp_table EXCEPT ![e].q = b]
        /\ UNCHANGED <<etharp_cached_entry, ref, asked>>
    BY DEF PutQueued, At, Set
  <1>2. /\ arp_table \in [Entries -> EntryType] /\ frame \in [Threads -> FrameType]
        /\ e \in Entries /\ e = frame[t].i /\ LocalsOf(t) /\ TableBut(t) /\ RefsBut(t)
        /\ b \in Pbufs /\ b # NULL /\ arp_table[e].state = "PENDING"
    BY <1>1, Mover DEF LocalsOf, FoundBy, Entry, FrameType
  <1>3. /\ frame' \in [Threads -> FrameType] /\ \A u \in Threads : u # t => frame'[u] = frame[u]
        /\ frame'[t] = Outside /\ frame'[t].p = NULL
    BY <1>2, <1>1, LeaveIs DEF Outside
  <1>4. \A x \in Entries : HeldBut(t, x)' /\ (HeldBut(t, x) <=> x # e)
    BY <1>1, <1>3 DEF HeldBut, Outside
  <1>5. LocalsOf(t)' /\ FoundBy(t)'
    BY <1>3, EtharpAssumption DEF LocalsOf, FoundBy, Outside
  <1> HIDE DEF e
  <1>6. b \in Pbufs /\ ref[b] = 1 /\ \A x \in Entries : x # e => arp_table[x].q # b
    BY <1>2, <1>4 DEF RefsBut
  <1>7. RefsBut(t) /\ \A c \in Pbufs : ref[c] = 1 /\ c # b => \E x \in Entries : x # e /\ arp_table[x].q = c
    BY <1>2, <1>4 DEF RefsBut
  <1> HIDE DEF b
  <1>8. /\ arp_table' \in [Entries -> EntryType]
        /\ \A x \in Entries : x # e => arp_table'[x] = arp_table[x]
        /\ arp_table'[e].state = "PENDING" /\ arp_table'[e].q = b
        /\ arp_table'[e].ipaddr = arp_table[e].ipaddr /\ arp_table'[e].ctime = arp_table[e].ctime
    BY <1>1, <1>2 DEF EntryType
  <1>9. TypeOK'
    BY <1>1, <1>3, <1>8 DEF EtharpInv, TypeOK
  <1>10. TableBut(t)' /\ OneEntryEach'
    BY <1>1, <1>2, <1>8 DEF TableBut, EntryKept, EtharpInv, OneEntryEach, Stable
  <1>11. RefsBut(t)'
    BY <1>1, <1>2, <1>3, <1>4, <1>6, <1>7, <1>8 DEF RefsBut
  <1> QED
    BY <1>1, <1>3, <1>5, <1>9, <1>10, <1>11, Moved

-----------------------------------------------------------------------------
LEMMA EtharpInit == Init => EtharpInv
  <1> SUFFICES ASSUME Init PROVE EtharpInv
    OBVIOUS
  <1>1. /\ \A e \in Entries : /\ arp_table[e].state = "EMPTY" /\ arp_table[e].q = NULL
                              /\ arp_table[e] \in EntryType
        /\ arp_table \in [Entries -> EntryType]
    BY EtharpAssumption DEF Init, EntryType, States
  <1>2. /\ \A t \in Threads : frame[t] = Outside /\ frame[t].pc = "idle" /\ frame[t].p = NULL
        /\ frame \in [Threads -> FrameType] /\ "EMPTY" \notin Stable
    <2>1. Outside \in FrameType
      BY EtharpAssumption DEF Outside, FrameType, Labels, Sending, Entries
    <2> QED
      BY <2>1 DEF Init, Outside, Stable
  <1>3. TypeOK
    BY <1>1, <1>2, EtharpAssumption DEF TypeOK, Init, Entries, LongAgo
  <1>4. OneInside /\ LocalsKept /\ FoundKept
    <2>1. \A t \in Threads : Other(t) \in Threads
      BY DEF Other, Threads
    <2> QED
      BY <1>2, <2>1, OutsideKept DEF OneInside, LocalsKept, FoundKept
  <1>5. EntriesKept /\ OneEntryEach
    BY <1>1, <1>2 DEF EntriesKept, EntryKept, Young, Unqueued, OneEntryEach
  <1>6. RefsKept
    BY <1>1, <1>2 DEF RefsKept, Init
  <1> QED
    BY <1>3, <1>4, <1>5, <1>6 DEF EtharpInv

LEMMA EtharpStays == ASSUME EtharpInv, UNCHANGED vars PROVE EtharpInv'
  BY DEF EtharpInv, vars, TypeOK, OneInside, Other, LocalsKept, LocalsOf, FoundKept, FoundBy, Matches,
         Entry, i, EntriesKept, EntryKept, Young, Unqueued, RefsKept, Held, OneEntryEach

LEMMA EtharpNext == ASSUME EtharpInv, Alone, [Next]_vars PROVE EtharpInv'
  <1>1. ASSUME NEW t \in Threads, Inside(t) PROVE EtharpInv'
    BY <1>1, FreeKeeps, ClearKeeps, FindKeeps, ClaimKeeps, ResolveKeeps, TakeKeeps, FlushKeeps,
       SendKeeps, RerequestKeeps, AskKeeps, RequestKeeps, CheckKeeps, FreeEarlierKeeps, PutKeeps
       DEF Inside
  <1> QED
    BY <1>1, TimerKeeps, TickKeeps, InputKeeps, OutputKeeps, EtharpStays DEF Next

\* One thread at a time: everything the comments of etharp.c rely on holds.
THEOREM EtharpInvHolds == Alone => (Spec => []EtharpInv)
  <1> SUFFICES ASSUME Alone PROVE Spec => []EtharpInv
    OBVIOUS
  <1>1. EtharpInv /\ [Next]_vars => EtharpInv'
    BY EtharpNext
  <1> QED
    BY <1>1, EtharpInit, PTL DEF Spec

-----------------------------------------------------------------------------
(* What the runs Etharp and EtharpRace check.                               *)

\* Every entry, every thread's locals and every count stays in its range.
THEOREM EtharpTypes == Alone => (Spec => []TypeOK)
  <1>1. EtharpInv => TypeOK
    BY DEF EtharpInv
  <1> QED
    BY <1>1, EtharpInvHolds, PTL

\* etharp_find_entry never leaves two entries in use for one address, though
\* it scans the table once and claims an entry two steps later.
THEOREM OneEntryForEachAddress == Alone => (Spec => []OneEntryEach)
  <1>1. EtharpInv => OneEntryEach
    BY DEF EtharpInv
  <1> QED
    BY <1>1, EtharpInvHolds, PTL

\* A packet queued while its address is resolved is not left behind in the
\* stable entry: "no queued packets should exist on stable entries".
THEOREM NoneLeftOnStableEntries == Alone => (Spec => []StableUnqueued)
  <1>1. EtharpInv => StableUnqueued
    BY DEF EtharpInv, EntriesKept, Unqueued, StableUnqueued
  <1> QED
    BY <1>1, EtharpInvHolds, PTL

\* No pbuf is freed that is free: pbuf_free's "p->ref > 0".
THEOREM NoneFreedTwice == Alone => (Spec => []FreedOnce)
  <1>1. EtharpInv => FreedOnce
    BY DEF EtharpInv, RefsKept, FreedOnce
  <1> QED
    BY <1>1, EtharpInvHolds, PTL

\* A set with at most one member counts it.
LEMMA CountsOne ==
    ASSUME NEW S, \A x, y \in S : x = y
    PROVE  Cardinality(S) = IF S = {} THEN 0 ELSE 1
  <1>1. CASE S = {}
    BY <1>1, FS_EmptySet
  <1>2. CASE S # {}
    <2>1. PICK x \in S : S = {x}
      BY <1>2
    <2> QED
      BY <1>2, <2>1, FS_Singleton
  <1> QED BY <1>1, <1>2

\* Every pbuf in use is held once, by an entry or by a thread, and no other
\* is held: none is leaked, freed twice or used after it was freed.
THEOREM EveryPbufHeldOnce == Alone => (Spec => []RefsExact)
  <1>1. EtharpInv => RefsExact
    <2> SUFFICES ASSUME EtharpInv, NEW b \in Pbufs PROVE ref[b] = Holders(b)
      BY DEF RefsExact
    <2> DEFINE InEntries == {e \in Entries : Held(e) /\ arp_table[e].q = b}
               InHands == {t \in Threads : frame[t].p = b}
    <2>1. Holders(b) = Cardinality(InEntries) + Cardinality(InHands)
      <3>1. InEntries = {e \in Entries : /\ arp_table[e].q = b
                                         /\ \A t \in Threads : frame[t].pc \in {"clear", "put"} => i(t) # e}
        BY DEF Held
      <3> QED BY <3>1 DEF Holders
    <2>2. RefsKept /\ b # NULL
      BY EtharpAssumption DEF EtharpInv
    <2>3. \A t, u \in InHands : t = u
      <3>1. \A t \in InHands : frame[t].pc # "idle"
        BY <2>2 DEF EtharpInv, LocalsKept, LocalsOf, Outside
      <3> QED
        BY <3>1, EtharpAssumption DEF EtharpInv, OneInside, Other, Threads
    <2>4. \A e, f \in InEntries : e = f
      BY <2>2 DEF RefsKept
    <2>5. InEntries = {} \/ InHands = {}
      BY <2>2 DEF RefsKept
    <2>6. InEntries # {} \/ InHands # {} => ref[b] = 1
      BY <2>2 DEF RefsKept
    <2>7. InEntries = {} /\ InHands = {} => ref[b] = 0
      BY <2>2 DEF RefsKept
    <2> HIDE DEF InEntries, InHands
    <2>8. /\ Cardinality(InEntries) = IF InEntries = {} THEN 0 ELSE 1
          /\ Cardinality(InHands) = IF InHands = {} THEN 0 ELSE 1
      BY <2>3, <2>4, CountsOne
    <2> QED
      BY <2>1, <2>5, <2>6, <2>7, <2>8
  <1> QED
    BY <1>1, EtharpInvHolds, PTL
=============================================================================

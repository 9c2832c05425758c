------------------------------- MODULE Etharp -------------------------------
(***************************************************************************)
(* lwIP's ARP table (netif/etharp.c) under the two threads of this board   *)
(* that call it: lwip_thread through ethernet_input, and lwIP's tcpip      *)
(* thread through etharp_tmr and whatever its other timers send.  A step   *)
(* runs up to where the table or a pbuf is touched next, or to a           *)
(* transmission, which blocks the thread on the SPI bus.  lwip_thread has  *)
(* the higher priority: it may come in between any two steps, the tcpip    *)
(* thread only when lwip_thread sleeps or transmits.                       *)
(***************************************************************************)
EXTENDS Integers, FiniteSets

CONSTANTS
  Lwip, Tcpip,
  Addresses,       \* IP addresses of hosts on the network
  Pbufs, NULL,     \* pbufs for queued packets
  ARP_TABLE_SIZE,
  ARP_MAXAGE, ARP_MAXPENDING, ARP_AGE_REREQUEST_USED_UNICAST,
  Alone            \* one thread leaves lwIP before the other enters

Threads == {Lwip, Tcpip}
Entries == 0..(ARP_TABLE_SIZE - 1)

ASSUME EtharpAssumption ==
    /\ Lwip # Tcpip /\ NULL \notin Pbufs /\ Alone \in BOOLEAN
    /\ ARP_TABLE_SIZE \in 1..127        \* "must fit in an s8_t"
    /\ ARP_MAXPENDING \in 2..ARP_MAXAGE /\ ARP_MAXAGE \in Nat
    /\ ARP_AGE_REREQUEST_USED_UNICAST \in 0..ARP_MAXAGE

VARIABLES
  arp_table,            \* state, ipaddr, ctime and q of each entry
  etharp_cached_entry,
  ref,                  \* each pbuf's reference count
  frame,                \* where each thread is, in which call, and its locals
  asked                 \* history: ticks since an entry was last re-requested

vars == <<arp_table, etharp_cached_entry, ref, frame, asked>>

Stable == {"STABLE", "REREQUESTING_1", "REREQUESTING_2"}
States == {"EMPTY", "PENDING"} \cup Stable
Sending == {"request", "rerequest", "flush", "send"}

\* The history saturates: longer ago than this makes no difference.
LongAgo == 2

Outside == [pc |-> "idle", call |-> "none", i |-> 0, ipaddr |-> NULL, p |-> NULL]

Init ==
    \* the table is a zeroed static: address zero is no host's
    /\ arp_table = [e \in Entries |-> [state |-> "EMPTY", ipaddr |-> NULL, ctime |-> 0, q |-> NULL]]
    /\ etharp_cached_entry = 0
    /\ ref = [b \in Pbufs |-> 0]
    /\ frame = [t \in Threads |-> Outside]
    /\ asked = [e \in Entries |-> LongAgo]

-----------------------------------------------------------------------------
Other(t) == IF t = Lwip THEN Tcpip ELSE Lwip
MayRun(t) == /\ t = Tcpip => frame[Lwip].pc \in {"idle"} \cup Sending
             /\ Alone => frame[Other(t)].pc = "idle"
At(t, label) == frame[t].pc = label /\ MayRun(t)
Goto(t, label) == frame' = [frame EXCEPT ![t].pc = label]
Leave(t) == frame' = [frame EXCEPT ![t] = Outside]

i(t) == frame[t].i
Entry(t) == arp_table[i(t)]
\* The thread's entry changes in one field.
Set(t, field, v) == arp_table' = [arp_table EXCEPT ![i(t)][field] = v]
pbuf_free(b) == ref' = [ref EXCEPT ![b] = @ - 1]

First(S) == CHOOSE e \in S : \A f \in S : e <= f
Last(S)  == CHOOSE e \in S : \A f \in S : e >= f
Oldest(S) == Last({e \in S : \A f \in S : arp_table[e].ctime >= arp_table[f].ctime})

-----------------------------------------------------------------------------
(* etharp_tmr: entry after entry.                                           *)

etharp_tmr ==
    /\ At(Tcpip, "idle")
    /\ frame' = [frame EXCEPT ![Tcpip].pc = "tmr", ![Tcpip].call = "tmr"]
    /\ asked' = [e \in Entries |-> IF asked[e] < LongAgo THEN asked[e] + 1 ELSE LongAgo]
    /\ UNCHANGED <<arp_table, etharp_cached_entry, ref>>

\* On to the next entry, or out.
NextEntry(t) == IF i(t) + 1 = ARP_TABLE_SIZE
                THEN Leave(t)
                ELSE frame' = [frame EXCEPT ![t].pc = "tmr", ![t].i = @ + 1]

\* slip: only pending entries expire
ExpiresPending(e, age) == e.state = "PENDING" /\ age >= ARP_MAXPENDING
Expires(e, age) == \/ age >= ARP_MAXAGE
                   \/ e.state = "PENDING" /\ age >= ARP_MAXPENDING

Tick ==
    LET e == Entry(Tcpip)
        age == e.ctime + 1
        Aged(s) == arp_table' = [arp_table EXCEPT ![i(Tcpip)].ctime = age, ![i(Tcpip)].state = s]
    IN
    /\ At(Tcpip, "tmr")
    /\ \/ /\ e.state = "EMPTY"
          /\ NextEntry(Tcpip) /\ UNCHANGED arp_table
       \/ /\ e.state # "EMPTY" /\ Expires(e, age)
          /\ Aged(e.state) /\ Goto(Tcpip, "free")
       \/ /\ e.state = "PENDING" /\ ~Expires(e, age)
          /\ Aged(e.state) /\ Goto(Tcpip, "request")
       \/ /\ e.state \in Stable /\ ~Expires(e, age)
          /\ Aged(IF e.state = "REREQUESTING_1" THEN "REREQUESTING_2" ELSE "STABLE")
          /\ NextEntry(Tcpip)
    /\ UNCHANGED <<etharp_cached_entry, ref, asked>>

\* etharp_free_entry frees the queued pbuf, then clears q and the state.
AfterFree(t) == IF frame[t].call = "tmr" THEN NextEntry(t) ELSE Goto(t, "claim")

FreeQueued(t) ==
    /\ At(t, "free")
    /\ IF Entry(t).q = NULL
       THEN Set(t, "state", "EMPTY") /\ AfterFree(t) /\ UNCHANGED ref
       ELSE pbuf_free(Entry(t).q) /\ Goto(t, "clear") /\ UNCHANGED arp_table
    /\ UNCHANGED <<etharp_cached_entry, asked>>

ClearEntry(t) ==
    /\ At(t, "clear")
    /\ arp_table' = [arp_table EXCEPT ![i(t)].q = NULL, ![i(t)].state = "EMPTY"]
    /\ AfterFree(t)
    /\ UNCHANGED <<etharp_cached_entry, ref, asked>>

-----------------------------------------------------------------------------
(* etharp_find_entry.  "input" is an ARP packet that is not for us, which   *)
(* only looks (FIND_ONLY); "inputForUs" and "query" may recycle (TRY_HARD). *)

\* slip: a pending entry is not taken for a match
MatchesStable(ip) == {e \in Entries : arp_table[e].state \in Stable /\ arp_table[e].ipaddr = ip}
Matches(ip) == {e \in Entries : arp_table[e].state # "EMPTY" /\ arp_table[e].ipaddr = ip}
InState(S)  == {e \in Entries : arp_table[e].state \in S}

Recycled == LET unqueued == {e \in InState({"PENDING"}) : arp_table[e].q = NULL} IN
            IF InState(Stable) # {} THEN Oldest(InState(Stable))
            ELSE IF unqueued # {} THEN Oldest(unqueued) ELSE Oldest(InState({"PENDING"}))

etharp_find_entry(t) ==
    LET found == Matches(frame[t].ipaddr)
        Take(e, label) == frame' = [frame EXCEPT ![t].i = e, ![t].pc = label]
    IN
    /\ At(t, "find")
    /\ \/ found # {} /\ Take(First(found), "found")
       \/ found = {} /\ frame[t].call = "input" /\ Leave(t)
       \/ /\ found = {} /\ frame[t].call # "input" /\ InState({"EMPTY"}) # {}
          /\ Take(First(InState({"EMPTY"})), "claim")
       \/ /\ found = {} /\ frame[t].call # "input" /\ InState({"EMPTY"}) = {}
          /\ Take(Recycled, "free")
    /\ UNCHANGED <<arp_table, etharp_cached_entry, ref, asked>>

ClaimEntry(t) ==
    /\ At(t, "claim")
    /\ arp_table' = [arp_table EXCEPT ![i(t)].ipaddr = frame[t].ipaddr, ![i(t)].ctime = 0]
    /\ Goto(t, "found")
    /\ asked' = [asked EXCEPT ![i(t)] = LongAgo]
    /\ UNCHANGED <<etharp_cached_entry, ref>>

-----------------------------------------------------------------------------
(* etharp_arp_input with etharp_update_arp_entry, in lwip_thread.           *)

etharp_arp_input ==
    /\ At(Lwip, "idle")
    /\ \E ip \in Addresses, c \in {"input", "inputForUs"} :
          frame' = [frame EXCEPT ![Lwip].pc = "find", ![Lwip].call = c, ![Lwip].ipaddr = ip]
    /\ UNCHANGED <<arp_table, etharp_cached_entry, ref, asked>>

MarkStable(t) ==
    arp_table' = [arp_table EXCEPT ![i(t)].state = "STABLE", ![i(t)].ctime = 0]

\* slip: the packet that waits for the address is left in the entry
ResolveOnly(t) ==
    /\ At(t, "found") /\ frame[t].call # "query"
    /\ MarkStable(t)
    /\ Leave(t)
    /\ UNCHANGED <<etharp_cached_entry, ref, asked>>

Resolve(t) ==
    /\ At(t, "found") /\ frame[t].call # "query"
    /\ MarkStable(t)
    /\ Goto(t, "take")
    /\ UNCHANGED <<etharp_cached_entry, ref, asked>>

\* The queued packet is taken out of the entry and sent.  A request to us is
\* answered then; a reply, or a packet for others, is not.
Reply(t) == \/ Leave(t)
            \/ frame[t].call = "inputForUs" /\ frame' = [frame EXCEPT ![t].pc = "send", ![t].p = NULL]

TakeQueued(t) ==
    /\ At(t, "take")
    /\ IF Entry(t).q = NULL
       THEN Reply(t) /\ UNCHANGED arp_table
       ELSE /\ frame' = [frame EXCEPT ![t].pc = "flush", ![t].p = Entry(t).q]
            /\ Set(t, "q", NULL)
    /\ UNCHANGED <<etharp_cached_entry, ref, asked>>

FlushDone(t) ==
    /\ At(t, "flush")
    /\ pbuf_free(frame[t].p)
    /\ Reply(t)
    /\ UNCHANGED <<arp_table, etharp_cached_entry, asked>>

SendDone(t) ==
    /\ At(t, "send")
    /\ Leave(t)
    /\ UNCHANGED <<arp_table, etharp_cached_entry, ref, asked>>

-----------------------------------------------------------------------------
(* etharp_output and etharp_query.                                          *)

StableFor(ip) == {e \in InState(Stable) : arp_table[e].ipaddr = ip}

\* A stable entry, the cached one first: sent, after a request if the entry
\* is used and old.  None: etharp_query.
etharp_output(t) ==
    /\ At(t, "idle")
    /\ \E ip \in Addresses :
        LET e == IF etharp_cached_entry \in StableFor(ip) THEN etharp_cached_entry
                 ELSE First(StableFor(ip))
            old == /\ arp_table[e].state = "STABLE"
                   /\ arp_table[e].ctime >= ARP_AGE_REREQUEST_USED_UNICAST
            Query(label, n) == frame' = [frame EXCEPT ![t] =
                [pc |-> label, call |-> "query", i |-> n, ipaddr |-> ip, p |-> NULL]]
        IN
        IF StableFor(ip) # {}
        THEN etharp_cached_entry' = e /\ Query(IF old THEN "rerequest" ELSE "send", e)
        ELSE Query("find", 0) /\ UNCHANGED etharp_cached_entry
    /\ UNCHANGED <<arp_table, ref, asked>>

\* The request is sent, or no pbuf was to be had for it.  etharp_raw returns
\* what netif->linkoutput returned: low_level_output, which has no return
\* statement, so that the value is whatever the register holds.
RerequestDone(t) ==
    /\ At(t, "rerequest")
    /\ \/ Set(t, "state", "REREQUESTING_1") /\ asked' = [asked EXCEPT ![i(t)] = 0]
       \/ asked' = [asked EXCEPT ![i(t)] = 0] /\ UNCHANGED arp_table
       \/ UNCHANGED <<arp_table, asked>>
    /\ Goto(t, "send")
    /\ UNCHANGED <<etharp_cached_entry, ref>>

\* slip: asking again makes a pending entry young again
AskAgain(t) ==
    /\ At(t, "found") /\ frame[t].call = "query"
    /\ IF Entry(t).state \in {"EMPTY", "PENDING"}
       THEN /\ arp_table' = [arp_table EXCEPT ![i(t)].state = "PENDING", ![i(t)].ctime = 0]
            /\ Goto(t, "request")
       ELSE Goto(t, "check") /\ UNCHANGED arp_table
    /\ UNCHANGED <<etharp_cached_entry, ref, asked>>

Ask(t) ==
    /\ At(t, "found") /\ frame[t].call = "query"
    /\ IF Entry(t).state = "EMPTY"
       THEN Set(t, "state", "PENDING") /\ Goto(t, "request")
       ELSE Goto(t, "check") /\ UNCHANGED arp_table
    /\ UNCHANGED <<etharp_cached_entry, ref, asked>>

RequestDone(t) ==
    /\ At(t, "request")
    /\ IF frame[t].call = "tmr" THEN NextEntry(t) ELSE Goto(t, "check")
    /\ UNCHANGED <<arp_table, etharp_cached_entry, ref, asked>>

\* Resolved by now: sent.  Pending: a copy is queued, if a pbuf is to be had.
CheckState(t) ==
    /\ At(t, "check")
    /\ \/ /\ Entry(t).state \in Stable
          /\ etharp_cached_entry' = i(t)
          /\ Goto(t, "send") /\ UNCHANGED ref
       \/ /\ Entry(t).state = "PENDING"
          /\ \E b \in Pbufs :
                /\ ref[b] = 0
                /\ ref' = [ref EXCEPT ![b] = 1]
                /\ frame' = [frame EXCEPT ![t].pc = "queue", ![t].p = b]
          /\ UNCHANGED etharp_cached_entry
       \/ /\ Entry(t).state \in {"PENDING", "EMPTY"}
          /\ Leave(t) /\ UNCHANGED <<ref, etharp_cached_entry>>
    /\ UNCHANGED <<arp_table, asked>>

\* slip: the packet queued before is dropped without being freed
ReplaceUnfreed(t) ==
    /\ At(t, "queue")
    /\ Goto(t, "put")
    /\ UNCHANGED <<arp_table, etharp_cached_entry, ref, asked>>

FreeEarlier(t) ==
    /\ At(t, "queue")
    /\ IF Entry(t).q = NULL THEN UNCHANGED ref ELSE pbuf_free(Entry(t).q)
    /\ Goto(t, "put")
    /\ UNCHANGED <<arp_table, etharp_cached_entry, asked>>

PutQueued(t) ==
    /\ At(t, "put")
    /\ Set(t, "q", frame[t].p)
    /\ Leave(t)
    /\ UNCHANGED <<etharp_cached_entry, ref, asked>>

Inside(t) == \/ FreeQueued(t) \/ ClearEntry(t) \/ etharp_find_entry(t) \/ ClaimEntry(t)
             \/ Resolve(t) \/ TakeQueued(t) \/ FlushDone(t) \/ SendDone(t)
             \/ RerequestDone(t) \/ Ask(t) \/ RequestDone(t) \/ CheckState(t)
             \/ FreeEarlier(t) \/ PutQueued(t)

Next == etharp_tmr \/ Tick \/ etharp_arp_input \/ \E t \in Threads : etharp_output(t) \/ Inside(t)

(* A call that was begun goes on, and lwIP's timer fires again and again;   *)
(* nothing is assumed about what arrives or is sent.                        *)
Fairness == /\ SF_vars(etharp_tmr) /\ SF_vars(Tick)
            /\ \A t \in Threads : SF_vars(Inside(t))

Spec == Init /\ [][Next]_vars /\ Fairness

-----------------------------------------------------------------------------
Labels == Sending \cup {"idle", "tmr", "free", "clear", "find", "claim", "found", "take",
                        "check", "queue", "put"}

EntryType == [state : States, ipaddr : Addresses \cup {NULL}, ctime : 0..ARP_MAXAGE,
              q : Pbufs \cup {NULL}]
FrameType == [pc : Labels, call : {"none", "tmr", "input", "inputForUs", "query"},
              i : Entries, ipaddr : Addresses \cup {NULL}, p : Pbufs \cup {NULL}]

TypeOK ==
    /\ arp_table \in [Entries -> EntryType]
    /\ etharp_cached_entry \in Entries
    /\ ref \in [Pbufs -> Int]
    /\ frame \in [Threads -> FrameType]
    /\ asked \in [Entries -> 0..LongAgo]

\* "pbuf_free: p->ref > 0" (core/pbuf.c): no pbuf is freed that is free.
FreedOnce == \A b \in Pbufs : ref[b] >= 0

\* Every pbuf in use is in exactly one entry or in a thread's hands, and none
\* that is free is: a queued packet is neither leaked nor used after it was
\* freed, whatever expires, is recycled, replaced or resolved.
Holders(b) ==
    Cardinality({e \in Entries : /\ arp_table[e].q = b
                                 /\ \A t \in Threads : frame[t].pc \in {"clear", "put"} => i(t) # e})
    + Cardinality({t \in Threads : frame[t].p = b})
RefsExact == \A b \in Pbufs : ref[b] = Holders(b)

\* "no queued packets should exist on stable entries" (etharp_find_entry): a
\* packet queued while its address is being resolved is sent then, not left
\* behind in an entry that nobody looks at again.
StableUnqueued ==
    \A e \in Entries : arp_table[e].state \in Stable /\ arp_table[e].q # NULL
                         => \E t \in Threads : i(t) = e /\ frame[t].pc \in {"take", "free", "clear"}

\* An address has one entry at most: what resolves one is what the packets wait for.
OneEntryEach ==
    \A e, f \in Entries :
        arp_table[e].state # "EMPTY" /\ arp_table[f].state # "EMPTY"
        /\ arp_table[e].ipaddr = arp_table[f].ipaddr => e = f

\* A pending entry is resolved, recycled or given up, however many packets
\* are sent to its address meanwhile.
PendingEnds == \A e \in Entries : arp_table[e].state = "PENDING" ~> arp_table[e].state # "PENDING"

\* "Don't send more than one request every 2 seconds" (etharp_tmr): a used
\* entry is re-requested at most in every second tick of the timer.
RequestsPaced ==
    \A t \in Threads : frame[t].pc = "rerequest" => asked[i(t)] >= 2
=============================================================================

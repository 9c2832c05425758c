---------------------------- MODULE ChSpiProofs -----------------------------
(***************************************************************************)
(* The kernel's scheduler and mutexes and the HAL's SPI driver for every   *)
(* set of threads, priorities, mutexes and disciplined scripts.  Inv, with *)
(* what is queued where and what each thread's script makes it own, is     *)
(* inductive without the values of the priorities; PrioInv adds what the   *)
(* walk of chMtxLockS has reached.                                         *)
(***************************************************************************)
EXTENDS ChSpi, SequenceTheorems, WellFoundedInduction, TLAPS

-----------------------------------------------------------------------------
(* Order: a queue holds a thread once, and the higher priorities first.     *)
InOrder(q, prio) ==
    /\ q \in Seq(Threads)
    /\ \A i, j \in DOMAIN q : i < j => q[i] # q[j] /\ prio[q[i]] >= prio[q[j]]

AllScripts == {<< >>} \cup UNION {Scripts[t] : t \in Threads}
Types ==
    /\ KernelTypeOK
    /\ script \in [Threads -> AllScripts] /\ \A t \in Threads : script[t] \in Scripts[t] \cup {<< >>}
    /\ ip \in [Threads -> Nat]
    /\ spi_state \in {"READY", "ACTIVE"} /\ spi_thread \in Threads \cup {NoThread}

\* Who can run: the current thread and those of the ready list.
Runnable == {"READY", "CURRENT"}
Listed ==
    /\ \A t \in Threads : t \in Range(rlist) <=> p_state[t] = "READY"
    /\ \A t \in Threads : p_state[t] = "CURRENT" <=> t = current
    /\ current = NoThread => rlist = << >>
SchedKept ==
    /\ Listed /\ InOrder(rlist, p_prio)
    /\ current # NoThread => \A t \in Range(rlist) : p_prio[current] >= p_prio[t]

\* A thread waits in one queue, that of the mutex its last operation locks.
QueuesKept ==
    /\ \A m \in Mutexes : InOrder(m_queue[m], p_prio)
    /\ \A t \in Threads : p_state[t] = "WTMTX" => \E m \in Mutexes : t \in Range(m_queue[m])
    /\ \A m \in Mutexes : \A t \in Range(m_queue[m]) :
          /\ p_state[t] = "WTMTX" /\ m_owner[m] \notin {NoThread, t}
          /\ ip[t] >= 2 /\ script[t][ip[t] - 1] = <<"lock", m>>

\* The operations that t has behind it; of a lock it waits in, not yet.
Done(t) == IF p_state[t] = "WTMTX" THEN ip[t] - 2 ELSE ip[t] - 1

\* The list of mutexes is what k operations of script s leave, the last locked
\* first.
Matches(list, s, k) ==
    /\ list \in Seq(Mutexes) /\ Range(list) = Held(s, k)
    /\ \A a, b \in DOMAIN list : \A i, j \in 1..k :
          a < b /\ HeldFrom(s, k, list[a], i) /\ HeldFrom(s, k, list[b], j) => i > j

\* A thread owns the mutexes its script holds.
OwnersKept ==
    /\ \A m \in Mutexes, t \in Threads : m_owner[m] = t <=> m \in Range(p_mtxlist[t])
    /\ \A t \in Threads : /\ ip[t] \in 1..(Len(script[t]) + 1)
                          /\ Matches(p_mtxlist[t], script[t], Done(t))

WalkKept ==
    Walking => /\ current # NoThread /\ ip[current] <= Len(script[current])
               /\ Op(current) = <<"lock", walk[1]>>
               /\ m_owner[walk[1]] # NoThread

\* What lies before walk[2] on the way has the walker's priority already.
Blocked(t) == {u \in Threads : \E m \in Range(p_mtxlist[t]) : u \in Range(m_queue[m])}
WalkAt(t) == Walking /\ walk[2] = t
PrioKept ==
    \A t \in Threads :
        /\ p_prio[t] >= RealPrio[t]
        /\ \A u \in Blocked(t) : p_prio[t] >= p_prio[u] \/ (WalkAt(t) /\ p_prio[u] = p_prio[current])
        /\ \/ p_prio[t] = RealPrio[t]
           \/ \E u \in Blocked(t) : p_prio[t] = p_prio[u]
           \/ Walking /\ t = m_owner[walk[1]] /\ p_prio[t] = p_prio[current]
           \/ WalkAt(t) /\ p_prio[t] < p_prio[current]
WalkPrio ==
    Walking => /\ \/ walk[2] = m_owner[walk[1]] \/ p_prio[m_owner[walk[1]]] >= p_prio[current]
               /\ \/ walk[2] \in {NoThread, m_owner[walk[1]]}
                  \/ \E u \in Blocked(walk[2]) : p_prio[u] = p_prio[current]

-----------------------------------------------------------------------------
(* Queues.                                                                  *)

LEMMA Least ==
    ASSUME NEW S, S \subseteq Nat, S # {}
    PROVE  \E m \in S : \A k \in S : m <= k
<1>1. PICK m \in S : \A k \in S : <<k, m>> \notin OpToRel(<, Nat)
  BY NatLessThanWellFounded, WFMin
<1>2. \A k \in S : ~(k < m)
  BY <1>1 DEF OpToRel
<1> QED BY <1>2

LEMMA InsertAtIs ==
    ASSUME NEW S, NEW q \in Seq(S), NEW x \in S, NEW k \in 1..(Len(q) + 1)
    PROVE  /\ InsertAt(q, k, x) \in Seq(S) /\ Len(InsertAt(q, k, x)) = Len(q) + 1
           /\ \A i \in 1..(k - 1) : InsertAt(q, k, x)[i] = q[i]
           /\ InsertAt(q, k, x)[k] = x
           /\ \A i \in (k + 1)..(Len(q) + 1) : InsertAt(q, k, x)[i] = q[i - 1]
<1> DEFINE L == Len(q)
           a == SubSeq(q, 1, k - 1)
           b == SubSeq(q, k, L)
<1>1. L \in Nat /\ k \in Nat /\ k >= 1 /\ k <= L + 1
  OBVIOUS
<1>2. a \in Seq(S) /\ Len(a) = k - 1 /\ \A i \in 1..(k - 1) : a[i] = q[i]
  BY <1>1
<1>3. b \in Seq(S) /\ Len(b) = L - k + 1 /\ \A i \in 1..(L - k + 1) : b[i] = q[k + i - 1]
  BY <1>1
<1>4. InsertAt(q, k, x) = (a \o <<x>>) \o b
  BY DEF InsertAt
<1> HIDE DEF a, b, L
<1>5. /\ a \o <<x>> \in Seq(S) /\ Len(a \o <<x>>) = k /\ (a \o <<x>>)[k] = x
      /\ \A i \in 1..(k - 1) : (a \o <<x>>)[i] = q[i]
  BY <1>1, <1>2
<1> DEFINE c == a \o <<x>>
<1>6. c \in Seq(S) /\ Len(c) = k /\ c[k] = x /\ \A i \in 1..(k - 1) : c[i] = q[i]
  BY <1>5
<1> HIDE DEF c
<1>7. c \o b \in Seq(S) /\ Len(c \o b) = L + 1
  <2>1. c \o b \in Seq(S) /\ Len(c \o b) = Len(c) + Len(b)
    BY <1>3, <1>6, ConcatProperties
  <2> QED BY <1>1, <1>3, <1>6, <2>1
<1>8. ASSUME NEW i \in 1..k PROVE (c \o b)[i] = c[i]
  <2>1. i \in 1..(Len(c) + Len(b)) /\ i <= Len(c)
    BY <1>1, <1>3, <1>6
  <2> QED BY <1>3, <1>6, <2>1, ConcatProperties
<1>9. ASSUME NEW i \in (k + 1)..(L + 1) PROVE (c \o b)[i] = q[i - 1]
  <2>1. i - k \in 1..(L - k + 1) /\ k + (i - k) - 1 = i - 1
    BY <1>1
  <2>2. Len(b) = L - k + 1 /\ i \in 1..(Len(c) + Len(b)) /\ ~(i <= Len(c))
    BY <1>1, <1>3, <1>6
  <2>3. (c \o b)[i] = b[i - Len(c)]
    BY <2>2, <1>3, <1>6, ConcatProperties
  <2> QED BY <1>3, <1>6, <2>1, <2>3
<1> QED BY <1>1, <1>4, <1>6, <1>7, <1>8, <1>9 DEF c, L

LEMMA RemoveAtIs ==
    ASSUME NEW S, NEW q \in Seq(S), NEW k \in 1..Len(q)
    PROVE  /\ RemoveAt(q, k) \in Seq(S) /\ Len(RemoveAt(q, k)) = Len(q) - 1
           /\ \A i \in 1..(k - 1) : RemoveAt(q, k)[i] = q[i]
           /\ \A i \in k..(Len(q) - 1) : RemoveAt(q, k)[i] = q[i + 1]
<1> DEFINE L == Len(q)
           a == SubSeq(q, 1, k - 1)
           b == SubSeq(q, k + 1, L)
<1>1. L \in Nat /\ k \in Nat /\ k >= 1 /\ k <= L
  OBVIOUS
<1>2. a \in Seq(S) /\ Len(a) = k - 1 /\ \A i \in 1..(k - 1) : a[i] = q[i]
  BY <1>1
<1>3. b \in Seq(S) /\ Len(b) = L - k /\ \A i \in 1..(L - k) : b[i] = q[k + i]
  BY <1>1
<1>4. RemoveAt(q, k) = a \o b
  BY DEF RemoveAt
<1> HIDE DEF a, b, L
<1>5. a \o b \in Seq(S) /\ Len(a \o b) = L - 1
  <2>1. a \o b \in Seq(S) /\ Len(a \o b) = Len(a) + Len(b)
    BY <1>2, <1>3, ConcatProperties
  <2> QED BY <1>1, <1>2, <1>3, <2>1
<1>6. ASSUME NEW i \in 1..(k - 1) PROVE (a \o b)[i] = q[i]
  <2>1. i \in 1..(Len(a) + Len(b)) /\ i <= Len(a)
    BY <1>1, <1>2, <1>3
  <2>2. (a \o b)[i] = a[i]
    BY <1>2, <1>3, <2>1, ConcatProperties
  <2> QED BY <1>2, <2>2
<1>7. ASSUME NEW i \in k..(L - 1) PROVE (a \o b)[i] = q[i + 1]
  <2>1. i - (k - 1) \in 1..(L - k) /\ k + (i - (k - 1)) = i + 1
    BY <1>1
  <2>2. i \in 1..(Len(a) + Len(b)) /\ ~(i <= Len(a))
    BY <1>1, <1>2, <1>3
  <2>3. (a \o b)[i] = b[i - Len(a)]
    BY <2>2, <1>2, <1>3, ConcatProperties
  <2> QED BY <1>2, <1>3, <2>1, <2>3
<1> QED BY <1>4, <1>5, <1>6, <1>7 DEF L

LEMMA InsertBeforeIs ==
    ASSUME NEW q \in Seq(Threads), NEW t \in Threads, NEW stops
    PROVE  \E k \in 1..(Len(q) + 1) :
              /\ InsertBefore(q, t, stops) = InsertAt(q, k, t)
              /\ \A i \in 1..(k - 1) : q[i] \notin stops
              /\ k <= Len(q) => q[k] \in stops
<1> DEFINE places == {i \in DOMAIN q : q[i] \in stops}
<1>1. Len(q) \in Nat /\ DOMAIN q = 1..Len(q)
  OBVIOUS
<1>2. CASE places = {}
  <2>1. InsertBefore(q, t, stops) = InsertAt(q, Len(q) + 1, t)
    BY <1>2 DEF InsertBefore
  <2>2. \A i \in 1..Len(q) : q[i] \notin stops
    BY <1>1, <1>2
  <2> QED BY <1>1, <2>1, <2>2
<1>3. CASE places # {}
  <2> DEFINE k == CHOOSE i \in places : \A j \in places : i <= j
  <2> HIDE DEF places
  <2>1. \E i \in places : \A j \in places : i <= j
    <3>1. places \subseteq Nat
      BY <1>1 DEF places
    <3> QED BY <3>1, <1>3, Least
  <2>2. k \in places /\ \A j \in places : k <= j
    BY <2>1
  <2>3. InsertBefore(q, t, stops) = InsertAt(q, k, t)
    BY <1>3 DEF InsertBefore, places
  <2> HIDE DEF k
  <2>4. \A i \in 1..(k - 1) : q[i] \notin stops
    BY <1>1, <2>2 DEF places
  <2> QED BY <1>1, <2>2, <2>3, <2>4 DEF places
<1> QED BY <1>2, <1>3

\* An insertion in order before a set of threads.
LEMMA InsertedInOrder ==
    ASSUME NEW prio \in [Threads -> Nat], NEW q, InOrder(q, prio), NEW t \in Threads, t \notin Range(q),
           NEW stops, \A u \in Threads : IF u \in stops THEN prio[u] <= prio[t] ELSE prio[u] >= prio[t]
    PROVE  /\ InOrder(InsertBefore(q, t, stops), prio)
           /\ Range(InsertBefore(q, t, stops)) = Range(q) \cup {t}
           /\ InsertBefore(q, t, stops) # << >>
<1>1. q \in Seq(Threads) /\ Len(q) \in Nat /\ DOMAIN q = 1..Len(q)
      /\ \A i \in 1..Len(q) : q[i] \in Threads /\ q[i] # t /\ prio[q[i]] \in Nat
  BY DEF InOrder, Range
<1>2. PICK k \in 1..(Len(q) + 1) :
          /\ InsertBefore(q, t, stops) = InsertAt(q, k, t)
          /\ \A i \in 1..(k - 1) : q[i] \notin stops
          /\ k <= Len(q) => q[k] \in stops
  BY <1>1, InsertBeforeIs
<1> DEFINE r == InsertAt(q, k, t)
           L == Len(q)
<1> HIDE DEF r, L
<1>3. /\ r \in Seq(Threads) /\ Len(r) = L + 1
      /\ \A i \in 1..(k - 1) : r[i] = q[i]
      /\ r[k] = t
      /\ \A i \in (k + 1)..(L + 1) : r[i] = q[i - 1]
  <2>1. q \in Seq(Threads) /\ k \in 1..(Len(q) + 1)
    BY <1>1
  <2> QED BY <2>1, InsertAtIs DEF r, L
<1>4. L \in Nat /\ k \in 1..(L + 1) /\ DOMAIN q = 1..L /\ DOMAIN r = 1..(L + 1)
      /\ \A i, j \in 1..L : i < j => q[i] # q[j] /\ prio[q[i]] >= prio[q[j]]
  <2>1. L \in Nat /\ k \in 1..(L + 1) /\ DOMAIN q = 1..L
    BY <1>1 DEF L
  <2>2. DOMAIN r = 1..(L + 1)
    BY <1>3
  <2> QED BY <2>1, <2>2 DEF InOrder
<1>5. \A i \in 1..L : q[i] \in Threads /\ q[i] # t /\ prio[q[i]] \in Nat
  BY <1>1 DEF L
<1>6. prio[t] \in Nat
  OBVIOUS
<1>7. \A i \in 1..(k - 1) : prio[q[i]] >= prio[t]
  BY <1>2, <1>4, <1>5
<1>8. \A i \in k..L : prio[q[i]] <= prio[t]
  <2> SUFFICES ASSUME NEW i \in k..L PROVE prio[q[i]] <= prio[t]
    OBVIOUS
  <2>1. k \in 1..L /\ i \in 1..L /\ k <= L /\ (i = k \/ k < i)
    BY <1>4
  <2>2. prio[q[k]] <= prio[t]
    BY <1>2, <1>5, <2>1 DEF L
  <2>3. prio[q[k]] >= prio[q[i]]
    BY <1>4, <1>5, <2>1
  <2> QED BY <1>5, <1>6, <2>1, <2>2, <2>3
<1>9. ASSUME NEW i \in 1..(L + 1), NEW j \in 1..(L + 1), i < j
      PROVE  r[i] # r[j] /\ prio[r[i]] >= prio[r[j]]
  <2>1. CASE j < k
    <3>1. i \in 1..L /\ j \in 1..L /\ i \in 1..(k - 1) /\ j \in 1..(k - 1)
      BY <1>4, <1>9, <2>1
    <3>2. r[i] = q[i] /\ r[j] = q[j]
      BY <1>3, <3>1
    <3> QED BY <1>4, <1>9, <3>1, <3>2
  <2>2. CASE j = k
    <3>1. i \in 1..L /\ i \in 1..(k - 1)
      BY <1>4, <1>9, <2>2
    <3> QED BY <1>3, <1>5, <1>7, <2>2, <3>1
  <2>3. CASE j > k /\ i < k
    <3>1. i \in 1..L /\ i \in 1..(k - 1) /\ j - 1 \in 1..L /\ i < j - 1 /\ j \in (k + 1)..(L + 1)
      BY <1>4, <1>9, <2>3
    <3>2. r[i] = q[i] /\ r[j] = q[j - 1]
      BY <1>3, <3>1
    <3> QED BY <1>4, <3>1, <3>2
  <2>4. CASE i = k
    <3>1. j - 1 \in 1..L /\ j - 1 \in k..L /\ j \in (k + 1)..(L + 1)
      BY <1>4, <1>9, <2>4
    <3>2. r[i] = t /\ r[j] = q[j - 1]
      BY <1>3, <2>4, <3>1
    <3> QED BY <1>5, <1>6, <1>8, <3>1, <3>2
  <2>5. CASE i > k
    <3>1. i - 1 \in 1..L /\ j - 1 \in 1..L /\ i - 1 < j - 1 /\ i \in (k + 1)..(L + 1) /\ j \in (k + 1)..(L + 1)
      BY <1>4, <1>9, <2>5
    <3>2. r[i] = q[i - 1] /\ r[j] = q[j - 1]
      BY <1>3, <3>1
    <3> QED BY <1>4, <3>1, <3>2
  <2> QED BY <1>4, <1>9, <2>1, <2>2, <2>3, <2>4, <2>5
<1>10. InOrder(r, prio)
  BY <1>3, <1>4, <1>9 DEF InOrder
<1>11. Range(r) = Range(q) \cup {t}
  <2>1. (\A i \in 1..L : q[i] \in Range(q)) /\ (\A i \in 1..(L + 1) : r[i] \in Range(r))
    BY <1>4 DEF Range
  <2>2. ASSUME NEW i \in 1..(L + 1) PROVE r[i] \in Range(q) \cup {t}
    <3>1. (i \in 1..(k - 1) /\ i \in 1..L) \/ i = k \/ (i \in (k + 1)..(L + 1) /\ i - 1 \in 1..L)
      BY <1>4
    <3>2. CASE i = k
      BY <1>3, <3>2
    <3>3. CASE i \in 1..(k - 1) /\ i \in 1..L
      BY <1>3, <2>1, <3>3
    <3>4. CASE i \in (k + 1)..(L + 1) /\ i - 1 \in 1..L
      BY <1>3, <2>1, <3>4
    <3> QED BY <3>1, <3>2, <3>3, <3>4
  <2>3. ASSUME NEW i \in 1..L PROVE q[i] \in Range(r)
    <3>1. CASE i < k
      <4>1. i \in 1..(k - 1) /\ i \in 1..(L + 1)
        BY <1>4, <3>1
      <4> QED BY <1>3, <2>1, <4>1
    <3>2. CASE i >= k
      <4>1. i + 1 \in (k + 1)..(L + 1) /\ i + 1 \in 1..(L + 1) /\ (i + 1) - 1 = i
        BY <1>4, <3>2
      <4>2. r[i + 1] = q[i]
        BY <1>3, <4>1
      <4> QED BY <2>1, <4>1, <4>2
    <3> QED BY <1>4, <3>1, <3>2
  <2>4. t \in Range(r)
    BY <1>3, <1>4, <2>1
  <2>5. Range(q) = {q[i] : i \in 1..L} /\ Range(r) = {r[i] : i \in 1..(L + 1)}
    BY <1>4 DEF Range
  <2> QED BY <2>2, <2>3, <2>4, <2>5
<1>12. r # << >>
  BY <1>4
<1> QED BY <1>2, <1>10, <1>11, <1>12 DEF r

LEMMA BehindInOrder ==
    ASSUME NEW prio \in [Threads -> Nat], NEW q, InOrder(q, prio), NEW t \in Threads, t \notin Range(q)
    PROVE  /\ InOrder(Behind(q, t, prio), prio) /\ Range(Behind(q, t, prio)) = Range(q) \cup {t}
           /\ Behind(q, t, prio) # << >>
<1> DEFINE stops == {u \in Threads : prio[u] < prio[t]}
<1>1. \A u \in Threads : prio[u] \in Nat
  OBVIOUS
<1>2. \A u \in Threads : IF u \in stops THEN prio[u] <= prio[t] ELSE prio[u] >= prio[t]
  BY <1>1
<1> HIDE DEF stops
<1>3. /\ InOrder(InsertBefore(q, t, stops), prio)
      /\ Range(InsertBefore(q, t, stops)) = Range(q) \cup {t}
      /\ InsertBefore(q, t, stops) # << >>
  BY <1>2, InsertedInOrder
<1> QED BY <1>3 DEF Behind, stops

LEMMA AheadInOrder ==
    ASSUME NEW prio \in [Threads -> Nat], NEW q, InOrder(q, prio), NEW t \in Threads, t \notin Range(q)
    PROVE  /\ InOrder(Ahead(q, t, prio), prio) /\ Range(Ahead(q, t, prio)) = Range(q) \cup {t}
           /\ Ahead(q, t, prio) # << >>
<1> DEFINE stops == {u \in Threads : prio[u] <= prio[t]}
<1>1. \A u \in Threads : prio[u] \in Nat
  OBVIOUS
<1>2. \A u \in Threads : IF u \in stops THEN prio[u] <= prio[t] ELSE prio[u] >= prio[t]
  BY <1>1
<1> HIDE DEF stops
<1>3. /\ InOrder(InsertBefore(q, t, stops), prio)
      /\ Range(InsertBefore(q, t, stops)) = Range(q) \cup {t}
      /\ InsertBefore(q, t, stops) # << >>
  BY <1>2, InsertedInOrder
<1> QED BY <1>3 DEF Ahead, stops

\* The thread taken out may have another priority by then.
LEMMA WithoutInOrder ==
    ASSUME NEW prio, NEW prio2, NEW q, InOrder(q, prio), NEW t \in Range(q),
           \A u \in Threads \ {t} : prio2[u] = prio[u]
    PROVE  InOrder(Without(q, t), prio2) /\ Range(Without(q, t)) = Range(q) \ {t}
<1> DEFINE k == CHOOSE i \in DOMAIN q : q[i] = t
           L == Len(q)
           r == RemoveAt(q, k)
<1>1. q \in Seq(Threads) /\ L \in Nat /\ DOMAIN q = 1..L
  BY DEF InOrder
<1>2. \E i \in DOMAIN q : q[i] = t
  BY DEF Range
<1>3. k \in 1..L /\ q[k] = t
  BY <1>1, <1>2
<1>4. Without(q, t) = r
  BY DEF Without
<1> HIDE DEF k
<1>5. /\ r \in Seq(Threads) /\ Len(r) = L - 1
      /\ \A i \in 1..(k - 1) : r[i] = q[i]
      /\ \A i \in k..(L - 1) : r[i] = q[i + 1]
  BY <1>1, <1>3, RemoveAtIs
<1> HIDE DEF r, L
<1>6. \A i, j \in 1..L : i < j => q[i] # q[j] /\ prio[q[i]] >= prio[q[j]]
  BY <1>1 DEF InOrder
<1>7. \A i \in 1..L : i # k => q[i] # t /\ q[i] \in Threads
  <2> SUFFICES ASSUME NEW i \in 1..L, i # k PROVE q[i] # t /\ q[i] \in Threads
    OBVIOUS
  <2>1. i < k \/ k < i
    BY <1>1, <1>3
  <2>2. q[i] \in Threads
    BY <1>1
  <2> QED BY <1>3, <1>6, <2>1, <2>2
<1>8. DOMAIN r = 1..(L - 1)
  BY <1>1, <1>3, <1>5
\* Where the i-th of the rest was.
<1> DEFINE At1(i) == IF i < k THEN i ELSE i + 1
<1>9. \A i \in 1..(L - 1) : At1(i) \in 1..L /\ At1(i) # k /\ r[i] = q[At1(i)]
  <2> SUFFICES ASSUME NEW i \in 1..(L - 1) PROVE At1(i) \in 1..L /\ At1(i) # k /\ r[i] = q[At1(i)]
    OBVIOUS
  <2>1. CASE i < k
    <3>1. i \in 1..(k - 1)
      BY <1>1, <1>3, <2>1
    <3> QED BY <1>1, <1>3, <1>5, <2>1, <3>1
  <2>2. CASE ~(i < k)
    <3>1. i \in k..(L - 1)
      BY <1>1, <1>3, <2>2
    <3> QED BY <1>1, <1>3, <1>5, <2>2, <3>1
  <2> QED BY <2>1, <2>2
<1>10. ASSUME NEW i \in 1..(L - 1), NEW j \in 1..(L - 1), i < j
       PROVE  r[i] # r[j] /\ prio2[r[i]] >= prio2[r[j]]
  <2>1. At1(i) < At1(j)
    BY <1>1, <1>3, <1>10
  <2>2. At1(i) \in 1..L /\ At1(j) \in 1..L /\ r[i] = q[At1(i)] /\ r[j] = q[At1(j)]
        /\ At1(i) # k /\ At1(j) # k
    BY <1>9
  <2> HIDE DEF At1
  <2>3. q[At1(i)] # q[At1(j)] /\ prio[q[At1(i)]] >= prio[q[At1(j)]]
    BY <1>6, <2>1, <2>2
  <2>4. prio2[q[At1(i)]] = prio[q[At1(i)]] /\ prio2[q[At1(j)]] = prio[q[At1(j)]]
    BY <1>7, <2>2
  <2> QED BY <2>2, <2>3, <2>4
<1>11. InOrder(r, prio2)
  BY <1>5, <1>8, <1>10 DEF InOrder
<1>12. Range(r) = Range(q) \ {t}
  <2>1. ASSUME NEW i \in 1..(L - 1) PROVE r[i] \in Range(q) \ {t}
    <3>1. At1(i) \in 1..L /\ At1(i) # k /\ r[i] = q[At1(i)]
      BY <1>9
    <3> HIDE DEF At1
    <3> QED BY <1>1, <1>7, <3>1 DEF Range
  <2>2. ASSUME NEW i \in 1..L, i # k PROVE q[i] \in Range(r)
    <3>1. CASE i < k
      <4>1. i \in 1..(k - 1) /\ i \in 1..(L - 1)
        BY <1>1, <1>3, <3>1
      <4> QED BY <1>5, <1>8, <4>1 DEF Range
    <3>2. CASE i > k
      <4>1. i - 1 \in k..(L - 1) /\ i - 1 \in 1..(L - 1) /\ (i - 1) + 1 = i
        BY <1>1, <1>3, <3>2
      <4> QED BY <1>5, <1>8, <4>1 DEF Range
    <3> QED BY <1>1, <1>3, <2>2, <3>1, <3>2
  <2> QED BY <1>1, <1>3, <1>8, <2>1, <2>2 DEF Range
<1> QED BY <1>4, <1>11, <1>12

LEMMA HeadOfOrder ==
    ASSUME NEW prio \in [Threads -> Nat], NEW q, InOrder(q, prio), q # << >>
    PROVE  /\ Head(q) \in Threads /\ Head(q) \in Range(q)
           /\ \A u \in Range(q) : u \in Threads /\ prio[Head(q)] >= prio[u]
           /\ InOrder(Tail(q), prio) /\ Range(Tail(q)) = Range(q) \ {Head(q)}
<1> DEFINE L == Len(q)
<1>1. /\ q \in Seq(Threads) /\ L \in Nat /\ L >= 1 /\ DOMAIN q = 1..L
      /\ Head(q) = q[1] /\ Tail(q) \in Seq(Threads) /\ Len(Tail(q)) = L - 1 /\ DOMAIN Tail(q) = 1..(L - 1)
      /\ \A i \in 1..(L - 1) : Tail(q)[i] = q[i + 1]
  BY HeadTailProperties DEF InOrder
<1> HIDE DEF L
<1>2. \A i, j \in 1..L : i < j => q[i] # q[j] /\ prio[q[i]] >= prio[q[j]]
  BY <1>1 DEF InOrder
<1>3. \A i \in 1..L : q[i] \in Threads /\ prio[q[i]] \in Nat
  BY <1>1 DEF L
<1>4. \A i \in 1..(L - 1) : i + 1 \in 1..L /\ 1 < i + 1
  BY <1>1
<1>5. \A i \in 1..L : i = 1 \/ (i - 1 \in 1..(L - 1) /\ (i - 1) + 1 = i)
  BY <1>1
<1>6. \A u \in Range(q) : u \in Threads /\ prio[q[1]] >= prio[u]
  <2> SUFFICES ASSUME NEW i \in 1..L PROVE q[i] \in Threads /\ prio[q[1]] >= prio[q[i]]
    BY <1>1 DEF Range
  <2>1. 1 \in 1..L /\ (i = 1 \/ 1 < i)
    BY <1>1
  <2> QED BY <1>2, <1>3, <2>1
<1>7. InOrder(Tail(q), prio)
  <2>1. ASSUME NEW i \in 1..(L - 1), NEW j \in 1..(L - 1), i < j
        PROVE  Tail(q)[i] # Tail(q)[j] /\ prio[Tail(q)[i]] >= prio[Tail(q)[j]]
    <3>1. i + 1 \in 1..L /\ j + 1 \in 1..L /\ i + 1 < j + 1
      BY <2>1, <1>4
    <3> QED BY <1>1, <1>2, <3>1
  <2> QED BY <1>1, <2>1 DEF InOrder
<1>8. Range(Tail(q)) = Range(q) \ {q[1]}
  <2>1. ASSUME NEW i \in 1..(L - 1) PROVE Tail(q)[i] \in Range(q) \ {q[1]}
    <3>1. i + 1 \in 1..L /\ 1 < i + 1 /\ 1 \in 1..L
      BY <1>4, <1>1
    <3>2. q[1] # q[i + 1]
      BY <1>2, <3>1
    <3> QED BY <1>1, <3>1, <3>2 DEF Range
  <2>2. ASSUME NEW i \in 1..L, q[i] # q[1] PROVE q[i] \in Range(Tail(q))
    BY <1>1, <1>5, <2>2 DEF Range
  <2> QED BY <1>1, <2>1, <2>2 DEF Range
<1>9. 1 \in 1..L
  BY <1>1
<1> QED BY <1>1, <1>3, <1>6, <1>7, <1>8, <1>9 DEF Range

\* Priorities that change elsewhere, or for the better of one queue's order.
LEMMA SameOrder ==
    ASSUME NEW prio, NEW prio2, NEW q, InOrder(q, prio), \A u \in Range(q) : prio2[u] = prio[u]
    PROVE  InOrder(q, prio2)
  BY DEF InOrder, Range

LEMMA EmptyInOrder == \A prio : InOrder(<< >>, prio) /\ Range(<< >>) = {}
  BY DEF InOrder, Range

LEMMA RangeEmpty ==
    ASSUME NEW S, NEW q \in Seq(S)
    PROVE  Range(q) = {} <=> q = << >>
<1>1. q # << >> => q[1] \in Range(q)
  BY DEF Range
<1> QED BY <1>1, EmptyInOrder

LEMMA RangeCons ==
    ASSUME NEW S, NEW q \in Seq(S), NEW x \in S
    PROVE  Range(<<x>> \o q) = Range(q) \cup {x}
<1> DEFINE L == Len(q)
           new == <<x>> \o q
<1>1. L \in Nat /\ DOMAIN q = 1..L /\ DOMAIN new = 1..(L + 1)
      /\ new[1] = x /\ \A i \in 2..(L + 1) : new[i] = q[i - 1]
  OBVIOUS
<1> HIDE DEF L, new
<1>2. ASSUME NEW i \in 1..(L + 1) PROVE new[i] \in Range(q) \cup {x}
  <2>1. i = 1 \/ (i \in 2..(L + 1) /\ i - 1 \in 1..L)
    BY <1>1
  <2> QED BY <1>1, <2>1 DEF Range
<1>3. ASSUME NEW i \in 1..L PROVE q[i] \in Range(new)
  <2>1. i + 1 \in 2..(L + 1) /\ i + 1 \in 1..(L + 1) /\ (i + 1) - 1 = i
    BY <1>1
  <2>2. new[i + 1] = q[i]
    BY <1>1, <2>1
  <2> QED BY <1>1, <2>1, <2>2 DEF Range
<1>4. x \in Range(new)
  <2>1. 1 \in 1..(L + 1)
    BY <1>1
  <2> QED BY <1>1, <2>1 DEF Range
<1>5. \A y \in Range(new) : \E i \in 1..(L + 1) : y = new[i]
  BY <1>1 DEF Range
<1>6. \A y \in Range(q) : \E i \in 1..L : y = q[i]
  BY <1>1 DEF Range
<1>7. Range(new) = Range(q) \cup {x}
  BY <1>2, <1>3, <1>4, <1>5, <1>6
<1> QED BY <1>7 DEF new

-----------------------------------------------------------------------------
(* The scheduler.                                                           *)

LEMMA PriosAreNat == ASSUME Types PROVE p_prio \in [Threads -> Nat]
<1>1. p_prio \in [Threads -> 0..127]
  BY DEF Types, KernelTypeOK, HIGHPRIO
<1>2. \A t \in Threads : p_prio[t] \in Nat
  BY <1>1
<1> QED BY <1>1, <1>2

LEMMA NobodyIsNone == \A t \in Threads : t # NoThread
  BY KernelAssumption

\* A thread is made ready.  The priority of the current one may just have
\* been lowered, as in chMtxUnlock.
LEMMA Rescheduled ==
    ASSUME Types, Listed, NEW prio \in [Threads -> Nat], InOrder(rlist, prio),
           NEW t \in Threads, p_state[t] \notin Runnable, ReadyAndReschedule(t, prio)
    PROVE  /\ current' \in Threads /\ p_state' \in [Threads -> States]
           /\ Listed' /\ InOrder(rlist', prio)
           /\ \A u \in Range(rlist') : prio[current'] >= prio[u]
           /\ \A u \in Threads : IF u = t \/ p_state[u] \in Runnable THEN p_state'[u] \in Runnable
                                 ELSE p_state'[u] = p_state[u]
<1> DEFINE q == Behind(rlist, t, prio)
<1>1. t \notin Range(rlist) /\ t # current
  BY DEF Listed, Runnable
<1>2. InOrder(q, prio) /\ Range(q) = Range(rlist) \cup {t} /\ q # << >>
  BY <1>1, BehindInOrder
<1> HIDE DEF q
<1>3. /\ Head(q) \in Threads /\ Head(q) \in Range(q)
      /\ \A u \in Range(q) : u \in Threads /\ prio[Head(q)] >= prio[u]
      /\ InOrder(Tail(q), prio) /\ Range(Tail(q)) = Range(q) \ {Head(q)}
  BY <1>2, HeadOfOrder
<1>4. current \in Threads \cup {NoThread} /\ p_state \in [Threads -> States]
  BY DEF Types, KernelTypeOK
<1>5. \A u \in Threads : prio[u] \in Nat
  OBVIOUS
<1>6. \A u \in Threads : u # NoThread
  BY NobodyIsNone
<1>7. CASE current = NoThread
  <2>1. rlist = << >> /\ Range(rlist) = {}
    BY <1>7, EmptyInOrder DEF Listed
  <2>2. Range(q) = {t} /\ Head(q) = t /\ Range(Tail(q)) = {} /\ Tail(q) \in Seq(Threads)
    BY <1>2, <1>3, <2>1 DEF InOrder
  <2>3. Tail(q) = << >>
    BY <2>2, RangeEmpty
  <2>4. current' = t /\ rlist' = << >>
        /\ p_state' = [u \in Threads |-> IF u = t THEN "CURRENT"
                                         ELSE IF u \in {t, current} THEN "READY" ELSE p_state[u]]
    BY <1>7, <2>2, <2>3 DEF ReadyAndReschedule, q
  <2>5. \A u \in Threads : p_state'[u] = IF u = t THEN "CURRENT" ELSE p_state[u]
    BY <2>4, <1>6, <1>7
  <2>6. \A u \in Threads : p_state[u] \notin Runnable
    BY <1>6, <1>7, <2>1 DEF Listed, Runnable
  <2>7. Range(rlist') = {} /\ InOrder(rlist', prio)
    BY <2>4, EmptyInOrder
  <2>8. Listed'
    BY <2>4, <2>5, <2>6, <2>7, <1>6 DEF Listed, Runnable
  <2> QED BY <2>4, <2>5, <2>6, <2>7, <2>8, <1>4 DEF States, Runnable
<1>8. CASE current # NoThread /\ prio[Head(q)] > prio[current]
  <2>1. current \in Threads /\ p_state[current] = "CURRENT" /\ current \notin Range(q)
    BY <1>1, <1>2, <1>4, <1>8 DEF Listed
  <2>2. current' = Head(q) /\ rlist' = Ahead(Tail(q), current, prio)
        /\ p_state' = [u \in Threads |-> IF u = Head(q) THEN "CURRENT"
                                         ELSE IF u \in {t, current} THEN "READY" ELSE p_state[u]]
    BY <1>8 DEF ReadyAndReschedule, q
  <2>3. InOrder(rlist', prio) /\ Range(rlist') = (Range(q) \ {Head(q)}) \cup {current}
    BY <1>3, <2>1, <2>2, AheadInOrder
  <2>4. \A u \in Range(rlist') : prio[current'] >= prio[u]
    BY <1>3, <1>5, <1>8, <2>1, <2>2, <2>3
  <2>5. \A u \in Threads : p_state'[u] = IF u = Head(q) THEN "CURRENT"
                                         ELSE IF u = t \/ u = current THEN "READY" ELSE p_state[u]
    BY <2>2
  <2>6. Head(q) = t \/ p_state[Head(q)] = "READY"
    BY <1>2, <1>3 DEF Listed
  <2>7. Listed'
    <3>1. ASSUME NEW u \in Threads PROVE u \in Range(rlist') <=> p_state'[u] = "READY"
      BY <1>1, <1>2, <1>3, <2>1, <2>3, <2>5 DEF Listed
    <3>2. ASSUME NEW u \in Threads PROVE p_state'[u] = "CURRENT" <=> u = current'
      BY <2>1, <2>2, <2>5 DEF Listed
    <3> QED BY <3>1, <3>2, <2>2, <1>3, <1>6 DEF Listed
  <2>8. p_state' \in [Threads -> States]
    BY <2>2, <2>5, <1>4 DEF States
  <2> QED BY <1>3, <2>1, <2>2, <2>3, <2>4, <2>5, <2>6, <2>7, <2>8 DEF Runnable
<1>9. CASE current # NoThread /\ ~(prio[Head(q)] > prio[current])
  <2>1. current' = current /\ rlist' = q /\ p_state' = [p_state EXCEPT ![t] = "READY"]
    BY <1>9 DEF ReadyAndReschedule, q
  <2>2. \A u \in Range(rlist') : prio[current'] >= prio[u]
    BY <1>3, <1>4, <1>5, <1>9, <2>1
  <2>3. Listed'
    BY <1>1, <1>2, <1>4, <1>9, <2>1 DEF Listed
  <2>4. p_state' \in [Threads -> States]
    BY <2>1, <1>4 DEF States
  <2> QED BY <1>2, <1>4, <1>9, <2>1, <2>2, <2>3, <2>4 DEF Runnable
<1> QED BY <1>7, <1>8, <1>9

\* The current thread leaves the processor.
LEMMA Slept ==
    ASSUME Types, SchedKept, current \in Threads, NEW s \in States, s \notin Runnable, GoSleep(s)
    PROVE  /\ current' \in Threads \cup {NoThread} /\ p_state' \in [Threads -> States]
           /\ Listed' /\ InOrder(rlist', p_prio)
           /\ current' # NoThread => \A u \in Range(rlist') : p_prio[current'] >= p_prio[u]
           /\ p_state'[current] = s
           /\ \A u \in Threads : IF u = current THEN p_state'[u] = s
                                 ELSE IF p_state[u] \in Runnable THEN p_state'[u] \in Runnable
                                 ELSE p_state'[u] = p_state[u]
<1>1. p_state \in [Threads -> States] /\ p_prio \in [Threads -> Nat] /\ p_state[current] = "CURRENT"
      /\ \A u \in Threads : u # NoThread
  BY PriosAreNat, NobodyIsNone DEF Types, KernelTypeOK, SchedKept, Listed
<1>2. p_state' = [t \in Threads |-> IF t = current THEN s ELSE IF t = current' THEN "CURRENT" ELSE p_state[t]]
  BY DEF GoSleep
<1>3. CASE rlist = << >>
  <2>1. current' = NoThread /\ rlist' = << >> /\ Range(rlist) = {} /\ Range(rlist') = {}
    BY <1>3, EmptyInOrder DEF GoSleep
  <2>2. \A u \in Threads : p_state'[u] = IF u = current THEN s ELSE p_state[u]
    BY <1>1, <1>2, <2>1
  <2>3. \A u \in Threads : u # current => p_state[u] \notin Runnable
    BY <2>1 DEF SchedKept, Listed, Runnable
  <2>4. Listed'
    BY <1>1, <2>1, <2>2, <2>3 DEF Listed, Runnable
  <2>5. InOrder(rlist', p_prio)
    BY <2>1, EmptyInOrder
  <2>6. p_state' \in [Threads -> States]
    BY <1>1, <1>2, <2>2
  <2> QED BY <2>1, <2>2, <2>4, <2>5, <2>6
<1>4. CASE rlist # << >>
  <2> DEFINE h == Head(rlist)
  <2>1. current' = h /\ rlist' = Tail(rlist)
    BY <1>4 DEF GoSleep
  <2>2. /\ h \in Threads /\ h \in Range(rlist)
        /\ \A u \in Range(rlist) : u \in Threads /\ p_prio[h] >= p_prio[u]
        /\ InOrder(rlist', p_prio) /\ Range(rlist') = Range(rlist) \ {h}
    BY <1>1, <1>4, <2>1, HeadOfOrder DEF SchedKept
  <2> HIDE DEF h
  <2>3. p_state[h] = "READY" /\ h # current
    BY <2>2, <1>1 DEF SchedKept, Listed
  <2>4. \A u \in Threads : p_state'[u] = IF u = current THEN s ELSE IF u = h THEN "CURRENT" ELSE p_state[u]
    BY <1>2, <2>1
  <2>5. Listed'
    <3>1. ASSUME NEW u \in Threads PROVE u \in Range(rlist') <=> p_state'[u] = "READY"
      BY <1>1, <2>2, <2>3, <2>4 DEF SchedKept, Listed, Runnable
    <3>2. ASSUME NEW u \in Threads PROVE p_state'[u] = "CURRENT" <=> u = current'
      BY <1>1, <2>1, <2>3, <2>4 DEF SchedKept, Listed, Runnable
    <3> QED BY <3>1, <3>2, <1>1, <2>1, <2>2 DEF Listed
  <2>6. p_state' \in [Threads -> States]
    BY <1>1, <1>2, <2>4 DEF States
  <2> QED BY <2>1, <2>2, <2>3, <2>4, <2>5, <2>6 DEF Runnable
<1> QED BY <1>3, <1>4

-----------------------------------------------------------------------------
(* Scripts.                                                                 *)

Ops == {"lock", "unlock", "exchange", "sleep"}
Good(s) == s \in Seq(Ops \X Mutexes) /\ Disciplined(s)

LEMMA OneMore ==
    ASSUME NEW s \in Seq(Ops \X Mutexes), NEW k \in DOMAIN s
    PROVE  /\ k \in Nat /\ k - 1 \in Nat /\ s[k] = <<s[k][1], s[k][2]>> /\ s[k][2] \in Mutexes
           /\ s[k][1] = "lock" =>
                 \A o, i : HeldFrom(s, k, o, i) <=> (o = s[k][2] /\ i = k) \/ HeldFrom(s, k - 1, o, i)
           /\ s[k][1] = "unlock" =>
                 \A o, i : HeldFrom(s, k, o, i) <=> o # s[k][2] /\ HeldFrom(s, k - 1, o, i)
           /\ s[k][1] \notin {"lock", "unlock"} =>
                 \A o, i : HeldFrom(s, k, o, i) <=> HeldFrom(s, k - 1, o, i)
<1>1. k \in Nat /\ k >= 1 /\ k - 1 \in Nat
  OBVIOUS
<1>2. s[k] \in Ops \X Mutexes
  OBVIOUS
<1>3. s[k] = <<s[k][1], s[k][2]>> /\ s[k][2] \in Mutexes
  BY <1>2
<1>4. \A o : (s[k] = <<"lock", o>> <=> s[k][1] = "lock" /\ s[k][2] = o)
             /\ (s[k] = <<"unlock", o>> <=> s[k][1] = "unlock" /\ s[k][2] = o)
  BY <1>3
<1>5. \A o, i : HeldFrom(s, k, o, i) <=>
          \/ i = k /\ s[k] = <<"lock", o>>
          \/ s[k] # <<"unlock", o>> /\ HeldFrom(s, k - 1, o, i)
  <2> SUFFICES ASSUME NEW o, NEW i
               PROVE  HeldFrom(s, k, o, i) <=> \/ i = k /\ s[k] = <<"lock", o>>
                                               \/ s[k] # <<"unlock", o>> /\ HeldFrom(s, k - 1, o, i)
    OBVIOUS
  <2>1. CASE i = k
    <3>1. i \in 1..k /\ (i + 1)..k = {} /\ i \notin 1..(k - 1)
      BY <1>1, <2>1
    <3> QED BY <2>1, <3>1 DEF HeldFrom
  <2>2. CASE i # k
    <3>1. i \in 1..k <=> i \in 1..(k - 1)
      BY <1>1, <2>2
    <3>2. i \in 1..(k - 1) => (i + 1)..k = ((i + 1)..(k - 1)) \cup {k}
      BY <1>1
    <3> QED BY <2>2, <3>1, <3>2 DEF HeldFrom
  <2> QED BY <2>1, <2>2
<1>6. \A o : s[k][1] = "lock" => s[k] # <<"unlock", o>>
  BY <1>4
<1> QED BY <1>1, <1>3, <1>4, <1>5, <1>6

LEMMA NothingHeld == \A s : Held(s, 0) = {}
  BY DEF Held, HeldFrom

LEMMA HeldWhere ==
    ASSUME NEW s, NEW k \in Nat, NEW m, m \in Held(s, k)
    PROVE  \E i \in 1..k : HeldFrom(s, k, m, i)
  BY DEF Held

LEMMA NothingMatches ==
    ASSUME NEW s
    PROVE  Matches(<< >>, s, 0)
<1>1. Range(<< >>) = {} /\ << >> \in Seq(Mutexes) /\ DOMAIN << >> = {}
  BY EmptyInOrder
<1> QED BY <1>1, NothingHeld DEF Matches

\* A script locks a mutex it does not hold.
LEMMA LockMatches ==
    ASSUME NEW s, Good(s), NEW k \in DOMAIN s, s[k][1] = "lock", NEW list, Matches(list, s, k - 1)
    PROVE  /\ s[k][2] \in Mutexes /\ s[k] = <<"lock", s[k][2]>> /\ s[k][2] \notin Range(list)
           /\ Matches(<<s[k][2]>> \o list, s, k)
           /\ Range(<<s[k][2]>> \o list) = Range(list) \cup {s[k][2]}
<1> DEFINE m == s[k][2]
           new == <<m>> \o list
           L == Len(list)
<1>1. s \in Seq(Ops \X Mutexes) /\ Disciplined(s)
  BY DEF Good
<1>2. /\ k \in Nat /\ k - 1 \in Nat /\ s[k] = <<"lock", m>> /\ m \in Mutexes
      /\ \A o, i : HeldFrom(s, k, o, i) <=> (o = m /\ i = k) \/ HeldFrom(s, k - 1, o, i)
  BY <1>1, OneMore
<1>3. m \notin Held(s, k - 1)
  BY <1>1 DEF Disciplined
<1> HIDE DEF m
<1>4. list \in Seq(Mutexes) /\ L \in Nat /\ DOMAIN list = 1..L /\ Range(list) = Held(s, k - 1)
  BY DEF Matches
<1>5. /\ new \in Seq(Mutexes) /\ Len(new) = L + 1 /\ DOMAIN new = 1..(L + 1)
      /\ new[1] = m /\ \A i \in 2..(L + 1) : new[i] = list[i - 1]
  BY <1>2, <1>4
<1> HIDE DEF new, L
<1>6. Range(new) = Range(list) \cup {m}
  BY <1>2, <1>4, RangeCons DEF new
<1>7. Held(s, k) = Held(s, k - 1) \cup {m}
  <2>1. \A i : i \in 1..(k - 1) => i \in 1..k
    BY <1>2
  <2>2. k \in 1..k
    BY <1>2
  <2>3. \A o, i : HeldFrom(s, k - 1, o, i) => i \in 1..(k - 1)
    BY DEF HeldFrom
  <2> QED BY <1>2, <2>1, <2>2, <2>3 DEF Held
<1>8. ASSUME NEW a \in 1..(L + 1), NEW b \in 1..(L + 1), NEW i \in 1..k, NEW j \in 1..k,
             a < b, HeldFrom(s, k, new[a], i), HeldFrom(s, k, new[b], j)
      PROVE  i > j
  <2>1. b \in 2..(L + 1) /\ b - 1 \in 1..L /\ new[b] = list[b - 1]
    BY <1>4, <1>5, <1>8
  <2>2. list[b - 1] \in Held(s, k - 1)
    BY <1>4, <2>1 DEF Range
  <2>3. new[b] # m
    BY <1>3, <2>1, <2>2
  <2>4. HeldFrom(s, k - 1, list[b - 1], j)
    BY <1>2, <1>8, <2>1, <2>3
  <2>5. j \in 1..(k - 1)
    BY <2>4 DEF HeldFrom
  <2>6. CASE a = 1
    <3>1. new[a] = m
      BY <1>5, <2>6
    <3>2. ~HeldFrom(s, k - 1, m, i)
      BY <1>2, <1>3 DEF Held, HeldFrom
    <3>3. i = k
      BY <1>2, <1>8, <3>1, <3>2
    <3> QED BY <1>2, <2>5, <3>3
  <2>7. CASE a # 1
    <3>1. a \in 2..(L + 1) /\ a - 1 \in 1..L /\ new[a] = list[a - 1] /\ a - 1 < b - 1
      BY <1>4, <1>5, <1>8, <2>7
    <3>2. list[a - 1] \in Held(s, k - 1)
      BY <1>4, <3>1 DEF Range
    <3>3. HeldFrom(s, k - 1, list[a - 1], i)
      BY <1>2, <1>3, <1>8, <3>1, <3>2
    <3>4. i \in 1..(k - 1)
      BY <3>3 DEF HeldFrom
    <3> QED BY <1>4, <2>1, <2>4, <2>5, <3>1, <3>3, <3>4 DEF Matches
  <2> QED BY <2>6, <2>7
<1>9. Matches(new, s, k)
  BY <1>4, <1>5, <1>6, <1>7, <1>8 DEF Matches
<1> QED BY <1>2, <1>3, <1>4, <1>6, <1>9 DEF m, new

\* It unlocks the mutex it locked last.
LEMMA UnlockMatches ==
    ASSUME NEW s, Good(s), NEW k \in DOMAIN s, s[k][1] = "unlock", NEW list, Matches(list, s, k - 1)
    PROVE  /\ s[k][2] \in Mutexes /\ list # << >> /\ Head(list) = s[k][2]
           /\ Tail(list) \in Seq(Mutexes) /\ Range(Tail(list)) = Range(list) \ {s[k][2]}
           /\ s[k][2] \in Range(list) /\ Matches(Tail(list), s, k)
<1> DEFINE m == s[k][2]
           L == Len(list)
           new == Tail(list)
<1>1. s \in Seq(Ops \X Mutexes) /\ Disciplined(s)
  BY DEF Good
<1>2. /\ k \in Nat /\ k - 1 \in Nat /\ m \in Mutexes
      /\ \A o, i : HeldFrom(s, k, o, i) <=> o # m /\ HeldFrom(s, k - 1, o, i)
  BY <1>1, OneMore
<1>3. PICK i0 \in 1..(k - 1) :
          /\ HeldFrom(s, k - 1, m, i0)
          /\ \A o \in Mutexes, j \in (i0 + 1)..(k - 1) : ~HeldFrom(s, k - 1, o, j)
  BY <1>1 DEF Disciplined
<1> HIDE DEF m
<1>4. /\ list \in Seq(Mutexes) /\ L \in Nat /\ DOMAIN list = 1..L /\ Range(list) = Held(s, k - 1)
      /\ \A a \in 1..L : list[a] \in Mutexes
  BY DEF Matches
<1>5. m \in Range(list)
  BY <1>2, <1>3, <1>4 DEF Held
<1>6. PICK a0 \in 1..L : list[a0] = m
  BY <1>4, <1>5 DEF Range
<1>7. \A a \in 1..L : \E i \in 1..(k - 1) : HeldFrom(s, k - 1, list[a], i)
  BY <1>2, <1>4, HeldWhere DEF Range
<1>8. \A a, b \in 1..L : \A i, j \in 1..(k - 1) :
          a < b /\ HeldFrom(s, k - 1, list[a], i) /\ HeldFrom(s, k - 1, list[b], j) => i > j
  BY <1>4 DEF Matches
<1>9. a0 = 1
  <2> SUFFICES ASSUME a0 # 1 PROVE FALSE
    OBVIOUS
  <2>1. 1 \in 1..L /\ 1 < a0
    BY <1>4, <1>6
  <2>2. PICK i \in 1..(k - 1) : HeldFrom(s, k - 1, list[1], i)
    BY <1>7, <2>1
  <2>3. i > i0
    BY <1>3, <1>6, <1>8, <2>1, <2>2
  <2>4. i \in (i0 + 1)..(k - 1)
    BY <1>2, <2>2, <2>3
  <2> QED BY <1>3, <1>4, <2>1, <2>2, <2>4
<1>10. \A a, b \in 1..L : a < b => list[a] # list[b]
  <2> SUFFICES ASSUME NEW a \in 1..L, NEW b \in 1..L, a < b, list[a] = list[b] PROVE FALSE
    OBVIOUS
  <2>1. PICK i \in 1..(k - 1) : HeldFrom(s, k - 1, list[a], i)
    BY <1>7
  <2>2. i > i
    BY <1>8, <2>1
  <2> QED BY <1>2, <2>2
<1>11. list # << >> /\ L >= 1
  BY <1>4, <1>6
<1>12. /\ Head(list) = list[1] /\ new \in Seq(Mutexes) /\ Len(new) = L - 1 /\ DOMAIN new = 1..(L - 1)
       /\ \A i \in 1..(L - 1) : new[i] = list[i + 1]
  BY <1>4, <1>11, HeadTailProperties
<1> HIDE DEF L, new
<1>13. \A i \in 1..(L - 1) : i + 1 \in 1..L /\ 1 < i + 1 /\ 1 \in 1..L
  BY <1>4
<1>14. Range(new) = Range(list) \ {m}
  <2>1. ASSUME NEW i \in 1..(L - 1) PROVE new[i] \in Range(list) \ {m}
    <3>1. i + 1 \in 1..L /\ list[1] # list[i + 1]
      BY <1>10, <1>13
    <3> QED BY <1>4, <1>6, <1>9, <1>12, <3>1 DEF Range
  <2>2. ASSUME NEW i \in 1..L, list[i] # m PROVE list[i] \in Range(new)
    <3>1. i - 1 \in 1..(L - 1) /\ (i - 1) + 1 = i
      BY <1>4, <1>6, <1>9, <2>2
    <3> QED BY <1>12, <3>1 DEF Range
  <2>3. \A x \in Range(new) : \E i \in 1..(L - 1) : x = new[i]
    BY <1>12 DEF Range
  <2>4. \A x \in Range(list) : \E i \in 1..L : x = list[i]
    BY <1>4 DEF Range
  <2> QED BY <2>1, <2>2, <2>3, <2>4
<1>15. Held(s, k) = Held(s, k - 1) \ {m}
  <2>1. \A i : i \in 1..(k - 1) => i \in 1..k
    BY <1>2
  <2>2. \A o, i : HeldFrom(s, k - 1, o, i) => i \in 1..(k - 1)
    BY DEF HeldFrom
  <2> QED BY <1>2, <2>1, <2>2 DEF Held
<1>16. ASSUME NEW a \in 1..(L - 1), NEW b \in 1..(L - 1), NEW i \in 1..k, NEW j \in 1..k,
              a < b, HeldFrom(s, k, new[a], i), HeldFrom(s, k, new[b], j)
       PROVE  i > j
  <2>1. a + 1 \in 1..L /\ b + 1 \in 1..L /\ a + 1 < b + 1
    BY <1>13, <1>16
  <2>2. HeldFrom(s, k - 1, list[a + 1], i) /\ HeldFrom(s, k - 1, list[b + 1], j)
    BY <1>2, <1>12, <1>16
  <2>3. i \in 1..(k - 1) /\ j \in 1..(k - 1)
    BY <2>2 DEF HeldFrom
  <2> QED BY <1>8, <2>1, <2>2, <2>3
<1>17. Matches(new, s, k)
  BY <1>4, <1>12, <1>14, <1>15, <1>16 DEF Matches
<1> QED BY <1>2, <1>5, <1>6, <1>9, <1>11, <1>12, <1>14, <1>17 DEF m, new

\* Its other operations leave the mutexes alone; on the bus it holds SPIMutex.
LEMMA OtherMatches ==
    ASSUME NEW s, Good(s), NEW k \in DOMAIN s, s[k][1] \notin {"lock", "unlock"},
           NEW list, Matches(list, s, k - 1)
    PROVE  Matches(list, s, k) /\ (s[k][1] = "exchange" => SPIMutex \in Range(list))
<1>1. s \in Seq(Ops \X Mutexes) /\ Disciplined(s)
  BY DEF Good
<1>2. k \in Nat /\ k - 1 \in Nat /\ \A o, i : HeldFrom(s, k, o, i) <=> HeldFrom(s, k - 1, o, i)
  BY <1>1, OneMore
<1>3. \A o, i : HeldFrom(s, k - 1, o, i) => i \in 1..(k - 1) /\ i \in 1..k
  BY <1>2 DEF HeldFrom
<1>4. Held(s, k) = Held(s, k - 1)
  BY <1>2, <1>3 DEF Held
<1>5. s[k][1] = "exchange" => SPIMutex \in Held(s, k - 1)
  BY <1>1 DEF Disciplined
<1> QED BY <1>2, <1>3, <1>4, <1>5 DEF Matches

LEMMA EndMatches ==
    ASSUME NEW s, Good(s), NEW list, Matches(list, s, Len(s))
    PROVE  list = << >>
<1>1. Held(s, Len(s)) = {}
  BY DEF Good, Disciplined
<1> QED BY <1>1, RangeEmpty DEF Matches

LEMMA ScriptsAreGood ==
    ASSUME Types, NEW t \in Threads
    PROVE  Good(script[t]) /\ Len(script[t]) \in Nat /\ DOMAIN script[t] = 1..Len(script[t])
<1>1. Good(<< >>)
  BY NothingHeld DEF Good, Disciplined
<1>2. \A s \in Scripts[t] : Good(s)
  BY ScriptsAssumption DEF Good, Ops
<1>3. Good(script[t])
  BY <1>1, <1>2 DEF Types
<1> QED BY <1>3 DEF Good

-----------------------------------------------------------------------------
(* The inductive invariant of everything but the priorities' values, and    *)
(* what the actions have in common.                                         *)

Inv == Types /\ SchedKept /\ QueuesKept /\ OwnersKept /\ WalkKept /\ ExchangePaired

LEMMA QueuesSame ==
    ASSUME QueuesKept, m_queue' = m_queue, p_prio' = p_prio,
           \A t \in Threads : p_state[t] = "WTMTX" <=> p_state'[t] = "WTMTX",
           \A t \in Threads : p_state[t] = "WTMTX" => ip'[t] = ip[t] /\ script'[t] = script[t],
           \A m \in Mutexes : m_queue[m] # << >> => m_owner'[m] = m_owner[m]
    PROVE  QueuesKept'
<1>1. \A m \in Mutexes : InOrder(m_queue'[m], p_prio')
  BY DEF QueuesKept
<1>2. \A t \in Threads : p_state'[t] = "WTMTX" => \E m \in Mutexes : t \in Range(m_queue'[m])
  BY DEF QueuesKept
<1>3. ASSUME NEW m \in Mutexes, NEW t \in Range(m_queue'[m])
      PROVE  /\ p_state'[t] = "WTMTX" /\ m_owner'[m] \notin {NoThread, t}
             /\ ip'[t] >= 2 /\ script'[t][ip'[t] - 1] = <<"lock", m>>
  <2>1. InOrder(m_queue[m], p_prio) /\ t \in Range(m_queue[m])
    BY <1>3 DEF QueuesKept
  <2>2. m_queue[m] # << >> /\ t \in Threads
    BY <2>1, EmptyInOrder DEF InOrder, Range
  <2>3. /\ p_state[t] = "WTMTX" /\ m_owner[m] \notin {NoThread, t}
        /\ ip[t] >= 2 /\ script[t][ip[t] - 1] = <<"lock", m>>
    BY <2>1 DEF QueuesKept
  <2> QED BY <2>2, <2>3
<1> QED BY <1>1, <1>2, <1>3 DEF QueuesKept

LEMMA OthersOwn ==
    ASSUME OwnersKept, NEW c \in Threads,
           \A t \in Threads \ {c} : /\ p_mtxlist'[t] = p_mtxlist[t] /\ script'[t] = script[t] /\ ip'[t] = ip[t]
                                    /\ p_state'[t] = "WTMTX" <=> p_state[t] = "WTMTX",
           \A m \in Mutexes, t \in Threads : m_owner'[m] = t <=> m \in Range(p_mtxlist'[t]),
           ip'[c] \in 1..(Len(script'[c]) + 1), Matches(p_mtxlist'[c], script'[c], Done(c)')
    PROVE  OwnersKept'
<1>1. \A t \in Threads \ {c} : Done(t)' = Done(t)
  BY DEF Done
<1>2. \A t \in Threads \ {c} : /\ ip'[t] \in 1..(Len(script'[t]) + 1)
                              /\ Matches(p_mtxlist'[t], script'[t], Done(t)')
  BY <1>1 DEF OwnersKept
<1> QED BY <1>2 DEF OwnersKept

\* Nobody's mutexes change.
LEMMA OwnersSame ==
    ASSUME OwnersKept, UNCHANGED <<p_mtxlist, m_owner, place>>,
           \A t \in Threads : p_state'[t] = "WTMTX" <=> p_state[t] = "WTMTX"
    PROVE  OwnersKept'
<1>1. \A t \in Threads : Done(t)' = Done(t)
  BY DEF Done, place
<1> QED BY <1>1 DEF OwnersKept, place

\* The thread that makes a call.
LEMMA Caller ==
    ASSUME Inv, NEW t \in Threads, NEW op, Calls(t, op)
    PROVE  /\ current = t /\ t # NoThread /\ p_state[t] = "CURRENT" /\ walk = NoWalk
           /\ t \notin Range(rlist) /\ \A m \in Mutexes : t \notin Range(m_queue[m])
           /\ Good(script[t]) /\ ip[t] \in DOMAIN script[t] /\ ip[t] \in Nat
           /\ ip[t] + 1 \in 1..(Len(script[t]) + 1) /\ (ip[t] + 1) - 1 = ip[t]
           /\ Op(t) = script[t][ip[t]] /\ script[t][ip[t]][1] = op
           /\ Matches(p_mtxlist[t], script[t], ip[t] - 1)
<1>1. current = t /\ walk = NoWalk /\ ip[t] <= Len(script[t]) /\ Op(t) = script[t][ip[t]] /\ script[t][ip[t]][1] = op
  BY DEF Calls, Op, Unlocked, Walking
<1>2. t # NoThread
  BY NobodyIsNone
<1>3. p_state[t] = "CURRENT"
  BY <1>1 DEF Inv, SchedKept, Listed
<1>4. t \notin Range(rlist) /\ \A m \in Mutexes : t \notin Range(m_queue[m])
  BY <1>3 DEF Inv, SchedKept, Listed, QueuesKept
<1>5. ip[t] \in 1..(Len(script[t]) + 1) /\ Matches(p_mtxlist[t], script[t], Done(t))
  BY DEF Inv, OwnersKept
<1>6. Done(t) = ip[t] - 1
  BY <1>3 DEF Done
<1>7. Good(script[t]) /\ Len(script[t]) \in Nat /\ DOMAIN script[t] = 1..Len(script[t])
  BY ScriptsAreGood DEF Inv
<1> QED BY <1>1, <1>2, <1>3, <1>4, <1>5, <1>6, <1>7

LEMMA WentOn ==
    ASSUME Types, NEW t \in Threads, GoesOn(t)
    PROVE  /\ ip' \in [Threads -> Nat] /\ ip'[t] = ip[t] + 1 /\ script' = script
           /\ \A u \in Threads \ {t} : ip'[u] = ip[u]
           /\ p_state'[t] # "WTMTX" => Done(t)' = (ip[t] + 1) - 1
  BY DEF Types, GoesOn, Done

-----------------------------------------------------------------------------
(* The actions.                                                             *)

LEMMA NextScriptKeeps ==
    ASSUME Inv, NEW t \in Threads, NextScript(t)
    PROVE  Inv'
<1>1. current = t /\ ip[t] > Len(script[t]) /\ UNCHANGED <<kernelVars, spiVars>> /\ walk = NoWalk
      /\ ip' = [ip EXCEPT ![t] = 1]
  BY DEF NextScript, Unlocked, Walking
<1>2. PICK s \in Scripts[t] : script' = [script EXCEPT ![t] = s]
  BY DEF NextScript
<1>3. p_state[t] = "CURRENT"
  BY <1>1 DEF Inv, SchedKept, Listed
<1>4. script'[t] = s /\ ip'[t] = 1 /\ \A u \in Threads \ {t} : script'[u] = script[u] /\ ip'[u] = ip[u]
  BY <1>1, <1>2 DEF Inv, Types
<1>5. Good(script[t]) /\ Len(script[t]) \in Nat
  BY ScriptsAreGood DEF Inv
<1>6. ip[t] \in 1..(Len(script[t]) + 1) /\ Matches(p_mtxlist[t], script[t], Done(t))
  BY DEF Inv, OwnersKept
<1>7. Done(t) = Len(script[t])
  BY <1>1, <1>3, <1>5, <1>6 DEF Done
<1>8. p_mtxlist[t] = << >>
  BY <1>5, <1>6, <1>7, EndMatches
<1>9. Types'
  <2>1. s \in AllScripts
    BY DEF AllScripts
  <2>2. script' \in [Threads -> AllScripts] /\ ip' \in [Threads -> Nat]
    BY <1>1, <1>2, <2>1 DEF Inv, Types
  <2> QED BY <1>1, <1>4, <2>2 DEF Inv, Types, KernelTypeOK, kernelVars, spiVars
<1>10. SchedKept'
  BY <1>1 DEF Inv, SchedKept, Listed, kernelVars
<1>11. QueuesKept'
  <2>1. QueuesKept /\ m_queue' = m_queue /\ p_prio' = p_prio /\ p_state' = p_state /\ m_owner' = m_owner
    BY <1>1 DEF Inv, kernelVars
  <2>2. \A u \in Threads : p_state[u] = "WTMTX" => ip'[u] = ip[u] /\ script'[u] = script[u]
    BY <1>3, <1>4
  <2> QED BY <2>1, <2>2, QueuesSame
<1>12. OwnersKept'
  <2>1. OwnersKept /\ p_mtxlist' = p_mtxlist /\ p_state' = p_state /\ m_owner' = m_owner
    BY <1>1 DEF Inv, kernelVars
  <2>2. \A u \in Threads \ {t} : /\ p_mtxlist'[u] = p_mtxlist[u] /\ script'[u] = script[u] /\ ip'[u] = ip[u]
                                 /\ p_state'[u] = "WTMTX" <=> p_state[u] = "WTMTX"
    BY <1>4, <2>1
  <2>3. \A m \in Mutexes, u \in Threads : m_owner'[m] = u <=> m \in Range(p_mtxlist'[u])
    BY <2>1 DEF OwnersKept
  <2>4. Len(s) \in Nat
    BY ScriptsAssumption
  <2>5. ip'[t] \in 1..(Len(script'[t]) + 1)
    BY <1>4, <2>4
  <2>6. Done(t)' = 0
    BY <1>3, <1>4, <2>1 DEF Done
  <2>7. Matches(p_mtxlist'[t], script'[t], Done(t)')
    BY <1>8, <2>1, <2>6, NothingMatches
  <2> QED BY <2>1, <2>2, <2>3, <2>5, <2>7, OthersOwn
<1>13. WalkKept'
  BY <1>1 DEF WalkKept, Walking, kernelVars
<1>14. ExchangePaired'
  BY <1>1 DEF Inv, ExchangePaired, kernelVars, spiVars
<1> QED BY <1>9, <1>10, <1>11, <1>12, <1>13, <1>14 DEF Inv

LEMMA LockFreeKeeps ==
    ASSUME Inv, NEW t \in Threads, LockFree(t)
    PROVE  Inv'
<1> DEFINE k == ip[t]
           m == script[t][k][2]
<1>1. Calls(t, "lock") /\ TakeMutex(Op(t)[2]) /\ GoesOn(t) /\ UNCHANGED spiVars
  BY DEF LockFree
<1>2. /\ current = t /\ t # NoThread /\ p_state[t] = "CURRENT" /\ walk = NoWalk
      /\ Good(script[t]) /\ k \in DOMAIN script[t] /\ k \in Nat
      /\ k + 1 \in 1..(Len(script[t]) + 1) /\ (k + 1) - 1 = k
      /\ Op(t) = script[t][k] /\ script[t][k][1] = "lock" /\ Matches(p_mtxlist[t], script[t], k - 1)
  BY <1>1, Caller
<1>3. /\ m \in Mutexes /\ m \notin Range(p_mtxlist[t]) /\ Matches(<<m>> \o p_mtxlist[t], script[t], k)
      /\ Range(<<m>> \o p_mtxlist[t]) = Range(p_mtxlist[t]) \cup {m}
  BY <1>2, LockMatches
<1>4. /\ m_owner[m] = NoThread /\ m_owner' = [m_owner EXCEPT ![m] = t]
      /\ p_mtxlist' = [p_mtxlist EXCEPT ![t] = <<m>> \o @]
      /\ UNCHANGED <<current, rlist, p_state, p_prio, m_queue, walk, spiVars>>
  BY <1>1, <1>2 DEF TakeMutex
<1>5. Types
  BY DEF Inv
<1>6. /\ ip' \in [Threads -> Nat] /\ ip'[t] = k + 1 /\ script' = script
      /\ \A u \in Threads \ {t} : ip'[u] = ip[u]
      /\ p_state'[t] # "WTMTX" => Done(t)' = (k + 1) - 1
  BY <1>1, <1>5, WentOn
<1> HIDE DEF m, k
<1>7. /\ \A n \in Mutexes : m_owner'[n] = IF n = m THEN t ELSE m_owner[n]
      /\ \A u \in Threads : p_mtxlist'[u] = IF u = t THEN <<m>> \o p_mtxlist[t] ELSE p_mtxlist[u]
      /\ m_owner' \in [Mutexes -> Threads \cup {NoThread}] /\ p_mtxlist' \in [Threads -> Seq(Mutexes)]
  BY <1>3, <1>4, <1>5 DEF Types, KernelTypeOK
<1>8. Types'
  BY <1>4, <1>5, <1>6, <1>7 DEF Types, KernelTypeOK, spiVars
<1>9. SchedKept'
  BY <1>4 DEF Inv, SchedKept, Listed
<1>10. m_queue[m] = << >>
  <2>1. InOrder(m_queue[m], p_prio) /\ \A u \in Range(m_queue[m]) : m_owner[m] # NoThread
    BY <1>3 DEF Inv, QueuesKept
  <2> QED BY <1>4, <2>1, RangeEmpty DEF InOrder
<1>11. QueuesKept'
  <2>1. \A u \in Threads : p_state[u] = "WTMTX" => ip'[u] = ip[u] /\ script'[u] = script[u]
    BY <1>2, <1>6
  <2>2. \A n \in Mutexes : m_queue[n] # << >> => m_owner'[n] = m_owner[n]
    BY <1>7, <1>10
  <2> QED BY <1>4, <2>1, <2>2, QueuesSame DEF Inv
<1>12. OwnersKept'
  <2>1. \A u \in Threads \ {t} : /\ p_mtxlist'[u] = p_mtxlist[u] /\ script'[u] = script[u] /\ ip'[u] = ip[u]
                                 /\ p_state'[u] = "WTMTX" <=> p_state[u] = "WTMTX"
    BY <1>4, <1>6, <1>7
  <2>2. ASSUME NEW n \in Mutexes, NEW u \in Threads PROVE m_owner'[n] = u <=> n \in Range(p_mtxlist'[u])
    <3>1. /\ m_owner'[n] = IF n = m THEN t ELSE m_owner[n]
          /\ p_mtxlist'[u] = IF u = t THEN <<m>> \o p_mtxlist[t] ELSE p_mtxlist[u]
      BY <1>7
    <3>2. m_owner[n] = u <=> n \in Range(p_mtxlist[u])
      BY DEF Inv, OwnersKept
    <3>3. CASE u = t
      <4>1. n \in Range(p_mtxlist'[u]) <=> n \in Range(p_mtxlist[u]) \/ n = m
        BY <1>3, <3>1, <3>3
      <4> QED BY <3>1, <3>2, <3>3, <4>1
    <3>4. CASE u # t
      <4>1. n = m => m_owner[n] # u /\ m_owner'[n] # u
        BY <1>4, <3>1, <3>4, NobodyIsNone
      <4> QED BY <3>1, <3>2, <3>4, <4>1
    <3> QED BY <3>3, <3>4
  <2>3. ip'[t] \in 1..(Len(script'[t]) + 1)
    BY <1>2, <1>6
  <2>4. Matches(p_mtxlist'[t], script'[t], Done(t)')
    <3>1. Done(t)' = k
      BY <1>2, <1>4, <1>6
    <3> QED BY <3>1, <1>3, <1>6, <1>7
  <2> QED BY <2>1, <2>2, <2>3, <2>4, OthersOwn DEF Inv
<1>13. WalkKept'
  BY <1>2, <1>4 DEF WalkKept, Walking
<1>14. ExchangePaired'
  <2>1. spi_thread # NoThread => m_owner'[SPIMutex] = spi_thread
    BY <1>4, <1>7, ScriptsAssumption DEF Inv, ExchangePaired
  <2> QED BY <1>4, <2>1 DEF Inv, ExchangePaired, spiVars
<1> QED BY <1>8, <1>9, <1>11, <1>12, <1>13, <1>14 DEF Inv

LEMMA LockTakenKeeps ==
    ASSUME Inv, NEW t \in Threads, LockTaken(t)
    PROVE  Inv'
<1> DEFINE m == script[t][ip[t]][2]
<1>1. Calls(t, "lock") /\ BeginWalk(Op(t)[2]) /\ UNCHANGED <<place, spiVars>>
  BY DEF LockTaken
<1>2. /\ current = t /\ t # NoThread /\ Good(script[t]) /\ ip[t] \in DOMAIN script[t]
      /\ Op(t) = script[t][ip[t]] /\ script[t][ip[t]][1] = "lock" /\ Matches(p_mtxlist[t], script[t], ip[t] - 1)
  BY <1>1, Caller
<1>3. m \in Mutexes /\ script[t][ip[t]] = <<"lock", m>>
  BY <1>2, LockMatches
<1>4. /\ m_owner[m] # NoThread /\ walk' = <<m, m_owner[m]>>
      /\ UNCHANGED <<current, rlist, p_state, p_prio, p_mtxlist, m_owner, m_queue, script, ip, spi_state, spi_thread>>
  BY <1>1, <1>2 DEF BeginWalk, place, spiVars
<1>5. ip[t] <= Len(script[t])
  BY <1>1 DEF Calls
<1> HIDE DEF m
<1>6. Types'
  BY <1>3, <1>4 DEF Inv, Types, KernelTypeOK
<1>7. SchedKept'
  BY <1>4 DEF Inv, SchedKept, Listed
<1>8. QueuesKept'
  BY <1>4, QueuesSame DEF Inv
<1>9. OwnersKept'
  BY <1>4, OwnersSame DEF Inv, place
<1>10. WalkKept'
  BY <1>2, <1>3, <1>4, <1>5 DEF WalkKept, Walking, Op
<1>11. ExchangePaired'
  BY <1>4 DEF Inv, ExchangePaired
<1> QED BY <1>6, <1>7, <1>8, <1>9, <1>10, <1>11 DEF Inv

LEMMA UnlockFreeKeeps ==
    ASSUME Inv, NEW t \in Threads, UnlockFree(t)
    PROVE  Inv'
<1> DEFINE k == ip[t]
           m == script[t][k][2]
<1>1. Calls(t, "unlock") /\ FreeMutex(Op(t)[2]) /\ GoesOn(t) /\ UNCHANGED spiVars
  BY DEF UnlockFree
<1>2. /\ current = t /\ t # NoThread /\ p_state[t] = "CURRENT" /\ walk = NoWalk
      /\ Good(script[t]) /\ k \in DOMAIN script[t] /\ k \in Nat
      /\ k + 1 \in 1..(Len(script[t]) + 1) /\ (k + 1) - 1 = k
      /\ Op(t) = script[t][k] /\ script[t][k][1] = "unlock" /\ Matches(p_mtxlist[t], script[t], k - 1)
  BY <1>1, Caller
<1>3. /\ m \in Mutexes /\ m \in Range(p_mtxlist[t]) /\ Matches(Tail(p_mtxlist[t]), script[t], k)
      /\ Tail(p_mtxlist[t]) \in Seq(Mutexes)
      /\ Range(Tail(p_mtxlist[t])) = Range(p_mtxlist[t]) \ {m}
  BY <1>2, UnlockMatches
<1>4. /\ m_queue[m] = << >> /\ m_owner' = [m_owner EXCEPT ![m] = NoThread]
      /\ p_mtxlist' = [p_mtxlist EXCEPT ![t] = Tail(@)]
      /\ UNCHANGED <<current, rlist, p_state, p_prio, m_queue, walk, spiVars>>
  BY <1>1, <1>2 DEF FreeMutex
<1>5. Types
  BY DEF Inv
<1>6. /\ ip' \in [Threads -> Nat] /\ ip'[t] = k + 1 /\ script' = script
      /\ \A u \in Threads \ {t} : ip'[u] = ip[u]
      /\ p_state'[t] # "WTMTX" => Done(t)' = (k + 1) - 1
  BY <1>1, <1>5, WentOn
<1> HIDE DEF m, k
<1>7. /\ \A n \in Mutexes : m_owner'[n] = IF n = m THEN NoThread ELSE m_owner[n]
      /\ \A u \in Threads : p_mtxlist'[u] = IF u = t THEN Tail(p_mtxlist[t]) ELSE p_mtxlist[u]
      /\ m_owner' \in [Mutexes -> Threads \cup {NoThread}] /\ p_mtxlist' \in [Threads -> Seq(Mutexes)]
  BY <1>3, <1>4, <1>5 DEF Types, KernelTypeOK
<1>8. Types'
  BY <1>4, <1>5, <1>6, <1>7 DEF Types, KernelTypeOK, spiVars
<1>9. SchedKept'
  BY <1>4 DEF Inv, SchedKept, Listed
<1>10. m_owner[m] = t
  BY <1>3 DEF Inv, OwnersKept
<1>11. QueuesKept'
  <2>1. \A u \in Threads : p_state[u] = "WTMTX" => ip'[u] = ip[u] /\ script'[u] = script[u]
    BY <1>2, <1>6
  <2>2. \A n \in Mutexes : m_queue[n] # << >> => m_owner'[n] = m_owner[n]
    BY <1>4, <1>7
  <2> QED BY <1>4, <2>1, <2>2, QueuesSame DEF Inv
<1>12. OwnersKept'
  <2>1. \A u \in Threads \ {t} : /\ p_mtxlist'[u] = p_mtxlist[u] /\ script'[u] = script[u] /\ ip'[u] = ip[u]
                                 /\ p_state'[u] = "WTMTX" <=> p_state[u] = "WTMTX"
    BY <1>4, <1>6, <1>7
  <2>2. ASSUME NEW n \in Mutexes, NEW u \in Threads PROVE m_owner'[n] = u <=> n \in Range(p_mtxlist'[u])
    <3>1. m_owner[n] = u <=> n \in Range(p_mtxlist[u])
      BY DEF Inv, OwnersKept
    <3> QED BY <3>1, <1>3, <1>7, <1>10, NobodyIsNone
  <2>3. ip'[t] \in 1..(Len(script'[t]) + 1)
    BY <1>2, <1>6
  <2>4. Matches(p_mtxlist'[t], script'[t], Done(t)')
    <3>1. Done(t)' = k
      BY <1>2, <1>4, <1>6
    <3> QED BY <3>1, <1>3, <1>6, <1>7
  <2> QED BY <2>1, <2>2, <2>3, <2>4, OthersOwn DEF Inv
<1>13. WalkKept'
  BY <1>2, <1>4 DEF WalkKept, Walking
<1>14. ExchangePaired'
  <2>1. spi_thread # NoThread => m_owner'[SPIMutex] = spi_thread
    <3>1. spi_thread # t
      BY <1>2 DEF Inv, ExchangePaired
    <3> QED BY <3>1, <1>7, <1>10, ScriptsAssumption DEF Inv, ExchangePaired
  <2> QED BY <1>4, <2>1 DEF Inv, ExchangePaired, spiVars
<1> QED BY <1>8, <1>9, <1>11, <1>12, <1>13, <1>14 DEF Inv

\* A call after which the thread does not run: an exchange or a sleep.
LEMMA LeavesKeeps ==
    ASSUME Inv, NEW t \in Threads, NEW op, op \notin {"lock", "unlock"}, Calls(t, op),
           NEW s \in {"SUSPENDED", "SLEEPING"}, GoSleep(s), GoesOn(t),
           UNCHANGED <<p_prio, p_mtxlist, m_owner, m_queue, walk>>,
           spi_state' \in {"READY", "ACTIVE"}, spi_thread' \in Threads \cup {NoThread}
    PROVE  /\ Types' /\ SchedKept' /\ QueuesKept' /\ OwnersKept' /\ WalkKept'
           /\ p_state[t] = "CURRENT" /\ (op = "exchange" => m_owner[SPIMutex] = t)
           /\ \A u \in Threads : IF u = t THEN p_state'[u] = s
                                 ELSE IF p_state[u] \in Runnable THEN p_state'[u] \in Runnable
                                 ELSE p_state'[u] = p_state[u]
<1> DEFINE k == ip[t]
<1>1. Types /\ SchedKept /\ QueuesKept /\ OwnersKept
  BY DEF Inv
<1>2. /\ current = t /\ t # NoThread /\ p_state[t] = "CURRENT" /\ walk = NoWalk
      /\ Good(script[t]) /\ k \in DOMAIN script[t] /\ k \in Nat
      /\ k + 1 \in 1..(Len(script[t]) + 1) /\ (k + 1) - 1 = k
      /\ script[t][k][1] = op /\ Matches(p_mtxlist[t], script[t], k - 1)
  BY Caller
<1>3. Matches(p_mtxlist[t], script[t], k) /\ (op = "exchange" => SPIMutex \in Range(p_mtxlist[t]))
  BY <1>2, OtherMatches
<1>4. /\ ip' \in [Threads -> Nat] /\ ip'[t] = k + 1 /\ script' = script
      /\ \A u \in Threads \ {t} : ip'[u] = ip[u]
      /\ p_state'[t] # "WTMTX" => Done(t)' = (k + 1) - 1
  BY <1>1, WentOn
<1> HIDE DEF k
<1>5. /\ current' \in Threads \cup {NoThread} /\ p_state' \in [Threads -> States]
      /\ Listed' /\ InOrder(rlist', p_prio)
      /\ current' # NoThread => \A u \in Range(rlist') : p_prio[current'] >= p_prio[u]
      /\ p_state'[t] = s
      /\ \A u \in Threads : IF u = t THEN p_state'[u] = s
                            ELSE IF p_state[u] \in Runnable THEN p_state'[u] \in Runnable
                            ELSE p_state'[u] = p_state[u]
  <2>1. s \in States /\ s \notin Runnable
    BY DEF States, Runnable
  <2> QED BY <1>1, <1>2, <2>1, Slept
<1>6. \A u \in Threads : p_state[u] = "WTMTX" <=> p_state'[u] = "WTMTX"
  BY <1>2, <1>5 DEF Runnable
<1>7. Types'
  BY <1>1, <1>4, <1>5 DEF Types, KernelTypeOK, InOrder
<1>8. SchedKept'
  BY <1>5 DEF SchedKept
<1>9. QueuesKept'
  <2>1. \A u \in Threads : p_state[u] = "WTMTX" => ip'[u] = ip[u] /\ script'[u] = script[u]
    BY <1>2, <1>4
  <2> QED BY <1>1, <1>6, <2>1, QueuesSame
<1>10. OwnersKept'
  <2>1. \A u \in Threads \ {t} : /\ p_mtxlist'[u] = p_mtxlist[u] /\ script'[u] = script[u] /\ ip'[u] = ip[u]
                                 /\ p_state'[u] = "WTMTX" <=> p_state[u] = "WTMTX"
    BY <1>4, <1>6
  <2>2. \A n \in Mutexes, u \in Threads : m_owner'[n] = u <=> n \in Range(p_mtxlist'[u])
    BY <1>1 DEF OwnersKept
  <2>3. ip'[t] \in 1..(Len(script'[t]) + 1)
    BY <1>2, <1>4
  <2>4. Matches(p_mtxlist'[t], script'[t], Done(t)')
    <3>1. Done(t)' = k
      BY <1>2, <1>4, <1>5
    <3> QED BY <3>1, <1>3, <1>4
  <2> QED BY <1>1, <2>1, <2>2, <2>3, <2>4, OthersOwn
<1>11. WalkKept'
  BY <1>2 DEF WalkKept, Walking
<1>12. op = "exchange" => m_owner[SPIMutex] = t
  BY <1>1, <1>3, ScriptsAssumption DEF OwnersKept
<1> QED BY <1>2, <1>5, <1>7, <1>8, <1>9, <1>10, <1>11, <1>12

LEMMA ExchangeKeeps ==
    ASSUME Inv, NEW t \in Threads, Exchange(t)
    PROVE  Inv'
<1>1. /\ Types' /\ SchedKept' /\ QueuesKept' /\ OwnersKept' /\ WalkKept'
      /\ p_state[t] = "CURRENT" /\ m_owner[SPIMutex] = t
      /\ \A u \in Threads : IF u = t THEN p_state'[u] = "SUSPENDED"
                            ELSE IF p_state[u] \in Runnable THEN p_state'[u] \in Runnable
                            ELSE p_state'[u] = p_state[u]
  <2>1. spi_state' \in {"READY", "ACTIVE"} /\ spi_thread' \in Threads \cup {NoThread}
    BY DEF Exchange
  <2>2. /\ Calls(t, "exchange") /\ GoSleep("SUSPENDED") /\ GoesOn(t)
        /\ UNCHANGED <<p_prio, p_mtxlist, m_owner, m_queue, walk>>
    BY DEF Exchange
  <2>3. "SUSPENDED" \in {"SUSPENDED", "SLEEPING"} /\ "exchange" \notin {"lock", "unlock"}
    OBVIOUS
  <2> QED BY <2>1, <2>2, <2>3, LeavesKeeps
<1>2. ExchangePaired'
  <2>1. spi_state' = "ACTIVE" /\ spi_thread' = t /\ m_owner' = m_owner /\ t # NoThread
    BY NobodyIsNone DEF Exchange
  <2>2. spi_thread \in {NoThread, t}
    BY <1>1 DEF Inv, ExchangePaired
  <2>3. \A u \in Threads : u # t => p_state[u] # "SUSPENDED"
    BY <1>1, <2>2, NobodyIsNone DEF Inv, ExchangePaired
  <2>4. \A u \in Threads : p_state'[u] = "SUSPENDED" <=> u = t
    BY <1>1, <2>3 DEF Runnable
  <2> QED BY <1>1, <2>1, <2>4 DEF ExchangePaired
<1> QED BY <1>1, <1>2 DEF Inv

LEMMA SleepKeeps ==
    ASSUME Inv, NEW t \in Threads, Sleep(t)
    PROVE  Inv'
<1>1. /\ Calls(t, "sleep") /\ GoSleep("SLEEPING") /\ GoesOn(t)
      /\ UNCHANGED <<p_prio, p_mtxlist, m_owner, m_queue, walk>> /\ UNCHANGED <<spi_state, spi_thread>>
  BY DEF Sleep, spiVars
<1>2. spi_state' \in {"READY", "ACTIVE"} /\ spi_thread' \in Threads \cup {NoThread}
  BY <1>1 DEF Inv, Types
<1>3. /\ Types' /\ SchedKept' /\ QueuesKept' /\ OwnersKept' /\ WalkKept' /\ p_state[t] = "CURRENT"
      /\ \A u \in Threads : IF u = t THEN p_state'[u] = "SLEEPING"
                            ELSE IF p_state[u] \in Runnable THEN p_state'[u] \in Runnable
                            ELSE p_state'[u] = p_state[u]
  <2>1. "SLEEPING" \in {"SUSPENDED", "SLEEPING"} /\ "sleep" \notin {"lock", "unlock"}
    OBVIOUS
  <2> QED BY <1>1, <1>2, <2>1, LeavesKeeps
<1>4. ExchangePaired'
  <2>1. \A u \in Threads : p_state'[u] = "SUSPENDED" <=> p_state[u] = "SUSPENDED"
    BY <1>3 DEF Runnable
  <2> QED BY <1>1, <2>1 DEF Inv, ExchangePaired
<1> QED BY <1>3, <1>4 DEF Inv

\* An interrupt makes a thread ready that waits for no mutex.
LEMMA WakeKeeps ==
    ASSUME Inv, NEW t \in Threads, p_state[t] \in {"SUSPENDED", "SLEEPING"}, ReadyAndReschedule(t, p_prio),
           UNCHANGED <<p_prio, p_mtxlist, m_owner, m_queue, walk, place>>, walk = NoWalk,
           spi_state' \in {"READY", "ACTIVE"}, spi_thread' \in Threads \cup {NoThread}
    PROVE  /\ Types' /\ SchedKept' /\ QueuesKept' /\ OwnersKept' /\ WalkKept'
           /\ \A u \in Threads : IF u = t \/ p_state[u] \in Runnable THEN p_state'[u] \in Runnable
                                 ELSE p_state'[u] = p_state[u]
<1>1. Types /\ SchedKept /\ QueuesKept /\ OwnersKept
  BY DEF Inv
<1>2. /\ current' \in Threads /\ p_state' \in [Threads -> States]
      /\ Listed' /\ InOrder(rlist', p_prio)
      /\ \A u \in Range(rlist') : p_prio[current'] >= p_prio[u]
      /\ \A u \in Threads : IF u = t \/ p_state[u] \in Runnable THEN p_state'[u] \in Runnable
                            ELSE p_state'[u] = p_state[u]
  <2>1. Listed /\ InOrder(rlist, p_prio) /\ p_state[t] \notin Runnable /\ p_prio \in [Threads -> Nat]
    BY <1>1, PriosAreNat DEF SchedKept, Runnable
  <2> QED BY <1>1, <2>1, Rescheduled
<1>3. \A u \in Threads : p_state[u] = "WTMTX" <=> p_state'[u] = "WTMTX"
  BY <1>2 DEF Runnable
<1>4. Types'
  BY <1>1, <1>2 DEF Types, KernelTypeOK, InOrder, place
<1>5. SchedKept'
  BY <1>2 DEF SchedKept
<1>6. QueuesKept'
  BY <1>1, <1>3, QueuesSame DEF place
<1>7. OwnersKept'
  BY <1>1, <1>3, OwnersSame
<1>8. WalkKept'
  BY DEF WalkKept, Walking
<1> QED BY <1>2, <1>4, <1>5, <1>6, <1>7, <1>8

LEMMA DmaInterruptKeeps ==
    ASSUME Inv, DmaInterrupt
    PROVE  Inv'
<1>1. /\ spi_thread \in Threads /\ p_state[spi_thread] = "SUSPENDED" /\ spi_thread # NoThread
      /\ ReadyAndReschedule(spi_thread, p_prio) /\ spi_thread' = NoThread /\ spi_state' = "READY"
      /\ UNCHANGED <<p_prio, p_mtxlist, m_owner, m_queue, walk, place>> /\ walk = NoWalk
  BY DEF DmaInterrupt, Inv, Types, ExchangePaired, Unlocked, Walking
<1>2. /\ Types' /\ SchedKept' /\ QueuesKept' /\ OwnersKept' /\ WalkKept'
      /\ \A u \in Threads : IF u = spi_thread \/ p_state[u] \in Runnable THEN p_state'[u] \in Runnable
                            ELSE p_state'[u] = p_state[u]
  BY <1>1, WakeKeeps
<1>3. ExchangePaired'
  <2>1. \A u \in Threads : p_state'[u] # "SUSPENDED"
    BY <1>2 DEF Inv, ExchangePaired, Runnable
  <2> QED BY <1>1, <2>1, NobodyIsNone DEF ExchangePaired
<1> QED BY <1>2, <1>3 DEF Inv

LEMMA TimerInterruptKeeps ==
    ASSUME Inv, NEW t \in Threads, TimerInterrupt(t)
    PROVE  Inv'
<1>1. /\ p_state[t] = "SLEEPING" /\ ReadyAndReschedule(t, p_prio) /\ walk = NoWalk
      /\ UNCHANGED <<p_prio, p_mtxlist, m_owner, m_queue, walk, place>> /\ UNCHANGED <<spi_state, spi_thread>>
  BY DEF TimerInterrupt, Unlocked, Walking, spiVars
<1>2. spi_state' \in {"READY", "ACTIVE"} /\ spi_thread' \in Threads \cup {NoThread}
  BY <1>1 DEF Inv, Types
<1>3. /\ Types' /\ SchedKept' /\ QueuesKept' /\ OwnersKept' /\ WalkKept'
      /\ \A u \in Threads : IF u = t \/ p_state[u] \in Runnable THEN p_state'[u] \in Runnable
                            ELSE p_state'[u] = p_state[u]
  BY <1>1, <1>2, WakeKeeps
<1>4. ExchangePaired'
  <2>1. \A u \in Threads : p_state'[u] = "SUSPENDED" <=> p_state[u] = "SUSPENDED"
    BY <1>1, <1>3 DEF Runnable
  <2> QED BY <1>1, <2>1 DEF Inv, ExchangePaired
<1> QED BY <1>3, <1>4 DEF Inv

-----------------------------------------------------------------------------
(* The walk.                                                                *)

\* A thread waits for one mutex.
LEMMA WaitsForOne ==
    ASSUME QueuesKept, NEW t \in Threads, p_state[t] = "WTMTX"
    PROVE  /\ WaitsFor(t) \in Mutexes /\ t \in Range(m_queue[WaitsFor(t)])
           /\ \A m \in Mutexes : t \in Range(m_queue[m]) => m = WaitsFor(t)
<1>1. \E m \in Mutexes : t \in Range(m_queue[m])
  BY DEF QueuesKept
<1>2. WaitsFor(t) \in Mutexes /\ t \in Range(m_queue[WaitsFor(t)])
  BY <1>1 DEF WaitsFor
<1>3. ASSUME NEW m \in Mutexes, t \in Range(m_queue[m]) PROVE m = WaitsFor(t)
  <2>1. script[t][ip[t] - 1] = <<"lock", m>> /\ script[t][ip[t] - 1] = <<"lock", WaitsFor(t)>>
    BY <1>2, <1>3 DEF QueuesKept
  <2> QED BY <2>1
<1> QED BY <1>2, <1>3

\* A boosted thread's new place: the lists keep their order under the new
\* priorities, and their members.
LEMMA Boosted ==
    ASSUME Inv, NEW tp \in Threads, NEW prio \in [Threads -> Nat],
           \A u \in Threads \ {tp} : prio[u] = p_prio[u]
    PROVE  /\ InOrder(Relisted(tp, prio), prio) /\ Range(Relisted(tp, prio)) = Range(rlist)
           /\ Requeued(tp, prio) \in [Mutexes -> Seq(Threads)]
           /\ \A m \in Mutexes : /\ InOrder(Requeued(tp, prio)[m], prio)
                                 /\ Range(Requeued(tp, prio)[m]) = Range(m_queue[m])
<1>1. Types /\ SchedKept /\ QueuesKept
  BY DEF Inv
<1>2. m_queue \in [Mutexes -> Seq(Threads)]
  BY <1>1 DEF Types, KernelTypeOK
<1>3. ASSUME NEW q, InOrder(q, p_prio), tp \notin Range(q) PROVE InOrder(q, prio)
  <2>1. \A u \in Range(q) : prio[u] = p_prio[u]
    BY <1>3 DEF InOrder, Range
  <2> QED BY <1>3, <2>1, SameOrder
<1>4. ASSUME NEW q, InOrder(q, p_prio), tp \in Range(q)
      PROVE  InOrder(Behind(Without(q, tp), tp, prio), prio) /\ Range(Behind(Without(q, tp), tp, prio)) = Range(q)
  <2>1. InOrder(Without(q, tp), prio) /\ Range(Without(q, tp)) = Range(q) \ {tp}
    BY <1>4, WithoutInOrder
  <2>2. /\ InOrder(Behind(Without(q, tp), tp, prio), prio)
        /\ Range(Behind(Without(q, tp), tp, prio)) = Range(Without(q, tp)) \cup {tp}
    BY <2>1, BehindInOrder
  <2> QED BY <1>4, <2>1, <2>2
<1>5. InOrder(Relisted(tp, prio), prio) /\ Range(Relisted(tp, prio)) = Range(rlist)
  <2>1. InOrder(rlist, p_prio) /\ (tp \in Range(rlist) <=> p_state[tp] = "READY")
    BY <1>1 DEF SchedKept, Listed
  <2> QED BY <1>3, <1>4, <2>1 DEF Relisted
<1>6. CASE p_state[tp] # "WTMTX"
  <2>1. Requeued(tp, prio) = m_queue /\ \A m \in Mutexes : tp \notin Range(m_queue[m])
    BY <1>1, <1>6 DEF Requeued, QueuesKept
  <2>2. \A m \in Mutexes : InOrder(m_queue[m], prio)
    BY <1>1, <1>3, <2>1 DEF QueuesKept
  <2> QED BY <1>2, <1>5, <2>1, <2>2
<1>7. CASE p_state[tp] = "WTMTX"
  <2> DEFINE w == WaitsFor(tp)
             new == Behind(Without(m_queue[w], tp), tp, prio)
  <2>1. w \in Mutexes /\ tp \in Range(m_queue[w]) /\ \A m \in Mutexes : tp \in Range(m_queue[m]) => m = w
    BY <1>1, <1>7, WaitsForOne
  <2>2. InOrder(new, prio) /\ Range(new) = Range(m_queue[w])
    BY <1>1, <1>4, <2>1 DEF QueuesKept
  <2>3. Requeued(tp, prio) = [m_queue EXCEPT ![w] = new]
    BY <1>7 DEF Requeued
  <2> HIDE DEF w, new
  <2>4. \A m \in Mutexes : Requeued(tp, prio)[m] = IF m = w THEN new ELSE m_queue[m]
    BY <1>2, <2>1, <2>3
  <2>5. \A m \in Mutexes : m # w => InOrder(m_queue[m], prio)
    BY <1>1, <1>3, <2>1 DEF QueuesKept
  <2>6. Requeued(tp, prio) \in [Mutexes -> Seq(Threads)]
    BY <1>2, <2>2, <2>3 DEF InOrder
  <2> QED BY <1>5, <2>2, <2>4, <2>5, <2>6
<1> QED BY <1>6, <1>7

\* What one turn of the loop does.
Walks(t, tp) ==
    /\ current = t /\ walk # NoWalk /\ tp \in Threads /\ tp # t /\ p_prio[tp] < p_prio[t]
    /\ p_prio' \in [Threads -> 0..HIGHPRIO] /\ p_prio' \in [Threads -> Nat]
    /\ p_prio'[tp] = p_prio[t] /\ \A u \in Threads \ {tp} : p_prio'[u] = p_prio[u]
    /\ rlist' = Relisted(tp, p_prio') /\ m_queue' = Requeued(tp, p_prio')
    /\ walk' # NoWalk /\ walk'[1] = walk[1] /\ walk'[2] = NextOwner(tp)
    /\ walk' \in Mutexes \X (Threads \cup {NoThread}) /\ walk[1] \in Mutexes
    /\ UNCHANGED <<current, p_state, p_mtxlist, m_owner, script, ip, spi_state, spi_thread>>

LEMMA WalkDoes ==
    ASSUME Inv, NEW t \in Threads, WalkOn(t), NEW tp, tp = walk[2]
    PROVE  Walks(t, tp)
<1>1. /\ current = t /\ walk # NoWalk /\ tp # NoThread /\ p_prio[tp] < p_prio[t]
      /\ p_prio' = [p_prio EXCEPT ![tp] = p_prio[t]]
      /\ rlist' = Relisted(tp, p_prio') /\ m_queue' = Requeued(tp, p_prio')
      /\ walk' = [walk EXCEPT ![2] = NextOwner(tp)]
      /\ UNCHANGED <<current, p_state, p_mtxlist, m_owner, script, ip, spi_state, spi_thread>>
  BY DEF WalkOn, Walk, Walking, place, spiVars
<1>2. Types /\ QueuesKept
  BY DEF Inv
<1>3. walk \in Mutexes \X (Threads \cup {NoThread}) /\ p_prio \in [Threads -> 0..HIGHPRIO]
      /\ p_prio \in [Threads -> Nat]
  BY <1>1, <1>2, PriosAreNat DEF Types, KernelTypeOK
<1>4. tp \in Threads /\ walk[1] \in Mutexes /\ walk = <<walk[1], walk[2]>>
  BY <1>1, <1>3
<1>5. NextOwner(tp) \in Threads \cup {NoThread}
  BY <1>2, <1>4, WaitsForOne DEF NextOwner, Types, KernelTypeOK
<1>6. walk' = <<walk[1], NextOwner(tp)>>
  BY <1>1, <1>4
<1>7. tp # t
  BY <1>1, <1>3, <1>4
<1>8. p_prio' \in [Threads -> 0..HIGHPRIO] /\ p_prio' \in [Threads -> Nat]
      /\ p_prio'[tp] = p_prio[t] /\ \A u \in Threads \ {tp} : p_prio'[u] = p_prio[u]
  BY <1>1, <1>3, <1>4
<1> QED BY <1>1, <1>4, <1>5, <1>6, <1>7, <1>8 DEF NoWalk, Walks

LEMMA WalkOnKeeps ==
    ASSUME Inv, NEW t \in Threads, WalkOn(t)
    PROVE  Inv'
<1> DEFINE tp == walk[2]
<1>1. Walks(t, tp)
  BY WalkDoes
<1> USE DEF Walks
<1> HIDE DEF tp
<1>2. /\ InOrder(rlist', p_prio') /\ Range(rlist') = Range(rlist)
      /\ m_queue' \in [Mutexes -> Seq(Threads)]
      /\ \A m \in Mutexes : InOrder(m_queue'[m], p_prio') /\ Range(m_queue'[m]) = Range(m_queue[m])
  BY <1>1, Boosted
<1>3. Types /\ SchedKept /\ QueuesKept /\ OwnersKept /\ WalkKept /\ ExchangePaired
  BY DEF Inv
<1>4. Types'
  BY <1>1, <1>2, <1>3 DEF Types, KernelTypeOK, InOrder
<1>5. SchedKept'
  <2>1. \A u \in Range(rlist) : u \in Threads /\ p_prio[t] >= p_prio[u]
    <3>1. \A u \in Range(rlist) : u \in Threads
      BY <1>3 DEF SchedKept, InOrder, Range
    <3> QED BY <1>1, <1>3, <3>1, NobodyIsNone DEF SchedKept
  <2>2. \A u \in Range(rlist) : p_prio'[t] >= p_prio'[u]
    BY <1>1, <2>1
  <2>3. Listed'
    BY <1>1, <1>2, <1>3, NobodyIsNone DEF SchedKept, Listed
  <2> QED BY <1>1, <1>2, <2>2, <2>3 DEF SchedKept
<1>6. QueuesKept'
  BY <1>1, <1>2, <1>3 DEF QueuesKept
<1>7. OwnersKept'
  BY <1>1, <1>3, OwnersSame DEF place
<1>8. WalkKept'
  BY <1>1, <1>3 DEF WalkKept, Walking, Op
<1>9. ExchangePaired'
  BY <1>1, <1>3 DEF ExchangePaired
<1> QED BY <1>4, <1>5, <1>6, <1>7, <1>8, <1>9 DEF Inv

\* At its end the thread, which does not own the mutex it wants, waits.
Waits(t, m) ==
    /\ current = t /\ walk # NoWalk /\ m \in Mutexes /\ m_owner[m] \notin {NoThread, t}
    /\ p_state[t] = "CURRENT" /\ \A n \in Mutexes : t \notin Range(m_queue[n])
    /\ script[t][ip[t]] = <<"lock", m>> /\ ip[t] \in 1..Len(script[t]) /\ Len(script[t]) \in Nat
    /\ InOrder(m_queue'[m], p_prio) /\ Range(m_queue'[m]) = Range(m_queue[m]) \cup {t}
    /\ \A n \in Mutexes : n # m => m_queue'[n] = m_queue[n]
    /\ m_queue' \in [Mutexes -> Seq(Threads)]
    /\ walk' = NoWalk /\ GoSleep("WTMTX") /\ GoesOn(t)
    /\ UNCHANGED <<p_prio, p_mtxlist, m_owner, spi_state, spi_thread>>

LEMMA SleepDoes ==
    ASSUME Inv, NEW t \in Threads, LockSleeps(t), NEW m, m = walk[1]
    PROVE  Waits(t, m)
<1>1. /\ current = t /\ walk # NoWalk /\ walk' = NoWalk /\ GoSleep("WTMTX") /\ GoesOn(t)
      /\ m_queue' = [m_queue EXCEPT ![m] = Behind(@, t, p_prio)]
      /\ UNCHANGED <<p_prio, p_mtxlist, m_owner, spi_state, spi_thread>>
  BY DEF LockSleeps, SleepOnMutex, Walking, spiVars
<1>2. Types /\ SchedKept /\ QueuesKept /\ OwnersKept /\ WalkKept
  BY DEF Inv
<1>3. /\ ip[t] <= Len(script[t]) /\ script[t][ip[t]] = <<"lock", m>> /\ m_owner[m] # NoThread
  BY <1>1, <1>2 DEF WalkKept, Walking, Op
<1>4. m \in Mutexes /\ m_queue \in [Mutexes -> Seq(Threads)] /\ p_prio \in [Threads -> Nat]
  BY <1>1, <1>2, PriosAreNat DEF Types, KernelTypeOK
<1>5. p_state[t] = "CURRENT"
  BY <1>1, <1>2 DEF SchedKept, Listed
<1>6. \A n \in Mutexes : t \notin Range(m_queue[n])
  BY <1>2, <1>5 DEF QueuesKept
<1>7. Good(script[t]) /\ Len(script[t]) \in Nat /\ DOMAIN script[t] = 1..Len(script[t])
  BY <1>2, ScriptsAreGood
<1>8. ip[t] \in 1..(Len(script[t]) + 1) /\ Matches(p_mtxlist[t], script[t], ip[t] - 1)
  BY <1>2, <1>5 DEF OwnersKept, Done
<1>9. ip[t] \in DOMAIN script[t]
  BY <1>3, <1>7, <1>8
<1>10. m \notin Range(p_mtxlist[t])
  <2>1. script[t][ip[t]][1] = "lock" /\ script[t][ip[t]][2] = m
    BY <1>3
  <2>2. script[t][ip[t]][2] \notin Range(p_mtxlist[t])
    BY <1>7, <1>8, <1>9, <2>1, LockMatches
  <2> QED BY <2>1, <2>2
<1>11. m_owner[m] # t
  BY <1>2, <1>4, <1>10 DEF OwnersKept
<1>12. InOrder(Behind(m_queue[m], t, p_prio), p_prio)
       /\ Range(Behind(m_queue[m], t, p_prio)) = Range(m_queue[m]) \cup {t}
  BY <1>2, <1>4, <1>6, BehindInOrder DEF QueuesKept
<1>13. /\ m_queue'[m] = Behind(m_queue[m], t, p_prio) /\ \A n \in Mutexes : n # m => m_queue'[n] = m_queue[n]
       /\ m_queue' \in [Mutexes -> Seq(Threads)]
  BY <1>1, <1>4, <1>12 DEF InOrder
<1> QED BY <1>1, <1>3, <1>4, <1>5, <1>6, <1>7, <1>9, <1>11, <1>12, <1>13 DEF Waits

LEMMA LockSleepsKeeps ==
    ASSUME Inv, NEW t \in Threads, LockSleeps(t)
    PROVE  Inv'
<1> DEFINE m == walk[1]
           k == ip[t]
<1>1. Waits(t, m)
  BY SleepDoes
<1> USE DEF Waits
<1>2. Types /\ SchedKept /\ QueuesKept /\ OwnersKept /\ ExchangePaired
  BY DEF Inv
<1>3. /\ ip' \in [Threads -> Nat] /\ ip'[t] = k + 1 /\ script' = script
      /\ \A u \in Threads \ {t} : ip'[u] = ip[u]
  BY <1>1, <1>2, WentOn
<1> HIDE DEF m, k
<1>4. /\ current' \in Threads \cup {NoThread} /\ p_state' \in [Threads -> States]
      /\ Listed' /\ InOrder(rlist', p_prio)
      /\ current' # NoThread => \A u \in Range(rlist') : p_prio[current'] >= p_prio[u]
      /\ p_state'[t] = "WTMTX"
      /\ \A u \in Threads : IF u = t THEN p_state'[u] = "WTMTX"
                            ELSE IF p_state[u] \in Runnable THEN p_state'[u] \in Runnable
                            ELSE p_state'[u] = p_state[u]
  <2>1. "WTMTX" \in States /\ "WTMTX" \notin Runnable
    BY DEF States, Runnable
  <2> QED BY <1>1, <1>2, <2>1, Slept
<1>5. \A u \in Threads : p_state'[u] = "WTMTX" <=> u = t \/ p_state[u] = "WTMTX"
  BY <1>4 DEF Runnable
<1>6. Types'
  BY <1>1, <1>2, <1>3, <1>4 DEF Types, KernelTypeOK, InOrder
<1>7. SchedKept'
  BY <1>1, <1>4 DEF SchedKept
<1>8. QueuesKept'
  <2>1. \A n \in Mutexes : InOrder(m_queue'[n], p_prio')
    BY <1>1, <1>2 DEF QueuesKept
  <2>2. \A u \in Threads : p_state'[u] = "WTMTX" => \E n \in Mutexes : u \in Range(m_queue'[n])
    <3>1. t \in Range(m_queue'[m])
      BY <1>1
    <3>2. ASSUME NEW u \in Threads, p_state[u] = "WTMTX" PROVE \E n \in Mutexes : u \in Range(m_queue'[n])
      BY <1>1, <1>2, <3>2 DEF QueuesKept
    <3> QED BY <1>1, <1>5, <3>1, <3>2
  <2>3. ASSUME NEW n \in Mutexes, NEW u \in Range(m_queue'[n])
        PROVE  /\ p_state'[u] = "WTMTX" /\ m_owner'[n] \notin {NoThread, u}
               /\ ip'[u] >= 2 /\ script'[u][ip'[u] - 1] = <<"lock", n>>
    <3>1. CASE u \in Range(m_queue[n])
      <4>1. /\ p_state[u] = "WTMTX" /\ m_owner[n] \notin {NoThread, u}
            /\ ip[u] >= 2 /\ script[u][ip[u] - 1] = <<"lock", n>>
        BY <1>2, <3>1 DEF QueuesKept
      <4>2. u \in Threads /\ u # t
        BY <1>1, <1>2, <3>1 DEF QueuesKept, InOrder, Range
      <4> QED BY <1>1, <1>3, <1>5, <4>1, <4>2
    <3>2. CASE u \notin Range(m_queue[n])
      <4>1. n = m /\ u = t
        BY <1>1, <2>3, <3>2
      <4>2. ip'[t] >= 2 /\ ip'[t] - 1 = k
        BY <1>1, <1>3 DEF k
      <4> QED BY <1>1, <1>3, <1>4, <4>1, <4>2 DEF k
    <3> QED BY <3>1, <3>2
  <2> QED BY <2>1, <2>2, <2>3 DEF QueuesKept
<1>9. OwnersKept'
  <2>1. \A u \in Threads \ {t} : /\ p_mtxlist'[u] = p_mtxlist[u] /\ script'[u] = script[u] /\ ip'[u] = ip[u]
                                 /\ p_state'[u] = "WTMTX" <=> p_state[u] = "WTMTX"
    BY <1>1, <1>3, <1>5
  <2>2. \A n \in Mutexes, u \in Threads : m_owner'[n] = u <=> n \in Range(p_mtxlist'[u])
    BY <1>1, <1>2 DEF OwnersKept
  <2>3. ip'[t] \in 1..(Len(script'[t]) + 1)
    BY <1>1, <1>3 DEF k
  <2>4. Matches(p_mtxlist'[t], script'[t], Done(t)')
    <3>1. Done(t) = k - 1 /\ Done(t)' = k - 1
      BY <1>1, <1>3, <1>4 DEF Done, k
    <3> QED BY <3>1, <1>1, <1>2, <1>3 DEF OwnersKept
  <2> QED BY <1>2, <2>1, <2>2, <2>3, <2>4, OthersOwn
<1>10. WalkKept'
  BY <1>1 DEF WalkKept, Walking
<1>11. ExchangePaired'
  <2>1. \A u \in Threads : p_state'[u] = "SUSPENDED" <=> p_state[u] = "SUSPENDED"
    BY <1>1, <1>4 DEF Runnable
  <2> QED BY <1>1, <1>2, <2>1 DEF ExchangePaired
<1> QED BY <1>6, <1>7, <1>8, <1>9, <1>10, <1>11 DEF Inv

-----------------------------------------------------------------------------
(* The mutex is handed over.                                                *)

LEMMA Highest ==
    ASSUME NEW S, S \subseteq 0..HIGHPRIO, S # {}
    PROVE  \E p \in S : \A q \in S : q <= p
<1> DEFINE D == {127 - p : p \in S}
<1>1. \A p \in S : p \in 0..127 /\ 127 - p \in Nat
  BY DEF HIGHPRIO
<1>2. D \subseteq Nat /\ D # {}
  BY <1>1
<1>3. PICK d \in D : \A e \in D : d <= e
  <2> HIDE DEF D
  <2> QED BY <1>2, Least
<1>4. PICK p \in S : d = 127 - p
  OBVIOUS
<1>5. \A q \in S : 127 - q \in D
  OBVIOUS
<1>6. ASSUME NEW q \in S PROVE q <= p
  <2>1. 127 - p <= 127 - q
    BY <1>3, <1>4, <1>5
  <2>2. p \in 0..127 /\ q \in 0..127
    BY <1>1
  <2> QED BY <2>1, <2>2
<1> QED BY <1>6

\* The priority that is left is what the mutexes in list ask for.
Asked(t, list, r) ==
    /\ r >= RealPrio[t] /\ \A m \in Range(list) : \A u \in Range(m_queue[m]) : r >= p_prio[u]
    /\ r = RealPrio[t] \/ \E m \in Range(list) : \E u \in Range(m_queue[m]) : r = p_prio[u]

LEMMA RecalculatedIs ==
    ASSUME Types, QueuesKept, NEW t \in Threads, NEW list \in Seq(Mutexes), NEW r, r = Recalculated(t, list)
    PROVE  r \in 0..HIGHPRIO /\ Asked(t, list, r)
<1> DEFINE waited == {n \in Range(list) : m_queue[n] # << >>}
           heads == {p_prio[Head(m_queue[m])] : m \in waited}
           all == heads \cup {RealPrio[t]}
<1>1. Range(list) \subseteq Mutexes /\ p_prio \in [Threads -> Nat] /\ p_prio \in [Threads -> 0..HIGHPRIO]
      /\ RealPrio[t] \in 0..HIGHPRIO
  BY PriosAreNat, KernelAssumption DEF Types, KernelTypeOK, Range
<1>2. \A m \in Range(list) : InOrder(m_queue[m], p_prio)
  BY <1>1 DEF QueuesKept
<1>3. \A m \in waited : /\ Head(m_queue[m]) \in Threads /\ Head(m_queue[m]) \in Range(m_queue[m])
                        /\ \A u \in Range(m_queue[m]) : u \in Threads /\ p_prio[Head(m_queue[m])] >= p_prio[u]
  BY <1>1, <1>2, HeadOfOrder
<1> HIDE DEF waited
<1>4. all \subseteq 0..HIGHPRIO /\ all # {}
  BY <1>1, <1>3
<1>5. r = CHOOSE p \in all : \A q \in all : q <= p
  BY DEF Recalculated, waited
<1>6. r \in all /\ \A q \in all : q <= r
  <2> HIDE DEF all
  <2>1. \E p \in all : \A q \in all : q <= p
    BY <1>4, Highest
  <2> QED BY <1>5, <2>1
<1>7. r \in 0..HIGHPRIO /\ r >= RealPrio[t] /\ r \in Nat
  <2>1. RealPrio[t] \in all /\ RealPrio[t] \in 0..127
    BY <1>1 DEF HIGHPRIO
  <2> HIDE DEF all
  <2>2. RealPrio[t] <= r /\ r \in 0..HIGHPRIO
    BY <1>4, <1>6, <2>1
  <2>3. r \in 0..127
    BY <2>2 DEF HIGHPRIO
  <2>4. r >= RealPrio[t] /\ r \in Nat
    BY <2>1, <2>2, <2>3
  <2> QED BY <2>2, <2>4
<1>8. ASSUME NEW m \in Range(list), NEW u \in Range(m_queue[m]) PROVE r >= p_prio[u]
  <2>1. m \in waited
    BY <1>8, EmptyInOrder DEF waited
  <2>2. p_prio[Head(m_queue[m])] <= r
    BY <1>6, <2>1
  <2>3. /\ Head(m_queue[m]) \in Threads /\ u \in Threads /\ p_prio[Head(m_queue[m])] >= p_prio[u]
    BY <1>3, <2>1
  <2>4. p_prio[Head(m_queue[m])] \in Nat /\ p_prio[u] \in Nat
    BY <1>1, <2>3
  <2> QED BY <1>7, <2>2, <2>3, <2>4
<1>9. r = RealPrio[t] \/ \E m \in waited : r = p_prio[Head(m_queue[m])]
  BY <1>6
<1>10. r = RealPrio[t] \/ \E m \in Range(list) : \E u \in Range(m_queue[m]) : r = p_prio[u]
  BY <1>3, <1>9 DEF waited
<1> QED BY <1>7, <1>8, <1>10 DEF Asked

Passes(t, m, w, r) ==
    /\ current = t /\ walk = NoWalk /\ p_state[t] = "CURRENT" /\ t \notin Range(rlist)
    /\ \A n \in Mutexes : t \notin Range(m_queue[n])
    /\ m \in Mutexes /\ m_owner[m] = t /\ m_owner' = [m_owner EXCEPT ![m] = w]
    /\ w \in Threads /\ w # t /\ p_state[w] = "WTMTX" /\ w \in Range(m_queue[m])
    /\ \A u \in Range(m_queue[m]) : u \in Threads /\ p_prio[w] >= p_prio[u]
    /\ script[w][ip[w] - 1] = <<"lock", m>> /\ ip[w] >= 2
    /\ Tail(p_mtxlist[t]) \in Seq(Mutexes) /\ Range(Tail(p_mtxlist[t])) = Range(p_mtxlist[t]) \ {m}
    /\ Matches(Tail(p_mtxlist[t]), script[t], ip[t])
    /\ ip[t] + 1 \in 1..(Len(script[t]) + 1) /\ ip[t] \in Nat
    /\ \A u \in Threads : p_mtxlist'[u] = IF u = t THEN Tail(p_mtxlist[t])
                                          ELSE IF u = w THEN <<m>> \o p_mtxlist[w] ELSE p_mtxlist[u]
    /\ p_mtxlist' \in [Threads -> Seq(Mutexes)]
    /\ p_prio' \in [Threads -> 0..HIGHPRIO] /\ p_prio' \in [Threads -> Nat]
    /\ p_prio'[t] = r /\ \A u \in Threads \ {t} : p_prio'[u] = p_prio[u]
    /\ m_queue' \in [Mutexes -> Seq(Threads)]
    /\ \A n \in Mutexes : /\ InOrder(m_queue'[n], p_prio')
                          /\ Range(m_queue'[n]) = IF n = m THEN Range(m_queue[m]) \ {w} ELSE Range(m_queue[n])
    /\ ReadyAndReschedule(w, p_prio') /\ GoesOn(t) /\ UNCHANGED <<walk, spi_state, spi_thread>>

LEMMA PassDoes ==
    ASSUME Inv, NEW t \in Threads, UnlockPass(t),
           NEW m, m = Op(t)[2], NEW w, w = Head(m_queue[m]), NEW r, r = Recalculated(t, Tail(p_mtxlist[t]))
    PROVE  Passes(t, m, w, r)
<1> DEFINE k == ip[t]
           rest == Tail(p_mtxlist[t])
<1>1. Calls(t, "unlock") /\ PassMutex(m) /\ GoesOn(t) /\ UNCHANGED <<spi_state, spi_thread>>
  BY DEF UnlockPass, spiVars
<1>2. /\ current = t /\ t # NoThread /\ p_state[t] = "CURRENT" /\ walk = NoWalk
      /\ t \notin Range(rlist) /\ \A n \in Mutexes : t \notin Range(m_queue[n])
      /\ Good(script[t]) /\ k \in DOMAIN script[t] /\ k \in Nat
      /\ k + 1 \in 1..(Len(script[t]) + 1)
      /\ Op(t) = script[t][k] /\ script[t][k][1] = "unlock" /\ Matches(p_mtxlist[t], script[t], k - 1)
  BY <1>1, Caller
<1>3. /\ m \in Mutexes /\ m \in Range(p_mtxlist[t]) /\ Matches(rest, script[t], k)
      /\ rest \in Seq(Mutexes) /\ Range(rest) = Range(p_mtxlist[t]) \ {m}
  BY <1>2, UnlockMatches
<1>4. /\ m_queue[m] # << >> /\ m_owner' = [m_owner EXCEPT ![m] = w]
      /\ m_queue' = [m_queue EXCEPT ![m] = Tail(@)]
      /\ p_mtxlist' = [p_mtxlist EXCEPT ![t] = rest, ![w] = <<m>> \o @]
      /\ p_prio' = [p_prio EXCEPT ![t] = r]
      /\ ReadyAndReschedule(w, p_prio') /\ UNCHANGED walk
  BY <1>1, <1>2 DEF PassMutex
<1>5. Types /\ SchedKept /\ QueuesKept /\ OwnersKept
  BY DEF Inv
<1> HIDE DEF rest, k
<1>6. /\ p_prio \in [Threads -> 0..HIGHPRIO] /\ p_prio \in [Threads -> Nat]
      /\ m_queue \in [Mutexes -> Seq(Threads)] /\ p_mtxlist \in [Threads -> Seq(Mutexes)]
  BY <1>5, PriosAreNat DEF Types, KernelTypeOK
<1>7. /\ w \in Threads /\ w \in Range(m_queue[m])
      /\ \A u \in Range(m_queue[m]) : u \in Threads /\ p_prio[w] >= p_prio[u]
      /\ InOrder(Tail(m_queue[m]), p_prio) /\ Range(Tail(m_queue[m])) = Range(m_queue[m]) \ {w}
  BY <1>3, <1>4, <1>5, <1>6, HeadOfOrder DEF QueuesKept
<1>8. /\ w # t /\ p_state[w] = "WTMTX" /\ script[w][ip[w] - 1] = <<"lock", m>> /\ ip[w] >= 2 /\ m_owner[m] = t
  <2>1. p_state[w] = "WTMTX" /\ script[w][ip[w] - 1] = <<"lock", m>> /\ ip[w] >= 2
    BY <1>3, <1>5, <1>7 DEF QueuesKept
  <2>2. m_owner[m] = t
    BY <1>3, <1>5 DEF OwnersKept
  <2> QED BY <1>2, <1>3, <1>7, <2>1, <2>2
<1>9. r \in 0..HIGHPRIO
  BY <1>3, <1>5, RecalculatedIs DEF rest
<1>10. /\ p_prio' \in [Threads -> 0..HIGHPRIO] /\ p_prio' \in [Threads -> Nat]
       /\ p_prio'[t] = r /\ \A u \in Threads \ {t} : p_prio'[u] = p_prio[u]
  <2>1. r \in Nat
    BY <1>9 DEF HIGHPRIO
  <2> QED BY <1>4, <1>6, <1>9, <2>1
<1>11. <<m>> \o p_mtxlist[w] \in Seq(Mutexes)
  BY <1>3, <1>6, <1>7
<1>12. /\ p_mtxlist' \in [Threads -> Seq(Mutexes)]
       /\ \A u \in Threads : p_mtxlist'[u] = IF u = t THEN rest
                                             ELSE IF u = w THEN <<m>> \o p_mtxlist[w] ELSE p_mtxlist[u]
  BY <1>3, <1>4, <1>6, <1>7, <1>8, <1>11
<1>13. ASSUME NEW n \in Mutexes
       PROVE  /\ InOrder(m_queue'[n], p_prio')
              /\ Range(m_queue'[n]) = IF n = m THEN Range(m_queue[m]) \ {w} ELSE Range(m_queue[n])
  <2>1. m_queue'[n] = IF n = m THEN Tail(m_queue[m]) ELSE m_queue[n]
    BY <1>4, <1>6
  <2>2. InOrder(m_queue'[n], p_prio)
    BY <1>5, <1>7, <2>1 DEF QueuesKept
  <2>3. \A u \in Range(m_queue'[n]) : u \in Threads /\ u # t
    BY <1>2, <1>7, <2>1, <2>2 DEF InOrder, Range
  <2>4. \A u \in Range(m_queue'[n]) : p_prio'[u] = p_prio[u]
    BY <1>10, <2>3
  <2>5. InOrder(m_queue'[n], p_prio')
    BY <2>2, <2>4, SameOrder
  <2> QED BY <1>7, <2>1, <2>5
<1>14. m_queue' \in [Mutexes -> Seq(Threads)]
  BY <1>4, <1>6, <1>7 DEF InOrder
<1> QED BY <1>1, <1>2, <1>3, <1>4, <1>7, <1>8, <1>10, <1>12, <1>13, <1>14 DEF rest, k, Passes

LEMMA PassKeeps ==
    ASSUME Inv, NEW t \in Threads, NEW m, NEW w, NEW r, Passes(t, m, w, r)
    PROVE  Inv'
<1> DEFINE rest == Tail(p_mtxlist[t])
<1>1. Passes(t, m, w, r)
  OBVIOUS
<1> USE DEF Passes
<1>2. Types /\ SchedKept /\ QueuesKept /\ OwnersKept /\ ExchangePaired
  BY DEF Inv
<1>3. /\ ip' \in [Threads -> Nat] /\ ip'[t] = ip[t] + 1 /\ script' = script
      /\ \A u \in Threads \ {t} : ip'[u] = ip[u]
      /\ p_state'[t] # "WTMTX" => Done(t)' = (ip[t] + 1) - 1
  BY <1>1, <1>2, WentOn
<1>4. /\ current' \in Threads /\ p_state' \in [Threads -> States]
      /\ Listed' /\ InOrder(rlist', p_prio')
      /\ \A u \in Range(rlist') : p_prio'[current'] >= p_prio'[u]
      /\ \A u \in Threads : IF u = w \/ p_state[u] \in Runnable THEN p_state'[u] \in Runnable
                            ELSE p_state'[u] = p_state[u]
  <2>0. rlist \in Seq(Threads)
    BY <1>2 DEF SchedKept, InOrder
  <2>1. \A u \in Range(rlist) : p_prio'[u] = p_prio[u]
    <3>1. \A u \in Range(rlist) : u \in Threads
      BY <2>0 DEF Range
    <3>2. t \notin Range(rlist) /\ \A u \in Threads \ {t} : p_prio'[u] = p_prio[u]
      BY <1>1
    <3> HIDE DEF Passes
    <3> QED BY <3>1, <3>2
  <2>2. InOrder(rlist, p_prio')
    BY <1>2, <2>1, SameOrder DEF SchedKept
  <2>3. Listed /\ p_state[w] \notin Runnable
    BY <1>1, <1>2 DEF SchedKept, Runnable
  <2> QED BY <1>1, <1>2, <2>2, <2>3, Rescheduled
<1>5. \A u \in Threads : p_state'[u] = "WTMTX" <=> u # w /\ p_state[u] = "WTMTX"
  BY <1>4 DEF Runnable
<1>6. Types'
  <2>1. m_owner' \in [Mutexes -> Threads \cup {NoThread}]
    BY <1>1, <1>2 DEF Types, KernelTypeOK
  <2> QED BY <1>1, <1>2, <1>3, <1>4, <2>1 DEF Types, KernelTypeOK, InOrder
<1>7. SchedKept'
  BY <1>4 DEF SchedKept
<1>8. \A n \in Mutexes : m_owner'[n] = IF n = m THEN w ELSE m_owner[n]
  BY <1>1, <1>2 DEF Types, KernelTypeOK
<1>9. QueuesKept'
  <2>1. ASSUME NEW u \in Threads, p_state'[u] = "WTMTX" PROVE \E n \in Mutexes : u \in Range(m_queue'[n])
    <3>1. u # w /\ p_state[u] = "WTMTX"
      BY <1>5, <2>1
    <3>2. PICK n \in Mutexes : u \in Range(m_queue[n])
      BY <1>2, <2>1, <3>1 DEF QueuesKept
    <3> QED BY <3>1, <3>2, <1>1
  <2>2. ASSUME NEW n \in Mutexes, NEW u \in Range(m_queue'[n])
        PROVE  /\ p_state'[u] = "WTMTX" /\ m_owner'[n] \notin {NoThread, u}
               /\ ip'[u] >= 2 /\ script'[u][ip'[u] - 1] = <<"lock", n>>
    <3>1. u \in Range(m_queue[n]) /\ (n = m => u # w)
      BY <1>1, <2>2
    <3>2. /\ p_state[u] = "WTMTX" /\ m_owner[n] \notin {NoThread, u}
          /\ ip[u] >= 2 /\ script[u][ip[u] - 1] = <<"lock", n>>
      BY <1>2, <3>1 DEF QueuesKept
    <3>3. u \in Threads
      BY <1>2, <3>1 DEF QueuesKept, InOrder, Range
    <3>4. u # t /\ u # w
      <4>1. u = w => <<"lock", n>> = <<"lock", m>>
        BY <1>1, <3>2
      <4> QED BY <1>1, <3>1, <3>2, <4>1
    <3>5. m_owner'[n] \notin {NoThread, u}
      BY <1>1, <1>8, <3>2, <3>4, NobodyIsNone
    <3> QED BY <1>3, <1>5, <3>2, <3>3, <3>4, <3>5
  <2> QED BY <1>1, <2>1, <2>2 DEF QueuesKept
<1>10. /\ m \notin Range(p_mtxlist[w]) /\ Matches(<<m>> \o p_mtxlist[w], script[w], ip[w] - 1)
       /\ Range(<<m>> \o p_mtxlist[w]) = Range(p_mtxlist[w]) \cup {m}
  <2>1. Good(script[w]) /\ DOMAIN script[w] = 1..Len(script[w]) /\ Len(script[w]) \in Nat
    BY <1>1, <1>2, ScriptsAreGood
  <2>2. ip[w] \in 1..(Len(script[w]) + 1) /\ Matches(p_mtxlist[w], script[w], ip[w] - 2)
    BY <1>1, <1>2 DEF OwnersKept, Done
  <2>3. ip[w] - 1 \in DOMAIN script[w] /\ (ip[w] - 1) - 1 = ip[w] - 2
    <3>1. ip[w] >= 2
      BY <1>1
    <3> HIDE DEF Passes
    <3> QED BY <3>1, <2>1, <2>2
  <2>4. script[w][ip[w] - 1][1] = "lock" /\ script[w][ip[w] - 1][2] = m
    BY <1>1
  <2> DEFINE k == ip[w] - 1
  <2>5. k \in DOMAIN script[w] /\ script[w][k][1] = "lock" /\ Matches(p_mtxlist[w], script[w], k - 1) /\ script[w][k][2] = m
    BY <2>2, <2>3, <2>4
  <2> HIDE DEF k, Passes
  <2>6. /\ script[w][k][2] \notin Range(p_mtxlist[w])
        /\ Matches(<<script[w][k][2]>> \o p_mtxlist[w], script[w], k)
        /\ Range(<<script[w][k][2]>> \o p_mtxlist[w]) = Range(p_mtxlist[w]) \cup {script[w][k][2]}
    BY <2>1, <2>5, LockMatches
  <2> QED BY <2>5, <2>6 DEF k
<1>11. OwnersKept'
  <2>1. ASSUME NEW n \in Mutexes, NEW u \in Threads PROVE m_owner'[n] = u <=> n \in Range(p_mtxlist'[u])
    <3>1. m_owner[n] = u <=> n \in Range(p_mtxlist[u])
      BY <1>2 DEF OwnersKept
    <3>2. CASE u = t
      BY <1>1, <1>8, <3>1, <3>2
    <3>3. CASE u = w
      BY <1>1, <1>8, <1>10, <3>1, <3>3
    <3>4. CASE u # t /\ u # w
      BY <1>1, <1>8, <3>1, <3>4
    <3> QED BY <3>2, <3>3, <3>4
  <2>2. ASSUME NEW u \in Threads
        PROVE  ip'[u] \in 1..(Len(script'[u]) + 1) /\ Matches(p_mtxlist'[u], script'[u], Done(u)')
    <3>1. ip[u] \in 1..(Len(script[u]) + 1) /\ Matches(p_mtxlist[u], script[u], Done(u))
      BY <1>2 DEF OwnersKept
    <3>2. CASE u = t
      <4>1. Done(t)' = ip[t]
        BY <1>1, <1>3, <1>5
      <4> QED BY <1>1, <1>3, <3>2, <4>1
    <3>3. CASE u = w
      <4>1. Done(w)' = ip[w] - 1
        BY <1>1, <1>3, <1>5 DEF Done
      <4>2. p_mtxlist'[w] = <<m>> \o p_mtxlist[w] /\ ip'[w] = ip[w] /\ script'[w] = script[w]
        BY <1>1, <1>3
      <4> QED BY <1>10, <3>1, <3>3, <4>1, <4>2
    <3>4. CASE u # t /\ u # w
      <4>1. Done(u)' = Done(u)
        BY <1>3, <1>5, <3>4 DEF Done
      <4> QED BY <1>1, <1>3, <3>1, <3>4, <4>1
    <3> QED BY <3>2, <3>3, <3>4
  <2> QED BY <2>1, <2>2 DEF OwnersKept
<1>12. WalkKept'
  BY <1>1 DEF WalkKept, Walking
<1>13. ExchangePaired'
  <2>1. \A u \in Threads : p_state'[u] = "SUSPENDED" <=> p_state[u] = "SUSPENDED"
    BY <1>1, <1>4 DEF Runnable
  <2>2. spi_thread # t
    BY <1>1, <1>2 DEF ExchangePaired
  <2>3. spi_thread # NoThread => m_owner'[SPIMutex] = spi_thread
    BY <1>1, <1>2, <1>8, <2>2, ScriptsAssumption DEF ExchangePaired
  <2> QED BY <1>1, <1>2, <2>1, <2>3 DEF ExchangePaired
<1> QED BY <1>6, <1>7, <1>9, <1>11, <1>12, <1>13 DEF Inv

LEMMA UnlockPassKeeps ==
    ASSUME Inv, NEW t \in Threads, UnlockPass(t)
    PROVE  Inv'
<1> DEFINE m == Op(t)[2]
           w == Head(m_queue[m])
           r == Recalculated(t, Tail(p_mtxlist[t]))
<1>1. m = Op(t)[2] /\ w = Head(m_queue[m]) /\ r = Recalculated(t, Tail(p_mtxlist[t]))
  OBVIOUS
<1> HIDE DEF m, w, r
<1>2. Passes(t, m, w, r)
  BY <1>1, PassDoes
<1> QED BY <1>2, PassKeeps

-----------------------------------------------------------------------------
LEMMA InvAtInit == Init => Inv
<1> SUFFICES ASSUME Init PROVE Inv
  OBVIOUS
<1>1. /\ current = NoThread /\ rlist = << >> /\ p_state = [t \in Threads |-> "SLEEPING"] /\ p_prio = RealPrio
      /\ p_mtxlist = [t \in Threads |-> << >>] /\ m_owner = [m \in Mutexes |-> NoThread]
      /\ m_queue = [m \in Mutexes |-> << >>] /\ walk = NoWalk
      /\ script = [t \in Threads |-> << >>] /\ ip = [t \in Threads |-> 1]
      /\ spi_state = "READY" /\ spi_thread = NoThread
  BY DEF Init, KernelInit
<1>2. \A t \in Threads : t # NoThread
  BY NobodyIsNone
<1>3. Range(rlist) = {} /\ (\A t \in Threads : Range(p_mtxlist[t]) = {}) /\ \A m \in Mutexes : Range(m_queue[m]) = {}
  BY <1>1, EmptyInOrder
<1>4. Types
  BY <1>1, KernelAssumption DEF Types, KernelTypeOK, States, AllScripts
<1>5. SchedKept
  BY <1>1, <1>2, <1>3, EmptyInOrder DEF SchedKept, Listed
<1>6. QueuesKept
  BY <1>1, <1>3, EmptyInOrder DEF QueuesKept
<1>7. OwnersKept
  <2>1. \A t \in Threads : Done(t) = 0
    BY <1>1 DEF Done
  <2>2. \A t \in Threads : ip[t] \in 1..(Len(script[t]) + 1)
    BY <1>1
  <2>3. \A t \in Threads : Matches(p_mtxlist[t], script[t], Done(t))
    BY <1>1, <2>1, NothingMatches
  <2> QED BY <1>1, <1>2, <1>3, <2>2, <2>3 DEF OwnersKept
<1>8. WalkKept
  BY <1>1 DEF WalkKept, Walking
<1>9. ExchangePaired
  BY <1>1, <1>2 DEF ExchangePaired
<1> QED BY <1>4, <1>5, <1>6, <1>7, <1>8, <1>9 DEF Inv

LEMMA InvKept == Inv /\ [Next]_vars => Inv'
<1> SUFFICES ASSUME Inv, [Next]_vars PROVE Inv'
  OBVIOUS
<1>1. CASE DmaInterrupt
  BY <1>1, DmaInterruptKeeps
<1>2. ASSUME NEW t \in Threads, TimerInterrupt(t) PROVE Inv'
  BY <1>2, TimerInterruptKeeps
<1>3. ASSUME NEW t \in Threads, Thread(t) PROVE Inv'
  BY <1>3, NextScriptKeeps, LockFreeKeeps, LockTakenKeeps, WalkOnKeeps, LockSleepsKeeps,
     UnlockFreeKeeps, UnlockPassKeeps, ExchangeKeeps, SleepKeeps DEF Thread
<1>4. CASE UNCHANGED vars
  <2>1. \A t \in Threads : Done(t)' = Done(t)
    BY <1>4 DEF vars, kernelVars, place, Done
  <2> QED BY <1>4, <2>1 DEF vars, kernelVars, place, spiVars, Inv, Types, KernelTypeOK, SchedKept, Listed,
             QueuesKept, OwnersKept, WalkKept, Walking, Op, ExchangePaired
<1> QED BY <1>1, <1>2, <1>3, <1>4 DEF Next

\* The invariant that all of this rests on holds in every state.
THEOREM ChSpiInvariant == Spec => []Inv
<1>1. Init => Inv
  BY InvAtInit
<1>2. Inv /\ [Next]_vars => Inv'
  BY InvKept
<1> QED BY <1>1, <1>2, PTL DEF Spec

-----------------------------------------------------------------------------
(* What it says.                                                            *)

LEMMA InvHighest == Inv => HighestRuns
<1> SUFFICES ASSUME Inv PROVE HighestRuns
  OBVIOUS
<1> DEFINE order == IF current = NoThread THEN rlist ELSE <<current>> \o rlist
           L == Len(rlist)
<1>1. Types /\ SchedKept
  BY DEF Inv
<1>2. InOrder(rlist, p_prio) /\ Listed /\ current \in Threads \cup {NoThread}
  BY <1>1 DEF SchedKept, Types, KernelTypeOK
<1>3. /\ rlist \in Seq(Threads) /\ L \in Nat /\ DOMAIN rlist = 1..L
      /\ \A i, j \in 1..L : i < j => p_prio[rlist[i]] >= p_prio[rlist[j]]
  BY <1>2 DEF InOrder
<1>4. \A t \in Threads : t \in Range(rlist) \/ t = current <=> p_state[t] \in {"READY", "CURRENT"}
  BY <1>2 DEF Listed
<1>5. Range(rlist) \subseteq Threads
  BY <1>3 DEF Range
<1> HIDE DEF L
<1>6. CASE current = NoThread
  <2>1. order = rlist /\ rlist = << >>
    BY <1>2, <1>6 DEF Listed
  <2>2. Range(order) = {t \in Threads : p_state[t] \in {"READY", "CURRENT"}}
    BY <1>4, <1>5, <1>6, <2>1, NobodyIsNone
  <2> QED BY <1>3, <2>1, <2>2 DEF HighestRuns
<1>7. CASE current # NoThread
  <2>1. order = <<current>> \o rlist /\ current \in Threads
    BY <1>2, <1>7
  <2>2. /\ order \in Seq(Threads) /\ Len(order) = L + 1 /\ DOMAIN order = 1..(L + 1)
        /\ order[1] = current /\ \A i \in 2..(L + 1) : order[i] = rlist[i - 1]
    BY <1>3, <2>1 DEF L
  <2> HIDE DEF order
  <2>3. \A i \in 2..(L + 1) : i - 1 \in 1..L
    BY <1>3
  <2>4. ASSUME NEW i \in 1..(L + 1), NEW j \in 1..(L + 1), i < j
        PROVE  p_prio[order[i]] >= p_prio[order[j]]
    <3>1. j \in 2..(L + 1) /\ order[j] = rlist[j - 1] /\ j - 1 \in 1..L
      BY <1>3, <2>2, <2>3, <2>4
    <3>2. CASE i = 1
      <4>1. rlist[j - 1] \in Range(rlist)
        BY <1>3, <3>1 DEF Range
      <4> QED BY <1>1, <1>7, <2>2, <3>1, <3>2, <4>1 DEF SchedKept
    <3>3. CASE i # 1
      <4>1. i \in 2..(L + 1) /\ i - 1 \in 1..L /\ i - 1 < j - 1
        BY <1>3, <2>3, <2>4, <3>3
      <4> QED BY <1>3, <2>2, <3>1, <4>1
    <3> QED BY <3>2, <3>3
  <2>5. Range(order) = Range(rlist) \cup {current}
    BY <1>3, <2>1, RangeCons
  <2>6. Range(order) = {t \in Threads : p_state[t] \in {"READY", "CURRENT"}}
    BY <1>4, <1>5, <2>1, <2>5
  <2>7. \A i, j \in DOMAIN order : i < j => p_prio[order[i]] >= p_prio[order[j]]
    BY <2>2, <2>4
  <2> QED BY <1>7, <2>6, <2>7 DEF HighestRuns, order
<1> QED BY <1>6, <1>7

\* How the owner and the queue of one mutex change.
MutexStep(m) ==
    \/ m_owner'[m] = m_owner[m] /\ Range(m_queue'[m]) = Range(m_queue[m])
    \/ \E t \in Threads : /\ m_owner[m] = NoThread /\ m_owner'[m] = t
                          /\ m_queue[m] = << >> /\ Range(m_queue'[m]) = Range(m_queue[m])
    \/ \E t \in Threads : /\ m_owner[m] \notin {NoThread, t} /\ m_owner'[m] = m_owner[m]
                          /\ t \notin Range(m_queue[m]) /\ Range(m_queue'[m]) = Range(m_queue[m]) \cup {t}
    \/ /\ m_owner[m] # NoThread /\ m_owner'[m] = NoThread
       /\ Range(m_queue[m]) = {} /\ Range(m_queue'[m]) = Range(m_queue[m])
    \/ \E w \in Range(m_queue[m]) : /\ m_owner'[m] = w /\ Range(m_queue'[m]) = Range(m_queue[m]) \ {w}
                                    /\ \A u \in Range(m_queue[m]) : p_prio[u] <= p_prio[w]

LEMMA StepsOfMutexes ==
    ASSUME Inv, [Next]_vars, NEW m \in Mutexes
    PROVE  MutexStep(m)
<1>1. Types /\ QueuesKept /\ OwnersKept
  BY DEF Inv
<1>2. m_owner \in [Mutexes -> Threads \cup {NoThread}] /\ m_queue \in [Mutexes -> Seq(Threads)]
      /\ p_prio \in [Threads -> Nat]
  BY <1>1, PriosAreNat DEF Types, KernelTypeOK
<1>3. ASSUME UNCHANGED <<m_owner, m_queue>> PROVE MutexStep(m)
  BY <1>3 DEF MutexStep
<1>4. CASE DmaInterrupt
  BY <1>3, <1>4 DEF DmaInterrupt
<1>5. ASSUME NEW t \in Threads, TimerInterrupt(t) PROVE MutexStep(m)
  BY <1>3, <1>5 DEF TimerInterrupt
<1>6. ASSUME NEW t \in Threads, NextScript(t) \/ LockTaken(t) \/ Exchange(t) \/ Sleep(t) PROVE MutexStep(m)
  BY <1>3, <1>6 DEF NextScript, LockTaken, BeginWalk, Exchange, Sleep, kernelVars
<1>7. ASSUME NEW t \in Threads, LockFree(t) PROVE MutexStep(m)
  <2>1. /\ current = t /\ m_queue' = m_queue /\ m_owner[Op(t)[2]] = NoThread
        /\ m_owner' = [m_owner EXCEPT ![Op(t)[2]] = t]
    BY <1>7 DEF LockFree, TakeMutex, Calls
  <2>2. CASE m # Op(t)[2]
    BY <1>2, <2>1, <2>2 DEF MutexStep
  <2>3. CASE m = Op(t)[2]
    <3>1. m_owner[m] = NoThread /\ m_owner'[m] = t /\ Range(m_queue'[m]) = Range(m_queue[m])
      BY <1>2, <2>1, <2>3
    <3>2. \A u \in Range(m_queue[m]) : FALSE
      BY <1>1, <3>1 DEF QueuesKept
    <3>3. m_queue[m] = << >>
      BY <1>2, <3>2, RangeEmpty
    <3> QED BY <3>1, <3>3 DEF MutexStep
  <2> QED BY <2>2, <2>3
<1>8. ASSUME NEW t \in Threads, WalkOn(t) PROVE MutexStep(m)
  <2>1. Walks(t, walk[2])
    BY <1>8, WalkDoes
  <2>2. Range(m_queue'[m]) = Range(m_queue[m])
    BY <2>1, Boosted DEF Walks
  <2> QED BY <2>1, <2>2 DEF Walks, MutexStep
<1>9. ASSUME NEW t \in Threads, LockSleeps(t) PROVE MutexStep(m)
  <2>1. Waits(t, walk[1])
    BY <1>9, SleepDoes
  <2>2. CASE m # walk[1]
    BY <2>1, <2>2 DEF Waits, MutexStep
  <2>3. CASE m = walk[1]
    BY <2>1, <2>3 DEF Waits, MutexStep
  <2> QED BY <2>2, <2>3
<1>10. ASSUME NEW t \in Threads, UnlockFree(t) PROVE MutexStep(m)
  <2>1. /\ Calls(t, "unlock") /\ m_queue' = m_queue /\ m_queue[Op(t)[2]] = << >>
        /\ m_owner' = [m_owner EXCEPT ![Op(t)[2]] = NoThread]
    BY <1>10 DEF UnlockFree, FreeMutex
  <2>2. CASE m # Op(t)[2]
    BY <1>2, <2>1, <2>2 DEF MutexStep
  <2>3. CASE m = Op(t)[2]
    <3>1. /\ Good(script[t]) /\ ip[t] \in DOMAIN script[t] /\ Op(t) = script[t][ip[t]]
          /\ script[t][ip[t]][1] = "unlock" /\ Matches(p_mtxlist[t], script[t], ip[t] - 1)
      BY <2>1, Caller
    <3>2. m \in Range(p_mtxlist[t])
      BY <2>3, <3>1, UnlockMatches
    <3>3. m_owner[m] # NoThread
      BY <1>1, <3>2, NobodyIsNone DEF OwnersKept
    <3>4. m_owner'[m] = NoThread /\ Range(m_queue[m]) = {} /\ m_queue'[m] = m_queue[m]
      BY <1>2, <2>1, <2>3, EmptyInOrder
    <3> QED BY <3>3, <3>4 DEF MutexStep
  <2> QED BY <2>2, <2>3
<1>11. ASSUME NEW t \in Threads, NEW n, NEW w, NEW r, Passes(t, n, w, r) PROVE MutexStep(m)
  <2>1. m_owner' = [m_owner EXCEPT ![n] = w] /\ n \in Mutexes /\ w \in Threads
    BY <1>11 DEF Passes
  <2>2. Range(m_queue'[m]) = IF m = n THEN Range(m_queue[n]) \ {w} ELSE Range(m_queue[m])
    BY <1>11 DEF Passes
  <2>3. CASE m # n
    BY <1>2, <2>1, <2>2, <2>3 DEF MutexStep
  <2>4. CASE m = n
    <3>1. m_owner'[m] = w /\ Range(m_queue'[m]) = Range(m_queue[m]) \ {w}
      BY <1>2, <2>1, <2>2, <2>4
    <3>2. w \in Range(m_queue[m]) /\ \A u \in Range(m_queue[m]) : u \in Threads /\ p_prio[w] >= p_prio[u]
      BY <1>11, <2>4 DEF Passes
    <3>3. \A u \in Range(m_queue[m]) : p_prio[u] <= p_prio[w]
      BY <1>2, <2>1, <3>2
    <3> QED BY <3>1, <3>2, <3>3 DEF MutexStep
  <2> QED BY <2>3, <2>4
<1>12. ASSUME NEW t \in Threads, UnlockPass(t) PROVE MutexStep(m)
  BY <1>11, <1>12, PassDoes
<1>13. CASE UNCHANGED vars
  BY <1>3, <1>13 DEF vars, kernelVars
<1> QED BY <1>4, <1>5, <1>6, <1>7, <1>8, <1>9, <1>10, <1>12, <1>13 DEF Next, Thread

LEMMA HandedToHighest ==
    ASSUME Inv, [Next]_vars, NEW m \in Mutexes, NEW w \in Threads, m_owner'[m] = w, w \in Range(m_queue[m])
    PROVE  \A u \in Range(m_queue[m]) : p_prio[u] <= p_prio[w]
<1>1. MutexStep(m)
  BY StepsOfMutexes
<1>2. m_owner[m] # w /\ m_queue[m] # << >> /\ w # NoThread
  BY EmptyInOrder, NobodyIsNone DEF Inv, QueuesKept
<1> QED BY <1>1, <1>2 DEF MutexStep

LEMMA MutexRefined ==
    ASSUME Inv, [Next]_vars, NEW m \in Mutexes
    PROVE  [AbstractMutex(m)!Next]_(AbstractMutex(m)!vars)
<1>1. MutexStep(m)
  BY StepsOfMutexes
<1>2. CASE m_owner'[m] = m_owner[m] /\ Range(m_queue'[m]) = Range(m_queue[m])
  BY <1>2 DEF AbstractMutex!vars
<1>3. ASSUME NEW t \in Threads, m_owner[m] = NoThread, m_owner'[m] = t, Range(m_queue'[m]) = Range(m_queue[m])
      PROVE  AbstractMutex(m)!Next
  BY <1>3 DEF AbstractMutex!Next, AbstractMutex!Take
<1>4. ASSUME NEW t \in Threads, m_owner[m] \notin {NoThread, t}, m_owner'[m] = m_owner[m],
             t \notin Range(m_queue[m]), Range(m_queue'[m]) = Range(m_queue[m]) \cup {t}
      PROVE  AbstractMutex(m)!Next
  BY <1>4 DEF AbstractMutex!Next, AbstractMutex!Queue
<1>5. ASSUME m_owner[m] # NoThread, m_owner'[m] = NoThread, Range(m_queue[m]) = {}, Range(m_queue'[m]) = Range(m_queue[m])
      PROVE  AbstractMutex(m)!Next
  BY <1>5 DEF AbstractMutex!Next, AbstractMutex!Free
<1>6. ASSUME NEW w \in Range(m_queue[m]), m_owner'[m] = w, Range(m_queue'[m]) = Range(m_queue[m]) \ {w}
      PROVE  AbstractMutex(m)!Next
  BY <1>6 DEF AbstractMutex!Next, AbstractMutex!Pass
<1> QED BY <1>1, <1>2, <1>3, <1>4, <1>5, <1>6 DEF MutexStep

\* Every variable of the kernel and of the SPI driver keeps its type, a
\* priority that chMtxUnlock recalculates included.
THEOREM ChSpiTypes == Spec => []TypeOK
<1>1. Inv => TypeOK
  BY DEF Inv, Types, TypeOK
<1> QED BY <1>1, ChSpiInvariant, PTL

\* chschd.c: the running thread has the highest priority of all that could run,
\* and the ready list is in order though chMtxLockS changes priorities under it.
THEOREM HighestRunsHolds == Spec => []HighestRuns
  BY InvHighest, ChSpiInvariant, PTL

\* spi.c: the driver is active exactly while the thread that started the
\* exchange, the owner of SPIMutex, is suspended on it.
THEOREM ExchangePairedHolds == Spec => []ExchangePaired
<1>1. Inv => ExchangePaired
  BY DEF Inv
<1> QED BY <1>1, ChSpiInvariant, PTL

\* chMtxUnlock hands the mutex to the thread that has the highest priority of
\* all that wait for it, boosted ones included.
THEOREM PassedToHighestHolds == Spec => PassedToHighest
<1> DEFINE Handed == \A m \in Mutexes, w \in Threads :
                        m_owner'[m] = w /\ w \in Range(m_queue[m])
                          => \A u \in Range(m_queue[m]) : p_prio[u] <= p_prio[w]
<1>1. Inv /\ [Next]_vars => [Handed]_vars
  BY HandedToHighest
<1>2. Spec => [][Handed]_vars
  <2> HIDE DEF Handed
  <2> QED BY <1>1, ChSpiInvariant, PTL DEF Spec
<1> QED BY <1>2 DEF PassedToHighest

\* chMtxLock and chMtxUnlock implement the abstract mutex, step by step.
THEOREM MutexesKeptHolds == Spec => MutexesKept
<1> DEFINE Refined == \A m \in Mutexes : [AbstractMutex(m)!Next]_(AbstractMutex(m)!vars)
<1>1. Init => \A m \in Mutexes : AbstractMutex(m)!Init
  BY EmptyInOrder DEF Init, KernelInit, AbstractMutex!Init
<1>2. Inv /\ [Next]_vars => [Refined]_vars
  BY MutexRefined
<1>3. Spec => [][Refined]_vars
  <2> HIDE DEF Refined
  <2> QED BY <1>2, ChSpiInvariant, PTL DEF Spec
<1> QED BY <1>1, <1>3 DEF MutexesKept, Spec

-----------------------------------------------------------------------------
(* Priority inheritance.                                                    *)

\* Without a walk there is no exception.
Inherits(t) ==
    /\ p_prio[t] >= RealPrio[t] /\ \A u \in Blocked(t) : p_prio[t] >= p_prio[u]
    /\ p_prio[t] = RealPrio[t] \/ \E u \in Blocked(t) : p_prio[t] = p_prio[u]

LEMMA UnlockedPrios ==
    ASSUME Unlocked
    PROVE  (PrioKept <=> \A t \in Threads : Inherits(t)) /\ WalkPrio
  BY DEF Unlocked, PrioKept, Inherits, WalkPrio, WalkAt

\* Who is blocked by whom.
LEMMA BlockedBy ==
    ASSUME Inv, NEW t \in Threads, NEW u
    PROVE  u \in Blocked(t) <=> /\ u \in Threads /\ p_state[u] = "WTMTX" /\ u # t
                                /\ m_owner[WaitsFor(u)] = t
<1>1. Types /\ QueuesKept /\ OwnersKept
  BY DEF Inv
<1>2. Range(p_mtxlist[t]) \subseteq Mutexes
  BY <1>1 DEF Types, KernelTypeOK, Range
<1>3. ASSUME u \in Blocked(t)
      PROVE  u \in Threads /\ p_state[u] = "WTMTX" /\ u # t /\ m_owner[WaitsFor(u)] = t
  <2>1. PICK m \in Range(p_mtxlist[t]) : u \in Range(m_queue[m])
    BY <1>3 DEF Blocked
  <2>2. m \in Mutexes /\ m_owner[m] = t
    BY <1>1, <1>2, <2>1 DEF OwnersKept
  <2>3. u \in Threads
    BY <1>3 DEF Blocked
  <2>4. p_state[u] = "WTMTX" /\ u # t
    BY <1>1, <2>1, <2>2 DEF QueuesKept
  <2>5. m = WaitsFor(u)
    BY <1>1, <2>1, <2>2, <2>3, <2>4, WaitsForOne
  <2> QED BY <2>2, <2>3, <2>4, <2>5
<1>4. ASSUME u \in Threads, p_state[u] = "WTMTX", m_owner[WaitsFor(u)] = t
      PROVE  u \in Blocked(t)
  <2>1. WaitsFor(u) \in Mutexes /\ u \in Range(m_queue[WaitsFor(u)])
    BY <1>1, <1>4, WaitsForOne
  <2>2. WaitsFor(u) \in Range(p_mtxlist[t])
    BY <1>1, <1>4, <2>1 DEF OwnersKept
  <2> QED BY <1>4, <2>1, <2>2 DEF Blocked
<1> QED BY <1>3, <1>4

LEMMA OwnList ==
    ASSUME Inv, NEW x \in Threads
    PROVE  /\ p_mtxlist[x] \in Seq(Mutexes) /\ Range(p_mtxlist[x]) \subseteq Mutexes
           /\ \A m \in Mutexes : m \in Range(p_mtxlist[x]) <=> m_owner[m] = x
<1>1. p_mtxlist[x] \in Seq(Mutexes)
  BY DEF Inv, Types, KernelTypeOK
<1>2. Range(p_mtxlist[x]) \subseteq Mutexes
  BY <1>1 DEF Range
<1> QED BY <1>1, <1>2 DEF Inv, OwnersKept

\* Nobody is blocked by another thread than before, and the walk is over or
\* has not begun.
LEMMA PriosSame ==
    ASSUME PrioKept, Unlocked, Unlocked', p_prio' = p_prio,
           \A t \in Threads : Blocked(t)' = Blocked(t)
    PROVE  PrioKept' /\ WalkPrio'
<1>1. \A t \in Threads : Inherits(t)
  BY UnlockedPrios
<1>2. \A t \in Threads : Inherits(t)'
  BY <1>1 DEF Inherits
<1> QED BY <1>2 DEF Unlocked, PrioKept, Inherits, WalkPrio, WalkAt

LEMMA WalkOnInherits ==
    ASSUME Inv, PrioKept, WalkPrio, NEW t \in Threads, WalkOn(t)
    PROVE  PrioKept' /\ WalkPrio'
<1> SUFFICES ASSUME NEW tp, tp = walk[2], NEW nx, nx = NextOwner(tp), NEW o, o = m_owner[walk[1]]
             PROVE  PrioKept' /\ WalkPrio'
  OBVIOUS
<1>1. Walks(t, tp)
  BY WalkDoes
<1>2. /\ current = t /\ current' = t /\ tp \in Threads /\ tp # t /\ p_prio[tp] < p_prio[t]
      /\ p_prio'[tp] = p_prio[t] /\ (\A u \in Threads \ {tp} : p_prio'[u] = p_prio[u])
      /\ p_prio'[t] = p_prio[t] /\ p_prio' \in [Threads -> Nat]
  BY <1>1 DEF Walks
<1>3. Walking /\ Walking' /\ walk'[1] = walk[1] /\ walk'[2] = nx /\ walk[1] \in Mutexes
      /\ m_owner' = m_owner /\ m_owner'[walk'[1]] = o
  BY <1>1 DEF Walks, Walking
<1>4. \A u \in Threads : p_prio[u] \in Nat
  BY PriosAreNat DEF Inv
<1>5. o \in Threads
  BY <1>3 DEF Inv, Types, KernelTypeOK, WalkKept
<1>6. ASSUME NEW x \in Threads PROVE Blocked(x)' = Blocked(x)
  <2>1. Range(p_mtxlist[x]) \subseteq Mutexes /\ p_mtxlist' = p_mtxlist
    BY <1>1 DEF Walks, Inv, Types, KernelTypeOK, Range
  <2>2. \A m \in Mutexes : Range(m_queue'[m]) = Range(m_queue[m])
    BY <1>1, Boosted DEF Walks
  <2> QED BY <2>1, <2>2 DEF Blocked
<1>7. nx # NoThread => nx \in Threads /\ tp \in Blocked(nx)
  <2> SUFFICES ASSUME nx # NoThread PROVE nx \in Threads /\ tp \in Blocked(nx)
    OBVIOUS
  <2>1. p_state[tp] = "WTMTX" /\ nx = m_owner[WaitsFor(tp)]
    BY DEF NextOwner
  <2>2. WaitsFor(tp) \in Mutexes /\ tp \in Range(m_queue[WaitsFor(tp)])
    BY <1>2, <2>1, WaitsForOne DEF Inv
  <2>3. nx \in Threads /\ nx # tp
    BY <2>1, <2>2 DEF Inv, Types, KernelTypeOK, QueuesKept
  <2> QED BY <1>2, <2>1, <2>3, BlockedBy
<1>8. ASSUME NEW x \in Threads PROVE tp \in Blocked(x) => x = nx /\ x # tp
  <2> SUFFICES ASSUME tp \in Blocked(x) PROVE x = nx /\ x # tp
    OBVIOUS
  <2>1. p_state[tp] = "WTMTX" /\ tp # x /\ m_owner[WaitsFor(tp)] = x
    BY BlockedBy
  <2> QED BY <2>1 DEF NextOwner
<1>9. \A x \in Threads : Blocked(x) \subseteq Threads
  BY DEF Blocked
<1>10. ASSUME NEW x \in Threads PROVE p_prio'[x] >= RealPrio[x]
  <2>1. p_prio[x] >= RealPrio[x] /\ RealPrio[x] \in 0..127
    BY KernelAssumption DEF PrioKept, HIGHPRIO
  <2> QED BY <1>2, <1>4, <2>1
<1>11. ASSUME NEW x \in Threads, NEW u \in Blocked(x)
       PROVE  p_prio'[x] >= p_prio'[u] \/ (WalkAt(x)' /\ p_prio'[u] = p_prio'[t])
  <2>1. p_prio[x] >= p_prio[u] \/ (x = tp /\ p_prio[u] = p_prio[t])
    BY <1>2 DEF PrioKept, WalkAt
  <2>2. u \in Threads
    BY <1>9
  <2>3. CASE u = tp
    <3>1. x = nx
      BY <1>8, <2>3
    <3> QED BY <1>2, <1>3, <2>3, <3>1 DEF WalkAt
  <2>4. CASE u # tp
    BY <1>2, <1>4, <2>1, <2>2, <2>4
  <2> QED BY <2>3, <2>4
<1>12. ASSUME NEW x \in Threads
       PROVE  \/ p_prio'[x] = RealPrio[x]
              \/ \E u \in Blocked(x) : p_prio'[x] = p_prio'[u]
              \/ x = o /\ p_prio'[x] = p_prio'[t]
              \/ WalkAt(x)' /\ p_prio'[x] < p_prio'[t]
  <2>1. CASE x = tp
    <3>1. tp = o \/ \E u \in Blocked(tp) : p_prio[u] = p_prio[t]
      BY <1>2, <1>3, NobodyIsNone DEF WalkPrio
    <3>2. ASSUME NEW u \in Blocked(tp), p_prio[u] = p_prio[t] PROVE p_prio'[tp] = p_prio'[u]
      <4>1. u \in Threads /\ u # tp
        BY <1>2, <1>8, <1>9
      <4> QED BY <1>2, <3>2, <4>1
    <3> QED BY <1>2, <2>1, <3>1, <3>2
  <2>2. CASE x # tp
    <3>1. \/ p_prio[x] = RealPrio[x]
          \/ \E u \in Blocked(x) : p_prio[x] = p_prio[u]
          \/ x = o /\ p_prio[x] = p_prio[t]
      BY <1>2, <2>2 DEF PrioKept, WalkAt
    <3>2. ASSUME NEW u \in Blocked(x), p_prio[x] = p_prio[u]
          PROVE  p_prio'[x] = p_prio'[u] \/ (WalkAt(x)' /\ p_prio'[x] < p_prio'[t])
      <4>1. u \in Threads
        BY <1>9
      <4>2. CASE u # tp
        BY <1>2, <2>2, <3>2, <4>1, <4>2
      <4>3. CASE u = tp
        <5>1. x = nx
          BY <1>8, <4>3
        <5> QED BY <1>2, <1>3, <2>2, <3>2, <4>3, <5>1 DEF WalkAt
      <4> QED BY <4>2, <4>3
    <3> QED BY <1>2, <2>2, <3>1, <3>2
  <2> QED BY <2>1, <2>2
<1>13. PrioKept'
  BY <1>2, <1>3, <1>6, <1>10, <1>11, <1>12 DEF PrioKept
<1>14. WalkPrio'
  <2>1. nx = o \/ p_prio'[o] >= p_prio'[t]
    <3>1. tp = o \/ p_prio[o] >= p_prio[t]
      BY <1>2, <1>3 DEF WalkPrio
    <3> QED BY <1>2, <1>4, <1>5, <3>1
  <2>2. nx # NoThread => \E u \in Blocked(nx)' : p_prio'[u] = p_prio'[t]
    <3> SUFFICES ASSUME nx # NoThread PROVE \E u \in Blocked(nx)' : p_prio'[u] = p_prio'[t]
      OBVIOUS
    <3>1. tp \in Blocked(nx)' /\ p_prio'[tp] = p_prio'[t]
      BY <1>2, <1>6, <1>7
    <3> QED BY <3>1
  <2> QED BY <1>2, <1>3, <2>1, <2>2 DEF WalkPrio
<1> QED BY <1>13, <1>14

LEMMA LockSleepsInherits ==
    ASSUME Inv, PrioKept, WalkPrio, NEW t \in Threads, LockSleeps(t)
    PROVE  PrioKept' /\ WalkPrio'
<1> SUFFICES ASSUME NEW m, m = walk[1], NEW tp, tp = walk[2], NEW o, o = m_owner[m]
             PROVE  PrioKept' /\ WalkPrio'
  OBVIOUS
<1>1. Waits(t, m) /\ (tp # NoThread => p_prio[tp] >= p_prio[t])
  BY SleepDoes DEF LockSleeps, SleepOnMutex
<1>2. current = t /\ Walking /\ ~Walking' /\ Unlocked' /\ p_prio' = p_prio /\ m \in Mutexes
  BY <1>1 DEF Waits, Walking, Unlocked
<1>3. \A u \in Threads : p_prio[u] \in Nat
  BY PriosAreNat DEF Inv
<1>4. o \in Threads
  BY <1>1 DEF Waits, Inv, Types, KernelTypeOK
<1>5. ASSUME NEW x \in Threads
      PROVE  Blocked(x)' = IF x = o THEN Blocked(x) \cup {t} ELSE Blocked(x)
  <2>1. p_mtxlist' = p_mtxlist /\ Range(p_mtxlist[x]) \subseteq Mutexes /\ (m \in Range(p_mtxlist[x]) <=> x = o)
    BY <1>1, <1>2, OwnList DEF Waits
  <2>2. Range(m_queue'[m]) = Range(m_queue[m]) \cup {t}
        /\ \A n \in Mutexes : n # m => m_queue'[n] = m_queue[n]
    BY <1>1 DEF Waits
  <2> QED BY <2>1, <2>2 DEF Blocked
<1>6. \A x \in Threads : Blocked(x) \subseteq Threads
  BY DEF Blocked
<1>7. p_prio[o] >= p_prio[t]
  <2>1. tp = o \/ p_prio[o] >= p_prio[t]
    BY <1>2 DEF WalkPrio
  <2> QED BY <1>1, <1>4, <2>1, NobodyIsNone
<1>8. ASSUME NEW x \in Threads, NEW u \in Blocked(x) PROVE p_prio[x] >= p_prio[u]
  <2>1. p_prio[x] >= p_prio[u] \/ (x = tp /\ p_prio[u] = p_prio[t])
    BY <1>2 DEF PrioKept, WalkAt
  <2> QED BY <1>1, <2>1, NobodyIsNone
<1>9. ASSUME NEW x \in Threads
      PROVE  p_prio[x] = RealPrio[x] \/ \E u \in Blocked(x)' : p_prio[x] = p_prio[u]
  <2>1. \/ p_prio[x] = RealPrio[x]
        \/ \E u \in Blocked(x) : p_prio[x] = p_prio[u]
        \/ x = o /\ p_prio[x] = p_prio[t]
        \/ x = tp /\ p_prio[x] < p_prio[t]
    BY <1>2 DEF PrioKept, WalkAt
  <2>2. ~(x = tp /\ p_prio[x] < p_prio[t])
    BY <1>1, <1>3, NobodyIsNone
  <2>3. Blocked(x) \subseteq Blocked(x)' /\ (x = o => t \in Blocked(x)')
    BY <1>5
  <2> QED BY <2>1, <2>2, <2>3
<1>10. \A x \in Threads : p_prio[x] >= RealPrio[x]
  BY DEF PrioKept
<1>11. \A x \in Threads : \A u \in Blocked(x)' : p_prio[x] >= p_prio[u]
  BY <1>5, <1>7, <1>8
<1> QED BY <1>2, <1>9, <1>10, <1>11 DEF PrioKept, WalkPrio

LEMMA UnlockPassInherits ==
    ASSUME Inv, PrioKept, NEW t \in Threads, UnlockPass(t)
    PROVE  PrioKept' /\ WalkPrio'
<1> SUFFICES ASSUME NEW m, m = Op(t)[2], NEW w, w = Head(m_queue[m]),
                    NEW rest, rest = Tail(p_mtxlist[t]), NEW r, r = Recalculated(t, rest)
             PROVE  PrioKept' /\ WalkPrio'
  OBVIOUS
<1>1. Passes(t, m, w, r)
  BY PassDoes
<1>2. /\ m \in Mutexes /\ m_owner[m] = t /\ w \in Threads /\ w # t
      /\ (\A n \in Mutexes : t \notin Range(m_queue[n]))
      /\ rest \in Seq(Mutexes) /\ Range(rest) = Range(p_mtxlist[t]) \ {m}
  BY <1>1 DEF Passes
<1>3. \A x \in Threads : p_mtxlist'[x] = IF x = t THEN rest
                                         ELSE IF x = w THEN <<m>> \o p_mtxlist[w] ELSE p_mtxlist[x]
  BY <1>1 DEF Passes
<1>4. \A n \in Mutexes : Range(m_queue'[n]) = IF n = m THEN Range(m_queue[m]) \ {w} ELSE Range(m_queue[n])
  BY <1>1 DEF Passes
<1>5. p_prio'[t] = r /\ \A x \in Threads \ {t} : p_prio'[x] = p_prio[x]
  BY <1>1 DEF Passes
<1>6. \A u \in Range(m_queue[m]) : u \in Threads /\ p_prio[w] >= p_prio[u]
  BY <1>1 DEF Passes
<1>7. Unlocked /\ Unlocked'
  BY <1>1 DEF Passes, Unlocked, Walking
<1>8. \A x \in Threads : Inherits(x)
  BY <1>7, UnlockedPrios
<1>9. /\ r >= RealPrio[t]
      /\ \A n \in Range(rest) : \A u \in Range(m_queue[n]) : r >= p_prio[u]
      /\ r = RealPrio[t] \/ \E n \in Range(rest) : \E u \in Range(m_queue[n]) : r = p_prio[u]
  <2>1. Types /\ QueuesKept
    BY DEF Inv
  <2>2. Asked(t, rest, r)
    BY <1>2, <2>1, RecalculatedIs
  <2> QED BY <2>2 DEF Asked
<1>10. ASSUME NEW x \in Threads
       PROVE  Range(p_mtxlist[x]) \subseteq Mutexes /\ (m \in Range(p_mtxlist[x]) <=> x = t)
  BY <1>2, OwnList
<1>11. Range(p_mtxlist'[w]) = Range(p_mtxlist[w]) \cup {m}
  BY <1>2, <1>3, OwnList, RangeCons
<1>12. \A n \in Mutexes : \A u \in Range(m_queue[n]) : u \in Threads /\ u # t /\ p_prio'[u] = p_prio[u]
  BY <1>2, <1>5 DEF Inv, QueuesKept, InOrder, Range
<1>13. Inherits(t)'
  <2>1. Range(p_mtxlist'[t]) = Range(rest) /\ m \notin Range(rest) /\ Range(rest) \subseteq Mutexes
    BY <1>2, <1>3, <1>10
  <2>2. ASSUME NEW u PROVE u \in Blocked(t)' <=> \E n \in Range(rest) : u \in Range(m_queue[n])
    <3>1. \A n \in Range(rest) : Range(m_queue'[n]) = Range(m_queue[n])
      BY <1>4, <2>1
    <3> QED BY <1>12, <2>1, <3>1 DEF Blocked
  <2>3. \A u \in Blocked(t)' : p_prio'[u] = p_prio[u] /\ r >= p_prio[u]
    BY <1>9, <1>12, <2>1, <2>2
  <2>4. r = RealPrio[t] \/ \E u \in Blocked(t)' : r = p_prio'[u]
    BY <1>9, <1>12, <2>1, <2>2
  <2> QED BY <1>5, <1>9, <2>3, <2>4 DEF Inherits
<1>14. Inherits(w)'
  <2>1. ASSUME NEW u PROVE u \in Blocked(w)' <=> u \in Blocked(w) \/ u \in Range(m_queue[m]) \ {w}
    <3>1. \A n \in Range(p_mtxlist[w]) : Range(m_queue'[n]) = Range(m_queue[n])
      BY <1>2, <1>4, <1>10
    <3> QED BY <1>2, <1>4, <1>6, <1>11, <3>1 DEF Blocked
  <2>2. \A u \in Blocked(w) : p_prio'[u] = p_prio[u]
    BY <1>2, <1>10, <1>12 DEF Blocked
  <2>3. \A u \in Blocked(w)' : p_prio'[w] >= p_prio'[u]
    BY <1>2, <1>5, <1>6, <1>8, <1>12, <2>1, <2>2 DEF Inherits
  <2>4. p_prio'[w] = RealPrio[w] \/ \E u \in Blocked(w)' : p_prio'[w] = p_prio'[u]
    BY <1>2, <1>5, <1>8, <2>1, <2>2 DEF Inherits
  <2> QED BY <1>2, <1>5, <1>8, <2>3, <2>4 DEF Inherits
<1>15. ASSUME NEW x \in Threads, x # t, x # w PROVE Inherits(x)'
  <2>1. Blocked(x)' = Blocked(x)
    <3>1. \A n \in Range(p_mtxlist[x]) : Range(m_queue'[n]) = Range(m_queue[n])
      BY <1>4, <1>10, <1>15
    <3> QED BY <1>3, <1>15, <3>1 DEF Blocked
  <2>2. \A u \in Blocked(x) : p_prio'[u] = p_prio[u]
    BY <1>10, <1>12 DEF Blocked
  <2> QED BY <1>5, <1>8, <1>15, <2>1, <2>2 DEF Inherits
<1>16. \A x \in Threads : Inherits(x)'
  BY <1>13, <1>14, <1>15
<1> QED BY <1>7, <1>16 DEF Unlocked, PrioKept, Inherits, WalkPrio, WalkAt

\* A mutex nobody waits for changes nothing when it is taken or freed.
LEMMA OtherStepsInherit ==
    ASSUME Inv, PrioKept, NEW t \in Threads,
           LockFree(t) \/ UnlockFree(t) \/ NextScript(t) \/ Exchange(t) \/ Sleep(t)
               \/ TimerInterrupt(t) \/ DmaInterrupt
    PROVE  PrioKept' /\ WalkPrio'
<1>1. ASSUME Unlocked, UNCHANGED <<p_prio, p_mtxlist, m_queue, walk>> PROVE PrioKept' /\ WalkPrio'
  <2>1. \A x \in Threads : Blocked(x)' = Blocked(x)
    BY <1>1 DEF Blocked
  <2> QED BY <1>1, <2>1, PriosSame DEF Unlocked, Walking
<1>2. ASSUME NextScript(t) \/ Exchange(t) \/ Sleep(t) \/ TimerInterrupt(t) \/ DmaInterrupt
      PROVE  PrioKept' /\ WalkPrio'
  BY <1>1, <1>2 DEF NextScript, Exchange, Sleep, TimerInterrupt, DmaInterrupt, Calls, kernelVars
<1>3. ASSUME NEW m \in Mutexes, m_queue[m] = << >>, Unlocked, UNCHANGED <<p_prio, m_queue, walk>>,
             \A x \in Threads : Range(p_mtxlist'[x]) \ {m} = Range(p_mtxlist[x]) \ {m}
      PROVE  PrioKept' /\ WalkPrio'
  <2>1. \A u \in Range(m_queue[m]) : FALSE
    BY <1>3, EmptyInOrder
  <2>2. ASSUME NEW x \in Threads PROVE Blocked(x)' = Blocked(x)
    <3>1. \A n : n # m => (n \in Range(p_mtxlist'[x]) <=> n \in Range(p_mtxlist[x]))
      BY <1>3
    <3> QED BY <1>3, <2>1, <3>1 DEF Blocked
  <2> QED BY <1>3, <2>2, PriosSame DEF Unlocked, Walking
<1>4. p_mtxlist \in [Threads -> Seq(Mutexes)]
  BY DEF Inv, Types, KernelTypeOK
<1>5. ASSUME LockFree(t) PROVE PrioKept' /\ WalkPrio'
  <2>1. Calls(t, "lock") /\ TakeMutex(Op(t)[2])
    BY <1>5 DEF LockFree
  <2>2. /\ current = t /\ Good(script[t]) /\ ip[t] \in DOMAIN script[t] /\ Op(t) = script[t][ip[t]]
        /\ script[t][ip[t]][1] = "lock" /\ Matches(p_mtxlist[t], script[t], ip[t] - 1)
    BY <2>1, Caller
  <2> DEFINE m == script[t][ip[t]][2]
  <2>3. m \in Mutexes /\ Range(<<m>> \o p_mtxlist[t]) = Range(p_mtxlist[t]) \cup {m}
    BY <2>2, LockMatches
  <2>4. /\ m_owner[m] = NoThread /\ p_mtxlist' = [p_mtxlist EXCEPT ![t] = <<m>> \o @]
        /\ Unlocked /\ UNCHANGED <<p_prio, m_queue, walk>>
    BY <2>1, <2>2 DEF TakeMutex
  <2> HIDE DEF m
  <2>5. \A x \in Threads : p_mtxlist'[x] = IF x = t THEN <<m>> \o p_mtxlist[t] ELSE p_mtxlist[x]
    BY <1>4, <2>4
  <2>6. \A x \in Threads : Range(p_mtxlist'[x]) \ {m} = Range(p_mtxlist[x]) \ {m}
    BY <2>3, <2>5
  <2>7. m_queue[m] = << >>
    <3>1. InOrder(m_queue[m], p_prio) /\ \A u \in Range(m_queue[m]) : m_owner[m] # NoThread
      BY <2>3 DEF Inv, QueuesKept
    <3> QED BY <2>4, <3>1, RangeEmpty DEF InOrder
  <2> QED BY <1>3, <2>3, <2>4, <2>6, <2>7
<1>6. ASSUME UnlockFree(t) PROVE PrioKept' /\ WalkPrio'
  <2>1. Calls(t, "unlock") /\ FreeMutex(Op(t)[2])
    BY <1>6 DEF UnlockFree
  <2>2. /\ current = t /\ Good(script[t]) /\ ip[t] \in DOMAIN script[t] /\ Op(t) = script[t][ip[t]]
        /\ script[t][ip[t]][1] = "unlock" /\ Matches(p_mtxlist[t], script[t], ip[t] - 1)
    BY <2>1, Caller
  <2> DEFINE m == script[t][ip[t]][2]
  <2>3. m \in Mutexes /\ Range(Tail(p_mtxlist[t])) = Range(p_mtxlist[t]) \ {m}
    BY <2>2, UnlockMatches
  <2>4. /\ m_queue[m] = << >> /\ p_mtxlist' = [p_mtxlist EXCEPT ![t] = Tail(@)]
        /\ Unlocked /\ UNCHANGED <<p_prio, m_queue, walk>>
    BY <2>1, <2>2 DEF FreeMutex
  <2> HIDE DEF m
  <2>5. \A x \in Threads : p_mtxlist'[x] = IF x = t THEN Tail(p_mtxlist[t]) ELSE p_mtxlist[x]
    BY <1>4, <2>4
  <2>6. \A x \in Threads : Range(p_mtxlist'[x]) \ {m} = Range(p_mtxlist[x]) \ {m}
    BY <2>3, <2>5
  <2> QED BY <1>3, <2>3, <2>4, <2>6
<1> QED BY <1>2, <1>5, <1>6

LEMMA LockTakenInherits ==
    ASSUME Inv, PrioKept, NEW t \in Threads, LockTaken(t)
    PROVE  PrioKept' /\ WalkPrio'
<1>1. /\ Unlocked /\ current = t /\ walk' = <<Op(t)[2], m_owner[Op(t)[2]]>>
      /\ UNCHANGED <<current, p_prio, p_mtxlist, m_owner, m_queue>>
  BY DEF LockTaken, BeginWalk, Calls
<1>2. Walking' /\ walk'[2] = m_owner'[walk'[1]]
  BY <1>1 DEF Walking, NoWalk
<1>3. \A x \in Threads : Inherits(x)
  BY <1>1, UnlockedPrios
<1>4. \A x \in Threads : Blocked(x)' = Blocked(x)
  BY <1>1 DEF Blocked
<1>5. PrioKept'
  BY <1>1, <1>3, <1>4 DEF PrioKept, Inherits
<1> QED BY <1>2, <1>5 DEF WalkPrio

PrioInv == Inv /\ PrioKept /\ WalkPrio

LEMMA PrioInvAtInit == Init => PrioInv
<1> SUFFICES ASSUME Init PROVE PrioInv
  OBVIOUS
<1>1. p_prio = RealPrio /\ p_mtxlist = [t \in Threads |-> << >>] /\ walk = NoWalk
  BY DEF Init, KernelInit
<1>2. \A t \in Threads : Blocked(t) = {}
  BY <1>1, EmptyInOrder DEF Blocked
<1>3. \A t \in Threads : RealPrio[t] \in Nat
  BY KernelAssumption DEF HIGHPRIO
<1>4. \A t \in Threads : Inherits(t)
  BY <1>1, <1>2, <1>3 DEF Inherits
<1>5. Unlocked
  BY <1>1 DEF Unlocked, Walking
<1> QED BY <1>4, <1>5, UnlockedPrios, InvAtInit DEF PrioInv

LEMMA PrioInvKept == PrioInv /\ [Next]_vars => PrioInv'
<1> SUFFICES ASSUME PrioInv, [Next]_vars PROVE PrioInv'
  OBVIOUS
<1>1. Inv /\ PrioKept /\ WalkPrio /\ Inv'
  BY InvKept DEF PrioInv
<1>2. CASE Threads = {}
  BY <1>1, <1>2 DEF PrioInv, PrioKept, WalkPrio, WalkKept, Inv, Types, KernelTypeOK
<1>3. ASSUME Threads # {}, DmaInterrupt PROVE PrioKept' /\ WalkPrio'
  <2>1. PICK t \in Threads : TRUE
    BY <1>3
  <2> QED BY <1>1, <1>3, <2>1, OtherStepsInherit
<1>4. ASSUME NEW t \in Threads, Thread(t) \/ TimerInterrupt(t) PROVE PrioKept' /\ WalkPrio'
  BY <1>1, <1>4, OtherStepsInherit, LockTakenInherits, WalkOnInherits, LockSleepsInherits, UnlockPassInherits
     DEF Thread
<1>5. ASSUME UNCHANGED vars PROVE PrioKept' /\ WalkPrio'
  <2>1. \A t \in Threads : Blocked(t)' = Blocked(t) /\ WalkAt(t)' = WalkAt(t)
    BY <1>5 DEF vars, kernelVars, Blocked, WalkAt, Walking
  <2>2. PrioKept'
    BY <1>1, <1>5, <2>1 DEF vars, kernelVars, PrioKept, Walking
  <2>3. WalkPrio'
    <3>1. Blocked(walk[2])' = Blocked(walk[2])
      BY <1>5 DEF vars, kernelVars, Blocked
    <3> QED BY <1>1, <1>5, <3>1 DEF vars, kernelVars, WalkPrio, Walking
  <2> QED BY <2>2, <2>3
<1> QED BY <1>1, <1>2, <1>3, <1>4, <1>5 DEF Next, PrioInv

\* chmtx.c: a thread has its own priority or that of the highest thread that
\* waits for a mutex it owns, through a chain of owners of any length.
THEOREM InheritanceHolds == Spec => []Inheritance
<1>1. Init => PrioInv
  BY PrioInvAtInit
<1>2. PrioInv /\ [Next]_vars => PrioInv'
  BY PrioInvKept
<1>3. PrioInv => Inheritance
  <2> SUFFICES ASSUME PrioInv, Unlocked, NEW t \in Threads
               PROVE  LET blocked == {u \in Threads : \E m \in Range(p_mtxlist[t]) : u \in Range(m_queue[m])}
                      IN  /\ p_prio[t] >= RealPrio[t] /\ \A u \in blocked : p_prio[t] >= p_prio[u]
                          /\ p_prio[t] = RealPrio[t] \/ \E u \in blocked : p_prio[t] = p_prio[u]
    BY DEF Inheritance
  <2>1. Inherits(t)
    BY UnlockedPrios DEF PrioInv
  <2> QED BY <2>1 DEF Inherits, Blocked
<1> QED BY <1>1, <1>2, <1>3, PTL DEF Spec
=============================================================================

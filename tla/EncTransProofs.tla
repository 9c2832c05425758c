--------------------------- MODULE EncTransProofs ---------------------------
(***************************************************************************)
(* Reception and transmission for every size of the ring and of the buffer *)
(* memory, every length and number of frames.                              *)
(*                                                                         *)
(* Reception is proved for the two ways in which no other thread comes     *)
(* between the calls that read a frame: nothing is sent while frames come  *)
(* in (Apart), or only lwip_thread sends.  In the second the control byte  *)
(* of a transmission can overwrite the last cell of the ring; from then on *)
(* nothing is claimed (clobbered).  Transmission is proved for one sender. *)
(* The runs TransOverlap, TransReadMoved and TransTwoSenders show what     *)
(* happens outside these hypotheses.                                       *)
(***************************************************************************)
EXTENDS EncTrans, Integers, SequenceTheorems, TLAPS

Reading == {"start", "alloc", "end", "decrement", "input"}
Sending == {"control", "partial", "txnd", "request", "spin", "result"}
Sites == {"poll", "handled", "idle"} \cup Reading \cup Sending
OneReader == Apart \/ Senders \subseteq {Lwip}

-----------------------------------------------------------------------------
(* What holds of the chip and of both threads, whoever sends.               *)

Types ==
    /\ mem \in [0..MemTop -> 0..255]
    /\ ewrpt \in 0..MemTop /\ etxst \in 0..MemTop /\ etxnd \in 0..MemTop
    /\ erxwrpt \in 0..RxStop
    /\ txrts \in BOOLEAN /\ clobbered \in BOOLEAN /\ last \in Threads
    /\ arrived \in 0..MaxRx
    /\ site \in [Threads -> Sites]
    /\ pkt \in [Threads -> Seq(0..255)] /\ left \in [Threads -> Nat]
    /\ asked \in Seq(Seq(0..255)) /\ Len(asked) <= MaxTx
    /\ wire \in Seq([control : 0..255, data : Seq(0..255)])

\* Who is where, and how much of its pbuf it has still to write.
ThreadKept(t) ==
    /\ site[t] = "idle" => t = Tcpip
    /\ site[t] \in {"poll", "handled"} \cup Reading => t = Lwip
    /\ site[t] \in Sending => t \in Senders /\ asked # << >> /\ Len(pkt[t]) \in TxSizes
    /\ site[t] = "control" => left[t] = Len(pkt[t])
    /\ site[t] = "partial" => left[t] \in 1..Len(pkt[t])
    /\ site[t] \notin {"control", "partial"} => left[t] = 0
ThreadsKept == \A t \in Threads : ThreadKept(t)

\* No frame is put on the wire more often than it was asked for.
ToSend(t) == IF site[t] \in {"control", "partial", "txnd", "request"} THEN 1 ELSE 0
Requested == IF txrts THEN 1 ELSE 0
SendsCounted == Len(wire) + Requested + ToSend(Lwip) + ToSend(Tcpip) <= Len(asked)

KeptApart == Apart => asked = << >> \/ arrived = 0

Common == Types /\ ThreadsKept /\ SendsCounted /\ KeptApart

-----------------------------------------------------------------------------
(* The ring.  The unread frames lie one behind the other from               *)
(* next_frame_location on, all before ERXWRPT, less than a turn away.       *)

RingSize == RxStop + 1
Distance(c) == IF c >= next_frame_location THEN c - next_frame_location
               ELSE c + RingSize - next_frame_location

\* Where the k-th frame of the queue begins, or the next one will.
Start(k) == IF k <= Len(place) THEN place[k] ELSE erxwrpt

\* Between receive_end and the frame's end in the queue, the frame is out of
\* the ring already.
FirstUnread == IF site[Lwip] \in {"decrement", "input"} THEN 2 ELSE 1
Unread == FirstUnread..Len(queue)

FramesKept ==
    /\ queue \in Seq(AllFrames) /\ delivered \in Seq(AllFrames) /\ epktcnt \in Nat
    /\ Len(queue) + Len(delivered) <= arrived
    /\ place \in Seq(0..RxStop) /\ Len(place) = Len(queue)
    /\ \A k \in 1..Len(place) : place[k] % 2 = 0
    /\ site[Lwip] \in Reading => queue # << >>

PointersKept ==
    /\ next_frame_location = Start(FirstUnread)
    /\ erxrdpt = ReleasePointer(next_frame_location) \/ (erxrdpt = 0 /\ next_frame_location = 0)
    /\ erxwrpt % 2 = 0 /\ erdpt \in 0..MemTop

InOrder == \A j \in Unread, k \in Unread \cup {Len(queue) + 1} :
               j < k => Distance(Start(j)) + Space(Len(queue[j])) <= Distance(Start(k))

\* In m, the frame f with its header lies from at on.
Holds(m, at, next, f) ==
    /\ \A j \in 1..6 : m[ReadCell(at, j - 1)] = HeaderFor(next, Len(f))[j]
    /\ \A j \in 1..Len(f) : m[ReadCell(at, 5 + j)] = f[j]
Stored(k) == Holds(mem, Start(k), Start(k + 1), queue[k])
AllStored == \A k \in Unread : Stored(k)

\* What enc_read_received_pbuf has found out so far about the first frame.
ReaderKept ==
    /\ length \in Nat
    /\ site[Lwip] \in {"alloc", "end"} => header = HeaderFor(Start(2), Len(Head(queue)))
    /\ site[Lwip] = "alloc" => /\ length = Len(Head(queue))
                               /\ erdpt = ReadCell(next_frame_location, 6)
    /\ site[Lwip] \in {"end", "decrement"} => buf \in {<< >>, Head(queue)}
    /\ site[Lwip] = "input" => buf = Head(queue)
    /\ site[Lwip] \notin {"end", "decrement", "input"} => buf = << >>

RingKept == FramesKept /\ CountMatchesQueue /\ PointersKept /\ InOrder /\ AllStored /\ ReaderKept

-----------------------------------------------------------------------------
(* Arithmetic.                                                              *)

LEMMA ModOnce ==
    ASSUME NEW m \in Nat, m > 0, NEW x \in 0..(2 * m - 1)
    PROVE  x % m = IF x < m THEN x ELSE x - m
OBVIOUS

LEMMA ModIn == ASSUME NEW m \in Nat, m > 0, NEW x \in Nat PROVE x % m \in 0..(m - 1)
OBVIOUS

LEMMA DivMod ==
    ASSUME NEW m \in Nat, m > 0, NEW x \in Nat
    PROVE  x \div m \in Nat /\ x % m \in Nat /\ x % m < m /\ x = m * (x \div m) + (x % m)
<1>1. x = m * (x \div m) + (x % m)
  OBVIOUS
<1>2. x \div m \in Nat
  OBVIOUS
<1> QED
  BY <1>1, <1>2, ModIn

LEMMA DivLess ==
    ASSUME NEW m \in Nat, m > 0, NEW k \in Nat, NEW x \in Nat, x < m * k
    PROVE  x \div m < k
BY DivMod

\* What the constants say of the ring and of the memory.
LEMMA Sizes ==
    /\ RxStop \in Nat /\ MemTop \in Nat /\ RxStop < MemTop /\ RxStop % 2 = 1 /\ RxStop >= 1
    /\ RingSize \in Nat /\ RingSize = RxStop + 1 /\ RingSize % 2 = 0
BY TransAssumption DEF RingSize

\* A read inside the ring stays there.
LEMMA ReadInRing ==
    ASSUME NEW p \in 0..RxStop, NEW j \in 0..RxStop
    PROVE  /\ ReadCell(p, j) \in 0..RxStop
           /\ ReadCell(p, j) = IF p + j <= RxStop THEN p + j ELSE p + j - RingSize
<1>1. (p + j) % RingSize = IF p + j < RingSize THEN p + j ELSE p + j - RingSize
  BY Sizes, ModOnce
<1> QED
  BY <1>1, Sizes DEF ReadCell

\* Any read and write stays in the memory.
LEMMA CellsInMemory ==
    ASSUME NEW p \in Nat, NEW j \in Nat
    PROVE  ReadCell(p, j) \in 0..MemTop /\ WriteCell(p, j) \in 0..MemTop
<1>1. (p + j) % (RxStop + 1) \in 0..RxStop /\ (p + j) % (MemTop + 1) \in 0..MemTop
  BY Sizes, ModIn
<1> QED
  BY <1>1, Sizes DEF ReadCell, WriteCell

\* A write that does not reach the end of the memory does not wrap.
LEMMA WriteNoWrap ==
    ASSUME NEW p \in Nat, NEW j \in Nat, p + j <= MemTop
    PROVE  WriteCell(p, j) = p + j
BY Sizes, ModOnce DEF WriteCell

LEMMA BytesAre ==
    ASSUME NEW p \in Nat, NEW n \in Nat, mem \in [0..MemTop -> 0..255]
    PROVE  /\ Bytes(p, n) \in Seq(0..255) /\ Len(Bytes(p, n)) = n
           /\ \A j \in 1..n : Bytes(p, n)[j] = mem[ReadCell(p, j - 1)]
<1>1. \A j \in 1..n : ReadCell(p, j - 1) \in 0..MemTop
  <2> SUFFICES ASSUME NEW j \in 1..n PROVE ReadCell(p, j - 1) \in 0..MemTop
    OBVIOUS
  <2>1. j - 1 \in Nat
    OBVIOUS
  <2> QED BY <2>1, CellsInMemory
<1>2. Bytes(p, n) \in [1..n -> 0..255]
  BY <1>1 DEF Bytes
<1> QED
  BY <1>2 DEF Bytes

\* A frame with its header takes an even number of cells.
LEMMA SpaceIs == ASSUME NEW n \in Nat PROVE Space(n) \in Nat /\ Space(n) % 2 = 0 /\ 6 + n <= Space(n)
BY DEF Space, Even

\* The code takes out of a header what the chip put into it.
LEMMA HeaderIs ==
    ASSUME NEW next \in 0..MemTop, NEW n \in RxSizes
    PROVE  LET h == HeaderFor(next, n) IN
           h \in Seq(0..255) /\ Len(h) = 6 /\ NextOf(h) = next /\ LengthOf(h) = n
<1> DEFINE h == HeaderFor(next, n)
           half == Radix \div 2
<1>1. Radix \in 2..256 /\ next \in Nat /\ n \in Nat
  BY TransAssumption, Sizes
<1>2. half \in Nat /\ half > 0 /\ half < 256
  BY <1>1
<1>3. next < Radix * Radix /\ n < Radix * half
  BY TransAssumption, Sizes
<1> HIDE DEF half
<1>4. /\ next \div Radix \in Nat /\ next % Radix \in Nat /\ next % Radix < Radix
      /\ next = Radix * (next \div Radix) + (next % Radix) /\ next \div Radix < Radix
  <2>1. Radix \in Nat /\ Radix > 0
    BY <1>1
  <2>2. next \div Radix < Radix
    BY <1>1, <1>3, <2>1, DivLess
  <2> QED
    BY <1>1, <2>1, <2>2, DivMod
<1>5. /\ n \div Radix \in Nat /\ n % Radix \in Nat /\ n % Radix < Radix
      /\ n = Radix * (n \div Radix) + (n % Radix) /\ n \div Radix < half
  <2>1. Radix \in Nat /\ Radix > 0
    BY <1>1
  <2>2. n \div Radix < half
    BY <1>1, <1>2, <1>3, <2>1, DivLess
  <2> QED
    BY <1>1, <2>1, <2>2, DivMod
<1>6. (n \div Radix) % half = n \div Radix
  BY <1>2, <1>5, ModOnce
<1>7. h \in Seq(0..255) /\ Len(h) = 6
  BY <1>1, <1>2, <1>4, <1>5 DEF HeaderFor
<1>8. NextOf(h) = next
  BY <1>1, <1>4 DEF HeaderFor, NextOf
<1>9. LengthOf(h) = n
  <2>1. LengthOf(h) = h[3] + Radix * (h[4] % half)
    BY DEF LengthOf, half
  <2>2. h[3] = n % Radix /\ h[4] = n \div Radix
    BY DEF HeaderFor
  <2> HIDE DEF h
  <2>3. LengthOf(h) = (n % Radix) + Radix * (n \div Radix)
    BY <1>6, <2>1, <2>2
  <2> QED
    BY <1>1, <1>5, <2>3
<1> QED BY <1>7, <1>8, <1>9

LEMMA FrameIs ==
    /\ \A id \in 1..MaxRx, n \in RxSizes :
           RxFrame(id, n) \in AllFrames /\ Len(RxFrame(id, n)) = n
    /\ \A f \in AllFrames : f \in Seq(0..255) /\ Len(f) \in RxSizes /\ Len(f) \in Nat \ {0} /\ f # << >>
<1>1. ASSUME NEW id \in 1..MaxRx, NEW n \in RxSizes
      PROVE  /\ RxFrame(id, n) \in AllFrames /\ RxFrame(id, n) \in Seq(0..255)
             /\ Len(RxFrame(id, n)) = n /\ n \in Nat \ {0}
  <2>1. n \in Nat \ {0} /\ id \in Nat
    BY TransAssumption
  <2>2. \A j \in 1..n : (10 * id + j) % 256 \in 0..255
    BY <2>1
  <2>3. RxFrame(id, n) \in [1..n -> 0..255]
    BY <2>2 DEF RxFrame
  <2> QED
    BY <2>1, <2>3 DEF AllFrames, RxFrame
<1>2. ASSUME NEW f \in AllFrames
      PROVE  f \in Seq(0..255) /\ Len(f) \in RxSizes /\ Len(f) \in Nat \ {0} /\ f # << >>
  <2>1. PICK id \in 1..MaxRx, n \in RxSizes : f = RxFrame(id, n)
    BY DEF AllFrames
  <2> QED
    BY <1>1, <2>1
<1> QED
  BY <1>1, <1>2

-----------------------------------------------------------------------------
(* Distances in the ring, counted from next_frame_location.                 *)

LEMMA DistanceIs ==
    ASSUME next_frame_location \in 0..RxStop
    PROVE  /\ \A c \in 0..RxStop : Distance(c) \in 0..RxStop
           /\ \A c, d \in 0..RxStop : Distance(c) = Distance(d) => c = d
           /\ Distance(next_frame_location) = 0
BY Sizes DEF Distance

\* Going on from a cell by less than is left of the turn adds to its distance.
LEMMA DistanceAfter ==
    ASSUME next_frame_location \in 0..RxStop, NEW c \in 0..RxStop, NEW j \in Nat,
           Distance(c) + j <= RxStop
    PROVE  ReadCell(c, j) \in 0..RxStop /\ Distance(ReadCell(c, j)) = Distance(c) + j
<1>1. j \in 0..RxStop
  BY Sizes, DistanceIs
<1>2. /\ ReadCell(c, j) \in 0..RxStop
      /\ ReadCell(c, j) = IF c + j <= RxStop THEN c + j ELSE c + j - RingSize
  BY <1>1, ReadInRing
<1> QED
  BY <1>1, <1>2, Sizes DEF Distance

LEMMA DistanceEven ==
    ASSUME next_frame_location \in 0..RxStop, next_frame_location % 2 = 0,
           NEW c \in 0..RxStop, c % 2 = 0
    PROVE  Distance(c) % 2 = 0
BY Sizes DEF Distance

\* A cell at a given distance is found by reading on from next_frame_location.
LEMMA CellAt ==
    ASSUME next_frame_location \in 0..RxStop, NEW c \in 0..RxStop
    PROVE  c = ReadCell(next_frame_location, Distance(c))
<1>1. Distance(c) \in 0..RxStop
  BY DistanceIs
<1> QED
  BY <1>1, ReadInRing, Sizes DEF Distance

\* UnreadCells are the cells nearer than ERXWRPT.
LEMMA UnreadCellsAre ==
    ASSUME next_frame_location \in 0..RxStop, erxwrpt \in 0..RxStop,
           NEW c \in 0..RxStop, Distance(c) < Distance(erxwrpt)
    PROVE  c \in UnreadCells
<1> DEFINE used == (erxwrpt + RxStop + 1 - next_frame_location) % (RxStop + 1)
<1>1. used = Distance(erxwrpt)
  <2>1. erxwrpt + RxStop + 1 - next_frame_location \in 0..(2 * (RxStop + 1) - 1)
    BY Sizes
  <2> QED
    BY <2>1, Sizes, ModOnce DEF Distance
<1> HIDE DEF used
<1>2. Distance(c) \in 0..(used - 1)
  BY <1>1, DistanceIs
<1> QED
  BY <1>2, CellAt DEF UnreadCells, used

\* The chip, which sees only ERXRDPT, leaves at least two cells between a new
\* frame and the first unread one.
LEMMA RoomLeft ==
    ASSUME next_frame_location \in 0..RxStop, next_frame_location % 2 = 0,
           erxrdpt = ReleasePointer(next_frame_location) \/ (erxrdpt = 0 /\ next_frame_location = 0),
           erxwrpt \in 0..RxStop, erxwrpt % 2 = 0, NEW n \in Nat, Space(n) <= FreeSpace
    PROVE  Distance(erxwrpt) + Space(n) <= RxStop - 1
<1> DEFINE s == Space(n)
<1>0. erxrdpt \in 0..RxStop
  BY Sizes DEF ReleasePointer
<1>1. s \in Nat /\ s % 2 = 0
  BY SpaceIs
<1> HIDE DEF s
<1>2. CASE erxwrpt > erxrdpt
  <2>1. s <= RxStop - (erxwrpt - erxrdpt)
    BY <1>0, <1>2, Sizes DEF FreeSpace, s
  <2> QED
    BY <1>1, <1>2, <2>1, Sizes DEF Distance, ReleasePointer, s
<1>3. CASE erxwrpt = erxrdpt
  <2>1. s <= RxStop
    BY <1>3 DEF FreeSpace, s
  <2> QED
    BY <1>1, <1>3, <2>1, Sizes DEF Distance, ReleasePointer, s
<1>4. CASE erxwrpt < erxrdpt
  <2>1. s <= erxrdpt - erxwrpt - 1
    BY <1>4 DEF FreeSpace, s
  <2> QED
    BY <1>1, <1>4, <2>1, Sizes DEF Distance, ReleasePointer, s
<1> QED
  BY <1>2, <1>3, <1>4, <1>0

-----------------------------------------------------------------------------
(* The chip, and what both threads keep.                                    *)

\* One thread moves on, the other stays where it is.
LEMMA SiteMoves ==
    ASSUME site \in [Threads -> Sites], NEW t \in Threads, NEW s \in Sites, Goto(t, s)
    PROVE  /\ site' \in [Threads -> Sites] /\ site'[t] = s
           /\ \A u \in Threads : u # t => site'[u] = site[u]
BY DEF Goto

LEMMA TwoThreads == Lwip \in Threads /\ Tcpip \in Threads /\ Lwip # Tcpip /\ \A t \in Threads : t \in {Lwip, Tcpip}
BY TransAssumption DEF Threads

LEMMA SiteNames ==
    /\ Sites = {"poll", "handled", "idle", "start", "alloc", "end", "decrement", "input",
                "control", "partial", "txnd", "request", "spin", "result"}
    /\ Reading \subseteq Sites /\ Sending \subseteq Sites
BY DEF Sites, Reading, Sending

\* low_level_input moves on.
LEMMA ReaderMoves ==
    ASSUME Common, NEW s \in {"poll", "handled"} \cup Reading, Goto(Lwip, s), last' \in Threads,
           site[Lwip] \in {"poll", "handled"} \cup Reading,
           UNCHANGED <<mem, ewrpt, etxst, etxnd, erxwrpt, txrts, clobbered, arrived, pkt, left, asked, wire>>
    PROVE  Common'
<1>1. Types /\ s \in Sites /\ site[Lwip] \in Sites
  BY SiteNames DEF Common
<1>2. /\ site' \in [Threads -> Sites] /\ site'[Lwip] = s
      /\ \A u \in Threads : u # Lwip => site'[u] = site[u]
  BY <1>1, TwoThreads, SiteMoves DEF Types
<1>3. Types'
  BY <1>1, <1>2 DEF Types
<1>4. ThreadsKept'
  <2> SUFFICES ASSUME NEW t \in Threads PROVE ThreadKept(t)'
    BY DEF ThreadsKept
  <2>1. ThreadKept(t)
    BY DEF Common, ThreadsKept
  <2>2. CASE t = Lwip
    BY <1>2, <2>1, <2>2, TwoThreads DEF ThreadKept, Reading, Sending
  <2>3. CASE t # Lwip
    BY <1>2, <2>1, <2>3 DEF ThreadKept
  <2> QED BY <2>2, <2>3
<1>5. SendsCounted'
  <2>1. ToSend(Lwip) = 0 /\ ToSend(Lwip)' = 0 /\ ToSend(Tcpip)' = ToSend(Tcpip)
    BY <1>2, TwoThreads DEF ToSend, Reading
  <2> QED
    BY <2>1 DEF Common, SendsCounted, Requested
<1>6. KeptApart'
  BY DEF Common, KeptApart
<1> QED
  BY <1>3, <1>4, <1>5, <1>6 DEF Common

\* The bytes of a frame that arrives, and where they go.
Arrival(n) == HeaderFor(ReadCell(erxwrpt, Space(n)), n) \o RxFrame(arrived + 1, n)
Hits(n, c) == {j \in 1..Len(Arrival(n)) : ReadCell(erxwrpt, j - 1) = c}

LEMMA ArrivalIs ==
    ASSUME Common, NEW n \in RxSizes, arrived < MaxRx
    PROVE  LET next == ReadCell(erxwrpt, Space(n))
           IN  /\ next \in 0..MemTop /\ Arrival(n) \in Seq(0..255) /\ Len(Arrival(n)) = 6 + n
               /\ RxFrame(arrived + 1, n) \in AllFrames /\ Len(RxFrame(arrived + 1, n)) = n
               /\ \A j \in 1..6 : Arrival(n)[j] = HeaderFor(next, n)[j]
               /\ \A j \in 1..n : Arrival(n)[6 + j] = RxFrame(arrived + 1, n)[j]
<1> DEFINE next == ReadCell(erxwrpt, Space(n))
           h == HeaderFor(next, n)
           f == RxFrame(arrived + 1, n)
<1>1. n \in Nat /\ Space(n) \in Nat /\ erxwrpt \in Nat /\ arrived + 1 \in 1..MaxRx
  <2>1. n \in Nat
    BY TransAssumption
  <2> QED
    BY <2>1, SpaceIs, Sizes, TransAssumption DEF Common, Types
<1>2. next \in 0..MemTop
  BY <1>1, CellsInMemory
<1>3. h \in Seq(0..255) /\ Len(h) = 6
  BY <1>2, HeaderIs
<1>4. f \in AllFrames /\ Len(f) = n /\ f \in Seq(0..255)
  BY <1>1, FrameIs
<1> HIDE DEF next, h, f
<1>5. /\ h \o f \in Seq(0..255) /\ Len(h \o f) = 6 + n
      /\ \A j \in 1..(6 + n) : (h \o f)[j] = IF j <= 6 THEN h[j] ELSE f[j - 6]
  <2>1. /\ h \o f \in Seq(0..255) /\ Len(h \o f) = Len(h) + Len(f)
        /\ \A j \in 1..Len(h) + Len(f) : (h \o f)[j] = IF j <= Len(h) THEN h[j] ELSE f[j - Len(h)]
    BY <1>3, <1>4, ConcatProperties, ZenonT(30)
  <2> QED BY <1>3, <1>4, <2>1
<1>6. \A j \in 1..6 : (h \o f)[j] = h[j]
  BY <1>1, <1>5
<1>7. \A j \in 1..n : (h \o f)[6 + j] = f[j]
  <2> SUFFICES ASSUME NEW j \in 1..n PROVE (h \o f)[6 + j] = f[j]
    OBVIOUS
  <2>1. 6 + j \in 1..(6 + n) /\ ~(6 + j <= 6) /\ (6 + j) - 6 = j
    BY <1>1
  <2> QED BY <1>5, <2>1
<1> QED
  BY <1>2, <1>4, <1>5, <1>6, <1>7 DEF next, h, f, Arrival

\* A cell in which the frame has its j-th byte, or none.
LEMMA ArrivalStep ==
    ASSUME Common, FrameArrives
    PROVE  \E n \in RxSizes :
               /\ n \in Nat /\ arrived < MaxRx /\ Space(n) <= FreeSpace
               /\ erxwrpt' = ReadCell(erxwrpt, Space(n))
               /\ queue' = Append(queue, RxFrame(arrived + 1, n)) /\ place' = Append(place, erxwrpt)
               /\ mem' \in [0..MemTop -> 0..255]
               /\ \A c \in 0..MemTop :
                      \/ mem'[c] = mem[c] /\ \A j \in 1..(6 + n) : ReadCell(erxwrpt, j - 1) # c
                      \/ \E j \in 1..(6 + n) : ReadCell(erxwrpt, j - 1) = c /\ mem'[c] = Arrival(n)[j]
<1>1. PICK n \in RxSizes :
          /\ Space(n) <= FreeSpace /\ erxwrpt' = ReadCell(erxwrpt, Space(n))
          /\ mem' = [c \in DOMAIN mem |-> IF Hits(n, c) = {} THEN mem[c]
                                          ELSE Arrival(n)[CHOOSE j \in Hits(n, c) : TRUE]]
          /\ queue' = Append(queue, RxFrame(arrived + 1, n)) /\ place' = Append(place, erxwrpt)
  BY Zenon DEF FrameArrives, Arrival, Hits
<1>2. arrived < MaxRx /\ n \in Nat
  BY TransAssumption DEF FrameArrives, MayArrive
<1>3. Arrival(n) \in Seq(0..255) /\ Len(Arrival(n)) = 6 + n
  BY <1>2, ArrivalIs
<1>4. DOMAIN mem = 0..MemTop /\ mem \in [0..MemTop -> 0..255]
  BY DEF Common, Types
<1>5. mem' = [c \in 0..MemTop |-> IF Hits(n, c) = {} THEN mem[c]
                                  ELSE Arrival(n)[CHOOSE j \in Hits(n, c) : TRUE]]
  BY <1>1, <1>4, Zenon
<1>10. /\ \A c \in 0..MemTop : mem'[c] = IF Hits(n, c) = {} THEN mem[c]
                                         ELSE Arrival(n)[CHOOSE j \in Hits(n, c) : TRUE]
       /\ mem' = [c \in 0..MemTop |-> mem'[c]]
  <2>1. \A c \in 0..MemTop : mem'[c] = IF Hits(n, c) = {} THEN mem[c]
                                        ELSE Arrival(n)[CHOOSE j \in Hits(n, c) : TRUE]
    BY <1>5, Zenon
  <2>2. mem' = [c \in 0..MemTop |-> mem'[c]]
    BY <1>5, <2>1, Zenon
  <2> QED BY <2>1, <2>2
<1>6. \A c \in 0..MemTop : Hits(n, c) # {} => (CHOOSE j \in Hits(n, c) : TRUE) \in Hits(n, c)
  OBVIOUS
<1>7. \A c \in 0..MemTop :
          \/ mem'[c] = mem[c] /\ \A j \in 1..(6 + n) : ReadCell(erxwrpt, j - 1) # c
          \/ \E j \in 1..(6 + n) : ReadCell(erxwrpt, j - 1) = c /\ mem'[c] = Arrival(n)[j]
  BY <1>3, <1>10, <1>6 DEF Hits
<1>8. \A j \in 1..(6 + n) : Arrival(n)[j] \in 0..255
  BY <1>3, ElementOfSeq
<1>9. \A c \in 0..MemTop : mem'[c] \in 0..255
  BY <1>4, <1>7, <1>8
<1> QED
  BY <1>1, <1>2, <1>10, <1>7, <1>9

\* The ring is all that it writes to.
LEMMA ArrivalInRing ==
    ASSUME Common, FrameArrives
    PROVE  /\ mem' \in [0..MemTop -> 0..255] /\ erxwrpt' \in 0..RxStop
           /\ \A c \in 0..MemTop : c > RxStop => mem'[c] = mem[c]
<1>1. PICK n \in RxSizes :
          /\ n \in Nat /\ erxwrpt' = ReadCell(erxwrpt, Space(n)) /\ mem' \in [0..MemTop -> 0..255]
          /\ \A c \in 0..MemTop : mem'[c] = mem[c] \/ \E j \in 1..(6 + n) : ReadCell(erxwrpt, j - 1) = c
  BY ArrivalStep, Zenon
<1>2. erxwrpt \in 0..RxStop /\ Space(n) \in Nat
  BY <1>1, SpaceIs DEF Common, Types
<1>3. ASSUME NEW j \in Nat PROVE ReadCell(erxwrpt, j) \in 0..RxStop
  <2>1. erxwrpt + j \in Nat
    BY <1>2, Sizes
  <2>2. ReadCell(erxwrpt, j) = (erxwrpt + j) % (RxStop + 1)
    BY <1>2, Sizes DEF ReadCell
  <2> QED BY <2>1, <2>2, ModIn, Sizes
<1>4. \A j \in 1..(6 + n) : ReadCell(erxwrpt, j - 1) \in 0..RxStop
  <2> SUFFICES ASSUME NEW j \in 1..(6 + n) PROVE ReadCell(erxwrpt, j - 1) \in 0..RxStop
    OBVIOUS
  <2>1. j - 1 \in Nat
    BY <1>1
  <2> QED BY <1>3, <2>1
<1>5. ASSUME NEW c \in 0..MemTop, c > RxStop PROVE mem'[c] = mem[c]
  <2>1. c \notin 0..RxStop
    BY <1>5, Sizes
  <2> QED BY <1>1, <1>4, <2>1
<1> QED
  BY <1>1, <1>2, <1>3, <1>5

LEMMA ArrivalCommon == ASSUME Common, FrameArrives PROVE Common'
<1>1. /\ arrived < MaxRx /\ (Apart => asked = << >>) /\ arrived' = arrived + 1
      /\ UNCHANGED <<ewrpt, etxst, etxnd, txrts, site, pkt, left, wire, asked, clobbered, last>>
  BY DEF FrameArrives, MayArrive, txPtrs, txLocal, txPast
<1>2. Types'
  BY <1>1, ArrivalInRing, TransAssumption DEF Common, Types
<1>3. ThreadsKept' /\ SendsCounted' /\ KeptApart'
  BY <1>1 DEF Common, ThreadsKept, ThreadKept, SendsCounted, Requested, ToSend, KeptApart
<1> QED
  BY <1>2, <1>3 DEF Common

LEMMA DropCommon == ASSUME Common, FrameDropped PROVE Common'
<1>1. /\ arrived < MaxRx /\ (Apart => asked = << >>) /\ arrived' = arrived + 1
      /\ UNCHANGED <<mem, erxwrpt, ewrpt, etxst, etxnd, txrts, site, pkt, left, wire, asked, clobbered, last>>
  BY DEF FrameDropped, MayArrive, rxPtrs, txPtrs, txLocal, txPast
<1>2. Types'
  BY <1>1, TransAssumption DEF Common, Types
<1>3. ThreadsKept' /\ SendsCounted' /\ KeptApart'
  BY <1>1 DEF Common, ThreadsKept, ThreadKept, SendsCounted, Requested, ToSend, KeptApart
<1> QED
  BY <1>2, <1>3 DEF Common

\* A write puts bytes only into the cells that it covers.
LEMMA WriteIs ==
    ASSUME mem \in [0..MemTop -> 0..255], NEW p \in Nat, NEW data \in Seq(0..255)
    PROVE  /\ Write(mem, p, data) \in [0..MemTop -> 0..255]
           /\ \A c \in 0..MemTop :
                  \/ /\ Write(mem, p, data)[c] = mem[c]
                     /\ \A j \in 1..Len(data) : WriteCell(p, j - 1) # c
                  \/ \E j \in 1..Len(data) : WriteCell(p, j - 1) = c /\ Write(mem, p, data)[c] = data[j]
<1> DEFINE Covers(j, c) == WriteCell(p, j - 1) = c
           W == Write(mem, p, data)
<1>1. W = [c \in DOMAIN mem |-> IF \E j \in 1..Len(data) : Covers(j, c)
                                THEN data[CHOOSE j \in 1..Len(data) : Covers(j, c)] ELSE mem[c]]
  BY Zenon DEF Write
<1>2. DOMAIN mem = 0..MemTop
  OBVIOUS
<1> HIDE DEF Covers, W
<1>3. /\ DOMAIN W = 0..MemTop /\ W = [c \in 0..MemTop |-> W[c]]
      /\ \A c \in 0..MemTop : W[c] = IF \E j \in 1..Len(data) : Covers(j, c)
                                     THEN data[CHOOSE j \in 1..Len(data) : Covers(j, c)] ELSE mem[c]
  BY <1>1, <1>2, Zenon
<1>4. \A c \in 0..MemTop : (\E j \in 1..Len(data) : Covers(j, c)) =>
          (CHOOSE j \in 1..Len(data) : Covers(j, c)) \in {j \in 1..Len(data) : Covers(j, c)}
  OBVIOUS
<1>5. \A c \in 0..MemTop :
          \/ W[c] = mem[c] /\ \A j \in 1..Len(data) : ~Covers(j, c)
          \/ \E j \in 1..Len(data) : Covers(j, c) /\ W[c] = data[j]
  BY <1>3, <1>4
<1>6. \A j \in 1..Len(data) : data[j] \in 0..255
  BY ElementOfSeq
<1>7. \A c \in 0..MemTop : W[c] \in 0..255
  BY <1>5, <1>6
<1>8. W \in [0..MemTop -> 0..255]
  BY <1>3, <1>7
<1> QED
  BY <1>5, <1>8 DEF Covers, W

LEMMA TransmittedCommon == ASSUME Common, Transmitted PROVE Common'
<1>1. /\ txrts /\ txrts' = FALSE
      /\ wire' = Append(wire, [control |-> mem[etxst],
                               data |-> [j \in 1..(etxnd - etxst) |-> mem[WriteCell(etxst, j)]]])
      /\ mem' = Write(mem, etxnd + 1, <<9, 9, 9, 9, 9, 9, 9>>)
      /\ UNCHANGED <<erxwrpt, ewrpt, etxst, etxnd, site, pkt, left, asked, arrived, clobbered, last>>
  BY DEF Transmitted, rxPtrs, txPtrs, txLocal, rxPast
<1>2. Types
  BY DEF Common
<1>3. mem' \in [0..MemTop -> 0..255]
  <2>1. <<9, 9, 9, 9, 9, 9, 9>> \in Seq(0..255)
    OBVIOUS
  <2>2. etxnd + 1 \in Nat
    BY <1>2 DEF Types
  <2> QED
    BY <1>1, <1>2, <2>1, <2>2, WriteIs DEF Types
<1>4. wire' \in Seq([control : 0..255, data : Seq(0..255)]) /\ Len(wire') = Len(wire) + 1
  <2> DEFINE d == [j \in 1..(etxnd - etxst) |-> mem[WriteCell(etxst, j)]]
             w == [control |-> mem[etxst], data |-> d]
  <2>1. \A j \in 1..(etxnd - etxst) : WriteCell(etxst, j) \in 0..MemTop
    <3> SUFFICES ASSUME NEW j \in 1..(etxnd - etxst) PROVE WriteCell(etxst, j) \in 0..MemTop
      OBVIOUS
    <3>1. j \in Nat /\ etxst \in Nat
      BY <1>2 DEF Types
    <3> QED BY <3>1, CellsInMemory
  <2>2. d \in Seq(0..255)
    <3>1. CASE etxnd - etxst \in Nat
      BY <1>2, <2>1, <3>1 DEF Types
    <3>2. CASE etxnd - etxst \notin Nat
      <4>1. 1..(etxnd - etxst) = 1..0
        BY <1>2, <3>2 DEF Types
      <4>2. d \in [1..0 -> 0..255]
        BY <1>2, <2>1, <4>1 DEF Types
      <4>3. d \in Seq(0..255)
        <5>1. [1..0 -> 0..255] \in {[1..n -> 0..255] : n \in Nat}
          OBVIOUS
        <5>2. Seq(0..255) = UNION {[1..n -> 0..255] : n \in Nat}
          BY SeqDef
        <5> HIDE DEF d
        <5> QED BY <4>2, <5>1, <5>2
      <4> QED BY <4>3
    <3> QED BY <3>1, <3>2
  <2> HIDE DEF d
  <2>3. w \in [control : 0..255, data : Seq(0..255)]
    BY <1>2, <2>2 DEF Types
  <2>4. wire' = Append(wire, w)
    BY <1>1 DEF d
  <2> HIDE DEF w
  <2> QED
    BY <1>2, <2>3, <2>4, AppendProperties DEF Types
<1>5. Types'
  BY <1>1, <1>2, <1>3, <1>4 DEF Types
<1>6. SendsCounted'
  <2>1. Len(wire) \in Nat /\ Len(asked) \in Nat /\ ToSend(Lwip) \in 0..1 /\ ToSend(Tcpip) \in 0..1
    BY <1>2 DEF Types, ToSend
  <2>2. ToSend(Lwip)' = ToSend(Lwip) /\ ToSend(Tcpip)' = ToSend(Tcpip)
    BY <1>1 DEF ToSend
  <2> QED
    BY <1>1, <1>4, <2>1, <2>2 DEF Common, SendsCounted, Requested
<1>7. ThreadsKept' /\ KeptApart'
  BY <1>1 DEF Common, ThreadsKept, ThreadKept, KeptApart
<1> QED
  BY <1>5, <1>6, <1>7 DEF Common

LEMMA TxFrameIs ==
    ASSUME NEW id \in Nat, NEW n \in TxSizes
    PROVE  /\ TxFrame(id, n) \in Seq(0..255) /\ Len(TxFrame(id, n)) = n
           /\ n \in Nat \ {0} /\ RxStop + n + 7 <= MemTop
<1>1. n \in Nat \ {0} /\ RxStop + n + 7 <= MemTop
  BY TransAssumption
<1>2. \A j \in 1..n : (100 + 10 * id + j) % 256 \in 0..255
  BY <1>1
<1>3. TxFrame(id, n) \in [1..n -> 0..255]
  BY <1>1, <1>2 DEF TxFrame
<1> QED
  BY <1>1, <1>3 DEF TxFrame

LEMMA Lengths ==
    /\ Types => Len(wire) \in Nat /\ Len(asked) \in Nat
    /\ Types' => Len(wire') \in Nat /\ Len(asked') \in Nat
<1>1. Types => Len(wire) \in Nat /\ Len(asked) \in Nat
  BY LenProperties DEF Types
<1>2. Types' => Len(wire') \in Nat /\ Len(asked') \in Nat
  BY LenProperties DEF Types
<1> QED BY <1>1, <1>2

\* enc_transmit_pbuf moves on, in one of the threads.
LEMMA SenderMoves ==
    ASSUME Common, NEW t \in Threads, NEW s \in Sites, Goto(t, s), Types', ThreadKept(t)',
           UNCHANGED arrived, asked' = asked \/ (asked' # << >> /\ (Apart => arrived = 0)),
           \A u \in Threads : u # t => pkt'[u] = pkt[u] /\ left'[u] = left[u],
           Len(wire') + Requested' + ToSend(t)' + Len(asked)
               <= Len(wire) + Requested + ToSend(t) + Len(asked')
    PROVE  Common'
<1>1. /\ site' \in [Threads -> Sites] /\ site'[t] = s
      /\ \A u \in Threads : u # t => site'[u] = site[u]
  BY SiteMoves DEF Common, Types
<1>2. ThreadsKept'
  <2> SUFFICES ASSUME NEW u \in Threads, u # t PROVE ThreadKept(u)'
    BY DEF ThreadsKept
  <2>1. ThreadKept(u)
    BY DEF Common, ThreadsKept
  <2>2. site'[u] = site[u] /\ pkt'[u] = pkt[u] /\ left'[u] = left[u]
    BY <1>1
  <2> QED
    BY <2>1, <2>2 DEF ThreadKept
<1>3. SendsCounted'
  <2>1. PICK u \in Threads : u # t /\ ToSend(Lwip) + ToSend(Tcpip) = ToSend(t) + ToSend(u)
                                   /\ ToSend(Lwip)' + ToSend(Tcpip)' = ToSend(t)' + ToSend(u)'
    BY TwoThreads DEF ToSend
  <2>2. ToSend(u)' = ToSend(u)
    BY <1>1, <2>1 DEF ToSend
  <2>3. Len(wire) \in Nat /\ Len(asked) \in Nat /\ Len(wire') \in Nat /\ Len(asked') \in Nat
    BY Lengths DEF Common
  <2>4. ToSend(t) \in 0..1 /\ ToSend(u) \in 0..1 /\ ToSend(t)' \in 0..1
        /\ ToSend(Lwip) \in 0..1 /\ ToSend(Tcpip) \in 0..1 /\ ToSend(Lwip)' \in 0..1 /\ ToSend(Tcpip)' \in 0..1
    BY DEF ToSend
  <2>5. Len(wire) + Requested + ToSend(t) + ToSend(u) <= Len(asked)
    BY <2>1, <2>3, <2>4 DEF Common, SendsCounted, Requested
  <2>6. Requested \in 0..1 /\ Requested' \in 0..1
    BY DEF Requested
  <2>7. Len(wire') + Requested' + ToSend(t)' + ToSend(u)' <= Len(asked')
    BY <2>2, <2>3, <2>4, <2>5, <2>6
  <2> QED
    BY <2>1, <2>2, <2>3, <2>4, <2>6, <2>7 DEF SendsCounted
<1>4. KeptApart'
  BY DEF Common, KeptApart
<1> QED
  BY <1>2, <1>3, <1>4 DEF Common

LEMMA StartCommon == ASSUME Common, NEW t \in Threads, TransmitStart(t) PROVE Common'
<1>1. PICK n \in TxSizes :
          /\ pkt' = [pkt EXCEPT ![t] = TxFrame(Len(asked) + 1, n)]
          /\ left' = [left EXCEPT ![t] = n]
          /\ asked' = Append(asked, TxFrame(Len(asked) + 1, n))
  BY DEF TransmitStart
<1>2. /\ t \in Senders /\ Len(asked) < MaxTx /\ (Apart => arrived = 0) /\ site[t] \in {"handled", "idle"}
      /\ etxst' = RxStop /\ Goto(t, "control") /\ last' = t
      /\ UNCHANGED <<mem, erxwrpt, ewrpt, etxnd, txrts, arrived, wire, clobbered>>
  BY DEF TransmitStart, Calls, rxbufsize, rxPtrs, rxPast
<1>3. Types /\ ThreadKept(t)
  BY DEF Common, ThreadsKept
<1> DEFINE f == TxFrame(Len(asked) + 1, n)
<1>4. f \in Seq(0..255) /\ Len(f) = n /\ n \in Nat \ {0}
  BY <1>3, TxFrameIs DEF Types
<1> HIDE DEF f
<1>5. pkt' = [pkt EXCEPT ![t] = f] /\ asked' = Append(asked, f)
  BY <1>1 DEF f
<1>6. asked' \in Seq(Seq(0..255)) /\ Len(asked') = Len(asked) + 1 /\ asked' # << >>
  <2> DEFINE S == Seq(0..255)
  <2>1. asked \in Seq(S) /\ f \in S
    BY <1>3, <1>4 DEF Types
  <2> HIDE DEF S
  <2>2. Append(asked, f) \in Seq(S) /\ Append(asked, f) # << >> /\ Len(Append(asked, f)) = Len(asked) + 1
    BY <2>1, AppendProperties
  <2> QED
    BY <1>5, <2>2 DEF S
<1>7. /\ pkt' \in [Threads -> Seq(0..255)] /\ pkt'[t] = f
      /\ left' \in [Threads -> Nat] /\ left'[t] = n
      /\ \A u \in Threads : u # t => pkt'[u] = pkt[u] /\ left'[u] = left[u]
  BY <1>1, <1>3, <1>4, <1>5 DEF Types
<1>8. site' \in [Threads -> Sites] /\ site'[t] = "control" /\ "control" \in Sites
  BY <1>2, <1>3, SiteMoves, SiteNames DEF Types
<1>9. Types'
  <2>1. Len(asked) + 1 <= MaxTx
    BY <1>2, <1>3, TransAssumption DEF Types
  <2> QED
    BY <1>2, <1>3, <1>6, <1>7, <1>8, <2>1, Sizes, SMTT(20) DEF Types
<1>10. ThreadKept(t)'
  BY <1>2, <1>4, <1>6, <1>7, <1>8 DEF ThreadKept, Reading, Sending
<1>11. ToSend(t) = 0 /\ ToSend(t)' = 1
  BY <1>2, <1>8 DEF ToSend
<1>12. Len(wire) \in Nat /\ Len(asked) \in Nat
  BY <1>3, Lengths
<1>13. Len(wire') + Requested' + ToSend(t)' + Len(asked)
           <= Len(wire) + Requested + ToSend(t) + Len(asked')
  <2>1. Requested' = Requested /\ Requested \in 0..1 /\ wire' = wire
    BY <1>2 DEF Requested
  <2> QED
    BY <1>6, <1>11, <1>12, <2>1
<1> QED
  BY <1>2, <1>6, <1>7, <1>8, <1>9, <1>10, <1>13, SenderMoves

\* A step of a thread in the course of a transmission: no new frame.
LEMMA SendingStep ==
    ASSUME Common, NEW t \in Threads, NEW s \in Sites, Goto(t, s), Types', ThreadKept(t)',
           UNCHANGED <<arrived, asked, wire>>,
           \A u \in Threads : u # t => pkt'[u] = pkt[u] /\ left'[u] = left[u],
           \/ txrts' = txrts /\ (ToSend(t)' = ToSend(t) \/ ToSend(t)' = 0)
           \/ ToSend(t) = 1 /\ ToSend(t)' = 0
    PROVE  Common'
<1>1. Len(wire) \in Nat /\ Len(asked) \in Nat /\ ToSend(t) \in 0..1 /\ ToSend(t)' \in 0..1
  BY Lengths DEF Common, ToSend
<1>2. Len(wire') + Requested' + ToSend(t)' + Len(asked)
          <= Len(wire) + Requested + ToSend(t) + Len(asked')
  BY <1>1 DEF Requested
<1> QED
  BY <1>2, SenderMoves

LEMMA ControlCommon == ASSUME Common, NEW t \in Threads, ControlByte(t) PROVE Common'
<1>1. /\ site[t] = "control" /\ mem' = Write(mem, RxStop, <<0>>) /\ ewrpt' = WriteCell(RxStop, 1)
      /\ clobbered' = (clobbered \/ RxStop \in UnreadCells)
      /\ Goto(t, "partial") /\ last' = t
      /\ UNCHANGED <<erxwrpt, etxst, etxnd, txrts, pkt, left, arrived, wire, asked>>
  BY DEF ControlByte, Calls, rxbufsize, rxPtrs, txLocal, rxPast
<1>2. Types /\ ThreadKept(t)
  BY DEF Common, ThreadsKept
<1>3. mem' \in [0..MemTop -> 0..255]
  <2>1. <<0>> \in Seq(0..255)
    OBVIOUS
  <2> QED
    BY <1>1, <1>2, <2>1, Sizes, WriteIs DEF Types
<1>4. ewrpt' \in 0..MemTop
  BY <1>1, Sizes, CellsInMemory
<1>5. site' \in [Threads -> Sites] /\ site'[t] = "partial" /\ "partial" \in Sites
  BY <1>1, <1>2, SiteMoves, SiteNames DEF Types
<1>6. Types'
  BY <1>1, <1>2, <1>3, <1>4, <1>5 DEF Types
<1>7. ThreadKept(t)'
  <2>1. left[t] \in 1..Len(pkt[t])
    BY <1>1, <1>2, TransAssumption DEF ThreadKept, Sending
  <2> QED
    BY <1>1, <1>2, <1>5, <2>1 DEF ThreadKept, Reading, Sending
<1>8. ToSend(t)' = ToSend(t)
  BY <1>1, <1>5 DEF ToSend
<1> QED
  BY <1>1, <1>5, <1>6, <1>7, <1>8, SendingStep

\* The bytes that the next call writes.
LEMMA PartIs ==
    ASSUME Common, NEW t \in Threads, site[t] = "partial", NEW n \in 1..left[t]
    PROVE  LET done == Len(pkt[t]) - left[t]
               part == SubSeq(pkt[t], done + 1, done + n)
           IN  /\ done \in 0..(Len(pkt[t]) - n) /\ part \in Seq(0..255) /\ Len(part) = n
               /\ \A j \in 1..n : part[j] = pkt[t][done + j]
<1> DEFINE done == Len(pkt[t]) - left[t]
           part == SubSeq(pkt[t], done + 1, done + n)
<1>1. pkt[t] \in Seq(0..255) /\ left[t] \in 1..Len(pkt[t])
  BY DEF Common, Types, ThreadsKept, ThreadKept
<1>2. Len(pkt[t]) \in Nat /\ n \in Nat /\ done \in 0..(Len(pkt[t]) - n)
  BY <1>1
<1> HIDE DEF done
<1>3. \A j \in (done + 1)..(done + n) : pkt[t][j] \in 0..255
  <2> SUFFICES ASSUME NEW j \in (done + 1)..(done + n) PROVE pkt[t][j] \in 0..255
    OBVIOUS
  <2>1. j \in 1..Len(pkt[t])
    BY <1>2
  <2> QED BY <1>1, <2>1, ElementOfSeq
<1>4. /\ part \in Seq(0..255)
      /\ Len(part) = IF done + 1 <= done + n THEN (done + n) - (done + 1) + 1 ELSE 0
      /\ \A j \in 1..((done + n) - (done + 1) + 1) : part[j] = pkt[t][(done + 1) + j - 1]
  BY <1>2, <1>3, SubSeqProperties
<1>5. (done + n) - (done + 1) + 1 = n /\ n >= 1 /\ \A j \in 1..n : (done + 1) + j - 1 = done + j
  BY <1>2
<1>6. Len(part) = n /\ \A j \in 1..n : part[j] = pkt[t][done + j]
  BY <1>4, <1>5, <1>2
<1> QED
  BY <1>2, <1>4, <1>6 DEF done

LEMMA PartialCommon == ASSUME Common, NEW t \in Threads, TransmitPartial(t) PROVE Common'
<1>1. PICK n \in 1..left[t] :
          LET part == SubSeq(pkt[t], Len(pkt[t]) - left[t] + 1, Len(pkt[t]) - left[t] + n)
          IN  /\ mem' = Write(mem, ewrpt, part) /\ ewrpt' = WriteCell(ewrpt, n)
              /\ left' = [left EXCEPT ![t] = left[t] - n]
              /\ Goto(t, IF n = left[t] THEN "txnd" ELSE "partial")
  BY DEF TransmitPartial
<1>2. /\ site[t] = "partial" /\ last' = t
      /\ UNCHANGED <<erxwrpt, etxst, etxnd, txrts, pkt, arrived, wire, asked, clobbered>>
  BY DEF TransmitPartial, Calls, rxPtrs, rxPast, txPast
<1>3. Types /\ ThreadKept(t) /\ left[t] \in 1..Len(pkt[t]) /\ Len(pkt[t]) \in Nat
  BY <1>2, SMTT(20) DEF Common, ThreadsKept, ThreadKept, Types
<1> DEFINE part == SubSeq(pkt[t], Len(pkt[t]) - left[t] + 1, Len(pkt[t]) - left[t] + n)
           s == IF n = left[t] THEN "txnd" ELSE "partial"
<1>4. part \in Seq(0..255) /\ mem' = Write(mem, ewrpt, part) /\ ewrpt' = WriteCell(ewrpt, n) /\ Goto(t, s)
  BY <1>1, <1>2, PartIs
<1> HIDE DEF part
<1>5. mem' \in [0..MemTop -> 0..255] /\ ewrpt' \in 0..MemTop
  <2>1. ewrpt \in Nat /\ n \in Nat
    BY <1>3, Sizes DEF Types
  <2> QED
    BY <1>3, <1>4, <2>1, WriteIs, CellsInMemory DEF Types
<1>6. /\ site' \in [Threads -> Sites] /\ site'[t] = s /\ s \in Sites
      /\ left' \in [Threads -> Nat] /\ left'[t] = left[t] - n
      /\ \A u \in Threads : u # t => left'[u] = left[u]
  <2>1. s \in Sites
    BY SiteNames
  <2>2. left[t] - n \in Nat
    BY <1>3
  <2> QED
    BY <1>1, <1>3, <1>4, <2>1, <2>2, SiteMoves DEF Types
<1>7. Types'
  BY <1>2, <1>3, <1>5, <1>6 DEF Types
<1>8. ThreadKept(t)'
  BY <1>2, <1>3, <1>6 DEF ThreadKept, Reading, Sending
<1>9. ToSend(t)' = ToSend(t)
  BY <1>2, <1>6 DEF ToSend
<1> QED
  BY <1>2, <1>4, <1>6, <1>7, <1>8, <1>9, SendingStep

\* The steps that only set a register, or read.
LEMMA RegisterCommon ==
    ASSUME Common, NEW t \in Threads, NEW s \in {"request", "spin", "result", "handled", "idle"},
           Goto(t, s), site[t] \in {"txnd", "request", "spin", "result"},
           s = "handled" => t = Lwip, s = "idle" => t = Tcpip,
           last' = t, etxnd' \in 0..MemTop, pkt' \in [Threads -> Seq(0..255)],
           \A u \in Threads : u # t => pkt'[u] = pkt[u], s \in Sending => pkt'[t] = pkt[t],
           txrts' = txrts \/ (txrts' = TRUE /\ site[t] = "request"), site[t] = "txnd" <=> s = "request",
           UNCHANGED <<mem, erxwrpt, ewrpt, etxst, left, arrived, wire, asked, clobbered>>
    PROVE  Common'
<1>1. Types /\ ThreadKept(t)
  BY DEF Common, ThreadsKept
<1>2. site' \in [Threads -> Sites] /\ site'[t] = s /\ s \in Sites
  BY <1>1, SiteMoves, SiteNames DEF Types
<1>3. Types'
  BY <1>1, <1>2 DEF Types
<1>4. ThreadKept(t)'
  BY <1>1, <1>2 DEF ThreadKept, Reading, Sending
<1>5. \/ txrts' = txrts /\ (ToSend(t)' = ToSend(t) \/ ToSend(t)' = 0)
      \/ ToSend(t) = 1 /\ ToSend(t)' = 0
  BY <1>2 DEF ToSend
<1> QED
  BY <1>2, <1>3, <1>4, <1>5, SendingStep

LEMMA EndCommon == ASSUME Common, NEW t \in Threads, TransmitEnd(t) PROVE Common'
<1>1. /\ site[t] = "txnd" /\ etxnd' = RxStop + 1 + Len(pkt[t]) - 1 /\ Goto(t, "request") /\ last' = t
      /\ UNCHANGED <<mem, erxwrpt, ewrpt, etxst, txrts, pkt, left, arrived, wire, asked, clobbered>>
  BY DEF TransmitEnd, Calls, rxbufsize, rxPtrs, txLocal, rxPast, txPast
<1>2. etxnd' \in 0..MemTop
  <2>1. Len(pkt[t]) \in TxSizes
    BY <1>1 DEF Common, ThreadsKept, ThreadKept, Sending
  <2> DEFINE n == Len(pkt[t])
  <2>2. n \in Nat /\ n >= 1 /\ RxStop + n + 7 <= MemTop
    BY <2>1, TransAssumption
  <2>3. etxnd' = RxStop + 1 + n - 1
    BY <1>1
  <2> HIDE DEF n
  <2>4. etxnd' = RxStop + n /\ RxStop + n \in 0..MemTop
    BY <2>2, <2>3, Sizes
  <2> QED BY <2>4
<1>3. pkt \in [Threads -> Seq(0..255)]
  BY DEF Common, Types
<1> QED
  BY <1>1, <1>2, <1>3, RegisterCommon

LEMMA RequestCommon == ASSUME Common, NEW t \in Threads, RequestToSend(t) PROVE Common'
<1>1. /\ site[t] = "request" /\ txrts' = TRUE /\ Goto(t, "spin") /\ last' = t
      /\ UNCHANGED <<mem, erxwrpt, ewrpt, etxst, etxnd, pkt, left, arrived, wire, asked, clobbered>>
  BY DEF RequestToSend, Calls, rxPtrs, txPtrs, txLocal, rxPast, txPast
<1>2. pkt \in [Threads -> Seq(0..255)] /\ etxnd \in 0..MemTop
  BY DEF Common, Types
<1> QED
  BY <1>1, <1>2, RegisterCommon

LEMMA ReadBackCommon == ASSUME Common, NEW t \in Threads, ReadBack(t) PROVE Common'
<1>1. /\ site[t] = "spin" /\ Goto(t, "result") /\ last' = t
      /\ UNCHANGED <<mem, erxwrpt, ewrpt, etxst, etxnd, txrts, pkt, left, arrived, wire, asked, clobbered>>
  BY DEF ReadBack, Calls, txPtrs, txLocal, rxPast, txPast
<1>2. pkt \in [Threads -> Seq(0..255)] /\ etxnd \in 0..MemTop
  BY DEF Common, Types
<1> QED
  BY <1>1, <1>2, RegisterCommon

LEMMA ReadResultCommon == ASSUME Common, NEW t \in Threads, ReadResult(t) PROVE Common'
<1>1. /\ site[t] = "result" /\ last' = t /\ pkt' = [pkt EXCEPT ![t] = << >>]
      /\ Goto(t, IF t = Lwip THEN "handled" ELSE "idle")
      /\ UNCHANGED <<mem, erxwrpt, ewrpt, etxst, etxnd, txrts, left, arrived, wire, asked, clobbered>>
  BY DEF ReadResult, Calls, txPtrs, rxPast, txPast
<1>2. /\ pkt' \in [Threads -> Seq(0..255)] /\ etxnd \in 0..MemTop
      /\ \A u \in Threads : u # t => pkt'[u] = pkt[u]
  BY <1>1 DEF Common, Types
<1> DEFINE s == IF t = Lwip THEN "handled" ELSE "idle"
<1>3. s \in {"handled", "idle"} /\ (s = "handled" => t = Lwip) /\ (s = "idle" => t = Tcpip) /\ s \notin Sending
  BY TwoThreads DEF Sending
<1>4. Goto(t, s)
  BY <1>1
<1> HIDE DEF s
<1> QED
  BY <1>1, <1>2, <1>3, <1>4, RegisterCommon

LEMMA ReaderCommon == ASSUME Common, Receive PROVE Common'
<1>1. last \in Threads /\ Lwip \in Threads
  BY TwoThreads DEF Common, Types
<1>2. \/ UNCHANGED vars
      \/ /\ \E s \in {"poll", "handled"} \cup Reading : Goto(Lwip, s)
         /\ last' \in Threads /\ site[Lwip] \in {"poll", "handled"} \cup Reading
         /\ UNCHANGED <<mem, ewrpt, etxst, etxnd, erxwrpt, txrts, clobbered, arrived, pkt, left, asked, wire>>
  <2>1. CASE PacketCounted
    BY <1>1, <2>1 DEF PacketCounted, Calls, Reading, rxPtrs, txPtrs, rxPast, txPast, txLocal
  <2>2. CASE NoPacket
    BY <2>2 DEF NoPacket
  <2>3. CASE ReceiveStart
    BY <1>1, <2>3 DEF ReceiveStart, Calls, Reading, txPtrs, rxPast, txPast, txLocal
  <2>4. CASE ReadPayload
    BY <1>1, <2>4 DEF ReadPayload, Calls, Reading, txPtrs, rxPast, txPast, txLocal
  <2>5. CASE AllocFails
    BY <1>1, <2>5 DEF AllocFails, Reading, rxPtrs, txPtrs, rxPast, txPast, txLocal
  <2>6. CASE ReleaseFrame
    BY <1>1, <2>6 DEF ReleaseFrame, Calls, Reading, txPtrs, rxPast, txPast, txLocal
  <2>7. CASE Decrement
    BY <1>1, <2>7 DEF Decrement, Calls, Reading, rxPtrs, txPtrs, txPast, txLocal
  <2>8. CASE Input
    BY <1>1, <2>8 DEF Input, Reading, rxPtrs, txPtrs, txPast, txLocal
  <2>9. CASE BackToPolling
    BY <1>1, <2>9 DEF BackToPolling, rxPtrs, txPtrs, rxPast, txPast, txLocal
  <2> QED
    BY <2>1, <2>2, <2>3, <2>4, <2>5, <2>6, <2>7, <2>8, <2>9 DEF Receive
<1>3. CASE UNCHANGED vars
  BY <1>3 DEF vars, rxPtrs, txPtrs, rxPast, txPast, txLocal, Common, Types, ThreadsKept, ThreadKept,
              SendsCounted, Requested, ToSend, KeptApart
<1> QED
  BY <1>2, <1>3, ReaderMoves

LEMMA CommonNext == ASSUME Common, [Next]_vars PROVE Common'
<1>1. CASE UNCHANGED vars
  BY <1>1 DEF vars, rxPtrs, txPtrs, rxPast, txPast, txLocal, Common, Types, ThreadsKept, ThreadKept,
              SendsCounted, Requested, ToSend, KeptApart
<1> QED
  BY <1>1, ArrivalCommon, DropCommon, TransmittedCommon, ReaderCommon, StartCommon, ControlCommon,
     PartialCommon, EndCommon, RequestCommon, ReadBackCommon, ReadResultCommon DEF Next, Transmit

LEMMA CommonInit == Init => Common
<1> SUFFICES ASSUME Init PROVE Common
  OBVIOUS
<1>1. Types
  <2>1. mem \in [0..MemTop -> 0..255] /\ erxwrpt \in 0..RxStop
    BY Sizes DEF Init
  <2>2. ewrpt \in 0..MemTop /\ etxst \in 0..MemTop /\ etxnd \in 0..MemTop /\ arrived \in 0..MaxRx
    BY Sizes, TransAssumption DEF Init
  <2>3. site \in [Threads -> Sites]
    BY SiteNames DEF Init
  <2>4. pkt \in [Threads -> Seq(0..255)] /\ left \in [Threads -> Nat] /\ last \in Threads
    BY TwoThreads DEF Init
  <2>5. asked \in Seq(Seq(0..255)) /\ Len(asked) <= MaxTx
    BY TransAssumption, EmptySeq DEF Init
  <2>6. wire \in Seq([control : 0..255, data : Seq(0..255)]) /\ txrts \in BOOLEAN /\ clobbered \in BOOLEAN
    BY EmptySeq DEF Init
  <2> QED
    BY <2>1, <2>2, <2>3, <2>4, <2>5, <2>6 DEF Types
<1>2. site[Lwip] = "poll" /\ site[Tcpip] = "idle" /\ \A t \in Threads : left[t] = 0
  BY TwoThreads DEF Init
<1>3. ThreadsKept
  BY <1>2, TwoThreads DEF ThreadsKept, ThreadKept, Reading, Sending
<1>4. SendsCounted /\ KeptApart
  BY <1>2 DEF Init, SendsCounted, ToSend, Requested, KeptApart
<1> QED
  BY <1>1, <1>3, <1>4 DEF Common

-----------------------------------------------------------------------------
(* Transmission by one thread.                                              *)

\* The pbuf on its way is the last that was asked for, as much of it as was
\* written lies behind the control byte, and nothing is on the wire but what
\* was asked for.
Written(t) == \A j \in 1..(Len(pkt[t]) - left[t]) : mem[RxStop + j] = pkt[t][j]
OnItsWay(t) == site[t] \in {"partial", "txnd", "request"} \/ txrts

SentBy(t) ==
    /\ txrts => site[t] = "spin"
    /\ site[t] \in Sending => etxst = RxStop /\ pkt[t] = asked[Len(asked)]
    /\ site[t] = "partial" => ewrpt = RxStop + 1 + (Len(pkt[t]) - left[t])
    /\ OnItsWay(t) => Written(t) /\ (Apart => mem[RxStop] = 0)
    /\ site[t] = "request" \/ txrts => etxnd = RxStop + Len(pkt[t])
    /\ SentWhole
    /\ Apart => ControlByteKept

\* Only a sender sends.
LEMMA SendersSend ==
    ASSUME Common, NEW t \in Threads, NEW s \in Threads, Senders \subseteq {s},
           site[t] \in Sending \/ t \in Senders
    PROVE  t = s
BY DEF Common, ThreadsKept, ThreadKept

LEMMA PacketIs ==
    ASSUME Common, NEW t \in Threads
    PROVE  /\ Len(pkt[t]) \in Nat /\ left[t] \in 0..Len(pkt[t])
           /\ site[t] \in Sending => RxStop + Len(pkt[t]) + 7 <= MemTop
<1>1. pkt[t] \in Seq(0..255) /\ left[t] \in Nat
  BY DEF Common, Types
<1>2. Len(pkt[t]) \in Nat
  BY <1>1
<1>3. left[t] \in 0..Len(pkt[t])
  BY <1>1, <1>2 DEF Common, ThreadsKept, ThreadKept
<1>4. site[t] \in Sending => RxStop + Len(pkt[t]) + 7 <= MemTop
  BY TransAssumption DEF Common, ThreadsKept, ThreadKept
<1> QED BY <1>2, <1>3, <1>4

\* A step that leaves the transmission alone.
LEMMA SentStays ==
    ASSUME Common, NEW t \in Threads, SentBy(t),
           UNCHANGED <<ewrpt, etxst, etxnd, pkt, left, asked, wire, txrts>>,
           site'[t] = site[t] \/ (site[t] \notin Sending /\ site'[t] \notin Sending),
           \A c \in 0..MemTop : c > RxStop => mem'[c] = mem[c],
           mem'[RxStop] = mem[RxStop] \/ (Apart => asked = << >>)
    PROVE  SentBy(t)'
<1>1. OnItsWay(t) => asked # << >> /\ RxStop + Len(pkt[t]) + 7 <= MemTop /\ site[t] \in Sending
  <2>1. OnItsWay(t) => site[t] \in Sending
    BY DEF OnItsWay, SentBy, Sending
  <2> QED
    BY <2>1, PacketIs DEF Common, ThreadsKept, ThreadKept
<1>2. OnItsWay(t)' => OnItsWay(t)
  BY DEF OnItsWay, Sending
<1>3. OnItsWay(t) /\ Written(t) => Written(t)'
  <2> SUFFICES ASSUME OnItsWay(t), Written(t), NEW j \in 1..(Len(pkt[t]) - left[t])
               PROVE  mem'[RxStop + j] = pkt[t][j]
    BY DEF Written
  <2>1. RxStop + j \in 0..MemTop /\ RxStop + j > RxStop
    BY <1>1, PacketIs, Sizes
  <2> QED
    BY <2>1 DEF Written
<1>4. txrts' => site'[t] = "spin"
  BY DEF SentBy, Sending
<1>5. site'[t] \in Sending => site[t] = site'[t]
  OBVIOUS
<1>6. site'[t] = "partial" \/ site'[t] = "request" => site[t] = site'[t]
  BY <1>5 DEF Sending
<1>7. OnItsWay(t)' => Written(t)' /\ (Apart => mem'[RxStop] = 0)
  BY <1>1, <1>2, <1>3 DEF SentBy
<1>8. SentWhole' /\ (Apart => ControlByteKept')
  BY DEF SentBy, SentWhole, ControlByteKept
<1>9. /\ site'[t] \in Sending => etxst' = RxStop /\ pkt'[t] = asked'[Len(asked')]
      /\ site'[t] = "partial" => ewrpt' = RxStop + 1 + (Len(pkt'[t]) - left'[t])
      /\ site'[t] = "request" \/ txrts' => etxnd' = RxStop + Len(pkt'[t])
  BY <1>5, <1>6 DEF SentBy
<1> QED
  BY <1>4, <1>7, <1>8, <1>9 DEF SentBy

\* Nothing is on its way: what a step that is not part of writing a frame
\* still has to keep.
LEMMA SentIdle ==
    ASSUME NEW t \in Threads, SentBy(t), ~txrts', site'[t] \notin {"partial", "txnd", "request"},
           site'[t] \in Sending => etxst' = RxStop /\ pkt'[t] = asked'[Len(asked')],
           SentWhole', Apart => ControlByteKept'
    PROVE  SentBy(t)'
BY DEF SentBy, OnItsWay

LEMMA ArrivalSent == ASSUME Common, NEW t \in Threads, SentBy(t), FrameArrives PROVE SentBy(t)'
<1>1. /\ arrived < MaxRx /\ (Apart => asked = << >>)
      /\ UNCHANGED <<ewrpt, etxst, etxnd, txrts, site, pkt, left, wire, asked>>
  BY DEF FrameArrives, MayArrive, txPtrs, txLocal, txPast
<1> QED
  BY <1>1, ArrivalInRing, SentStays

LEMMA ReceiveSent == ASSUME Common, NEW t \in Threads, SentBy(t), FrameDropped \/ Receive PROVE SentBy(t)'
<1>1. UNCHANGED <<mem, ewrpt, etxst, etxnd, pkt, left, asked, wire, txrts>>
  BY DEF FrameDropped, Receive, PacketCounted, NoPacket, ReceiveStart, ReadPayload, AllocFails, ReleaseFrame,
         Decrement, Input, BackToPolling, rxPtrs, txPtrs, rxPast, txPast, txLocal, vars
<1>2. site'[t] = site[t] \/ (site[t] \notin Sending /\ site'[t] \notin Sending)
  <2>1. CASE UNCHANGED site
    BY <2>1
  <2>2. CASE \E x \in {"start", "alloc", "end", "decrement", "input", "handled", "poll"} :
                 Goto(Lwip, x) /\ site[Lwip] \notin Sending
    BY <2>2 DEF Goto, Sending, Common, Types
  <2>3. FrameDropped \/ NoPacket => UNCHANGED site
    BY DEF FrameDropped, NoPacket, vars
  <2>4. Receive /\ ~NoPacket => \E x \in {"start", "alloc", "end", "decrement", "input", "handled", "poll"} :
                                    Goto(Lwip, x) /\ site[Lwip] \notin Sending
    BY DEF Receive, PacketCounted, ReceiveStart, ReadPayload, AllocFails, ReleaseFrame,
           Decrement, Input, BackToPolling, Sending
  <2> QED
    BY <2>1, <2>2, <2>3, <2>4
<1> QED
  BY <1>1, <1>2, SentStays

LEMMA TransmittedSent == ASSUME Common, NEW t \in Threads, SentBy(t), Transmitted PROVE SentBy(t)'
<1> DEFINE d == [j \in 1..(etxnd - etxst) |-> mem[WriteCell(etxst, j)]]
           w == [control |-> mem[etxst], data |-> d]
<1>1. /\ txrts /\ ~txrts' /\ wire' = Append(wire, w)
      /\ UNCHANGED <<site, pkt, asked, etxst>>
  BY DEF Transmitted, txPtrs, txLocal
<1>2. /\ site[t] = "spin" /\ site[t] \in Sending /\ etxst = RxStop /\ pkt[t] = asked[Len(asked)]
      /\ Written(t) /\ (Apart => mem[RxStop] = 0) /\ etxnd = RxStop + Len(pkt[t])
  BY <1>1 DEF SentBy, OnItsWay, Sending
<1>3. /\ Len(pkt[t]) \in Nat /\ left[t] = 0 /\ RxStop + Len(pkt[t]) + 7 <= MemTop
      /\ pkt[t] \in Seq(0..255) /\ asked # << >> /\ asked \in Seq(Seq(0..255))
  BY <1>2, PacketIs DEF Common, Types, ThreadsKept, ThreadKept
<1>4. d = pkt[t]
  <2>1. etxnd - etxst = Len(pkt[t])
    BY <1>2, <1>3, Sizes
  <2>2. ASSUME NEW j \in 1..Len(pkt[t]) PROVE mem[WriteCell(etxst, j)] = pkt[t][j]
    <3>1. WriteCell(RxStop, j) = RxStop + j
      <4>1. RxStop \in Nat /\ j \in Nat /\ RxStop + j <= MemTop
        BY <1>3, Sizes
      <4> QED BY <4>1, WriteNoWrap
    <3>2. j \in 1..(Len(pkt[t]) - left[t])
      BY <1>3
    <3> QED BY <1>2, <3>1, <3>2 DEF Written
  <2>3. d = [j \in 1..Len(pkt[t]) |-> pkt[t][j]]
    BY <2>1, <2>2
  <2>4. pkt[t] = [j \in 1..Len(pkt[t]) |-> pkt[t][j]]
    BY <1>3
  <2> QED BY <2>3, <2>4, Zenon
<1> HIDE DEF d
<1>5. w.data = pkt[t] /\ (Apart => w.control = 0)
  BY <1>2, <1>4
<1> HIDE DEF w
<1>6. Len(wire) \in Nat /\ Len(wire') = Len(wire) + 1 /\ wire'[Len(wire) + 1] = w
      /\ \A k \in 1..Len(wire) : wire'[k] = wire[k]
  <2>1. wire \in Seq([control : 0..255, data : Seq(0..255)])
    BY DEF Common, Types
  <2>2. w \in [control : 0..255, data : Seq(0..255)]
    <3>1. mem[etxst] \in 0..255
      BY DEF Common, Types
    <3> QED BY <1>3, <1>4, <3>1 DEF w
  <2> QED BY <1>1, <2>1, <2>2, AppendProperties, LenProperties
<1>7. SentWhole'
  <2>1. Len(asked) \in 1..Len(asked)
    BY <1>3, EmptySeq
  <2>2. \E j \in 1..Len(asked) : wire'[Len(wire) + 1].data = asked[j]
    BY <1>2, <1>5, <1>6, <2>1
  <2>3. \A k \in 1..Len(wire) : \E j \in 1..Len(asked) : wire'[k].data = asked[j]
    BY <1>6 DEF SentBy, SentWhole
  <2> QED
    BY <1>1, <1>6, <2>2, <2>3 DEF SentWhole
<1>8. Apart => ControlByteKept'
  BY <1>5, <1>6 DEF SentBy, ControlByteKept
<1> QED
  BY <1>1, <1>2, <1>7, <1>8, SentIdle
\* The sender's own steps.
LEMMA StartSent ==
    ASSUME Common, NEW t \in Threads, Senders \subseteq {t}, SentBy(t), TransmitStart(t) PROVE SentBy(t)'
<1>1. PICK n \in TxSizes :
          /\ pkt' = [pkt EXCEPT ![t] = TxFrame(Len(asked) + 1, n)]
          /\ asked' = Append(asked, TxFrame(Len(asked) + 1, n))
  BY DEF TransmitStart
<1>2. /\ site[t] \in {"handled", "idle"} /\ etxst' = RxStop /\ Goto(t, "control")
      /\ UNCHANGED <<txrts, wire>>
  BY DEF TransmitStart, Calls, rxbufsize
<1>3. site'[t] = "control" /\ pkt \in [Threads -> Seq(0..255)] /\ asked \in Seq(Seq(0..255))
  BY <1>2, SiteMoves, SiteNames DEF Common, Types
<1> DEFINE f == TxFrame(Len(asked) + 1, n)
<1>4. f \in Seq(0..255) /\ Len(asked) \in Nat
  BY <1>3, TxFrameIs
<1> HIDE DEF f
<1>5. pkt' = [pkt EXCEPT ![t] = f] /\ asked' = Append(asked, f)
  BY <1>1 DEF f
<1>6. /\ Len(asked') = Len(asked) + 1 /\ asked'[Len(asked) + 1] = f
      /\ \A j \in 1..Len(asked) : asked'[j] = asked[j]
  <2> DEFINE S == Seq(0..255)
  <2>1. asked \in Seq(S) /\ f \in S
    BY <1>3, <1>4
  <2> HIDE DEF S
  <2> QED BY <1>5, <2>1, AppendProperties
<1>7. pkt'[t] = asked'[Len(asked')]
  BY <1>3, <1>5, <1>6
<1>8. SentWhole'
  <2>1. \A k \in 1..Len(wire) : \E j \in 1..Len(asked) : wire[k].data = asked[j]
    BY DEF SentBy, SentWhole
  <2>2. 1..Len(asked) \subseteq 1..Len(asked')
    BY <1>4, <1>6
  <2> QED BY <1>2, <1>6, <2>1, <2>2 DEF SentWhole
<1>9. ~txrts' /\ (Apart => ControlByteKept')
  BY <1>2 DEF SentBy, ControlByteKept
<1> QED
  BY <1>2, <1>3, <1>7, <1>8, <1>9, SentIdle

LEMMA ControlSent ==
    ASSUME Common, NEW t \in Threads, SentBy(t), ControlByte(t) PROVE SentBy(t)'
<1>1. /\ site[t] = "control" /\ mem' = Write(mem, RxStop, <<0>>) /\ ewrpt' = WriteCell(RxStop, 1)
      /\ Goto(t, "partial") /\ UNCHANGED <<etxst, etxnd, txrts, pkt, left, wire, asked>>
  BY DEF ControlByte, Calls, rxbufsize, txLocal
<1>2. /\ site'[t] = "partial" /\ left[t] = Len(pkt[t]) /\ Len(pkt[t]) \in Nat
      /\ mem \in [0..MemTop -> 0..255] /\ ~txrts
  BY <1>1, SiteMoves, SiteNames, PacketIs DEF Common, Types, ThreadsKept, ThreadKept, SentBy
<1>3. ewrpt' = RxStop + 1
  BY <1>1, Sizes, WriteNoWrap
<1>4. mem'[RxStop] = 0
  <2> DEFINE data == <<0>>
  <2>1. data \in Seq(0..255) /\ Len(data) = 1 /\ data[1] = 0
    OBVIOUS
  <2>2. RxStop \in 0..MemTop /\ RxStop \in Nat /\ WriteCell(RxStop, 0) = RxStop
    BY Sizes, WriteNoWrap
  <2> HIDE DEF data
  <2>3. \A j \in 1..Len(data) : j = 1 /\ j - 1 = 0
    BY <2>1
  <2>4. mem' = Write(mem, RxStop, data)
    BY <1>1 DEF data
  <2>5. \/ \A j \in 1..Len(data) : WriteCell(RxStop, j - 1) # RxStop
        \/ \E j \in 1..Len(data) : mem'[RxStop] = data[j]
    BY <1>2, <2>1, <2>2, <2>4, WriteIs
  <2>6. 1 \in 1..Len(data)
    BY <2>1
  <2> QED BY <2>1, <2>2, <2>3, <2>5, <2>6
<1>5. Written(t)'
  BY <1>1, <1>2 DEF Written
<1>6. site[t] \in Sending
  BY <1>1 DEF Sending
<1>7. RxStop + 1 + (Len(pkt[t]) - left[t]) = RxStop + 1
  BY <1>2, Sizes
<1> QED
  BY <1>1, <1>2, <1>3, <1>4, <1>5, <1>6, <1>7 DEF SentBy, OnItsWay, SentWhole, ControlByteKept

\* One more piece, where the last one ended.
LEMMA PartWritten ==
    ASSUME Common, NEW t \in Threads, SentBy(t), site[t] = "partial", NEW n \in 1..left[t],
           mem' = Write(mem, ewrpt, SubSeq(pkt[t], Len(pkt[t]) - left[t] + 1, Len(pkt[t]) - left[t] + n)),
           ewrpt' = WriteCell(ewrpt, n)
    PROVE  /\ ewrpt' = RxStop + 1 + (Len(pkt[t]) - (left[t] - n))
           /\ \A j \in 1..(Len(pkt[t]) - (left[t] - n)) : mem'[RxStop + j] = pkt[t][j]
           /\ \A c \in 0..RxStop : mem'[c] = mem[c]
           /\ mem' \in [0..MemTop -> 0..255]
<1> DEFINE len == Len(pkt[t])
           done == len - left[t]
           part == SubSeq(pkt[t], done + 1, done + n)
<1>1. /\ len \in Nat /\ left[t] \in 1..len /\ n \in Nat /\ done \in 0..(len - n)
      /\ RxStop + len + 7 <= MemTop /\ ewrpt = RxStop + 1 + done
      /\ part \in Seq(0..255) /\ Len(part) = n /\ \A j \in 1..n : part[j] = pkt[t][done + j]
      /\ Written(t)
  <2>1. /\ len \in Nat /\ RxStop + len + 7 <= MemTop /\ ewrpt = RxStop + 1 + done /\ Written(t)
    BY PacketIs DEF SentBy, Sending, OnItsWay
  <2>2. left[t] \in 1..len
    BY DEF Common, ThreadsKept, ThreadKept
  <2>3. /\ done \in 0..(len - n) /\ part \in Seq(0..255) /\ Len(part) = n
        /\ \A j \in 1..n : part[j] = pkt[t][done + j]
    BY PartIs, Zenon
  <2>4. n \in Nat
    BY <2>1, <2>2
  <2> QED BY <2>1, <2>2, <2>3, <2>4
<1>2. mem \in [0..MemTop -> 0..255] /\ mem' = Write(mem, ewrpt, part)
  BY DEF Common, Types
<1>9. len - (left[t] - n) = done + n
  <2> DEFINE l == left[t]
  <2>4. len \in Nat /\ l \in 1..len /\ n \in Nat
    BY <1>1, Zenon
  <2>1. l \in Int /\ len \in Int /\ n \in Int
    <3> HIDE DEF l, len
    <3> QED BY <2>4
  <2>3. done = len - l
    OBVIOUS
  <2> HIDE DEF l, len, done
  <2>2. len - (l - n) = done + n
    BY <2>1, <2>3
  <2> QED BY <2>2 DEF l
<1>3. \A j \in 1..done : mem[RxStop + j] = pkt[t][j]
  BY <1>1 DEF Written
<1> HIDE DEF part, done
<1>4. ewrpt \in Nat /\ \A j \in 0..n : WriteCell(ewrpt, j) = RxStop + 1 + done + j
  <2>1. ewrpt \in Nat
    BY <1>1, Sizes
  <2> SUFFICES ASSUME NEW j \in 0..n PROVE WriteCell(ewrpt, j) = RxStop + 1 + done + j
    BY <2>1
  <2>2. j \in Nat /\ ewrpt + j <= MemTop /\ ewrpt + j = RxStop + 1 + done + j
    BY <1>1, Sizes
  <2> QED BY <2>1, <2>2, WriteNoWrap
<1>5. mem' \in [0..MemTop -> 0..255]
  <2>1. ewrpt \in Nat /\ part \in Seq(0..255)
    BY <1>1, <1>4
  <2>2. Write(mem, ewrpt, part) \in [0..MemTop -> 0..255]
    BY <1>2, <2>1, WriteIs
  <2> QED BY <1>2, <2>2, Zenon
<1>6. \A c \in 0..MemTop :
          \/ mem'[c] = mem[c] /\ \A j \in 1..n : WriteCell(ewrpt, j - 1) # c
          \/ \E j \in 1..n : WriteCell(ewrpt, j - 1) = c /\ mem'[c] = part[j]
  <2>1. \A c \in 0..MemTop :
            \/ /\ Write(mem, ewrpt, part)[c] = mem[c]
               /\ \A j \in 1..Len(part) : WriteCell(ewrpt, j - 1) # c
            \/ \E j \in 1..Len(part) : WriteCell(ewrpt, j - 1) = c /\ Write(mem, ewrpt, part)[c] = part[j]
    BY <1>1, <1>2, <1>4, WriteIs, Zenon
  <2>2. Len(part) = n /\ mem' = Write(mem, ewrpt, part)
    BY <1>1, <1>2
  <2> QED BY <2>1, <2>2, Zenon
<1>7. \A c \in 0..MemTop :
          \/ mem'[c] = mem[c] /\ \A j \in 1..n : RxStop + done + j # c
          \/ \E j \in 1..n : RxStop + done + j = c /\ mem'[c] = pkt[t][done + j]
  <2>1. \A j \in 1..n : WriteCell(ewrpt, j - 1) = RxStop + done + j
    <3> SUFFICES ASSUME NEW j \in 1..n PROVE WriteCell(ewrpt, j - 1) = RxStop + done + j
      OBVIOUS
    <3>1. j - 1 \in 0..n /\ RxStop + 1 + done + (j - 1) = RxStop + done + j
      BY <1>1, Sizes
    <3> QED BY <1>4, <3>1
  <2> QED BY <1>1, <1>6, <2>1
<1>8. \A j \in 1..(done + n) : mem'[RxStop + j] = pkt[t][j]
  <2> SUFFICES ASSUME NEW j \in 1..(done + n) PROVE mem'[RxStop + j] = pkt[t][j]
    OBVIOUS
  <2>1. RxStop + j \in 0..MemTop
    BY <1>1, Sizes
  <2>2. CASE j <= done
    <3>1. \A i \in 1..n : RxStop + done + i # RxStop + j
      BY <1>1, <2>2, Sizes
    <3>2. j \in 1..done
      BY <1>1, <2>2
    <3> QED BY <1>3, <1>7, <2>1, <3>1, <3>2
  <2>3. CASE j > done
    <3>1. PICK i \in 1..n : j = done + i
      <4>1. j - done \in 1..n /\ j = done + (j - done)
        BY <1>1, <2>3
      <4> QED BY <4>1
    <3>2. RxStop + done + i = RxStop + j /\ \A k \in 1..n : RxStop + done + k = RxStop + j => k = i
      BY <1>1, <3>1, Sizes
    <3> QED BY <1>7, <2>1, <3>1, <3>2
  <2>4. done \in Int /\ j \in Int
    BY <1>1
  <2> QED BY <2>2, <2>3, <2>4
<1>10. \A c \in 0..RxStop : mem'[c] = mem[c]
  <2> SUFFICES ASSUME NEW c \in 0..RxStop PROVE mem'[c] = mem[c]
    OBVIOUS
  <2>1. c \in 0..MemTop /\ \A j \in 1..n : RxStop + done + j # c
    BY <1>1, Sizes
  <2> QED BY <1>7, <2>1
<1>11. ewrpt' = RxStop + 1 + (done + n)
  <2>1. n \in 0..n
    BY <1>1
  <2>2. RxStop \in Int /\ done \in Int /\ n \in Int
    BY <1>1, Sizes
  <2>3. RxStop + 1 + done + n = RxStop + 1 + (done + n)
    BY <2>2
  <2> QED BY <1>4, <2>1, <2>3
<1> QED
  BY <1>5, <1>8, <1>9, <1>10, <1>11

LEMMA PartialSent ==
    ASSUME Common, NEW t \in Threads, SentBy(t), TransmitPartial(t) PROVE SentBy(t)'
<1>1. PICK n \in 1..left[t] :
          /\ mem' = Write(mem, ewrpt, SubSeq(pkt[t], Len(pkt[t]) - left[t] + 1, Len(pkt[t]) - left[t] + n))
          /\ ewrpt' = WriteCell(ewrpt, n) /\ left' = [left EXCEPT ![t] = left[t] - n]
          /\ Goto(t, IF n = left[t] THEN "txnd" ELSE "partial")
  BY DEF TransmitPartial
<1>2. site[t] = "partial" /\ UNCHANGED <<etxst, etxnd, txrts, pkt, wire, asked>>
  BY DEF TransmitPartial, Calls, txPast
<1>3. site'[t] \in {"txnd", "partial"} /\ left'[t] = left[t] - n
  BY <1>1, SiteMoves, SiteNames DEF Common, Types
<1>4. /\ ewrpt' = RxStop + 1 + (Len(pkt[t]) - (left[t] - n))
      /\ \A j \in 1..(Len(pkt[t]) - (left[t] - n)) : mem'[RxStop + j] = pkt[t][j]
      /\ mem'[RxStop] = mem[RxStop]
  BY <1>1, <1>2, PartWritten, Sizes
<1>5. Written(t)'
  BY <1>2, <1>3, <1>4 DEF Written
<1>6. site[t] \in Sending /\ OnItsWay(t) /\ ~txrts
  BY <1>2 DEF Sending, OnItsWay, SentBy
<1> QED
  BY <1>2, <1>3, <1>4, <1>5, <1>6 DEF SentBy, OnItsWay, SentWhole, ControlByteKept

LEMMA EndSent ==
    ASSUME Common, NEW t \in Threads, SentBy(t), TransmitEnd(t) PROVE SentBy(t)'
<1>1. /\ site[t] = "txnd" /\ etxnd' = RxStop + 1 + Len(pkt[t]) - 1 /\ Goto(t, "request")
      /\ UNCHANGED <<mem, ewrpt, etxst, txrts, pkt, left, wire, asked>>
  BY DEF TransmitEnd, Calls, rxbufsize, txLocal, txPast
<1>2. site'[t] = "request" /\ Len(pkt[t]) \in Nat
  BY <1>1, SiteMoves, SiteNames, PacketIs DEF Common, Types
<1>3. etxnd' = RxStop + Len(pkt[t])
  <2> DEFINE n == Len(pkt[t])
  <2>1. RxStop \in Int /\ n \in Int /\ etxnd' = RxStop + 1 + n - 1
    BY <1>1, <1>2, Sizes
  <2> HIDE DEF n
  <2>2. etxnd' = RxStop + n
    BY <2>1
  <2> QED BY <2>2 DEF n
<1>4. site[t] \in Sending /\ OnItsWay(t) /\ ~txrts
  BY <1>1 DEF Sending, OnItsWay, SentBy
<1>5. Written(t)'
  BY <1>1, <1>4 DEF Written, SentBy
<1> QED
  BY <1>1, <1>2, <1>3, <1>4, <1>5 DEF SentBy, OnItsWay, SentWhole, ControlByteKept

LEMMA RequestSent ==
    ASSUME Common, NEW t \in Threads, SentBy(t), RequestToSend(t) PROVE SentBy(t)'
<1>1. /\ site[t] = "request" /\ txrts' /\ Goto(t, "spin")
      /\ UNCHANGED <<mem, ewrpt, etxst, etxnd, pkt, left, wire, asked>>
  BY DEF RequestToSend, Calls, txPtrs, txLocal, txPast
<1>2. site'[t] = "spin"
  BY <1>1, SiteMoves, SiteNames DEF Common, Types
<1>4. site[t] \in Sending /\ OnItsWay(t)
  BY <1>1 DEF Sending, OnItsWay
<1>5. Written(t)'
  BY <1>1, <1>4 DEF Written, SentBy
<1> QED
  BY <1>1, <1>2, <1>4, <1>5 DEF SentBy, OnItsWay, SentWhole, ControlByteKept

LEMMA ReadBackSent ==
    ASSUME Common, NEW t \in Threads, SentBy(t), ReadBack(t) PROVE SentBy(t)'
<1>1. /\ site[t] = "spin" /\ ~txrts /\ Goto(t, "result")
      /\ UNCHANGED <<etxst, txrts, pkt, wire, asked>>
  BY DEF ReadBack, Calls, txPtrs, txLocal, txPast
<1>2. site'[t] = "result" /\ site[t] \in Sending
  BY <1>1, SiteMoves, SiteNames DEF Common, Types, Sending
<1> QED
  BY <1>1, <1>2, SentIdle DEF SentBy, SentWhole, ControlByteKept

LEMMA ReadResultSent ==
    ASSUME Common, NEW t \in Threads, SentBy(t), ReadResult(t) PROVE SentBy(t)'
<1>1. /\ site[t] = "result" /\ Goto(t, IF t = Lwip THEN "handled" ELSE "idle")
      /\ UNCHANGED <<txrts, wire, asked>>
  BY DEF ReadResult, Calls, txPast
<1>2. site'[t] \in {"handled", "idle"}
  BY <1>1, SiteMoves, SiteNames DEF Common, Types
<1> QED
  BY <1>1, <1>2, SentIdle DEF SentBy, SentWhole, ControlByteKept, Sending

LEMMA SentNext ==
    ASSUME NEW s \in Threads, Senders \subseteq {s}, Common, SentBy(s), [Next]_vars
    PROVE  SentBy(s)'
<1>1. CASE UNCHANGED vars
  BY <1>1 DEF vars, txPtrs, txPast, txLocal, SentBy, OnItsWay, Written, SentWhole, ControlByteKept
<1>2. ASSUME NEW t \in Threads, Transmit(t) PROVE t = s
  <2>1. site[t] \in Sending \/ t \in Senders
    BY <1>2 DEF Transmit, TransmitStart, ControlByte, TransmitPartial, TransmitEnd, RequestToSend, ReadBack,
                ReadResult, Sending
  <2> QED BY <2>1, SendersSend
<1>3. CASE Transmit(s)
  BY <1>3, StartSent, ControlSent, PartialSent, EndSent, RequestSent, ReadBackSent, ReadResultSent DEF Transmit
<1> QED
  BY <1>1, <1>2, <1>3, ArrivalSent, ReceiveSent, TransmittedSent DEF Next

LEMMA SentInit == ASSUME NEW s \in Threads, Init PROVE SentBy(s)
<1>1. site[s] \in {"poll", "idle"} /\ ~txrts /\ wire = << >>
  BY DEF Init
<1>2. Len(wire) = 0
  BY <1>1, EmptySeq
<1> QED
  BY <1>1, <1>2 DEF SentBy, OnItsWay, Sending, SentWhole, ControlByteKept

\* Every frame that goes on the wire is one that lwIP asked for, byte for
\* byte, if one thread transmits: at most one, or the tcpip thread alone.
\* TransTwoSenders shows what two do to each other.
THEOREM FramesSentWhole ==
    ASSUME NEW s \in Threads, Senders \subseteq {s} PROVE Spec => []SentWhole
<1>1. Init => Common /\ SentBy(s)
  BY CommonInit, SentInit
<1>2. (Common /\ SentBy(s)) /\ [Next]_vars => (Common /\ SentBy(s))'
  BY CommonNext, SentNext
<1>3. Common /\ SentBy(s) => SentWhole
  BY DEF SentBy
<1> QED
  BY <1>1, <1>2, <1>3, PTL DEF Spec

\* ... and the chip reads the control byte that was written for the frame, if
\* besides nothing is received meanwhile.  The chip writes the header of a
\* frame that arrives into the ring, of which that byte is the last cell.
THEOREM ControlBytesKept ==
    ASSUME NEW s \in Threads, Senders \subseteq {s}, Apart PROVE Spec => []ControlByteKept
<1>1. Init => Common /\ SentBy(s)
  BY CommonInit, SentInit
<1>2. (Common /\ SentBy(s)) /\ [Next]_vars => (Common /\ SentBy(s))'
  BY CommonNext, SentNext
<1>3. Common /\ SentBy(s) => ControlByteKept
  BY DEF SentBy
<1> QED
  BY <1>1, <1>2, <1>3, PTL DEF Spec
-----------------------------------------------------------------------------
(* The ring.                                                                *)

\* Where the unread frames are: even cells of the ring, and every cell of
\* them nearer than ERXWRPT.
LEMMA StartIs ==
    ASSUME Common, RingKept
    PROVE  /\ Len(queue) \in Nat /\ Len(place) = Len(queue) /\ FirstUnread \in 1..(Len(queue) + 1)
           /\ \A k \in 1..(Len(queue) + 1) : Start(k) \in 0..RxStop /\ Start(k) % 2 = 0
           /\ Start(Len(queue) + 1) = erxwrpt
           /\ next_frame_location \in 0..RxStop /\ next_frame_location % 2 = 0
           /\ next_frame_location = Start(FirstUnread)
           /\ \A k \in Unread : k \in 1..Len(queue) /\ k + 1 \in 1..(Len(queue) + 1)
<1>1. queue \in Seq(AllFrames) /\ place \in Seq(0..RxStop) /\ Len(place) = Len(queue)
  BY DEF RingKept, FramesKept
<1>2. Len(queue) \in Nat
  BY <1>1, LenProperties
<1>3. FirstUnread \in 1..(Len(queue) + 1)
  <2>1. site[Lwip] \in {"decrement", "input"} => Len(queue) # 0
    BY <1>1, EmptySeq DEF RingKept, FramesKept, Reading
  <2> QED BY <1>2, <2>1 DEF FirstUnread
<1>4. ASSUME NEW k \in 1..(Len(queue) + 1) PROVE Start(k) \in 0..RxStop /\ Start(k) % 2 = 0
  <2>1. CASE k <= Len(place)
    <3>1. k \in 1..Len(place)
      BY <1>1, <1>2, <2>1
    <3>2. place[k] \in 0..RxStop
      BY <1>1, <3>1, ElementOfSeq
    <3>3. place[k] % 2 = 0
      BY <3>1 DEF RingKept, FramesKept
    <3> QED BY <2>1, <3>2, <3>3 DEF Start
  <2>2. CASE ~(k <= Len(place))
    BY <2>2 DEF Start, RingKept, PointersKept, Common, Types
  <2> QED BY <2>1, <2>2
<1>5. Start(Len(queue) + 1) = erxwrpt
  BY <1>1, <1>2 DEF Start
<1>6. next_frame_location = Start(FirstUnread)
  BY DEF RingKept, PointersKept
<1>7. \A k \in Unread : k \in 1..Len(queue) /\ k + 1 \in 1..(Len(queue) + 1)
  BY <1>2, <1>3 DEF Unread
<1> QED
  BY <1>1, <1>2, <1>3, <1>4, <1>5, <1>6, <1>7

LEMMA FramesAre ==
    ASSUME RingKept
    PROVE  \A k \in 1..Len(queue) :
               queue[k] \in AllFrames /\ Len(queue[k]) \in RxSizes /\ Len(queue[k]) \in Nat \ {0}
                 /\ queue[k] \in Seq(0..255)
<1>1. queue \in Seq(AllFrames)
  BY DEF RingKept, FramesKept
<1>2. \A k \in 1..Len(queue) : queue[k] \in AllFrames
  BY <1>1, ElementOfSeq
<1> QED
  BY <1>2, FrameIs

\* The cells of an unread frame, counted from its first.
LEMMA CellsBefore ==
    ASSUME Common, RingKept, NEW k \in Unread, NEW j \in 0..(Space(Len(queue[k])) - 1)
    PROVE  /\ ReadCell(Start(k), j) \in 0..RxStop
           /\ Distance(ReadCell(Start(k), j)) = Distance(Start(k)) + j
           /\ Distance(ReadCell(Start(k), j)) < Distance(erxwrpt)
<1> DEFINE s == Space(Len(queue[k]))
<1>1. /\ k \in 1..Len(queue) /\ Len(queue) \in Nat /\ Start(k) \in 0..RxStop /\ erxwrpt \in 0..RxStop
      /\ next_frame_location \in 0..RxStop /\ Start(Len(queue) + 1) = erxwrpt
  <2>1. erxwrpt \in 0..RxStop
    BY DEF Common, Types
  <2>2. k \in 1..Len(queue) /\ Len(queue) + 1 \in 1..(Len(queue) + 1) /\ Len(queue) \in Nat
    BY StartIs
  <2>3. k \in 1..(Len(queue) + 1)
    BY <2>2
  <2> QED BY StartIs, <2>1, <2>2, <2>3
<1>2. s \in Nat
  BY <1>1, FramesAre, SpaceIs
<1>3. Distance(Start(k)) + s <= Distance(erxwrpt)
  <2>1. k < Len(queue) + 1
    BY <1>1
  <2> QED BY <1>1, <2>1 DEF RingKept, InOrder
<1>4. Distance(Start(k)) \in 0..RxStop /\ Distance(erxwrpt) \in 0..RxStop
  BY <1>1, DistanceIs
<1>5. j \in Nat /\ j < s
  BY <1>2
<1> HIDE DEF s
<1>6. Distance(Start(k)) + j < Distance(erxwrpt) /\ Distance(Start(k)) + j <= RxStop
  BY <1>2, <1>3, <1>4, <1>5, Sizes
<1> QED
  BY <1>1, <1>5, <1>6, DistanceAfter

\* What a frame's cells hold depends on its cells only.
LEMMA HoldsStays ==
    ASSUME NEW m, NEW m2, NEW at, NEW next, NEW f, Len(f) \in Nat, Holds(m, at, next, f),
           \A j \in 0..(Space(Len(f)) - 1) : m2[ReadCell(at, j)] = m[ReadCell(at, j)]
    PROVE  Holds(m2, at, next, f)
<1> DEFINE s == Space(Len(f))
<1>1. s \in Nat /\ 6 + Len(f) <= s
  BY SpaceIs
<1> HIDE DEF s
<1>2. \A j \in 0..(s - 1) : m2[ReadCell(at, j)] = m[ReadCell(at, j)]
  BY DEF s
<1>3. ASSUME NEW j \in 1..6 PROVE m2[ReadCell(at, j - 1)] = m[ReadCell(at, j - 1)]
  <2>1. j - 1 \in 0..(s - 1)
    BY <1>1
  <2> QED BY <1>2, <2>1
<1>4. ASSUME NEW j \in 1..Len(f) PROVE m2[ReadCell(at, 5 + j)] = m[ReadCell(at, 5 + j)]
  <2>1. 5 + j \in 0..(s - 1)
    BY <1>1
  <2> QED BY <1>2, <2>1
<1> QED
  BY <1>3, <1>4 DEF Holds

\* No cell of an unread frame is written to.
UnreadKept == \A c \in 0..RxStop : Distance(c) < Distance(erxwrpt) => mem'[c] = mem[c]

LEMMA StoredStays ==
    ASSUME Common, RingKept, UnreadKept, NEW k \in Unread
    PROVE  Holds(mem', Start(k), Start(k + 1), queue[k])
<1>1. Holds(mem, Start(k), Start(k + 1), queue[k]) /\ Len(queue[k]) \in Nat
  BY StartIs, FramesAre DEF RingKept, AllStored, Stored
<1>2. \A j \in 0..(Space(Len(queue[k])) - 1) : mem'[ReadCell(Start(k), j)] = mem[ReadCell(Start(k), j)]
  BY CellsBefore DEF UnreadKept
<1> QED
  BY <1>1, <1>2, HoldsStays

\* A step that leaves the ring alone.
LEMMA RingStays ==
    ASSUME Common, RingKept, UnreadKept,
           UNCHANGED <<epktcnt, erxrdpt, erxwrpt, rxLocal, queue, place, delivered>>,
           arrived' \in Nat, arrived <= arrived',
           \/ site'[Lwip] = site[Lwip]
           \/ /\ site[Lwip] \notin Reading \/ site[Lwip] = "start"
              /\ site'[Lwip] \notin Reading \/ (site'[Lwip] = "start" /\ queue # << >>),
           erdpt' \in 0..MemTop, erdpt' = erdpt \/ site[Lwip] \notin Reading
    PROVE  RingKept'
<1>1. UNCHANGED <<next_frame_location, header, length, buf>>
  BY DEF rxLocal
<1>2. \A k : Start(k)' = Start(k)
  BY DEF Start
<1>3. FirstUnread' = FirstUnread /\ Unread' = Unread
  BY DEF FirstUnread, Unread, Reading
<1>4. \A c : Distance(c)' = Distance(c)
  BY <1>1 DEF Distance
<1>5. FramesKept'
  <2>1. Len(queue) \in Nat /\ Len(delivered) \in Nat /\ arrived \in Nat
    BY LenProperties, TransAssumption DEF RingKept, FramesKept, Common, Types
  <2>2. Len(queue) + Len(delivered) <= arrived'
    BY <2>1 DEF RingKept, FramesKept
  <2> QED BY <2>2 DEF RingKept, FramesKept, Reading
<1>6. CountMatchesQueue'
  BY DEF RingKept, CountMatchesQueue, Reading
<1>7. PointersKept'
  BY <1>1, <1>2, <1>3 DEF RingKept, PointersKept
<1>8. InOrder'
  BY <1>2, <1>3, <1>4 DEF RingKept, InOrder
<1>9. AllStored'
  BY <1>2, <1>3, StoredStays DEF AllStored, Stored
<1>10. ReaderKept'
  <2>1. Start(2)' = Start(2)
    BY <1>2
  <2> QED BY <1>1, <2>1 DEF RingKept, ReaderKept, Reading
<1> QED
  BY <1>5, <1>6, <1>7, <1>8, <1>9, <1>10 DEF RingKept
\* A new frame: behind the last one, with room to spare before the first.
LEMMA ArrivalRing == ASSUME Common, RingKept, FrameArrives PROVE RingKept'
<1> DEFINE L == Len(queue)
<1>1. PICK n \in RxSizes :
          /\ n \in Nat /\ arrived < MaxRx /\ Space(n) <= FreeSpace
          /\ erxwrpt' = ReadCell(erxwrpt, Space(n))
          /\ queue' = Append(queue, RxFrame(arrived + 1, n)) /\ place' = Append(place, erxwrpt)
          /\ \A c \in 0..MemTop :
                 \/ mem'[c] = mem[c] /\ \A j \in 1..(6 + n) : ReadCell(erxwrpt, j - 1) # c
                 \/ \E j \in 1..(6 + n) : ReadCell(erxwrpt, j - 1) = c /\ mem'[c] = Arrival(n)[j]
  BY ArrivalStep, Zenon
<1>2. /\ epktcnt' = epktcnt + 1 /\ arrived' = arrived + 1
      /\ UNCHANGED <<erdpt, erxrdpt, next_frame_location, header, length, buf, site, delivered>>
  BY DEF FrameArrives, rxLocal
<1> DEFINE f == RxFrame(arrived + 1, n)
           s == Space(n)
<1>3. /\ f \in AllFrames /\ Len(f) = n /\ n \in Nat
      /\ Arrival(n) \in Seq(0..255) /\ Len(Arrival(n)) = 6 + n
      /\ \A j \in 1..6 : Arrival(n)[j] = HeaderFor(erxwrpt', n)[j]
      /\ \A j \in 1..n : Arrival(n)[6 + j] = f[j]
  BY <1>1, ArrivalIs
<1> HIDE DEF f
<1>4. /\ L \in Nat /\ Len(place) = L /\ FirstUnread \in 1..(L + 1)
      /\ next_frame_location \in 0..RxStop /\ next_frame_location % 2 = 0
      /\ erxwrpt \in 0..RxStop /\ erxwrpt % 2 = 0
  BY StartIs DEF Common, Types, RingKept, PointersKept
<1>5. s \in Nat /\ s % 2 = 0 /\ 6 + n <= s
  BY <1>1, SpaceIs
<1>6. Distance(erxwrpt) + s <= RxStop - 1
  BY <1>1, <1>4, RoomLeft DEF RingKept, PointersKept
<1>7. Distance(erxwrpt) \in 0..RxStop
  BY <1>4, DistanceIs
<1>8. erxwrpt' \in 0..RxStop /\ Distance(erxwrpt') = Distance(erxwrpt) + s
  <2>1. Distance(erxwrpt) + s <= RxStop
    BY <1>5, <1>6, <1>7, Sizes
  <2> QED BY <1>1, <1>4, <1>5, <2>1, DistanceAfter
<1>9. erxwrpt' % 2 = 0
  <2>1. s \in 0..RxStop
    BY <1>5, <1>6, <1>7, Sizes
  <2>2. erxwrpt' = IF erxwrpt + s <= RxStop THEN erxwrpt + s ELSE erxwrpt + s - RingSize
    BY <1>1, <1>4, <2>1, ReadInRing
  <2> HIDE DEF s
  <2> QED BY <1>4, <1>5, <2>2, Sizes
<1> HIDE DEF s
<1>10. ASSUME NEW j \in 1..(6 + n)
       PROVE  /\ ReadCell(erxwrpt, j - 1) \in 0..RxStop
              /\ Distance(ReadCell(erxwrpt, j - 1)) = Distance(erxwrpt) + (j - 1)
  <2>1. n \in Nat
    BY <1>1
  <2>2. j - 1 \in Nat /\ j - 1 < s
    BY <1>5, <2>1
  <2>3. Distance(erxwrpt) + (j - 1) <= RxStop
    BY <1>5, <1>6, <1>7, <2>2, Sizes
  <2> QED BY <1>4, <2>2, <2>3, DistanceAfter
<1>11. UnreadKept
  <2> SUFFICES ASSUME NEW c \in 0..RxStop, Distance(c) < Distance(erxwrpt) PROVE mem'[c] = mem[c]
    BY DEF UnreadKept
  <2>1. c \in 0..MemTop /\ Distance(c) \in 0..RxStop
    BY <1>4, DistanceIs, Sizes
  <2>2. \A j \in 1..(6 + n) : ReadCell(erxwrpt, j - 1) # c
    <3> SUFFICES ASSUME NEW j \in 1..(6 + n), ReadCell(erxwrpt, j - 1) = c PROVE FALSE
      OBVIOUS
    <3>1. Distance(c) = Distance(erxwrpt) + (j - 1) /\ j - 1 \in Nat
      BY <1>1, <1>10
    <3> QED BY <1>7, <2>1, <3>1
  <2> QED BY <1>1, <2>1, <2>2
<1>12. ASSUME NEW j \in 1..(6 + n) PROVE mem'[ReadCell(erxwrpt, j - 1)] = Arrival(n)[j]
  <2>1. ReadCell(erxwrpt, j - 1) \in 0..MemTop
    BY <1>10, Sizes
  <2>2. PICK i \in 1..(6 + n) :
            /\ ReadCell(erxwrpt, i - 1) = ReadCell(erxwrpt, j - 1)
            /\ mem'[ReadCell(erxwrpt, j - 1)] = Arrival(n)[i]
    BY <1>1, <2>1
  <2>3. Distance(erxwrpt) + (i - 1) = Distance(erxwrpt) + (j - 1)
    BY <1>10, <2>2
  <2>4. i = j
    BY <1>1, <1>7, <2>3
  <2> QED BY <2>2, <2>4
<1>13. Holds(mem', erxwrpt, erxwrpt', f)
  <2>1. ASSUME NEW j \in 1..6 PROVE mem'[ReadCell(erxwrpt, j - 1)] = HeaderFor(erxwrpt', Len(f))[j]
    <3>1. j \in 1..(6 + n)
      BY <1>1
    <3> QED BY <1>3, <1>12, <3>1
  <2>2. ASSUME NEW j \in 1..Len(f) PROVE mem'[ReadCell(erxwrpt, 5 + j)] = f[j]
    <3>1. 6 + j \in 1..(6 + n) /\ (6 + j) - 1 = 5 + j /\ j \in 1..n
      BY <1>1, <1>3
    <3>2. mem'[ReadCell(erxwrpt, (6 + j) - 1)] = Arrival(n)[6 + j]
      BY <1>12, <3>1
    <3> QED BY <1>3, <3>1, <3>2
  <2> QED BY <2>1, <2>2 DEF Holds
<1>14. /\ queue' \in Seq(AllFrames) /\ Len(queue') = L + 1 /\ queue'[L + 1] = f
       /\ \A k \in 1..L : queue'[k] = queue[k]
       /\ place' \in Seq(0..RxStop) /\ Len(place') = L + 1 /\ place'[L + 1] = erxwrpt
       /\ \A k \in 1..L : place'[k] = place[k]
  <2>1. queue \in Seq(AllFrames) /\ place \in Seq(0..RxStop)
    BY DEF RingKept, FramesKept
  <2>2. queue' = Append(queue, f)
    BY <1>1 DEF f
  <2> QED
    BY <1>1, <1>3, <1>4, <2>1, <2>2, AppendProperties
<1>15. /\ \A k \in 1..(L + 1) : Start(k)' = Start(k)
       /\ \A k : k = L + 1 => Start(k) = erxwrpt
       /\ \A k : k = L + 2 => Start(k)' = erxwrpt'
  BY <1>4, <1>14 DEF Start
<1>16. FirstUnread' = FirstUnread /\ Unread' = FirstUnread..(L + 1)
  BY <1>2, <1>14 DEF FirstUnread, Unread
<1>17. \A c : Distance(c)' = Distance(c)
  BY <1>2 DEF Distance
<1> HIDE DEF L
<1>18. FramesKept'
  <2>1. Len(delivered) \in Nat /\ arrived \in Nat /\ L + Len(delivered) <= arrived
    BY LenProperties, TransAssumption DEF RingKept, FramesKept, Common, Types, L
  <2>2. L + 1 + Len(delivered) <= arrived + 1
    BY <1>4, <2>1
  <2>3. \A k \in 1..(L + 1) : place'[k] % 2 = 0
    <3>1. \A k \in 1..L : place[k] % 2 = 0
      BY <1>4 DEF RingKept, FramesKept
    <3> QED BY <1>4, <1>14, <3>1
  <2>4. queue' # << >>
    BY <1>4, <1>14, EmptySeq
  <2>5. epktcnt + 1 \in Nat
    BY DEF RingKept, FramesKept
  <2> QED BY <1>2, <1>14, <2>2, <2>3, <2>4, <2>5 DEF RingKept, FramesKept
<1>19. CountMatchesQueue'
  <2>1. epktcnt \in Nat /\ epktcnt + (IF site[Lwip] = "input" THEN 1 ELSE 0) = L
    BY DEF RingKept, FramesKept, CountMatchesQueue, L
  <2> QED BY <1>2, <1>4, <1>14, <2>1 DEF CountMatchesQueue
<1>20. PointersKept'
  BY <1>2, <1>4, <1>9, <1>15, <1>16 DEF RingKept, PointersKept, ReleasePointer
<1>21. InOrder'
  <2> SUFFICES ASSUME NEW j \in Unread', NEW k \in Unread' \cup {Len(queue') + 1}, j < k
               PROVE  Distance(Start(j)') + Space(Len(queue'[j])) <= Distance(Start(k)')
    BY <1>17 DEF InOrder
  <2>1. j \in FirstUnread..(L + 1) /\ k \in FirstUnread..(L + 2)
    BY <1>4, <1>14, <1>16
  <2>2. ASSUME j \in FirstUnread..L, NEW i \in FirstUnread..(L + 1), j < i
        PROVE  Distance(Start(j)) + Space(Len(queue[j])) <= Distance(Start(i))
    <3>1. j \in Unread /\ i \in Unread \cup {Len(queue) + 1}
      BY <1>4, <2>2 DEF Unread, L
    <3> QED BY <2>2, <3>1 DEF RingKept, InOrder
  <2>3. CASE j \in FirstUnread..L /\ k \in FirstUnread..(L + 1)
    <3>1. queue'[j] = queue[j] /\ Start(j)' = Start(j) /\ Start(k)' = Start(k)
      BY <1>4, <1>14, <1>15, <2>3
    <3> QED BY <2>2, <2>3, <3>1
  <2>4. CASE j \in FirstUnread..L /\ k = L + 2
    <3>4. j \in 1..L /\ j \in 1..(L + 1)
      BY <1>4, <2>4
    <3>1. queue'[j] = queue[j] /\ Start(j)' = Start(j) /\ Start(k)' = erxwrpt'
      BY <1>14, <1>15, <2>4, <3>4
    <3>2. Distance(Start(j)) + Space(Len(queue[j])) <= Distance(erxwrpt)
      BY <1>4, <1>15, <2>2, <2>4
    <3>3. Distance(Start(j)) + Space(Len(queue[j])) \in Nat
      <4>1. j \in 1..L
        BY <1>4, <2>4
      <4>2. Distance(Start(j)) \in Nat
        <5>1. j \in 1..(Len(queue) + 1)
          BY <3>4 DEF L
        <5>2. Start(j) \in 0..RxStop
          BY <5>1, StartIs
        <5> QED BY <1>4, <5>2, DistanceIs
      <4>3. Space(Len(queue[j])) \in Nat
        BY <4>1, FramesAre, SpaceIs DEF L
      <4> QED BY <4>2, <4>3
    <3> QED BY <1>5, <1>7, <1>8, <3>1, <3>2, <3>3
  <2>5. CASE j = L + 1 /\ k = L + 2
    <3>2. j \in 1..(L + 1) /\ queue'[j] = f
      BY <1>4, <1>14, <2>5
    <3>1. Start(j)' = erxwrpt /\ Start(k)' = erxwrpt' /\ Space(Len(queue'[j])) = s
      BY <1>3, <1>15, <2>5, <3>2 DEF s
    <3> QED BY <1>5, <1>7, <1>8, <3>1
  <2> QED BY <1>4, <2>1, <2>3, <2>4, <2>5
<1>22. AllStored'
  <2> SUFFICES ASSUME NEW k \in FirstUnread..(L + 1)
               PROVE  Holds(mem', Start(k)', Start(k + 1)', queue'[k])
    BY <1>16 DEF AllStored, Stored
  <2>1. CASE k \in FirstUnread..L
    <3>1. k \in Unread
      BY <2>1 DEF Unread, L
    <3>2. queue'[k] = queue[k] /\ Start(k)' = Start(k) /\ Start(k + 1)' = Start(k + 1)
      BY <1>4, <1>14, <1>15, <2>1
    <3> QED BY <1>11, <3>1, <3>2, StoredStays
  <2>2. CASE k = L + 1
    <3>2. k \in 1..(L + 1) /\ queue'[k] = f /\ k + 1 = L + 2
      BY <1>4, <1>14, <2>2
    <3>1. queue'[k] = f /\ Start(k)' = erxwrpt /\ Start(k + 1)' = erxwrpt'
      BY <1>15, <2>2, <3>2
    <3> QED BY <1>13, <3>1
  <2> QED BY <1>4, <2>1, <2>2
<1>23. ReaderKept'
  <2>1. CASE queue # << >>
    <3>1. L # 0
      BY <2>1, EmptySeq DEF RingKept, FramesKept, L
    <3>2. Head(queue') = Head(queue) /\ Start(2)' = Start(2)
      <4>1. 1 \in 1..L /\ 2 \in 1..(L + 1)
        BY <1>4, <3>1
      <4>2. Head(queue') = queue'[1] /\ Head(queue) = queue[1]
        OBVIOUS
      <4> QED BY <1>14, <1>15, <4>1, <4>2
    <3> QED BY <1>2, <3>2 DEF RingKept, ReaderKept
  <2>2. CASE queue = << >>
    <3>1. site[Lwip] \notin Reading
      BY <2>2 DEF RingKept, FramesKept
    <3> QED BY <1>2, <3>1 DEF RingKept, ReaderKept, Reading
  <2> QED BY <2>1, <2>2
<1> QED
  BY <1>18, <1>19, <1>20, <1>21, <1>22, <1>23 DEF RingKept
\* The calls that read the first frame leave the ring as it is.
LEMMA ReadingStep ==
    ASSUME Common, RingKept, site[Lwip] \in {"start", "alloc"}, site'[Lwip] \in {"alloc", "end"},
           UNCHANGED <<mem, erxrdpt, erxwrpt, epktcnt, next_frame_location, queue, place, delivered, arrived>>,
           erdpt' \in 0..MemTop, ReaderKept'
    PROVE  RingKept'
<1>1. \A k : Start(k)' = Start(k)
  BY DEF Start
<1>2. FirstUnread' = FirstUnread /\ Unread' = Unread
  BY DEF FirstUnread, Unread
<1>3. \A c : Distance(c)' = Distance(c)
  BY DEF Distance
<1>4. FramesKept' /\ CountMatchesQueue'
  BY DEF RingKept, FramesKept, CountMatchesQueue, Reading
<1>5. PointersKept'
  BY <1>1, <1>2 DEF RingKept, PointersKept
<1>6. InOrder'
  BY <1>1, <1>2, <1>3 DEF RingKept, InOrder
<1>7. AllStored'
  BY <1>1, <1>2 DEF RingKept, AllStored, Stored
<1> QED
  BY <1>4, <1>5, <1>6, <1>7 DEF RingKept

\* The frame whose turn it is, while it is read.
LEMMA FirstFrame ==
    ASSUME Common, RingKept, site[Lwip] \in {"start", "alloc", "end"}
    PROVE  /\ FirstUnread = 1 /\ 1 \in Unread /\ Head(queue) = queue[1] /\ queue # << >>
           /\ next_frame_location = Start(1) /\ next_frame_location \in 0..RxStop
           /\ Start(2) \in 0..RxStop /\ Start(2) \in 0..MemTop /\ Start(2) % 2 = 0
           /\ queue[1] \in Seq(0..255) /\ Len(queue[1]) \in RxSizes /\ Len(queue[1]) \in Nat \ {0}
           /\ Holds(mem, Start(1), Start(2), queue[1])
<1>1. FirstUnread = 1 /\ site[Lwip] \in Reading
  BY DEF FirstUnread, Reading
<1>2. queue # << >> /\ queue \in Seq(AllFrames)
  BY <1>1 DEF RingKept, FramesKept
<1>3. Len(queue) \in Nat \ {0}
  BY <1>2, EmptySeq, LenProperties
<1>4. 1 \in Unread /\ 1 \in 1..Len(queue) /\ 2 \in 1..(Len(queue) + 1)
  BY <1>1, <1>3 DEF Unread
<1>5. Start(2) \in 0..RxStop /\ Start(2) % 2 = 0
  BY <1>4, StartIs
<1>6. Holds(mem, Start(1), Start(1 + 1), queue[1])
  BY <1>4 DEF RingKept, AllStored, Stored
<1>7. Head(queue) = queue[1]
  OBVIOUS
<1>8. next_frame_location = Start(1) /\ next_frame_location \in 0..RxStop
  BY <1>1, StartIs
<1> QED
  BY <1>1, <1>2, <1>4, <1>5, <1>6, <1>7, <1>8, FramesAre, Sizes

\* The header that is read is the first frame's.
LEMMA HeaderRead ==
    ASSUME Common, RingKept, site[Lwip] = "start"
    PROVE  /\ Bytes(next_frame_location, 6) = HeaderFor(Start(2), Len(queue[1]))
           /\ LengthOf(Bytes(next_frame_location, 6)) = Len(queue[1])
<1> DEFINE h == HeaderFor(Start(2), Len(queue[1]))
           b == Bytes(next_frame_location, 6)
<1>1. h \in Seq(0..255) /\ Len(h) = 6 /\ LengthOf(h) = Len(queue[1])
  BY FirstFrame, HeaderIs
<1>2. b \in Seq(0..255) /\ Len(b) = 6 /\ \A j \in 1..6 : b[j] = mem[ReadCell(next_frame_location, j - 1)]
  <2>1. next_frame_location \in Nat /\ mem \in [0..MemTop -> 0..255]
    BY FirstFrame, Sizes DEF Common, Types
  <2> QED BY <2>1, BytesAre
<1>3. \A j \in 1..6 : b[j] = h[j]
  BY <1>2, FirstFrame DEF Holds
<1> HIDE DEF h, b
<1>4. b = h
  BY <1>1, <1>2, <1>3, SeqEqual
<1> QED
  BY <1>1, <1>4 DEF h, b

\* ... and so is the payload.
LEMMA PayloadRead ==
    ASSUME Common, RingKept, site[Lwip] = "alloc"
    PROVE  Bytes(erdpt, length) = queue[1] /\ length \in Nat /\ erdpt \in Nat
<1> DEFINE f == queue[1]
           b == Bytes(erdpt, length)
<1>1. /\ f \in Seq(0..255) /\ length = Len(f) /\ length \in Nat \ {0}
      /\ next_frame_location = Start(1) /\ next_frame_location \in 0..RxStop
      /\ erdpt = ReadCell(next_frame_location, 6)
  BY FirstFrame DEF RingKept, ReaderKept
<1>2. ASSUME NEW j \in 0..(Len(f) + 5)
      PROVE  ReadCell(Start(1), j) \in 0..RxStop /\ Distance(ReadCell(Start(1), j)) = j
  <2>1. 6 + Len(f) <= Space(Len(f)) /\ Space(Len(f)) \in Nat /\ Len(f) \in Nat
    BY <1>1, SpaceIs
  <2>2. j \in 0..(Space(Len(queue[1])) - 1)
    BY <2>1
  <2>3. 1 \in Unread /\ Distance(Start(1)) = 0
    BY <1>1, FirstFrame, DistanceIs
  <2>4. /\ ReadCell(Start(1), j) \in 0..RxStop
        /\ Distance(ReadCell(Start(1), j)) = Distance(Start(1)) + j
    BY <2>2, <2>3, CellsBefore
  <2> QED BY <2>3, <2>4
<1>3. erdpt \in 0..RxStop /\ Distance(erdpt) = 6 /\ erdpt \in Nat
  <2>1. 6 \in 0..(Len(f) + 5)
    BY <1>1
  <2> QED BY <1>1, <1>2, <2>1, Sizes
<1>4. ASSUME NEW j \in 1..Len(f) PROVE ReadCell(erdpt, j - 1) = ReadCell(Start(1), 5 + j)
  <2>1. j - 1 \in Nat /\ 5 + j \in 0..(Len(f) + 5) /\ 6 + (j - 1) = 5 + j
    BY <1>1
  <2>2. ReadCell(Start(1), 5 + j) \in 0..RxStop /\ Distance(ReadCell(Start(1), 5 + j)) = 5 + j
    BY <1>2, <2>1
  <2>3. Distance(ReadCell(Start(1), 5 + j)) <= RxStop
    BY <1>1, <2>2, DistanceIs
  <2>4. Distance(erdpt) + (j - 1) <= RxStop
    BY <1>3, <2>1, <2>2, <2>3
  <2>5. ReadCell(erdpt, j - 1) \in 0..RxStop /\ Distance(ReadCell(erdpt, j - 1)) = 5 + j
    BY <1>1, <1>3, <2>1, <2>4, DistanceAfter
  <2> QED BY <1>1, <2>2, <2>5, DistanceIs
<1>5. b \in Seq(0..255) /\ Len(b) = Len(f) /\ \A j \in 1..Len(f) : b[j] = mem[ReadCell(erdpt, j - 1)]
  <2>1. mem \in [0..MemTop -> 0..255] /\ length \in Nat
    BY <1>1 DEF Common, Types
  <2> QED BY <1>1, <1>3, <2>1, BytesAre
<1>6. \A j \in 1..Len(f) : mem[ReadCell(Start(1), 5 + j)] = f[j]
  BY FirstFrame DEF Holds
<1> HIDE DEF f, b
<1>7. b = f
  BY <1>1, <1>4, <1>5, <1>6, SeqEqual
<1> QED
  BY <1>1, <1>3, <1>7 DEF f, b

LEMMA ReceiveStartRing == ASSUME Common, RingKept, ReceiveStart PROVE RingKept'
<1>1. /\ site[Lwip] = "start" /\ Goto(Lwip, "alloc")
      /\ header' = Bytes(next_frame_location, 6) /\ length' = LengthOf(header')
      /\ erdpt' = ReadCell(next_frame_location, 6)
      /\ UNCHANGED <<mem, erxrdpt, erxwrpt, epktcnt, next_frame_location, buf, queue, place, delivered, arrived>>
  BY DEF ReceiveStart, rxPast
<1>2. site'[Lwip] = "alloc"
  BY <1>1, SiteMoves, SiteNames, TwoThreads DEF Common, Types
<1>3. header' = HeaderFor(Start(2), Len(queue[1])) /\ length' = Len(queue[1])
  BY <1>1, HeaderRead
<1>4. Start(2)' = Start(2)
  BY <1>1 DEF Start
<1>5. erdpt' \in 0..MemTop
  <2>1. next_frame_location \in Nat
    BY <1>1, FirstFrame, Sizes
  <2> QED BY <1>1, <2>1, CellsInMemory
<1>6. ReaderKept'
  BY <1>1, <1>2, <1>3, <1>4, FirstFrame DEF RingKept, ReaderKept
<1> QED
  BY <1>1, <1>2, <1>5, <1>6, ReadingStep

LEMMA ReadPayloadRing == ASSUME Common, RingKept, ReadPayload PROVE RingKept'
<1>1. /\ site[Lwip] = "alloc" /\ Goto(Lwip, "end")
      /\ buf' = Bytes(erdpt, length) /\ erdpt' = ReadCell(erdpt, length)
      /\ UNCHANGED <<mem, erxrdpt, erxwrpt, epktcnt, next_frame_location, header, length, queue, place,
                     delivered, arrived>>
  BY DEF ReadPayload, rxPast
<1>2. site'[Lwip] = "end"
  BY <1>1, SiteMoves, SiteNames, TwoThreads DEF Common, Types
<1>3. buf' = Head(queue) /\ erdpt' \in 0..MemTop
  BY <1>1, PayloadRead, FirstFrame, CellsInMemory
<1>4. Start(2)' = Start(2)
  BY <1>1 DEF Start
<1>5. ReaderKept'
  BY <1>1, <1>2, <1>3, <1>4 DEF RingKept, ReaderKept
<1> QED
  BY <1>1, <1>2, <1>3, <1>5, ReadingStep

LEMMA AllocFailsRing == ASSUME Common, RingKept, AllocFails PROVE RingKept'
<1>1. /\ site[Lwip] = "alloc" /\ Goto(Lwip, "end")
      /\ UNCHANGED <<mem, erxrdpt, erxwrpt, erdpt, epktcnt, next_frame_location, header, length, buf,
                     queue, place, delivered, arrived>>
  BY DEF AllocFails, rxPtrs, rxLocal, rxPast
<1>2. site'[Lwip] = "end"
  BY <1>1, SiteMoves, SiteNames, TwoThreads DEF Common, Types
<1>4. Start(2)' = Start(2) /\ erdpt' \in 0..MemTop
  BY <1>1 DEF Start, RingKept, PointersKept
<1>5. ReaderKept'
  BY <1>1, <1>2, <1>4 DEF RingKept, ReaderKept
<1> QED
  BY <1>1, <1>2, <1>4, <1>5, ReadingStep
\* receive_end: the ring begins one frame later.
LEMMA DistanceMoved ==
    ASSUME next_frame_location \in 0..RxStop, next_frame_location' \in 0..RxStop, NEW c \in 0..RxStop,
           Distance(next_frame_location') <= Distance(c)
    PROVE  Distance(c)' = Distance(c) - Distance(next_frame_location')
<1> DEFINE d == next_frame_location
           e == next_frame_location'
           n == RingSize
<1>1. n \in Nat /\ d \in 0..(n - 1) /\ e \in 0..(n - 1) /\ c \in 0..(n - 1)
  BY Sizes
<1>2. /\ Distance(c) = IF c >= d THEN c - d ELSE c + n - d
      /\ Distance(e) = IF e >= d THEN e - d ELSE e + n - d
      /\ Distance(c)' = IF c >= e THEN c - e ELSE c + n - e
  BY DEF Distance, RingSize
<1>3. Distance(e) <= Distance(c)
  OBVIOUS
<1> HIDE DEF d, e, n
<1>4. Distance(c)' = Distance(c) - Distance(e)
  BY <1>1, <1>2, <1>3
<1> QED
  BY <1>4 DEF e

LEMMA ReleaseRing == ASSUME Common, RingKept, ReleaseFrame PROVE RingKept'
<1>1. /\ site[Lwip] = "end" /\ Goto(Lwip, "decrement")
      /\ next_frame_location' = NextOf(header) /\ erxrdpt' = ReleasePointer(NextOf(header))
      /\ UNCHANGED <<mem, erdpt, erxwrpt, epktcnt, header, length, buf, queue, place, delivered, arrived>>
  BY DEF ReleaseFrame, rxPast
<1>2. site'[Lwip] = "decrement"
  BY <1>1, SiteMoves, SiteNames, TwoThreads DEF Common, Types
<1>3. next_frame_location' = Start(2) /\ erxrdpt' = ReleasePointer(Start(2))
  <2>1. header = HeaderFor(Start(2), Len(queue[1]))
    BY <1>1, FirstFrame DEF RingKept, ReaderKept
  <2>2. NextOf(header) = Start(2)
    BY <1>1, <2>1, FirstFrame, HeaderIs
  <2> QED BY <1>1, <2>2
<1>4. \A k : Start(k)' = Start(k)
  BY <1>1 DEF Start
<1>5. FirstUnread = 1 /\ FirstUnread' = 2 /\ Unread' = 2..Len(queue) /\ Unread = 1..Len(queue)
  BY <1>1, <1>2 DEF FirstUnread, Unread
<1>6. /\ Len(queue) \in Nat \ {0} /\ next_frame_location \in 0..RxStop /\ Start(2) \in 0..RxStop
      /\ \A k \in 1..(Len(queue) + 1) : Start(k) \in 0..RxStop
  <2>1. queue # << >> /\ queue \in Seq(AllFrames)
    BY <1>1, FirstFrame DEF RingKept, FramesKept
  <2>2. Len(queue) \in Nat \ {0}
    BY <2>1, EmptySeq, LenProperties
  <2> QED BY <1>1, <2>2, FirstFrame, StartIs
<1>7. ASSUME NEW k \in 2..(Len(queue) + 1)
      PROVE  Distance(Start(k))' = Distance(Start(k)) - Distance(Start(2))
  <2>1. k \in 1..(Len(queue) + 1) /\ Start(k) \in 0..RxStop
    BY <1>6
  <2>2. Distance(Start(2)) <= Distance(Start(k))
    <3>1. Distance(Start(2)) \in 0..RxStop /\ Distance(Start(k)) \in 0..RxStop
      BY <1>6, <2>1, DistanceIs
    <3>2. CASE k = 2
      BY <3>1, <3>2
    <3>3. CASE k > 2
      <4>1. 2 \in Unread /\ k \in Unread \cup {Len(queue) + 1} /\ 2 \in 1..Len(queue)
        BY <1>5, <1>6, <3>3
      <4>2. Distance(Start(2)) + Space(Len(queue[2])) <= Distance(Start(k))
        BY <3>3, <4>1 DEF RingKept, InOrder
      <4>3. Space(Len(queue[2])) \in Nat
        BY <4>1, FramesAre, SpaceIs
      <4> QED BY <3>1, <4>2, <4>3
    <3> QED BY <3>2, <3>3
  <2>3. \A c \in 0..RxStop : Distance(Start(2)) <= Distance(c) => Distance(c)' = Distance(c) - Distance(Start(2))
    BY <1>3, <1>6, DistanceMoved
  <2> QED BY <1>4, <2>1, <2>2, <2>3
<1>8. FramesKept' /\ CountMatchesQueue'
  BY <1>1, <1>2, <1>6, EmptySeq DEF RingKept, FramesKept, CountMatchesQueue, Reading
<1>9. PointersKept'
  <2>1. \A k : k = FirstUnread' => Start(k)' = Start(2)
    BY <1>4, <1>5
  <2>2. Start(FirstUnread)' = Start(2)
    BY <1>1, <1>5 DEF Start
  <2> QED BY <1>1, <1>3, <2>2 DEF RingKept, PointersKept, ReleasePointer
<1>10. InOrder'
  <2> SUFFICES ASSUME NEW j \in Unread', NEW k \in Unread' \cup {Len(queue) + 1}, j < k
               PROVE  Distance(Start(j))' + Space(Len(queue[j])) <= Distance(Start(k))'
    BY <1>1, <1>4 DEF InOrder
  <2>1. /\ j \in 2..(Len(queue) + 1) /\ k \in 2..(Len(queue) + 1)
        /\ j \in Unread /\ k \in Unread \cup {Len(queue) + 1} /\ j \in 1..Len(queue)
    BY <1>5, <1>6
  <2>2. Distance(Start(j)) + Space(Len(queue[j])) <= Distance(Start(k))
    BY <2>1 DEF RingKept, InOrder
  <2>3. /\ Distance(Start(2)) \in Nat /\ Distance(Start(j)) \in Nat /\ Distance(Start(k)) \in Nat
        /\ Space(Len(queue[j])) \in Nat
    <3>1. Start(j) \in 0..RxStop /\ Start(k) \in 0..RxStop
      BY <1>6, <2>1
    <3>2. Space(Len(queue[j])) \in Nat
      BY <2>1, FramesAre, SpaceIs
    <3>3. \A c \in 0..RxStop : Distance(c) \in Nat
      BY <1>6, DistanceIs
    <3> QED BY <1>6, <3>1, <3>2, <3>3
  <2>4. Distance(Start(j))' = Distance(Start(j)) - Distance(Start(2))
        /\ Distance(Start(k))' = Distance(Start(k)) - Distance(Start(2))
    BY <1>7, <2>1
  <2> QED BY <2>2, <2>3, <2>4
<1>11. AllStored'
  <2>1. \A k \in Unread' : k \in Unread
    BY <1>5
  <2> QED BY <1>1, <1>4, <2>1 DEF RingKept, AllStored, Stored
<1>12. ReaderKept'
  BY <1>1, <1>2 DEF RingKept, ReaderKept
<1> QED
  BY <1>8, <1>9, <1>10, <1>11, <1>12 DEF RingKept
\* The frame is dealt with and leaves the queue.
LEMMA RingPops ==
    ASSUME Common, RingKept, site[Lwip] \in {"decrement", "input"}, site'[Lwip] \in {"poll", "handled"},
           queue' = Tail(queue), place' = Tail(place),
           delivered' = delivered \/ delivered' = Append(delivered, Head(queue)),
           buf' = << >>, length' \in Nat, epktcnt' = Len(queue) - 1,
           UNCHANGED <<mem, erdpt, erxrdpt, erxwrpt, next_frame_location, arrived>>
    PROVE  RingKept'
<1> DEFINE L == Len(queue)
<1>1. /\ queue # << >> /\ queue \in Seq(AllFrames) /\ place \in Seq(0..RxStop) /\ Len(place) = L
      /\ delivered \in Seq(AllFrames) /\ L + Len(delivered) <= arrived /\ Head(queue) = queue[1]
  BY DEF RingKept, FramesKept, Reading
<1>2. L \in Nat \ {0}
  BY <1>1, EmptySeq, LenProperties
<1>3. place # << >>
  BY <1>1, <1>2, EmptySeq
<1>4. /\ queue' \in Seq(AllFrames) /\ Len(queue') = L - 1 /\ \A k \in 1..(L - 1) : queue'[k] = queue[k + 1]
      /\ Head(queue) \in AllFrames
  <2>1. Head(queue) \in AllFrames /\ Tail(queue) \in Seq(AllFrames)
    BY <1>1, HeadTailProperties
  <2>2. Len(Tail(queue)) = L - 1 /\ \A k \in 1..(L - 1) : Tail(queue)[k] = queue[k + 1]
    BY <1>1, HeadTailProperties
  <2> QED BY <2>1, <2>2
<1>5. /\ place' \in Seq(0..RxStop) /\ Len(place') = L - 1
      /\ \A k \in 1..(L - 1) : place'[k] = place[k + 1]
  <2>1. Tail(place) \in Seq(0..RxStop)
    BY <1>1, <1>3, HeadTailProperties
  <2>2. Len(Tail(place)) = L - 1 /\ \A k \in 1..(L - 1) : Tail(place)[k] = place[k + 1]
    BY <1>1, <1>3, HeadTailProperties
  <2> QED BY <2>1, <2>2
<1>6. FirstUnread = 2 /\ FirstUnread' = 1 /\ Unread = 2..L /\ Unread' = 1..(L - 1)
  BY <1>4 DEF FirstUnread, Unread
<1>7. \A k \in 1..L : Start(k)' = Start(k + 1)
  <2> SUFFICES ASSUME NEW k \in 1..L PROVE Start(k)' = Start(k + 1)
    OBVIOUS
  <2> HIDE DEF L
  <2>1. (k <= L - 1 <=> k + 1 <= L) /\ (k <= L - 1 => k \in 1..(L - 1))
    BY <1>2
  <2> QED BY <1>1, <1>5, <2>1 DEF Start
<1>8. \A c : Distance(c)' = Distance(c)
  BY DEF Distance
<1> HIDE DEF L
<1>9. FramesKept'
  <2>1. Len(delivered) \in Nat /\ arrived \in Nat
    BY <1>1, LenProperties, TransAssumption DEF Common, Types
  <2>2. delivered' \in Seq(AllFrames) /\ Len(delivered') \in {Len(delivered), Len(delivered) + 1}
    <3>1. Append(delivered, Head(queue)) \in Seq(AllFrames)
          /\ Len(Append(delivered, Head(queue))) = Len(delivered) + 1
      BY <1>1, <1>4, AppendProperties
    <3> QED BY <1>1, <3>1, Zenon
  <2>3. L - 1 + Len(delivered') <= arrived
    BY <1>1, <1>2, <2>1, <2>2
  <2>4. \A k \in 1..(L - 1) : place'[k] % 2 = 0
    <3> SUFFICES ASSUME NEW k \in 1..(L - 1) PROVE place'[k] % 2 = 0
      OBVIOUS
    <3>1. k + 1 \in 1..L
      BY <1>2
    <3>2. place[k + 1] % 2 = 0
      BY <1>1, <3>1 DEF RingKept, FramesKept
    <3> QED BY <1>5, <3>2
  <2>5. L - 1 \in Nat
    BY <1>2
  <2>6. epktcnt' \in Nat
    BY <2>5 DEF L
  <2> QED
    BY <1>4, <1>5, <2>2, <2>3, <2>4, <2>6 DEF FramesKept, Reading
<1>10. CountMatchesQueue'
  <2>1. site'[Lwip] # "input" /\ epktcnt' = L - 1 /\ L - 1 \in Nat
    BY <1>2 DEF L
  <2>2. epktcnt' + (IF site'[Lwip] = "input" THEN 1 ELSE 0) = L - 1
    BY <2>1
  <2> QED BY <1>4, <2>2 DEF CountMatchesQueue
<1>11. PointersKept'
  <2>1. \A k : k = FirstUnread' => Start(k)' = Start(2)
    BY <1>2, <1>6, <1>7
  <2>2. Start(FirstUnread)' = Start(1)'
    BY <1>6 DEF Start
  <2>3. Start(1)' = Start(1 + 1)
    BY <1>2, <1>7
  <2> QED BY <1>6, <2>2, <2>3 DEF RingKept, PointersKept, ReleasePointer
<1>12. InOrder'
  <2> SUFFICES ASSUME NEW j \in Unread', NEW k \in Unread' \cup {Len(queue') + 1}, j < k
               PROVE  Distance(Start(j)') + Space(Len(queue'[j])) <= Distance(Start(k)')
    BY <1>8 DEF InOrder
  <2>1. j \in 1..(L - 1) /\ k \in 1..L
    BY <1>2, <1>4, <1>6
  <2>2. j + 1 \in Unread /\ k + 1 \in Unread \cup {Len(queue) + 1} /\ j + 1 < k + 1 /\ j \in 1..L
    BY <1>2, <1>6, <2>1 DEF L
  <2>3. Distance(Start(j + 1)) + Space(Len(queue[j + 1])) <= Distance(Start(k + 1))
    BY <2>2 DEF RingKept, InOrder
  <2>4. Start(j)' = Start(j + 1) /\ Start(k)' = Start(k + 1) /\ queue'[j] = queue[j + 1]
    BY <1>4, <1>7, <2>1, <2>2
  <2> QED BY <2>3, <2>4
<1>13. AllStored'
  <2> SUFFICES ASSUME NEW k \in 1..(L - 1) PROVE Holds(mem, Start(k)', Start(k + 1)', queue'[k])
    BY <1>6 DEF AllStored, Stored
  <2>1. k \in 1..L /\ k + 1 \in 1..L /\ k + 1 \in Unread
    BY <1>2, <1>6
  <2>2. Holds(mem, Start(k + 1), Start(k + 1 + 1), queue[k + 1])
    BY <2>1 DEF RingKept, AllStored, Stored
  <2>3. Start(k)' = Start(k + 1) /\ Start(k + 1)' = Start(k + 1 + 1) /\ queue'[k] = queue[k + 1]
    BY <1>4, <1>7, <2>1
  <2> QED BY <2>2, <2>3
<1>14. ReaderKept'
  BY DEF ReaderKept
<1> QED
  BY <1>9, <1>10, <1>11, <1>12, <1>13, <1>14 DEF RingKept

LEMMA DecrementRing == ASSUME Common, RingKept, Decrement PROVE RingKept'
<1>1. /\ site[Lwip] = "decrement" /\ epktcnt' = IF epktcnt = 0 THEN 0 ELSE epktcnt - 1
      /\ length' = 0
      /\ \/ buf = << >> /\ queue' = Tail(queue) /\ place' = Tail(place) /\ Goto(Lwip, "poll")
         \/ buf # << >> /\ Goto(Lwip, "input") /\ UNCHANGED <<queue, place>>
      /\ UNCHANGED <<mem, erdpt, erxrdpt, erxwrpt, next_frame_location, buf, delivered, arrived>>
  BY DEF Decrement, rxPtrs
<1>2. queue # << >> /\ queue \in Seq(AllFrames) /\ epktcnt = Len(queue) /\ epktcnt \in Nat
      /\ buf \in {<< >>, Head(queue)}
  BY <1>1 DEF RingKept, FramesKept, CountMatchesQueue, ReaderKept, Reading
<1>3. Len(queue) \in Nat \ {0} /\ epktcnt' = Len(queue) - 1
  BY <1>1, <1>2, EmptySeq, LenProperties
<1>4. CASE buf = << >>
  <2>1. Goto(Lwip, "poll")
    BY <1>1, <1>4
  <2>2. site'[Lwip] = "poll"
    BY <2>1, SiteMoves, SiteNames, TwoThreads DEF Common, Types
  <2> QED
    BY <1>1, <1>3, <1>4, <2>2, RingPops
<1>5. CASE buf # << >>
  <2>1. Goto(Lwip, "input") /\ UNCHANGED <<queue, place>>
    BY <1>1, <1>5
  <2>2. site'[Lwip] = "input"
    BY <2>1, SiteMoves, SiteNames, TwoThreads DEF Common, Types
  <2>3. \A k : Start(k)' = Start(k)
    BY <1>1, <2>1 DEF Start
  <2>4. FirstUnread' = FirstUnread /\ Unread' = Unread
    BY <1>1, <2>1, <2>2 DEF FirstUnread, Unread
  <2>5. \A c : Distance(c)' = Distance(c)
    BY <1>1 DEF Distance
  <2>6. FramesKept'
    <3>1. epktcnt' \in Nat
      BY <1>3
    <3> QED BY <1>1, <1>2, <2>1, <3>1 DEF RingKept, FramesKept
  <2>7. CountMatchesQueue'
    BY <1>3, <2>1, <2>2 DEF CountMatchesQueue
  <2>8. PointersKept'
    BY <1>1, <2>3, <2>4 DEF RingKept, PointersKept
  <2>9. InOrder'
    BY <2>1, <2>3, <2>4, <2>5 DEF RingKept, InOrder
  <2>10. AllStored'
    BY <1>1, <2>1, <2>3, <2>4 DEF RingKept, AllStored, Stored
  <2>11. ReaderKept'
    BY <1>1, <1>2, <1>5, <2>1, <2>2 DEF ReaderKept
  <2> QED
    BY <2>6, <2>7, <2>8, <2>9, <2>10, <2>11 DEF RingKept
<1> QED
  BY <1>4, <1>5

LEMMA InputRing == ASSUME Common, RingKept, Input PROVE RingKept'
<1>1. /\ site[Lwip] = "input" /\ delivered' = Append(delivered, buf) /\ buf' = << >>
      /\ queue' = Tail(queue) /\ place' = Tail(place) /\ Goto(Lwip, "handled")
      /\ UNCHANGED <<mem, erdpt, erxrdpt, erxwrpt, next_frame_location, length, epktcnt, arrived>>
  BY DEF Input, rxPtrs
<1>2. /\ buf = Head(queue) /\ epktcnt + 1 = Len(queue) /\ epktcnt \in Nat /\ length \in Nat
  BY <1>1 DEF RingKept, FramesKept, CountMatchesQueue, ReaderKept
<1>3. site'[Lwip] = "handled"
  BY <1>1, SiteMoves, SiteNames, TwoThreads DEF Common, Types
<1>4. epktcnt' = Len(queue) - 1
  BY <1>1, <1>2
<1> QED
  BY <1>1, <1>2, <1>3, <1>4, RingPops
\* If receiving and transmitting are apart, the ring is empty while a frame
\* is sent.
LEMMA RingQuiet ==
    ASSUME Common, RingKept, Apart, asked # << >>
    PROVE  site[Lwip] \notin Reading /\ UnreadKept /\ UnreadCells = {}
<1>1. queue \in Seq(AllFrames) /\ delivered \in Seq(AllFrames) /\ Len(queue) + Len(delivered) <= 0
  BY DEF RingKept, FramesKept, Common, KeptApart
<1>2. Len(queue) = 0
  BY <1>1, LenProperties
<1>3. queue = << >>
  BY <1>1, <1>2, EmptySeq
<1>4. site[Lwip] \notin Reading
  BY <1>3 DEF RingKept, FramesKept
<1>5. next_frame_location = erxwrpt /\ next_frame_location \in 0..RxStop
  <2>1. FirstUnread = 1
    BY <1>4 DEF FirstUnread, Reading
  <2>2. Start(1) = erxwrpt /\ next_frame_location = Start(1) /\ next_frame_location \in 0..RxStop
    BY <1>2, <2>1, StartIs
  <2> QED BY <2>2
<1>6. UnreadKept
  BY <1>5, DistanceIs DEF UnreadKept
<1>7. UnreadCells = {}
  <2> DEFINE used == (erxwrpt + RxStop + 1 - next_frame_location) % (RxStop + 1)
  <2>1. erxwrpt + RxStop + 1 - next_frame_location = RxStop + 1
    BY <1>5, Sizes
  <2>2. used = 0
    BY <2>1, Sizes
  <2> HIDE DEF used
  <2>3. UnreadCells = {ReadCell(next_frame_location, i) : i \in 0..(used - 1)}
    BY DEF UnreadCells, used
  <2>4. 0..(used - 1) = {}
    BY <2>2
  <2> QED BY <2>3, <2>4
<1> QED
  BY <1>4, <1>6, <1>7

\* A step of a transmission that spares the unread frames.
LEMMA SendingRing ==
    ASSUME OneReader, Common, RingKept, UnreadKept, NEW t \in Threads, NEW s \in Sites \ Reading,
           site[t] \in {"handled", "idle"} \cup Sending, Goto(t, s),
           UNCHANGED <<epktcnt, erxrdpt, erxwrpt, rxLocal, queue, place, delivered, arrived>>,
           erdpt' \in 0..MemTop, erdpt' = erdpt \/ site[t] \in Sending
    PROVE  RingKept'
<1>1. /\ site'[t] = s /\ \A u \in Threads : u # t => site'[u] = site[u]
      /\ arrived' \in Nat /\ arrived <= arrived'
  BY SiteMoves, TransAssumption DEF Common, Types
<1>2. site[t] \notin Reading
  BY DEF Reading, Sending
<1>3. site'[Lwip] = site[Lwip] \/ (site[Lwip] \notin Reading /\ site'[Lwip] \notin Reading)
  BY <1>1, <1>2, TwoThreads
<1>4. erdpt' = erdpt \/ site[Lwip] \notin Reading
  <2> SUFFICES ASSUME site[t] \in Sending PROVE site[Lwip] \notin Reading
    OBVIOUS
  <2>1. t \in Senders /\ asked # << >>
    BY DEF Common, ThreadsKept, ThreadKept
  <2> QED BY <1>2, <2>1, RingQuiet DEF OneReader
<1> QED
  BY <1>1, <1>3, <1>4, RingStays

\* What is known of the transmission when only lwip_thread sends.
SentAlone == Senders \subseteq {Lwip} => SentBy(Lwip)

\* The two writes of a transmission that may reach an unread byte, and the
\* one that may not unless the other sender is at work.
LEMMA ControlSpares ==
    ASSUME OneReader, Common, RingKept, NEW t \in Threads, ControlByte(t), ~clobbered'
    PROVE  UnreadKept
<1>1. mem' = Write(mem, RxStop, <<0>>) /\ RxStop \notin UnreadCells
  BY DEF ControlByte, rxbufsize
<1>2. /\ next_frame_location \in 0..RxStop /\ erxwrpt \in 0..RxStop /\ RxStop \in 0..RxStop /\ RxStop \in Nat
      /\ mem \in [0..MemTop -> 0..255] /\ WriteCell(RxStop, 0) = RxStop
  <2>1. RxStop \in Nat /\ RxStop + 0 <= MemTop
    BY Sizes
  <2>2. WriteCell(RxStop, 0) = RxStop + 0
    BY <2>1, WriteNoWrap
  <2>3. next_frame_location \in 0..RxStop /\ erxwrpt \in 0..RxStop /\ mem \in [0..MemTop -> 0..255]
    BY StartIs DEF Common, Types
  <2> QED BY <2>1, <2>2, <2>3
<1>3. ~(Distance(RxStop) < Distance(erxwrpt))
  BY <1>1, <1>2, UnreadCellsAre
<1>4. ASSUME NEW c \in 0..RxStop, c # RxStop PROVE mem'[c] = mem[c]
  <2> DEFINE data == <<0>>
  <2>1. data \in Seq(0..255) /\ \A j \in 1..Len(data) : j - 1 = 0
    OBVIOUS
  <2> HIDE DEF data
  <2>2. mem' = Write(mem, RxStop, data)
    BY <1>1 DEF data
  <2>3. c \in 0..MemTop
    BY Sizes
  <2>4. \A j \in 1..Len(data) : WriteCell(RxStop, j - 1) # c
    BY <1>2, <1>4, <2>1
  <2>5. \/ Write(mem, RxStop, data)[c] = mem[c]
        \/ \E j \in 1..Len(data) : WriteCell(RxStop, j - 1) = c
    BY <1>2, <2>1, <2>3, WriteIs
  <2> QED BY <2>2, <2>4, <2>5
<1> QED
  BY <1>3, <1>4 DEF UnreadKept

LEMMA PartialSpares ==
    ASSUME OneReader, Common, RingKept, SentAlone, NEW t \in Threads, TransmitPartial(t)
    PROVE  UnreadKept
<1>1. site[t] = "partial"
  BY DEF TransmitPartial
<1>2. asked # << >> /\ t \in Senders
  BY <1>1 DEF Common, ThreadsKept, ThreadKept, Sending
<1>3. CASE Apart
  BY <1>2, <1>3, RingQuiet
<1>4. CASE Senders \subseteq {Lwip}
  <2>1. t = Lwip /\ SentBy(t)
    BY <1>2, <1>4 DEF SentAlone
  <2>2. PICK n \in 1..left[t] :
            /\ mem' = Write(mem, ewrpt, SubSeq(pkt[t], Len(pkt[t]) - left[t] + 1, Len(pkt[t]) - left[t] + n))
            /\ ewrpt' = WriteCell(ewrpt, n)
    BY DEF TransmitPartial
  <2>3. \A c \in 0..RxStop : mem'[c] = mem[c]
    BY <1>1, <2>1, <2>2, PartWritten
  <2> QED BY <2>3 DEF UnreadKept
<1> QED
  BY <1>3, <1>4 DEF OneReader

LEMMA TransmittedSpares ==
    ASSUME OneReader, Common, RingKept, SentAlone, Transmitted
    PROVE  UnreadKept
<1>1. txrts /\ mem' = Write(mem, etxnd + 1, <<9, 9, 9, 9, 9, 9, 9>>)
  BY DEF Transmitted
<1>2. asked # << >>
  <2>1. Len(wire) \in Nat /\ ToSend(Lwip) \in Nat /\ ToSend(Tcpip) \in Nat /\ Requested = 1
    BY <1>1, Lengths DEF Common, ToSend, Requested
  <2>2. Len(wire) + Requested + ToSend(Lwip) + ToSend(Tcpip) <= Len(asked)
    BY DEF Common, SendsCounted
  <2>3. Len(asked) \in Nat /\ Len(asked) # 0
    BY <2>1, <2>2, Lengths DEF Common
  <2> QED BY <2>3, EmptySeq
<1>3. CASE Apart
  BY <1>2, <1>3, RingQuiet
<1>4. CASE Senders \subseteq {Lwip}
  <2> DEFINE len == Len(pkt[Lwip])
             data == <<9, 9, 9, 9, 9, 9, 9>>
  <2>1. SentBy(Lwip) /\ site[Lwip] \in Sending /\ etxnd = RxStop + len
    BY <1>1, <1>4 DEF SentAlone, SentBy, Sending
  <2>2. len \in Nat /\ RxStop + len + 7 <= MemTop
    BY <2>1, PacketIs, TwoThreads
  <2>3. data \in Seq(0..255) /\ Len(data) = 7
    OBVIOUS
  <2>4. etxnd + 1 \in Nat /\ mem \in [0..MemTop -> 0..255] /\ mem' = Write(mem, etxnd + 1, data)
    <3>1. mem \in [0..MemTop -> 0..255] /\ etxnd \in Nat
      BY Sizes DEF Common, Types
    <3> QED BY <1>1, <3>1
  <2> HIDE DEF len, data
  <2>5. ASSUME NEW j \in 1..7 PROVE WriteCell(etxnd + 1, j - 1) > RxStop
    <3>1. j - 1 \in Nat /\ etxnd + 1 + (j - 1) <= MemTop /\ etxnd + 1 + (j - 1) > RxStop
      BY <2>1, <2>2, Sizes
    <3>2. WriteCell(etxnd + 1, j - 1) = etxnd + 1 + (j - 1)
      BY <2>4, <3>1, WriteNoWrap
    <3> QED BY <3>1, <3>2
  <2>6. ASSUME NEW c \in 0..RxStop PROVE mem'[c] = mem[c]
    <3>1. c \in 0..MemTop /\ \A j \in 1..7 : WriteCell(etxnd + 1, j - 1) # c
      BY <2>5, Sizes
    <3> QED BY <2>3, <2>4, <3>1, WriteIs
  <2> QED BY <2>6 DEF UnreadKept
<1> QED
  BY <1>3, <1>4 DEF OneReader
LEMMA TransmitRing ==
    ASSUME OneReader, Common, RingKept, SentAlone, NEW t \in Threads, Transmit(t), ~clobbered'
    PROVE  RingKept'
<1>1. erdpt \in 0..MemTop
  BY DEF RingKept, PointersKept
<1>2. UNCHANGED mem => UnreadKept
  BY DEF UnreadKept
<1>3. CASE TransmitStart(t)
  <2>1. /\ site[t] \in {"handled", "idle"} /\ Goto(t, "control")
        /\ UNCHANGED <<mem, erdpt, erxrdpt, erxwrpt, epktcnt, rxLocal, queue, place, delivered, arrived>>
    BY <1>3 DEF TransmitStart, rxPtrs, rxPast
  <2>2. "control" \in Sites \ Reading
    BY SiteNames DEF Reading
  <2> QED BY <1>1, <1>2, <2>1, <2>2, SendingRing
<1>4. CASE ControlByte(t)
  <2>1. /\ site[t] \in Sending /\ Goto(t, "partial")
        /\ UNCHANGED <<erdpt, erxrdpt, erxwrpt, epktcnt, rxLocal, queue, place, delivered, arrived>>
    BY <1>4 DEF ControlByte, rxPtrs, rxPast, Sending
  <2>2. "partial" \in Sites \ Reading
    BY SiteNames DEF Reading
  <2> QED BY <1>1, <1>4, <2>1, <2>2, ControlSpares, SendingRing
<1>5. CASE TransmitPartial(t)
  <2>1. PICK s \in {"txnd", "partial"} : Goto(t, s)
    BY <1>5 DEF TransmitPartial
  <2>2. /\ site[t] \in Sending
        /\ UNCHANGED <<erdpt, erxrdpt, erxwrpt, epktcnt, rxLocal, queue, place, delivered, arrived>>
    BY <1>5 DEF TransmitPartial, rxPtrs, rxPast, Sending
  <2>3. s \in Sites \ Reading
    BY SiteNames DEF Reading
  <2> QED BY <1>1, <1>5, <2>1, <2>2, <2>3, PartialSpares, SendingRing
<1>6. CASE TransmitEnd(t) \/ RequestToSend(t)
  <2>1. PICK s \in {"request", "spin"} : Goto(t, s)
    BY <1>6 DEF TransmitEnd, RequestToSend
  <2>2. /\ site[t] \in Sending
        /\ UNCHANGED <<mem, erdpt, erxrdpt, erxwrpt, epktcnt, rxLocal, queue, place, delivered, arrived>>
    BY <1>6 DEF TransmitEnd, RequestToSend, rxPtrs, rxPast, Sending
  <2>3. s \in Sites \ Reading
    BY SiteNames DEF Reading
  <2> QED BY <1>1, <1>2, <2>1, <2>2, <2>3, SendingRing
<1>7. CASE ReadBack(t) \/ ReadResult(t)
  <2>1. PICK s \in {"result", "handled", "idle"} : Goto(t, s)
    BY <1>7 DEF ReadBack, ReadResult
  <2>2. /\ site[t] \in Sending
        /\ UNCHANGED <<mem, erxrdpt, erxwrpt, epktcnt, rxLocal, queue, place, delivered, arrived>>
    BY <1>7 DEF ReadBack, ReadResult, rxPast, Sending
  <2>3. s \in Sites \ Reading
    BY SiteNames DEF Reading
  <2>4. erdpt' \in 0..MemTop
    <3>2. RxStop \in Nat /\ Len(pkt[t]) \in Nat
      BY PacketIs, Sizes
    <3> DEFINE n == Len(pkt[t])
    <3>4. n \in Nat
      BY <3>2
    <3> HIDE DEF n
    <3>3. RxStop + 1 + n \in Nat
      BY <3>2, <3>4
    <3>1. RxStop \in Nat /\ RxStop + 1 + Len(pkt[t]) \in Nat
      BY <3>2, <3>3 DEF n
    <3> QED BY <1>7, <3>1, CellsInMemory DEF ReadBack, ReadResult, rxbufsize
  <2> QED BY <1>2, <2>1, <2>2, <2>3, <2>4, SendingRing
<1> QED
  BY <1>3, <1>4, <1>5, <1>6, <1>7 DEF Transmit

LEMMA ReceiveRing == ASSUME Common, RingKept, Receive PROVE RingKept'
<1>1. erdpt \in 0..MemTop /\ arrived \in Nat
  BY TransAssumption DEF RingKept, PointersKept, Common, Types
<1>2. UNCHANGED mem => UnreadKept
  BY DEF UnreadKept
<1>3. CASE PacketCounted
  <2>1. /\ site[Lwip] = "poll" /\ epktcnt # 0 /\ Goto(Lwip, "start")
        /\ UNCHANGED <<mem, erdpt, erxrdpt, erxwrpt, epktcnt, rxLocal, queue, place, delivered, arrived>>
    BY <1>3 DEF PacketCounted, rxPtrs, rxPast
  <2>2. site'[Lwip] = "start"
    BY <2>1, SiteMoves, SiteNames, TwoThreads DEF Common, Types
  <2>3. queue # << >>
    <3>1. epktcnt \in Nat /\ epktcnt = Len(queue)
      BY <2>1 DEF RingKept, FramesKept, CountMatchesQueue
    <3> QED BY <2>1, <3>1, EmptySeq
  <2>4. site[Lwip] \notin Reading
    BY <2>1 DEF Reading
  <2> QED BY <1>1, <1>2, <2>1, <2>2, <2>3, <2>4, RingStays
<1>4. CASE NoPacket
  <2>1. /\ UNCHANGED <<mem, erdpt, erxrdpt, erxwrpt, epktcnt, rxLocal, queue, place, delivered, arrived>>
        /\ UNCHANGED site
    BY <1>4 DEF NoPacket, vars, rxPtrs, rxPast
  <2> QED BY <1>1, <1>2, <2>1, RingStays
<1>5. CASE BackToPolling
  <2>1. /\ site[Lwip] = "handled" /\ Goto(Lwip, "poll")
        /\ UNCHANGED <<mem, erdpt, erxrdpt, erxwrpt, epktcnt, rxLocal, queue, place, delivered, arrived>>
    BY <1>5 DEF BackToPolling, rxPtrs, rxPast
  <2>2. site'[Lwip] = "poll"
    BY <2>1, SiteMoves, SiteNames, TwoThreads DEF Common, Types
  <2>3. site[Lwip] \notin Reading /\ site'[Lwip] \notin Reading
    BY <2>1, <2>2 DEF Reading
  <2> QED BY <1>1, <1>2, <2>1, <2>3, RingStays
<1> QED
  BY <1>3, <1>4, <1>5, ReceiveStartRing, ReadPayloadRing, AllocFailsRing, ReleaseRing, DecrementRing, InputRing
     DEF Receive

LEMMA ChipRing ==
    ASSUME OneReader, Common, RingKept, SentAlone, FrameDropped \/ Transmitted PROVE RingKept'
<1>1. /\ UNCHANGED <<erdpt, erxrdpt, erxwrpt, epktcnt, rxLocal, queue, place, delivered, site>>
      /\ arrived' \in {arrived, arrived + 1}
  BY DEF FrameDropped, Transmitted, rxPtrs, rxPast
<1>2. erdpt \in 0..MemTop /\ arrived \in Nat
  BY TransAssumption DEF RingKept, PointersKept, Common, Types
<1>3. UnreadKept
  <2>1. FrameDropped => UNCHANGED mem
    BY DEF FrameDropped
  <2> QED BY <2>1, TransmittedSpares DEF UnreadKept
<1>4. arrived' \in Nat /\ arrived <= arrived'
  BY <1>1, <1>2
<1> QED
  BY <1>1, <1>2, <1>3, <1>4, RingStays

\* The inductive invariant of reception.
ReceiveInv == Common /\ SentAlone /\ (clobbered \/ RingKept) /\ (Apart => ~clobbered)

LEMMA ReceiveInit == ASSUME OneReader, Init PROVE ReceiveInv
<1>1. Common /\ SentAlone
  BY CommonInit, SentInit, TwoThreads DEF SentAlone
<1>2. /\ queue = << >> /\ place = << >> /\ delivered = << >> /\ epktcnt = 0 /\ arrived = 0 /\ ~clobbered
      /\ site[Lwip] = "poll" /\ next_frame_location = 0 /\ erxwrpt = 0 /\ erxrdpt = 0 /\ erdpt = 0
      /\ length = 0 /\ buf = << >>
  BY TwoThreads DEF Init
<1>3. Len(queue) = 0 /\ Len(place) = 0 /\ Len(delivered) = 0
  BY <1>2, EmptySeq
<1>4. FirstUnread = 1 /\ Unread = {} /\ Start(1) = 0
  BY <1>2, <1>3 DEF FirstUnread, Unread, Start
<1>5. FramesKept /\ CountMatchesQueue
  BY <1>2, <1>3, EmptySeq DEF FramesKept, CountMatchesQueue, Reading
<1>6. PointersKept
  BY <1>2, <1>4, Sizes DEF PointersKept
<1>7. InOrder /\ AllStored
  BY <1>4 DEF InOrder, AllStored
<1>8. ReaderKept
  BY <1>2 DEF ReaderKept
<1> QED
  BY <1>1, <1>2, <1>5, <1>6, <1>7, <1>8 DEF ReceiveInv, RingKept

LEMMA ReceiveNext == ASSUME OneReader, ReceiveInv, [Next]_vars PROVE ReceiveInv'
<1>1. Common /\ Common' /\ SentAlone
  BY CommonNext DEF ReceiveInv
<1>2. SentAlone'
  BY <1>1, SentNext, TwoThreads DEF SentAlone
<1>3. clobbered => clobbered'
  BY DEF Next, FrameArrives, FrameDropped, Transmitted, Receive, PacketCounted, NoPacket, ReceiveStart,
         ReadPayload, AllocFails, ReleaseFrame, Decrement, Input, BackToPolling, Transmit, TransmitStart,
         ControlByte, TransmitPartial, TransmitEnd, RequestToSend, ReadBack, ReadResult, txPast, vars
<1>4. Apart => ~clobbered'
  <2> SUFFICES ASSUME Apart PROVE ~clobbered'
    OBVIOUS
  <2>1. ~clobbered /\ RingKept
    BY DEF ReceiveInv
  <2>2. CASE \E t \in Threads : ControlByte(t)
    <3>1. PICK t \in Threads : ControlByte(t)
      BY <2>2
    <3>2. site[t] \in Sending /\ clobbered' = (clobbered \/ RxStop \in UnreadCells)
      BY <3>1 DEF ControlByte, Sending, rxbufsize
    <3>3. asked # << >>
      BY <1>1, <3>2 DEF Common, ThreadsKept, ThreadKept
    <3> QED BY <1>1, <2>1, <3>2, <3>3, RingQuiet
  <2>3. CASE ~\E t \in Threads : ControlByte(t)
    <3>1. UNCHANGED clobbered
      BY <2>3
         DEF Next, FrameArrives, FrameDropped, Transmitted, Receive, PacketCounted, NoPacket, ReceiveStart,
             ReadPayload, AllocFails, ReleaseFrame, Decrement, Input, BackToPolling, Transmit, TransmitStart,
             TransmitPartial, TransmitEnd, RequestToSend, ReadBack, ReadResult, txPast, vars
    <3> QED BY <2>1, <3>1
  <2> QED BY <2>2, <2>3
<1>5. ASSUME ~clobbered' PROVE RingKept'
  <2>1. RingKept
    BY <1>3, <1>5 DEF ReceiveInv
  <2>2. CASE UNCHANGED vars
    BY <2>1, <2>2 DEF vars, rxPtrs, rxLocal, rxPast, RingKept, FramesKept, CountMatchesQueue, PointersKept, InOrder,
                      AllStored, Stored, ReaderKept, Unread, FirstUnread, Start, Distance
  <2>3. CASE Next
    BY <1>1, <1>5, <2>1, <2>3, ArrivalRing, ReceiveRing, ChipRing, TransmitRing DEF Next
  <2> QED BY <2>2, <2>3
<1> QED
  BY <1>1, <1>2, <1>4, <1>5 DEF ReceiveInv

LEMMA ReceiveHolds == OneReader => (Spec => []ReceiveInv)
<1> SUFFICES ASSUME OneReader PROVE Spec => []ReceiveInv
  OBVIOUS
<1>1. Init => ReceiveInv
  BY ReceiveInit
<1>2. ReceiveInv /\ [Next]_vars => ReceiveInv'
  BY ReceiveNext
<1> QED
  BY <1>1, <1>2, PTL DEF Spec
-----------------------------------------------------------------------------
(* What it all shows.                                                       *)

\* Every pointer stays in the buffer memory and every count within its bound,
\* when receiving and transmitting are apart.
THEOREM EncTransTypes == Apart => (Spec => []TypeOK)
<1> SUFFICES ASSUME Apart PROVE Spec => []TypeOK
  OBVIOUS
<1>1. ASSUME ReceiveInv PROVE TypeOK
  <2>1. Common /\ RingKept
    BY <1>1 DEF ReceiveInv
  <2>2. DOMAIN mem = 0..MemTop /\ \A c \in 0..MemTop : mem[c] \in 0..255
    BY <2>1 DEF Common, Types
  <2>3. next_frame_location \in 0..RxStop /\ erxwrpt \in 0..RxStop
    BY <2>1, StartIs DEF Common, Types
  <2>4. {erdpt, ewrpt, etxst, etxnd, erxrdpt, erxwrpt, next_frame_location} \subseteq 0..MemTop
    <3>1. erxrdpt \in 0..RxStop
      BY <2>1, <2>3, Sizes DEF RingKept, PointersKept, ReleasePointer
    <3> QED BY <2>1, <2>3, <3>1, Sizes DEF Common, Types, RingKept, PointersKept
  <2>5. /\ Len(queue) \in Nat /\ Len(delivered) \in Nat /\ arrived \in 0..MaxRx /\ MaxRx \in Nat
        /\ Len(queue) + Len(delivered) <= arrived /\ epktcnt \in Nat /\ length \in Nat
    BY <2>1, LenProperties, TransAssumption DEF Common, Types, RingKept, FramesKept, ReaderKept
  <2>6. epktcnt = Len(queue) \/ epktcnt + 1 = Len(queue)
    BY <2>1, <2>5 DEF RingKept, CountMatchesQueue
  <2>7. epktcnt \in 0..MaxRx /\ Len(queue) <= MaxRx /\ Len(delivered) <= MaxRx
    BY <2>5, <2>6
  <2>8. Len(wire) <= MaxTx /\ Len(asked) <= MaxTx
    <3>1. Len(wire) \in Nat /\ Len(asked) \in Nat /\ Len(asked) <= MaxTx /\ MaxTx \in Nat
      BY <2>1, Lengths, TransAssumption DEF Common, Types
    <3>2. Requested \in Nat /\ ToSend(Lwip) \in Nat /\ ToSend(Tcpip) \in Nat
      BY DEF Requested, ToSend
    <3>3. Len(wire) + Requested + ToSend(Lwip) + ToSend(Tcpip) <= Len(asked)
      BY <2>1 DEF Common, SendsCounted
    <3> QED BY <3>1, <3>2, <3>3
  <2>9. \A t \in Threads : left[t] \in 0..Len(pkt[t])
    BY <2>1, PacketIs
  <2> QED
    BY <2>1, <2>2, <2>4, <2>5, <2>7, <2>8, <2>9 DEF TypeOK, Common, Types
<1>2. Spec => []ReceiveInv
  BY ReceiveHolds DEF OneReader
<1>3. ReceiveInv => TypeOK
  BY <1>1
<1> QED
  BY <1>2, <1>3, PTL

\* A frame that reaches netif->input is the one whose turn it is, byte for
\* byte, unless a transmission's control byte has overwritten the last cell
\* of the ring while an unread frame lay there.
THEOREM InputIntactUnlessClobbered == OneReader => (Spec => []IntactUnlessClobbered)
<1>1. ReceiveInv => IntactUnlessClobbered
  BY DEF ReceiveInv, RingKept, ReaderKept, IntactUnlessClobbered, InputIntact
<1> QED
  BY <1>1, ReceiveHolds, PTL

\* Without transmissions at the same time it always is.
THEOREM InputsIntact == Apart => (Spec => []InputIntact)
<1> SUFFICES ASSUME Apart PROVE Spec => []InputIntact
  OBVIOUS
<1>1. ReceiveInv => InputIntact
  BY DEF ReceiveInv, RingKept, ReaderKept, InputIntact
<1>2. Spec => []ReceiveInv
  BY ReceiveHolds DEF OneReader
<1> QED
  BY <1>1, <1>2, PTL

\* The headers of the unread frames chain from next_frame_location to
\* ERXWRPT, and the chip, which sees only ERXRDPT, overwrites none of them.
THEOREM RingsIntact == OneReader => (Spec => []RingIntact)
<1>1. ASSUME ReceiveInv PROVE RingIntact
  <2> DEFINE at == Append(place, erxwrpt)
  <2> SUFFICES ASSUME site[Lwip] \in {"poll", "start", "handled"}, ~clobbered
               PROVE  /\ at[1] = next_frame_location
                      /\ \A k \in 1..Len(queue) :
                             /\ NextOf(Bytes(at[k], 6)) = at[k + 1]
                             /\ LengthOf(Bytes(at[k], 6)) = Len(queue[k])
                             /\ Bytes(ReadCell(at[k], 6), LengthOf(Bytes(at[k], 6))) = queue[k]
    BY Zenon DEF RingIntact
  <2>1. Common /\ RingKept /\ mem \in [0..MemTop -> 0..255]
    BY <1>1 DEF ReceiveInv, Common, Types
  <2>2. FirstUnread = 1 /\ Unread = 1..Len(queue)
    BY DEF FirstUnread, Unread
  <2>3. /\ Len(queue) \in Nat /\ Len(place) = Len(queue) /\ next_frame_location = Start(1)
        /\ next_frame_location \in 0..RxStop
        /\ \A k \in 1..(Len(queue) + 1) : Start(k) \in 0..RxStop
    BY <2>1, <2>2, StartIs
  <2>4. \A k \in 1..(Len(queue) + 1) : at[k] = Start(k)
    <3>1. place \in Seq(0..RxStop) /\ erxwrpt \in 0..RxStop
      BY <2>1 DEF RingKept, FramesKept, Common, Types
    <3>2. /\ \A k \in 1..Len(queue) : at[k] = place[k]
          /\ at[Len(queue) + 1] = erxwrpt
      BY <2>3, <3>1, AppendProperties
    <3> HIDE DEF at
    <3> QED BY <2>3, <3>2 DEF Start
  <2> HIDE DEF at
  <2>5. at[1] = next_frame_location
    BY <2>3, <2>4
  <2>6. ASSUME NEW k \in 1..Len(queue)
        PROVE  /\ NextOf(Bytes(at[k], 6)) = at[k + 1]
               /\ LengthOf(Bytes(at[k], 6)) = Len(queue[k])
               /\ Bytes(ReadCell(at[k], 6), LengthOf(Bytes(at[k], 6))) = queue[k]
    <3>1. k \in 1..(Len(queue) + 1) /\ k + 1 \in 1..(Len(queue) + 1) /\ k \in Unread
      BY <2>2, <2>3
    <3>2. /\ at[k] = Start(k) /\ at[k + 1] = Start(k + 1)
          /\ Start(k) \in 0..RxStop /\ Start(k + 1) \in 0..RxStop
      BY <2>3, <2>4, <3>1
    <3>3. Holds(mem, Start(k), Start(k + 1), queue[k])
      BY <2>1, <3>1 DEF RingKept, AllStored, Stored
    <3>4. queue[k] \in Seq(0..255) /\ Len(queue[k]) \in RxSizes /\ Len(queue[k]) \in Nat \ {0}
      BY <2>1, FramesAre
    <3>5. Start(k + 1) \in 0..MemTop /\ Start(k) \in Nat
      BY <3>2, Sizes
    <3> DEFINE h == HeaderFor(Start(k + 1), Len(queue[k]))
               b == Bytes(Start(k), 6)
               f == queue[k]
               p == Bytes(ReadCell(Start(k), 6), Len(f))
    <3>6. h \in Seq(0..255) /\ Len(h) = 6 /\ NextOf(h) = Start(k + 1) /\ LengthOf(h) = Len(f)
      BY <3>4, <3>5, HeaderIs
    <3>7. b \in Seq(0..255) /\ Len(b) = 6 /\ \A j \in 1..6 : b[j] = mem[ReadCell(Start(k), j - 1)]
      BY <2>1, <3>5, BytesAre
    <3>8. \A j \in 1..6 : b[j] = h[j]
      BY <3>3, <3>7 DEF Holds
    <3>9. ASSUME NEW j \in 0..(Len(f) + 5)
          PROVE  /\ ReadCell(Start(k), j) \in 0..RxStop
                 /\ Distance(ReadCell(Start(k), j)) = Distance(Start(k)) + j
      <4>1. 6 + Len(f) <= Space(Len(f)) /\ Space(Len(f)) \in Nat
        BY <3>4, SpaceIs
      <4>2. j \in 0..(Space(Len(queue[k])) - 1)
        BY <3>4, <4>1
      <4> QED BY <2>1, <3>1, <4>2, CellsBefore
    <3>10. ReadCell(Start(k), 6) \in 0..RxStop /\ Distance(ReadCell(Start(k), 6)) = Distance(Start(k)) + 6
      <4>1. 6 \in 0..(Len(f) + 5)
        BY <3>4
      <4> QED BY <3>9, <4>1
    <3>11. ASSUME NEW j \in 1..Len(f)
           PROVE  ReadCell(ReadCell(Start(k), 6), j - 1) = ReadCell(Start(k), 5 + j)
      <4> DEFINE c == ReadCell(Start(k), 6)
                 d == ReadCell(Start(k), 5 + j)
                 e == Distance(Start(k))
      <4>1. j - 1 \in Nat /\ 5 + j \in 0..(Len(f) + 5)
        BY <3>4
      <4>2. c \in 0..RxStop /\ Distance(c) = e + 6 /\ d \in 0..RxStop /\ Distance(d) = e + (5 + j)
        BY <3>9, <3>10, <4>1
      <4>3. e \in Nat /\ Distance(d) <= RxStop
        BY <2>3, <3>2, <4>2, DistanceIs
      <4> HIDE DEF c, d, e
      <4>4. Distance(c) + (j - 1) <= RxStop /\ Distance(c) + (j - 1) = Distance(d)
        BY <4>1, <4>2, <4>3
      <4>5. ReadCell(c, j - 1) \in 0..RxStop /\ Distance(ReadCell(c, j - 1)) = Distance(d)
        BY <2>3, <4>1, <4>2, <4>4, DistanceAfter
      <4>6. ReadCell(c, j - 1) = d
        BY <2>3, <4>2, <4>5, DistanceIs
      <4> QED BY <4>6 DEF c, d
    <3>12. p \in Seq(0..255) /\ Len(p) = Len(f)
           /\ \A j \in 1..Len(f) : p[j] = mem[ReadCell(ReadCell(Start(k), 6), j - 1)]
      <4>1. ReadCell(Start(k), 6) \in Nat /\ Len(f) \in Nat
        BY <3>4, <3>10, Sizes
      <4> QED BY <2>1, <4>1, BytesAre
    <3>13. \A j \in 1..Len(f) : mem[ReadCell(Start(k), 5 + j)] = f[j]
      BY <3>3 DEF Holds
    <3> HIDE DEF h, b, f, p
    <3>14. b = h
      BY <3>6, <3>7, <3>8, SeqEqual
    <3>15. p = f
      <4>1. f \in Seq(0..255)
        BY <3>4 DEF f
      <4> QED BY <3>11, <3>12, <3>13, <4>1, SeqEqual
    <3>16. NextOf(b) = Start(k + 1) /\ LengthOf(b) = Len(f)
      BY <3>6, <3>14
    <3> QED BY <3>2, <3>15, <3>16 DEF b, f, p
  <2> QED BY <2>5, <2>6
<1>2. ReceiveInv => RingIntact
  BY <1>1
<1> QED
  BY <1>2, ReceiveHolds, PTL

\* PKTDEC is done exactly once for each frame, delivered or not.
THEOREM CountsMatch == Apart => (Spec => []CountMatchesQueue)
<1> SUFFICES ASSUME Apart PROVE Spec => []CountMatchesQueue
  OBVIOUS
<1>1. ReceiveInv => CountMatchesQueue
  BY DEF ReceiveInv, RingKept
<1>2. Spec => []ReceiveInv
  BY ReceiveHolds DEF OneReader
<1> QED
  BY <1>1, <1>2, PTL

\* The errata workaround: with lwip_thread as the only user of the chip,
\* receive_end moves ERXRDPT to odd addresses only, also where the next frame
\* starts at the ring's beginning, until a control byte falls on an unread byte
\* of the ring.
THEOREM ReadPointersOdd == OneReader => (Spec => ReadPointerOdd)
<1> SUFFICES ASSUME OneReader PROVE Spec => ReadPointerOdd
  OBVIOUS
<1>1. ASSUME ReceiveInv, [Next]_vars, erxrdpt' # erxrdpt, ~clobbered PROVE erxrdpt' % 2 = 1
  <2>1. Common /\ RingKept
    BY <1>1 DEF ReceiveInv
  <2>2. ReleaseFrame
    BY <1>1 DEF Next, FrameArrives, FrameDropped, Transmitted, Receive, PacketCounted, NoPacket, ReceiveStart,
                ReadPayload, AllocFails, Decrement, Input, BackToPolling, Transmit, TransmitStart,
                ControlByte, TransmitPartial, TransmitEnd, RequestToSend, ReadBack, ReadResult, rxPtrs, vars
  <2>3. site[Lwip] = "end" /\ erxrdpt' = ReleasePointer(NextOf(header))
    BY <2>2 DEF ReleaseFrame
  <2>4. /\ header = HeaderFor(Start(2), Len(queue[1])) /\ Len(queue[1]) \in RxSizes
        /\ Start(2) \in 0..MemTop /\ Start(2) \in 0..RxStop /\ Start(2) % 2 = 0
    BY <2>1, <2>3, FirstFrame DEF RingKept, ReaderKept
  <2>5. NextOf(header) = Start(2)
    BY <2>4, HeaderIs
  <2>6. erxrdpt' = IF Start(2) = 0 THEN RxStop ELSE Start(2) - 1
    BY <2>3, <2>5 DEF ReleasePointer
  <2> QED BY <2>4, <2>6, Sizes
<1>2. Spec => []ReceiveInv
  BY ReceiveHolds
<1>4. ReceiveInv /\ [Next]_vars => [erxrdpt' # erxrdpt /\ ~clobbered => erxrdpt' % 2 = 1]_vars
  BY <1>1
<1> QED
  BY <1>2, <1>4, PTL DEF Spec, ReadPointerOdd

\* Step by step, the receive path is the queue of frames of FrameQueue: what
\* the chip accepts is delivered in its order, whole and once, or left out
\* for want of a pbuf.
THEOREM ReceivesInOrder ==
    Apart => (Spec => Receiving!Init /\ [][Receiving!Next]_<<queue, delivered>>)
<1> SUFFICES ASSUME Apart PROVE Spec => Receiving!Init /\ [][Receiving!Next]_<<queue, delivered>>
  OBVIOUS
<1>1. Init => Receiving!Init
  BY DEF Init, Receiving!Init
<1>2. ASSUME ReceiveInv, [Next]_vars
      PROVE  [Receiving!Next]_<<queue, delivered>>
  <2>1. Common /\ RingKept
    BY <1>2 DEF ReceiveInv
  <2>2. CASE FrameArrives
    <3>1. PICK n \in RxSizes : queue' = Append(queue, RxFrame(arrived + 1, n))
      BY <2>2 DEF FrameArrives
    <3>2. arrived + 1 \in 1..MaxRx /\ UNCHANGED delivered
      BY <2>1, <2>2, TransAssumption DEF FrameArrives, MayArrive, Common, Types
    <3>3. RxFrame(arrived + 1, n) \in AllFrames
      BY <3>2, FrameIs
    <3> QED BY <3>1, <3>2, <3>3 DEF Receiving!Next, Receiving!Arrive
  <2>3. CASE Decrement
    <3>1. queue # << >>
      BY <2>1, <2>3 DEF Decrement, RingKept, FramesKept, Reading
    <3>2. UNCHANGED delivered /\ (queue' = Tail(queue) \/ UNCHANGED queue)
      BY <2>3 DEF Decrement
    <3> QED BY <3>1, <3>2 DEF Receiving!Next, Receiving!Discard
  <2>4. CASE Input
    <3>1. queue # << >> /\ buf = Head(queue)
      BY <2>1, <2>4 DEF Input, RingKept, FramesKept, ReaderKept, Reading
    <3>2. delivered' = Append(delivered, buf) /\ queue' = Tail(queue)
      BY <2>4 DEF Input
    <3> QED BY <3>1, <3>2 DEF Receiving!Next, Receiving!Deliver
  <2>5. CASE ~FrameArrives /\ ~Decrement /\ ~Input
    <3>1. UNCHANGED <<queue, delivered>>
      BY <1>2, <2>5
         DEF Next, FrameDropped, Transmitted, Receive, PacketCounted, NoPacket, ReceiveStart, ReadPayload,
             AllocFails, ReleaseFrame, BackToPolling, Transmit, TransmitStart, ControlByte, TransmitPartial,
             TransmitEnd, RequestToSend, ReadBack, ReadResult, rxPast, vars
    <3> QED BY <3>1
  <2> QED BY <2>2, <2>3, <2>4, <2>5
<1>3. Spec => []ReceiveInv
  BY ReceiveHolds DEF OneReader
<1>4. ReceiveInv /\ [Next]_vars => [Receiving!Next]_<<queue, delivered>>
  BY <1>2
<1> QED
  BY <1>1, <1>3, <1>4, PTL DEF Spec
=============================================================================

-------------------------- MODULE LatencyRing_proofs --------------------------
(***************************************************************************)
(* Theorems about LatencyRing, for every size of the ring, every range of  *)
(* the indices that the size divides, and every set of latencies.          *)
(*                                                                         *)
(* The inductive invariant is RingInv.  That the reader never finds the    *)
(* ring out of step follows from what lies between the two indices: whole  *)
(* messages, the first perhaps without its header (WholeMessages), cell by *)
(* cell what the writer has put there (Contents); and from what the writer *)
(* has copied behind them and not yet published (Copied).  The indices     *)
(* wrap at IndexRange and the places at RingSize, so that the first lemmas *)
(* are about remainders.                                                   *)
(***************************************************************************)
EXTENDS LatencyRing, SequenceTheorems, TLAPS

\* What the reader has copied is what the ring has, ...
ReaderHas ==
    /\ reader = "free header" => header = GoodHeader
    /\ reader = "free body" => body = At(readIndex)

\* ... and what it goes on with is there.
Available ==
    /\ reader = "free header" => Filled >= MessageSize
    /\ reader \in {"body", "free body"} => Filled >= MessageSize - HeaderSize

\* Between the indices lie whole messages, counted from the one being read.
WholeMessages == (Filled + UnreadFrom) % MessageSize = 0

\* What a message has at place n.
IsCell(c, n) ==
    /\ n = 0 => c = Magic
    /\ n = 1 => c = Length
    /\ n = 2 => c \in Latencies

Contents ==
    \A k \in 0 .. Filled - 1 : IsCell(At(readIndex + k), (k + UnreadFrom) % MessageSize)

\* What is copied of a message lies behind the write index.
Copied ==
    writer = "copy" =>
        /\ writing \in Latencies
        /\ \A n \in 0 .. copied - 1 : At(writeIndex + n) = Cell(writing, n)

ClosedIsIdle == ~open => writer = "idle" /\ reader = "idle"

RingInv ==
    /\ RingTypeOK
    /\ NeverCorrupted
    /\ WriterStaysAhead
    /\ EventCoversData
    /\ ReaderHas
    /\ Available
    /\ WholeMessages
    /\ Contents
    /\ Copied
    /\ ClosedIsIdle

-----------------------------------------------------------------------------
(* Remainders *)

LEMMA DivMod ==
    ASSUME NEW n \in Nat \ {0}, NEW x \in Int
    PROVE  /\ x % n \in 0 .. n - 1
           /\ x \div n \in Int
           /\ x = n * (x \div n) + (x % n)
  OBVIOUS

\* Quotient and remainder are unique.
LEMMA QuotientUnique ==
    ASSUME NEW n \in Nat \ {0}, NEW p \in Int, NEW q \in Int,
           NEW r \in 0 .. n - 1, NEW s \in 0 .. n - 1,
           n * p + r = n * q + s
    PROVE  p = q /\ r = s
<1>1. n * (p - q) = s - r
  OBVIOUS
<1>2. p - q \in Int /\ s - r < n /\ s - r > -n
  OBVIOUS
<1>3. ASSUME NEW k \in Int, n * k < n, n * k > -n
      PROVE  k = 0
  <2>1. CASE k >= 1
    <3>1. n * k >= n
      BY <2>1
    <3> QED
      BY <3>1, <1>3
  <2>2. CASE k <= -1
    <3>1. n * k <= -n
      BY <2>2
    <3> QED
      BY <3>1, <1>3
  <2> QED
    BY <2>1, <2>2
<1>4. p - q = 0
  BY <1>1, <1>2, <1>3
<1> QED
  BY <1>1, <1>4

LEMMA RemainderIs ==
    ASSUME NEW n \in Nat \ {0}, NEW q \in Int, NEW r \in 0 .. n - 1
    PROVE  (n * q + r) % n = r
<1>1. n * q + r \in Int
  OBVIOUS
<1> QED
  BY <1>1, DivMod, QuotientUnique

\* A multiple added does not change the remainder, ...
LEMMA RemainderShifts ==
    ASSUME NEW n \in Nat \ {0}, NEW x \in Int, NEW m \in Int
    PROVE  (x + n * m) % n = x % n
<1> DEFINE q == (x \div n) + m
<1>1. q \in Int /\ x % n \in 0 .. n - 1 /\ x + n * m = n * q + (x % n)
  BY DivMod
<1>2. (n * q + (x % n)) % n = x % n
  <2> HIDE DEF q
  <2> QED
    BY <1>1, RemainderIs
<1> QED
  BY <1>1, <1>2

\* ... and numbers less than n apart have different ones.
LEMMA RemaindersDiffer ==
    ASSUME NEW n \in Nat \ {0}, NEW x \in Int, NEW y \in Int,
           x % n = y % n, x <= y, y < x + n
    PROVE  x = y
<1> DEFINE p == x \div n
           q == y \div n
           r == x % n
<1>1. p \in Int /\ q \in Int /\ r \in Int /\ x = n * p + r /\ y = n * q + r
  BY DivMod
<1> HIDE DEF p, q, r
<1>2. y - x \in 0 .. n - 1 /\ 0 \in 0 .. n - 1
  OBVIOUS
<1>3. n * p + (y - x) = n * q + 0
  BY <1>1
<1>4. y - x = 0
  BY <1>1, <1>2, <1>3, QuotientUnique
<1> QED
  BY <1>4

LEMMA Sizes ==
    /\ RingSize \in Nat \ {0} /\ RingSize >= 3
    /\ IndexRange \in Nat \ {0} /\ IndexRange >= 4 * RingSize
  BY RingAssumption

LEMMA RingDivides ==
    /\ IndexRange \div RingSize \in Int
    /\ IndexRange = RingSize * (IndexRange \div RingSize)
  BY RingAssumption, DivMod

LEMMA HalfRange == IndexRange \div 2 \in Int /\ IndexRange \div 2 >= 2 * RingSize
  BY RingAssumption

\* An index that wraps stays at its place, ...
LEMMA WrapKeepsPlace ==
    ASSUME NEW i \in Int, NEW k \in Int
    PROVE  /\ Wrap(i) \in 0 .. IndexRange - 1
           /\ (Wrap(i) + k) % RingSize = (i + k) % RingSize
<1> DEFINE q == i \div IndexRange
           f == IndexRange \div RingSize
           w == Wrap(i)
<1>1. q \in Int /\ f \in Int /\ w \in 0 .. IndexRange - 1 /\ i = IndexRange * q + w
      /\ IndexRange = RingSize * f /\ RingSize \in Nat \ {0} /\ IndexRange \in Nat \ {0}
  BY DivMod, Sizes, RingDivides DEF Wrap
<1> HIDE DEF q, f, w
<1>2. i + k = (w + k) + RingSize * (f * q) /\ f * q \in Int /\ w + k \in Int
  <2>1. IndexRange * q = RingSize * (f * q)
    BY <1>1
  <2> QED
    BY <1>1, <2>1
<1>3. ((w + k) + RingSize * (f * q)) % RingSize = (w + k) % RingSize
  BY <1>1, <1>2, RemainderShifts
<1> QED
  BY <1>1, <1>2, <1>3 DEF w

\* ... and one that is wrapped before it is moved wraps as if it had not been.
LEMMA WrapOnce ==
    ASSUME NEW i \in Int, NEW k \in Int
    PROVE  /\ Wrap(Wrap(i) + k) = Wrap(i + k)
           /\ Wrap(k - Wrap(i)) = Wrap(k - i)
<1> DEFINE q == i \div IndexRange
           w == Wrap(i)
<1>1. q \in Int /\ w \in Int /\ i = IndexRange * q + w /\ IndexRange \in Nat \ {0}
  BY DivMod, Sizes DEF Wrap
<1> HIDE DEF q, w
<1>2. /\ i + k = (w + k) + IndexRange * q /\ w + k \in Int
      /\ k - w = (k - i) + IndexRange * q /\ k - i \in Int
  BY <1>1
<1>3. ((w + k) + IndexRange * q) % IndexRange = (w + k) % IndexRange
  BY <1>1, <1>2, RemainderShifts
<1>4. ((k - i) + IndexRange * q) % IndexRange = (k - i) % IndexRange
  BY <1>1, <1>2, RemainderShifts
<1> QED
  BY <1>2, <1>3, <1>4 DEF w, Wrap

LEMMA WrapIs ==
    ASSUME NEW i \in 0 .. IndexRange - 1
    PROVE  Wrap(i) = i
<1>1. (IndexRange * 0 + i) % IndexRange = i
  BY RemainderIs, Sizes
<1>2. IndexRange * 0 + i = i
  BY Sizes
<1> QED
  BY <1>1, <1>2 DEF Wrap

-----------------------------------------------------------------------------
(* The two indices: w of the writer, r of the reader. *)

Between(w, r) == Signed(Wrap(w - r))

LEMMA BetweenIsDistance ==
    ASSUME NEW w \in Int, NEW r \in Int, NEW d \in 0 .. RingSize
    PROVE  Between(w, r) = d <=> Wrap(w - r) = d
<1> DEFINE m == Wrap(w - r)
<1>1. m \in 0 .. IndexRange - 1
  BY DivMod, Sizes DEF Wrap
<1>2. Between(w, r) = IF m >= IndexRange \div 2 THEN m - IndexRange ELSE m
  BY DEF Between, Signed
<1> HIDE DEF m
<1>3. Between(w, r) = d <=> m = d
  BY <1>1, <1>2, Sizes, HalfRange
<1> QED
  BY <1>3 DEF m

LEMMA BetweenEqual == Between(0, 0) = 0
<1>1. Wrap(0) = 0
  BY WrapIs, Sizes
<1> QED
  BY <1>1, BetweenIsDistance, Sizes

\* Moving an index changes what lies between them by as much.
LEMMA WriterMoves ==
    ASSUME NEW w \in Int, NEW r \in Int, NEW k \in Nat,
           Between(w, r) \in 0 .. RingSize, Between(w, r) + k <= RingSize
    PROVE  Between(Wrap(w + k), r) = Between(w, r) + k
<1> DEFINE d == Between(w, r)
<1>1. Wrap(w - r) = d /\ d \in 0 .. RingSize /\ d + k \in 0 .. RingSize
  BY BetweenIsDistance, Sizes
<1>2. Wrap(Wrap(w + k) + (-r)) = Wrap((w + k) + (-r))
  BY WrapOnce
<1>3. Wrap(Wrap(w - r) + k) = Wrap((w - r) + k)
  BY WrapOnce
<1> DEFINE m == Wrap(w + k)
<1>4. /\ (w + k) + (-r) = (w - r) + k
      /\ m \in Int /\ m + (-r) = m - r
  <2>1. m \in Int
    BY DivMod, Sizes DEF Wrap
  <2> HIDE DEF m
  <2> QED
    BY <2>1
<1> HIDE DEF d
<1>5. Wrap(d + k) = d + k
  BY <1>1, WrapIs, Sizes
<1>6. Wrap(Wrap(w + k) - r) = d + k
  BY <1>1, <1>2, <1>3, <1>4, <1>5
<1>7. Between(Wrap(w + k), r) = d + k
  BY <1>1, <1>4, <1>6, BetweenIsDistance
<1> QED
  BY <1>7 DEF d

LEMMA ReaderMoves ==
    ASSUME NEW w \in Int, NEW r \in Int, NEW k \in Nat,
           Between(w, r) \in 0 .. RingSize, k <= Between(w, r)
    PROVE  Between(w, Wrap(r + k)) = Between(w, r) - k
<1> DEFINE d == Between(w, r)
<1>1. Wrap(w - r) = d /\ d \in 0 .. RingSize /\ d - k \in 0 .. RingSize
  BY BetweenIsDistance, Sizes
<1>2. Wrap(w - Wrap(r + k)) = Wrap(w - (r + k))
  BY WrapOnce
<1>3. Wrap(Wrap(w - r) + (-k)) = Wrap((w - r) + (-k))
  BY WrapOnce
<1>4. w - (r + k) = (w - r) + (-k) /\ Wrap(r + k) \in Int
  BY WrapKeepsPlace
<1> HIDE DEF d
<1>5. Wrap(d + (-k)) = d - k
  BY <1>1, WrapIs, Sizes
<1>6. Wrap(w - Wrap(r + k)) = d - k
  BY <1>1, <1>2, <1>3, <1>4, <1>5
<1>7. Between(w, Wrap(r + k)) = d - k
  BY <1>1, <1>4, <1>6, BetweenIsDistance
<1> QED
  BY <1>7 DEF d

\* The places behind the write index are those behind what is filled.
LEMMA WritePlace ==
    ASSUME NEW w \in Int, NEW r \in Int, Between(w, r) \in 0 .. RingSize, NEW k \in Int
    PROVE  (w + k) % RingSize = (r + (Between(w, r) + k)) % RingSize
<1> DEFINE d == Between(w, r)
<1>1. Wrap(w - r) = d /\ d \in Int
  BY BetweenIsDistance, Sizes
<1>2. (Wrap(w - r) + (r + k)) % RingSize = ((w - r) + (r + k)) % RingSize
  BY WrapKeepsPlace
<1> HIDE DEF d
<1>3. (w - r) + (r + k) = w + k /\ d + (r + k) = r + (d + k)
  BY <1>1
<1>4. (w + k) % RingSize = (r + (d + k)) % RingSize
  BY <1>1, <1>2, <1>3
<1> QED
  BY <1>4 DEF d

\* Places less than the size of the ring apart differ.
LEMMA PlacesDiffer ==
    ASSUME NEW r \in Int, NEW j \in 0 .. RingSize - 1, NEW k \in 0 .. RingSize - 1, j # k
    PROVE  (r + j) % RingSize # (r + k) % RingSize
<1>1. ASSUME NEW m \in 0 .. RingSize - 1, NEW n \in 0 .. RingSize - 1, m < n
      PROVE  (r + m) % RingSize # (r + n) % RingSize
  <2> DEFINE x == r + m
             y == r + n
  <2>1. x \in Int /\ y \in Int /\ x <= y /\ y < x + RingSize /\ x # y
    BY <1>1, Sizes
  <2> HIDE DEF x, y
  <2>2. x % RingSize # y % RingSize
    BY <2>1, RemaindersDiffer, Sizes
  <2> QED
    BY <2>2 DEF x, y
<1>2. j < k \/ k < j
  BY Sizes
<1> QED
  BY <1>1, <1>2

LEMMA BehindFilled ==
    ASSUME readIndex \in Int, writeIndex \in Int, Filled \in 0 .. RingSize, NEW k \in Int
    PROVE  (writeIndex + k) % RingSize = (readIndex + (Filled + k)) % RingSize
  BY WritePlace DEF Filled, Between

LEMMA PlaceInRing == ASSUME NEW i \in Int PROVE i % RingSize \in 0 .. RingSize - 1
  BY DivMod, Sizes

-----------------------------------------------------------------------------
(* The invariant *)

LEMMA CellIs ==
    ASSUME NEW l \in Latencies, NEW n \in 0 .. 2
    PROVE  /\ Cell(l, n) \in {Junk, Magic, Length} \cup Latencies
           /\ IsCell(Cell(l, n), n)
<1>1. CASE n = 0
  BY <1>1 DEF Cell, IsCell
<1>2. CASE n = 1
  BY <1>2 DEF Cell, IsCell
<1>3. CASE n = 2
  BY <1>3 DEF Cell, IsCell
<1> QED
  BY <1>1, <1>2, <1>3

LEMMA Ranges ==
    ASSUME RingTypeOK
    PROVE  readIndex \in Int /\ writeIndex \in Int /\ copied \in 0 .. 3
<1>1. /\ readIndex \in 0 .. IndexRange - 1 /\ writeIndex \in 0 .. IndexRange - 1
      /\ copied \in 0 .. MessageSize
  BY DEF RingTypeOK
<1> QED
  BY <1>1, Sizes DEF MessageSize

\* An empty ring.
LEMMA EmptyInv ==
    ASSUME writeIndex' = 0, readIndex' = 0, event' = FALSE,
           cells' = [i \in 0 .. RingSize - 1 |-> Junk],
           open' \in BOOLEAN, lost' = FALSE, nLatency' = 0, sent' = 0,
           writer' = "idle", reader' = "idle",
           writing' \in Latencies \cup {0}, copied' \in 0 .. MessageSize,
           latency' \in Latencies \cup {0}
    PROVE  RingInv'
<1>1. Filled' = 0
  BY BetweenEqual DEF Filled, Between
<1>2. RingTypeOK'
  <2>1. cells' \in [0 .. RingSize - 1 -> {Junk, Magic, Length} \cup Latencies]
    OBVIOUS
  <2>2. 0 \in 0 .. IndexRange - 1
    BY Sizes
  <2> QED
    BY <2>1, <2>2 DEF RingTypeOK
<1> QED
  BY <1>1, <1>2, Sizes DEF RingInv, NeverCorrupted, WriterStaysAhead, EventCoversData, ReaderHas, Available,
     WholeMessages, Contents, Copied, ClosedIsIdle, UnreadFrom, MessageSize

LEMMA RingInitInv == RingInit => RingInv
<1> SUFFICES ASSUME RingInit PROVE RingInv
  OBVIOUS
<1>1. Filled = 0
  BY BetweenEqual DEF RingInit, Filled, Between
<1>2. RingTypeOK
  <2>1. cells \in [0 .. RingSize - 1 -> {Junk, Magic, Length} \cup Latencies]
    BY DEF RingInit
  <2>2. 0 \in 0 .. IndexRange - 1 /\ 0 \in 0 .. MessageSize
    BY Sizes DEF MessageSize
  <2> QED
    BY <2>1, <2>2 DEF RingInit, RingTypeOK
<1> QED
  BY <1>1, <1>2, Sizes DEF RingInit, RingInv, NeverCorrupted, WriterStaysAhead, EventCoversData,
     ReaderHas, Available, WholeMessages, Contents, Copied, ClosedIsIdle, UnreadFrom, MessageSize

LEMMA OpenInv == ASSUME RingInv, Open PROVE RingInv'
  BY EmptyInv DEF Open, RingInv, RingTypeOK, ClosedIsIdle, writerVars, readerVars

\* What most steps leave alone.
LEMMA SameRing ==
    ASSUME UNCHANGED <<cells, writeIndex, readIndex>>
    PROVE  /\ Filled' = Filled
           /\ \A i : At(i)' = At(i)
  BY DEF Filled, At

\* Steps that only look at the ring.
LEMMA DestroyInv == ASSUME RingInv, Destroy PROVE RingInv'
<1>1. Filled' = Filled /\ \A i : At(i)' = At(i)
  BY SameRing DEF Destroy
<1>2. RingTypeOK'
  BY DEF RingInv, RingTypeOK, Destroy, writerVars, readerVars
<1> QED
  BY <1>1, <1>2 DEF RingInv, Destroy, writerVars, readerVars, NeverCorrupted, WriterStaysAhead,
     EventCoversData, ReaderHas, Available, WholeMessages, Contents, Copied, ClosedIsIdle, UnreadFrom

LEMMA SetLatencyInv == ASSUME RingInv, NEW l \in Latencies, SetLatency(l) PROVE RingInv'
<1>1. Filled' = Filled /\ \A i : At(i)' = At(i)
  BY SameRing DEF SetLatency
<1>2. RingTypeOK'
  <2>1. 0 \in 0 .. MessageSize
    BY DEF MessageSize
  <2> QED
    BY <2>1 DEF RingInv, RingTypeOK, SetLatency, readerVars
<1>3. WriterStaysAhead'
  BY <1>1, Sizes DEF RingInv, WriterStaysAhead, SetLatency, Refused, MessageSize
<1>4. Copied' /\ ClosedIsIdle'
  BY DEF SetLatency, Refused, Copied, ClosedIsIdle
<1> QED
  BY <1>1, <1>2, <1>3, <1>4 DEF RingInv, SetLatency, readerVars, NeverCorrupted,
     EventCoversData, ReaderHas, Available, WholeMessages, Contents, UnreadFrom

LEMMA SignalInv == ASSUME RingInv, Signal PROVE RingInv'
<1>1. Filled' = Filled /\ \A i : At(i)' = At(i)
  BY SameRing DEF Signal
<1>2. RingTypeOK'
  BY DEF RingInv, RingTypeOK, Signal, readerVars
<1> QED
  BY <1>1, <1>2 DEF RingInv, Signal, readerVars, NeverCorrupted, WriterStaysAhead,
     EventCoversData, ReaderHas, Available, WholeMessages, Contents, Copied, ClosedIsIdle, UnreadFrom

LEMMA ReceiveInv == ASSUME RingInv, Receive PROVE RingInv'
<1>1. Filled' = Filled /\ \A i : At(i)' = At(i)
  BY SameRing DEF Receive
<1>2. RingTypeOK'
  BY DEF RingInv, RingTypeOK, Receive, writerVars
<1>3. UnreadFrom' = UnreadFrom
  BY DEF Receive, UnreadFrom
<1> QED
  BY <1>1, <1>2, <1>3 DEF RingInv, Receive, writerVars, NeverCorrupted, WriterStaysAhead,
     EventCoversData, ReaderHas, Available, WholeMessages, Contents, Copied, ClosedIsIdle

\* The header of a message is there: the reader finds the ring empty, or the first
\* cells of a message.
LEMMA ReadHeaderInv == ASSUME RingInv, ReadHeader PROVE RingInv'
<1>1. Filled' = Filled /\ \A i : At(i)' = At(i)
  BY SameRing DEF ReadHeader
<1>0. reader = "header"
  BY DEF ReadHeader
<1>2. Filled \in 0 .. RingSize /\ Filled % 3 = 0 /\ readIndex \in Int /\ UnreadFrom = 0
  <2>1. UnreadFrom = 0
    BY <1>0 DEF UnreadFrom
  <2>2. Filled \in 0 .. RingSize /\ (Filled + 0) % 3 = 0
    BY <2>1 DEF RingInv, WriterStaysAhead, WholeMessages, MessageSize
  <2>3. Filled \in Int /\ Filled + 0 = Filled
    BY <2>2, Sizes
  <2>4. readIndex \in Int
    BY Ranges DEF RingInv
  <2> QED
    BY <2>1, <2>2, <2>3, <2>4
<1>3. CASE Filled = 0
  <2>1. reader' = "apply" /\ UNCHANGED <<open, writer, writing, copied, event, latency, nLatency, lost, sent>>
    BY <1>3, Sizes DEF ReadHeader, Answer, writerVars
  <2>2. RingTypeOK'
    BY <2>1 DEF RingInv, RingTypeOK, ReadHeader
  <2> QED
    BY <1>1, <1>3, <2>1, <2>2 DEF RingInv, ReadHeader, NeverCorrupted, WriterStaysAhead,
       EventCoversData, ReaderHas, Available, WholeMessages, Contents, Copied, ClosedIsIdle, UnreadFrom
<1>4. CASE Filled # 0
  <2>1. Filled >= 3
    BY <1>2, <1>4, Sizes
  <2>2. Answer(HeaderSize) = "OK"
    BY <1>2, <2>1, Sizes DEF Answer, HeaderSize
  <2>9. header' = <<At(readIndex), At(readIndex + 1)>>
    BY <2>2 DEF ReadHeader
  <2>3. /\ reader' = "free header"
        /\ UNCHANGED <<cells, writeIndex, readIndex, open, writer, writing, copied, event, latency, nLatency, lost, sent>>
    BY <2>2 DEF ReadHeader, writerVars
  <2>4. At(readIndex) = Magic /\ At(readIndex + 1) = Length
    <3>1. 0 \in 0 .. Filled - 1 /\ 1 \in 0 .. Filled - 1 /\ UnreadFrom = 0
      BY <1>2, <2>1, Sizes
    <3>2. IsCell(At(readIndex + 0), (0 + UnreadFrom) % MessageSize)
          /\ IsCell(At(readIndex + 1), (1 + UnreadFrom) % MessageSize)
      BY <3>1 DEF RingInv, Contents
    <3> QED
      BY <1>2, <3>1, <3>2 DEF IsCell, MessageSize
  <2>5. RingTypeOK'
    BY <2>3 DEF RingInv, RingTypeOK, ReadHeader
  <2>6. ReaderHas' /\ Available'
    BY <1>1, <2>1, <2>3, <2>4, <2>9 DEF ReaderHas, Available, GoodHeader, MessageSize
  <2>7. UnreadFrom' = UnreadFrom
    BY <1>0, <2>3 DEF UnreadFrom
  <2>8. Contents' /\ Copied'
    BY <1>1, <2>3, <2>7 DEF RingInv, Contents, Copied, At
  <2>10. NeverCorrupted' /\ EventCoversData' /\ ClosedIsIdle'
    BY <1>0, <2>3 DEF RingInv, NeverCorrupted, EventCoversData, ClosedIsIdle
  <2>11. WriterStaysAhead' /\ WholeMessages'
    BY <1>1, <2>3, <2>7 DEF RingInv, WriterStaysAhead, WholeMessages
  <2> QED
    BY <2>5, <2>6, <2>8, <2>10, <2>11 DEF RingInv
<1> QED
  BY <1>3, <1>4

\* The body follows the header it belongs to.
LEMMA ReadBodyInv == ASSUME RingInv, ReadBody PROVE RingInv'
<1>1. Filled' = Filled /\ \A i : At(i)' = At(i)
  BY SameRing DEF ReadBody
<1>0. reader = "body"
  BY DEF ReadBody
<1>2. Filled \in 0 .. RingSize /\ Filled >= 1
  BY <1>0, Sizes DEF RingInv, WriterStaysAhead, Available, MessageSize, HeaderSize
<1>3. Answer(MessageSize - HeaderSize) = "OK"
  BY <1>2, Sizes DEF Answer, HeaderSize, MessageSize
<1>4. /\ reader' = "free body" /\ body' = At(readIndex) 
      /\ UNCHANGED <<cells, writeIndex, readIndex, open, writer, writing, copied, event, latency, nLatency, lost, sent>>
  BY <1>3 DEF ReadBody, writerVars
<1>5. RingTypeOK'
  BY <1>4 DEF RingInv, RingTypeOK, ReadBody
<1>6. UnreadFrom' = UnreadFrom
  BY <1>0, <1>4 DEF UnreadFrom
<1>8. Contents' /\ Copied'
  BY <1>1, <1>4, <1>6 DEF RingInv, Contents, Copied, At
<1>7. ReaderHas' /\ Available'
  <2>1. Filled >= MessageSize - HeaderSize
    BY <1>2 DEF MessageSize, HeaderSize
  <2>2. Available'
    BY <1>1, <1>4, <2>1 DEF Available
  <2>3. ReaderHas'
    BY <1>4 DEF ReaderHas, At
  <2> QED
    BY <2>2, <2>3
<1> QED
  BY <1>0, <1>1, <1>4, <1>5, <1>6, <1>7, <1>8 DEF RingInv, NeverCorrupted, WriterStaysAhead,
     EventCoversData, WholeMessages, ClosedIsIdle

\* Nothing is left in the ring when the reader has come to the end.
LEMMA ApplyInv == ASSUME RingInv, Ignore \/ UpdateLatency \/ UpdateFails PROVE RingInv'
<1>1. UNCHANGED <<cells, writeIndex, readIndex>>
  BY DEF Ignore, UpdateLatency, UpdateFails
<1>2. Filled' = Filled /\ \A i : At(i)' = At(i)
  BY <1>1, SameRing
<1>3. /\ reader = "apply" /\ reader' = "idle"
      /\ nLatency' \in {nLatency, latency} /\ lost' \in {lost, TRUE}
      /\ UNCHANGED <<open, event, writer, writing, copied, latency, sent>>
  BY DEF Ignore, UpdateLatency, UpdateFails, writerVars
<1>4. RingTypeOK'
  BY <1>1, <1>3 DEF RingInv, RingTypeOK
<1>5. UnreadFrom' = UnreadFrom
  BY <1>3 DEF UnreadFrom
<1> QED
  BY <1>1, <1>2, <1>3, <1>4, <1>5 DEF RingInv, NeverCorrupted, WriterStaysAhead,
     EventCoversData, ReaderHas, Available, WholeMessages, Contents, Copied, ClosedIsIdle

-----------------------------------------------------------------------------
(* Steps that change the ring *)

\* The cell that is copied lies behind everything that is filled or copied.
LEMMA CopyKeeps ==
    ASSUME RingInv, CopyCell
    PROVE  /\ readIndex \in Int /\ writeIndex \in Int /\ copied \in 0 .. 2
           /\ Filled \in 0 .. RingSize /\ Filled + 3 <= RingSize /\ Filled \in Int /\ copied \in Int
           /\ Filled' = Filled
           /\ writing \in Latencies
           /\ cells' \in [0 .. RingSize - 1 -> {Junk, Magic, Length} \cup Latencies]
           /\ cells'[(writeIndex + copied) % RingSize] = Cell(writing, copied)
           /\ \A k \in 0 .. Filled + copied - 1 :
                 cells'[(readIndex + k) % RingSize] = cells[(readIndex + k) % RingSize]
<1> DEFINE here == (writeIndex + copied) % RingSize
<1>1. /\ writer = "copy" /\ copied < MessageSize /\ copied' = copied + 1
      /\ cells' = [cells EXCEPT ![here] = Cell(writing, copied)]
      /\ UNCHANGED <<writeIndex, readIndex, open, event, writer, writing, reader, header, body,
                     latency, nLatency, lost, sent>>
  BY DEF CopyCell, readerVars
<1>0. cells \in [0 .. RingSize - 1 -> {Junk, Magic, Length} \cup Latencies]
  BY DEF RingInv, RingTypeOK
<1>2. readIndex \in Int /\ writeIndex \in Int /\ copied \in 0 .. 2
  <2>1. copied \in 0 .. 3 /\ copied < 3 /\ readIndex \in Int /\ writeIndex \in Int
    BY <1>1, Ranges DEF RingInv, MessageSize
  <2> QED
    BY <2>1
<1>3. Filled \in 0 .. RingSize /\ Filled + 3 <= RingSize /\ Filled \in Int /\ copied \in Int
  BY <1>1, <1>2, Sizes DEF RingInv, WriterStaysAhead, MessageSize
<1>13. Filled' = Filled
  BY <1>1 DEF Filled
<1>4. writing \in Latencies
  BY <1>1 DEF RingInv, Copied
<1>5. here \in 0 .. RingSize - 1
  BY <1>2, PlaceInRing
<1>6. /\ cells'[here] = Cell(writing, copied)
      /\ \A p \in 0 .. RingSize - 1 : p # here => cells'[p] = cells[p]
      /\ cells' \in [0 .. RingSize - 1 -> {Junk, Magic, Length} \cup Latencies]
  BY <1>0, <1>1, <1>2, <1>4, <1>5, CellIs
<1>7. ASSUME NEW k \in 0 .. Filled + copied - 1
      PROVE  cells'[(readIndex + k) % RingSize] = cells[(readIndex + k) % RingSize]
  <2> DEFINE j == Filled + copied
             p == (readIndex + k) % RingSize
  <2>1. j \in 0 .. RingSize - 1 /\ k \in 0 .. RingSize - 1 /\ k # j /\ readIndex + k \in Int
    BY <1>2, <1>3, Sizes
  <2>2. here = (readIndex + j) % RingSize
    BY <1>2, <1>3, BehindFilled
  <2> HIDE DEF j, here
  <2>3. p # here /\ p \in 0 .. RingSize - 1
    BY <1>2, <2>1, <2>2, PlacesDiffer, PlaceInRing
  <2> HIDE DEF p
  <2>4. cells'[p] = cells[p]
    BY <1>6, <2>3
  <2> QED
    BY <2>4 DEF p
<1> QED
  BY <1>2, <1>3, <1>4, <1>6, <1>7, <1>13

LEMMA CopyCellInv == ASSUME RingInv, CopyCell PROVE RingInv'
<1>1. /\ writer = "copy" /\ copied < MessageSize /\ copied' = copied + 1
      /\ UNCHANGED <<writeIndex, readIndex, open, event, writer, writing, reader, header, body,
                     latency, nLatency, lost, sent>>
  BY DEF CopyCell, readerVars
<1>2. readIndex \in Int /\ writeIndex \in Int /\ copied \in 0 .. 2
  BY CopyKeeps
<1>3. Filled \in 0 .. RingSize /\ Filled + 3 <= RingSize /\ Filled \in Int /\ copied \in Int
  BY CopyKeeps
<1>13. Filled' = Filled
  BY CopyKeeps
<1>4. writing \in Latencies
  BY CopyKeeps
<1>6. /\ cells' \in [0 .. RingSize - 1 -> {Junk, Magic, Length} \cup Latencies]
      /\ cells'[(writeIndex + copied) % RingSize] = Cell(writing, copied)
  BY CopyKeeps
<1>7. \A k \in 0 .. Filled + copied - 1 :
         cells'[(readIndex + k) % RingSize] = cells[(readIndex + k) % RingSize]
  BY CopyKeeps
<1>8. RingTypeOK'
  <2>1. copied' \in 0 .. MessageSize
    BY <1>1, <1>2 DEF MessageSize
  <2> QED
    BY <1>1, <1>6, <2>1 DEF RingInv, RingTypeOK
<1>9. Contents'
  <2> SUFFICES ASSUME NEW k \in 0 .. Filled - 1
               PROVE  IsCell(At(readIndex + k)', (k + UnreadFrom') % MessageSize)
    BY <1>1, <1>13 DEF Contents, At
  <2>1. k \in 0 .. Filled + copied - 1
    BY <1>2, <1>3, Sizes
  <2>2. At(readIndex + k)' = At(readIndex + k)
    BY <1>1, <1>7, <2>1 DEF At
  <2>3. UnreadFrom' = UnreadFrom
    BY <1>1 DEF UnreadFrom
  <2> QED
    BY <2>2, <2>3 DEF RingInv, Contents
<1>10. Copied'
  <2>1. ASSUME NEW n \in 0 .. copied - 1
        PROVE  cells'[(writeIndex + n) % RingSize] = Cell(writing, n)
    <3>1. Filled + n \in 0 .. Filled + copied - 1 /\ n \in Int
      BY <1>2, <1>3, Sizes
    <3>2. (writeIndex + n) % RingSize = (readIndex + (Filled + n)) % RingSize
      BY <1>2, <1>3, <3>1, BehindFilled
    <3>3. cells'[(readIndex + (Filled + n)) % RingSize] = cells[(readIndex + (Filled + n)) % RingSize]
      BY <1>7, <3>1
    <3>4. cells[(writeIndex + n) % RingSize] = Cell(writing, n)
      BY <1>1 DEF RingInv, Copied, At
    <3> QED
      BY <3>2, <3>3, <3>4
  <2>2. \A n \in 0 .. copied' - 1 : n \in 0 .. copied - 1 \/ n = copied
    BY <1>1, <1>2
  <2> QED
    BY <1>1, <1>4, <1>6, <2>1, <2>2 DEF Copied, At
<1>11. ReaderHas'
  <2>1. ASSUME reader = "free body"
        PROVE  cells'[readIndex % RingSize] = cells[readIndex % RingSize]
    <3>1. Filled >= 3 - 2
      BY <2>1 DEF RingInv, Available, MessageSize, HeaderSize
    <3>2. 0 \in 0 .. Filled + copied - 1 /\ readIndex + 0 = readIndex
      BY <1>2, <1>3, <3>1
    <3> QED
      BY <1>7, <3>2
  <2> QED
    BY <1>1, <2>1 DEF RingInv, ReaderHas, At
<1>12. Available'
  BY <1>1, <1>13 DEF RingInv, Available
<1> QED
  BY <1>1, <1>3, <1>8, <1>9, <1>10, <1>11, <1>12, <1>13 DEF RingInv, NeverCorrupted, WriterStaysAhead,
     EventCoversData, WholeMessages, ClosedIsIdle, UnreadFrom

LEMMA PublishInv == ASSUME RingInv, Publish PROVE RingInv'
<1>1. /\ writer = "copy" /\ copied = 3 /\ writer' = "signal"
      /\ writeIndex' = Wrap(writeIndex + 3) /\ sent' = writing
      /\ UNCHANGED <<cells, readIndex, open, event, writing, copied, reader, header, body,
                     latency, nLatency, lost>>
  BY DEF Publish, readerVars, MessageSize
<1>2. readIndex \in Int /\ writeIndex \in Int
  BY Ranges DEF RingInv
<1>3. Filled \in 0 .. RingSize /\ Filled + 3 <= RingSize /\ Filled \in Int
  BY <1>1, Sizes DEF RingInv, WriterStaysAhead, MessageSize
<1>4. Filled' = Filled + 3
  BY <1>1, <1>2, <1>3, WriterMoves DEF Filled, Between
<1>5. Filled' \in 0 .. RingSize /\ Filled' > 0
  BY <1>3, <1>4, Sizes
<1>6. UnreadFrom' = UnreadFrom /\ UnreadFrom \in {0, 2}
  BY <1>1 DEF UnreadFrom, HeaderSize
<1>7. (Filled + UnreadFrom) % 3 = 0
  BY DEF RingInv, WholeMessages, MessageSize
<1>8. RingTypeOK'
  <2>1. writeIndex' \in 0 .. IndexRange - 1
    <3>1. writeIndex + 3 \in Int
      BY <1>2
    <3> QED
      BY <1>1, <3>1, DivMod, Sizes DEF Wrap
  <2>2. sent' \in Latencies \cup {0}
    BY <1>1 DEF RingInv, RingTypeOK
  <2> QED
    BY <1>1, <2>1, <2>2 DEF RingInv, RingTypeOK
<1>9. WholeMessages'
  <2>1. (Filled + 3 + UnreadFrom) % 3 = 0
    BY <1>3, <1>6, <1>7
  <2> QED
    BY <1>4, <1>6, <2>1 DEF WholeMessages, MessageSize
<1>10. Contents'
  <2>1. ASSUME NEW k \in 0 .. Filled - 1
        PROVE  IsCell(At(readIndex + k), (k + UnreadFrom) % 3)
    BY <2>1 DEF RingInv, Contents, MessageSize
  <2>2. ASSUME NEW n \in 0 .. 2
        PROVE  IsCell(At(readIndex + (Filled + n)), (Filled + n + UnreadFrom) % 3)
    <3>1. At(readIndex + (Filled + n)) = At(writeIndex + n)
      BY <1>2, <1>3, BehindFilled DEF At
    <3>2. At(writeIndex + n) = Cell(writing, n) /\ writing \in Latencies
      BY <1>1 DEF RingInv, Copied
    <3>3. (Filled + n + UnreadFrom) % 3 = n
      <4>1. Filled \in Int /\ n \in 0 .. 2 /\ UnreadFrom \in {0, 2} /\ (Filled + UnreadFrom) % 3 = 0
        BY <1>3, <1>6, <1>7
      <4> QED
        BY <4>1
    <3> QED
      BY <3>1, <3>2, <3>3, CellIs
  <2>3. ASSUME NEW k \in 0 .. Filled + 3 - 1
        PROVE  IsCell(At(readIndex + k), (k + UnreadFrom) % 3)
    <3>1. CASE k < Filled
      <4>1. k \in 0 .. Filled - 1
        BY <1>3, <3>1
      <4> QED
        BY <2>1, <4>1
    <3>2. CASE k >= Filled
      <4> DEFINE n == k - Filled
      <4>1. n \in 0 .. 2 /\ k = Filled + n
        BY <1>3, <3>2
      <4> HIDE DEF n
      <4> QED
        BY <2>2, <4>1
    <3> QED
      BY <1>3, <3>1, <3>2
  <2>4. 0 .. Filled' - 1 = 0 .. Filled + 3 - 1
    BY <1>3, <1>4
  <2>5. \A k : At(readIndex + k)' = At(readIndex + k)
    BY <1>1 DEF At
  <2> QED
    BY <1>6, <2>3, <2>4, <2>5 DEF Contents, MessageSize
<1>11. Available'
  <2>1. Filled' >= Filled
    BY <1>3, <1>4
  <2>2. /\ reader = "free header" => Filled >= 3
        /\ reader \in {"body", "free body"} => Filled >= 3 - 2
    BY DEF RingInv, Available, MessageSize, HeaderSize
  <2>3. /\ Filled >= 3 => Filled' >= 3
        /\ Filled >= 3 - 2 => Filled' >= 3 - 2
    BY <1>3, <1>4
  <2>4. reader' = reader
    BY <1>1
  <2> QED
    BY <2>2, <2>3, <2>4 DEF Available, MessageSize, HeaderSize
<1>12. ReaderHas' /\ NeverCorrupted' /\ Copied' /\ ClosedIsIdle'
  BY <1>1 DEF RingInv, ReaderHas, NeverCorrupted, Copied, ClosedIsIdle, At
<1>13. WriterStaysAhead' /\ EventCoversData'
  BY <1>1, <1>5 DEF WriterStaysAhead, EventCoversData
<1> QED
  BY <1>8, <1>9, <1>10, <1>11, <1>12, <1>13 DEF RingInv

\* Cells given back: n of them.
LEMMA GivenBack ==
    ASSUME RingInv, NEW n \in {1, 2}, n <= Filled, readIndex' = Wrap(readIndex + n),
           UNCHANGED <<cells, writeIndex, writer, writing, copied>>
    PROVE  /\ readIndex' \in 0 .. IndexRange - 1
           /\ Filled \in 0 .. RingSize /\ Filled \in Int
           /\ Filled' = Filled - n
           /\ \A k \in Int : At(readIndex + k)' = At(readIndex + (k + n))
           /\ WriterStaysAhead'
           /\ Copied'
<1>1. readIndex \in Int /\ writeIndex \in Int /\ n \in Nat /\ readIndex + n \in Int
  BY Ranges DEF RingInv
<1>2. Filled \in 0 .. RingSize /\ Filled \in Int
  BY Sizes DEF RingInv, WriterStaysAhead
<1>3. Filled' = Filled - n
  BY <1>1, <1>2, ReaderMoves DEF Filled, Between
<1>4. readIndex' \in 0 .. IndexRange - 1
  BY <1>1, DivMod, Sizes DEF Wrap
<1>5. ASSUME NEW k \in Int
      PROVE  At(readIndex + k)' = At(readIndex + (k + n))
  <2>1. (Wrap(readIndex + n) + k) % RingSize = ((readIndex + n) + k) % RingSize
    BY <1>1, WrapKeepsPlace
  <2>2. (readIndex + n) + k = readIndex + (k + n)
    BY <1>1
  <2> QED
    BY <2>1, <2>2 DEF At
<1>6. WriterStaysAhead'
  <2>1. Filled' \in 0 .. RingSize /\ Filled' <= Filled /\ Filled' \in Int
    BY <1>1, <1>2, <1>3, Sizes
  <2>2. writer = "copy" => Filled + 3 <= RingSize
    BY DEF RingInv, WriterStaysAhead, MessageSize
  <2>3. RingSize \in Int
    BY Sizes
  <2>5. Filled + 3 <= RingSize => Filled' + 3 <= RingSize
    <3> DEFINE a == Filled
               b == Filled'
               c == RingSize
    <3>1. a \in Int /\ b \in Int /\ c \in Int /\ b <= a
      BY <1>2, <2>1, <2>3
    <3> HIDE DEF a, b, c
    <3>2. a + 3 <= c => b + 3 <= c
      BY ONLY <3>1
    <3> QED
      BY <3>2 DEF a, b, c
  <2>6. writer' = writer
    OBVIOUS
  <2>4. writer' = "copy" => Filled' + 3 <= RingSize
    BY <2>2, <2>5, <2>6
  <2> QED
    BY <2>1, <2>4 DEF WriterStaysAhead, MessageSize
<1>7. Copied'
  BY DEF RingInv, Copied, At
<1> QED
  BY <1>2, <1>3, <1>4, <1>5, <1>6, <1>7

LEMMA FreeHeaderInv == ASSUME RingInv, FreeHeader PROVE RingInv'
<1>1. /\ reader = "free header" /\ header = GoodHeader /\ reader' = "body"
      /\ readIndex' = Wrap(readIndex + 2)
      /\ UNCHANGED <<cells, writeIndex, writer, writing, copied, open, event, header, body,
                     latency, nLatency, lost, sent>>
  BY DEF RingInv, ReaderHas, FreeHeader, HeaderSize, writerVars
<1>2. Filled >= 3
  BY <1>1 DEF RingInv, Available, MessageSize
<1>0. Filled \in Int
  BY Sizes DEF RingInv, WriterStaysAhead
<1>3. /\ readIndex' \in 0 .. IndexRange - 1
      /\ Filled \in 0 .. RingSize /\ Filled \in Int
      /\ Filled' = Filled - 2
      /\ \A k \in Int : At(readIndex + k)' = At(readIndex + (k + 2))
      /\ WriterStaysAhead' /\ Copied'
  <2>1. 2 <= Filled
    BY <1>0, <1>2
  <2> QED
    BY <1>1, <2>1, GivenBack
<1>4. UnreadFrom = 0 /\ UnreadFrom' = 2
  BY <1>1 DEF UnreadFrom, HeaderSize
<1>5. RingTypeOK'
  BY <1>1, <1>3 DEF RingInv, RingTypeOK
<1>6. WholeMessages'
  <2>1. Filled' + UnreadFrom' = Filled + UnreadFrom
    BY <1>3, <1>4
  <2> QED
    BY <2>1 DEF RingInv, WholeMessages
<1>7. Contents'
  <2> SUFFICES ASSUME NEW k \in 0 .. Filled' - 1
               PROVE  IsCell(At(readIndex + k)', (k + 2) % 3)
    BY <1>4 DEF Contents, MessageSize, At
  <2>0. Filled \in Int /\ Filled' = Filled - 2
    BY <1>3
  <2>1. k \in Int /\ k + 2 \in 0 .. Filled - 1 /\ (k + 2) + 0 = k + 2
    BY <2>0
  <2>2. IsCell(At(readIndex + (k + 2)), ((k + 2) + 0) % 3)
    BY <1>4, <2>1 DEF RingInv, Contents, MessageSize
  <2>3. At(readIndex + k)' = At(readIndex + (k + 2))
    BY <1>3, <2>1
  <2>4. IsCell(At(readIndex + (k + 2)), (k + 2) % 3)
    BY <2>1, <2>2
  <2> QED
    BY <2>3, <2>4
<1>8. Available'
  <2>1. Filled' >= 3 - 2
    BY <1>0, <1>2, <1>3
  <2>2. reader' = "body"
    BY <1>1
  <2> QED
    BY <2>1, <2>2 DEF Available, MessageSize, HeaderSize
<1>9. ReaderHas' /\ NeverCorrupted' /\ ClosedIsIdle' /\ EventCoversData'
  BY <1>1 DEF RingInv, ReaderHas, NeverCorrupted, ClosedIsIdle, EventCoversData
<1> QED
  BY <1>3, <1>5, <1>6, <1>7, <1>8, <1>9 DEF RingInv

LEMMA FreeBodyInv == ASSUME RingInv, FreeBody PROVE RingInv'
<1>11. reader = "free body" /\ reader' = "header" /\ latency' = body /\ body = At(readIndex)
  BY DEF RingInv, ReaderHas, FreeBody
<1>12. /\ readIndex' = Wrap(readIndex + 3 - 2)
       /\ UNCHANGED <<cells, writeIndex, writer, writing, copied, open, event, header, body,
                      nLatency, lost, sent>>
  BY DEF FreeBody, HeaderSize, MessageSize, writerVars
<1>13. readIndex + 3 - 2 = readIndex + 1
  <2>1. readIndex \in Int
    BY Ranges DEF RingInv
  <2> QED
    BY <2>1
<1>1. /\ reader = "free body" /\ reader' = "header" /\ body = At(readIndex) /\ latency' = body
      /\ readIndex' = Wrap(readIndex + 1)
      /\ UNCHANGED <<cells, writeIndex, writer, writing, copied, open, event, header, body,
                     nLatency, lost, sent>>
  BY <1>11, <1>12, <1>13
<1>2. Filled >= 3 - 2
  BY <1>1 DEF RingInv, Available, MessageSize, HeaderSize
<1>0. Filled \in Int /\ readIndex \in Int
  BY Sizes, Ranges DEF RingInv, WriterStaysAhead
<1>3. /\ readIndex' \in 0 .. IndexRange - 1
      /\ Filled \in 0 .. RingSize /\ Filled \in Int
      /\ Filled' = Filled - 1
      /\ \A k \in Int : At(readIndex + k)' = At(readIndex + (k + 1))
      /\ WriterStaysAhead' /\ Copied'
  <2>1. 1 <= Filled
    BY <1>0, <1>2
  <2> QED
    BY <1>1, <2>1, GivenBack
<1>4. UnreadFrom = 2 /\ UnreadFrom' = 0
  BY <1>1 DEF UnreadFrom, HeaderSize
<1>5. RingTypeOK'
  <2>1. 0 \in 0 .. Filled - 1 /\ readIndex + 0 = readIndex
    BY <1>0, <1>2
  <2>2. IsCell(At(readIndex + 0), (0 + 2) % 3)
    BY <1>4, <2>1 DEF RingInv, Contents, MessageSize
  <2>4. (0 + 2) % 3 = 2
    OBVIOUS
  <2>3. body \in Latencies
    BY <1>1, <2>1, <2>2, <2>4 DEF IsCell
  <2> QED
    BY <1>1, <1>3, <2>3 DEF RingInv, RingTypeOK
<1>6. WholeMessages'
  <2>1. (Filled + 2) % 3 = 0
    BY <1>4 DEF RingInv, WholeMessages, MessageSize
  <2>2. (Filled' + 0) % 3 = 0
    BY <1>0, <1>3, <2>1
  <2> QED
    BY <1>4, <2>2 DEF WholeMessages, MessageSize
<1>7. Contents'
  <2> SUFFICES ASSUME NEW k \in 0 .. Filled' - 1
               PROVE  IsCell(At(readIndex + k)', (k + 0) % 3)
    BY <1>4 DEF Contents, MessageSize, At
  <2>1. k \in Int /\ k + 1 \in 0 .. Filled - 1 /\ ((k + 1) + 2) % 3 = (k + 0) % 3
    BY <1>3
  <2>2. IsCell(At(readIndex + (k + 1)), ((k + 1) + 2) % 3)
    BY <1>4, <2>1 DEF RingInv, Contents, MessageSize
  <2> QED
    BY <1>3, <2>1, <2>2
<1>8. Available' /\ ReaderHas' /\ NeverCorrupted' /\ ClosedIsIdle' /\ EventCoversData'
  BY <1>1 DEF RingInv, Available, ReaderHas, NeverCorrupted, ClosedIsIdle, EventCoversData
<1> QED
  BY <1>3, <1>5, <1>6, <1>7, <1>8 DEF RingInv

LEMMA RingStutterInv == ASSUME RingInv, UNCHANGED ringVars PROVE RingInv'
<1>1. UNCHANGED <<open, cells, writeIndex, readIndex, event, writer, writing, copied,
                  reader, header, body, latency, nLatency, lost, sent>>
  BY DEF ringVars, writerVars, readerVars
<1>2. RingTypeOK'
  BY <1>1, ZenonT(60) DEF RingInv, RingTypeOK
<1>3. NeverCorrupted' /\ ClosedIsIdle'
  BY <1>1 DEF RingInv, NeverCorrupted, ClosedIsIdle
<1>4. WriterStaysAhead' /\ EventCoversData' /\ ReaderHas' /\ Available'
  BY <1>1 DEF RingInv, WriterStaysAhead, EventCoversData, ReaderHas, Available, Filled, At
<1>5. WholeMessages' /\ Contents' /\ Copied'
  BY <1>1 DEF RingInv, WholeMessages, Contents, Copied, UnreadFrom, Filled, At
<1> QED
  BY <1>2, <1>3, <1>4, <1>5 DEF RingInv

LEMMA RingStepInv == RingInv /\ [RingNext]_ringVars => RingInv'
<1> SUFFICES ASSUME RingInv, [RingNext]_ringVars
             PROVE  RingInv'
  OBVIOUS
<1>1. CASE Open \/ Destroy
  BY <1>1, OpenInv, DestroyInv
<1>2. ASSUME NEW l \in Latencies, SetLatency(l)
      PROVE  RingInv'
  BY <1>2, SetLatencyInv
<1>3. CASE WriterStep
  BY <1>3, CopyCellInv, PublishInv, SignalInv DEF WriterStep
<1>4. CASE ReaderStep
  BY <1>4, ReceiveInv, ReadHeaderInv, FreeHeaderInv, ReadBodyInv, FreeBodyInv, ApplyInv DEF ReaderStep
<1>5. CASE UNCHANGED ringVars
  BY <1>5, RingStutterInv
<1> QED
  BY <1>1, <1>2, <1>3, <1>4, <1>5 DEF RingNext

-----------------------------------------------------------------------------
(* Theorems *)

\* The invariant holds in every reachable state of ringbuffer_t and its two threads.
THEOREM RingCorrect == RingSpec => []RingInv
<1>1. RingInit => RingInv
  BY RingInitInv
<1>2. RingInv /\ [RingNext]_ringVars => RingInv'
  BY RingStepInv
<1> QED
  BY <1>1, <1>2, PTL DEF RingSpec

\* Types of the ring, its indices, and the two threads (ringbuffer_t, set_latency,
\* on_ringbuffer_data_received).
THEOREM RingTypes == RingSpec => []RingTypeOK
<1>1. RingInv => RingTypeOK
  BY DEF RingInv
<1> QED
  BY <1>1, RingCorrect, PTL

\* read_message finds whole messages however the threads interleave, wherever a
\* message wraps and however often the indices have wrapped.
THEOREM MessagesWhole == RingSpec => []NeverCorrupted
<1>1. RingInv => NeverCorrupted
  BY DEF RingInv
<1> QED
  BY <1>1, RingCorrect, PTL

\* write_message never runs over cells that read_message has not given back.
THEOREM NothingOverwritten == RingSpec => []WriterStaysAhead
<1>1. RingInv => WriterStaysAhead
  BY DEF RingInv
<1> QED
  BY <1>1, RingCorrect, PTL

\* A message in the ring has its event, or a reader that will find it.
THEOREM NothingStranded == RingSpec => []EventCoversData
<1>1. RingInv => EventCoversData
  BY DEF RingInv
<1> QED
  BY <1>1, RingCorrect, PTL

-----------------------------------------------------------------------------
(* The ring implements LatencyQueue. *)

\* How many messages are in the ring, and the latency of the n-th.
Messages   == (Filled + UnreadFrom) \div MessageSize
Message(n) == At(readIndex + (MessageSize * n - 1 - UnreadFrom))
Contained  == {Junk, Magic, Length} \cup Latencies

Fit ==
    /\ Messages \in Nat /\ Filled \in Nat /\ UnreadFrom \in {0, 2}
    /\ Filled + UnreadFrom = 3 * Messages
    /\ readIndex \in Int /\ writeIndex \in Int
    /\ \A n \in 1 .. Messages : 3 * n - 1 - UnreadFrom \in 0 .. Filled - 1

Sequence ==
    /\ InRing = [n \in 1 .. Messages |-> Message(n)]
    /\ InRing \in Seq(Contained)
    /\ Len(InRing) = Messages

LEMMA MessagesFit == RingInv => Fit
<1> SUFFICES ASSUME RingInv PROVE Fit
  OBVIOUS
<1>1. UnreadFrom \in {0, 2} /\ Filled \in 0 .. RingSize
  BY DEF RingInv, WriterStaysAhead, UnreadFrom, HeaderSize
<1>2. Filled \in Nat /\ Filled + UnreadFrom \in Nat
  BY <1>1, Sizes
<1>3. (Filled + UnreadFrom) % 3 = 0 /\ Messages = (Filled + UnreadFrom) \div 3
  BY DEF RingInv, WholeMessages, MessageSize, Messages
<1>4. Messages \in Nat /\ Filled + UnreadFrom = 3 * Messages
  BY <1>2, <1>3
<1>5. ASSUME NEW n \in 1 .. Messages
      PROVE  3 * n - 1 - UnreadFrom \in 0 .. Filled - 1
  BY <1>1, <1>2, <1>4
<1>6. readIndex \in Int /\ writeIndex \in Int
  BY Ranges DEF RingInv
<1> QED
  BY <1>1, <1>2, <1>4, <1>5, <1>6 DEF Fit

LEMMA InRingIs == RingInv => Sequence
<1> SUFFICES ASSUME RingInv PROVE Sequence
  OBVIOUS
<1>1. /\ Messages \in Nat /\ readIndex \in Int /\ UnreadFrom \in {0, 2}
  BY MessagesFit DEF Fit
<1>2. cells \in [0 .. RingSize - 1 -> Contained]
  BY DEF RingInv, RingTypeOK, Contained
<1>3. ASSUME NEW n \in 1 .. Messages
      PROVE  /\ At(readIndex + IndexRange - UnreadFrom + MessageSize * n - 1) = Message(n)
             /\ Message(n) \in Contained
  <2> DEFINE x == readIndex + (3 * n - 1 - UnreadFrom)
             f == IndexRange \div RingSize
  <2>1. x \in Int /\ f \in Int /\ IndexRange = RingSize * f
    BY <1>1, RingDivides
  <2>2. readIndex + IndexRange - UnreadFrom + 3 * n - 1 = x + IndexRange
    BY <1>1, Sizes
  <2> HIDE DEF x, f
  <2>3. (x + RingSize * f) % RingSize = x % RingSize /\ x % RingSize \in 0 .. RingSize - 1
    BY <2>1, RemainderShifts, PlaceInRing, Sizes
  <2>4. At(x + IndexRange) = At(x) /\ At(x) \in Contained
    BY <1>2, <2>1, <2>3 DEF At
  <2> QED
    BY <2>2, <2>4 DEF x, Message, MessageSize
<1>4. InRing = [n \in 1 .. Messages |-> Message(n)]
  BY <1>3 DEF InRing, Messages
<1>5. InRing \in [1 .. Messages -> Contained]
  BY <1>3, <1>4
<1>6. InRing \in Seq(Contained)
  BY <1>1, <1>5, SeqDef
<1>7. Len(InRing) = Messages
  BY <1>1, <1>5, <1>6, LenProperties
<1> QED
  BY <1>4, <1>6, <1>7 DEF Sequence

\* Both hold in the next state too.
LEMMA NextMessages == RingInv' => Fit' /\ Sequence'
  BY MessagesFit, InRingIs, PTL

\* A step that leaves the ring and the place in its first message alone.
LEMMA SameMessages ==
    ASSUME UNCHANGED <<cells, writeIndex, readIndex>>, UnreadFrom' = UnreadFrom
    PROVE  InRing' = InRing
  BY DEF InRing, Filled, At

LEMMA EmptyRing ==
    ASSUME writeIndex' = 0, readIndex' = 0, reader' = "idle"
    PROVE  InRing' = << >>
<1>1. Filled' = 0 /\ UnreadFrom' = 0
  BY BetweenEqual DEF Filled, Between, UnreadFrom
<1>2. (0 + 0) \div 3 = 0
  OBVIOUS
<1> QED
  BY <1>1, <1>2 DEF InRing, MessageSize

LEMMA CopyKeepsMessages == ASSUME RingInv, CopyCell PROVE InRing' = InRing
<1>1. UNCHANGED <<writeIndex, readIndex, reader>>
  BY DEF CopyCell, readerVars
<1>2. Filled' = Filled /\ UnreadFrom' = UnreadFrom /\ Messages' = Messages
  BY <1>1 DEF Filled, UnreadFrom, Messages
<1>3. RingInv'
  BY CopyCellInv
<1>4. ASSUME NEW n \in 1 .. Messages
      PROVE  Message(n)' = Message(n)
  <2> DEFINE k == 3 * n - 1 - UnreadFrom
  <2>1. k \in 0 .. Filled - 1
    BY MessagesFit DEF Fit
  <2> HIDE DEF k
  <2>2. k \in 0 .. Filled + copied - 1
    BY <2>1, CopyKeeps
  <2>3. cells'[(readIndex + k) % RingSize] = cells[(readIndex + k) % RingSize]
    BY <2>2, CopyKeeps
  <2> QED
    BY <1>1, <1>2, <2>3 DEF k, Message, MessageSize, At
<1>5. InRing' = [n \in 1 .. Messages' |-> Message(n)']
  BY <1>3, NextMessages DEF Sequence
<1> QED
  BY <1>2, <1>4, <1>5, InRingIs DEF Sequence

\* The header is given back: the message it belongs to is still the first.
LEMMA FreeHeaderKeepsMessages == ASSUME RingInv, FreeHeader PROVE InRing' = InRing
<1>1. /\ reader = "free header" /\ reader' = "body"
      /\ readIndex' = Wrap(readIndex + 2)
      /\ UNCHANGED <<cells, writeIndex, writer, writing, copied>>
  BY DEF RingInv, ReaderHas, FreeHeader, HeaderSize, writerVars
<1>2. UnreadFrom = 0 /\ UnreadFrom' = 2
  BY <1>1 DEF UnreadFrom, HeaderSize
<1>3. Filled \in Int /\ 2 <= Filled
  <2>1. Filled >= 3 /\ Filled \in Nat
    BY <1>1, MessagesFit DEF Fit, RingInv, Available, MessageSize
  <2> QED
    BY <2>1
<1>4. Filled' = Filled - 2 /\ \A k \in Int : At(readIndex + k)' = At(readIndex + (k + 2))
  BY <1>1, <1>3, GivenBack
<1>5. RingInv'
  BY FreeHeaderInv
<1>6. Messages' = Messages
  <2>1. Filled' + UnreadFrom' = Filled + UnreadFrom
    BY <1>2, <1>3, <1>4
  <2> QED
    BY <2>1 DEF Messages
<1>7. ASSUME NEW n \in 1 .. Messages
      PROVE  Message(n)' = Message(n)
  <2> DEFINE k == 3 * n - 1 - 2
  <2>1. k \in Int /\ k + 2 = 3 * n - 1 - 0
    BY MessagesFit DEF Fit
  <2>2. Message(n)' = At(readIndex + k)' /\ Message(n) = At(readIndex + (k + 2))
    BY <1>2, <2>1 DEF Message, MessageSize, At
  <2> HIDE DEF k
  <2> QED
    BY <1>4, <2>1, <2>2
<1>8. InRing' = [n \in 1 .. Messages' |-> Message(n)']
  BY <1>5, NextMessages DEF Sequence
<1> QED
  BY <1>6, <1>7, <1>8, InRingIs DEF Sequence

\* Its latency is given back: it is the first no more.
LEMMA FreeBodyTakesFirst ==
    ASSUME RingInv, FreeBody
    PROVE  InRing # << >> /\ InRing' = Tail(InRing) /\ latency' = Head(InRing)
<1>1. /\ reader = "free body" /\ reader' = "header" /\ latency' = body /\ body = At(readIndex)
      /\ UNCHANGED <<cells, writeIndex, writer, writing, copied>>
  BY DEF RingInv, ReaderHas, FreeBody, writerVars
<1>2. UnreadFrom = 2 /\ UnreadFrom' = 0
  BY <1>1 DEF UnreadFrom, HeaderSize
<1>3. Filled \in Nat /\ 1 <= Filled /\ readIndex \in Int /\ Messages \in Nat /\ Filled + 2 = 3 * Messages
  <2>1. Filled >= 3 - 2
    BY <1>1 DEF RingInv, Available, MessageSize, HeaderSize
  <2> QED
    BY <1>2, <2>1, MessagesFit DEF Fit
<1>4. readIndex' = Wrap(readIndex + 1)
  <2>1. readIndex' = Wrap(readIndex + 3 - 2)
    BY DEF FreeBody, MessageSize, HeaderSize
  <2>2. readIndex + 3 - 2 = readIndex + 1
    BY <1>3
  <2> QED
    BY <2>1, <2>2
<1>5. Filled' = Filled - 1 /\ \A k \in Int : At(readIndex + k)' = At(readIndex + (k + 1))
  BY <1>1, <1>3, <1>4, GivenBack
<1>6. RingInv'
  BY FreeBodyInv
<1>7. Messages' = Messages - 1 /\ Messages >= 1
  <2>1. Messages' \in Nat /\ Filled' + 0 = 3 * Messages'
    BY <1>2, <1>6, NextMessages DEF Fit
  <2>2. \A f, m, n \in Int : f + 2 = 3 * m /\ f - 1 + 0 = 3 * n /\ f >= 1 => n = m - 1 /\ m >= 1
    OBVIOUS
  <2>3. /\ Filled \in Int /\ Messages \in Int /\ Messages' \in Int
        /\ Filled + 2 = 3 * Messages /\ Filled >= 1
    BY <1>3, <2>1
  <2>4. Filled - 1 + 0 = 3 * Messages'
    BY <1>5, <2>1
  <2> QED
    BY <2>2, <2>3, <2>4
<1>8. ASSUME NEW n \in 1 .. Messages - 1
      PROVE  Message(n)' = Message(n + 1)
  <2> DEFINE k == 3 * n - 1 - 0
  <2>1. k \in Int /\ k + 1 = 3 * (n + 1) - 1 - 2
    BY <1>3
  <2>2. Message(n)' = At(readIndex + k)' /\ Message(n + 1) = At(readIndex + (k + 1))
    BY <1>2, <2>1 DEF Message, MessageSize, At
  <2> HIDE DEF k
  <2> QED
    BY <1>5, <2>1, <2>2
<1>9. /\ InRing = [n \in 1 .. Messages |-> Message(n)]
      /\ InRing \in Seq(Contained) /\ Len(InRing) = Messages
  BY InRingIs DEF Sequence
<1>10. /\ InRing' = [n \in 1 .. Messages' |-> Message(n)']
       /\ InRing' \in Seq(Contained) /\ Len(InRing') = Messages'
  BY <1>6, NextMessages DEF Sequence, Contained
<1>11. InRing # << >>
  BY <1>7, <1>3, <1>9
<1>12. /\ Tail(InRing) \in Seq(Contained) /\ Len(Tail(InRing)) = Messages - 1
       /\ \A n \in 1 .. Messages - 1 : Tail(InRing)[n] = InRing[n + 1]
       /\ Head(InRing) = InRing[1]
  <2> DEFINE s == InRing
  <2>1. s \in Seq(Contained) /\ s # << >> /\ Len(s) = Messages
    BY <1>9, <1>11
  <2> HIDE DEF s
  <2>2. /\ Tail(s) \in Seq(Contained) /\ Len(Tail(s)) = Messages - 1
        /\ \A n \in 1 .. Messages - 1 : Tail(s)[n] = s[n + 1]
    BY <2>1, HeadTailProperties
  <2>3. Head(s) = s[1]
    BY <2>1
  <2> QED
    BY <2>2, <2>3 DEF s
<1>13. Head(InRing) = latency'
  <2>1. Message(1) = At(readIndex + (3 * 1 - 1 - 2)) /\ readIndex + (3 * 1 - 1 - 2) = readIndex
    BY <1>2, <1>3 DEF Message, MessageSize
  <2>2. InRing[1] = Message(1)
    BY <1>3, <1>7, <1>9
  <2> QED
    BY <1>1, <1>12, <2>1, <2>2
<1>14. InRing' = Tail(InRing)
  <2>1. ASSUME NEW n \in 1 .. Messages - 1
        PROVE  InRing'[n] = Tail(InRing)[n]
    <3>1. n + 1 \in 1 .. Messages /\ n \in 1 .. Messages'
      BY <1>3, <1>7
    <3> QED
      BY <1>8, <1>9, <1>10, <1>12, <3>1
  <2> QED
    BY <1>7, <1>10, <1>12, <2>1, SeqEqual
<1> QED
  BY <1>11, <1>13, <1>14

\* The message that is published is the last.
LEMMA PublishAppends ==
    ASSUME RingInv, Publish
    PROVE  InRing' = Append(InRing, writing) /\ writing \in Latencies
<1>1. /\ writer = "copy" /\ copied = 3 /\ writeIndex' = Wrap(writeIndex + 3)
      /\ UNCHANGED <<cells, readIndex, reader>>
  BY DEF Publish, readerVars, MessageSize
<1>2. UnreadFrom' = UnreadFrom /\ UnreadFrom \in {0, 2}
  BY <1>1 DEF UnreadFrom, HeaderSize
<1>3. /\ Filled \in Nat /\ Messages \in Nat /\ Filled + UnreadFrom = 3 * Messages
      /\ readIndex \in Int /\ writeIndex \in Int
  BY MessagesFit DEF Fit
<1>4. Filled \in 0 .. RingSize /\ Filled + 3 <= RingSize
  BY <1>1 DEF RingInv, WriterStaysAhead, MessageSize
<1>5. Filled' = Filled + 3
  BY <1>1, <1>3, <1>4, WriterMoves DEF Filled, Between
<1>6. RingInv'
  BY PublishInv
<1>7. Messages' = Messages + 1
  <2>1. Messages' \in Nat /\ Filled' + UnreadFrom' = 3 * Messages'
    BY <1>6, NextMessages DEF Fit
  <2>2. \A f, u, m, n \in Int : f + u = 3 * m /\ f + 3 + u = 3 * n => n = m + 1
    OBVIOUS
  <2>3. /\ UnreadFrom \in Int /\ Filled \in Int /\ Messages \in Int /\ Messages' \in Int
        /\ Filled + UnreadFrom = 3 * Messages
    BY <1>2, <1>3, <2>1
  <2>4. Filled + 3 + UnreadFrom = 3 * Messages'
    BY <1>2, <1>5, <2>1
  <2> QED
    BY <2>2, <2>3, <2>4
<1>8. writing \in Latencies /\ At(writeIndex + 2) = writing
  <2>1. 2 \in 0 .. copied - 1
    BY <1>1
  <2> QED
    BY <1>1, <2>1 DEF RingInv, Copied, Cell
<1>9. Message(Messages + 1) = writing
  <2>1. 3 * (Messages + 1) - 1 - UnreadFrom = Filled + 2
    BY <1>2, <1>3
  <2>2. At(readIndex + (Filled + 2)) = At(writeIndex + 2)
    BY <1>3, <1>4, BehindFilled DEF At
  <2> QED
    BY <1>8, <2>1, <2>2 DEF Message, MessageSize
<1>10. \A n : Message(n)' = Message(n)
  BY <1>1, <1>2 DEF Message, At
<1>11. /\ InRing = [n \in 1 .. Messages |-> Message(n)]
       /\ InRing \in Seq(Contained) /\ Len(InRing) = Messages
  BY InRingIs DEF Sequence
<1>12. /\ InRing' = [n \in 1 .. Messages' |-> Message(n)']
       /\ InRing' \in Seq(Contained) /\ Len(InRing') = Messages'
  BY <1>6, NextMessages DEF Sequence, Contained
<1>13. writing \in Contained
  BY <1>8 DEF Contained
<1>14. /\ Append(InRing, writing) \in Seq(Contained)
       /\ Len(Append(InRing, writing)) = Messages + 1
       /\ \A n \in 1 .. Messages : Append(InRing, writing)[n] = InRing[n]
       /\ Append(InRing, writing)[Messages + 1] = writing
  <2> DEFINE s == InRing
  <2>1. s \in Seq(Contained) /\ Len(s) = Messages
    BY <1>11
  <2> HIDE DEF s
  <2>2. /\ Append(s, writing) \in Seq(Contained)
        /\ Len(Append(s, writing)) = Messages + 1
        /\ \A n \in 1 .. Messages : Append(s, writing)[n] = s[n]
        /\ Append(s, writing)[Messages + 1] = writing
    BY <1>13, <2>1, AppendProperties
  <2> QED
    BY <2>2 DEF s
<1>15. ASSUME NEW n \in 1 .. Messages + 1
       PROVE  InRing'[n] = Append(InRing, writing)[n]
  <2>1. InRing'[n] = Message(n)
    BY <1>7, <1>10, <1>12
  <2>2. n \in 1 .. Messages \/ n = Messages + 1
    BY <1>3
  <2> QED
    BY <1>9, <1>11, <1>14, <2>1, <2>2
<1>16. InRing' = Append(InRing, writing)
  BY <1>7, <1>12, <1>14, <1>15, SeqEqual
<1> QED
  BY <1>8, <1>16

LEMMA InitImplementsQueue == RingInit => Queue!QueueInit
  BY DEF RingInit, Queue!QueueInit

LEMMA StepImplementsQueue ==
    ASSUME RingInv, RingNext
    PROVE  [Queue!QueueNext]_(Queue!queueVars)
<1> USE DEF Queue!queueVars
<1>0. reader # "idle" => open
  BY DEF RingInv, ClosedIsIdle
<1>1. CASE Open
  <2>1. InRing' = << >>
    BY <1>1, EmptyRing DEF Open, readerVars, RingInv, ClosedIsIdle
  <2>2. Queue!Restart
    BY <1>1, <2>1 DEF Open, readerVars, RingInv, ClosedIsIdle, Queue!Restart
  <2> QED
    BY <2>2 DEF Queue!QueueNext
<1>2. CASE Destroy
  <2>1. Queue!Restart
    BY <1>2 DEF Destroy, readerVars, Queue!Restart
  <2> QED
    BY <2>1 DEF Queue!QueueNext
<1>3. ASSUME NEW l \in Latencies, SetLatency(l)
      PROVE  UNCHANGED Queue!queueVars
  <2>1. UNCHANGED <<open, cells, writeIndex, readIndex, reader, latency, nLatency, lost>>
    BY <1>3 DEF SetLatency, readerVars
  <2>2. InRing' = InRing
    BY <2>1, SameMessages DEF UnreadFrom
  <2> QED
    BY <2>1, <2>2
<1>4. CASE CopyCell
  <2>1. UNCHANGED <<open, reader, latency, nLatency, lost>>
    BY <1>4 DEF CopyCell, readerVars
  <2> QED
    BY <1>4, <2>1, CopyKeepsMessages
<1>5. CASE Publish
  <2>1. UNCHANGED <<open, reader, latency, nLatency, lost>>
    BY <1>5 DEF Publish, readerVars
  <2>2. InRing' = Append(InRing, writing) /\ writing \in Latencies
    BY <1>5, PublishAppends
  <2>3. open
    BY <1>5 DEF Publish, RingInv, ClosedIsIdle
  <2>4. Queue!Accept(writing)
    BY <2>1, <2>2, <2>3 DEF Queue!Accept
  <2> QED
    BY <2>2, <2>4 DEF Queue!QueueNext
<1>6. CASE Signal
  <2>1. UNCHANGED <<open, cells, writeIndex, readIndex, reader, latency, nLatency, lost>>
    BY <1>6 DEF Signal, readerVars
  <2>2. InRing' = InRing
    BY <2>1, SameMessages DEF UnreadFrom
  <2> QED
    BY <2>1, <2>2
<1>7. CASE Receive
  <2>1. /\ UNCHANGED <<open, cells, writeIndex, readIndex, nLatency, lost>>
        /\ open /\ reader = "idle" /\ reader' = "header" /\ latency' = nLatency
    BY <1>7 DEF Receive
  <2>2. InRing' = InRing
    BY <2>1, SameMessages DEF UnreadFrom
  <2> QED
    BY <2>1, <2>2
<1>8. CASE ReadHeader
  <2>1. /\ UNCHANGED <<open, cells, writeIndex, readIndex, latency, nLatency, lost>>
        /\ open /\ reader = "header" /\ reader' \in {"free header", "apply", "corrupted"}
    BY <1>0, <1>8 DEF ReadHeader
  <2>2. InRing' = InRing
    BY <2>1, SameMessages DEF UnreadFrom
  <2> QED
    BY <2>1, <2>2
<1>9. CASE FreeHeader
  <2>1. /\ UNCHANGED <<open, latency, nLatency, lost>>
        /\ open /\ reader = "free header" /\ reader' \in {"body", "corrupted"}
    BY <1>0, <1>9 DEF FreeHeader
  <2> QED
    BY <1>9, <2>1, FreeHeaderKeepsMessages
<1>10. CASE ReadBody
  <2>1. /\ UNCHANGED <<open, cells, writeIndex, readIndex, latency, nLatency, lost>>
        /\ open /\ reader = "body" /\ reader' # "idle"
    BY <1>0, <1>10 DEF ReadBody
  <2>2. UnreadFrom' = UnreadFrom
    <3>1. RingInv' /\ reader' \in {"free body", "apply", "corrupted"}
      BY <1>10, ReadBodyInv DEF ReadBody
    <3>2. Filled \in Nat /\ Filled >= 1 /\ RingSize \in Nat /\ Filled <= RingSize
      BY <2>1, MessagesFit, Sizes DEF Fit, RingInv, Available, WriterStaysAhead, MessageSize, HeaderSize
    <3>3. Answer(3 - 2) = "OK"
      BY <3>2 DEF Answer
    <3> QED
      BY <1>10, <2>1, <3>3 DEF ReadBody, UnreadFrom, MessageSize, HeaderSize
  <2>3. InRing' = InRing
    BY <2>1, <2>2, SameMessages
  <2> QED
    BY <2>1, <2>3
<1>11. CASE FreeBody
  <2>1. /\ UNCHANGED <<open, nLatency, lost>>
        /\ open /\ reader = "free body" /\ reader' = "header"
    BY <1>0, <1>11 DEF FreeBody
  <2>2. InRing # << >> /\ InRing' = Tail(InRing) /\ latency' = Head(InRing)
    BY <1>11, FreeBodyTakesFirst
  <2>3. Queue!Take
    BY <2>1, <2>2 DEF Queue!Take
  <2> QED
    BY <2>3 DEF Queue!QueueNext
<1>12. CASE Ignore \/ UpdateLatency \/ UpdateFails
  <2>1. /\ UNCHANGED <<open, cells, writeIndex, readIndex, latency>>
        /\ open /\ reader = "apply" /\ reader' = "idle"
    BY <1>0, <1>12 DEF Ignore, UpdateLatency, UpdateFails
  <2>2. InRing' = InRing
    BY <2>1, SameMessages DEF UnreadFrom
  <2>3. CASE Ignore
    BY <2>1, <2>2, <2>3 DEF Ignore
  <2>4. CASE UpdateLatency
    <3>1. Queue!Apply
      BY <2>1, <2>2, <2>4 DEF UpdateLatency, Queue!Apply
    <3> QED
      BY <3>1 DEF Queue!QueueNext
  <2>5. CASE UpdateFails
    <3>1. Queue!ApplyFails
      BY <2>1, <2>2, <2>5 DEF UpdateFails, Queue!ApplyFails
    <3> QED
      BY <3>1 DEF Queue!QueueNext
  <2> QED
    BY <1>12, <2>3, <2>4, <2>5
<1> QED
  BY <1>1, <1>2, <1>3, <1>4, <1>5, <1>6, <1>7, <1>8, <1>9, <1>10, <1>11, <1>12
  DEF RingNext, WriterStep, ReaderStep

LEMMA StutterImplementsQueue ==
    ASSUME UNCHANGED ringVars
    PROVE  UNCHANGED Queue!queueVars
<1>1. UNCHANGED <<open, cells, writeIndex, readIndex, reader, latency, nLatency, lost>>
  BY DEF ringVars, readerVars
<1>2. InRing' = InRing
  BY <1>1, SameMessages DEF UnreadFrom
<1> QED
  BY <1>1, <1>2 DEF Queue!queueVars

\* The ring and its two threads do what LatencyQueue promises: each latency that
\* set_latency accepted reaches the context thread once, whole and in order.
THEOREM RingImplementsQueue == RingSpec => ImplementsQueue
<1>1. RingInit => Queue!QueueInit
  BY InitImplementsQueue
<1>2. RingInv /\ [RingNext]_ringVars => [Queue!QueueNext]_(Queue!queueVars)
  <2>1. ASSUME RingInv, RingNext
        PROVE  [Queue!QueueNext]_(Queue!queueVars)
    BY <2>1, StepImplementsQueue
  <2>2. ASSUME UNCHANGED ringVars
        PROVE  [Queue!QueueNext]_(Queue!queueVars)
    BY <2>2, StutterImplementsQueue
  <2> QED
    BY <2>1, <2>2
<1> QED
  BY <1>1, <1>2, RingCorrect, PTL DEF RingSpec, ImplementsQueue, Queue!QueueSpec
=============================================================================

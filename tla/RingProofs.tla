------------------------------ MODULE RingProofs ----------------------------
(***************************************************************************)
(* What the USB bridge guarantees for a ring, packets and chunks of any    *)
(* size and any number of starts, stops and failures: its threads find     *)
(* their ring, the ring holds the newest bytes in order whatever wraps or  *)
(* is dropped, and what is played is played in order.                      *)
(***************************************************************************)
EXTENDS UsbBridge, TLAPS

ReaderPlaces == {"none", "open", "poll", "push", "signal", "publish", "update", "ended"}
WriterPlaces == {"none", "begin", "top", "take", "asleep", "empty", "handle", "trim", "discard", "fade",
                 "play", "close", "signal", "publish", "update", "ended"}
CtlPlaces == {"idle", "start", "create", "rollback", "clear", "wake", "wait", "join"}
Cells == 0 .. BridgeCapacity - 1
RingSet == [alive : BOOLEAN, data : [Cells -> Nat], head : Cells, tail : Cells,
            count : 0 .. BridgeCapacity, finished : BOOLEAN]
WriterSet == [chunk : Seq(Nat), rate : {0, 1}, started : BOOLEAN, skip : Nat, then : {"top", "play"}]

BridgeTypes ==
    /\ usbRing \in RingSet
    /\ ctl \in [at : CtlPlaces, done : [Threads -> BOOLEAN]]
    /\ thread \in [Threads -> ReaderPlaces \cup WriterPlaces]
    /\ thread["reader"] \in ReaderPlaces /\ thread["writer"] \in WriterPlaces
    /\ created \in [Threads -> BOOLEAN] /\ running \in [Threads -> BOOLEAN] /\ stopping \in BOOLEAN
    /\ bridge \in [running : BOOLEAN, streaming : BOOLEAN]
    /\ rate \in [confirmed : {0, 1}, once : BOOLEAN]
    /\ packet \in Nat /\ fed \in Nat /\ played \in Nat
    /\ writer \in WriterSet

\* A thread exists until it is joined, the ring as long as a thread does, and
\* running says whether the thread has got to its end.
OwnersLive ==
    \A t \in Threads :
        /\ created[t] <=> thread[t] # "none"
        /\ created[t] => usbRing.alive
        /\ running[t] <=> thread[t] \notin {"none", "update", "ended"}

\* Once a stop has cleared the status it stays cleared until the next start.
StatusFits ==
    /\ ctl.at \in {"clear", "wake", "wait", "join", "rollback"} => stopping
    /\ ctl.at \in {"wake", "wait", "join", "rollback"} => ~bridge.running
    /\ bridge.running /\ ctl.at \notin {"create", "clear"} =>
           \E t \in Threads : thread[t] \notin {"none", "ended"}
    /\ ctl.at = "create" => thread["writer"] = "none" /\ usbRing.alive

\* An index into the ring.
Wrap(a) == a % BridgeCapacity

\* The ring holds the newest bytes up to last, oldest at the tail.
Holds(rb, last) ==
    /\ rb.head = Wrap(rb.tail + rb.count)
    /\ \A i \in 0 .. rb.count - 1 : rb.data[Wrap(rb.tail + i)] + rb.count = last + 1 + i

RingFits ==
    /\ packet <= fed /\ Holds(usbRing, fed - packet)
    /\ thread["reader"] # "push" => packet = 0

Last(chunk) == chunk[Len(chunk)]

\* The writer has a chunk it will play.
InHand ==
    \/ thread["writer"] \in {"handle", "play"}
    \/ thread["writer"] = "trim" /\ writer.then = "play"

\* What was played, then the chunk in hand, then the ring, then the packet.
InOrder ==
    /\ played + usbRing.count + packet <= fed
    /\ InHand =>
           /\ writer.chunk # <<>>
           /\ played < Last(writer.chunk)
           /\ Last(writer.chunk) + usbRing.count + packet <= fed

BridgeInv == BridgeTypes /\ OwnersLive /\ StatusFits /\ RingFits /\ InOrder

-----------------------------------------------------------------------------
\* The ring

\* Indices wrap once.
LEMMA Wrapping ==
    ASSUME NEW a \in Nat
    PROVE  /\ Wrap(a) \in Cells
           /\ a < BridgeCapacity => Wrap(a) = a
           /\ a >= BridgeCapacity /\ a < 2 * BridgeCapacity => Wrap(a) = a - BridgeCapacity
<1>0. BridgeCapacity \in Nat \ {0}
  BY BridgeAssumption
<1>1. Wrap(a) \in Cells
  BY <1>0 DEF Cells, Wrap
<1>2. a < BridgeCapacity => Wrap(a) = a
  BY <1>0 DEF Wrap
<1>3. a >= BridgeCapacity /\ a < 2 * BridgeCapacity => Wrap(a) = a - BridgeCapacity
  BY <1>0 DEF Wrap
<1> QED
  BY <1>1, <1>2, <1>3

LEMMA WrapOnce ==
    ASSUME NEW a \in Nat, a < 2 * BridgeCapacity
    PROVE  Wrap(a) = IF a < BridgeCapacity THEN a ELSE a - BridgeCapacity
  BY Wrapping, BridgeAssumption

LEMMA WrapSum ==
    ASSUME NEW a \in Cells, NEW n \in 0 .. BridgeCapacity, NEW i \in 0 .. BridgeCapacity, n + i <= BridgeCapacity
    PROVE  Wrap(Wrap(a + n) + i) = Wrap(a + (n + i))
<1>1. BridgeCapacity \in Nat \ {0} /\ a \in Nat /\ a < BridgeCapacity
  BY BridgeAssumption DEF Cells
<1>2. /\ a + n \in Nat /\ a + n < 2 * BridgeCapacity
      /\ a + (n + i) \in Nat /\ a + (n + i) < 2 * BridgeCapacity
  BY <1>1
<1>3. PICK b \in Nat : b = Wrap(a + n) /\ b = IF a + n < BridgeCapacity THEN a + n ELSE a + n - BridgeCapacity
  BY <1>1, <1>2, WrapOnce
<1>4. b + i \in Nat /\ b + i < 2 * BridgeCapacity
  BY <1>1, <1>3
<1>5. Wrap(b + i) = IF b + i < BridgeCapacity THEN b + i ELSE b + i - BridgeCapacity
  BY <1>1, <1>4, WrapOnce
<1>6. Wrap(a + (n + i)) =
          IF a + (n + i) < BridgeCapacity THEN a + (n + i) ELSE a + (n + i) - BridgeCapacity
  BY <1>1, <1>2, WrapOnce
<1> QED
  BY <1>1, <1>3, <1>5, <1>6

LEMMA RingTypes ==
    ASSUME NEW rb \in RingSet
    PROVE  /\ rb.alive \in BOOLEAN /\ rb.finished \in BOOLEAN /\ rb.data \in [Cells -> Nat]
           /\ rb.head \in Cells /\ rb.tail \in Cells /\ rb.count \in 0 .. BridgeCapacity
  BY DEF RingSet

LEMMA HoldsNewest ==
    ASSUME BridgeTypes, RingFits
    PROVE  RingHoldsNewest
<1>1. /\ usbRing.data \in [Cells -> Nat] /\ usbRing.tail \in Cells /\ usbRing.count \in 0 .. BridgeCapacity
      /\ fed \in Nat /\ packet \in Nat /\ BridgeCapacity \in Nat \ {0}
  BY RingTypes, BridgeAssumption DEF BridgeTypes
<1>2. ASSUME NEW i \in 0 .. usbRing.count - 1
      PROVE  usbRing.data[Wrap(usbRing.tail + i)] \in Nat
  <2>1. usbRing.tail + i \in Nat
    BY <1>1 DEF Cells
  <2>2. Wrap(usbRing.tail + i) \in Cells
    BY <2>1, Wrapping
  <2> QED
    BY <1>1, <2>2
<1>3. ASSUME NEW i \in 0 .. usbRing.count - 1, NEW v \in Nat
      PROVE  v = fed - packet - usbRing.count + 1 + i <=> v + usbRing.count = fed - packet + 1 + i
  BY <1>1
<1>4. ASSUME NEW i \in 0 .. usbRing.count - 1
      PROVE  usbRing.data[Wrap(usbRing.tail + i)] = fed - packet - usbRing.count + 1 + i
  <2>1. usbRing.data[Wrap(usbRing.tail + i)] + usbRing.count = fed - packet + 1 + i
    BY DEF RingFits, Holds
  <2> QED
    BY <1>2, <1>3, <2>1
<1> QED
  BY <1>4 DEF RingHoldsNewest, Wrap

\* Taking out what is oldest, by the writer or a trim.
LEMMA WithoutHolds ==
    ASSUME NEW rb \in RingSet, NEW n \in 0 .. rb.count, NEW last \in Nat, Holds(rb, last)
    PROVE  /\ Without(rb, n) \in RingSet /\ Without(rb, n).alive = rb.alive
           /\ Without(rb, n).finished = rb.finished
           /\ Without(rb, n).count = rb.count - n /\ Holds(Without(rb, n), last)
<1> DEFINE w == Without(rb, n)
<1>1. /\ rb.alive \in BOOLEAN /\ rb.finished \in BOOLEAN /\ rb.data \in [Cells -> Nat]
      /\ rb.head \in Cells /\ rb.tail \in Cells /\ rb.count \in 0 .. BridgeCapacity
      /\ BridgeCapacity \in Nat \ {0}
  BY RingTypes, BridgeAssumption
<1>2. rb.tail + n \in Nat /\ rb.tail \in Nat /\ rb.tail < BridgeCapacity /\ rb.count - n \in 0 .. BridgeCapacity
  BY <1>1 DEF Cells
<1>3. Wrap(rb.tail + n) \in Cells
  BY <1>2, Wrapping
<1>4. w \in RingSet
  BY <1>2, <1>3 DEF Without, RingSet, Wrap
<1>5. /\ w.alive = rb.alive /\ w.finished = rb.finished /\ w.data = rb.data /\ w.head = rb.head
      /\ w.tail = Wrap(rb.tail + n)
  BY DEF Without, RingSet, Wrap
<1>6. w.count = rb.count - n
  BY DEF Without, RingSet
<1> HIDE DEF w
<1>7. ASSUME NEW i \in Nat, i <= rb.count - n
      PROVE  Wrap(w.tail + i) = Wrap(rb.tail + (n + i))
  <2>1. i \in 0 .. BridgeCapacity /\ n \in 0 .. BridgeCapacity /\ n + i <= BridgeCapacity
    BY <1>1, <1>7
  <2> QED
    BY <1>1, <1>5, <2>1, WrapSum
<1>8. w.head = Wrap(w.tail + w.count)
  <2>1. Wrap(w.tail + (rb.count - n)) = Wrap(rb.tail + (n + (rb.count - n)))
    BY <1>1, <1>2, <1>7
  <2>2. n + (rb.count - n) = rb.count
    BY <1>1
  <2> QED
    BY <1>5, <1>6, <2>1, <2>2 DEF Holds
<1>9. ASSUME NEW i \in 0 .. w.count - 1
      PROVE  w.data[Wrap(w.tail + i)] + w.count = last + 1 + i
  <2>1. i \in Nat /\ i <= rb.count - n /\ n + i \in 0 .. rb.count - 1
    BY <1>1, <1>6
  <2>2. rb.data[Wrap(rb.tail + (n + i))] + rb.count = last + 1 + (n + i)
    BY <2>1 DEF Holds
  <2>3. Wrap(w.tail + i) = Wrap(rb.tail + (n + i))
    BY <1>7, <2>1
  <2>4. rb.data[Wrap(rb.tail + (n + i))] \in Nat
    <3>1. rb.tail + (n + i) \in Nat
      BY <1>2, <2>1
    <3> QED
      BY <1>1, <3>1, Wrapping
  <2> QED
    BY <1>1, <1>5, <1>6, <2>1, <2>2, <2>3, <2>4
<1>10. Holds(w, last)
  BY <1>8, <1>9 DEF Holds
<1> QED
  BY <1>4, <1>5, <1>6, <1>10 DEF w

\* Where the cells of a write are: a holds the oldest of c bytes, n come, drop go.
\* The i-th byte of what is left was there before, or is one that came.
LEMMA WriteCells ==
    ASSUME NEW a \in Cells, NEW c \in 0 .. BridgeCapacity, NEW n \in 0 .. BridgeCapacity, NEW drop \in Nat,
           drop = IF n > BridgeCapacity - c THEN n - (BridgeCapacity - c) ELSE 0
    PROVE  /\ c - drop + n \in 0 .. BridgeCapacity /\ drop <= c
           /\ Wrap(Wrap(a + c) + n) = Wrap(Wrap(a + drop) + (c - drop + n))
           /\ \A i \in 0 .. c - drop + n - 1 :
                 \E cell \in Cells, k \in Cells :
                     /\ cell = Wrap(Wrap(a + drop) + i)
                     /\ k = Wrap(cell + BridgeCapacity - Wrap(a + c))
                     /\ i < c - drop => k >= n /\ cell = Wrap(a + (drop + i))
                     /\ i >= c - drop => k < n /\ k = i - (c - drop)
<1>1. BridgeCapacity \in Nat \ {0} /\ a \in Nat /\ a < BridgeCapacity
  BY BridgeAssumption DEF Cells
<1>2. drop <= c /\ c - drop + n \in 0 .. BridgeCapacity /\ drop \in 0 .. BridgeCapacity
  BY <1>1
<1>3. PICK h \in Nat : h = Wrap(a + c) /\ h = IF a + c < BridgeCapacity THEN a + c ELSE a + c - BridgeCapacity
  <2>1. a + c \in Nat /\ a + c < 2 * BridgeCapacity
    BY <1>1
  <2> QED
    BY <1>1, <2>1, WrapOnce
<1>4. PICK b \in Nat : b = Wrap(a + drop) /\ b = IF a + drop < BridgeCapacity THEN a + drop ELSE a + drop - BridgeCapacity
  <2>1. a + drop \in Nat /\ a + drop < 2 * BridgeCapacity
    BY <1>1, <1>2
  <2> QED
    BY <1>1, <2>1, WrapOnce
<1>5. h < BridgeCapacity /\ b < BridgeCapacity
  BY <1>1, <1>2, <1>3, <1>4
<1>6. Wrap(h + n) = Wrap(b + (c - drop + n))
  <2>1. PICK m \in Nat : m = c - drop + n
    BY <1>2
  <2>2. /\ h + n \in Nat /\ h + n < 2 * BridgeCapacity
        /\ b + m \in Nat /\ b + m < 2 * BridgeCapacity
    BY <1>1, <1>2, <1>5, <2>1
  <2>3. Wrap(h + n) = IF h + n < BridgeCapacity THEN h + n ELSE h + n - BridgeCapacity
    BY <1>1, <2>2, WrapOnce
  <2>4. Wrap(b + m) = IF b + m < BridgeCapacity THEN b + m ELSE b + m - BridgeCapacity
    BY <1>1, <2>2, WrapOnce
  <2>5. (IF h + n < BridgeCapacity THEN h + n ELSE h + n - BridgeCapacity)
          = IF b + m < BridgeCapacity THEN b + m ELSE b + m - BridgeCapacity
    <3>1. CASE drop = 0
      <4>1. b = a /\ m = c + n /\ c + n <= BridgeCapacity
        BY <1>1, <1>2, <1>4, <2>1, <3>1
      <4> QED
        BY <1>1, <1>3, <4>1
    <3>2. CASE drop > 0
      <4>1. m = BridgeCapacity /\ drop + BridgeCapacity = n + c
        BY <1>1, <1>2, <2>1, <3>2
      <4>2. b + m >= BridgeCapacity /\ b + m - BridgeCapacity = b
        BY <1>1, <4>1
      <4>3. (IF h + n < BridgeCapacity THEN h + n ELSE h + n - BridgeCapacity) = b
        <5>1. CASE a + c < BridgeCapacity
          <6>1. h + n = a + drop + BridgeCapacity /\ a + drop < BridgeCapacity
            BY <1>1, <1>3, <4>1, <5>1
          <6> QED
            BY <1>1, <1>4, <6>1
        <5>2. CASE a + c >= BridgeCapacity
          <6>1. h + n = a + drop
            BY <1>1, <1>3, <4>1, <5>2
          <6> QED
            BY <1>1, <1>4, <6>1
        <5> QED
          BY <1>1, <5>1, <5>2
      <4> QED
        BY <1>1, <4>2, <4>3
    <3> QED
      BY <3>1, <3>2
  <2> QED
    BY <2>1, <2>3, <2>4, <2>5
<1>7. ASSUME NEW i \in 0 .. c - drop + n - 1
      PROVE  \E cell \in Cells, k \in Cells :
                     /\ cell = Wrap(b + i)
                     /\ k = Wrap(cell + BridgeCapacity - h)
                     /\ i < c - drop => k >= n /\ cell = Wrap(a + (drop + i))
                     /\ i >= c - drop => k < n /\ k = i - (c - drop)
  <2>1. i \in Nat /\ i < BridgeCapacity /\ b + i \in Nat /\ b + i < 2 * BridgeCapacity
    BY <1>1, <1>2, <1>5
  <2>2. PICK cell \in Nat : cell = Wrap(b + i) /\ cell = IF b + i < BridgeCapacity THEN b + i ELSE b + i - BridgeCapacity
    BY <1>1, <2>1, WrapOnce
  <2>3. PICK p \in Nat : p = cell + BridgeCapacity - h
    BY <1>1, <1>5
  <2>4. cell \in Cells /\ p < 2 * BridgeCapacity
    BY <1>1, <1>5, <2>1, <2>2, <2>3 DEF Cells
  <2>5. PICK k \in Nat : k = Wrap(p) /\ k = IF p < BridgeCapacity THEN p ELSE p - BridgeCapacity
    BY <1>1, <2>3, <2>4, WrapOnce
  <2>6. k \in Cells
    BY <1>1, <2>3, <2>4, <2>5 DEF Cells
  <2>7. ASSUME i < c - drop
        PROVE  k >= n /\ cell = Wrap(a + (drop + i))
    <3>1. k >= n
      BY <1>1, <1>2, <1>3, <1>4, <2>1, <2>2, <2>3, <2>5, <2>7
    <3>2. a + (drop + i) \in Nat /\ a + (drop + i) < 2 * BridgeCapacity
      BY <1>1, <1>2, <2>1, <2>7
    <3>3. Wrap(a + (drop + i)) =
              IF a + (drop + i) < BridgeCapacity THEN a + (drop + i) ELSE a + (drop + i) - BridgeCapacity
      BY <1>1, <3>2, WrapOnce
    <3>4. cell = IF a + (drop + i) < BridgeCapacity THEN a + (drop + i) ELSE a + (drop + i) - BridgeCapacity
      BY <1>1, <1>2, <1>4, <2>1, <2>2, <2>7
    <3> QED
      BY <3>1, <3>3, <3>4
  <2>8. ASSUME i >= c - drop
        PROVE  k < n /\ k = i - (c - drop)
    BY <1>1, <1>2, <1>3, <1>4, <2>1, <2>2, <2>3, <2>5, <2>8
  <2> QED
    BY <2>2, <2>3, <2>4, <2>5, <2>6, <2>7, <2>8
<1> QED
  BY <1>2, <1>3, <1>4, <1>6, <1>7

\* ring_buffer_write_drop_oldest() keeps the newest bytes, the new ones last,
\* and never makes more of them than there were.
LEMMA PushHolds ==
    ASSUME NEW rb \in RingSet, NEW first \in Nat \ {0}, NEW len \in Nat, Holds(rb, first - 1)
    PROVE  /\ ring_buffer_write_drop_oldest(rb, first, len) \in RingSet
           /\ ring_buffer_write_drop_oldest(rb, first, len).alive = rb.alive
           /\ ring_buffer_write_drop_oldest(rb, first, len).count <= rb.count + len
           /\ Holds(ring_buffer_write_drop_oldest(rb, first, len), first + len - 1)
<1> DEFINE w == ring_buffer_write_drop_oldest(rb, first, len)
           big == len > BridgeCapacity
           n == IF big THEN BridgeCapacity ELSE len
           from == first + (len - n)
           head == IF big THEN 0 ELSE rb.head
           tail == IF big THEN 0 ELSE rb.tail
           count == IF big THEN 0 ELSE rb.count
           space == BridgeCapacity - count
           drop == IF n > space THEN n - space ELSE 0
           cells == [i \in DOMAIN rb.data |->
                       LET k == (i + BridgeCapacity - head) % BridgeCapacity
                       IN IF k < n THEN from + k ELSE rb.data[i]]
<1>1. /\ rb.alive \in BOOLEAN /\ rb.finished \in BOOLEAN /\ rb.data \in [Cells -> Nat]
      /\ rb.head \in Cells /\ rb.tail \in Cells /\ rb.count \in 0 .. BridgeCapacity
      /\ BridgeCapacity \in Nat \ {0}
  BY RingTypes, BridgeAssumption
<1>2. /\ n \in 0 .. BridgeCapacity /\ from \in Nat /\ from = first + len - n /\ n <= len
      /\ head \in Cells /\ tail \in Cells /\ count \in 0 .. BridgeCapacity /\ count <= rb.count
      /\ drop \in Nat /\ drop = IF n > BridgeCapacity - count THEN n - (BridgeCapacity - count) ELSE 0
      /\ count > 0 => n = len
  <2>1. 0 \in Cells
    BY <1>1 DEF Cells
  <2>2. n \in 0 .. BridgeCapacity /\ n <= len
    BY <1>1
  <2>3. count \in 0 .. BridgeCapacity /\ count <= rb.count
    BY <1>1
  <2>4. from \in Nat /\ from = first + len - n
    BY <2>2
  <2>5. head \in Cells /\ tail \in Cells
    BY <1>1, <2>1
  <2>7. count > 0 => n = len
    OBVIOUS
  <2> HIDE DEF n, count, head, tail, from, big
  <2>6. drop \in Nat
    BY <1>1, <2>2, <2>3
  <2> QED
    BY <2>2, <2>3, <2>4, <2>5, <2>6, <2>7
<1>3. /\ head = Wrap(tail + count)
      /\ \A i \in 0 .. count - 1 : rb.data[Wrap(tail + i)] + count = first + i
  <2>1. CASE big
    <3>1. Wrap(0) = 0
      BY <1>1, Wrapping
    <3> QED
      BY <2>1, <3>1
  <2>2. CASE ~big
    <3>1. ASSUME NEW i \in 0 .. rb.count - 1
          PROVE  rb.data[Wrap(rb.tail + i)] + rb.count = first + i
      <4>1. rb.data[Wrap(rb.tail + i)] + rb.count = first - 1 + 1 + i
        BY DEF Holds
      <4>2. first - 1 + 1 + i = first + i
        BY <1>1
      <4> QED
        BY <4>1, <4>2
    <3> QED
      BY <2>2, <3>1 DEF Holds
  <2> QED
    BY <2>1, <2>2
<1>4. w = [rb EXCEPT !.data = cells, !.head = (head + n) % BridgeCapacity,
                     !.tail = (tail + drop) % BridgeCapacity, !.count = count - drop + n]
  BY DEF ring_buffer_write_drop_oldest
<1> HIDE DEF w, n, from, head, tail, count, drop, space, big
<1>5. /\ count - drop + n \in 0 .. BridgeCapacity /\ drop <= count
      /\ Wrap(head + n) = Wrap(Wrap(tail + drop) + (count - drop + n))
      /\ \A i \in 0 .. count - drop + n - 1 :
            \E cell \in Cells, k \in Cells :
                /\ cell = Wrap(Wrap(tail + drop) + i)
                /\ k = Wrap(cell + BridgeCapacity - head)
                /\ i < count - drop => k >= n /\ cell = Wrap(tail + (drop + i))
                /\ i >= count - drop => k < n /\ k = i - (count - drop)
  BY <1>2, <1>3, WriteCells
<1>6. /\ cells \in [Cells -> Nat]
      /\ \A cell \in Cells : cells[cell] = IF Wrap(cell + BridgeCapacity - head) < n
                                          THEN from + Wrap(cell + BridgeCapacity - head) ELSE rb.data[cell]
  <2>1. DOMAIN rb.data = Cells
    BY <1>1
  <2>2. \A cell \in Cells : cells[cell] = IF Wrap(cell + BridgeCapacity - head) < n
                                          THEN from + Wrap(cell + BridgeCapacity - head) ELSE rb.data[cell]
    BY <2>1 DEF Wrap
  <2>3. ASSUME NEW cell \in Cells PROVE cells[cell] \in Nat
    <3>1. cell + BridgeCapacity - head \in Nat
      BY <1>1, <1>2 DEF Cells
    <3>2. Wrap(cell + BridgeCapacity - head) \in Nat
      BY <3>1, Wrapping DEF Cells
    <3>3. rb.data[cell] \in Nat
      BY <1>1
    <3> HIDE DEF cells
    <3> QED
      BY <1>2, <2>2, <3>2, <3>3
  <2> QED
    BY <2>1, <2>2, <2>3
<1> HIDE DEF cells
<1>7. (head + n) % BridgeCapacity \in Cells /\ (tail + drop) % BridgeCapacity \in Cells
  <2>1. head + n \in Nat /\ tail + drop \in Nat
    BY <1>1, <1>2 DEF Cells
  <2> QED
    BY <2>1, Wrapping DEF Wrap
<1>8. w \in RingSet
  BY <1>4, <1>5, <1>6, <1>7 DEF RingSet
<1>9. w.alive = rb.alive /\ w.data = cells
  BY <1>4 DEF RingSet
<1>10. w.head = Wrap(head + n) /\ w.tail = Wrap(tail + drop)
  BY <1>4 DEF RingSet, Wrap
<1>11. w.count = count - drop + n
  BY <1>4 DEF RingSet
<1>12. w.count <= rb.count + len
  BY <1>1, <1>2, <1>5, <1>11
<1>13. w.head = Wrap(w.tail + w.count)
  BY <1>5, <1>10, <1>11
<1>14. ASSUME NEW i \in 0 .. w.count - 1
       PROVE  w.data[Wrap(w.tail + i)] + w.count = first + len - 1 + 1 + i
  <2>0. i \in 0 .. count - drop + n - 1
    BY <1>2, <1>5, <1>11
  <2>1. PICK cell \in Cells, k \in Cells :
                /\ cell = Wrap(Wrap(tail + drop) + i)
                /\ k = Wrap(cell + BridgeCapacity - head)
                /\ i < count - drop => k >= n /\ cell = Wrap(tail + (drop + i))
                /\ i >= count - drop => k < n /\ k = i - (count - drop)
    BY <1>5, <2>0, Zenon
  <2>2. /\ w.data[Wrap(w.tail + i)] = cells[cell]
        /\ cells[cell] = IF k < n THEN from + k ELSE rb.data[cell]
    BY <1>6, <1>9, <1>10, <2>1
  <2>3. k \in Nat /\ i \in Nat
    BY <1>1, <1>5, <1>11 DEF Cells
  <2>4. CASE i < count - drop
    <3>1. w.data[Wrap(w.tail + i)] = rb.data[cell] /\ rb.data[cell] \in Nat
      BY <1>1, <1>2, <2>1, <2>2, <2>3, <2>4
    <3>2. drop + i \in 0 .. count - 1
      BY <1>2, <1>5, <2>3, <2>4
    <3>3. rb.data[cell] + count = first + (drop + i)
      BY <1>3, <2>1, <2>4, <3>2
    <3>a. n = len
      BY <1>2, <1>5, <2>3, <2>4
    <3>4. rb.data[cell] + (count - drop + n) = first + len - 1 + 1 + i
      BY <1>2, <2>3, <3>a, <3>1, <3>3
    <3> QED
      BY <1>11, <3>1, <3>4
  <2>5. CASE i >= count - drop
    <3>1. w.data[Wrap(w.tail + i)] = from + k /\ k = i - (count - drop)
      BY <2>1, <2>2, <2>5
    <3>2. from + k + (count - drop + n) = first + len - 1 + 1 + i
      BY <1>2, <2>3, <3>1
    <3> QED
      BY <1>11, <3>1, <3>2
  <2> QED
    BY <1>2, <2>3, <2>4, <2>5
<1>15. Holds(w, first + len - 1)
  BY <1>13, <1>14 DEF Holds
<1> QED
  BY <1>8, <1>9, <1>12, <1>15 DEF w

\* An empty ring holds what it should, whatever was sent.
LEMMA EmptyHolds ==
    /\ NoRing \in RingSet /\ NoRing.count = 0 /\ ~NoRing.alive
    /\ NewRing \in RingSet /\ NewRing.count = 0 /\ NewRing.alive
    /\ \A last : Holds(NoRing, last) /\ Holds(NewRing, last)
<1>1. BridgeCapacity \in Nat \ {0} /\ 0 \in Cells /\ 0 \in 0 .. BridgeCapacity
  BY BridgeAssumption DEF Cells
<1>2. [i \in 0 .. BridgeCapacity - 1 |-> 0] \in [Cells -> Nat]
  BY DEF Cells
<1>3. /\ NoRing \in RingSet /\ NoRing.count = 0 /\ ~NoRing.alive /\ NoRing.head = 0 /\ NoRing.tail = 0
  BY <1>1, <1>2 DEF NoRing, RingSet
<1>4. NewRing \in RingSet
  BY <1>3 DEF NewRing, RingSet
<1>5. NewRing.count = NoRing.count /\ NewRing.alive = TRUE /\ NewRing.head = NoRing.head
      /\ NewRing.tail = NoRing.tail
  BY <1>3 DEF NewRing, RingSet
<1>6. Wrap(0 + 0) = 0
  BY <1>1, Wrapping
<1>7. \A last : Holds(NoRing, last) /\ Holds(NewRing, last)
  BY <1>3, <1>5, <1>6 DEF Holds
<1> QED
  BY <1>3, <1>4, <1>5, <1>7

LEMMA FinishedHolds ==
    ASSUME NEW rb \in RingSet
    PROVE  /\ Finished(rb) \in RingSet /\ Finished(rb).count = rb.count /\ Finished(rb).alive = rb.alive
           /\ \A last : Holds(rb, last) => Holds(Finished(rb), last)
<1> DEFINE w == Finished(rb)
<1>1. w \in RingSet
  BY DEF Finished, RingSet
<1>2. w.count = rb.count /\ w.alive = rb.alive /\ w.head = rb.head /\ w.tail = rb.tail /\ w.data = rb.data
  BY DEF Finished, RingSet
<1> HIDE DEF w
<1>3. \A last : Holds(rb, last) => Holds(w, last)
  BY <1>2 DEF Holds
<1> QED
  BY <1>1, <1>2, <1>3 DEF w

-----------------------------------------------------------------------------
\* The threads

Gone == {"none", "update", "ended"}

\* A step in which the threads only go on, or are woken, disturbs neither who
\* owns the ring nor the status.
LEMMA ThreadsGoOn ==
    ASSUME BridgeInv, UNCHANGED <<ctl, created, running>>, usbRing'.alive = usbRing.alive,
           stopping => stopping', bridge'.running = bridge.running,
           \A t \in Threads : /\ thread[t] \in Gone => thread'[t] = thread[t]
                              /\ thread[t] \notin Gone => thread'[t] \notin Gone
    PROVE  OwnersLive' /\ StatusFits'
<1> USE DEF BridgeInv
<1>0. /\ created' = created /\ running' = running /\ ctl' = ctl
      /\ \A t \in Threads : /\ thread'[t] = "none" <=> thread[t] = "none"
                            /\ thread'[t] = "ended" <=> thread[t] = "ended"
                            /\ thread'[t] \in {"none", "update", "ended"} <=> thread[t] \in {"none", "update", "ended"}
  BY DEF Gone
<1>1. OwnersLive'
  BY <1>0 DEF OwnersLive
<1>2. "writer" \in Threads
  BY DEF Threads
<1>3. StatusFits'
  BY <1>0, <1>2 DEF StatusFits
<1> QED
  BY <1>1, <1>3

\* One thread goes to another place.
LEMMA OneGoes ==
    ASSUME BridgeTypes, NEW t \in Threads, NEW pc, ThreadGoes(t, pc),
           pc \in (IF t = "reader" THEN ReaderPlaces ELSE WriterPlaces)
    PROVE  /\ thread' \in [Threads -> ReaderPlaces \cup WriterPlaces]
           /\ thread'["reader"] \in ReaderPlaces /\ thread'["writer"] \in WriterPlaces
           /\ thread'[t] = pc /\ \A u \in Threads : u # t => thread'[u] = thread[u]
  BY DEF BridgeTypes, ThreadGoes, Threads

\* A step of the writer that leaves ring, packet and bytes alone.
LEMMA WriterQuiet ==
    ASSUME BridgeInv, WriterKeeps, UNCHANGED <<usbRing, played>>, stopping' \in {stopping, TRUE},
           writer' \in WriterSet,
           NEW pc \in WriterPlaces \ Gone, thread["writer"] \notin Gone, ThreadGoes("writer", pc),
           InHand' => InHand /\ writer'.chunk = writer.chunk
    PROVE  BridgeInv'
<1> USE DEF BridgeInv
<1>0. "writer" \in Threads /\ "reader" \in Threads /\ Threads = {"reader", "writer"}
  BY DEF Threads
<1>1. /\ thread' \in [Threads -> ReaderPlaces \cup WriterPlaces]
      /\ thread'["reader"] \in ReaderPlaces /\ thread'["writer"] \in WriterPlaces
      /\ thread'["writer"] = pc /\ thread'["reader"] = thread["reader"]
  BY <1>0, OneGoes
<1>2. BridgeTypes'
  BY <1>1 DEF BridgeTypes, WriterKeeps
<1>3. OwnersLive' /\ StatusFits'
  BY <1>0, <1>1, ThreadsGoOn DEF WriterKeeps, BridgeTypes
<1>4. RingFits'
  BY <1>1 DEF RingFits, WriterKeeps
<1>5. InOrder'
  BY DEF InOrder, WriterKeeps
<1> QED
  BY <1>2, <1>3, <1>4, <1>5

LEMMA WriterTypes ==
    ASSUME BridgeInv
    PROVE  /\ writer.chunk \in Seq(Nat) /\ writer.rate \in {0, 1} /\ writer.started \in BOOLEAN
           /\ writer.skip \in Nat /\ writer.then \in {"top", "play"} /\ rate.confirmed \in {0, 1}
           /\ Reserve \in Nat /\ PeriodicReserve \in Nat
  BY BridgeAssumption DEF BridgeInv, BridgeTypes, WriterSet

\* Steps of the writer between its reads of the ring.
LEMMA StepWriterQuiet ==
    ASSUME BridgeInv, \/ WriterBegins \/ WriterTops \/ WriterEmpty \/ WriterMuted
                      \/ WriterHandles \/ WriterTrims \/ WriterCloses
    PROVE  BridgeInv'
<1> USE DEF BridgeInv, Gone, WriterPlaces
<1>0. writer \in WriterSet /\ <<>> \in Seq(Nat)
  BY DEF BridgeTypes
<1>1. CASE WriterBegins \/ WriterTops \/ WriterEmpty \/ WriterCloses
  <2>1. PICK pc \in {"close", "take", "top", "signal", "publish"} : ThreadGoes("writer", pc)
    BY <1>1 DEF WriterBegins, WriterTops, WriterEmpty, WriterCloses
  <2>2. /\ WriterKeeps /\ UNCHANGED <<usbRing, writer, played>> /\ stopping' \in {stopping, TRUE}
        /\ thread["writer"] \notin Gone
    BY <1>1 DEF WriterBegins, WriterTops, WriterEmpty, WriterCloses
  <2>3. thread'["writer"] = pc
    BY <2>1 DEF ThreadGoes, BridgeTypes, Threads
  <2>4. ~InHand'
    BY <2>3 DEF InHand
  <2> QED
    BY <1>0, <2>1, <2>2, <2>4, WriterQuiet
<1>2. CASE WriterMuted
  <2>1. PICK pc \in {"top", "close", "trim", "signal"} : ThreadGoes("writer", pc)
    BY <1>2 DEF WriterMuted
  <2>2. /\ WriterKeeps /\ UNCHANGED <<usbRing, played>> /\ thread["writer"] = "handle"
        /\ stopping' \in {stopping, TRUE}
    BY <1>2 DEF WriterMuted
  <2>3. thread'["writer"] = pc
    BY <2>1 DEF ThreadGoes, BridgeTypes, Threads
  <2>4. writer' \in WriterSet /\ (pc = "trim" => writer'.then = "top")
    <3>1. CASE UNCHANGED writer /\ pc # "trim"
      BY <1>0, <3>1
    <3>2. CASE writer' = [writer EXCEPT !.chunk = <<>>] /\ pc # "trim"
      BY <1>0, <3>2 DEF WriterSet
    <3>3. CASE writer' = [chunk |-> <<>>, rate |-> rate.confirmed, started |-> TRUE, skip |-> Reserve, then |-> "top"]
      BY <3>3, WriterTypes DEF WriterSet
    <3> QED
      BY <1>2, <2>3, <3>1, <3>2, <3>3 DEF WriterMuted, ThreadGoes, BridgeTypes, Threads
  <2>5. ~InHand'
    BY <2>3, <2>4 DEF InHand
  <2> QED
    BY <2>1, <2>2, <2>4, <2>5, WriterQuiet
<1>3. CASE WriterHandles
  <2>1. PICK pc \in {"trim", "play"} : ThreadGoes("writer", pc)
    BY <1>3 DEF WriterHandles
  <2>2. /\ WriterKeeps /\ UNCHANGED <<usbRing, played, stopping>> /\ thread["writer"] = "handle"
    BY <1>3 DEF WriterHandles
  <2>3. writer' \in WriterSet /\ writer'.chunk = writer.chunk
    <3>1. CASE UNCHANGED writer
      BY <1>0, <3>1
    <3>2. CASE writer' = [writer EXCEPT !.rate = rate.confirmed, !.skip = Reserve, !.then = "play"]
      <4>1. writer' \in WriterSet
        BY <1>0, <3>2, WriterTypes DEF WriterSet
      <4>2. writer'.chunk = writer.chunk
        BY <1>0, <3>2 DEF WriterSet
      <4> QED
        BY <4>1, <4>2
    <3> QED
      BY <1>3, <3>1, <3>2 DEF WriterHandles
  <2>4. InHand
    BY <2>2 DEF InHand
  <2> QED
    BY <2>1, <2>2, <2>3, <2>4, WriterQuiet
<1>4. CASE WriterTrims
  <2> DEFINE excess == IF usbRing.count > writer.skip THEN usbRing.count - writer.skip ELSE 0
  <2>1. /\ WriterKeeps /\ UNCHANGED <<usbRing, played, stopping>> /\ thread["writer"] = "trim"
    BY <1>4 DEF WriterTrims
  <2>2. CASE excess = 0
    <3>1. ThreadGoes("writer", writer.then) /\ UNCHANGED writer
      BY <1>4, <2>2 DEF WriterTrims
    <3>2. writer.then \in WriterPlaces \ Gone /\ writer.then \in {"top", "play"}
      BY WriterTypes
    <3>3. thread'["writer"] = writer.then
      BY <3>1 DEF ThreadGoes, BridgeTypes, Threads
    <3>4. InHand' => InHand
      BY <2>1, <3>1, <3>2, <3>3 DEF InHand
    <3> QED
      BY <1>0, <2>1, <3>1, <3>2, <3>4, WriterQuiet
  <2>3. CASE excess # 0
    <3>1. ThreadGoes("writer", "discard") /\ writer' = [writer EXCEPT !.chunk = <<>>, !.skip = excess - 1, !.then = "top"]
      BY <1>4, <2>3 DEF WriterTrims
    <3>2. excess - 1 \in Nat
      BY <2>3, WriterTypes, RingTypes, BridgeAssumption DEF BridgeTypes
    <3> HIDE DEF excess
    <3>3. writer' \in WriterSet
      BY <1>0, <3>1, <3>2 DEF WriterSet
    <3>4. thread'["writer"] = "discard"
      BY <3>1 DEF ThreadGoes, BridgeTypes, Threads
    <3>5. ~InHand'
      BY <3>4 DEF InHand
    <3> QED
      BY <2>1, <3>1, <3>3, <3>5, WriterQuiet
  <2> QED
    BY <2>2, <2>3
<1> QED
  BY <1>1, <1>2, <1>3, <1>4

\* A step of the writer that takes n bytes out of the ring.
LEMMA WriterTakesOut ==
    ASSUME BridgeInv, WriterKeeps, stopping' = stopping, NEW n \in 0 .. usbRing.count,
           usbRing' = Without(usbRing, n), writer' \in WriterSet, played' \in Nat,
           NEW pc \in WriterPlaces \ Gone, thread["writer"] \notin Gone, ThreadGoes("writer", pc),
           played' + (usbRing.count - n) + packet <= fed,
           InHand' => /\ writer'.chunk # <<>>
                      /\ played' < Last(writer'.chunk)
                      /\ Last(writer'.chunk) + (usbRing.count - n) + packet <= fed
    PROVE  BridgeInv'
<1> USE DEF BridgeInv
<1>0. "writer" \in Threads /\ "reader" \in Threads /\ Threads = {"reader", "writer"}
  BY DEF Threads
<1>1. /\ thread' \in [Threads -> ReaderPlaces \cup WriterPlaces]
      /\ thread'["reader"] \in ReaderPlaces /\ thread'["writer"] \in WriterPlaces
      /\ thread'["writer"] = pc /\ thread'["reader"] = thread["reader"]
  BY <1>0, OneGoes
<1>2. /\ usbRing' \in RingSet /\ usbRing'.alive = usbRing.alive /\ usbRing'.count = usbRing.count - n
      /\ Holds(usbRing', fed - packet)
  <2>1. fed - packet \in Nat
    BY DEF RingFits, BridgeTypes
  <2> QED
    BY <2>1, WithoutHolds DEF RingFits, BridgeTypes
<1>3. BridgeTypes'
  BY <1>1, <1>2 DEF BridgeTypes, WriterKeeps
<1>4. OwnersLive' /\ StatusFits'
  BY <1>0, <1>1, <1>2, ThreadsGoOn DEF WriterKeeps, BridgeTypes
<1>5. RingFits'
  BY <1>1, <1>2 DEF RingFits, WriterKeeps
<1>6. InOrder'
  BY <1>2 DEF InOrder, WriterKeeps
<1> QED
  BY <1>3, <1>4, <1>5, <1>6

\* What the oldest bytes of the ring are: they follow what was played.
LEMMA OldestFacts ==
    ASSUME BridgeInv, NEW n \in 1 .. usbRing.count
    PROVE  /\ usbRing.data[Wrap(usbRing.tail + (n - 1))] + usbRing.count + packet = fed + n
           /\ usbRing.data[Wrap(usbRing.tail + (n - 1))] \in Nat
<1> USE DEF BridgeInv
<1>1. /\ usbRing.data \in [Cells -> Nat] /\ usbRing.tail \in Cells /\ usbRing.count \in 0 .. BridgeCapacity
      /\ fed \in Nat /\ packet \in Nat /\ packet <= fed
  BY RingTypes DEF BridgeTypes, RingFits
<1>2. n - 1 \in 0 .. usbRing.count - 1 /\ n - 1 \in Nat
  BY <1>1
<1>3. usbRing.data[Wrap(usbRing.tail + (n - 1))] + usbRing.count = fed - packet + 1 + (n - 1)
  BY <1>2 DEF RingFits, Holds
<1>4. usbRing.data[Wrap(usbRing.tail + (n - 1))] \in Nat
  <2>1. usbRing.tail + (n - 1) \in Nat
    BY <1>1, <1>2 DEF Cells
  <2>2. Wrap(usbRing.tail + (n - 1)) \in Cells
    BY <2>1, Wrapping
  <2> QED
    BY <1>1, <2>2
<1> QED
  BY <1>1, <1>3, <1>4

LEMMA StepTakes ==
    ASSUME BridgeInv, WriterTakes
    PROVE  BridgeInv'
<1> USE DEF BridgeInv, Gone, WriterPlaces
<1> DEFINE n == AtMost(usbRing.count, BridgeChunk)
           w == Oldest(usbRing, n)
<1>1. /\ usbRing.count \in 0 .. BridgeCapacity /\ fed \in Nat /\ packet \in Nat /\ played \in Nat
      /\ BridgeCapacity \in Nat \ {0} /\ BridgeChunk \in Nat \ {0} /\ writer \in WriterSet
      /\ usbRing.data \in [Cells -> Nat] /\ usbRing.tail \in Cells
  BY RingTypes, BridgeAssumption DEF BridgeTypes
<1>2. n \in 0 .. usbRing.count /\ n \in Nat
  BY <1>1 DEF AtMost
<1>3. PICK pc \in {"asleep", "empty", "handle"} : ThreadGoes("writer", pc) /\ (pc = "handle" => n # 0)
  BY <1>1, <1>2 DEF WriterTakes, MayWait
<1>4. /\ WriterKeeps /\ stopping' = stopping /\ played' = played /\ thread["writer"] = "take"
      /\ usbRing' = Without(usbRing, n) /\ writer' = [writer EXCEPT !.chunk = w]
  BY DEF WriterTakes
<1> HIDE DEF n
<1>5. w \in Seq(Nat) /\ Len(w) = n /\ (n > 0 => w[n] = usbRing.data[Wrap(usbRing.tail + (n - 1))])
  <2>1. ASSUME NEW i \in 1 .. n PROVE usbRing.data[(usbRing.tail + i - 1) % BridgeCapacity] \in Nat
    <3>1. i \in 1 .. usbRing.count
      BY <1>1, <1>2
    <3>2. usbRing.data[Wrap(usbRing.tail + (i - 1))] \in Nat
      BY <3>1, OldestFacts
    <3>3. usbRing.tail + (i - 1) = usbRing.tail + i - 1
      BY <1>1, <1>2 DEF Cells
    <3> QED
      BY <3>2, <3>3 DEF Wrap
  <2>2. w \in Seq(Nat) /\ Len(w) = n
    BY <1>2, <2>1 DEF Oldest
  <2>3. ASSUME n > 0 PROVE w[n] = usbRing.data[Wrap(usbRing.tail + (n - 1))]
    <3>1. usbRing.tail + (n - 1) = usbRing.tail + n - 1 /\ n \in 1 .. n
      BY <1>1, <1>2, <2>3 DEF Cells
    <3> QED
      BY <3>1 DEF Oldest, Wrap
  <2> QED
    BY <2>2, <2>3
<1> HIDE DEF w
<1>6. writer' \in WriterSet /\ writer'.chunk = w
  BY <1>1, <1>4, <1>5 DEF WriterSet
<1>7. thread'["writer"] = pc
  BY <1>3 DEF ThreadGoes, BridgeTypes, Threads
<1>8. ASSUME InHand'
      PROVE  /\ writer'.chunk # <<>>
             /\ played' < Last(writer'.chunk)
             /\ Last(writer'.chunk) + (usbRing.count - n) + packet <= fed
  <2>1. n \in 1 .. usbRing.count
    BY <1>1, <1>2, <1>3, <1>7, <1>8 DEF InHand
  <2>2. Last(writer'.chunk) = usbRing.data[Wrap(usbRing.tail + (n - 1))]
    BY <1>5, <1>6, <2>1 DEF Last
  <2>3. PICK v \in Nat : v = Last(writer'.chunk) /\ v + usbRing.count + packet = fed + n
    BY <2>1, <2>2, OldestFacts
  <2>4. w # <<>>
    BY <1>5, <2>1
  <2>5. played < v /\ v + (usbRing.count - n) + packet <= fed
    BY <1>1, <1>2, <2>1, <2>3 DEF InOrder
  <2> QED
    BY <1>4, <1>6, <2>3, <2>4, <2>5
<1>9. played' + (usbRing.count - n) + packet <= fed
  BY <1>1, <1>2, <1>4 DEF InOrder
<1> QED
  BY <1>1, <1>2, <1>3, <1>4, <1>6, <1>8, <1>9, WriterTakesOut

LEMMA StepDiscards ==
    ASSUME BridgeInv, WriterDiscards \/ WriterFades \/ WriterPlays
    PROVE  BridgeInv'
<1> USE DEF BridgeInv, Gone, WriterPlaces
<1>1. /\ usbRing.count \in 0 .. BridgeCapacity /\ fed \in Nat /\ packet \in Nat /\ played \in Nat
      /\ BridgeCapacity \in Nat \ {0} /\ writer \in WriterSet /\ writer.skip \in Nat
      /\ <<>> \in Seq(Nat) /\ usbRing.tail \in Cells
  BY RingTypes, WriterTypes, BridgeAssumption DEF BridgeTypes
<1>2. CASE WriterDiscards
  <2> DEFINE n == AtMost(usbRing.count, writer.skip)
  <2>1. n \in 0 .. usbRing.count
    BY <1>1 DEF AtMost
  <2>2. /\ WriterKeeps /\ stopping' = stopping /\ played' = played /\ thread["writer"] = "discard"
        /\ usbRing' = Without(usbRing, n) /\ writer' = [writer EXCEPT !.skip = 0] /\ ThreadGoes("writer", "fade")
    BY <1>2 DEF WriterDiscards
  <2> HIDE DEF n
  <2>3. writer' \in WriterSet
    BY <1>1, <2>2 DEF WriterSet
  <2>4. thread'["writer"] = "fade"
    BY <2>2 DEF ThreadGoes, BridgeTypes, Threads
  <2>5. ~InHand'
    BY <2>4 DEF InHand
  <2>6. played' + (usbRing.count - n) + packet <= fed
    BY <1>1, <2>1, <2>2 DEF InOrder
  <2> QED
    BY <1>1, <2>1, <2>2, <2>3, <2>5, <2>6, WriterTakesOut
<1>3. CASE WriterFades
  <2> DEFINE n == AtMost(usbRing.count, 1)
  <2>1. n \in 0 .. usbRing.count /\ (usbRing.count > 0 => n = 1) /\ (usbRing.count = 0 => n = 0)
    BY <1>1 DEF AtMost
  <2>2. /\ WriterKeeps /\ stopping' = stopping /\ writer' = writer /\ thread["writer"] = "fade"
        /\ usbRing' = Without(usbRing, n) /\ ThreadGoes("writer", "top")
        /\ played' = IF usbRing.count > 0 THEN usbRing.data[usbRing.tail] ELSE played
    BY <1>3 DEF WriterFades
  <2> HIDE DEF n
  <2>3. thread'["writer"] = "top"
    BY <2>2 DEF ThreadGoes, BridgeTypes, Threads
  <2>4. ~InHand'
    BY <2>3 DEF InHand
  <2>5. played' \in Nat /\ played' + (usbRing.count - n) + packet <= fed
    <3>1. CASE usbRing.count > 0
      <4>1. usbRing.tail \in Nat /\ usbRing.tail < BridgeCapacity
        BY <1>1 DEF Cells
      <4>2. Wrap(usbRing.tail) = usbRing.tail
        BY <1>1, <4>1, Wrapping
      <4>3. usbRing.tail + (1 - 1) = usbRing.tail /\ 1 \in 1 .. usbRing.count
        BY <1>1, <4>1, <3>1
      <4>4. /\ usbRing.data[Wrap(usbRing.tail + (1 - 1))] + usbRing.count + packet = fed + 1
            /\ usbRing.data[Wrap(usbRing.tail + (1 - 1))] \in Nat
        BY <4>3, OldestFacts
      <4>5. played' \in Nat /\ played' + usbRing.count + packet = fed + 1
        BY <2>2, <3>1, <4>2, <4>3, <4>4
      <4> QED
        BY <1>1, <2>1, <3>1, <4>5
    <3>2. CASE usbRing.count = 0
      BY <1>1, <2>1, <2>2, <3>2 DEF InOrder
    <3> QED
      BY <1>1, <3>1, <3>2
  <2> QED
    BY <1>1, <2>1, <2>2, <2>4, <2>5, WriterTakesOut
<1>4. CASE WriterPlays
  <2>1. /\ WriterKeeps /\ stopping' = stopping /\ thread["writer"] = "play" /\ usbRing' = usbRing
        /\ played' = Last(writer.chunk)
    BY <1>4 DEF WriterPlays, Last
  <2>2. PICK pc \in {"top", "trim"} : ThreadGoes("writer", pc)
    BY <1>4 DEF WriterPlays
  <2>3. writer' \in WriterSet /\ (writer'.then = "top" \/ pc = "top")
    <3>1. CASE pc = "top" /\ writer' = [writer EXCEPT !.chunk = <<>>]
      BY <1>1, <3>1 DEF WriterSet
    <3>2. CASE writer' = [writer EXCEPT !.chunk = <<>>, !.skip = PeriodicReserve, !.then = "top"]
      <4>1. writer' \in WriterSet
        BY <1>1, <3>2, WriterTypes DEF WriterSet
      <4>2. writer'.then = "top"
        BY <1>1, <3>2 DEF WriterSet
      <4> QED
        BY <4>1, <4>2
    <3> QED
      BY <1>4, <2>2, <3>1, <3>2 DEF WriterPlays, ThreadGoes, BridgeTypes, Threads
  <2>4. thread'["writer"] = pc
    BY <2>2 DEF ThreadGoes, BridgeTypes, Threads
  <2>5. ~InHand'
    BY <2>3, <2>4 DEF InHand
  <2>6. /\ writer.chunk # <<>> /\ Last(writer.chunk) + usbRing.count + packet <= fed
    BY <2>1 DEF InOrder, InHand
  <2>7. Last(writer.chunk) \in Nat
    <3>1. Len(writer.chunk) \in 1 .. Len(writer.chunk)
      BY <2>6, WriterTypes
    <3> QED
      BY <3>1, WriterTypes DEF Last
  <2>8. BridgeTypes' /\ OwnersLive' /\ StatusFits' /\ RingFits'
    <3>0. "writer" \in Threads /\ "reader" \in Threads /\ Threads = {"reader", "writer"}
      BY DEF Threads
    <3>1. /\ thread' \in [Threads -> ReaderPlaces \cup WriterPlaces]
          /\ thread'["reader"] \in ReaderPlaces /\ thread'["writer"] \in WriterPlaces
          /\ thread'["writer"] = pc /\ thread'["reader"] = thread["reader"]
      BY <2>2, <3>0, OneGoes
    <3>2. BridgeTypes'
      BY <2>1, <2>3, <2>7, <3>1 DEF BridgeTypes, WriterKeeps
    <3>3. OwnersLive' /\ StatusFits'
      BY <2>1, <3>0, <3>1, ThreadsGoOn DEF WriterKeeps, BridgeTypes
    <3>4. RingFits'
      BY <2>1, <3>1 DEF RingFits, WriterKeeps
    <3> QED
      BY <3>2, <3>3, <3>4
  <2>9. InOrder'
    BY <2>1, <2>5, <2>6 DEF InOrder, WriterKeeps
  <2> QED
    BY <2>8, <2>9
<1> QED
  BY <1>2, <1>3, <1>4

\* The reader's steps.
LEMMA StepReader ==
    ASSUME BridgeInv, ReaderOpens \/ ReaderPolls \/ ReaderPushes
    PROVE  BridgeInv'
<1> USE DEF BridgeInv, Gone, ReaderPlaces
<1>0. "writer" \in Threads /\ "reader" \in Threads /\ Threads = {"reader", "writer"}
  BY DEF Threads
<1>a. fed \in Nat /\ packet \in Nat /\ played \in Nat /\ packet <= fed /\ usbRing \in RingSet
      /\ usbRing.count \in Nat
  BY RingTypes, BridgeAssumption DEF BridgeTypes, RingFits
<1>1. CASE ReaderOpens \/ ReaderPolls
  <2>1. PICK pc \in {"signal", "poll", "push"} : ThreadGoes("reader", pc)
    <3>1. CASE UNCHANGED thread /\ thread["reader"] = "poll"
      <4>1. ThreadGoes("reader", "poll")
        BY <3>1 DEF ThreadGoes, BridgeTypes, Threads
      <4> QED
        BY <4>1
    <3> QED
      BY <1>1, <3>1 DEF ReaderOpens, ReaderPolls
  <2>2. /\ thread' \in [Threads -> ReaderPlaces \cup WriterPlaces]
        /\ thread'["reader"] \in ReaderPlaces /\ thread'["writer"] \in WriterPlaces
        /\ thread'["reader"] = pc /\ thread'["writer"] = thread["writer"]
    BY <1>0, <2>1, OneGoes
  <2>3. /\ thread["reader"] \in {"open", "poll"} /\ packet = 0
        /\ UNCHANGED <<usbRing, ctl, created, running, stopping, rate, writer, played>>
    BY <1>1 DEF ReaderOpens, ReaderPolls, RingFits
  <2>4. bridge'.running = bridge.running /\ bridge' \in [running : BOOLEAN, streaming : BOOLEAN]
    BY <1>1 DEF ReaderOpens, ReaderPolls, BridgeTypes
  <2>5. /\ fed' \in Nat /\ packet' \in Nat /\ fed' - packet' = fed - packet /\ packet' <= fed'
        /\ thread'["reader"] # "push" => packet' = 0
    <3>1. CASE UNCHANGED <<packet, fed>>
      BY <1>a, <2>3, <3>1
    <3>2. CASE ~UNCHANGED <<packet, fed>>
      <4>1. PICK n \in 1 .. MaxPacket : fed' = fed + n /\ packet' = n /\ ThreadGoes("reader", "push")
        BY <1>1, <3>2 DEF ReaderOpens, ReaderPolls
      <4>2. n \in Nat
        BY BridgeAssumption
      <4>3. thread'["reader"] = "push"
        BY <4>1 DEF ThreadGoes, BridgeTypes, Threads
      <4> QED
        BY <1>a, <2>3, <4>1, <4>2, <4>3
    <3> QED
      BY <3>1, <3>2
  <2>6. BridgeTypes'
    BY <2>2, <2>3, <2>4, <2>5 DEF BridgeTypes
  <2>7. OwnersLive' /\ StatusFits'
    BY <1>0, <2>2, <2>3, <2>4, ThreadsGoOn DEF BridgeTypes
  <2>8. RingFits'
    BY <2>3, <2>5 DEF RingFits
  <2>9. InOrder'
    <3>1. InHand' <=> InHand
      BY <2>2, <2>3 DEF InHand
    <3>2. ASSUME NEW v \in Nat, v + usbRing.count + packet <= fed
          PROVE  v + usbRing'.count + packet' <= fed'
      <4>1. usbRing'.count = usbRing.count
        BY <2>3
      <4>2. ASSUME NEW c \in Nat, v + c + packet <= fed
            PROVE  v + c + packet' <= fed'
        <5>1. ASSUME NEW f \in Nat, NEW k \in Nat, f - k = fed - packet
              PROVE  v + c + k <= f
          BY <1>a, <4>2, <5>1
        <5> QED
          BY <2>5, <5>1
      <4> QED
        BY <1>a, <3>2, <4>1, <4>2
    <3>3. ASSUME InHand PROVE Last(writer.chunk) \in Nat
      <4>1. writer.chunk # <<>>
        BY <3>3 DEF InOrder
      <4>2. Len(writer.chunk) \in 1 .. Len(writer.chunk)
        BY <4>1, WriterTypes
      <4> QED
        BY <4>2, WriterTypes DEF Last
    <3> QED
      BY <1>a, <2>3, <3>1, <3>2, <3>3 DEF InOrder
  <2> QED
    BY <2>6, <2>7, <2>8, <2>9
<1>2. CASE ReaderPushes
  <2> DEFINE first == fed - packet + 1
             w == ring_buffer_write_drop_oldest(usbRing, first, packet)
  <2>1. /\ UNCHANGED <<ctl, created, running, stopping, bridge, writer, fed, played>>
        /\ usbRing' = w /\ packet' = 0 /\ thread["reader"] = "push"
        /\ thread' = [reader |-> "poll", writer |-> Woken]
    BY <1>2 DEF ReaderPushes
  <2>2. rate' \in [confirmed : {0, 1}, once : BOOLEAN]
    <3>1. CASE \E r \in {0, 1} : rate' = [confirmed |-> r, once |-> TRUE]
      BY <3>1
    <3>2. CASE rate' = rate
      BY <3>2 DEF BridgeTypes
    <3> QED
      BY <1>2, <3>1, <3>2 DEF ReaderPushes
  <2>3. /\ w \in RingSet /\ w.alive = usbRing.alive /\ w.count <= usbRing.count + packet /\ Holds(w, fed)
    <3>1. first \in Nat \ {0} /\ first - 1 = fed - packet /\ first + packet - 1 = fed
      BY <1>a
    <3>2. Holds(usbRing, first - 1)
      BY <3>1 DEF RingFits
    <3> HIDE DEF first
    <3>3. /\ w \in RingSet /\ w.alive = usbRing.alive /\ w.count <= usbRing.count + packet
          /\ Holds(w, first + packet - 1)
      BY <1>a, <3>1, <3>2, PushHolds
    <3> QED
      BY <3>1, <3>3
  <2> HIDE DEF first, w
  <2>4. /\ Woken \in WriterPlaces
        /\ thread["writer"] \in Gone => Woken = thread["writer"]
        /\ thread["writer"] \notin Gone => Woken \notin Gone
        /\ Woken # thread["writer"] => Woken = "take"
    BY DEF Woken, BridgeTypes, WriterPlaces
  <2>5. /\ thread' \in [Threads -> ReaderPlaces \cup WriterPlaces]
        /\ thread'["reader"] = "poll" /\ thread'["writer"] = Woken
    BY <1>0, <2>1, <2>4
  <2>6. BridgeTypes'
    BY <2>1, <2>2, <2>3, <2>4, <2>5 DEF BridgeTypes
  <2>7. OwnersLive' /\ StatusFits'
    BY <1>0, <2>1, <2>3, <2>4, <2>5, ThreadsGoOn
  <2>8. RingFits'
    <3>1. fed - 0 = fed /\ 0 <= fed
      BY <1>a
    <3> QED
      BY <2>1, <2>3, <3>1 DEF RingFits
  <2>9. InOrder'
    <3>1. InHand' => InHand
      BY <2>1, <2>4, <2>5 DEF InHand
    <3>2. w.count \in Nat
      BY <2>3, RingTypes, BridgeAssumption
    <3>3. \A v \in Nat : v + usbRing.count + packet <= fed => v + w.count + 0 <= fed
      BY <1>a, <2>3, <3>2
    <3>4. ASSUME InHand PROVE Last(writer.chunk) \in Nat
      <4>1. writer.chunk # <<>>
        BY <3>4 DEF InOrder
      <4>2. Len(writer.chunk) \in 1 .. Len(writer.chunk)
        BY <4>1, WriterTypes
      <4> QED
        BY <4>2, WriterTypes DEF Last
    <3> QED
      BY <1>a, <2>1, <3>1, <3>3, <3>4 DEF InOrder
  <2> QED
    BY <2>6, <2>7, <2>8, <2>9
<1> QED
  BY <1>1, <1>2

\* ring_buffer_signal_finished(), by either thread.
LEMMA StepSignals ==
    ASSUME BridgeInv, ReaderSignals \/ WriterSignals
    PROVE  BridgeInv'
<1> USE DEF BridgeInv, Gone, ReaderPlaces, WriterPlaces
<1>0. "writer" \in Threads /\ "reader" \in Threads /\ Threads = {"reader", "writer"}
  BY DEF Threads
<1>1. /\ UNCHANGED <<ctl, created, running, stopping, bridge, rate, packet, writer, fed, played>>
      /\ usbRing' = Finished(usbRing)
  BY DEF ReaderSignals, WriterSignals, WriterKeeps
<1>2. /\ usbRing' \in RingSet /\ usbRing'.count = usbRing.count /\ usbRing'.alive = usbRing.alive
      /\ Holds(usbRing', fed - packet)
  BY <1>1, FinishedHolds DEF BridgeTypes, RingFits
<1>3. /\ thread' \in [Threads -> ReaderPlaces \cup WriterPlaces]
      /\ thread'["reader"] \in ReaderPlaces /\ thread'["writer"] \in WriterPlaces
      /\ thread["reader"] \in Gone => thread'["reader"] = thread["reader"]
      /\ thread["writer"] \in Gone => thread'["writer"] = thread["writer"]
      /\ thread["reader"] \notin Gone => thread'["reader"] \notin Gone
      /\ thread["writer"] \notin Gone => thread'["writer"] \notin Gone
      /\ thread'["reader"] # "push" => thread["reader"] # "push"
      /\ thread'["writer"] # thread["writer"] => thread'["writer"] \in {"take", "publish"}
  <2>1. CASE ReaderSignals
    <3>1. thread["reader"] = "signal" /\ thread' = [reader |-> "publish", writer |-> IF usbRing.alive THEN Woken ELSE thread["writer"]]
      BY <2>1 DEF ReaderSignals
    <3>2. thread'["reader"] = "publish" /\ thread'["writer"] \in {thread["writer"], Woken}
      BY <3>1
    <3>3. thread' \in [Threads -> ReaderPlaces \cup WriterPlaces]
      BY <1>0, <3>1 DEF Woken, BridgeTypes
    <3> QED
      BY <3>1, <3>2, <3>3 DEF Woken, BridgeTypes
  <2>2. CASE WriterSignals
    <3>1. thread["writer"] = "signal" /\ ThreadGoes("writer", "publish")
      BY <2>2 DEF WriterSignals
    <3>2. /\ thread' \in [Threads -> ReaderPlaces \cup WriterPlaces]
          /\ thread'["reader"] \in ReaderPlaces /\ thread'["writer"] \in WriterPlaces
          /\ thread'["writer"] = "publish" /\ thread'["reader"] = thread["reader"]
      BY <1>0, <3>1, OneGoes
    <3> QED
      BY <3>1, <3>2
  <2> QED
    BY <2>1, <2>2
<1>4. BridgeTypes'
  BY <1>1, <1>2, <1>3 DEF BridgeTypes
<1>5. OwnersLive' /\ StatusFits'
  <2>1. \A t \in Threads : /\ thread[t] \in Gone => thread'[t] = thread[t]
                           /\ thread[t] \notin Gone => thread'[t] \notin Gone
    BY <1>0, <1>3
  <2>2. /\ UNCHANGED <<ctl, created, running>> /\ usbRing'.alive = usbRing.alive
        /\ (stopping => stopping') /\ bridge'.running = bridge.running
    BY <1>1, <1>2
  <2> HIDE DEF BridgeInv, Gone
  <2> QED
    BY <2>1, <2>2, ThreadsGoOn
<1>6. RingFits'
  BY <1>1, <1>2, <1>3 DEF RingFits
<1>7. InOrder'
  <2>1. InHand' => InHand
    BY <1>1, <1>3 DEF InHand
  <2> QED
    BY <1>1, <1>2, <2>1 DEF InOrder
<1> QED
  BY <1>4, <1>5, <1>6, <1>7

\* A thread's end: the flag, then the status.
LEMMA StepEnds ==
    ASSUME BridgeInv, NEW t \in Threads, Publishes(t) \/ Updates(t)
    PROVE  BridgeInv'
<1> USE DEF BridgeInv, ReaderPlaces, WriterPlaces
<1>0. "writer" \in Threads /\ "reader" \in Threads /\ Threads = {"reader", "writer"}
  BY DEF Threads
<1>1. /\ UNCHANGED <<usbRing, ctl, created, stopping, rate, packet, writer, fed, played>> /\ ctl.at # "create"
  BY DEF Publishes, Updates, BridgeMutexFree
<1>2. PICK pc \in {"update", "ended"} : /\ ThreadGoes(t, pc)
                                        /\ pc = "update" => Publishes(t)
                                        /\ pc = "ended" => Updates(t)
  BY DEF Publishes, Updates
<1>3. /\ thread' \in [Threads -> ReaderPlaces \cup WriterPlaces]
      /\ thread'["reader"] \in ReaderPlaces /\ thread'["writer"] \in WriterPlaces
      /\ thread'[t] = pc /\ \A u \in Threads : u # t => thread'[u] = thread[u]
  BY <1>0, <1>2, OneGoes
<1>4. thread[t] \in {"publish", "update"}
  BY DEF Publishes, Updates
<1>5. /\ bridge' \in [running : BOOLEAN, streaming : BOOLEAN]
      /\ bridge'.running => \/ bridge'.running = bridge.running /\ pc = "update"
                            \/ ~stopping /\ \E u \in Threads : running[u]
  <2>1. CASE Publishes(t)
    BY <1>2, <1>3, <2>1 DEF Publishes, BridgeTypes, Updates
  <2>2. CASE Updates(t)
    BY <2>2 DEF Updates, update_bridge_running_state, BridgeTypes
  <2> QED
    BY <2>1, <2>2
<1>6. /\ running' \in [Threads -> BOOLEAN]
      /\ \A u \in Threads : running'[u] <=> thread'[u] \notin {"none", "update", "ended"}
  <2>1. CASE pc = "update"
    <3>1. running' = [running EXCEPT ![t] = FALSE]
      BY <1>2, <2>1 DEF Publishes
    <3> QED
      BY <1>3, <2>1, <3>1 DEF BridgeTypes, OwnersLive
  <2>2. CASE pc = "ended"
    <3>1. running' = running /\ thread[t] = "update"
      BY <1>2, <2>2 DEF Updates
    <3> QED
      BY <1>3, <2>2, <3>1 DEF BridgeTypes, OwnersLive
  <2> QED
    BY <2>1, <2>2
<1>7. BridgeTypes'
  BY <1>1, <1>3, <1>5, <1>6 DEF BridgeTypes
<1>8. OwnersLive'
  BY <1>1, <1>3, <1>4, <1>6 DEF OwnersLive
<1>9. StatusFits'
  <2>1. ctl.at \in {"wake", "wait", "join", "rollback"} => ~bridge'.running
    BY <1>5 DEF StatusFits, BridgeTypes
  <2>2. ASSUME bridge'.running, ctl.at \notin {"create", "clear"}
        PROVE  \E u \in Threads : thread'[u] \notin {"none", "ended"}
    <3>1. CASE pc = "update"
      BY <1>3, <3>1
    <3>2. CASE pc = "ended"
      <4>1. PICK u \in Threads : running[u]
        BY <1>5, <2>2, <3>2
      <4>2. thread[u] \notin {"none", "update", "ended"} /\ thread[t] = "update"
        BY <1>2, <3>2, <4>1 DEF OwnersLive, Updates
      <4> QED
        BY <1>3, <4>2
    <3> QED
      BY <3>1, <3>2
  <2> QED
    BY <1>1, <2>1, <2>2 DEF StatusFits
<1>10. RingFits'
  BY <1>0, <1>1, <1>3, <1>4 DEF RingFits
<1>11. InOrder'
  <2>1. InHand' => InHand
    BY <1>0, <1>1, <1>2, <1>3 DEF InHand
  <2> QED
    BY <1>1, <2>1 DEF InOrder
<1> QED
  BY <1>7, <1>8, <1>9, <1>10, <1>11
-----------------------------------------------------------------------------
\* start and stop

\* A thread that may be joined has got to its end, or there is none.
LEMMA JoinableIsGone ==
    ASSUME BridgeInv, NEW t \in Threads, Joinable(t)
    PROVE  thread[t] \in {"none", "ended"} /\ ~running[t]
<1>1. thread[t] \in {"none", "ended"}
  BY DEF BridgeInv, OwnersLive, Joinable
<1> QED
  BY <1>1 DEF BridgeInv, OwnersLive

\* What start and stop do before and between joining: the status, and waking
\* the writer.
LEMMA StepAsks ==
    ASSUME BridgeInv, StartCalls \/ StopCalls \/ StopClears \/ StopWakes \/ StopWaits
    PROVE  BridgeInv'
<1> USE DEF BridgeInv, Gone
<1>0. "writer" \in Threads /\ "reader" \in Threads /\ Threads = {"reader", "writer"}
  BY DEF Threads
<1>1. UNCHANGED <<usbRing, created, running, rate, writer, packet, fed, played>>
  BY DEF StartCalls, StopCalls, StopClears, StopWakes, StopWaits, CtlKeeps
<1>2. /\ thread' \in [Threads -> ReaderPlaces \cup WriterPlaces]
      /\ thread'["reader"] = thread["reader"]
      /\ thread'["writer"] \in WriterPlaces
      /\ \/ thread'["writer"] = thread["writer"]
         \/ thread["writer"] = "asleep" /\ thread'["writer"] = "take"
  <2>1. CASE StartCalls \/ StopCalls \/ StopClears \/ StopWaits
    BY <2>1 DEF StartCalls, StopCalls, StopClears, StopWaits, BridgeTypes
  <2>2. CASE StopWakes
    <3>1. PICK pc \in {thread["writer"], Woken} : thread' = [thread EXCEPT !["writer"] = pc]
      BY <2>2 DEF StopWakes
    <3>2. pc \in WriterPlaces /\ (pc = thread["writer"] \/ (thread["writer"] = "asleep" /\ pc = "take"))
      BY DEF Woken, BridgeTypes, WriterPlaces
    <3> QED
      BY <1>0, <3>1, <3>2 DEF BridgeTypes
  <2> QED
    BY <2>1, <2>2
<1>3. \A t \in Threads : /\ thread'[t] = "none" <=> thread[t] = "none"
                         /\ thread'[t] = "ended" <=> thread[t] = "ended"
                         /\ thread'[t] = "update" <=> thread[t] = "update"
  BY <1>0, <1>2
<1>4. /\ ctl' \in [at : CtlPlaces, done : [Threads -> BOOLEAN]]
      /\ stopping' \in BOOLEAN /\ bridge' \in [running : BOOLEAN, streaming : BOOLEAN]
  <2>1. CASE StartCalls \/ StopCalls \/ StopClears
    <3>1. PICK pc \in CtlPlaces : ctl' = [ctl EXCEPT !.at = pc]
      BY <2>1 DEF StartCalls, StopCalls, StopClears, CtlGoes, CtlPlaces
    <3>2. ctl' \in [at : CtlPlaces, done : [Threads -> BOOLEAN]]
      BY <3>1 DEF BridgeTypes
    <3>3. (stopping' = stopping \/ stopping' = TRUE)
      BY <2>1 DEF StartCalls, StopCalls, StopClears
    <3>4. (bridge' = bridge \/ bridge' = [running |-> FALSE, streaming |-> FALSE])
      BY <2>1 DEF StartCalls, StopCalls, StopClears
    <3>a. [running |-> FALSE, streaming |-> FALSE] \in [running : BOOLEAN, streaming : BOOLEAN]
      OBVIOUS
    <3>b. bridge \in [running : BOOLEAN, streaming : BOOLEAN]
      BY DEF BridgeTypes
    <3>5. bridge' \in [running : BOOLEAN, streaming : BOOLEAN]
      BY <3>4, <3>a, <3>b, Zenon
    <3>6. stopping' \in BOOLEAN
      BY <3>3 DEF BridgeTypes
    <3> QED
      BY <3>2, <3>5, <3>6
  <2>2. CASE StopWakes
    <3>1. ctl' = [at |-> "wait", done |-> [t \in Threads |-> ~created[t]]]
      BY <2>2 DEF StopWakes
    <3>2. [t \in Threads |-> ~created[t]] \in [Threads -> BOOLEAN]
      OBVIOUS
    <3> QED
      BY <2>2, <3>1, <3>2 DEF StopWakes, BridgeTypes, CtlPlaces
  <2>3. CASE StopWaits
    <3> DEFINE done == [t \in Threads |-> ctl.done[t] \/ ~running[t]]
    <3>1. done \in [Threads -> BOOLEAN]
      OBVIOUS
    <3>2. ctl' = [ctl EXCEPT !.done = done] \/ ctl' = [at |-> "join", done |-> done]
      BY <2>3 DEF StopWaits
    <3> HIDE DEF done
    <3> QED
      BY <2>3, <3>1, <3>2 DEF StopWaits, BridgeTypes, CtlPlaces
  <2> QED
    BY <2>1, <2>2, <2>3
<1>5. BridgeTypes'
  BY <1>1, <1>2, <1>4 DEF BridgeTypes
<1>6. OwnersLive'
  BY <1>1, <1>3 DEF OwnersLive
<1>7. StatusFits'
  <2>1. CASE StartCalls
    <3>1. ctl'.at = "start" /\ ~bridge.running /\ bridge' = bridge
      BY <2>1 DEF StartCalls, CtlGoes, BridgeTypes
    <3> QED
      BY <3>1 DEF StatusFits
  <2>2. CASE StopCalls
    <3>1. ctl'.at = "clear" /\ stopping'
      BY <2>2 DEF StopCalls, CtlGoes, BridgeTypes
    <3> QED
      BY <3>1 DEF StatusFits
  <2>3. CASE StopClears
    <3>1. ctl'.at = "wake" /\ stopping' /\ ~bridge'.running
      BY <2>3 DEF StopClears, CtlGoes, BridgeTypes, StatusFits
    <3> QED
      BY <3>1 DEF StatusFits
  <2>4. CASE StopWakes \/ StopWaits
    <3>1. ctl.at \in {"wake", "wait"} /\ ctl'.at \in {"wait", "join"} /\ stopping' = stopping /\ bridge' = bridge
      BY <2>4 DEF StopWakes, StopWaits, BridgeTypes
    <3> QED
      BY <3>1 DEF StatusFits
  <2> QED
    BY <2>1, <2>2, <2>3, <2>4
<1>8. RingFits'
  BY <1>1, <1>2 DEF RingFits
<1>9. InOrder'
  <2>1. InHand' => InHand
    BY <1>1, <1>2 DEF InHand
  <2> QED
    BY <1>1, <2>1 DEF InOrder
<1> QED
  BY <1>5, <1>6, <1>7, <1>8, <1>9

\* An empty ring in the place of the old one, where the writer has nothing in
\* hand and the reader has pushed.
LEMMA EmptiedFits ==
    ASSUME BridgeInv, UNCHANGED <<packet, fed, played>>, usbRing' \in {NoRing, NewRing}, ~InHand',
           thread["reader"] # "push"
    PROVE  usbRing' \in RingSet /\ RingFits' /\ InOrder'
<1> USE DEF BridgeInv
<1>1. usbRing' \in RingSet /\ usbRing'.count = 0 /\ Holds(usbRing', fed' - packet')
  BY EmptyHolds
<1>2. RingFits'
  BY <1>1 DEF RingFits
<1>3. played + usbRing.count + packet <= fed /\ usbRing.count \in Nat /\ played \in Nat /\ packet \in Nat /\ fed \in Nat
  BY RingTypes, BridgeAssumption DEF BridgeTypes, InOrder
<1>4. played + 0 + packet <= fed
  BY <1>3
<1> QED
  BY <1>1, <1>2, <1>4 DEF InOrder

\* Joining: those that are done are gone, and the ring with the last of them.
LEMMA Joining ==
    ASSUME BridgeInv, NEW done \in [Threads -> BOOLEAN], \A t \in Threads : done[t] => Joinable(t),
           created' = [t \in Threads |-> created[t] /\ ~done[t]],
           thread' = [t \in Threads |-> IF done[t] THEN "none" ELSE thread[t]],
           usbRing' = usbRing \/ (usbRing' = NoRing /\ \A t \in Threads : ~created'[t]),
           UNCHANGED <<running, stopping, rate, writer, packet, fed, played>>,
           bridge' \in [running : BOOLEAN, streaming : BOOLEAN], ~bridge'.running,
           ctl' \in [at : CtlPlaces, done : [Threads -> BOOLEAN]], ctl'.at = "idle"
    PROVE  BridgeInv'
<1> USE DEF BridgeInv
<1>0. "writer" \in Threads /\ "reader" \in Threads /\ Threads = {"reader", "writer"}
  BY DEF Threads
<1>1. \A t \in Threads : done[t] => thread[t] \in {"none", "ended"} /\ ~running[t]
  BY JoinableIsGone
<1>2. \A t \in Threads : thread'[t] = IF done[t] THEN "none" ELSE thread[t]
  OBVIOUS
<1>3. /\ thread' \in [Threads -> ReaderPlaces \cup WriterPlaces]
      /\ thread'["reader"] \in ReaderPlaces /\ thread'["writer"] \in WriterPlaces
  BY <1>0, <1>2 DEF BridgeTypes, ReaderPlaces, WriterPlaces
<1>4. created' \in [Threads -> BOOLEAN]
  OBVIOUS
<1>5. OwnersLive'
  <2>1. ASSUME NEW t \in Threads
        PROVE  /\ created'[t] <=> thread'[t] # "none"
               /\ created'[t] => usbRing'.alive
               /\ running'[t] <=> thread'[t] \notin {"none", "update", "ended"}
    BY <1>1, <1>2 DEF OwnersLive
  <2> QED
    BY <2>1 DEF OwnersLive
<1>6. StatusFits'
  BY DEF StatusFits
<1>7. /\ thread'["reader"] = "push" <=> thread["reader"] = "push"
      /\ InHand' => InHand
      /\ (\A t \in Threads : ~created'[t]) => thread["reader"] # "push" /\ ~InHand'
  <2>1. thread'["reader"] = "push" <=> thread["reader"] = "push"
    BY <1>0, <1>1, <1>2
  <2>2. InHand' => InHand
    BY <1>0, <1>2 DEF InHand
  <2>3. ASSUME \A t \in Threads : ~created'[t] PROVE thread'["reader"] = "none" /\ thread'["writer"] = "none"
    BY <1>0, <1>5, <2>3 DEF OwnersLive
  <2> QED
    BY <2>1, <2>2, <2>3 DEF InHand
<1>8. usbRing' \in RingSet /\ RingFits' /\ InOrder'
  <2>1. CASE usbRing' = usbRing
    BY <1>7, <2>1 DEF RingFits, InOrder, BridgeTypes
  <2>2. CASE usbRing' = NoRing /\ \A t \in Threads : ~created'[t]
    BY <1>7, <2>2, EmptiedFits
  <2> QED
    BY <2>1, <2>2
<1>9. BridgeTypes'
  BY <1>3, <1>4, <1>8 DEF BridgeTypes
<1> QED
  BY <1>5, <1>6, <1>8, <1>9

\* The ends of stop, of a start that is taken back, and of one that failed.
LEMMA StepJoins ==
    ASSUME BridgeInv, StopJoins \/ StartRollsBack
    PROVE  BridgeInv'
<1> USE DEF BridgeInv
<1>0. "writer" \in Threads /\ "reader" \in Threads /\ Threads = {"reader", "writer"}
  BY DEF Threads
<1>1. ctl' \in [at : CtlPlaces, done : [Threads -> BOOLEAN]] /\ ctl'.at = "idle"
  BY DEF StopJoins, StartRollsBack, CtlGoes, BridgeTypes, CtlPlaces
<1>2. /\ UNCHANGED <<running, stopping, rate, writer, packet, fed, played>>
      /\ bridge' = bridge /\ ctl.at \in {"join", "rollback"}
  BY DEF StopJoins, StartRollsBack, CtlKeeps
<1>3. bridge' \in [running : BOOLEAN, streaming : BOOLEAN] /\ ~bridge'.running
  BY <1>2 DEF BridgeTypes, StatusFits
<1>4. CASE StopJoins
  <2>1. ctl.done \in [Threads -> BOOLEAN]
    BY DEF BridgeTypes
  <2>2. /\ \A t \in Threads : ctl.done[t] => Joinable(t)
        /\ created' = [t \in Threads |-> created[t] /\ ~ctl.done[t]]
        /\ thread' = [t \in Threads |-> IF ctl.done[t] THEN "none" ELSE thread[t]]
        /\ usbRing' = usbRing \/ (usbRing' = NoRing /\ \A t \in Threads : ~created'[t])
    BY <1>4 DEF StopJoins
  <2> HIDE DEF BridgeInv
  <2> QED
    BY <1>1, <1>2, <1>3, <2>1, <2>2, Joining
<1>5. CASE StartRollsBack
  <2> DEFINE done == [t \in Threads |-> TRUE]
  <2>1. done \in [Threads -> BOOLEAN] /\ \A t \in Threads : done[t]
    OBVIOUS
  <2>2. /\ \A t \in Threads : Joinable(t)
        /\ created' = [t \in Threads |-> FALSE] /\ thread' = [t \in Threads |-> "none"]
        /\ usbRing' = NoRing
    BY <1>5 DEF StartRollsBack
  <2>3. /\ created' = [t \in Threads |-> created[t] /\ ~done[t]]
        /\ thread' = [t \in Threads |-> IF done[t] THEN "none" ELSE thread[t]]
        /\ \A t \in Threads : ~created'[t]
    BY <2>2
  <2> HIDE DEF done, BridgeInv
  <2> QED
    BY <1>1, <1>2, <1>3, <2>1, <2>2, <2>3, Joining
<1> QED
  BY <1>4, <1>5

\* start: the old threads joined, a new ring and a reader, or nothing.
LEMMA StepCreatesReader ==
    ASSUME BridgeInv, StartCreatesReader
    PROVE  BridgeInv'
<1> USE DEF BridgeInv
<1>0. "writer" \in Threads /\ "reader" \in Threads /\ Threads = {"reader", "writer"}
  BY DEF Threads
<1>1. /\ UNCHANGED <<packet, fed, played>> /\ \A t \in Threads : Joinable(t)
  BY DEF StartCreatesReader, CtlKeeps
<1>2. \A t \in Threads : thread[t] \in {"none", "ended"} /\ ~running[t]
  BY <1>1, JoinableIsGone
<1>3. CASE usbRing' = NoRing
  <2> DEFINE done == [t \in Threads |-> TRUE]
  <2>1. done \in [Threads -> BOOLEAN] /\ \A t \in Threads : done[t]
    OBVIOUS
  <2>a. NoRing # NewRing
    BY EmptyHolds
  <2>2. /\ created' = [t \in Threads |-> FALSE] /\ thread' = [t \in Threads |-> "none"]
        /\ running' = [t \in Threads |-> FALSE] /\ bridge' = [running |-> FALSE, streaming |-> FALSE]
        /\ UNCHANGED <<stopping, rate, writer>> /\ CtlGoes("idle")
    BY <1>3, <2>a DEF StartCreatesReader
  <2>3. running' = running
    BY <1>2, <2>2 DEF BridgeTypes
  <2>4. ctl' \in [at : CtlPlaces, done : [Threads -> BOOLEAN]] /\ ctl'.at = "idle"
    BY <2>2 DEF CtlGoes, BridgeTypes, CtlPlaces
  <2>5. bridge' \in [running : BOOLEAN, streaming : BOOLEAN] /\ ~bridge'.running
    BY <2>2
  <2>6. /\ created' = [t \in Threads |-> created[t] /\ ~done[t]]
        /\ thread' = [t \in Threads |-> IF done[t] THEN "none" ELSE thread[t]]
        /\ \A t \in Threads : ~created'[t]
    BY <2>2
  <2> HIDE DEF done, BridgeInv
  <2> QED
    BY <1>1, <1>3, <2>1, <2>2, <2>3, <2>4, <2>5, <2>6, Joining
<1>4. CASE usbRing' = NewRing
  <2>a. NoRing # NewRing
    BY EmptyHolds
  <2>1. /\ stopping' = FALSE /\ bridge' = [running |-> TRUE, streaming |-> FALSE]
        /\ rate' = [confirmed |-> 0, once |-> FALSE] /\ writer' = Muted /\ CtlGoes("create")
        /\ running' = [reader |-> created'["reader"], writer |-> running["writer"]]
    BY <1>4, <2>a DEF StartCreatesReader
  <2>2. PICK ok \in BOOLEAN :
          /\ thread'["reader"] = (IF ok THEN "open" ELSE "none") /\ thread'["writer"] = "none"
          /\ thread' \in [Threads -> ReaderPlaces \cup WriterPlaces]
          /\ created'["reader"] = ok /\ created'["writer"] = FALSE
          /\ created' \in [Threads -> BOOLEAN]
    <3>1. CASE thread' = [reader |-> "open", writer |-> "none"] /\ created' = [reader |-> TRUE, writer |-> FALSE]
      <4>1. /\ thread'["reader"] = "open" /\ thread'["writer"] = "none"
            /\ thread' \in [Threads -> ReaderPlaces \cup WriterPlaces]
        BY <1>0, <3>1 DEF ReaderPlaces, WriterPlaces
      <4>2. /\ created'["reader"] = TRUE /\ created'["writer"] = FALSE
            /\ created' \in [Threads -> BOOLEAN]
        <5>1. DOMAIN created' = Threads /\ created' = [t \in DOMAIN created' |-> created'[t]]
          BY <1>0, <3>1
        <5>2. created'["reader"] = TRUE
          BY <3>1
        <5>3. created'["writer"] = FALSE
          BY <3>1
        <5> QED
          BY <1>0, <5>1, <5>2, <5>3
      <4> QED
        BY <4>1, <4>2
    <3>2. CASE thread' = [t \in Threads |-> "none"] /\ created' = [t \in Threads |-> FALSE]
      <4>1. /\ thread'["reader"] = "none" /\ thread'["writer"] = "none"
            /\ thread' \in [Threads -> ReaderPlaces \cup WriterPlaces]
        BY <1>0, <3>2 DEF ReaderPlaces, WriterPlaces
      <4>2. /\ created'["reader"] = FALSE /\ created'["writer"] = FALSE
            /\ created' \in [Threads -> BOOLEAN]
        BY <1>0, <3>2
      <4> QED
        BY <4>1, <4>2
    <3> QED
      BY <1>4, <2>a, <3>1, <3>2 DEF StartCreatesReader
  <2>b. running["writer"] = FALSE
    BY <1>0, <1>2 DEF BridgeTypes
  <2>3. running'["reader"] = ok /\ running'["writer"] = FALSE
    BY <2>1, <2>2, <2>b
  <2>4. thread'["reader"] \in ReaderPlaces /\ thread'["writer"] \in WriterPlaces
    BY <2>2 DEF ReaderPlaces, WriterPlaces
  <2>5. running' \in [Threads -> BOOLEAN]
    BY <1>0, <2>1, <2>2, <2>b
  <2>6. ctl' \in [at : CtlPlaces, done : [Threads -> BOOLEAN]] /\ ctl'.at = "create"
    BY <2>1 DEF CtlGoes, BridgeTypes, CtlPlaces
  <2>7. writer' \in WriterSet
    <3>1. <<>> \in Seq(Nat)
      OBVIOUS
    <3> QED
      BY <2>1, <3>1 DEF Muted, WriterSet
  <2>8. usbRing' \in RingSet /\ RingFits' /\ InOrder' /\ usbRing'.alive
    <3>1. ~InHand' /\ thread["reader"] # "push"
      BY <1>0, <1>2, <2>2 DEF InHand
    <3> QED
      BY <1>1, <1>4, <3>1, EmptiedFits, EmptyHolds
  <2>9. BridgeTypes'
    BY <1>1, <2>1, <2>2, <2>4, <2>5, <2>6, <2>7, <2>8 DEF BridgeTypes
  <2>10. OwnersLive'
    BY <1>0, <2>2, <2>3, <2>8 DEF OwnersLive
  <2>11. StatusFits'
    BY <2>2, <2>6, <2>8 DEF StatusFits
  <2> QED
    BY <2>8, <2>9, <2>10, <2>11
<1> QED
  BY <1>3, <1>4 DEF StartCreatesReader

\* start: a writer, or the reader is told to stop again.
LEMMA StepCreatesWriter ==
    ASSUME BridgeInv, StartCreatesWriter
    PROVE  BridgeInv'
<1> USE DEF BridgeInv
<1>0. "writer" \in Threads /\ "reader" \in Threads /\ Threads = {"reader", "writer"}
  BY DEF Threads
<1>1. PICK ok \in BOOLEAN :
         /\ created' = [created EXCEPT !["writer"] = ok]
         /\ running' = [running EXCEPT !["writer"] = ok]
         /\ thread' = [thread EXCEPT !["writer"] = IF ok THEN "begin" ELSE "none"]
         /\ IF ok /\ created["reader"]
            THEN CtlGoes("idle") /\ UNCHANGED <<usbRing, stopping, bridge>>
            ELSE /\ CtlGoes("rollback")
                 /\ stopping' = TRUE /\ usbRing' = Finished(usbRing)
                 /\ bridge' = [running |-> FALSE, streaming |-> FALSE]
  BY DEF StartCreatesWriter
<1>2. UNCHANGED <<packet, fed, played, rate, writer>> /\ ctl.at = "create"
  BY DEF StartCreatesWriter, CtlKeeps
<1>3. thread["writer"] = "none" /\ usbRing.alive
  BY <1>2 DEF StatusFits
<1>4. /\ created' \in [Threads -> BOOLEAN] /\ created'["writer"] = ok /\ created'["reader"] = created["reader"]
  BY <1>0, <1>1 DEF BridgeTypes
<1>5. /\ running' \in [Threads -> BOOLEAN] /\ running'["writer"] = ok /\ running'["reader"] = running["reader"]
  BY <1>0, <1>1 DEF BridgeTypes
<1>6. /\ thread' \in [Threads -> ReaderPlaces \cup WriterPlaces]
      /\ thread'["writer"] = (IF ok THEN "begin" ELSE "none") /\ thread'["reader"] = thread["reader"]
      /\ thread'["reader"] \in ReaderPlaces /\ thread'["writer"] \in WriterPlaces
  BY <1>0, <1>1 DEF BridgeTypes, WriterPlaces
<1>7. /\ usbRing' \in RingSet /\ usbRing'.count = usbRing.count /\ usbRing'.alive
      /\ Holds(usbRing', fed - packet)
  <2>1. CASE usbRing' = usbRing
    BY <1>3, <2>1 DEF BridgeTypes, RingFits
  <2>2. CASE usbRing' = Finished(usbRing)
    BY <1>3, <2>2, FinishedHolds DEF BridgeTypes, RingFits
  <2> QED
    BY <1>1, <2>1, <2>2
<1>8. /\ ctl' \in [at : CtlPlaces, done : [Threads -> BOOLEAN]]
      /\ stopping' \in BOOLEAN /\ bridge' \in [running : BOOLEAN, streaming : BOOLEAN]
      /\ \/ ctl'.at = "idle" /\ ok
         \/ ctl'.at = "rollback" /\ stopping' /\ ~bridge'.running
  <2>1. CASE ok /\ created["reader"]
    BY <1>1, <2>1 DEF CtlGoes, BridgeTypes, CtlPlaces
  <2>2. CASE ~(ok /\ created["reader"])
    <3>1. /\ CtlGoes("rollback") /\ stopping' = TRUE
          /\ bridge' = [running |-> FALSE, streaming |-> FALSE]
      BY <1>1, <2>2
    <3>2. ctl' \in [at : CtlPlaces, done : [Threads -> BOOLEAN]] /\ ctl'.at = "rollback"
      BY <3>1 DEF CtlGoes, BridgeTypes, CtlPlaces
    <3>3. bridge' \in [running : BOOLEAN, streaming : BOOLEAN] /\ ~bridge'.running
      BY <3>1
    <3> QED
      BY <3>1, <3>2, <3>3
  <2> QED
    BY <2>1, <2>2
<1>9. BridgeTypes'
  BY <1>2, <1>4, <1>5, <1>6, <1>7, <1>8 DEF BridgeTypes
<1>10. OwnersLive'
  <2>1. ASSUME NEW t \in Threads
        PROVE  /\ created'[t] <=> thread'[t] # "none"
               /\ created'[t] => usbRing'.alive
               /\ running'[t] <=> thread'[t] \notin {"none", "update", "ended"}
    BY <1>0, <1>4, <1>5, <1>6, <1>7 DEF OwnersLive
  <2> QED
    BY <2>1 DEF OwnersLive
<1>11. StatusFits'
  BY <1>0, <1>6, <1>8 DEF StatusFits
<1>12. RingFits'
  BY <1>2, <1>6, <1>7 DEF RingFits
<1>13. InOrder'
  <2>1. ~InHand'
    BY <1>6 DEF InHand
  <2> QED
    BY <1>2, <1>7, <2>1 DEF InOrder
<1> QED
  BY <1>9, <1>10, <1>11, <1>12, <1>13

-----------------------------------------------------------------------------
\* The specification

LEMMA InitBridge == BridgeInit => BridgeInv
<1> SUFFICES ASSUME BridgeInit PROVE BridgeInv
  OBVIOUS
<1>0. "writer" \in Threads /\ "reader" \in Threads /\ Threads = {"reader", "writer"}
  BY DEF Threads
<1>1. /\ usbRing = NoRing /\ ctl = [at |-> "idle", done |-> [t \in Threads |-> FALSE]]
      /\ thread = [t \in Threads |-> "none"] /\ created = [t \in Threads |-> FALSE]
      /\ running = [t \in Threads |-> FALSE] /\ stopping = FALSE
      /\ bridge = [running |-> FALSE, streaming |-> FALSE] /\ rate = [confirmed |-> 0, once |-> FALSE]
      /\ packet = 0 /\ writer = Muted /\ fed = 0 /\ played = 0
  BY DEF BridgeInit
<1>2. writer \in WriterSet
  <2>1. <<>> \in Seq(Nat)
    OBVIOUS
  <2> QED
    BY <1>1, <2>1 DEF Muted, WriterSet
<1>3. ctl \in [at : CtlPlaces, done : [Threads -> BOOLEAN]] /\ ctl.at = "idle"
  <2>1. [t \in Threads |-> FALSE] \in [Threads -> BOOLEAN]
    OBVIOUS
  <2> QED
    BY <1>1, <2>1 DEF CtlPlaces
<1>4. /\ thread \in [Threads -> ReaderPlaces \cup WriterPlaces]
      /\ thread["reader"] = "none" /\ thread["writer"] = "none"
      /\ thread["reader"] \in ReaderPlaces /\ thread["writer"] \in WriterPlaces
  BY <1>0, <1>1 DEF ReaderPlaces, WriterPlaces
<1>5. BridgeTypes
  BY <1>1, <1>2, <1>3, <1>4, EmptyHolds DEF BridgeTypes
<1>6. OwnersLive /\ StatusFits
  BY <1>1, <1>3, <1>4 DEF OwnersLive, StatusFits
<1>7. RingFits
  BY <1>1, EmptyHolds DEF RingFits
<1>8. InOrder
  BY <1>1, <1>4, EmptyHolds DEF InOrder, InHand
<1> QED
  BY <1>5, <1>6, <1>7, <1>8 DEF BridgeInv

LEMMA NextBridge == BridgeInv /\ [BridgeNext]_bridgeVars => BridgeInv'
<1> SUFFICES ASSUME BridgeInv, [BridgeNext]_bridgeVars PROVE BridgeInv'
  OBVIOUS
<1>1. CASE BridgeReaderStep
  <2>1. "reader" \in Threads
    BY DEF Threads
  <2> QED
    BY <1>1, <2>1, StepReader, StepSignals, StepEnds DEF BridgeReaderStep
<1>2. CASE WriterGoesOn
  <2>1. "writer" \in Threads
    BY DEF Threads
  <2> QED
    BY <1>2, <2>1, StepWriterQuiet, StepTakes, StepDiscards, StepSignals, StepEnds DEF WriterGoesOn
<1>3. CASE CtlStep \/ StartCalls \/ StopCalls
  BY <1>3, StepAsks, StepJoins, StepCreatesReader, StepCreatesWriter DEF CtlStep
<1>4. CASE UNCHANGED bridgeVars
  BY <1>4 DEF bridgeVars, BridgeInv, BridgeTypes, OwnersLive, StatusFits, RingFits, Holds, InOrder, InHand
<1> QED
  BY <1>1, <1>2, <1>3, <1>4 DEF BridgeNext

LEMMA BridgeInvariant == BridgeSpec => []BridgeInv
<1>1. BridgeInit => BridgeInv
  BY InitBridge
<1>2. BridgeInv /\ [BridgeNext]_bridgeVars => BridgeInv'
  BY NextBridge
<1> QED
  BY <1>1, <1>2, PTL DEF BridgeSpec

\* usb_dac_bridge.c owns its ring rightly ("No caller may destroy resources still
\* owned by a worker"), the ring holds the newest bytes in order through every
\* wrap, drop and oversized packet, and the status does not stay up when both
\* threads are gone, for every size of ring, packet and chunk.
THEOREM BridgeIsSound == BridgeSpec => []BridgeSound
<1>1. BridgeInv => BridgeSound
  <2> SUFFICES ASSUME BridgeInv PROVE BridgeSound
    OBVIOUS
  <2> USE DEF BridgeInv
  <2>1. RingAlive
    <3>1. ASSUME NEW t \in Threads, thread[t] \in UsesRing PROVE usbRing.alive
      <4>1. thread[t] # "none"
        BY <3>1 DEF UsesRing
      <4> QED
        BY <4>1 DEF OwnersLive
    <3> QED
      BY <3>1 DEF RingAlive
  <2>2. RingHoldsNewest
    BY HoldsNewest
  <2>3. RunningIsTrue
    BY DEF RunningIsTrue, StatusFits, OwnersLive
  <2> QED
    BY <2>1, <2>2, <2>3 DEF BridgeSound
<1>2. BridgeSpec => []BridgeInv
  BY BridgeInvariant
<1> QED
  BY <1>1, <1>2, PTL

\* The writer never plays a byte twice, nor one after a later one: not across a
\* trim, a fade, a dropped packet, or a new session.
THEOREM PlaysInOrder == BridgeSpec => PlayedInOrder
<1>1. BridgeInv /\ [BridgeNext]_bridgeVars => [played' # played => played' > played]_bridgeVars
  <2> SUFFICES ASSUME BridgeInv, BridgeNext, played' # played PROVE played' > played
    BY DEF bridgeVars
  <2> USE DEF BridgeInv
  <2>1. WriterFades \/ WriterPlays
    BY DEF BridgeNext, BridgeReaderStep, ReaderOpens, ReaderPolls, ReaderPushes, ReaderSignals, Publishes, Updates,
           WriterGoesOn, WriterKeeps, WriterBegins, WriterTops, WriterTakes, WriterEmpty, WriterMuted, WriterSignals,
           WriterHandles, WriterTrims, WriterDiscards, WriterCloses, CtlStep, CtlKeeps, StartCalls,
           StartCreatesReader, StartCreatesWriter, StartRollsBack, StopCalls, StopClears, StopWakes, StopWaits,
           StopJoins
  <2>2. CASE WriterPlays
    <3>1. thread["writer"] = "play" /\ played' = Last(writer.chunk)
      BY <2>2 DEF WriterPlays, Last
    <3>2. played < Last(writer.chunk) /\ writer.chunk # <<>>
      BY <3>1 DEF InOrder, InHand
    <3>3. Len(writer.chunk) \in 1 .. Len(writer.chunk)
      BY <3>2, WriterTypes
    <3>4. Last(writer.chunk) \in Nat /\ played \in Nat
      BY <3>3, WriterTypes DEF Last, BridgeTypes
    <3> QED
      BY <3>1, <3>2, <3>4
  <2>3. CASE WriterFades
    <3>1. usbRing.count > 0 /\ played' = usbRing.data[usbRing.tail]
      BY <2>3 DEF WriterFades
    <3>2. /\ usbRing.tail \in Cells /\ usbRing.count \in Nat /\ BridgeCapacity \in Nat \ {0}
          /\ played \in Nat /\ packet \in Nat /\ fed \in Nat
      BY RingTypes, BridgeAssumption DEF BridgeTypes
    <3>3. usbRing.tail \in Nat /\ usbRing.tail < BridgeCapacity
      BY <3>2 DEF Cells
    <3>4. Wrap(usbRing.tail) = usbRing.tail
      BY <3>2, <3>3, Wrapping
    <3>5. usbRing.tail + (1 - 1) = usbRing.tail /\ 1 \in 1 .. usbRing.count
      BY <3>1, <3>2, <3>3
    <3>6. /\ usbRing.data[Wrap(usbRing.tail + (1 - 1))] + usbRing.count + packet = fed + 1
          /\ usbRing.data[Wrap(usbRing.tail + (1 - 1))] \in Nat
      BY <3>5, OldestFacts
    <3>7. played' \in Nat /\ played' + usbRing.count + packet = fed + 1
      BY <3>1, <3>4, <3>5, <3>6
    <3>8. played + usbRing.count + packet <= fed
      BY DEF InOrder
    <3> QED
      BY <3>2, <3>7, <3>8
  <2> QED
    BY <2>1, <2>2, <2>3
<1>2. BridgeSpec => []BridgeInv
  BY BridgeInvariant
<1> QED
  BY <1>1, <1>2, PTL DEF BridgeSpec, PlayedInOrder

=============================================================================

----------------------------- MODULE QueueProofs -----------------------------
(***************************************************************************)
(* What the play queue guarantees for lists of any length and any number   *)
(* of commands: its bags fit, the track shown is the track that plays, the *)
(* engine holds the track that comes next, a checkpoint that is written    *)
(* can be read, and a file that failed is not started again.               *)
(***************************************************************************)
EXTENDS Queue, TLAPS

AnyTrack == Tracks \cup {NoTrack}
AnyBag == UNION {Orders(n) : n \in Nat}

PlayerSet ==
    [list : Seq(AnyTrack), cur : Nat, queued : Nat, insert : Nat, mode : AllModes, gapless : BOOLEAN,
     order : AnyBag, pos : Nat, pending : AnyBag, failed : SUBSET Tracks, skips : Nat,
     deferred : BOOLEAN, blocked : BOOLEAN, playing : AnyTrack, armed : AnyTrack,
     advanced : BOOLEAN, finished : BOOLEAN, error : {"none", "decoder", "output"}, slip : BOOLEAN]

\* The continuation of a bag is as long as the bag.
Paired(s) == s.pending # <<>> => Len(s.pending) = Len(s.order)

\* Nothing plays when an end or a failure is still to be looked at.
Reported(s) == s.error # "none" \/ s.finished => s.playing = NoTrack

Sound(s) == s \in PlayerSet /\ Paired(s) /\ Reported(s)

\* A bag that fits stands at the current track.
BagInStep(s) ==
    s.mode = "shuffle" /\ BagFits(s) /\ Active(s) /\ ~s.slip =>
        s.pos \in 1..Count(s) /\ s.order[s.pos] = s.cur

Follows(s) == s.armed = IF s.gapless THEN TrackAt(s, compute_auto_advance_index(s)) ELSE NoTrack

\* Nothing is left to prepare before the next track can be named.
Named(s) ==
    \/ s.cur = 0 \/ s.list = <<>> \/ QueueJump(s) \/ s.mode # "shuffle"
    \/ BagFits(s) /\ (s.pos + 1 <= Count(s) \/ s.pending # <<>>)

\* The bag stands where BagAtCurrent() puts it.
Ready(s) ==
    /\ Named(s)
    /\ s.mode = "shuffle" =>
          BagFits(s) /\ s.pos = CHOOSE i \in 1..Count(s) : s.order[i] = s.cur

\* What plays is the current track, and what is armed the next one; or the engine
\* has moved on to that one.
InStep(s) ==
    s.playing # NoTrack /\ ~s.slip =>
        /\ Active(s) /\ Ready(s)
        /\ IF s.advanced
           THEN /\ s.playing = TrackAt(s, compute_auto_advance_index(s))
                /\ s.armed \in {NoTrack, s.playing}
           ELSE s.playing = TrackAt(s, s.cur) /\ Follows(s)

QueueInv(s) == Sound(s) /\ BagInStep(s) /\ InStep(s)

-----------------------------------------------------------------------------
\* Bags

LEMMA OrderFits ==
    ASSUME NEW n \in Nat, NEW b \in Orders(n)
    PROVE  /\ b \in [1..n -> 1..n] /\ b \in Seq(1..n) /\ Len(b) = n /\ (b = <<>> <=> n = 0)
           /\ \A i \in 1..n : \E k \in 1..n : b[k] = i
<1>1. b \in [1..n -> 1..n] /\ \A i \in 1..n : \E k \in 1..n : b[k] = i
  BY DEF Orders
<1>2. b \in Seq(1..n) /\ Len(b) = n
  BY <1>1
<1>3. b = <<>> <=> n = 0
  BY <1>2
<1> QED
  BY <1>1, <1>2, <1>3

LEMMA BagFitsItself ==
    ASSUME NEW b \in AnyBag
    PROVE  Len(b) \in Nat /\ b \in Orders(Len(b))
<1>1. PICK n \in Nat : b \in Orders(n)
  BY DEF AnyBag
<1>2. Len(b) = n
  BY <1>1, OrderFits
<1> QED
  BY <1>1, <1>2

LEMMA OrderIsBag ==
    ASSUME NEW n \in Nat, NEW b \in Orders(n)
    PROVE  b \in AnyBag
  BY DEF AnyBag

LEMMA NoBag == <<>> \in AnyBag /\ <<>> \in Orders(0)
<1>1. <<>> \in Orders(0)
  BY DEF Orders
<1> QED
  BY <1>1 DEF AnyBag

\* In list order.
LEMMA IdentityFits == ASSUME NEW n \in Nat PROVE [i \in 1..n |-> i] \in Orders(n)
  BY DEF Orders

-----------------------------------------------------------------------------
\* Preparing the bag and arming

\* r differs from s at most in its bag and in what is armed.
SameButBag(s, r) ==
    /\ r.list = s.list /\ r.cur = s.cur /\ r.queued = s.queued /\ r.insert = s.insert
    /\ r.mode = s.mode /\ r.gapless = s.gapless /\ r.failed = s.failed /\ r.skips = s.skips
    /\ r.deferred = s.deferred /\ r.blocked = s.blocked /\ r.playing = s.playing
    /\ r.advanced = s.advanced /\ r.finished = s.finished /\ r.error = s.error /\ r.slip = s.slip

LEMMA PlayerTypes ==
    ASSUME NEW s \in PlayerSet
    PROVE  /\ s.list \in Seq(AnyTrack) /\ Count(s) \in Nat /\ s.cur \in Nat /\ s.queued \in Nat
           /\ s.insert \in Nat /\ s.mode \in AllModes /\ s.gapless \in BOOLEAN
           /\ s.order \in AnyBag /\ s.pos \in Nat /\ s.pending \in AnyBag
           /\ s.failed \in SUBSET Tracks /\ s.skips \in Nat /\ s.deferred \in BOOLEAN /\ s.blocked \in BOOLEAN
           /\ s.playing \in AnyTrack /\ s.armed \in AnyTrack /\ s.advanced \in BOOLEAN
           /\ s.finished \in BOOLEAN /\ s.error \in {"none", "decoder", "output"} /\ s.slip \in BOOLEAN
  BY DEF PlayerSet, Count

\* Another bag for the same player.
Rebagged(s, b, i, c) == [s EXCEPT !.order = b, !.pos = i, !.pending = c]

LEMMA NewBag ==
    ASSUME NEW s \in PlayerSet, NEW b \in AnyBag, NEW i \in Nat, NEW c \in AnyBag
    PROVE  LET r == Rebagged(s, b, i, c)
           IN  /\ r \in PlayerSet /\ SameButBag(s, r) /\ r.armed = s.armed
               /\ r.order = b /\ r.pos = i /\ r.pending = c
<1> DEFINE r == Rebagged(s, b, i, c)
<1>1. r \in PlayerSet
  BY DEF PlayerSet, Rebagged
<1>2. SameButBag(s, r) /\ r.armed = s.armed
  BY DEF PlayerSet, SameButBag, Rebagged
<1>3. r.order = b /\ r.pos = i /\ r.pending = c
  BY DEF PlayerSet, Rebagged
<1> QED
  BY <1>1, <1>2, <1>3

LEMMA TrackTypes ==
    ASSUME NEW s \in PlayerSet, NEW i
    PROVE  TrackAt(s, i) \in AnyTrack
<1>1. NoTrack \in AnyTrack
  BY DEF AnyTrack
<1>2. ASSUME i \in 1..Count(s) PROVE s.list[i] \in AnyTrack
  BY <1>2, PlayerTypes DEF Count
<1> QED
  BY <1>1, <1>2 DEF TrackAt

LEMMA EnsureSound ==
    ASSUME NEW s \in PlayerSet, Paired(s), NEW e \in ensure_shuffle_order_current(s)
    PROVE  /\ e \in PlayerSet /\ Paired(e) /\ SameButBag(s, e) /\ e.armed = s.armed
           /\ e.order \in Orders(Count(s))
           /\ e = s \/ (e.pos = 1 /\ e.pending = <<>> /\ (Active(s) => e.order[1] = s.cur))
           /\ BagFits(s) => e = s
<1>0. s.order \in AnyBag /\ Count(s) \in Nat /\ s.cur \in Nat /\ s.queued \in Nat
  BY PlayerTypes
<1>1. CASE BagFits(s)
  <2>1. e = s /\ Len(s.order) = Count(s)
    BY <1>1 DEF ensure_shuffle_order_current, BagFits
  <2>2. s.order \in Orders(Count(s))
    BY <1>0, <2>1, BagFitsItself
  <2> QED
    BY <2>1, <2>2 DEF SameButBag
<1>2. CASE ~BagFits(s)
  <2>1. PICK b \in FreshBags(s) : e = [s EXCEPT !.order = b, !.pos = 1, !.pending = <<>>]
    BY <1>2 DEF ensure_shuffle_order_current
  <2>2. b \in Orders(Count(s))
    BY DEF FreshBags
  <2>3. Active(s) => b[1] = s.cur
    <3>1. SUFFICES ASSUME Active(s) PROVE b[1] = s.cur
      OBVIOUS
    <3>2. 0 \in 0..s.queued /\ s.cur + 0 = s.cur /\ s.cur <= Count(s) /\ 1 + 0 = 1
      BY <1>0, <3>1 DEF Active
    <3>3. \A k \in 0..s.queued : s.cur + k <= Count(s) => b[1 + k] = s.cur + k
      BY <3>1 DEF FreshBags
    <3> QED
      BY <3>2, <3>3
  <2>4. b \in AnyBag
    BY <1>0, <2>2, OrderIsBag
  <2>5. /\ e \in PlayerSet /\ SameButBag(s, e) /\ e.armed = s.armed
        /\ e.order = b /\ e.pos = 1 /\ e.pending = <<>>
    <3>1. 1 \in Nat /\ <<>> \in AnyBag
      BY NoBag
    <3>2. e = Rebagged(s, b, 1, <<>>)
      BY <2>1 DEF Rebagged
    <3> QED
      BY <2>4, <3>1, <3>2, NewBag
  <2> QED
    BY <1>2, <2>2, <2>3, <2>5 DEF Paired
<1> QED
  BY <1>1, <1>2

-----------------------------------------------------------------------------
\* What the next track depends on

SameCourse(s, r) ==
    /\ r.list = s.list /\ r.cur = s.cur /\ r.queued = s.queued /\ r.mode = s.mode
    /\ r.order = s.order /\ r.pos = s.pos /\ r.pending = s.pending

LEMMA CourseKept ==
    ASSUME NEW s, NEW r, SameCourse(s, r)
    PROVE  /\ Count(r) = Count(s) /\ BagFits(r) = BagFits(s) /\ Active(r) = Active(s)
           /\ Named(r) = Named(s) /\ Ready(r) = Ready(s)
           /\ compute_auto_advance_index(r) = compute_auto_advance_index(s)
           /\ \A i : TrackAt(r, i) = TrackAt(s, i)
<1>1. Count(r) = Count(s) /\ BagFits(r) = BagFits(s) /\ Active(r) = Active(s) /\ QueueJump(r) = QueueJump(s)
  BY DEF SameCourse, Count, BagFits, Active, QueueJump
<1>2. Named(r) = Named(s)
  BY <1>1 DEF SameCourse, Named
<1>3. Ready(r) = Ready(s)
  BY <1>1, <1>2 DEF SameCourse, Ready
<1>4. compute_auto_advance_index(r) = compute_auto_advance_index(s)
  BY <1>1 DEF SameCourse, compute_auto_advance_index
<1>5. \A i : TrackAt(r, i) = TrackAt(s, i)
  BY <1>1 DEF SameCourse, TrackAt
<1> QED
  BY <1>1, <1>2, <1>3, <1>4, <1>5

LEMMA NamedPrepared ==
    ASSUME NEW s, Named(s)
    PROVE  Prepared(s) = {s}
<1>1. CASE s.cur = 0 \/ s.list = <<>> \/ QueueJump(s) \/ s.mode # "shuffle"
  BY <1>1 DEF Prepared
<1>2. CASE ~(s.cur = 0 \/ s.list = <<>> \/ QueueJump(s) \/ s.mode # "shuffle")
  <2>1. BagFits(s) /\ (s.pos + 1 <= Count(s) \/ s.pending # <<>>)
    BY <1>2 DEF Named
  <2>2. ensure_shuffle_order_current(s) = {s}
    BY <2>1 DEF ensure_shuffle_order_current
  <2>3. Prepared(s) = UNION {IF e.pos + 1 <= Count(s) \/ e.pending # <<>>
                             THEN {e}
                             ELSE {[e EXCEPT !.pending = b] : b \in Orders(Count(s))}
                             : e \in {s}}
    BY <1>2, <2>2 DEF Prepared
  <2> QED
    BY <2>1, <2>3
<1> QED
  BY <1>1, <1>2

LEMMA PreparedSound ==
    ASSUME NEW s \in PlayerSet, Paired(s), NEW q \in Prepared(s)
    PROVE  /\ q \in PlayerSet /\ Paired(q) /\ SameButBag(s, q) /\ q.armed = s.armed
           /\ Named(q)
           /\ BagFits(s) => q.order = s.order /\ q.pos = s.pos
           /\ q = s \/ (q.order \in Orders(Count(s)) /\ (BagFits(s) \/ (q.pos = 1 /\ (Active(s) => q.order[1] = s.cur))))
<1>1. CASE s.cur = 0 \/ s.list = <<>> \/ QueueJump(s) \/ s.mode # "shuffle"
  <2>1. q = s
    BY <1>1 DEF Prepared
  <2>2. Named(s)
    BY <1>1 DEF Named
  <2> QED
    BY <2>1, <2>2 DEF SameButBag
<1>2. CASE ~(s.cur = 0 \/ s.list = <<>> \/ QueueJump(s) \/ s.mode # "shuffle")
  <2>0. s.list # <<>> /\ Count(s) \in Nat /\ Count(s) # 0
    BY <1>2, PlayerTypes DEF Count
  <2>1. PICK e \in ensure_shuffle_order_current(s) :
            q \in IF e.pos + 1 <= Count(s) \/ e.pending # <<>>
                  THEN {e} ELSE {[e EXCEPT !.pending = b] : b \in Orders(Count(s))}
    BY <1>2 DEF Prepared
  <2>2. /\ e \in PlayerSet /\ Paired(e) /\ SameButBag(s, e) /\ e.armed = s.armed
        /\ e.order \in Orders(Count(s))
        /\ e = s \/ (e.pos = 1 /\ e.pending = <<>> /\ (Active(s) => e.order[1] = s.cur))
        /\ BagFits(s) => e = s
    BY EnsureSound
  <2>3. Len(e.order) = Count(s) /\ e.order # <<>>
    BY <2>0, <2>2, OrderFits
  <2>4. CASE e.pos + 1 <= Count(s) \/ e.pending # <<>>
    <3>1. q = e
      BY <2>1, <2>4
    <3>2. BagFits(e) /\ Count(e) = Count(s)
      BY <2>2, <2>3 DEF BagFits, Count, SameButBag
    <3>3. Named(e)
      BY <2>4, <3>2 DEF Named
    <3> QED
      BY <2>2, <3>1, <3>3
  <2>5. CASE ~(e.pos + 1 <= Count(s) \/ e.pending # <<>>)
    <3>1. PICK b \in Orders(Count(s)) : q = [e EXCEPT !.pending = b]
      BY <2>1, <2>5
    <3>2. b \in AnyBag /\ Len(b) = Count(s) /\ b # <<>>
      BY <2>0, OrderFits, OrderIsBag
    <3>3. /\ q \in PlayerSet /\ SameButBag(e, q) /\ q.armed = e.armed
          /\ q.order = e.order /\ q.pos = e.pos /\ q.pending = b
      <4>1. q \in PlayerSet
        BY <2>2, <3>1, <3>2 DEF PlayerSet
      <4>2. SameButBag(e, q) /\ q.armed = e.armed
        BY <2>2, <3>1 DEF PlayerSet, SameButBag
      <4>3. q.order = e.order /\ q.pos = e.pos /\ q.pending = b
        BY <2>2, <3>1 DEF PlayerSet
      <4> QED
        BY <4>1, <4>2, <4>3
    <3>4. SameButBag(s, q) /\ Count(q) = Count(s)
      BY <2>2, <3>3 DEF SameButBag, Count
    <3>5. Paired(q)
      BY <2>3, <3>2, <3>3 DEF Paired
    <3>6. Named(q)
      BY <2>3, <3>2, <3>3, <3>4 DEF Named, BagFits
    <3>7. e = s => BagFits(s)
      BY <2>3 DEF BagFits
    <3> QED
      BY <2>2, <3>3, <3>4, <3>5, <3>6, <3>7
  <2> QED
    BY <2>4, <2>5
<1> QED
  BY <1>1, <1>2

-----------------------------------------------------------------------------
\* Arming the next track

\* What arm_next_track_for_audio() needs: what plays is the current track.
Current(s) ==
    s.playing # NoTrack /\ ~s.slip => ~s.advanced /\ Active(s) /\ s.playing = TrackAt(s, s.cur)

\* A bag stands at the current track.
AtCurrent(s) ==
    s.mode = "shuffle" /\ Active(s) => s.pos \in 1..Count(s) /\ s.order[s.pos] = s.cur

LEMMA EnsuredSound ==
    ASSUME NEW s \in PlayerSet, Paired(s), NEW e \in EnsureIfShuffling(s)
    PROVE  /\ e \in PlayerSet /\ Paired(e) /\ SameButBag(s, e) /\ e.armed = s.armed
           /\ s.mode = "shuffle" => e.order \in Orders(Count(s))
           /\ e = s \/ (s.mode = "shuffle" /\ e.pos = 1 /\ (Active(s) => e.order[1] = s.cur))
           /\ s.mode = "shuffle" /\ BagFits(s) => e = s
<1>1. CASE s.mode = "shuffle"
  BY <1>1, EnsureSound DEF EnsureIfShuffling
<1>2. CASE s.mode # "shuffle"
  BY <1>2 DEF EnsureIfShuffling, SameButBag
<1> QED
  BY <1>1, <1>2

LEMMA MovedToCurrent ==
    ASSUME NEW e \in PlayerSet, Paired(e), e.mode = "shuffle" => e.order \in Orders(Count(e))
    PROVE  LET f == BagAtCurrent(e)
           IN  /\ f \in PlayerSet /\ Paired(f) /\ SameButBag(e, f) /\ AtCurrent(f)
               /\ f.armed = e.armed /\ f.order = e.order /\ f.pending = e.pending
               /\ e.mode = "shuffle" /\ Active(e) => f.pos = CHOOSE i \in 1..Count(e) : e.order[i] = e.cur
<1> DEFINE f == BagAtCurrent(e)
           at == CHOOSE i \in 1..Count(e) : e.order[i] = e.cur
<1>1. CASE e.mode = "shuffle" /\ Active(e)
  <2>1. \E i \in 1..Count(e) : e.order[i] = e.cur
    BY <1>1, PlayerTypes, OrderFits DEF Active
  <2>2. at \in 1..Count(e) /\ e.order[at] = e.cur
    BY <2>1
  <2>3. at \in Nat
    BY <2>2, PlayerTypes
  <2> HIDE DEF at
  <2>4. f = [e EXCEPT !.pos = at]
    BY <1>1 DEF BagAtCurrent, at
  <2> HIDE DEF f
  <2>5. f \in PlayerSet
    BY <2>3, <2>4 DEF PlayerSet
  <2>6. SameButBag(e, f) /\ f.armed = e.armed
    BY <2>4 DEF PlayerSet, SameButBag
  <2>7. f.order = e.order /\ f.pending = e.pending /\ f.pos = at
    BY <2>4 DEF PlayerSet
  <2>8. Paired(f) /\ AtCurrent(f)
    BY <2>2, <2>6, <2>7 DEF Paired, AtCurrent, Count, SameButBag
  <2>9. f.pos = CHOOSE i \in 1..Count(e) : e.order[i] = e.cur
    BY <2>7 DEF at
  <2> QED
    BY <2>5, <2>6, <2>7, <2>8, <2>9 DEF f
<1>2. CASE ~(e.mode = "shuffle" /\ Active(e))
  <2>1. f = e
    BY <1>2 DEF BagAtCurrent
  <2> QED
    BY <1>2, <2>1 DEF SameButBag, AtCurrent
<1> QED
  BY <1>1, <1>2

\* The same player with another track armed.
Rearmed(q, t) == [q EXCEPT !.armed = t]

LEMMA RearmedFields ==
    ASSUME NEW q \in PlayerSet, NEW t \in AnyTrack
    PROVE  LET r == Rearmed(q, t)
           IN  r \in PlayerSet /\ SameButBag(q, r) /\ SameCourse(q, r) /\ r.armed = t
<1> DEFINE r == Rearmed(q, t)
<1>1. r \in PlayerSet
  BY DEF PlayerSet, Rearmed
<1>2. SameButBag(q, r)
  BY DEF PlayerSet, SameButBag, Rearmed
<1>3. r.armed = t /\ r.order = q.order /\ r.pos = q.pos /\ r.pending = q.pending
  BY DEF PlayerSet, Rearmed
<1> QED
  BY <1>1, <1>2, <1>3 DEF SameCourse, SameButBag

\* What arm_next_track_for_audio() leaves, when there is a current track.
LEMMA Arms ==
    ASSUME NEW s \in PlayerSet, Paired(s), NEW r \in arm_next_track_for_audio(s)
    PROVE  /\ r \in PlayerSet /\ Paired(r) /\ SameButBag(s, r) /\ AtCurrent(r) /\ Follows(r)
           /\ Active(s) => Ready(r)
<1>0. PICK e \in EnsureIfShuffling(s) : \E q \in Prepared(BagAtCurrent(e)) :
          r = [q EXCEPT !.armed = IF q.gapless THEN TrackAt(q, compute_auto_advance_index(q)) ELSE NoTrack]
  BY DEF arm_next_track_for_audio
<1>1. PICK q \in Prepared(BagAtCurrent(e)) :
          r = [q EXCEPT !.armed = IF q.gapless THEN TrackAt(q, compute_auto_advance_index(q)) ELSE NoTrack]
  BY <1>0
<1> DEFINE f == BagAtCurrent(e)
           t == IF q.gapless THEN TrackAt(q, compute_auto_advance_index(q)) ELSE NoTrack
<1>2. /\ e \in PlayerSet /\ Paired(e) /\ SameButBag(s, e)
      /\ s.mode = "shuffle" => e.order \in Orders(Count(s))
  BY EnsuredSound
<1>3. Count(e) = Count(s) /\ e.mode = s.mode /\ Active(e) = Active(s)
  BY <1>2 DEF SameButBag, Count, Active
<1>4. /\ f \in PlayerSet /\ Paired(f) /\ SameButBag(e, f) /\ AtCurrent(f) /\ f.order = e.order
      /\ e.mode = "shuffle" /\ Active(e) => f.pos = CHOOSE i \in 1..Count(e) : e.order[i] = e.cur
  BY <1>2, <1>3, MovedToCurrent
<1> HIDE DEF f
<1>5. /\ q \in PlayerSet /\ Paired(q) /\ SameButBag(f, q) /\ Named(q)
      /\ BagFits(f) => q.order = f.order /\ q.pos = f.pos
  BY <1>1, <1>4, PreparedSound DEF f
<1>6. SameButBag(s, q) /\ Count(q) = Count(s) /\ Count(f) = Count(s) /\ Active(q) = Active(s) /\ Active(f) = Active(s)
  BY <1>2, <1>4, <1>5 DEF SameButBag, Count, Active
<1>7. s.mode = "shuffle" /\ Active(s) => BagFits(f)
  <2>1. SUFFICES ASSUME s.mode = "shuffle", Active(s) PROVE BagFits(f)
    OBVIOUS
  <2>2. Count(s) \in Nat /\ s.cur \in Nat
    BY PlayerTypes
  <2>3. Count(s) # 0
    BY <2>1, <2>2 DEF Active
  <2> QED
    BY <1>2, <1>4, <1>6, <2>1, <2>2, <2>3, OrderFits DEF BagFits
<1>8. AtCurrent(q)
  BY <1>4, <1>5, <1>6, <1>7 DEF AtCurrent, SameButBag
<1>9. Active(s) => Ready(q)
  <2>1. SUFFICES ASSUME Active(s), s.mode = "shuffle"
                 PROVE  BagFits(q) /\ q.pos = CHOOSE i \in 1..Count(q) : q.order[i] = q.cur
    BY <1>5, <1>6 DEF Ready, SameButBag
  <2>2. q.order = e.order /\ q.pos = f.pos /\ q.cur = e.cur /\ Count(q) = Count(e)
    BY <1>3, <1>4, <1>5, <1>6, <1>7, <2>1 DEF SameButBag
  <2>3. BagFits(q)
    BY <1>6, <1>7, <2>1, <2>2, <1>4 DEF BagFits
  <2> QED
    BY <1>3, <1>4, <2>1, <2>2, <2>3
<1>10. t \in AnyTrack
  BY <1>5, TrackTypes DEF AnyTrack
<1>11. r = Rearmed(q, t)
  BY <1>1 DEF Rearmed
<1> HIDE DEF t
<1>12. r \in PlayerSet /\ SameButBag(q, r) /\ SameCourse(q, r) /\ r.armed = t
  BY <1>5, <1>10, <1>11, RearmedFields
<1>13. Follows(r)
  BY <1>12, CourseKept DEF Follows, t, SameButBag
<1>14. AtCurrent(r) /\ Paired(r) /\ (Active(s) => Ready(r))
  <2>1. Count(r) = Count(q) /\ Active(r) = Active(q) /\ Ready(r) = Ready(q)
    BY <1>12, CourseKept
  <2> QED
    BY <1>5, <1>8, <1>9, <1>12, <2>1 DEF AtCurrent, Paired, SameCourse
<1>15. SameButBag(s, r)
  BY <1>6, <1>12 DEF SameButBag
<1> QED
  BY <1>12, <1>13, <1>14, <1>15

\* Arming keeps the invariant when what plays is the current track.
LEMMA ArmsInStep ==
    ASSUME NEW s, Sound(s), Current(s), NEW r \in arm_next_track_for_audio(s)
    PROVE  QueueInv(r) /\ SameButBag(s, r)
<1>1. s \in PlayerSet /\ Paired(s) /\ Reported(s)
  BY DEF Sound
<1>2. /\ r \in PlayerSet /\ Paired(r) /\ SameButBag(s, r) /\ AtCurrent(r) /\ Follows(r)
      /\ Active(s) => Ready(r)
  BY <1>1, Arms
<1>3. Sound(r)
  BY <1>1, <1>2 DEF Sound, Reported, SameButBag
<1>4. BagInStep(r)
  BY <1>2 DEF AtCurrent, BagInStep
<1>5. Active(r) = Active(s) /\ TrackAt(r, r.cur) = TrackAt(s, s.cur)
  BY <1>2 DEF SameButBag, Active, Count, TrackAt
<1>6. InStep(r)
  BY <1>2, <1>5 DEF Current, InStep, SameButBag
<1> QED
  BY <1>2, <1>3, <1>4, <1>6 DEF QueueInv

\* With nothing to prepare, arming only arms.
LEMMA ArmsOnly ==
    ASSUME NEW s \in PlayerSet, Active(s), Ready(s), NEW r \in arm_next_track_for_audio(s)
    PROVE  SameCourse(s, r)
<1>0. PICK e \in EnsureIfShuffling(s) : \E q \in Prepared(BagAtCurrent(e)) :
          r = [q EXCEPT !.armed = IF q.gapless THEN TrackAt(q, compute_auto_advance_index(q)) ELSE NoTrack]
  BY DEF arm_next_track_for_audio
<1>1. PICK q \in Prepared(BagAtCurrent(e)) :
          r = [q EXCEPT !.armed = IF q.gapless THEN TrackAt(q, compute_auto_advance_index(q)) ELSE NoTrack]
  BY <1>0
<1> DEFINE f == BagAtCurrent(e)
           t == IF q.gapless THEN TrackAt(q, compute_auto_advance_index(q)) ELSE NoTrack
<1>2. e = s
  BY DEF EnsureIfShuffling, ensure_shuffle_order_current, Ready
<1>3. f \in PlayerSet /\ SameCourse(s, f)
  <2>1. CASE s.mode = "shuffle"
    <3>1. s.pos = CHOOSE i \in 1..Count(s) : s.order[i] = s.cur
      BY <2>1 DEF Ready
    <3>2. f = [s EXCEPT !.pos = s.pos]
      BY <1>2, <2>1, <3>1 DEF BagAtCurrent
    <3> QED
      BY <3>2 DEF PlayerSet, SameCourse
  <2>2. CASE s.mode # "shuffle"
    BY <1>2, <2>2 DEF BagAtCurrent, SameCourse
  <2> QED
    BY <2>1, <2>2
<1> HIDE DEF f
<1>4. Named(f)
  BY <1>3, CourseKept DEF Ready
<1>5. q = f
  BY <1>1, <1>4, NamedPrepared DEF f
<1>6. t \in AnyTrack
  BY <1>3, <1>5, TrackTypes DEF AnyTrack
<1>7. r = Rearmed(q, t)
  BY <1>1 DEF Rearmed
<1> HIDE DEF t
<1>8. SameCourse(q, r)
  BY <1>3, <1>5, <1>6, <1>7, RearmedFields
<1> QED
  BY <1>3, <1>5, <1>8 DEF SameCourse

-----------------------------------------------------------------------------
\* Starting a track

LEMMA ResetFields ==
    ASSUME NEW s \in PlayerSet
    PROVE  LET r == reset_decoder_failure_tracking(s)
           IN  /\ r \in PlayerSet /\ r.failed = {} /\ SameCourse(s, r)
               /\ r.insert = s.insert /\ r.gapless = s.gapless /\ r.deferred = s.deferred
               /\ r.blocked = s.blocked /\ r.playing = s.playing /\ r.armed = s.armed
               /\ r.advanced = s.advanced /\ r.finished = s.finished /\ r.error = s.error
               /\ r.slip = s.slip
<1> DEFINE r == reset_decoder_failure_tracking(s)
<1>0. {} \in SUBSET Tracks /\ 0 \in Nat
  OBVIOUS
<1>1. r \in PlayerSet
  BY <1>0 DEF PlayerSet, reset_decoder_failure_tracking
<1>2. SameCourse(s, r) /\ r.failed = {}
  BY DEF PlayerSet, SameCourse, reset_decoder_failure_tracking
<1>3. /\ r.insert = s.insert /\ r.gapless = s.gapless /\ r.deferred = s.deferred
      /\ r.blocked = s.blocked /\ r.playing = s.playing /\ r.armed = s.armed
      /\ r.advanced = s.advanced /\ r.finished = s.finished /\ r.error = s.error
      /\ r.slip = s.slip
  BY DEF PlayerSet, reset_decoder_failure_tracking
<1> QED
  BY <1>1, <1>2, <1>3

\* The invariant depends on nothing else.
LEMMA KeptAlong ==
    ASSUME NEW s, NEW r \in PlayerSet, SameCourse(s, r),
           r.gapless = s.gapless, r.playing = s.playing, r.armed = s.armed,
           r.advanced = s.advanced, r.finished = s.finished, r.error = s.error, r.slip = s.slip
    PROVE  /\ Sound(s) => Sound(r)
           /\ BagInStep(s) => BagInStep(r)
           /\ InStep(s) => InStep(r)
           /\ Current(s) => Current(r)
<1>1. /\ Count(r) = Count(s) /\ BagFits(r) = BagFits(s) /\ Active(r) = Active(s) /\ Ready(r) = Ready(s)
      /\ compute_auto_advance_index(r) = compute_auto_advance_index(s)
      /\ \A i : TrackAt(r, i) = TrackAt(s, i)
  BY CourseKept
<1>2. Sound(s) => Sound(r)
  BY DEF Sound, Paired, Reported, SameCourse
<1>3. BagInStep(s) => BagInStep(r)
  BY <1>1 DEF BagInStep, SameCourse
<1>4. Follows(s) => Follows(r)
  BY <1>1 DEF Follows
<1>5. InStep(s) => InStep(r)
  BY <1>1, <1>4 DEF InStep, SameCourse
<1>6. Current(s) => Current(r)
  BY <1>1 DEF Current, SameCourse
<1> QED
  BY <1>2, <1>3, <1>5, <1>6

LEMMA SlippedInStep ==
    ASSUME NEW s, Sound(s)
    PROVE  /\ QueueInv(Slipped(s)) /\ Slipped(s).playing = s.playing /\ Slipped(s).failed = s.failed
           /\ Slipped(s).slip /\ SameCourse(s, Slipped(s))
<1> DEFINE r == Slipped(s)
<1>0. s \in PlayerSet /\ Paired(s) /\ Reported(s)
  BY DEF Sound
<1>1. r \in PlayerSet
  BY <1>0 DEF PlayerSet, Slipped
<1>2. r.slip = TRUE
  BY <1>0 DEF PlayerSet, Slipped
<1>3. SameCourse(s, r)
  BY <1>0 DEF PlayerSet, Slipped, SameCourse
<1>4. r.playing = s.playing /\ r.error = s.error /\ r.finished = s.finished /\ r.failed = s.failed
  BY <1>0 DEF PlayerSet, Slipped
<1> HIDE DEF r
<1>5. Sound(r)
  BY <1>0, <1>1, <1>3, <1>4 DEF Sound, Paired, Reported, SameCourse
<1>6. QueueInv(r)
  BY <1>2, <1>5 DEF QueueInv, BagInStep, InStep
<1> QED
  BY <1>2, <1>3, <1>4, <1>6 DEF r

LEMMA Plays ==
    ASSUME NEW s, Sound(s), NEW i \in 1..Count(s), NEW r \in play_track_at_from_internal(s, i)
    PROVE  /\ QueueInv(r) /\ r.failed = s.failed
           /\ r.playing = s.playing \/ r.playing = s.list[i]
<1>0. s \in PlayerSet /\ Paired(s)
  BY DEF Sound
<1>1. CASE s.blocked
  <2>1. r = Slipped(s)
    BY <1>1 DEF play_track_at_from_internal
  <2> QED
    BY <2>1, SlippedInStep
<1>2. CASE ~s.blocked
  <2> DEFINE t == [s EXCEPT !.cur = i, !.deferred = FALSE, !.playing = s.list[i],
                            !.advanced = FALSE, !.finished = FALSE, !.error = "none", !.slip = FALSE]
  <2>1. r \in arm_next_track_for_audio(t)
    BY <1>2 DEF play_track_at_from_internal
  <2>2. s.list[i] \in AnyTrack /\ i \in Nat
    BY <1>0, PlayerTypes DEF Count
  <2>3. t \in PlayerSet
    BY <1>0, <2>2 DEF PlayerSet
  <2>4. t.list = s.list /\ t.cur = i /\ t.playing = s.list[i]
    BY <1>0 DEF PlayerSet
  <2>5. t.order = s.order /\ t.pending = s.pending /\ t.failed = s.failed
    BY <1>0 DEF PlayerSet
  <2>6. ~t.advanced /\ ~t.finished /\ t.error = "none"
    BY <1>0 DEF PlayerSet
  <2> HIDE DEF t
  <2>7. Sound(t)
    BY <1>0, <2>3, <2>5, <2>6 DEF Sound, Paired, Reported
  <2>8. Current(t)
    BY <2>4, <2>6 DEF Current, Active, TrackAt, Count
  <2>9. QueueInv(r) /\ SameButBag(t, r)
    BY <2>1, <2>7, <2>8, ArmsInStep
  <2> QED
    BY <2>4, <2>5, <2>9 DEF SameButBag
<1> QED
  BY <1>1, <1>2

LEMMA PlaysAfresh ==
    ASSUME NEW s, Sound(s), NEW i \in 1..Count(s), NEW r \in play_track_at(s, i)
    PROVE  QueueInv(r) /\ r.failed = {}
<1> DEFINE t == reset_decoder_failure_tracking(s)
<1>0. s \in PlayerSet
  BY DEF Sound
<1>1. /\ t \in PlayerSet /\ t.failed = {} /\ SameCourse(s, t) /\ t.gapless = s.gapless
      /\ t.playing = s.playing /\ t.armed = s.armed
      /\ t.advanced = s.advanced /\ t.finished = s.finished /\ t.error = s.error /\ t.slip = s.slip
  BY <1>0, ResetFields
<1> HIDE DEF t
<1>2. Sound(t)
  BY <1>1, KeptAlong
<1>3. i \in 1..Count(t)
  BY <1>1 DEF SameCourse, Count
<1>4. r \in play_track_at_from_internal(t, i)
  BY DEF play_track_at, t
<1> QED
  BY <1>1, <1>2, <1>3, <1>4, Plays

-----------------------------------------------------------------------------
\* Moving on

LEMMA NextInList ==
    ASSUME NEW q \in PlayerSet, Paired(q), Named(q), Active(q)
    PROVE  compute_auto_advance_index(q) \in 0..Count(q)
<1> DEFINE n == Count(q)
<1>0. /\ n \in Nat /\ q.cur \in Nat /\ q.pos \in Nat /\ q.order \in AnyBag /\ q.pending \in AnyBag
      /\ q.mode \in AllModes
  BY PlayerTypes
<1>1. q.cur \in 1..n /\ q.cur # 0 /\ n # 0 /\ q.list # <<>>
  BY <1>0 DEF Active, Count
<1>2. CASE QueueJump(q)
  <2>1. compute_auto_advance_index(q) = q.cur + 1
    BY <1>1, <1>2 DEF compute_auto_advance_index
  <2>2. q.cur + 1 \in 0..n
    BY <1>0, <1>2 DEF QueueJump
  <2> QED
    BY <2>1, <2>2
<1>3. CASE ~QueueJump(q) /\ q.mode = "repeat_one"
  BY <1>0, <1>1, <1>3 DEF compute_auto_advance_index
<1>4. CASE ~QueueJump(q) /\ q.mode = "repeat_all"
  <2>1. (q.cur % n) + 1 \in 0..n
    BY <1>0, <1>1
  <2> QED
    BY <1>1, <1>4, <2>1 DEF compute_auto_advance_index
<1>5. CASE ~QueueJump(q) /\ q.mode = "shuffle"
  <2>1. BagFits(q) /\ (q.pos + 1 <= n \/ q.pending # <<>>)
    BY <1>1, <1>5 DEF Named
  <2>2. q.order \in Orders(n)
    BY <1>0, <2>1, BagFitsItself DEF BagFits
  <2>3. compute_auto_advance_index(q) = IF q.pos + 1 <= n THEN q.order[q.pos + 1] ELSE q.pending[1]
    BY <1>1, <1>5 DEF compute_auto_advance_index
  <2>4. CASE q.pos + 1 <= n
    <3>1. q.order \in [1..n -> 1..n]
      BY <1>0, <2>2, OrderFits
    <3>2. q.order[q.pos + 1] \in 1..n
      BY <1>0, <2>4, <3>1
    <3>3. compute_auto_advance_index(q) = q.order[q.pos + 1]
      BY <2>3, <2>4, Zenon
    <3>4. \A x \in 1..n : x \in 0..n
      BY <1>0
    <3> QED
      BY <3>2, <3>3, <3>4, Zenon
  <2>5. CASE ~(q.pos + 1 <= n)
    <3>1. q.pending \in Orders(n)
      BY <1>0, <2>1, <2>5, BagFitsItself DEF BagFits, Paired
    <3>2. q.pending \in [1..n -> 1..n]
      BY <1>0, <3>1, OrderFits
    <3>3. q.pending[1] \in 1..n
      BY <1>0, <1>1, <3>2
    <3>4. compute_auto_advance_index(q) = q.pending[1]
      BY <2>3, <2>5, Zenon
    <3>5. \A x \in 1..n : x \in 0..n
      BY <1>0
    <3> QED
      BY <3>3, <3>4, <3>5, Zenon
  <2> QED
    BY <2>4, <2>5
<1>6. CASE ~QueueJump(q) /\ q.mode = "sequential"
  <2>1. compute_auto_advance_index(q) = IF q.cur + 1 <= n THEN q.cur + 1 ELSE 0
    BY <1>1, <1>6 DEF compute_auto_advance_index
  <2> QED
    BY <1>0, <2>1
<1> QED
  BY <1>0, <1>2, <1>3, <1>4, <1>5, <1>6 DEF AllModes

\* r differs from s at most in the bag and in what is queued.
SamePlace(s, r) ==
    /\ r.list = s.list /\ r.cur = s.cur /\ r.mode = s.mode /\ r.gapless = s.gapless
    /\ r.failed = s.failed /\ r.playing = s.playing /\ r.armed = s.armed /\ r.advanced = s.advanced
    /\ r.finished = s.finished /\ r.error = s.error /\ r.slip = s.slip

LEMMA Consumes ==
    ASSUME NEW s \in PlayerSet, Paired(s), s.queued > 0
    PROVE  LET r == ConsumeQueued(s) IN r \in PlayerSet /\ Paired(r) /\ SamePlace(s, r)
<1> DEFINE r == ConsumeQueued(s)
           i == IF BagFits(s) THEN s.pos + 1 ELSE s.pos
           k == IF s.queued = 1 THEN 0 ELSE s.insert
<1>1. s.queued - 1 \in Nat /\ i \in Nat /\ k \in Nat
  BY PlayerTypes
<1>2. r = [s EXCEPT !.pos = i, !.queued = s.queued - 1, !.insert = k]
  BY DEF ConsumeQueued, PlayerSet
<1> HIDE DEF r, i, k
<1>3. r \in PlayerSet
  BY <1>1, <1>2 DEF PlayerSet
<1>4. SamePlace(s, r)
  BY <1>2 DEF PlayerSet, SamePlace
<1>5. r.order = s.order /\ r.pending = s.pending
  BY <1>2 DEF PlayerSet
<1> QED
  BY <1>3, <1>4, <1>5 DEF Paired, r

LEMMA Commits ==
    ASSUME NEW s \in PlayerSet, Paired(s)
    PROVE  LET r == commit_auto_advance(s) IN r \in PlayerSet /\ Paired(r) /\ SamePlace(s, r)
<1> DEFINE r == commit_auto_advance(s)
<1>0. s.pos \in Nat /\ s.queued \in Nat
  BY PlayerTypes
<1>1. CASE s.queued > 0
  BY <1>1, Consumes DEF commit_auto_advance
<1>2. CASE ~(s.queued > 0) /\ s.mode = "shuffle" /\ s.pos + 1 <= Count(s)
  <2>1. s.pos + 1 \in Nat
    BY <1>0
  <2>2. r = [s EXCEPT !.pos = s.pos + 1]
    BY <1>2 DEF commit_auto_advance, PlayerSet
  <2> HIDE DEF r
  <2>3. r \in PlayerSet
    BY <2>1, <2>2 DEF PlayerSet
  <2>4. SamePlace(s, r)
    BY <2>2 DEF PlayerSet, SamePlace
  <2>5. r.order = s.order /\ r.pending = s.pending
    BY <2>2 DEF PlayerSet
  <2> QED
    BY <2>3, <2>4, <2>5 DEF Paired, r
<1>3. CASE ~(s.queued > 0) /\ s.mode = "shuffle" /\ ~(s.pos + 1 <= Count(s)) /\ s.pending # <<>>
  <2>1. r = [s EXCEPT !.order = s.pending, !.pending = <<>>, !.pos = 1]
    BY <1>3 DEF commit_auto_advance
  <2>2. s.pending \in AnyBag /\ <<>> \in AnyBag /\ 1 \in Nat
    BY PlayerTypes, NoBag
  <2>3. r = Rebagged(s, s.pending, 1, <<>>)
    BY <2>1 DEF Rebagged, PlayerSet
  <2>4. r \in PlayerSet /\ SameButBag(s, r) /\ r.armed = s.armed /\ r.pending = <<>>
    BY <2>2, <2>3, NewBag
  <2> QED
    BY <2>4 DEF Paired, SamePlace, SameButBag
<1>4. CASE ~(s.queued > 0) /\ (s.mode # "shuffle" \/ (~(s.pos + 1 <= Count(s)) /\ s.pending = <<>>))
  <2>1. r = s
    BY <1>4 DEF commit_auto_advance
  <2> QED
    BY <2>1 DEF SamePlace
<1> QED
  BY <1>1, <1>2, <1>3, <1>4

LEMMA PreparedInStep ==
    ASSUME NEW s, Sound(s), BagInStep(s), NEW q \in Prepared(s)
    PROVE  Sound(q) /\ BagInStep(q)
<1>1. s \in PlayerSet /\ Paired(s) /\ Reported(s)
  BY DEF Sound
<1>2. /\ q \in PlayerSet /\ Paired(q) /\ SameButBag(s, q)
      /\ BagFits(s) => q.order = s.order /\ q.pos = s.pos
      /\ q = s \/ (q.order \in Orders(Count(s)) /\ (BagFits(s) \/ (q.pos = 1 /\ (Active(s) => q.order[1] = s.cur))))
  BY <1>1, PreparedSound
<1>3. Sound(q)
  BY <1>1, <1>2 DEF Sound, Reported, SameButBag
<1>4. Count(q) = Count(s) /\ Active(q) = Active(s) /\ q.cur = s.cur /\ q.mode = s.mode /\ q.slip = s.slip
  BY <1>2 DEF SameButBag, Count, Active
<1>5. CASE q = s
  BY <1>3, <1>5
<1>6. CASE BagFits(s)
  BY <1>2, <1>3, <1>4, <1>6 DEF BagInStep
<1>7. CASE ~BagFits(s) /\ q # s
  <2>1. Active(q) => 1 \in 1..Count(q)
    BY <1>2, PlayerTypes DEF Active
  <2> QED
    BY <1>2, <1>3, <1>4, <1>7, <2>1 DEF BagInStep
<1> QED
  BY <1>5, <1>6, <1>7

LEMMA AdvancesTo ==
    ASSUME NEW s, Sound(s), s.playing # NoTrack /\ ~s.slip => ~s.advanced,
           NEW i \in 1..Count(s), s.playing # NoTrack /\ ~s.slip => s.playing = s.list[i],
           NEW r \in on_track_auto_advanced(s, i)
    PROVE  QueueInv(r) /\ r.playing = s.playing /\ r.failed = s.failed /\ r.advanced = s.advanced
<1> DEFINE t == [s EXCEPT !.cur = i]
<1>0. s \in PlayerSet /\ Paired(s) /\ Reported(s)
  BY DEF Sound
<1>1. r \in arm_next_track_for_audio(t)
  BY DEF on_track_auto_advanced
<1>2. t \in PlayerSet
  BY <1>0, PlayerTypes DEF PlayerSet
<1>3. t.list = s.list /\ t.cur = i /\ t.playing = s.playing /\ t.order = s.order /\ t.pending = s.pending
  BY <1>0 DEF PlayerSet
<1>4. t.advanced = s.advanced /\ t.slip = s.slip /\ t.error = s.error /\ t.finished = s.finished /\ t.failed = s.failed
  BY <1>0 DEF PlayerSet
<1> HIDE DEF t
<1>5. Sound(t)
  BY <1>0, <1>2, <1>3, <1>4 DEF Sound, Paired, Reported
<1>6. Current(t)
  BY <1>3, <1>4 DEF Current, Active, TrackAt, Count
<1>7. QueueInv(r) /\ SameButBag(t, r)
  BY <1>1, <1>5, <1>6, ArmsInStep
<1> QED
  BY <1>3, <1>4, <1>7 DEF SameButBag

\* The GUI catches up with the engine.
LEMMA CatchesUp ==
    ASSUME NEW s, QueueInv(s), NEW r \in ConsumeAdvance(s)
    PROVE  QueueInv(r) /\ ~r.advanced /\ r.playing = s.playing
<1> DEFINE u == [s EXCEPT !.advanced = FALSE]
<1>0. s \in PlayerSet /\ Paired(s) /\ Reported(s) /\ Sound(s) /\ BagInStep(s) /\ InStep(s)
  BY DEF QueueInv, Sound
<1>1. u \in PlayerSet
  BY <1>0 DEF PlayerSet
<1>2. SameCourse(s, u) /\ u.failed = s.failed
  BY <1>0 DEF PlayerSet, SameCourse
<1>3. /\ u.gapless = s.gapless /\ u.playing = s.playing /\ u.armed = s.armed /\ u.finished = s.finished
      /\ u.error = s.error /\ u.slip = s.slip /\ u.advanced = FALSE
  BY <1>0 DEF PlayerSet
<1> HIDE DEF u
<1>4. Sound(u) /\ BagInStep(u)
  <2>1. Count(u) = Count(s) /\ Active(u) = Active(s) /\ BagFits(u) = BagFits(s)
    BY <1>2, CourseKept
  <2> QED
    BY <1>0, <1>1, <1>2, <1>3, <2>1 DEF Sound, Paired, Reported, BagInStep, SameCourse
<1>5. CASE ~s.advanced
  <2>1. r = u
    BY <1>5 DEF ConsumeAdvance, u
  <2>2. u.advanced = s.advanced
    BY <1>0, <1>3, <1>5, PlayerTypes
  <2>3. InStep(u)
    BY <1>0, <1>1, <1>2, <1>3, <2>2, KeptAlong
  <2> QED
    BY <1>3, <1>4, <2>1, <2>3 DEF QueueInv
<1>6. CASE s.advanced /\ ~(s.cur > 0)
  <2>1. r = u
    BY <1>6 DEF ConsumeAdvance, u
  <2>2. ~Active(s)
    BY <1>0, <1>6, PlayerTypes DEF Active
  <2>3. InStep(u)
    BY <1>0, <1>3, <2>2 DEF InStep
  <2> QED
    BY <1>3, <1>4, <2>1, <2>3 DEF QueueInv
<1>7. CASE s.advanced /\ s.cur > 0
  <2> DEFINE v == reset_decoder_failure_tracking(u)
  <2>1. /\ v \in PlayerSet /\ SameCourse(u, v) /\ v.gapless = u.gapless /\ v.playing = u.playing /\ v.armed = u.armed
        /\ v.advanced = u.advanced /\ v.finished = u.finished /\ v.error = u.error /\ v.slip = u.slip
    BY <1>1, ResetFields
  <2> HIDE DEF v
  <2>2. Sound(v) /\ BagInStep(v)
    BY <1>4, <2>1, KeptAlong
  <2>3. SameCourse(s, v)
    BY <1>2, <2>1 DEF SameCourse
  <2>4. PICK q \in Prepared(v) :
            r \in LET next == compute_auto_advance_index(q)
                  IN  IF next = 0 THEN {q} ELSE on_track_auto_advanced(commit_auto_advance(q), next)
    BY <1>7 DEF ConsumeAdvance, gui_player_handle_auto_advance, u, v
  <2> DEFINE next == compute_auto_advance_index(q)
             c == commit_auto_advance(q)
  <2>5. v \in PlayerSet /\ Paired(v) /\ Sound(q) /\ BagInStep(q)
    BY <2>2, <2>4, PreparedInStep DEF Sound
  <2>6. q \in PlayerSet /\ Paired(q) /\ SameButBag(v, q) /\ Named(q)
    BY <2>4, <2>5, PreparedSound
  <2>7. q.playing = s.playing /\ q.slip = s.slip /\ q.advanced = FALSE /\ q.list = s.list /\ q.cur = s.cur
    BY <1>3, <2>1, <2>3, <2>6 DEF SameButBag, SameCourse
  <2>8. ASSUME s.playing # NoTrack, ~s.slip
        PROVE  next \in 1..Count(q) /\ s.playing = q.list[next]
    <3>1. Active(s) /\ Ready(s) /\ s.playing = TrackAt(s, compute_auto_advance_index(s))
      BY <1>0, <1>7, <2>8 DEF InStep
    <3>2. Named(v)
      BY <2>3, <3>1, CourseKept DEF Ready
    <3>3. q = v
      BY <2>4, <3>2, NamedPrepared
    <3>4. s.playing = TrackAt(q, next)
      BY <2>3, <3>1, <3>3, CourseKept
    <3> QED
      BY <2>8, <3>4 DEF TrackAt
  <2>9. Active(q) => next \in 0..Count(q)
    BY <2>6, NextInList
  <2> HIDE DEF next, c
  <2>10. c \in PlayerSet /\ Paired(c) /\ SamePlace(q, c)
    BY <2>6, Commits DEF c
  <2>11. Sound(c)
    BY <2>5, <2>10 DEF Sound, Reported, SamePlace
  <2>12. r \in IF next = 0 THEN {q} ELSE on_track_auto_advanced(c, next)
    BY <2>4 DEF next, c
  <2>13. CASE next = 0
    <3>1. r = q
      BY <2>12, <2>13
    <3>2. InStep(q)
      <4>1. next \notin 1..Count(q)
        BY <2>13, <2>6, PlayerTypes
      <4> QED
        BY <2>7, <2>8, <4>1 DEF InStep
    <3> QED
      BY <2>5, <2>7, <3>1, <3>2 DEF QueueInv
  <2>14. CASE next # 0 /\ next \in 1..Count(q)
    <3>1. r \in on_track_auto_advanced(c, next)
      BY <2>12, <2>14
    <3>2. next \in 1..Count(c) /\ c.list[next] = q.list[next] /\ c.playing = s.playing /\ c.slip = s.slip /\ c.advanced = FALSE
      BY <2>7, <2>10, <2>14 DEF SamePlace, Count
    <3>3. QueueInv(r) /\ r.playing = c.playing /\ r.advanced = c.advanced
      BY <2>8, <2>11, <3>1, <3>2, AdvancesTo
    <3> QED
      BY <3>2, <3>3
  <2>15. CASE next # 0 /\ next \notin 1..Count(q)
    <3>1. ~Active(q)
      BY <2>6, <2>9, <2>15, PlayerTypes
    <3>2. Count(c) = Count(q) /\ Active(c) = Active(q) /\ c.playing = s.playing /\ c.slip = s.slip /\ c.advanced = FALSE
      BY <2>7, <2>10 DEF SamePlace, Count, Active
    <3>3. r = c
      BY <2>12, <2>15, <3>2 DEF on_track_auto_advanced
    <3>4. BagInStep(c)
      BY <3>1, <3>2 DEF BagInStep
    <3>5. InStep(c)
      BY <2>8, <2>15, <3>2 DEF InStep
    <3> QED
      BY <2>11, <3>2, <3>3, <3>4, <3>5 DEF QueueInv
  <2> QED
    BY <2>13, <2>14, <2>15
<1> QED
  BY <1>5, <1>6, <1>7

\* A handler looks at the engine first; the engine may move on right after.
Steady(s) == QueueInv(s) /\ (s.advanced => s.slip)

LEMMA SteadyIsCurrent == ASSUME NEW s, Steady(s) PROVE Sound(s) /\ Current(s)
  BY DEF Steady, QueueInv, InStep, Current

LEMMA HandedOverFields ==
    ASSUME NEW s \in PlayerSet
    PROVE  LET r == HandedOver(s)
           IN  /\ r \in PlayerSet /\ SameCourse(s, r) /\ r.playing = s.armed /\ r.armed = NoTrack
               /\ r.advanced = TRUE /\ r.gapless = s.gapless /\ r.finished = s.finished
               /\ r.error = s.error /\ r.slip = s.slip /\ r.failed = s.failed
<1> DEFINE r == HandedOver(s)
<1>0. s.armed \in AnyTrack /\ NoTrack \in AnyTrack /\ TRUE \in BOOLEAN
  BY PlayerTypes DEF AnyTrack
<1>1. r \in PlayerSet
  BY <1>0 DEF PlayerSet, HandedOver
<1>2. SameCourse(s, r) /\ r.playing = s.armed /\ r.armed = NoTrack
  BY DEF PlayerSet, SameCourse, HandedOver
<1>3. /\ r.advanced = TRUE /\ r.gapless = s.gapless /\ r.finished = s.finished
      /\ r.error = s.error /\ r.slip = s.slip /\ r.failed = s.failed
  BY DEF PlayerSet, HandedOver
<1> QED
  BY <1>1, <1>2, <1>3

\* The engine moves on to the track it holds.
LEMMA HandsOver ==
    ASSUME NEW s, QueueInv(s), CanHandOver(s)
    PROVE  QueueInv(HandedOver(s))
<1> DEFINE r == HandedOver(s)
<1>0. s \in PlayerSet /\ Paired(s) /\ Reported(s) /\ BagInStep(s) /\ InStep(s)
  BY DEF QueueInv, Sound
<1>1. /\ r \in PlayerSet /\ SameCourse(s, r) /\ r.playing = s.armed /\ r.armed = NoTrack
      /\ r.advanced = TRUE /\ r.finished = s.finished
      /\ r.error = s.error /\ r.slip = s.slip
  BY <1>0, HandedOverFields
<1> HIDE DEF r
<1>2. s.playing # NoTrack /\ s.armed # NoTrack
  BY DEF CanHandOver
<1>3. Sound(r)
  BY <1>0, <1>1, <1>2 DEF Sound, Paired, Reported, SameCourse
<1>4. /\ Count(r) = Count(s) /\ BagFits(r) = BagFits(s) /\ Active(r) = Active(s) /\ Ready(r) = Ready(s)
      /\ compute_auto_advance_index(r) = compute_auto_advance_index(s)
      /\ \A i : TrackAt(r, i) = TrackAt(s, i)
  BY <1>1, CourseKept
<1>5. BagInStep(r)
  BY <1>0, <1>1, <1>4 DEF BagInStep, SameCourse
<1>6. InStep(r)
  <2>1. SUFFICES ASSUME ~s.slip
                 PROVE  /\ Active(s) /\ Ready(s)
                        /\ s.armed = TrackAt(s, compute_auto_advance_index(s))
    BY <1>1, <1>4 DEF InStep
  <2>2. Active(s) /\ Ready(s)
    BY <1>0, <1>2, <2>1 DEF InStep
  <2>3. CASE s.advanced
    BY <1>0, <1>2, <2>1, <2>3 DEF InStep
  <2>4. CASE ~s.advanced
    BY <1>0, <1>2, <2>1, <2>4 DEF InStep, Follows
  <2> QED
    BY <2>2, <2>3, <2>4
<1> QED
  BY <1>3, <1>5, <1>6 DEF QueueInv, r

LEMMA SyncedIsSteady ==
    ASSUME NEW s, QueueInv(s), NEW r \in Synced(s)
    PROVE  Steady(r) /\ (s.playing = NoTrack => r.playing = NoTrack)
<1>1. CASE r \in ConsumeAdvance(s)
  BY <1>1, CatchesUp DEF Steady
<1>2. CASE r \notin ConsumeAdvance(s)
  <2>1. CanHandOver(s) /\ r = Slipped(HandedOver(s))
    BY <1>2 DEF Synced
  <2>2. QueueInv(HandedOver(s))
    BY <2>1, HandsOver
  <2>3. QueueInv(r) /\ r.slip
    BY <2>1, <2>2, SlippedInStep DEF QueueInv
  <2> QED
    BY <2>1, <2>3 DEF Steady, CanHandOver
<1> QED
  BY <1>1, <1>2

-----------------------------------------------------------------------------
\* Editing the list

LEMMA FunctionIsSequence ==
    ASSUME NEW S, NEW m \in Nat, NEW f \in [1..m -> S]
    PROVE  f \in Seq(S) /\ Len(f) = m
  OBVIOUS

LEMMA Inserts ==
    ASSUME NEW S, NEW seq \in Seq(S), NEW new \in Seq(S), NEW i \in 1..(Len(seq) + 1)
    PROVE  LET t == InsertAt(seq, i, new)
           IN  /\ t \in Seq(S) /\ Len(t) = Len(seq) + Len(new)
               /\ \A k \in 1..(i - 1) : t[k] = seq[k]
               /\ \A k \in 1..Len(new) : t[i - 1 + k] = new[k]
               /\ \A k \in i..Len(seq) : t[k + Len(new)] = seq[k]
<1> DEFINE a == SubSeq(seq, 1, i - 1)
           b == SubSeq(seq, i, Len(seq))
           c == a \o new
           t == InsertAt(seq, i, new)
<1>0. Len(seq) \in Nat /\ Len(new) \in Nat /\ i \in Nat /\ i - 1 \in Nat
  OBVIOUS
<1>1. a \in Seq(S) /\ Len(a) = i - 1 /\ \A k \in 1..(i - 1) : a[k] = seq[k]
  BY <1>0
<1>2. b \in Seq(S) /\ Len(b) = Len(seq) - i + 1 /\ \A k \in 1..(Len(seq) - i + 1) : b[k] = seq[i + k - 1]
  BY <1>0
<1> HIDE DEF a, b
<1>3. c \in Seq(S) /\ Len(c) = i - 1 + Len(new)
  <2>1. a \in Seq(S)
    BY <1>1
  <2>2. c \in Seq(S) /\ Len(c) = Len(a) + Len(new)
    BY <2>1
  <2>3. Len(a) = i - 1
    BY <1>1
  <2> QED
    BY <2>2, <2>3
<1>4. \A k \in 1..(i - 1) : c[k] = seq[k]
  BY <1>0, <1>1
<1>5. \A k \in 1..Len(new) : c[i - 1 + k] = new[k]
  BY <1>0, <1>1
<1> HIDE DEF c
<1>6. t = c \o b
  BY DEF InsertAt, a, b, c
<1> HIDE DEF t
<1>7. t \in Seq(S) /\ Len(t) = Len(seq) + Len(new)
  <2>1. t \in Seq(S) /\ Len(t) = Len(c) + Len(b)
    <3>1. b \in Seq(S) /\ c \in Seq(S)
      BY <1>2, <1>3
    <3> QED
      BY <1>6, <3>1
  <2>2. Len(c) + Len(b) = Len(seq) + Len(new)
    BY <1>0, <1>2, <1>3
  <2> QED
    BY <2>1, <2>2
<1>8. \A k \in 1..(i - 1) : t[k] = seq[k]
  BY <1>0, <1>2, <1>3, <1>4, <1>6
<1>9. \A k \in 1..Len(new) : t[i - 1 + k] = new[k]
  BY <1>0, <1>2, <1>3, <1>5, <1>6
<1>10. \A k \in i..Len(seq) : t[k + Len(new)] = seq[k]
  <2>1. SUFFICES ASSUME NEW k \in i..Len(seq) PROVE t[k + Len(new)] = seq[k]
    OBVIOUS
  <2>2. k - i + 1 \in 1..(Len(seq) - i + 1) /\ i + (k - i + 1) - 1 = k
    BY <1>0
  <2>3. t[Len(c) + (k - i + 1)] = b[k - i + 1]
    BY <1>0, <1>2, <1>3, <1>6, <2>2
  <2>4. Len(c) + (k - i + 1) = k + Len(new)
    BY <1>0, <1>3
  <2> QED
    BY <1>2, <2>2, <2>3, <2>4
<1> QED
  BY <1>7, <1>8, <1>9, <1>10 DEF t

LEMMA InsertsInto ==
    ASSUME NEW S, NEW seq \in Seq(S), NEW new \in Seq(S), NEW i \in 1..(Len(seq) + 1)
    PROVE  /\ InsertAt(seq, i, new) \in Seq(S)
           /\ Len(InsertAt(seq, i, new)) = Len(seq) + Len(new)
           /\ \A k \in 1..(i - 1) : InsertAt(seq, i, new)[k] = seq[k]
  BY Inserts

LEMMA Removes ==
    ASSUME NEW S, NEW seq \in Seq(S), NEW i \in 1..Len(seq)
    PROVE  LET t == RemoveAt(seq, i)
           IN  t \in Seq(S) /\ Len(t) = Len(seq) - 1 /\ \A k \in 1..(i - 1) : t[k] = seq[k]
<1> DEFINE a == SubSeq(seq, 1, i - 1)
           b == SubSeq(seq, i + 1, Len(seq))
           t == RemoveAt(seq, i)
<1>0. Len(seq) \in Nat /\ i \in Nat /\ i - 1 \in Nat
  OBVIOUS
<1>1. a \in Seq(S) /\ Len(a) = i - 1 /\ \A k \in 1..(i - 1) : a[k] = seq[k]
  BY <1>0
<1>2. b \in Seq(S) /\ Len(b) = Len(seq) - i
  BY <1>0
<1> HIDE DEF a, b
<1>3. t = a \o b
  BY DEF RemoveAt, a, b
<1> HIDE DEF t
<1>4. t \in Seq(S) /\ Len(t) = Len(seq) - 1
  BY <1>0, <1>1, <1>2, <1>3
<1>5. \A k \in 1..(i - 1) : t[k] = seq[k]
  BY <1>0, <1>1, <1>2, <1>3
<1> QED
  BY <1>4, <1>5 DEF t

\* The bag with the new songs in it is a bag of the longer list.
LEMMA BagGrows ==
    ASSUME NEW s \in PlayerSet, BagFits(s), NEW at \in 1..(Count(s) + 1), NEW added \in Nat
    PROVE  BagWith(s, at, added) \in Orders(Count(s) + added)
<1> DEFINE n == Count(s)
           N == n + added
           moved == [i \in 1..n |-> IF s.order[i] >= at THEN s.order[i] + added ELSE s.order[i]]
           new == [k \in 1..added |-> at + k - 1]
           slot == s.pos + at - s.cur
           j == IF slot < 1 THEN 1 ELSE IF slot > n + 1 THEN n + 1 ELSE slot
           b == InsertAt(moved, j, new)
<1>0. n \in Nat /\ N \in Nat /\ s.pos \in Nat /\ s.cur \in Nat /\ at \in Nat
  BY PlayerTypes
<1>1. s.order \in Orders(n) /\ Len(s.order) = n
  BY PlayerTypes, BagFitsItself DEF BagFits
<1>2. s.order \in [1..n -> 1..n] /\ \A i \in 1..n : \E k \in 1..n : s.order[k] = i
  BY <1>0, <1>1, OrderFits
<1>3. BagWith(s, at, added) = b
  BY <1>1 DEF BagWith
<1>4. moved \in Seq(1..N) /\ Len(moved) = n
  <2>1. \A i \in 1..n : s.order[i] \in 1..n
    BY <1>2
  <2>2. \A i \in 1..n : moved[i] \in 1..N
    BY <1>0, <2>1
  <2>3. moved \in [1..n -> 1..N]
    BY <2>2
  <2> HIDE DEF moved
  <2> QED
    BY <1>0, <2>3
<1>5. new \in Seq(1..N) /\ Len(new) = added
  <2>1. \A k \in 1..added : at + k - 1 \in 1..N
    BY <1>0
  <2>2. new \in [1..added -> 1..N]
    BY <2>1
  <2> HIDE DEF new, N
  <2> QED
    BY <2>2, FunctionIsSequence
<1>6. j \in 1..(n + 1)
  BY <1>0
<1>7. \A k \in 1..n : moved[k] = IF s.order[k] >= at THEN s.order[k] + added ELSE s.order[k]
  OBVIOUS
<1>8. \A k \in 1..added : new[k] = at + k - 1
  OBVIOUS
<1> HIDE DEF moved, new, j
<1>9. /\ b \in Seq(1..N) /\ Len(b) = N
      /\ \A k \in 1..(j - 1) : b[k] = moved[k]
      /\ \A k \in 1..added : b[j - 1 + k] = new[k]
      /\ \A k \in j..n : b[k + added] = moved[k]
  <2>1. j \in 1..(Len(moved) + 1)
    BY <1>4, <1>6
  <2>2. /\ b \in Seq(1..N) /\ Len(b) = Len(moved) + Len(new)
        /\ \A k \in 1..(j - 1) : b[k] = moved[k]
        /\ \A k \in 1..Len(new) : b[j - 1 + k] = new[k]
        /\ \A k \in j..Len(moved) : b[k + Len(new)] = moved[k]
    BY <1>4, <1>5, <2>1, Inserts
  <2> HIDE DEF b
  <2> QED
    BY <1>4, <1>5, <2>2
<1> HIDE DEF b
<1>10. \A k \in 1..n : \E m \in 1..N : b[m] = moved[k]
  <2>1. SUFFICES ASSUME NEW k \in 1..n PROVE \E m \in 1..N : b[m] = moved[k]
    OBVIOUS
  <2>2. CASE k < j
    <3>1. k \in 1..(j - 1) /\ k \in 1..N
      BY <1>0, <1>6, <2>2
    <3> QED
      BY <1>9, <3>1
  <2>3. CASE ~(k < j)
    <3>1. k \in j..n /\ k + added \in 1..N
      BY <1>0, <1>6, <2>3
    <3> QED
      BY <1>9, <3>1
  <2> QED
    BY <2>2, <2>3
<1>11. \A i \in 1..N : \E m \in 1..N : b[m] = i
  <2>1. SUFFICES ASSUME NEW i \in 1..N PROVE \E m \in 1..N : b[m] = i
    OBVIOUS
  <2>2. CASE i < at
    <3>1. i \in 1..n
      BY <1>0, <2>2
    <3>2. PICK k \in 1..n : s.order[k] = i
      BY <1>2, <3>1
    <3>3. moved[k] = i
      BY <1>0, <1>7, <2>2, <3>2
    <3> QED
      BY <1>10, <3>3
  <2>3. CASE at <= i /\ i < at + added
    <3>1. i - at + 1 \in 1..added /\ at + (i - at + 1) - 1 = i
      BY <1>0, <2>3
    <3>2. j - 1 + (i - at + 1) \in 1..N
      BY <1>0, <1>6, <3>1
    <3>3. b[j - 1 + (i - at + 1)] = i
      BY <1>8, <1>9, <3>1
    <3> QED
      BY <3>2, <3>3
  <2>4. CASE at + added <= i
    <3>1. i - added \in 1..n /\ i - added >= at /\ (i - added) + added = i
      BY <1>0, <2>4
    <3>2. PICK k \in 1..n : s.order[k] = i - added
      BY <1>2, <3>1
    <3>3. moved[k] = i
      BY <1>7, <3>1, <3>2
    <3> QED
      BY <1>10, <3>3
  <2> QED
    BY <1>0, <2>2, <2>3, <2>4
<1>12. b \in [1..N -> 1..N]
  BY <1>0, <1>9
<1>13. b \in Orders(N)
  BY <1>11, <1>12 DEF Orders
<1> QED
  BY <1>3, <1>13

LEMMA FreedFields ==
    ASSUME NEW s, Sound(s)
    PROVE  LET r == free_playlist(s)
           IN  /\ Sound(r) /\ r.list = <<>> /\ r.cur = 0 /\ r.order = <<>> /\ r.pending = <<>>
               /\ r.failed = {} /\ r.playing = s.playing /\ r.slip = s.slip /\ r.mode = s.mode
<1> DEFINE t == reset_decoder_failure_tracking(s)
           r == free_playlist(s)
<1>0. s \in PlayerSet /\ Reported(s)
  BY DEF Sound
<1>1. /\ t \in PlayerSet /\ t.failed = {} /\ SameCourse(s, t) /\ t.playing = s.playing
      /\ t.finished = s.finished /\ t.error = s.error /\ t.slip = s.slip
  BY <1>0, ResetFields
<1> HIDE DEF t
<1>2. r = [t EXCEPT !.list = <<>>, !.cur = 0, !.queued = 0, !.insert = 0,
                    !.order = <<>>, !.pos = 0, !.pending = <<>>]
  BY DEF free_playlist, t
<1>3. <<>> \in Seq(AnyTrack) /\ <<>> \in AnyBag /\ 0 \in Nat
  BY NoBag
<1> HIDE DEF r
<1>4. r \in PlayerSet
  BY <1>1, <1>2, <1>3 DEF PlayerSet
<1>5. r.list = <<>> /\ r.cur = 0 /\ r.order = <<>> /\ r.pending = <<>>
  BY <1>1, <1>2 DEF PlayerSet
<1>6. /\ r.failed = {} /\ r.playing = s.playing /\ r.slip = s.slip /\ r.mode = s.mode
      /\ r.finished = s.finished /\ r.error = s.error
  BY <1>1, <1>2 DEF PlayerSet, SameCourse
<1>7. Sound(r)
  BY <1>0, <1>4, <1>5, <1>6 DEF Sound, Paired, Reported
<1> QED
  BY <1>5, <1>6, <1>7 DEF r

\* A list takes the place of the one that was freed.
LEMMA OpensList ==
    ASSUME NEW s, Sound(s), s.order = <<>>, s.pending = <<>>, NEW l \in Seq(AnyTrack)
    PROVE  Sound([s EXCEPT !.list = l]) /\ [s EXCEPT !.list = l].list = l
<1> DEFINE r == [s EXCEPT !.list = l]
<1>0. s \in PlayerSet /\ Reported(s)
  BY DEF Sound
<1>1. r \in PlayerSet
  BY <1>0 DEF PlayerSet
<1>2. r.list = l /\ r.pending = s.pending /\ r.playing = s.playing /\ r.error = s.error /\ r.finished = s.finished
  BY <1>0 DEF PlayerSet
<1> QED
  BY <1>0, <1>1, <1>2 DEF Sound, Paired, Reported

LEMMA AddsMany ==
    ASSUME NEW s, Steady(s), NEW new \in Seq(AnyTrack), new # <<>>,
           NEW r \in gui_player_queue_add_many(s, new)
    PROVE  QueueInv(r) /\ r.playing = s.playing
<1>0. s \in PlayerSet /\ Paired(s) /\ Reported(s) /\ Sound(s) /\ Current(s) /\ InStep(s)
  BY SteadyIsCurrent DEF Steady, QueueInv, Sound
<1>1. /\ Count(s) \in Nat /\ s.cur \in Nat /\ s.queued \in Nat /\ s.insert \in Nat
      /\ s.list \in Seq(AnyTrack) /\ s.order \in AnyBag /\ s.slip \in BOOLEAN
  BY <1>0, PlayerTypes
<1>2. Len(new) \in Nat /\ Len(new) - 1 \in Nat /\ Len(new) + 1 \in Nat
  OBVIOUS
<1>3. CASE ~Active(s)
  <2> DEFINE u == free_playlist(s)
             k == IF Len(new) > 1 THEN Len(new) + 1 ELSE 0
  <2>1. Sound(u) /\ u.order = <<>> /\ u.pending = <<>> /\ u.playing = s.playing /\ u.slip = s.slip
    BY <1>0, FreedFields
  <2>2. r = [u EXCEPT !.list = new, !.cur = 1, !.queued = Len(new) - 1, !.insert = k, !.deferred = TRUE]
    BY <1>3 DEF gui_player_queue_add_many
  <2> HIDE DEF u
  <2>3. k \in Nat /\ u \in PlayerSet /\ Reported(u)
    BY <1>2, <2>1 DEF Sound
  <2> HIDE DEF k
  <2>4. r \in PlayerSet
    BY <1>2, <2>2, <2>3 DEF PlayerSet
  <2>5. r.order = <<>> /\ r.pending = <<>> /\ r.playing = s.playing /\ r.slip = s.slip
    BY <2>1, <2>2, <2>3 DEF PlayerSet
  <2>6. r.error = u.error /\ r.finished = u.finished /\ r.playing = u.playing
    BY <2>2, <2>3 DEF PlayerSet
  <2>7. Sound(r)
    BY <2>3, <2>4, <2>5, <2>6 DEF Sound, Paired, Reported
  <2>8. BagInStep(r)
    BY <2>5 DEF BagInStep, BagFits
  <2>9. InStep(r)
    BY <1>0, <1>3, <2>5 DEF InStep
  <2> QED
    BY <2>5, <2>7, <2>8, <2>9 DEF QueueInv
<1>4. CASE Active(s)
  <2> DEFINE at == IF s.insert \in 1..(Count(s) + 1) THEN s.insert ELSE s.cur + 1
             l == InsertAt(s.list, at, new)
             b == IF BagFits(s) THEN BagWith(s, at, Len(new)) ELSE s.order
             behind == s.slip \/ at <= s.cur
             t == [s EXCEPT !.list = l, !.slip = behind, !.queued = s.queued + Len(new),
                            !.insert = at + Len(new), !.order = b, !.pending = <<>>]
  <2>1. r \in arm_next_track_for_audio(t)
    BY <1>0, <1>4 DEF gui_player_queue_add_many, PlayerSet
  <2>2. at \in 1..(Count(s) + 1)
    BY <1>1, <1>4 DEF Active
  <2> HIDE DEF at
  <2>3. at \in 1..(Len(s.list) + 1) /\ at \in Nat
    BY <1>1, <2>2 DEF Count
  <2>4. l \in Seq(AnyTrack) /\ Len(l) = Count(s) + Len(new) /\ \A k \in 1..(at - 1) : l[k] = s.list[k]
    <3>1. l \in Seq(AnyTrack) /\ Len(l) = Len(s.list) + Len(new) /\ \A k \in 1..(at - 1) : l[k] = s.list[k]
      <4>1. s.list \in Seq(AnyTrack) /\ at \in 1..(Len(s.list) + 1)
        BY <1>1, <2>3
      <4> QED
        BY <4>1, InsertsInto, Zenon
    <3> QED
      BY <3>1 DEF Count
  <2>5. b \in AnyBag
    <3>1. CASE BagFits(s)
      <4>1. BagWith(s, at, Len(new)) \in Orders(Count(s) + Len(new))
        BY <1>0, <1>2, <2>2, <3>1, BagGrows
      <4>2. Count(s) + Len(new) \in Nat
        BY <1>1, <1>2
      <4> QED
        BY <3>1, <4>1, <4>2, OrderIsBag
    <3>2. CASE ~BagFits(s)
      BY <1>1, <3>2
    <3> QED
      BY <3>1, <3>2
  <2>6. s.queued + Len(new) \in Nat /\ at + Len(new) \in Nat /\ behind \in BOOLEAN
    BY <1>1, <1>2, <2>3
  <2>7. <<>> \in AnyBag
    BY NoBag
  <2> HIDE DEF l, b, behind
  <2>8. t \in PlayerSet
    BY <1>0, <2>4, <2>5, <2>6, <2>7 DEF PlayerSet
  <2>9. t.list = l /\ t.cur = s.cur /\ t.playing = s.playing /\ t.advanced = s.advanced /\ t.pending = <<>>
    BY <1>0 DEF PlayerSet
  <2>10. t.slip = behind /\ t.error = s.error /\ t.finished = s.finished
    BY <1>0 DEF PlayerSet
  <2> HIDE DEF t
  <2>11. Sound(t)
    BY <1>0, <2>8, <2>9, <2>10 DEF Sound, Paired, Reported
  <2>12. Current(t)
    <3>1. SUFFICES ASSUME t.playing # NoTrack, ~t.slip
                   PROVE  ~t.advanced /\ Active(t) /\ t.playing = TrackAt(t, t.cur)
      BY DEF Current
    <3>2. s.playing # NoTrack /\ ~s.slip /\ ~(at <= s.cur)
      BY <2>9, <2>10, <3>1 DEF behind
    <3>3. ~s.advanced /\ s.playing = TrackAt(s, s.cur)
      BY <1>0, <3>2 DEF Current
    <3>4. s.cur \in 1..(at - 1) /\ s.cur \in 1..Count(s) /\ s.cur \in 1..(Count(s) + Len(new))
      BY <1>1, <1>2, <1>4, <2>3, <3>2 DEF Active
    <3>5. l[s.cur] = s.list[s.cur]
      BY <2>4, <3>4
    <3> QED
      BY <2>4, <2>9, <3>3, <3>4, <3>5 DEF Active, TrackAt, Count
  <2>13. QueueInv(r) /\ SameButBag(t, r)
    BY <2>1, <2>11, <2>12, ArmsInStep
  <2> QED
    BY <2>9, <2>13 DEF SameButBag
<1> QED
  BY <1>3, <1>4

\* The place of the next song queued by hand.
LEMMA InsertionMoved ==
    ASSUME NEW s, QueueInv(s), NEW k \in Nat
    PROVE  LET r == [s EXCEPT !.insert = k]
           IN  QueueInv(r) /\ r.playing = s.playing /\ r.advanced = s.advanced /\ r.slip = s.slip
<1> DEFINE r == [s EXCEPT !.insert = k]
<1>0. s \in PlayerSet
  BY DEF QueueInv, Sound
<1>1. r \in PlayerSet
  BY <1>0 DEF PlayerSet
<1>2. SameCourse(s, r)
  BY <1>0 DEF PlayerSet, SameCourse
<1>3. /\ r.gapless = s.gapless /\ r.playing = s.playing /\ r.armed = s.armed
      /\ r.advanced = s.advanced /\ r.finished = s.finished /\ r.error = s.error /\ r.slip = s.slip
  BY <1>0 DEF PlayerSet
<1> HIDE DEF r
<1>4. QueueInv(r)
  BY <1>1, <1>2, <1>3, KeptAlong DEF QueueInv
<1> QED
  BY <1>3, <1>4 DEF r

\* A player whose bag has been ensured is as much in step as before.
LEMMA EnsuredInStep ==
    ASSUME NEW s, QueueInv(s), NEW e \in EnsureIfShuffling(s)
    PROVE  /\ QueueInv(e) /\ SameButBag(s, e)
           /\ s.mode = "shuffle" => e.order \in Orders(Count(e))
<1>0. s \in PlayerSet /\ Paired(s) /\ Reported(s) /\ BagInStep(s) /\ InStep(s)
  BY DEF QueueInv, Sound
<1>1. /\ e \in PlayerSet /\ Paired(e) /\ SameButBag(s, e) /\ e.armed = s.armed
      /\ s.mode = "shuffle" => e.order \in Orders(Count(s))
      /\ e = s \/ (s.mode = "shuffle" /\ e.pos = 1 /\ (Active(s) => e.order[1] = s.cur))
      /\ s.mode = "shuffle" /\ BagFits(s) => e = s
  BY <1>0, EnsuredSound
<1>2. Count(e) = Count(s) /\ Active(e) = Active(s)
  BY <1>1 DEF SameButBag, Count, Active
<1>3. CASE e = s
  BY <1>1, <1>2, <1>3
<1>4. CASE e # s
  <2>1. s.mode = "shuffle" /\ ~BagFits(s) /\ e.pos = 1 /\ (Active(s) => e.order[1] = s.cur)
    BY <1>1, <1>4
  <2>2. Sound(e)
    BY <1>0, <1>1 DEF Sound, Reported, SameButBag
  <2>3. Active(s) => 1 \in 1..Count(e)
    BY <1>0, <1>2, PlayerTypes DEF Active
  <2>4. BagInStep(e)
    BY <1>1, <1>2, <2>1, <2>3 DEF BagInStep, SameButBag
  <2>5. InStep(e)
    BY <1>0, <1>1, <2>1 DEF InStep, Ready, SameButBag
  <2> QED
    BY <1>1, <1>2, <2>2, <2>4, <2>5 DEF QueueInv
<1> QED
  BY <1>3, <1>4

LEMMA RenumberedFields ==
    ASSUME NEW s \in PlayerSet
    PROVE  LET r == Renumbered(s)
           IN  /\ r \in PlayerSet /\ SameCourse(s, r) /\ r.failed = s.failed
               /\ r.gapless = s.gapless /\ r.playing = s.playing /\ r.armed = s.armed
               /\ r.advanced = s.advanced /\ r.finished = s.finished /\ r.error = s.error /\ r.slip = s.slip
               /\ Sound(s) => Sound(r)
               /\ Current(s) => Current(r)
<1> DEFINE r == Renumbered(s)
           k == InsertAfterQueued(s)
<1>1. k \in Nat
  BY PlayerTypes DEF InsertAfterQueued
<1> HIDE DEF k
<1>2. r = [s EXCEPT !.insert = k]
  BY DEF Renumbered, k
<1> HIDE DEF r
<1>3. r \in PlayerSet
  BY <1>1, <1>2 DEF PlayerSet
<1>4. SameCourse(s, r) /\ r.failed = s.failed
  BY <1>2 DEF PlayerSet, SameCourse
<1>5. /\ r.gapless = s.gapless /\ r.playing = s.playing /\ r.armed = s.armed
      /\ r.advanced = s.advanced /\ r.finished = s.finished /\ r.error = s.error /\ r.slip = s.slip
  BY <1>2 DEF PlayerSet
<1>6. (Sound(s) => Sound(r)) /\ (Current(s) => Current(r))
  BY <1>3, <1>4, <1>5, KeptAlong
<1> QED
  BY <1>3, <1>4, <1>5, <1>6 DEF r

LEMMA DisplayedFits ==
    ASSUME NEW e \in PlayerSet, e.mode = "shuffle" => e.order \in Orders(Count(e))
    PROVE  Displayed(e) \in Seq(AnyTrack) /\ Len(Displayed(e)) = Count(e)
<1>1. Count(e) \in Nat /\ e.list \in Seq(AnyTrack) /\ Count(e) = Len(e.list)
  BY PlayerTypes DEF Count
<1>2. CASE e.mode = "shuffle"
  <2>1. Displayed(e) = [i \in 1..Count(e) |-> e.list[e.order[i]]]
    BY <1>2 DEF Displayed
  <2>2. e.order \in [1..Count(e) -> 1..Count(e)]
    BY <1>1, <1>2, OrderFits
  <2>3. \A i \in 1..Count(e) : e.list[e.order[i]] \in AnyTrack
    BY <1>1, <2>2
  <2>4. Displayed(e) \in [1..Count(e) -> AnyTrack]
    BY <2>1, <2>3
  <2> QED
    BY <1>1, <2>4, FunctionIsSequence
<1>3. CASE e.mode # "shuffle"
  BY <1>1, <1>3 DEF Displayed
<1> QED
  BY <1>2, <1>3

\* The list in the order shown plays the same track, and its bag is in list order.
LEMMA Materializes ==
    ASSUME NEW e, Steady(e), e.mode = "shuffle" => e.order \in Orders(Count(e)), e.list # <<>>
    PROVE  LET m == Materialized(e)
           IN  /\ Sound(m) /\ Current(m) /\ m.list # <<>> /\ Count(m) = Count(e) /\ m.cur = DisplayedAt(e)
               /\ m.playing = e.playing /\ m.advanced = e.advanced /\ m.slip = e.slip
               /\ m.pending = <<>> /\ m.mode = e.mode
               /\ BagFits(m) => m.order = [i \in 1..Count(m) |-> i]
<1> DEFINE at == DisplayedAt(e)
           l == Displayed(e)
           n == Count(e)
           b == IF BagFits(e) THEN [i \in 1..n |-> i] ELSE e.order
           j == IF BagFits(e) THEN at ELSE e.pos
           u == [e EXCEPT !.list = l, !.cur = at, !.order = b, !.pos = j, !.pending = <<>>]
           m == Materialized(e)
<1>0. e \in PlayerSet /\ Paired(e) /\ Reported(e) /\ BagInStep(e) /\ Current(e)
  BY SteadyIsCurrent DEF Steady, QueueInv, Sound
<1>1. n \in Nat /\ e.cur \in Nat /\ e.pos \in Nat /\ e.order \in AnyBag /\ e.list \in Seq(AnyTrack) /\ n # 0
  BY <1>0, PlayerTypes DEF Count
<1>2. l \in Seq(AnyTrack) /\ Len(l) = n
  BY <1>0, DisplayedFits
<1>3. at \in Nat
  BY <1>1 DEF DisplayedAt
<1>4. j \in Nat /\ b \in AnyBag /\ <<>> \in AnyBag
  BY <1>1, <1>3, NoBag, IdentityFits, OrderIsBag
<1>5. m = Renumbered(u)
  BY <1>0 DEF Materialized, PlayerSet
<1>6. b \notin {<<>>} /\ Len(b) = n => b = [i \in 1..n |-> i]
  BY <1>1 DEF BagFits
<1> HIDE DEF b, j, l, m, at
<1>7. u \in PlayerSet
  BY <1>0, <1>2, <1>3, <1>4 DEF PlayerSet
<1>8. u.list = l /\ u.cur = at /\ u.order = b /\ u.pending = <<>> /\ u.mode = e.mode
  BY <1>0 DEF PlayerSet
<1>9. /\ u.playing = e.playing /\ u.advanced = e.advanced /\ u.slip = e.slip
      /\ u.error = e.error /\ u.finished = e.finished
  BY <1>0 DEF PlayerSet
<1> HIDE DEF u
<1>10. Sound(u)
  BY <1>0, <1>7, <1>8, <1>9 DEF Sound, Paired, Reported
<1>11. Current(u)
  <2>1. SUFFICES ASSUME e.playing # NoTrack, ~e.slip
                 PROVE  at \in 1..n /\ e.playing = l[at]
    BY <1>0, <1>2, <1>8, <1>9 DEF Current, Active, TrackAt, Count
  <2>2. Active(e) /\ e.playing = e.list[e.cur]
    BY <1>0, <2>1 DEF Current, TrackAt, Active
  <2>3. CASE e.mode = "shuffle"
    <3>1. BagFits(e)
      BY <1>1, <2>3, OrderFits DEF BagFits
    <3>2. e.pos \in 1..n /\ e.order[e.pos] = e.cur
      BY <1>0, <2>1, <2>2, <2>3, <3>1 DEF BagInStep
    <3>3. at = e.pos /\ l = [i \in 1..n |-> e.list[e.order[i]]]
      BY <2>3 DEF at, l, DisplayedAt, Displayed
    <3> QED
      BY <2>2, <3>2, <3>3
  <2>4. CASE e.mode # "shuffle"
    BY <2>2, <2>4 DEF at, l, DisplayedAt, Displayed, Active
  <2> QED
    BY <2>3, <2>4
<1>12. /\ Sound(m) /\ Current(m) /\ SameCourse(u, m)
       /\ m.playing = u.playing /\ m.advanced = u.advanced /\ m.slip = u.slip
  BY <1>5, <1>7, <1>10, <1>11, RenumberedFields
<1>13. m.list = l /\ m.cur = at /\ m.order = b /\ m.pending = <<>> /\ m.mode = e.mode /\ Count(m) = n
  BY <1>2, <1>8, <1>12 DEF SameCourse, Count
<1>14. BagFits(m) => m.order = [i \in 1..Count(m) |-> i]
  BY <1>6, <1>13 DEF BagFits
<1>15. m.list # <<>>
  BY <1>1, <1>13 DEF Count
<1> QED
  BY <1>9, <1>12, <1>13, <1>14, <1>15 DEF m, at

LEMMA EntryGoes ==
    ASSUME NEW m, Sound(m), Current(m), m.pending = <<>>,
           BagFits(m) => m.order = [i \in 1..Count(m) |-> i],
           NEW from \in (m.cur + 1)..Count(m)
    PROVE  LET r == EntryRemoved(m, from)
           IN  Sound(r) /\ Current(r) /\ r.playing = m.playing
<1> DEFINE r == EntryRemoved(m, from)
           n == Count(m)
           l == RemoveAt(m.list, from)
           b == IF BagFits(m) THEN SubSeq(m.order, 1, Len(m.order) - 1) ELSE m.order
           k == IF from <= m.cur + m.queued THEN m.queued - 1 ELSE m.queued
<1>0. m \in PlayerSet /\ Reported(m)
  BY DEF Sound
<1>1. n \in Nat /\ m.cur \in Nat /\ m.queued \in Nat /\ m.order \in AnyBag /\ m.list \in Seq(AnyTrack) /\ n = Len(m.list)
  BY <1>0, PlayerTypes DEF Count
<1>2. from \in 1..n /\ from \in Nat /\ m.cur < from /\ n - 1 \in Nat
  BY <1>1
<1>3. k \in Nat
  BY <1>1, <1>2
<1>4. l \in Seq(AnyTrack) /\ Len(l) = n - 1 /\ \A i \in 1..(from - 1) : l[i] = m.list[i]
  <2>1. from \in 1..Len(m.list)
    BY <1>1, <1>2
  <2>2. l \in Seq(AnyTrack)
    BY <1>1, <2>1, Removes
  <2>3. Len(l) = Len(m.list) - 1
    BY <1>1, <2>1, Removes
  <2>4. \A i \in 1..(from - 1) : l[i] = m.list[i]
    BY <1>1, <2>1, Removes
  <2> QED
    BY <1>1, <2>2, <2>3, <2>4
<1>5. b \in AnyBag
  <2>1. CASE BagFits(m)
    <3>1. m.order = [i \in 1..n |-> i] /\ Len(m.order) = n
      BY <2>1 DEF BagFits
    <3>2. SubSeq(m.order, 1, n - 1) = [i \in 1..(n - 1) |-> i]
      BY <1>1, <1>2, <3>1
    <3>3. b = [i \in 1..(n - 1) |-> i]
      BY <2>1, <3>1, <3>2
    <3> QED
      BY <1>2, <3>3, IdentityFits, OrderIsBag
  <2>2. CASE ~BagFits(m)
    BY <1>1, <2>2
  <2> QED
    BY <2>1, <2>2
<1>6. r = [m EXCEPT !.list = l, !.order = b, !.queued = k]
  BY <1>0 DEF EntryRemoved, PlayerSet
<1> HIDE DEF r, l, b, k
<1>7. r \in PlayerSet
  BY <1>0, <1>3, <1>4, <1>5, <1>6 DEF PlayerSet
<1>8. r.list = l /\ r.cur = m.cur /\ r.pending = <<>> /\ r.playing = m.playing
  BY <1>0, <1>6 DEF PlayerSet
<1>9. r.advanced = m.advanced /\ r.slip = m.slip /\ r.error = m.error /\ r.finished = m.finished
  BY <1>0, <1>6 DEF PlayerSet
<1>10. Sound(r)
  BY <1>0, <1>7, <1>8, <1>9 DEF Sound, Paired, Reported
<1>11. Current(r)
  <2>1. SUFFICES ASSUME m.playing # NoTrack, ~m.slip
                 PROVE  ~m.advanced /\ m.cur \in 1..(n - 1) /\ m.playing = l[m.cur]
    BY <1>4, <1>8, <1>9 DEF Current, Active, TrackAt, Count
  <2>2. ~m.advanced /\ m.cur \in 1..n /\ m.playing = m.list[m.cur]
    BY <2>1 DEF Current, TrackAt, Active
  <2>3. m.cur \in 1..(from - 1) /\ m.cur \in 1..(n - 1)
    BY <1>1, <1>2, <2>2
  <2> QED
    BY <1>4, <2>2, <2>3
<1> QED
  BY <1>8, <1>10, <1>11 DEF r

LEMMA EntryMoves ==
    ASSUME NEW m, Sound(m), Current(m), m.pending = <<>>,
           NEW from \in (m.cur + 1)..Count(m), NEW to \in (m.cur + 1)..Count(m)
    PROVE  LET r == EntryMoved(m, from, to)
           IN  Sound(r) /\ Current(r) /\ r.playing = m.playing
<1> DEFINE r == EntryMoved(m, from, to)
           n == Count(m)
           end == m.cur + m.queued
           a == RemoveAt(m.list, from)
           l == Moved(m.list, from, to)
           k == IF from <= end /\ to > end THEN to - m.cur
                ELSE IF from > end /\ to <= end THEN m.queued + 1 ELSE m.queued
<1>0. m \in PlayerSet /\ Reported(m)
  BY DEF Sound
<1>1. n \in Nat /\ m.cur \in Nat /\ m.queued \in Nat /\ m.list \in Seq(AnyTrack) /\ n = Len(m.list)
  BY <1>0, PlayerTypes DEF Count
<1>2. from \in 1..n /\ to \in 1..n /\ from \in Nat /\ to \in Nat /\ m.cur < from /\ m.cur < to /\ n - 1 \in Nat
  BY <1>1
<1>3. k \in Nat
  BY <1>1, <1>2
<1>4. a \in Seq(AnyTrack) /\ Len(a) = n - 1 /\ \A i \in 1..(from - 1) : a[i] = m.list[i]
  <2>1. from \in 1..Len(m.list)
    BY <1>1, <1>2
  <2>2. a \in Seq(AnyTrack)
    BY <1>1, <2>1, Removes
  <2>3. Len(a) = Len(m.list) - 1
    BY <1>1, <2>1, Removes
  <2>4. \A i \in 1..(from - 1) : a[i] = m.list[i]
    BY <1>1, <2>1, Removes
  <2> QED
    BY <1>1, <2>2, <2>3, <2>4
<1>5. <<m.list[from]>> \in Seq(AnyTrack) /\ Len(<<m.list[from]>>) = 1
  <2>1. m.list[from] \in AnyTrack
    BY <1>1, <1>2
  <2> QED
    BY <2>1
<1>6. l \in Seq(AnyTrack) /\ Len(l) = n /\ \A i \in 1..(to - 1) : l[i] = a[i]
  <2> HIDE DEF a
  <2>1. to \in 1..(Len(a) + 1)
    BY <1>1, <1>2, <1>4
  <2>2. l = InsertAt(a, to, <<m.list[from]>>)
    BY DEF Moved, a
  <2> HIDE DEF l
  <2>3. l \in Seq(AnyTrack)
    BY <1>4, <1>5, <2>1, <2>2, Inserts
  <2>4. Len(l) = Len(a) + Len(<<m.list[from]>>)
    BY <1>4, <1>5, <2>1, <2>2, Inserts
  <2>5. \A i \in 1..(to - 1) : l[i] = a[i]
    BY <1>4, <1>5, <2>1, <2>2, Inserts
  <2> QED
    BY <1>1, <1>4, <1>5, <2>3, <2>4, <2>5
<1>7. r = [m EXCEPT !.list = l, !.queued = k]
  BY <1>0 DEF EntryMoved, PlayerSet
<1> HIDE DEF r, l, a, k
<1>8. r \in PlayerSet
  BY <1>0, <1>3, <1>6, <1>7 DEF PlayerSet
<1>9. r.list = l /\ r.cur = m.cur /\ r.pending = <<>> /\ r.playing = m.playing
  BY <1>0, <1>7 DEF PlayerSet
<1>10. r.advanced = m.advanced /\ r.slip = m.slip /\ r.error = m.error /\ r.finished = m.finished
  BY <1>0, <1>7 DEF PlayerSet
<1>11. Sound(r)
  BY <1>0, <1>8, <1>9, <1>10 DEF Sound, Paired, Reported
<1>12. Current(r)
  <2>1. SUFFICES ASSUME m.playing # NoTrack, ~m.slip
                 PROVE  ~m.advanced /\ m.cur \in 1..n /\ m.playing = l[m.cur]
    BY <1>6, <1>9, <1>10 DEF Current, Active, TrackAt, Count
  <2>2. ~m.advanced /\ m.cur \in 1..n /\ m.playing = m.list[m.cur]
    BY <2>1 DEF Current, TrackAt, Active
  <2>3. m.cur \in 1..(from - 1) /\ m.cur \in 1..(to - 1)
    BY <1>1, <1>2, <2>2
  <2> QED
    BY <1>4, <1>6, <2>2, <2>3
<1> QED
  BY <1>9, <1>11, <1>12 DEF r

-----------------------------------------------------------------------------
\* What the user does

\* A step from silence starts no file whose failure still counts.
Blameless(s, r) == s.playing = NoTrack /\ r.playing # NoTrack => r.playing \notin r.failed

Good(s, r) == QueueInv(r) /\ Blameless(s, r)

LEMMA PlayedIsGood ==
    ASSUME NEW o, NEW s, Sound(s), NEW i \in 1..Count(s), NEW r \in play_track_at(s, i)
    PROVE  Good(o, r)
<1>1. QueueInv(r) /\ r.failed = {}
  BY PlaysAfresh
<1> QED
  BY <1>1 DEF Good, Blameless

LEMMA EnsuredIsSteady ==
    ASSUME NEW s, Steady(s), NEW e \in EnsureIfShuffling(s)
    PROVE  /\ Steady(e) /\ SameButBag(s, e)
           /\ e.mode = "shuffle" => e.order \in Orders(Count(e))
<1>1. /\ QueueInv(e) /\ SameButBag(s, e)
      /\ s.mode = "shuffle" => e.order \in Orders(Count(e))
  BY EnsuredInStep DEF Steady
<1>2. e.mode = s.mode /\ e.advanced = s.advanced /\ e.slip = s.slip
  BY <1>1 DEF SameButBag
<1> QED
  BY <1>1, <1>2 DEF Steady

LEMMA StepFileSelected ==
    ASSUME QueueInv(p), NEW l \in Openable, NEW i \in 1..Len(l), on_file_selected(l, i)
    PROVE  Good(p, p')
<1> DEFINE u == free_playlist(p)
           t == [u EXCEPT !.list = l]
<1>1. Sound(u) /\ u.order = <<>> /\ u.pending = <<>>
  BY FreedFields DEF QueueInv
<1>2. l \in Seq(AnyTrack)
  BY QueueAssumption DEF AnyTrack
<1> HIDE DEF u
<1>3. Sound(t) /\ t.list = l
  BY <1>1, <1>2, OpensList
<1>4. p' \in play_track_at(t, i)
  BY DEF on_file_selected, u
<1> HIDE DEF t
<1>5. i \in 1..Count(t)
  BY <1>3 DEF Count
<1> QED
  BY <1>3, <1>4, <1>5, PlayedIsGood

LEMMA StepSetPlayMode ==
    ASSUME QueueInv(p), NEW m \in Modes, gui_player_set_play_mode(m)
    PROVE  Good(p, p')
<1> DEFINE s == [p EXCEPT !.mode = m]
<1>0. p \in PlayerSet /\ Paired(p) /\ Reported(p) /\ InStep(p)
  BY DEF QueueInv, Sound
<1>1. m \in AllModes
  BY QueueAssumption
<1>2. s \in PlayerSet
  BY <1>0, <1>1 DEF PlayerSet
<1>3. s.list = p.list /\ s.cur = p.cur /\ s.order = p.order /\ s.pending = p.pending
  BY <1>0 DEF PlayerSet
<1>4. /\ s.playing = p.playing /\ s.advanced = p.advanced /\ s.slip = p.slip
      /\ s.error = p.error /\ s.finished = p.finished
  BY <1>0 DEF PlayerSet
<1>5. p' \in IF s.cur = 0 THEN {s}
             ELSE arm_next_track_for_audio(IF s.advanced THEN Slipped(s) ELSE s)
  BY DEF gui_player_set_play_mode
<1> HIDE DEF s
<1>6. Sound(s)
  BY <1>0, <1>2, <1>3, <1>4 DEF Sound, Paired, Reported
<1>7. CASE s.cur = 0
  <2>1. p' = s /\ ~Active(s) /\ ~Active(p)
    BY <1>0, <1>3, <1>5, <1>7, PlayerTypes DEF Active
  <2>2. BagInStep(s)
    BY <2>1 DEF BagInStep
  <2>3. InStep(s)
    BY <1>0, <1>4, <2>1 DEF InStep
  <2> QED
    BY <1>4, <1>6, <2>1, <2>2, <2>3 DEF QueueInv, Good, Blameless
<1>8. CASE s.cur # 0 /\ s.advanced
  <2>1. p' \in arm_next_track_for_audio(Slipped(s))
    BY <1>5, <1>8
  <2>2. Sound(Slipped(s)) /\ Slipped(s).slip /\ Slipped(s).playing = p.playing
    BY <1>4, <1>6, SlippedInStep DEF QueueInv
  <2>3. Current(Slipped(s))
    BY <2>2 DEF Current
  <2>4. QueueInv(p') /\ SameButBag(Slipped(s), p')
    BY <2>1, <2>2, <2>3, ArmsInStep
  <2> QED
    BY <2>2, <2>4 DEF Good, Blameless, SameButBag
<1>9. CASE s.cur # 0 /\ ~s.advanced
  <2>1. p' \in arm_next_track_for_audio(s)
    BY <1>5, <1>9
  <2>2. Active(s) = Active(p) /\ TrackAt(s, s.cur) = TrackAt(p, p.cur)
    BY <1>3 DEF Active, TrackAt, Count
  <2>3. Current(s)
    BY <1>0, <1>4, <1>9, <2>2 DEF Current, InStep
  <2>4. QueueInv(p') /\ SameButBag(s, p')
    BY <1>6, <2>1, <2>3, ArmsInStep
  <2> QED
    BY <1>4, <2>4 DEF Good, Blameless, SameButBag
<1> QED
  BY <1>7, <1>8, <1>9

LEMMA StepSetGapless ==
    ASSUME QueueInv(p), NEW g \in BOOLEAN, gui_player_set_gapless_enabled(g)
    PROVE  Good(p, p')
<1> DEFINE s == [p EXCEPT !.gapless = g]
<1>0. p \in PlayerSet /\ Paired(p) /\ Reported(p) /\ BagInStep(p) /\ InStep(p)
  BY DEF QueueInv, Sound
<1>1. s \in PlayerSet
  BY <1>0 DEF PlayerSet
<1>2. SameCourse(p, s)
  BY <1>0 DEF PlayerSet, SameCourse
<1>3. /\ s.playing = p.playing /\ s.advanced = p.advanced /\ s.slip = p.slip
      /\ s.error = p.error /\ s.finished = p.finished
  BY <1>0 DEF PlayerSet
<1>4. p' \in IF Active(s) THEN arm_next_track_for_audio(s) ELSE {s}
  BY DEF gui_player_set_gapless_enabled
<1> HIDE DEF s
<1>5. Sound(s)
  BY <1>0, <1>1, <1>2, <1>3 DEF Sound, Paired, Reported, SameCourse
<1>6. /\ Count(s) = Count(p) /\ Active(s) = Active(p) /\ BagFits(s) = BagFits(p) /\ Ready(s) = Ready(p)
      /\ compute_auto_advance_index(s) = compute_auto_advance_index(p)
      /\ \A i : TrackAt(s, i) = TrackAt(p, i)
  BY <1>2, CourseKept
<1>7. CASE ~Active(s)
  <2>1. p' = s
    BY <1>4, <1>7
  <2>2. BagInStep(s)
    BY <1>7 DEF BagInStep
  <2>3. InStep(s)
    BY <1>0, <1>3, <1>6, <1>7 DEF InStep
  <2> QED
    BY <1>3, <1>5, <2>1, <2>2, <2>3 DEF QueueInv, Good, Blameless
<1>8. CASE Active(s) /\ s.advanced /\ ~s.slip /\ s.playing # NoTrack
  <2>1. p' \in arm_next_track_for_audio(s)
    BY <1>4, <1>8
  <2>2. Ready(s) /\ s.playing = TrackAt(s, compute_auto_advance_index(s))
    BY <1>0, <1>3, <1>6, <1>8 DEF InStep
  <2>3. SameCourse(s, p')
    BY <1>1, <1>8, <2>1, <2>2, ArmsOnly
  <2>4. p' \in PlayerSet /\ Paired(p') /\ SameButBag(s, p') /\ AtCurrent(p') /\ Follows(p')
    BY <1>1, <1>5, <2>1, Arms DEF Sound
  <2>5. /\ Active(p') = Active(s) /\ Ready(p') = Ready(s)
        /\ compute_auto_advance_index(p') = compute_auto_advance_index(s)
        /\ \A i : TrackAt(p', i) = TrackAt(s, i)
    BY <2>3, CourseKept
  <2>6. p'.playing = s.playing /\ p'.advanced = s.advanced /\ p'.slip = s.slip
    BY <2>4 DEF SameButBag
  <2>7. p'.armed \in {NoTrack, p'.playing}
    BY <2>2, <2>4, <2>5, <2>6 DEF Follows
  <2>8. InStep(p')
    BY <1>8, <2>2, <2>5, <2>6, <2>7 DEF InStep
  <2>9. Sound(p') /\ BagInStep(p')
    BY <1>5, <2>4 DEF Sound, Reported, SameButBag, AtCurrent, BagInStep
  <2> QED
    BY <1>3, <1>8, <2>8, <2>9 DEF QueueInv, Good, Blameless
<1>9. CASE Active(s) /\ ~(s.advanced /\ ~s.slip /\ s.playing # NoTrack)
  <2>1. p' \in arm_next_track_for_audio(s)
    BY <1>4, <1>9
  <2>2. Current(s)
    BY <1>0, <1>2, <1>3, <1>6, <1>9 DEF Current, InStep, SameCourse
  <2>3. QueueInv(p') /\ SameButBag(s, p')
    BY <1>5, <2>1, <2>2, ArmsInStep
  <2> QED
    BY <1>3, <2>3 DEF Good, Blameless, SameButBag
<1> QED
  BY <1>7, <1>8, <1>9

LEMMA StepAddToQueue ==
    ASSUME QueueInv(p), NEW new \in Additions, AddToQueue(new)
    PROVE  Good(p, p')
<1>1. PICK s \in Synced(p) : p' \in gui_player_queue_add_many(s, new)
  BY DEF AddToQueue
<1>2. new \in Seq(AnyTrack) /\ new # <<>>
  BY QueueAssumption DEF AnyTrack
<1>3. Steady(s) /\ (p.playing = NoTrack => s.playing = NoTrack)
  BY SyncedIsSteady
<1>4. QueueInv(p') /\ p'.playing = s.playing
  BY <1>1, <1>2, <1>3, AddsMany
<1> QED
  BY <1>3, <1>4 DEF Good, Blameless

LEMMA StepPlayNext ==
    ASSUME QueueInv(p), NEW new \in Additions, gui_player_queue_play_next(new[1])
    PROVE  Good(p, p')
<1>1. PICK s \in Synced(p) :
          \E r \in gui_player_queue_add_many([s EXCEPT !.insert = s.cur + 1], <<new[1]>>) :
              p' = [r EXCEPT !.insert = IF Count(r) = Count(s) THEN s.insert ELSE r.cur + 1 + r.queued]
  BY DEF gui_player_queue_play_next
<1> DEFINE t == [s EXCEPT !.insert = s.cur + 1]
<1>2. PICK r \in gui_player_queue_add_many(t, <<new[1]>>) :
          p' = [r EXCEPT !.insert = IF Count(r) = Count(s) THEN s.insert ELSE r.cur + 1 + r.queued]
  BY <1>1
<1>3. Steady(s) /\ (p.playing = NoTrack => s.playing = NoTrack)
  BY SyncedIsSteady
<1>4. s \in PlayerSet /\ s.cur + 1 \in Nat /\ s.insert \in Nat
  BY <1>3, PlayerTypes DEF Steady, QueueInv, Sound
<1>5. QueueInv(t) /\ t.playing = s.playing /\ t.advanced = s.advanced /\ t.slip = s.slip
  BY <1>3, <1>4, InsertionMoved DEF Steady
<1> HIDE DEF t
<1>6. Steady(t)
  BY <1>3, <1>5 DEF Steady
<1>7. <<new[1]>> \in Seq(AnyTrack) /\ <<new[1]>> # <<>>
  <2>1. new \in Seq(AnyTrack) /\ new # <<>>
    BY QueueAssumption DEF AnyTrack
  <2>2. new[1] \in AnyTrack
    BY <2>1
  <2> QED
    BY <2>2
<1>8. QueueInv(r) /\ r.playing = t.playing
  BY <1>2, <1>6, <1>7, AddsMany
<1> DEFINE k == IF Count(r) = Count(s) THEN s.insert ELSE r.cur + 1 + r.queued
<1>9. k \in Nat
  <2>1. r.cur \in Nat /\ r.queued \in Nat
    BY <1>8, PlayerTypes DEF QueueInv, Sound
  <2> QED
    BY <1>4, <2>1
<1> HIDE DEF k
<1>10. p' = [r EXCEPT !.insert = k]
  BY <1>2 DEF k
<1>11. QueueInv(p') /\ p'.playing = r.playing
  BY <1>8, <1>9, <1>10, InsertionMoved
<1> QED
  BY <1>3, <1>5, <1>8, <1>11 DEF Good, Blameless

LEMMA StepEdit ==
    ASSUME QueueInv(p), NEW from, NEW to, gui_player_queue_edit(from, to)
    PROVE  Good(p, p')
<1>1. PICK s \in Synced(p) :
        IF CaughtUp(p) THEN p' = s
        ELSE \E e \in EnsureIfShuffling(s) :
                p' \in IF \/ s.list = <<>>
                          \/ from \notin (DisplayedAt(e) + 1)..Count(e)
                          \/ to \notin {0} \cup (DisplayedAt(e) + 1)..Count(e)
                       THEN {e}
                       ELSE LET m == Materialized(e)
                            IN  arm_next_track_for_audio(Renumbered(
                                    IF to = 0 THEN EntryRemoved(m, from)
                                              ELSE EntryMoved(m, from, to)))
  BY DEF gui_player_queue_edit
<1>2. Steady(s) /\ QueueInv(s) /\ (p.playing = NoTrack => s.playing = NoTrack)
  BY SyncedIsSteady DEF Steady
<1>3. CASE CaughtUp(p)
  BY <1>1, <1>2, <1>3 DEF Good, Blameless
<1>4. CASE ~CaughtUp(p)
  <2>1. PICK e \in EnsureIfShuffling(s) :
                p' \in IF \/ s.list = <<>>
                          \/ from \notin (DisplayedAt(e) + 1)..Count(e)
                          \/ to \notin {0} \cup (DisplayedAt(e) + 1)..Count(e)
                       THEN {e}
                       ELSE arm_next_track_for_audio(Renumbered(
                                    IF to = 0 THEN EntryRemoved(Materialized(e), from)
                                              ELSE EntryMoved(Materialized(e), from, to)))
    BY <1>1, <1>4
  <2>2. Steady(e) /\ SameButBag(s, e) /\ (e.mode = "shuffle" => e.order \in Orders(Count(e)))
    BY <1>2, EnsuredIsSteady
  <2>3. e.list = s.list /\ e.playing = s.playing
    BY <2>2 DEF SameButBag
  <2>4. CASE p' = e
    BY <1>2, <2>2, <2>3, <2>4 DEF Steady, Good, Blameless
  <2>5. CASE p' # e
    <3> DEFINE m == Materialized(e)
               d == IF to = 0 THEN EntryRemoved(m, from) ELSE EntryMoved(m, from, to)
    <3>1. /\ e.list # <<>> /\ from \in (DisplayedAt(e) + 1)..Count(e)
          /\ to \in {0} \cup (DisplayedAt(e) + 1)..Count(e)
          /\ p' \in arm_next_track_for_audio(Renumbered(d))
      BY <2>1, <2>3, <2>5
    <3>2. /\ Sound(m) /\ Current(m) /\ Count(m) = Count(e) /\ m.cur = DisplayedAt(e)
          /\ m.playing = e.playing /\ m.pending = <<>>
          /\ BagFits(m) => m.order = [i \in 1..Count(m) |-> i]
      BY <2>2, <3>1, Materializes
    <3> HIDE DEF m
    <3>3. Sound(d) /\ Current(d) /\ d.playing = m.playing
      <4>1. CASE to = 0
        <5>1. from \in (m.cur + 1)..Count(m) /\ d = EntryRemoved(m, from)
          BY <3>1, <3>2, <4>1
        <5> QED
          BY <3>2, <5>1, EntryGoes
      <4>2. CASE to # 0
        <5>1. from \in (m.cur + 1)..Count(m) /\ to \in (m.cur + 1)..Count(m) /\ d = EntryMoved(m, from, to)
          BY <3>1, <3>2, <4>2
        <5> QED
          BY <3>2, <5>1, EntryMoves
      <4> QED
        BY <4>1, <4>2
    <3> HIDE DEF d
    <3>4. Sound(Renumbered(d)) /\ Current(Renumbered(d)) /\ Renumbered(d).playing = d.playing
      BY <3>3, RenumberedFields DEF Sound
    <3>5. QueueInv(p') /\ SameButBag(Renumbered(d), p')
      BY <3>1, <3>4, ArmsInStep
    <3> QED
      BY <1>2, <2>3, <3>2, <3>3, <3>4, <3>5 DEF Good, Blameless, SameButBag
  <2> QED
    BY <2>4, <2>5
<1> QED
  BY <1>3, <1>4

LEMMA StepSelect ==
    ASSUME QueueInv(p), NEW i, gui_player_queue_select(i)
    PROVE  Good(p, p')
<1> DEFINE left(m) == IF i > m.cur /\ i <= m.cur + m.queued
                      THEN m.queued - (i - m.cur)
                      ELSE IF i # m.cur THEN 0 ELSE m.queued
           chosen(m) == [m EXCEPT !.queued = left(m),
                                  !.insert = IF left(m) > 0 THEN i + 1 + left(m) ELSE 0,
                                  !.pos = IF m.order # <<>> THEN i ELSE @]
<1>1. PICK s \in Synced(p) :
        IF CaughtUp(p) \/ i \notin 1..Count(s) THEN p' = s
        ELSE \E e \in EnsureIfShuffling(s) : p' \in play_track_at(chosen(Materialized(e)), i)
  BY DEF gui_player_queue_select
<1>2. Steady(s) /\ QueueInv(s) /\ (p.playing = NoTrack => s.playing = NoTrack)
  BY SyncedIsSteady DEF Steady
<1>3. CASE CaughtUp(p) \/ i \notin 1..Count(s)
  BY <1>1, <1>2, <1>3 DEF Good, Blameless
<1>4. CASE ~(CaughtUp(p) \/ i \notin 1..Count(s))
  <2>1. PICK e \in EnsureIfShuffling(s) : p' \in play_track_at(chosen(Materialized(e)), i)
    BY <1>1, <1>4
  <2>2. Steady(e) /\ SameButBag(s, e) /\ (e.mode = "shuffle" => e.order \in Orders(Count(e)))
    BY <1>2, EnsuredIsSteady
  <2>3. e \in PlayerSet /\ e.list \in Seq(AnyTrack) /\ Count(e) \in Nat /\ i \in 1..Count(e)
    BY <1>4, <2>2, PlayerTypes DEF SameButBag, Count, Steady, QueueInv, Sound
  <2>4. e.list # <<>>
    BY <2>3 DEF Count
  <2> DEFINE m == Materialized(e)
             t == chosen(m)
  <2>5. Sound(m) /\ Count(m) = Count(e)
    BY <2>2, <2>4, Materializes
  <2> HIDE DEF m
  <2>6. m \in PlayerSet /\ Paired(m) /\ Reported(m) /\ m.cur \in Nat /\ m.queued \in Nat /\ m.pos \in Nat
    BY <2>5, PlayerTypes DEF Sound
  <2> DEFINE k == left(m)
             at == IF k > 0 THEN i + 1 + k ELSE 0
             j == IF m.order # <<>> THEN i ELSE m.pos
  <2>7. k \in Nat /\ i \in Nat
    BY <2>3, <2>6
  <2>8. at \in Nat /\ j \in Nat
    <3> HIDE DEF k
    <3> QED
      BY <2>6, <2>7
  <2>9. t = [m EXCEPT !.queued = k, !.insert = at, !.pos = j]
    BY <2>6 DEF PlayerSet
  <2> HIDE DEF t, k, at, j
  <2>10. t \in PlayerSet
    BY <2>6, <2>7, <2>8, <2>9 DEF PlayerSet
  <2>11. t.list = m.list /\ t.order = m.order /\ t.pending = m.pending
    BY <2>6, <2>9 DEF PlayerSet
  <2>12. t.error = m.error /\ t.finished = m.finished /\ t.playing = m.playing
    BY <2>6, <2>9 DEF PlayerSet
  <2>13. Sound(t) /\ i \in 1..Count(t)
    BY <2>3, <2>5, <2>6, <2>10, <2>11, <2>12 DEF Sound, Paired, Reported, Count
  <2>14. p' \in play_track_at(t, i)
    BY <2>1 DEF t, m
  <2> QED
    BY <2>13, <2>14, PlayedIsGood
<1> QED
  BY <1>3, <1>4

LEMMA StepClearAll ==
    ASSUME QueueInv(p), gui_player_queue_clear_all
    PROVE  Good(p, p')
<1> DEFINE kept(m, lazy) ==
               [m EXCEPT !.list = <<TrackAt(m, m.cur)>>, !.cur = 1, !.queued = 0, !.insert = 0,
                         !.order = IF lazy \/ @ = <<>> THEN <<>> ELSE <<1>>,
                         !.pos = IF lazy \/ m.order = <<>> THEN @ ELSE 1,
                         !.pending = <<>>]
<1>1. PICK s \in Synced(p) :
        IF ~Active(s) THEN p' = s
        ELSE \E e \in EnsureIfShuffling(s), lazy \in BOOLEAN :
                p' \in arm_next_track_for_audio(kept(IF lazy THEN s ELSE Materialized(e), lazy))
  BY DEF gui_player_queue_clear_all
<1>2. Steady(s) /\ QueueInv(s) /\ (p.playing = NoTrack => s.playing = NoTrack)
  BY SyncedIsSteady DEF Steady
<1>3. CASE ~Active(s)
  BY <1>1, <1>2, <1>3 DEF Good, Blameless
<1>4. CASE Active(s)
  <2>1. PICK e \in EnsureIfShuffling(s), lazy \in BOOLEAN :
            p' \in arm_next_track_for_audio(kept(IF lazy THEN s ELSE Materialized(e), lazy))
    BY <1>1, <1>4
  <2>2. Steady(e) /\ SameButBag(s, e) /\ (e.mode = "shuffle" => e.order \in Orders(Count(e)))
    BY <1>2, EnsuredIsSteady
  <2> DEFINE m == IF lazy THEN s ELSE Materialized(e)
             t == kept(m, lazy)
  <2>3. Sound(m) /\ Current(m) /\ m.playing = s.playing
    <3>1. CASE lazy
      BY <1>2, <3>1, SteadyIsCurrent
    <3>2. CASE ~lazy
      <4>1. s \in PlayerSet /\ s.list \in Seq(AnyTrack) /\ s.cur \in Nat
        BY <1>2, PlayerTypes DEF Steady, QueueInv, Sound
      <4>2. e.list # <<>> /\ e.playing = s.playing
        BY <1>4, <2>2, <4>1 DEF SameButBag, Active, Count
      <4>3. Sound(Materialized(e)) /\ Current(Materialized(e)) /\ Materialized(e).playing = e.playing
        BY <2>2, <4>2, Materializes
      <4> QED
        BY <3>2, <4>2, <4>3
    <3> QED
      BY <3>1, <3>2
  <2> HIDE DEF m
  <2>4. m \in PlayerSet /\ Reported(m) /\ m.pos \in Nat
    BY <2>3, PlayerTypes DEF Sound
  <2> DEFINE l == <<TrackAt(m, m.cur)>>
             b == IF lazy \/ m.order = <<>> THEN <<>> ELSE <<1>>
             j == IF lazy \/ m.order = <<>> THEN m.pos ELSE 1
  <2>5. l \in Seq(AnyTrack) /\ Len(l) = 1 /\ l[1] = TrackAt(m, m.cur)
    <3>1. TrackAt(m, m.cur) \in AnyTrack
      BY <2>4, TrackTypes
    <3> QED
      BY <3>1
  <2>6. b \in AnyBag /\ j \in Nat /\ <<>> \in AnyBag
    <3>1. <<1>> = [i \in 1..1 |-> i]
      OBVIOUS
    <3>2. <<1>> \in AnyBag
      BY <3>1, IdentityFits, OrderIsBag
    <3> QED
      BY <2>4, <3>2, NoBag
  <2>7. t = [m EXCEPT !.list = l, !.cur = 1, !.queued = 0, !.insert = 0, !.order = b, !.pos = j, !.pending = <<>>]
    BY <2>4 DEF PlayerSet
  <2> HIDE DEF t, l, b, j
  <2>8. t \in PlayerSet
    BY <2>4, <2>5, <2>6, <2>7 DEF PlayerSet
  <2>9. t.list = l /\ t.cur = 1 /\ t.pending = <<>> /\ t.playing = m.playing
    BY <2>4, <2>7 DEF PlayerSet
  <2>10. t.advanced = m.advanced /\ t.slip = m.slip /\ t.error = m.error /\ t.finished = m.finished
    BY <2>4, <2>7 DEF PlayerSet
  <2>11. Sound(t)
    BY <2>4, <2>8, <2>9, <2>10 DEF Sound, Paired, Reported
  <2>12. Current(t)
    <3>0. Count(t) = 1 /\ 1 \in 1..1
      BY <2>5, <2>9 DEF Count
    <3>1. Active(t) /\ t.list[1] = TrackAt(m, m.cur)
      BY <2>5, <2>9, <3>0, Zenon DEF Active
    <3>2. TrackAt(t, t.cur) = t.list[1]
      BY <2>9, <3>1 DEF TrackAt, Active
    <3> QED
      BY <2>3, <2>9, <2>10, <3>1, <3>2 DEF Current
  <2>13. p' \in arm_next_track_for_audio(t)
    BY <2>1 DEF t, m
  <2>14. QueueInv(p') /\ SameButBag(t, p')
    BY <2>11, <2>12, <2>13, ArmsInStep
  <2> QED
    BY <1>2, <2>3, <2>9, <2>14 DEF Good, Blameless, SameButBag
<1> QED
  BY <1>3, <1>4

LEMMA StepQueueStart ==
    ASSUME QueueInv(p), NEW m \in Modes, NEW i, queue_start(m, i)
    PROVE  Good(p, p')
<1> DEFINE started(e) == [e EXCEPT !.list = Displayed(e), !.cur = i, !.queued = 0, !.insert = 0,
                                   !.order = <<>>, !.pos = 0, !.pending = <<>>, !.mode = m]
<1>1. PICK e \in EnsureIfShuffling(p) :
          \E r \in arm_next_track_for_audio(started(e)) : p' \in play_track_at(r, i)
  BY DEF queue_start
<1> DEFINE t == started(e)
<1>2. PICK r \in arm_next_track_for_audio(t) : p' \in play_track_at(r, i)
  BY <1>1
<1>3. /\ QueueInv(e) /\ SameButBag(p, e)
      /\ p.mode = "shuffle" => e.order \in Orders(Count(e))
  BY EnsuredInStep
<1>4. e \in PlayerSet /\ Reported(e) /\ e.mode = p.mode /\ i \in 1..Count(e) /\ Count(e) \in Nat /\ m \in AllModes
  BY <1>3, PlayerTypes, QueueAssumption DEF QueueInv, Sound, SameButBag, Count, queue_start
<1>5. Displayed(e) \in Seq(AnyTrack) /\ Len(Displayed(e)) = Count(e)
  BY <1>3, <1>4, DisplayedFits
<1>6. i \in Nat /\ 0 \in Nat /\ <<>> \in AnyBag
  BY <1>4, NoBag
<1>7. t \in PlayerSet
  BY <1>4, <1>5, <1>6 DEF PlayerSet
<1>8. t.list = Displayed(e) /\ t.pending = <<>> /\ t.playing = e.playing /\ t.error = e.error /\ t.finished = e.finished
  BY <1>4 DEF PlayerSet
<1> HIDE DEF t
<1>9. Paired(t) /\ Reported(t)
  BY <1>4, <1>8 DEF Paired, Reported
<1>10. r \in PlayerSet /\ Paired(r) /\ SameButBag(t, r)
  BY <1>2, <1>7, <1>9, Arms
<1>11. Sound(r) /\ i \in 1..Count(r)
  BY <1>4, <1>5, <1>8, <1>9, <1>10 DEF Sound, Reported, SameButBag, Count
<1> QED
  BY <1>2, <1>11, PlayedIsGood

LEMMA PlaceKept ==
    ASSUME NEW s, Sound(s), NEW r \in PlayerSet, Paired(r), SamePlace(s, r)
    PROVE  Sound(r) /\ Count(r) = Count(s) /\ Active(r) = Active(s)
  BY DEF Sound, Reported, SamePlace, Count, Active

LEMMA DroppedFields ==
    ASSUME NEW s \in PlayerSet, Paired(s)
    PROVE  LET r == DropQueued(s) IN r \in PlayerSet /\ Paired(r) /\ SamePlace(s, r)
<1> DEFINE r == DropQueued(s)
<1>1. r \in PlayerSet
  BY DEF PlayerSet, DropQueued
<1>2. SamePlace(s, r)
  BY DEF PlayerSet, SamePlace, DropQueued
<1>3. r.order = s.order /\ r.pending = s.pending
  BY DEF PlayerSet, DropQueued
<1> QED
  BY <1>1, <1>2, <1>3 DEF Paired

LEMMA WrapsInList == ASSUME NEW i \in Nat, NEW n \in Nat, n # 0 PROVE (i % n) + 1 \in 1..n
  OBVIOUS

LEMMA ManualStepFits ==
    ASSUME NEW s0, Sound(s0), s0.cur > 0, NEW dir \in {"prev", "next"}, NEW t \in ManualSteps(s0, dir)
    PROVE  Sound(t.q) /\ t.at \in 0..Count(t.q) /\ t.q.playing = s0.playing
<1> DEFINE s == IF dir = "prev" THEN DropQueued(s0) ELSE s0
           to(r, i) == [q |-> r, at |-> i]
           n == Count(s)
           jump == dir = "next" /\ QueueJump(s)
           bags(e, i) == IF i < 1 THEN {to(e, 0)}
                         ELSE IF i <= n THEN {to([e EXCEPT !.pos = i], e.order[i])}
                         ELSE {to([e EXCEPT !.order = bag, !.pos = 1], bag[1]) : bag \in Orders(n)}
<1>0. s0 \in PlayerSet /\ Paired(s0)
  BY DEF Sound
<1>1. s \in PlayerSet /\ Paired(s) /\ SamePlace(s0, s)
  <2>1. CASE dir = "prev"
    BY <1>0, <2>1, DroppedFields
  <2>2. CASE dir # "prev"
    BY <1>0, <2>2 DEF SamePlace
  <2> QED
    BY <2>1, <2>2
<1>2. t \in IF s.list = <<>> THEN {to(s, 0)}
            ELSE IF jump THEN {to(ConsumeQueued(s), s.cur + 1)}
            ELSE CASE s.mode = "shuffle" ->
                        UNION {bags(e, IF dir = "next" THEN e.pos + 1 ELSE e.pos - 1)
                               : e \in ensure_shuffle_order_current(s)}
                   [] s.mode = "repeat_all" ->
                        {to(s, IF dir = "next" THEN (s.cur % n) + 1 ELSE ((s.cur + n - 2) % n) + 1)}
                   [] OTHER ->
                        LET i == IF dir = "next" THEN s.cur + 1 ELSE s.cur - 1
                        IN  {to(s, IF i \in 1..n THEN i ELSE 0)}
  BY DEF ManualSteps
<1> HIDE DEF s
<1>3. Sound(s) /\ s.playing = s0.playing /\ s.cur = s0.cur
  BY <1>1, PlaceKept DEF SamePlace
<1>4. n \in Nat /\ s.cur \in Nat /\ s.queued \in Nat /\ s.list \in Seq(AnyTrack) /\ s.cur > 0
  BY <1>1, <1>3, PlayerTypes
<1>5. CASE s.list = <<>>
  <2>1. t = to(s, 0)
    BY <1>2, <1>5
  <2> QED
    BY <1>3, <1>4, <2>1
<1>6. CASE s.list # <<>> /\ jump
  <2>1. t = to(ConsumeQueued(s), s.cur + 1)
    BY <1>2, <1>6
  <2>2. s.queued > 0 /\ s.cur + 1 <= n
    BY <1>6 DEF QueueJump
  <2>3. ConsumeQueued(s) \in PlayerSet /\ Paired(ConsumeQueued(s)) /\ SamePlace(s, ConsumeQueued(s))
    BY <1>1, <2>2, Consumes
  <2>4. Sound(ConsumeQueued(s)) /\ Count(ConsumeQueued(s)) = n /\ ConsumeQueued(s).playing = s.playing
    BY <1>3, <2>3, PlaceKept DEF SamePlace
  <2>5. s.cur + 1 \in 0..n
    BY <1>4, <2>2
  <2> QED
    BY <1>3, <2>1, <2>4, <2>5
<1>7. CASE s.list # <<>> /\ ~jump /\ s.mode = "shuffle"
  <2>1. PICK e \in ensure_shuffle_order_current(s) :
            t \in bags(e, IF dir = "next" THEN e.pos + 1 ELSE e.pos - 1)
    BY <1>2, <1>7
  <2> DEFINE i == IF dir = "next" THEN e.pos + 1 ELSE e.pos - 1
  <2>2. e \in PlayerSet /\ Paired(e) /\ SameButBag(s, e) /\ e.armed = s.armed /\ e.order \in Orders(n)
    BY <1>1, EnsureSound
  <2>3. Sound(e) /\ Count(e) = n /\ e.playing = s.playing
    BY <1>3, <2>2 DEF Sound, Reported, SameButBag, Count
  <2>4. i \in Int /\ e.pending \in AnyBag /\ e.pos \in Nat
    BY <2>2, PlayerTypes
  <2>5. n # 0
    BY <1>4, <1>7 DEF Count
  <2> HIDE DEF i
  <2>6. CASE i < 1
    <3>1. t = to(e, 0)
      BY <2>1, <2>6 DEF i
    <3> QED
      BY <1>3, <1>4, <2>3, <3>1
  <2>7. CASE ~(i < 1) /\ i <= n
    <3> DEFINE u == [e EXCEPT !.pos = i]
    <3>1. t = to(u, e.order[i])
      BY <2>1, <2>7 DEF i
    <3>2. i \in 1..n /\ i \in Nat
      BY <1>4, <2>4, <2>7
    <3>3. e.order[i] \in 1..n
      BY <1>4, <2>2, <3>2, OrderFits
    <3>4. u \in PlayerSet
      BY <2>2, <3>2 DEF PlayerSet
    <3>5. SamePlace(e, u)
      BY <2>2 DEF PlayerSet, SamePlace
    <3>6. u.order = e.order /\ u.pending = e.pending
      BY <2>2 DEF PlayerSet
    <3> HIDE DEF u
    <3>7. Paired(u)
      BY <2>2, <3>6 DEF Paired
    <3>8. Sound(u) /\ Count(u) = n /\ u.playing = s.playing
      BY <2>3, <3>4, <3>5, <3>7, PlaceKept DEF SamePlace
    <3>9. e.order[i] \in 0..n
      BY <1>4, <3>3
    <3> QED
      BY <1>3, <3>1, <3>8, <3>9
  <2>8. CASE ~(i < 1) /\ ~(i <= n)
    <3>1. PICK bag \in Orders(n) : t = to([e EXCEPT !.order = bag, !.pos = 1], bag[1])
      BY <2>1, <2>8 DEF i
    <3> DEFINE u == [e EXCEPT !.order = bag, !.pos = 1]
    <3>2. bag \in AnyBag /\ 1 \in Nat /\ Len(bag) = n
      BY <1>4, OrderIsBag, OrderFits
    <3>3. bag[1] \in 1..n
      <4>1. bag \in [1..n -> 1..n]
        BY <1>4, OrderFits
      <4> QED
        BY <1>4, <2>5, <4>1
    <3>4. u \in PlayerSet
      BY <2>2, <3>2 DEF PlayerSet
    <3>5. SamePlace(e, u)
      BY <2>2 DEF PlayerSet, SamePlace
    <3>6. u.order = bag /\ u.pending = e.pending
      BY <2>2 DEF PlayerSet
    <3> HIDE DEF u
    <3>7. Paired(u)
      BY <1>4, <2>2, <3>2, <3>6, OrderFits DEF Paired
    <3>8. Sound(u) /\ Count(u) = n /\ u.playing = s.playing
      BY <2>3, <3>4, <3>5, <3>7, PlaceKept DEF SamePlace
    <3>9. bag[1] \in 0..n
      BY <1>4, <3>3
    <3> QED
      BY <1>3, <3>1, <3>8, <3>9 DEF u
  <2> QED
    BY <2>6, <2>7, <2>8
<1>8. CASE s.list # <<>> /\ ~jump /\ s.mode = "repeat_all"
  <2> DEFINE i == IF dir = "next" THEN (s.cur % n) + 1 ELSE ((s.cur + n - 2) % n) + 1
  <2>1. t = to(s, i)
    BY <1>2, <1>8
  <2>2. n # 0
    BY <1>4, <1>8 DEF Count
  <2>3. s.cur + n - 2 \in Nat
    BY <1>4, <2>2
  <2>4. (s.cur % n) + 1 \in 1..n /\ ((s.cur + n - 2) % n) + 1 \in 1..n
    BY <1>4, <2>2, <2>3, WrapsInList, Zenon
  <2>5. i \in 0..n
    <3>1. i \in 1..n
      BY <2>4, Zenon
    <3> HIDE DEF i
    <3> QED
      BY <1>4, <3>1
  <2> HIDE DEF i
  <2> QED
    BY <1>3, <2>1, <2>5
<1>9. CASE s.list # <<>> /\ ~jump /\ s.mode # "shuffle" /\ s.mode # "repeat_all"
  <2> DEFINE i == IF dir = "next" THEN s.cur + 1 ELSE s.cur - 1
             at == IF i \in 1..n THEN i ELSE 0
  <2>1. t = to(s, at)
    BY <1>2, <1>9
  <2>2. at \in 0..n
    BY <1>4
  <2> HIDE DEF at
  <2> QED
    BY <1>3, <2>1, <2>2
<1> QED
  BY <1>5, <1>6, <1>7, <1>8, <1>9

LEMMA StepManual ==
    ASSUME QueueInv(p), NEW dir \in {"prev", "next"}, gui_player_step_manual(dir)
    PROVE  Good(p, p')
<1> DEFINE s == reset_decoder_failure_tracking(p)
<1>0. p \in PlayerSet
  BY DEF QueueInv, Sound
<1>1. /\ s \in PlayerSet /\ s.failed = {} /\ SameCourse(p, s) /\ s.gapless = p.gapless
      /\ s.playing = p.playing /\ s.armed = p.armed
      /\ s.advanced = p.advanced /\ s.finished = p.finished /\ s.error = p.error /\ s.slip = p.slip
  BY <1>0, ResetFields
<1>2. s.cur > 0
  BY DEF gui_player_step_manual
<1>3. PICK t \in ManualSteps(s, dir) :
          p' \in IF t.at > 0 THEN play_track_at(t.q, t.at) ELSE {IF t.q = s THEN s ELSE Slipped(t.q)}
  BY DEF gui_player_step_manual
<1> HIDE DEF s
<1>4. QueueInv(s)
  BY <1>1, KeptAlong DEF QueueInv
<1>5. Sound(t.q) /\ t.at \in 0..Count(t.q) /\ t.q.playing = p.playing
  BY <1>1, <1>2, <1>3, <1>4, ManualStepFits DEF QueueInv
<1>6. CASE t.at > 0
  <2>1. t.at \in 1..Count(t.q)
    BY <1>5, <1>6
  <2> QED
    BY <1>3, <1>5, <1>6, <2>1, PlayedIsGood
<1>7. CASE ~(t.at > 0)
  <2>1. p' = s \/ p' = Slipped(t.q)
    BY <1>3, <1>7
  <2>2. QueueInv(Slipped(t.q)) /\ Slipped(t.q).playing = p.playing
    BY <1>5, SlippedInStep
  <2> QED
    BY <1>1, <1>4, <2>1, <2>2 DEF Good, Blameless
<1> QED
  BY <1>6, <1>7

LEMMA StepDelete ==
    ASSUME QueueInv(p), delete_song_confirm_cb
    PROVE  Good(p, p')
<1> DEFINE l == RemoveAt(p.list, p.cur)
           s == [p EXCEPT !.list = l]
           i == IF s.cur <= Count(s) THEN s.cur ELSE Count(s)
<1>0. p \in PlayerSet /\ Paired(p) /\ Reported(p)
  BY DEF QueueInv, Sound
<1>1. p.list \in Seq(AnyTrack) /\ p.cur \in 1..Len(p.list) /\ p.cur \in Nat
  BY <1>0, PlayerTypes DEF delete_song_confirm_cb, Active, Count
<1>2. l \in Seq(AnyTrack)
  BY <1>1, Removes
<1>3. p' \in IF s.list = <<>> THEN {[s EXCEPT !.cur = 0, !.playing = NoTrack]} ELSE play_track_at(s, i)
  BY <1>0 DEF delete_song_confirm_cb, PlayerSet
<1> HIDE DEF l
<1>4. s \in PlayerSet
  BY <1>0, <1>2 DEF PlayerSet
<1>5. s.list = l /\ s.cur = p.cur /\ s.order = p.order /\ s.pending = p.pending
  BY <1>0 DEF PlayerSet
<1>6. s.playing = p.playing /\ s.error = p.error /\ s.finished = p.finished
  BY <1>0 DEF PlayerSet
<1> HIDE DEF s
<1>7. Sound(s)
  BY <1>0, <1>4, <1>5, <1>6 DEF Sound, Paired, Reported
<1>8. CASE s.list = <<>>
  <2> DEFINE r == [s EXCEPT !.cur = 0, !.playing = NoTrack]
  <2>1. p' = r
    BY <1>3, <1>8
  <2>2. NoTrack \in AnyTrack
    BY DEF AnyTrack
  <2>3. r \in PlayerSet
    BY <1>4, <2>2 DEF PlayerSet
  <2>4. r.cur = 0 /\ r.playing = NoTrack /\ r.order = s.order /\ r.pending = s.pending
    BY <1>4 DEF PlayerSet
  <2> HIDE DEF r
  <2>5. Sound(r)
    BY <1>7, <2>3, <2>4 DEF Sound, Paired, Reported
  <2>6. ~Active(r)
    BY <2>3, <2>4, PlayerTypes DEF Active
  <2> QED
    BY <2>1, <2>4, <2>5, <2>6 DEF QueueInv, BagInStep, InStep, Good, Blameless
<1>9. CASE s.list # <<>>
  <2>1. Count(s) \in Nat /\ Count(s) # 0
    BY <1>2, <1>5, <1>9 DEF Count
  <2>2. i \in 1..Count(s)
    BY <1>1, <1>5, <2>1
  <2> HIDE DEF i
  <2> QED
    BY <1>3, <1>7, <1>9, <2>2, PlayedIsGood
<1> QED
  BY <1>8, <1>9

LEMMA StepTogglePlay ==
    ASSUME QueueInv(p), toggle_play_pause
    PROVE  Good(p, p')
<1> DEFINE s == [p EXCEPT !.deferred = FALSE]
<1>0. p \in PlayerSet /\ Paired(p) /\ Reported(p) /\ BagInStep(p) /\ InStep(p)
  BY DEF QueueInv, Sound
<1>1. s \in PlayerSet
  BY <1>0 DEF PlayerSet
<1>2. SameCourse(p, s)
  BY <1>0 DEF PlayerSet, SameCourse
<1>3. /\ s.gapless = p.gapless /\ s.playing = p.playing /\ s.armed = p.armed
      /\ s.advanced = p.advanced /\ s.finished = p.finished /\ s.error = p.error /\ s.slip = p.slip
  BY <1>0 DEF PlayerSet
<1>4. p' \in play_track_at(s, p.cur)
  BY DEF toggle_play_pause
<1> HIDE DEF s
<1>5. QueueInv(s)
  BY <1>1, <1>2, <1>3, KeptAlong DEF QueueInv
<1>6. CASE p.cur \in 1..Count(s)
  BY <1>4, <1>5, <1>6, PlayedIsGood DEF QueueInv
<1>7. CASE p.cur \notin 1..Count(s)
  <2> DEFINE u == reset_decoder_failure_tracking(s)
  <2>1. /\ u \in PlayerSet /\ u.failed = {} /\ SameCourse(s, u) /\ u.gapless = s.gapless
        /\ u.playing = s.playing /\ u.armed = s.armed
        /\ u.advanced = s.advanced /\ u.finished = s.finished /\ u.error = s.error /\ u.slip = s.slip
    BY <1>1, ResetFields
  <2> HIDE DEF u
  <2>2. p' = u
    BY <1>4, <1>7, <2>1 DEF play_track_at, play_track_at_from_internal, u, SameCourse, Count
  <2>3. QueueInv(u)
    BY <1>5, <2>1, KeptAlong DEF QueueInv
  <2> QED
    BY <1>3, <2>1, <2>2, <2>3 DEF Good, Blameless
<1> QED
  BY <1>6, <1>7

-----------------------------------------------------------------------------
\* What the outside world does

\* Nothing plays, and the bag is as it was.
LEMMA SilencedIsGood ==
    ASSUME NEW s, QueueInv(s), NEW r \in PlayerSet, SameCourse(s, r), r.playing = NoTrack, r.slip = s.slip
    PROVE  Good(s, r)
<1>1. Count(r) = Count(s) /\ Active(r) = Active(s) /\ BagFits(r) = BagFits(s)
  BY CourseKept
<1>2. Sound(r)
  BY DEF QueueInv, Sound, Paired, Reported, SameCourse
<1>3. BagInStep(r)
  BY <1>1 DEF QueueInv, BagInStep, SameCourse
<1> QED
  BY <1>2, <1>3 DEF QueueInv, InStep, Good, Blameless

LEMMA StepSnapshot ==
    ASSUME QueueInv(p), gui_player_queue_snapshot
    PROVE  Good(p, p')
<1>1. QueueInv(p') /\ SameButBag(p, p')
  BY EnsuredInStep DEF gui_player_queue_snapshot
<1> QED
  BY <1>1 DEF Good, Blameless, SameButBag

LEMMA StepBlock ==
    ASSUME QueueInv(p), NEW bl \in BOOLEAN, external_dac_block_reason(bl)
    PROVE  Good(p, p')
<1> DEFINE t == IF bl THEN NoTrack ELSE p.playing
<1>0. p \in PlayerSet
  BY DEF QueueInv, Sound
<1>1. t \in AnyTrack
  BY <1>0, PlayerTypes DEF AnyTrack
<1>2. p' = [p EXCEPT !.blocked = bl, !.playing = t]
  BY <1>0 DEF external_dac_block_reason, PlayerSet
<1>3. bl => t = NoTrack
  OBVIOUS
<1>4. ~bl => t = p.playing
  OBVIOUS
<1> HIDE DEF t
<1>5. p' \in PlayerSet
  BY <1>0, <1>1, <1>2 DEF PlayerSet
<1>6. SameCourse(p, p')
  BY <1>0, <1>2 DEF PlayerSet, SameCourse
<1>7. /\ p'.gapless = p.gapless /\ p'.playing = t /\ p'.armed = p.armed /\ p'.advanced = p.advanced
      /\ p'.finished = p.finished /\ p'.error = p.error /\ p'.slip = p.slip
  BY <1>0, <1>2 DEF PlayerSet
<1>8. CASE bl
  BY <1>3, <1>5, <1>6, <1>7, <1>8, SilencedIsGood
<1>9. CASE ~bl
  <2>1. QueueInv(p')
    BY <1>4, <1>5, <1>6, <1>7, <1>9, KeptAlong DEF QueueInv
  <2> QED
    BY <1>4, <1>7, <1>9, <2>1 DEF Good, Blameless
<1> QED
  BY <1>8, <1>9

LEMMA StepUnmount ==
    ASSUME QueueInv(p), gui_player_handle_sd_unmount
    PROVE  Good(p, p')
<1> DEFINE u == free_playlist(p)
<1>1. Sound(u) /\ u.order = <<>> /\ u.playing = p.playing /\ u.slip = p.slip
  BY FreedFields DEF QueueInv
<1>2. \/ p' = [u EXCEPT !.playing = NoTrack]
      \/ p' = u /\ p.playing = NoTrack
      \/ p' = Slipped(u)
  BY DEF gui_player_handle_sd_unmount
<1> HIDE DEF u
<1>3. u \in PlayerSet /\ BagInStep(u)
  BY <1>1 DEF Sound, BagInStep, BagFits
<1>4. CASE p' = [u EXCEPT !.playing = NoTrack]
  <2>1. NoTrack \in AnyTrack
    BY DEF AnyTrack
  <2>2. p' \in PlayerSet
    BY <1>3, <1>4, <2>1 DEF PlayerSet
  <2>3. p'.playing = NoTrack /\ p'.order = <<>> /\ p'.pending = u.pending
    BY <1>1, <1>3, <1>4 DEF PlayerSet
  <2>4. Sound(p')
    BY <1>1, <2>2, <2>3 DEF Sound, Paired, Reported
  <2> QED
    BY <2>3, <2>4 DEF QueueInv, BagInStep, BagFits, InStep, Good, Blameless
<1>5. CASE p' = u /\ p.playing = NoTrack
  BY <1>1, <1>3, <1>5 DEF QueueInv, InStep, Good, Blameless
<1>6. CASE p' = Slipped(u)
  <2>1. QueueInv(p') /\ p'.playing = p.playing
    BY <1>1, <1>6, SlippedInStep
  <2> QED
    BY <2>1 DEF Good, Blameless
<1> QED
  BY <1>2, <1>4, <1>5, <1>6

LEMMA FreshInStep ==
    ASSUME NEW m \in AllModes, NEW g \in BOOLEAN
    PROVE  /\ Fresh(m, g) \in PlayerSet /\ QueueInv(Fresh(m, g)) /\ Fresh(m, g).playing = NoTrack
           /\ Fresh(m, g).error = "none" /\ Fresh(m, g).finished = FALSE /\ Fresh(m, g).slip = FALSE
<1> DEFINE s == Fresh(m, g)
<1>1. /\ <<>> \in Seq(AnyTrack) /\ <<>> \in AnyBag /\ NoTrack \in AnyTrack /\ {} \in SUBSET Tracks
      /\ 0 \in Nat /\ "none" \in {"none", "decoder", "output"}
  BY NoBag DEF AnyTrack
<1>2. s \in PlayerSet
  BY <1>1 DEF PlayerSet, Fresh
<1>3. s.playing = NoTrack /\ s.order = <<>> /\ s.pending = <<>> /\ s.error = "none" /\ s.finished = FALSE /\ s.slip = FALSE
  BY DEF Fresh
<1> HIDE DEF s
<1>4. Sound(s)
  BY <1>2, <1>3 DEF Sound, Paired, Reported
<1>5. QueueInv(s)
  BY <1>3, <1>4 DEF QueueInv, BagInStep, BagFits, InStep
<1> QED
  BY <1>2, <1>3, <1>5 DEF s

LEMMA StepRestore ==
    ASSUME QueueInv(p), NEW play \in BOOLEAN, gui_player_restore_sd_queue(play)
    PROVE  Good(p, p')
<1>0. p \in PlayerSet /\ p.mode \in AllModes /\ p.gapless \in BOOLEAN
  BY PlayerTypes DEF QueueInv, Sound
<1>1. PICK c \in Checkpoints(p) :
          /\ queue_resume_write_at(c)
          /\ p' \in IF ~queue_resume_read(c) THEN {Fresh(p.mode, p.gapless)}
                    ELSE LET s == install_saved_resume_playlist(c)
                         IN  IF play THEN play_track_at(s, c.current)
                             ELSE {[s EXCEPT !.cur = c.current, !.deferred = TRUE]}
  BY DEF gui_player_restore_sd_queue
<1>2. PICK e \in EnsureIfShuffling(p) :
          c = [list |-> e.list, current |-> e.cur, pending |-> e.queued, mode |-> e.mode, pos |-> e.pos,
               order |-> IF e.mode = "shuffle" THEN e.order ELSE <<>>,
               continuation |-> IF e.mode = "shuffle" THEN e.pending ELSE <<>>]
  BY DEF Checkpoints
<1>3. QueueInv(e) /\ SameButBag(p, e) /\ e \in PlayerSet /\ Paired(e)
  BY EnsuredInStep DEF QueueInv, Sound
<1>4. /\ e.list \in Seq(AnyTrack) /\ e.cur \in Nat /\ e.queued \in Nat /\ e.mode \in AllModes
      /\ e.pos \in Nat /\ e.order \in AnyBag /\ e.pending \in AnyBag /\ <<>> \in AnyBag
  BY <1>3, PlayerTypes, NoBag
<1>5. /\ c.list \in Seq(AnyTrack) /\ c.current \in Nat /\ c.pending \in Nat /\ c.mode \in AllModes /\ c.pos \in Nat
      /\ c.order \in AnyBag /\ c.continuation \in AnyBag
  BY <1>2, <1>4
<1>6. c.continuation # <<>> => Len(c.continuation) = Len(c.order)
  BY <1>2, <1>3 DEF Paired
<1>7. CASE ~queue_resume_read(c)
  <2>1. p' = Fresh(p.mode, p.gapless)
    BY <1>1, <1>7
  <2> QED
    BY <1>0, <2>1, FreshInStep DEF Good, Blameless
<1>8. CASE queue_resume_read(c)
  <2> DEFINE f == Fresh(c.mode, p.gapless)
             k == IF c.pending > 0 THEN c.current + 1 + c.pending ELSE 0
             s == install_saved_resume_playlist(c)
             t == [s EXCEPT !.cur = c.current, !.deferred = TRUE]
  <2>1. /\ c.current \in 1..Len(c.list) /\ (c.order # <<>> => c.pos \in 1..Len(c.list))
        /\ c.order # <<>> => c.order[c.pos] = c.current
    BY <1>8 DEF queue_resume_read, queue_resume_write_at, valid
  <2>2. f \in PlayerSet /\ f.playing = NoTrack /\ f.error = "none" /\ f.finished = FALSE
    BY <1>0, <1>5, FreshInStep
  <2>3. k \in Nat
    BY <1>5
  <2>4. s = [f EXCEPT !.list = c.list, !.queued = c.pending, !.insert = k,
                      !.order = c.order, !.pos = c.pos, !.pending = c.continuation]
    BY DEF install_saved_resume_playlist
  <2>5. p' \in IF play THEN play_track_at(s, c.current) ELSE {t}
    BY <1>1, <1>8
  <2> HIDE DEF f, k, s
  <2>6. s \in PlayerSet
    BY <1>5, <2>2, <2>3, <2>4 DEF PlayerSet
  <2>7. s.list = c.list /\ s.order = c.order /\ s.pos = c.pos /\ s.pending = c.continuation
    BY <2>2, <2>4 DEF PlayerSet
  <2>8. s.playing = NoTrack
    BY <2>2, <2>4 DEF PlayerSet
  <2>9. Sound(s)
    BY <1>6, <2>6, <2>7, <2>8 DEF Sound, Paired, Reported
  <2>10. CASE play
    <3>1. c.current \in 1..Count(s)
      BY <2>1, <2>7 DEF Count
    <3> QED
      BY <2>5, <2>9, <2>10, <3>1, PlayedIsGood
  <2>11. CASE ~play
    <3>1. p' = t
      BY <2>5, <2>11
    <3>2. t \in PlayerSet
      BY <1>5, <2>6 DEF PlayerSet
    <3>3. t.list = s.list /\ t.cur = c.current /\ t.order = s.order /\ t.pos = s.pos /\ t.pending = s.pending
      BY <2>6 DEF PlayerSet
    <3>4. t.playing = NoTrack
      BY <2>6, <2>8 DEF PlayerSet
    <3> HIDE DEF t
    <3>5. Sound(t)
      BY <2>9, <3>2, <3>3, <3>4 DEF Sound, Paired, Reported
    <3>6. BagInStep(t)
      BY <2>1, <2>7, <3>3 DEF BagInStep, BagFits, Count
    <3> QED
      BY <3>1, <3>4, <3>5, <3>6 DEF QueueInv, InStep, Good, Blameless
  <2> QED
    BY <2>10, <2>11
<1> QED
  BY <1>7, <1>8

-----------------------------------------------------------------------------
\* What the audio engine does

LEMMA StepHandover == ASSUME QueueInv(p), Handover PROVE Good(p, p')
<1>1. QueueInv(p')
  BY HandsOver DEF Handover
<1> QED
  BY <1>1 DEF Handover, CanHandOver, Good, Blameless

LEMMA StepFinish == ASSUME QueueInv(p), Finish PROVE Good(p, p')
<1>0. p \in PlayerSet /\ NoTrack \in AnyTrack
  BY DEF QueueInv, Sound, AnyTrack
<1>1. p' = [p EXCEPT !.playing = NoTrack, !.finished = TRUE]
  BY DEF Finish
<1>2. p' \in PlayerSet
  BY <1>0, <1>1 DEF PlayerSet
<1>3. SameCourse(p, p') /\ p'.playing = NoTrack /\ p'.slip = p.slip
  BY <1>0, <1>1 DEF PlayerSet, SameCourse
<1> QED
  BY <1>2, <1>3, SilencedIsGood

LEMMA StepFail == ASSUME QueueInv(p), NEW kind \in {"decoder", "output"}, Fail(kind) PROVE Good(p, p')
<1>0. p \in PlayerSet /\ NoTrack \in AnyTrack
  BY DEF QueueInv, Sound, AnyTrack
<1>1. p' = [p EXCEPT !.playing = NoTrack, !.error = kind]
  BY DEF Fail
<1>2. p' \in PlayerSet
  BY <1>0, <1>1 DEF PlayerSet
<1>3. SameCourse(p, p') /\ p'.playing = NoTrack /\ p'.slip = p.slip
  BY <1>0, <1>1 DEF PlayerSet, SameCourse
<1> QED
  BY <1>2, <1>3, SilencedIsGood

-----------------------------------------------------------------------------
\* Skipping what cannot be played

\* Bag and continuation hold the same tracks.
Bagged(s) == s.mode = "shuffle" => s.order \in Orders(Count(s)) /\ s.pending \in Orders(Count(s))

LEMMA CandidatesFit ==
    ASSUME NEW s \in PlayerSet, Bagged(s), Count(s) # 0, NEW c \in Candidates(s)
    PROVE  c.at \in 1..Count(s) /\ c.consumed \in Nat /\ c.steps \in Nat
<1> DEFINE n == Count(s)
           hand == IF s.cur + s.queued <= n THEN s.queued ELSE n - s.cur
           from == IF s.queued = 0 THEN s.cur ELSE s.cur + hand
           reach == IF n = 1 THEN 0
                    ELSE CASE s.mode = "shuffle" -> (IF s.pos < n THEN n - s.pos ELSE 0) + n
                           [] s.mode = "sequential" -> n - from
                           [] OTHER -> n - 1
           later(k) == CASE s.mode = "shuffle" -> BagEntry(s, s.pos + k)
                         [] s.mode = "sequential" -> from + k
                         [] OTHER -> ((from + k - 1) % n) + 1
<1>0. n \in Nat /\ s.cur \in Nat /\ s.queued \in Nat /\ s.pos \in Nat
  BY PlayerTypes
<1>1. hand \in Int /\ from \in Nat /\ (hand > 0 => s.cur + hand <= n)
  BY <1>0
<1>2. c \in {[rank |-> k, at |-> s.cur + k, consumed |-> k, steps |-> 0] : k \in 1..hand}
            \cup {[rank |-> s.queued + k, at |-> later(k), consumed |-> s.queued,
                   steps |-> IF s.mode = "shuffle" THEN k ELSE 0]
                    : k \in {j \in 1..reach : later(j) \notin {0, s.cur, from}}}
  BY DEF Candidates
<1> HIDE DEF hand
<1>3. CASE c \in {[rank |-> k, at |-> s.cur + k, consumed |-> k, steps |-> 0] : k \in 1..hand}
  <2>1. PICK k \in 1..hand : c = [rank |-> k, at |-> s.cur + k, consumed |-> k, steps |-> 0]
    BY <1>3
  <2>2. k \in Nat /\ s.cur + k \in 1..n
    BY <1>0, <1>1
  <2> QED
    BY <2>1, <2>2
<1>4. CASE c \in {[rank |-> s.queued + k, at |-> later(k), consumed |-> s.queued,
                   steps |-> IF s.mode = "shuffle" THEN k ELSE 0]
                    : k \in {j \in 1..reach : later(j) \notin {0, s.cur, from}}}
  <2>1. PICK k \in 1..reach :
            /\ later(k) # 0
            /\ c = [rank |-> s.queued + k, at |-> later(k), consumed |-> s.queued,
                    steps |-> IF s.mode = "shuffle" THEN k ELSE 0]
    BY <1>4
  <2> HIDE DEF from
  <2>2. reach \in Int
    BY <1>0, <1>1
  <2>3. k \in Nat /\ k > 0
    BY <2>2
  <2>4. later(k) \in 1..n
    <3>1. CASE s.mode = "shuffle"
      <4>1. later(k) = BagEntry(s, s.pos + k)
        BY <3>1
      <4>2. s.order \in [1..n -> 1..n] /\ s.pending \in [1..n -> 1..n]
        BY <1>0, <3>1, OrderFits DEF Bagged
      <4> DEFINE i == s.pos + k
      <4>3. i \in Nat /\ i > 0
        BY <1>0, <2>3
      <4> HIDE DEF i
      <4>4. CASE i <= n
        <5>1. BagEntry(s, i) = s.order[i]
          BY <4>4 DEF BagEntry
        <5>2. s.order[i] \in 1..n
          BY <1>0, <4>2, <4>3, <4>4
        <5> QED
          BY <4>1, <5>1, <5>2 DEF i
      <4>5. CASE ~(i <= n) /\ i - n <= n
        <5>1. BagEntry(s, i) = s.pending[i - n]
          BY <4>5 DEF BagEntry
        <5>2. i - n \in 1..n
          BY <1>0, <4>3, <4>5
        <5>3. s.pending[i - n] \in 1..n
          BY <4>2, <5>2
        <5> QED
          BY <4>1, <5>1, <5>3 DEF i
      <4>6. CASE ~(i <= n) /\ ~(i - n <= n)
        <5>1. BagEntry(s, i) = 0
          BY <4>6 DEF BagEntry
        <5> QED
          BY <2>1, <4>1, <5>1 DEF i
      <4> QED
        BY <4>4, <4>5, <4>6
    <3>2. CASE s.mode = "sequential"
      <4>1. later(k) = from + k
        BY <3>2
      <4>2. reach = n - from \/ reach = 0
        BY <3>2
      <4> HIDE DEF reach, later
      <4> QED
        BY <1>0, <1>1, <2>3, <4>1, <4>2
    <3>3. CASE s.mode # "shuffle" /\ s.mode # "sequential"
      <4>1. later(k) = ((from + k - 1) % n) + 1
        BY <3>3
      <4>2. from + k - 1 \in Nat
        BY <1>1, <2>3
      <4> HIDE DEF later
      <4> QED
        BY <1>0, <4>1, <4>2, WrapsInList
    <3> QED
      BY <3>1, <3>2, <3>3
  <2> HIDE DEF reach, later
  <2>5. c.at = later(k) /\ c.consumed = s.queued /\ (c.steps = k \/ c.steps = 0)
    BY <2>1
  <2> QED
    BY <1>0, <2>3, <2>4, <2>5
<1> QED
  BY <1>2, <1>3, <1>4

LEMMA CommitsPlan ==
    ASSUME NEW s \in PlayerSet, Paired(s), Count(s) # 0, NEW plan, plan.consumed \in Nat, plan.steps \in Nat
    PROVE  LET r == commit_decoder_failure_advance_plan(s, plan)
           IN  r \in PlayerSet /\ Paired(r) /\ SamePlace(s, r)
<1> DEFINE n == Count(s)
           wraps == s.pos + plan.steps > n
           r == commit_decoder_failure_advance_plan(s, plan)
           q == IF plan.consumed >= s.queued THEN 0 ELSE s.queued - plan.consumed
           k == IF plan.consumed > 0 /\ plan.consumed >= s.queued THEN 0 ELSE s.insert
           b == IF plan.steps > 0 /\ wraps THEN s.pending ELSE s.order
           d == IF plan.steps > 0 /\ wraps THEN <<>> ELSE s.pending
           i == IF plan.steps > 0 THEN ((s.pos + plan.steps - 1) % n) + 1 ELSE s.pos
<1>0. /\ n \in Nat /\ s.queued \in Nat /\ s.pos \in Nat /\ s.insert \in Nat
      /\ s.order \in AnyBag /\ s.pending \in AnyBag /\ <<>> \in AnyBag
  BY PlayerTypes, NoBag
<1>1. q \in Nat /\ k \in Nat
  BY <1>0
<1>2. b \in AnyBag /\ d \in AnyBag
  BY <1>0
<1>3. i \in Nat
  <2>1. CASE plan.steps > 0
    <3>1. s.pos + plan.steps - 1 \in Nat
      BY <1>0, <2>1
    <3>2. ((s.pos + plan.steps - 1) % n) + 1 \in 1..n
      BY <1>0, <3>1, WrapsInList, Zenon
    <3>3. i \in 1..n
      BY <2>1, <3>2, Zenon
    <3> HIDE DEF i
    <3> QED
      BY <1>0, <3>3
  <2>2. CASE ~(plan.steps > 0)
    BY <1>0, <2>2
  <2> QED
    BY <2>1, <2>2
<1>4. d = <<>> \/ (d = s.pending /\ b = s.order)
  OBVIOUS
<1>5. r = [s EXCEPT !.queued = q, !.insert = k, !.order = b, !.pending = d, !.pos = i]
  BY DEF commit_decoder_failure_advance_plan, PlayerSet
<1> HIDE DEF r, q, k, b, d, i
<1>6. r \in PlayerSet
  BY <1>1, <1>2, <1>3, <1>5 DEF PlayerSet
<1>7. SamePlace(s, r)
  BY <1>5 DEF PlayerSet, SamePlace
<1>8. r.order = b /\ r.pending = d
  BY <1>5 DEF PlayerSet
<1> QED
  BY <1>4, <1>6, <1>7, <1>8 DEF Paired, r

LEMMA ContinuationMade ==
    ASSUME NEW s, QueueInv(s), s.playing = NoTrack, NEW r \in WithContinuation(s)
    PROVE  QueueInv(r) /\ SameButBag(s, r) /\ Bagged(r)
<1>1. PICK e \in EnsureIfShuffling(s) :
          r \in IF e.mode # "shuffle" \/ e.pending # <<>> THEN {e}
                ELSE {[e EXCEPT !.pending = b] : b \in Orders(Count(e))}
  BY DEF WithContinuation
<1>2. QueueInv(e) /\ SameButBag(s, e) /\ (s.mode = "shuffle" => e.order \in Orders(Count(e)))
  BY EnsuredInStep
<1>3. e \in PlayerSet /\ Paired(e) /\ BagInStep(e) /\ e.mode = s.mode /\ e.playing = NoTrack
  BY <1>2 DEF QueueInv, Sound, SameButBag
<1>4. Count(e) \in Nat /\ e.pending \in AnyBag
  BY <1>3, PlayerTypes
<1>5. CASE e.mode # "shuffle" \/ e.pending # <<>>
  <2>1. r = e
    BY <1>1, <1>5
  <2>2. e.mode = "shuffle" => e.pending \in Orders(Count(e))
    BY <1>2, <1>3, <1>4, <1>5, OrderFits, BagFitsItself DEF Paired
  <2> QED
    BY <1>2, <1>3, <2>1, <2>2 DEF Bagged
<1>6. CASE ~(e.mode # "shuffle" \/ e.pending # <<>>)
  <2>1. PICK b \in Orders(Count(e)) : r = [e EXCEPT !.pending = b]
    BY <1>1, <1>6
  <2>2. b \in AnyBag /\ Len(b) = Count(e) /\ Len(e.order) = Count(e)
    BY <1>2, <1>3, <1>4, <1>6, OrderFits, OrderIsBag
  <2>3. r \in PlayerSet
    BY <1>3, <2>1, <2>2 DEF PlayerSet
  <2>4. SameButBag(e, r)
    BY <1>3, <2>1 DEF PlayerSet, SameButBag
  <2>5. r.order = e.order /\ r.pos = e.pos /\ r.pending = b
    BY <1>3, <2>1 DEF PlayerSet
  <2>6. Count(r) = Count(e) /\ Active(r) = Active(e) /\ BagFits(r) = BagFits(e)
    BY <2>4, <2>5 DEF SameButBag, Count, Active, BagFits
  <2>7. Sound(r)
    BY <1>2, <2>2, <2>3, <2>4, <2>5 DEF QueueInv, Sound, Paired, Reported, SameButBag
  <2>8. BagInStep(r)
    BY <1>3, <2>4, <2>5, <2>6 DEF BagInStep, SameButBag
  <2>9. SameButBag(s, r) /\ r.playing = NoTrack
    BY <1>2, <1>3, <2>4 DEF SameButBag
  <2>10. Bagged(r)
    BY <1>2, <1>3, <2>5, <2>6, <2>4 DEF Bagged, SameButBag
  <2> QED
    BY <2>7, <2>8, <2>9, <2>10 DEF QueueInv, InStep
<1> QED
  BY <1>5, <1>6

\* The skipping stops.
LEMMA StopsSkipping ==
    ASSUME NEW s, QueueInv(s), s.playing = NoTrack
    PROVE  LET r == reset_decoder_failure_tracking([s EXCEPT !.deferred = FALSE])
           IN  QueueInv(r) /\ r.playing = NoTrack
<1> DEFINE u == [s EXCEPT !.deferred = FALSE]
           r == reset_decoder_failure_tracking(u)
<1>0. s \in PlayerSet
  BY DEF QueueInv, Sound
<1>1. u \in PlayerSet
  BY <1>0 DEF PlayerSet
<1>2. SameCourse(s, u)
  BY <1>0 DEF PlayerSet, SameCourse
<1>3. u.playing = NoTrack /\ u.slip = s.slip
  BY <1>0 DEF PlayerSet
<1> HIDE DEF u
<1>4. r \in PlayerSet /\ SameCourse(u, r) /\ r.playing = u.playing /\ r.slip = u.slip
  BY <1>1, ResetFields
<1> HIDE DEF r
<1>5. Good(s, r)
  BY <1>2, <1>3, <1>4, SilencedIsGood DEF SameCourse
<1> QED
  BY <1>3, <1>4, <1>5 DEF Good, r, u

\* The next candidate is played, or nothing is.
LEMMA SkipsFailed ==
    ASSUME NEW s0, QueueInv(s0), s0.playing = NoTrack, NEW r \in DecoderFailed(s0)
    PROVE  QueueInv(r) /\ (r.playing # NoTrack => r.playing \notin r.failed)
<1> DEFINE more == IF TrackAt(s0, s0.cur) = NoTrack THEN s0.failed ELSE s0.failed \cup {TrackAt(s0, s0.cur)}
           s == [s0 EXCEPT !.failed = more, !.skips = s0.skips + 1]
           stopped(q) == reset_decoder_failure_tracking([q EXCEPT !.deferred = FALSE])
           begun(q, plan) == [commit_decoder_failure_advance_plan(q, plan) EXCEPT !.deferred = FALSE]
<1>0. s0 \in PlayerSet /\ s0.skips \in Nat /\ s0.failed \in SUBSET Tracks /\ Count(s0) \in Nat
  BY PlayerTypes DEF QueueInv, Sound
<1>1. more \in SUBSET Tracks
  <2>1. TrackAt(s0, s0.cur) \in AnyTrack
    BY <1>0, TrackTypes
  <2> QED
    BY <1>0, <2>1 DEF AnyTrack
<1>2. r \in IF s.skips >= (IF Count(s) < MaxSkips THEN Count(s) ELSE MaxSkips) THEN {stopped(s)}
            ELSE UNION {IF compute_decoder_failure_advance_plan(q) = {} THEN {stopped(q)}
                        ELSE UNION {play_track_at_from_internal(begun(q, plan), plan.at)
                                    : plan \in compute_decoder_failure_advance_plan(q)}
                        : q \in WithContinuation(s)}
  BY <1>0 DEF DecoderFailed, PlayerSet
<1> HIDE DEF more
<1>3. s \in PlayerSet
  <2>1. s0.skips + 1 \in Nat
    BY <1>0
  <2> QED
    BY <1>0, <1>1, <2>1 DEF PlayerSet
<1>4. SameCourse(s0, s) /\ s.playing = NoTrack /\ s.slip = s0.slip /\ s.skips = s0.skips + 1
  BY <1>0 DEF PlayerSet, SameCourse
<1> HIDE DEF s
<1>5. QueueInv(s)
  BY <1>3, <1>4, SilencedIsGood DEF Good
<1>6. CASE s.skips >= (IF Count(s) < MaxSkips THEN Count(s) ELSE MaxSkips)
  <2>1. r = stopped(s)
    BY <1>2, <1>6
  <2> QED
    BY <1>4, <1>5, <2>1, StopsSkipping
<1>7. CASE ~(s.skips >= (IF Count(s) < MaxSkips THEN Count(s) ELSE MaxSkips))
  <2>1. PICK q \in WithContinuation(s) :
            r \in IF compute_decoder_failure_advance_plan(q) = {} THEN {stopped(q)}
                  ELSE UNION {play_track_at_from_internal(begun(q, plan), plan.at)
                              : plan \in compute_decoder_failure_advance_plan(q)}
    BY <1>2, <1>7
  <2>2. QueueInv(q) /\ SameButBag(s, q) /\ Bagged(q) /\ q.playing = NoTrack
    BY <1>4, <1>5, <2>1, ContinuationMade DEF SameButBag
  <2>3. q \in PlayerSet /\ Paired(q) /\ Sound(q) /\ Count(q) = Count(s)
    BY <2>2 DEF QueueInv, Sound, SameButBag, Count
  <2>4. Count(q) # 0
    <3>1. Count(s) = Count(s0)
      BY <1>4 DEF SameCourse, Count
    <3> QED
      BY <1>0, <1>4, <1>7, <2>3, <3>1 DEF MaxSkips
  <2>5. CASE compute_decoder_failure_advance_plan(q) = {}
    <3>1. r = stopped(q)
      BY <2>1, <2>5
    <3> QED
      BY <2>2, <3>1, StopsSkipping
  <2>6. CASE compute_decoder_failure_advance_plan(q) # {}
    <3>1. PICK plan \in compute_decoder_failure_advance_plan(q) :
              r \in play_track_at_from_internal(begun(q, plan), plan.at)
      BY <2>1, <2>6
    <3>2. plan \in Candidates(q) /\ q.list[plan.at] \notin q.failed
      BY DEF compute_decoder_failure_advance_plan, First
    <3>3. plan.at \in 1..Count(q) /\ plan.consumed \in Nat /\ plan.steps \in Nat
      BY <2>2, <2>3, <2>4, <3>2, CandidatesFit
    <3> DEFINE c == commit_decoder_failure_advance_plan(q, plan)
               t == begun(q, plan)
    <3>4. c \in PlayerSet /\ Paired(c) /\ SamePlace(q, c)
      BY <2>3, <2>4, <3>3, CommitsPlan
    <3> HIDE DEF c
    <3>5. t = [c EXCEPT !.deferred = FALSE]
      BY DEF c
    <3> HIDE DEF t
    <3>6. t \in PlayerSet
      BY <3>4, <3>5 DEF PlayerSet
    <3>7. SamePlace(c, t)
      BY <3>4, <3>5 DEF PlayerSet, SamePlace
    <3>8. t.order = c.order /\ t.pending = c.pending
      BY <3>4, <3>5 DEF PlayerSet
    <3>9. Paired(t) /\ SamePlace(q, t)
      BY <3>4, <3>7, <3>8 DEF Paired, SamePlace
    <3>10. Sound(t) /\ Count(t) = Count(q)
      BY <2>3, <3>6, <3>9, PlaceKept
    <3>11. r \in play_track_at_from_internal(t, plan.at) /\ plan.at \in 1..Count(t)
      BY <3>1, <3>3, <3>10 DEF t
    <3>12. /\ QueueInv(r) /\ r.failed = t.failed
           /\ r.playing = t.playing \/ r.playing = t.list[plan.at]
      BY <3>10, <3>11, Plays
    <3>13. t.failed = q.failed /\ t.list = q.list /\ t.playing = NoTrack
      BY <2>2, <3>9 DEF SamePlace
    <3> QED
      BY <3>2, <3>12, <3>13
  <2> QED
    BY <2>5, <2>6
<1> QED
  BY <1>6, <1>7

-----------------------------------------------------------------------------
\* The GUI's poll

\* The GUI takes note of what the engine reported.
LEMMA NotedInStep ==
    ASSUME NEW s, QueueInv(s)
    PROVE  LET e == [s EXCEPT !.error = "none"]
               f == [s EXCEPT !.finished = FALSE]
           IN  /\ QueueInv(e) /\ e.playing = s.playing /\ e.advanced = s.advanced /\ e.cur = s.cur
               /\ QueueInv(f) /\ f.playing = s.playing /\ f.advanced = s.advanced /\ f.cur = s.cur
<1> DEFINE e == [s EXCEPT !.error = "none"]
           f == [s EXCEPT !.finished = FALSE]
<1>0. s \in PlayerSet /\ Paired(s) /\ Reported(s) /\ BagInStep(s) /\ InStep(s)
  BY DEF QueueInv, Sound
<1>1. e \in PlayerSet /\ f \in PlayerSet
  BY <1>0 DEF PlayerSet
<1>2. SameCourse(s, e) /\ SameCourse(s, f)
  BY <1>0 DEF PlayerSet, SameCourse
<1>3. /\ e.gapless = s.gapless /\ e.playing = s.playing /\ e.armed = s.armed /\ e.advanced = s.advanced
      /\ e.finished = s.finished /\ e.slip = s.slip /\ e.error = "none" /\ e.cur = s.cur
  BY <1>0 DEF PlayerSet
<1>4. /\ f.gapless = s.gapless /\ f.playing = s.playing /\ f.armed = s.armed /\ f.advanced = s.advanced
      /\ f.error = s.error /\ f.slip = s.slip /\ f.finished = FALSE /\ f.cur = s.cur
  BY <1>0 DEF PlayerSet
<1> HIDE DEF e, f
<1>5. /\ Count(e) = Count(s) /\ BagFits(e) = BagFits(s) /\ Active(e) = Active(s) /\ Ready(e) = Ready(s)
      /\ compute_auto_advance_index(e) = compute_auto_advance_index(s)
      /\ \A i : TrackAt(e, i) = TrackAt(s, i)
  BY <1>2, CourseKept
<1>6. /\ Count(f) = Count(s) /\ BagFits(f) = BagFits(s) /\ Active(f) = Active(s) /\ Ready(f) = Ready(s)
      /\ compute_auto_advance_index(f) = compute_auto_advance_index(s)
      /\ \A i : TrackAt(f, i) = TrackAt(s, i)
  BY <1>2, CourseKept
<1>7. Sound(e) /\ Sound(f)
  BY <1>0, <1>1, <1>2, <1>3, <1>4 DEF Sound, Paired, Reported, SameCourse
<1>8. BagInStep(e) /\ BagInStep(f)
  BY <1>0, <1>2, <1>3, <1>4, <1>5, <1>6 DEF BagInStep, SameCourse
<1>9. Follows(s) => Follows(e) /\ Follows(f)
  BY <1>3, <1>4, <1>5, <1>6 DEF Follows
<1>10. InStep(e)
  BY <1>0, <1>2, <1>3, <1>5, <1>9 DEF InStep, SameCourse
<1>11. InStep(f)
  BY <1>0, <1>2, <1>4, <1>6, <1>9 DEF InStep, SameCourse
<1> QED
  BY <1>3, <1>4, <1>7, <1>8, <1>10, <1>11 DEF QueueInv, e, f

LEMMA StepPlaybackError ==
    ASSUME QueueInv(p), gui_player_handle_playback_error_ex
    PROVE  Good(p, p')
<1> DEFINE s == [p EXCEPT !.error = "none"]
<1>1. QueueInv(s) /\ s.playing = p.playing
  BY NotedInStep
<1>2. p.playing = NoTrack
  BY DEF QueueInv, Sound, Reported, gui_player_handle_playback_error_ex
<1>3. IF s.cur = 0 THEN p' = s
      ELSE \E r \in (IF s.advanced THEN ConsumeAdvance(s) ELSE {s}) :
              p' \in IF s.advanced /\ ~CaughtUp(s) THEN {r}
                     ELSE IF p.error = "output" THEN {[r EXCEPT !.deferred = TRUE]}
                     ELSE DecoderFailed(r)
  BY DEF gui_player_handle_playback_error_ex
<1> HIDE DEF s
<1>4. CASE s.cur = 0
  BY <1>1, <1>2, <1>3, <1>4 DEF Good, Blameless
<1>5. CASE s.cur # 0
  <2>1. PICK r \in (IF s.advanced THEN ConsumeAdvance(s) ELSE {s}) :
              p' \in IF s.advanced /\ ~CaughtUp(s) THEN {r}
                     ELSE IF p.error = "output" THEN {[r EXCEPT !.deferred = TRUE]}
                     ELSE DecoderFailed(r)
    BY <1>3, <1>5
  <2>2. QueueInv(r) /\ r.playing = NoTrack
    <3>1. CASE s.advanced
      BY <1>1, <1>2, <2>1, <3>1, CatchesUp
    <3>2. CASE ~s.advanced
      BY <1>1, <1>2, <2>1, <3>2
    <3> QED
      BY <3>1, <3>2
  <2>3. CASE p' = r
    BY <2>2, <2>3 DEF Good, Blameless
  <2>4. CASE p' = [r EXCEPT !.deferred = TRUE]
    <3>0. r \in PlayerSet
      BY <2>2 DEF QueueInv, Sound
    <3>1. p' \in PlayerSet
      BY <2>4, <3>0 DEF PlayerSet
    <3>2. SameCourse(r, p')
      BY <2>4, <3>0 DEF PlayerSet, SameCourse
    <3>3. p'.playing = r.playing /\ p'.slip = r.slip
      BY <2>4, <3>0 DEF PlayerSet
    <3> QED
      BY <2>2, <3>1, <3>2, <3>3, SilencedIsGood DEF Good, Blameless
  <2>5. CASE p' \in DecoderFailed(r)
    BY <2>2, <2>5, SkipsFailed DEF Good, Blameless
  <2> QED
    BY <2>1, <2>3, <2>4, <2>5
<1> QED
  BY <1>4, <1>5

LEMMA HandlesFinish ==
    ASSUME NEW s, QueueInv(s), s.playing = NoTrack, NEW r \in gui_player_handle_track_finished(s)
    PROVE  Good(s, r)
<1> DEFINE v == reset_decoder_failure_tracking(s)
<1>0. s \in PlayerSet
  BY DEF QueueInv, Sound
<1>1. v \in PlayerSet /\ v.failed = {} /\ SameCourse(s, v) /\ v.playing = s.playing /\ v.slip = s.slip
  BY <1>0, ResetFields
<1>2. PICK q \in Prepared(v) :
          r \in LET next == compute_auto_advance_index(q)
                IN  IF next = 0 THEN {q} ELSE play_track_at_from_internal(commit_auto_advance(q), next)
  BY DEF gui_player_handle_track_finished
<1> HIDE DEF v
<1>3. QueueInv(v)
  BY <1>1, SilencedIsGood DEF Good
<1> DEFINE next == compute_auto_advance_index(q)
           c == commit_auto_advance(q)
<1>4. Sound(v) /\ BagInStep(v) /\ Paired(v)
  BY <1>3 DEF QueueInv, Sound
<1>5. Sound(q) /\ BagInStep(q)
  BY <1>2, <1>4, PreparedInStep
<1>6. q \in PlayerSet /\ Paired(q) /\ SameButBag(v, q) /\ Named(q)
  BY <1>1, <1>2, <1>4, PreparedSound
<1>7. q.playing = NoTrack /\ q.failed = {}
  BY <1>1, <1>6 DEF SameButBag
<1>8. Active(q) => next \in 0..Count(q)
  BY <1>6, NextInList
<1>9. r \in IF next = 0 THEN {q} ELSE play_track_at_from_internal(c, next)
  BY <1>2
<1> HIDE DEF next, c
<1>10. c \in PlayerSet /\ Paired(c) /\ SamePlace(q, c)
  BY <1>6, Commits DEF c
<1>11. Sound(c) /\ Count(c) = Count(q) /\ Active(c) = Active(q) /\ c.playing = NoTrack /\ c.failed = {}
  BY <1>5, <1>7, <1>10, PlaceKept DEF SamePlace
<1>12. CASE next = 0
  BY <1>5, <1>7, <1>9, <1>12 DEF QueueInv, InStep, Good, Blameless
<1>13. CASE next # 0 /\ next \in 1..Count(q)
  <2>1. QueueInv(r) /\ r.failed = {}
    BY <1>9, <1>11, <1>13, Plays
  <2> QED
    BY <2>1 DEF Good, Blameless
<1>14. CASE next # 0 /\ next \notin 1..Count(q)
  <2>1. ~Active(c)
    BY <1>6, <1>8, <1>11, <1>14, PlayerTypes
  <2>2. r = c
    BY <1>9, <1>11, <1>14 DEF play_track_at_from_internal
  <2> QED
    BY <1>11, <2>1, <2>2 DEF QueueInv, BagInStep, InStep, Good, Blameless
<1> QED
  BY <1>12, <1>13, <1>14

LEMMA StepTimer == ASSUME QueueInv(p), update_timer_cb PROVE Good(p, p')
<1>1. CASE gui_player_handle_playback_error_ex
  BY <1>1, StepPlaybackError
<1>2. CASE p' \in ConsumeAdvance(p)
  BY <1>2, CatchesUp DEF Good, Blameless
<1>3. CASE /\ p.error = "none" /\ ~p.advanced /\ p.finished
           /\ LET s == [p EXCEPT !.finished = FALSE]
              IN  p' \in IF s.cur = 0 THEN {s} ELSE gui_player_handle_track_finished(s)
  <2> DEFINE s == [p EXCEPT !.finished = FALSE]
  <2>1. QueueInv(s) /\ s.playing = p.playing
    BY NotedInStep
  <2>2. p.playing = NoTrack
    BY <1>3 DEF QueueInv, Sound, Reported
  <2>3. p' \in IF s.cur = 0 THEN {s} ELSE gui_player_handle_track_finished(s)
    BY <1>3
  <2> HIDE DEF s
  <2>4. CASE p' = s
    BY <2>1, <2>2, <2>4 DEF Good, Blameless
  <2>5. CASE p' \in gui_player_handle_track_finished(s)
    BY <2>1, <2>2, <2>5, HandlesFinish DEF Good, Blameless
  <2> QED
    BY <2>3, <2>4, <2>5
<1> QED
  BY <1>1, <1>2, <1>3 DEF update_timer_cb

-----------------------------------------------------------------------------
\* The theorems

LEMMA InitInStep == Init => QueueInv(p)
<1>1. SUFFICES ASSUME Init PROVE QueueInv(p)
  OBVIOUS
<1>2. PICK g \in BOOLEAN : p = Fresh("sequential", g)
  BY <1>1 DEF Init
<1> QED
  BY <1>2, FreshInStep DEF AllModes

LEMMA UserIsGood == ASSUME QueueInv(p), User PROVE Good(p, p')
<1>1. CASE \E l \in Openable : \E i \in 1..Len(l) : on_file_selected(l, i)
  BY <1>1, StepFileSelected
<1>2. CASE \E m \in Modes : gui_player_set_play_mode(m)
  BY <1>2, StepSetPlayMode
<1>3. CASE \E g \in BOOLEAN : gui_player_set_gapless_enabled(g)
  BY <1>3, StepSetGapless
<1>4. CASE \E dir \in {"prev", "next"} : gui_player_step_manual(dir)
  BY <1>4, StepManual
<1>5. CASE \E new \in Additions : AddToQueue(new)
  BY <1>5, StepAddToQueue
<1>6. CASE \E new \in Additions : gui_player_queue_play_next(new[1])
  BY <1>6, StepPlayNext
<1>7. CASE \E from \in 1..MaxLen, to \in 0..MaxLen : gui_player_queue_edit(from, to)
  BY <1>7, StepEdit
<1>8. CASE \E i \in 1..MaxLen : gui_player_queue_select(i)
  BY <1>8, StepSelect
<1>9. CASE gui_player_queue_clear_all
  BY <1>9, StepClearAll
<1>10. CASE \E m \in Modes \cap {"sequential", "shuffle"}, i \in 1..MaxLen : queue_start(m, i)
  BY <1>10, StepQueueStart
<1>11. CASE delete_song_confirm_cb
  BY <1>11, StepDelete
<1>12. CASE toggle_play_pause
  BY <1>12, StepTogglePlay
<1> QED
  BY <1>1, <1>2, <1>3, <1>4, <1>5, <1>6, <1>7, <1>8, <1>9, <1>10, <1>11, <1>12 DEF User

LEMMA NextIsGood == ASSUME QueueInv(p), Next PROVE Good(p, p')
<1>1. CASE User
  BY <1>1, UserIsGood
<1>2. CASE World
  BY <1>2, StepBlock, StepUnmount, StepRestore DEF World
<1>3. CASE Run
  BY <1>3, StepSnapshot, StepHandover, StepFinish, StepFail, StepTimer DEF Run
<1> QED
  BY <1>1, <1>2, <1>3 DEF Next, Command

\* The inductive invariant of the queue: the bag stands at the current track, its
\* continuation is as long as it, what plays is the current track and what is
\* armed the next one, unless the code itself has let the two come apart.
THEOREM QueueIsInStep == QueueSpec => []QueueInv(p)
<1>1. Init => QueueInv(p)
  BY InitInStep
<1>2. QueueInv(p) /\ [Next]_vars => QueueInv(p)'
  <2>1. SUFFICES ASSUME QueueInv(p), [Next]_vars PROVE QueueInv(p')
    OBVIOUS
  <2>2. CASE Next
    BY <2>1, <2>2, NextIsGood DEF Good
  <2>3. CASE UNCHANGED vars
    BY <2>1, <2>3 DEF vars
  <2> QED
    BY <2>1, <2>2, <2>3
<1> QED
  BY <1>1, <1>2, PTL DEF QueueSpec

LEMMA InStepShows == QueueInv(p) => BagsFit /\ ShownIsPlaying /\ ArmedIsNext
<1>1. SUFFICES ASSUME QueueInv(p) PROVE BagsFit /\ ShownIsPlaying /\ ArmedIsNext
  OBVIOUS
<1>2. Paired(p) /\ BagInStep(p) /\ InStep(p)
  BY <1>1 DEF QueueInv, Sound
<1>3. BagsFit
  BY <1>2 DEF BagsFit, Paired, BagInStep, BagFits
<1>4. ShownIsPlaying
  BY <1>2 DEF ShownIsPlaying, InStep
<1>5. ArmedIsNext
  <2>1. SUFFICES ASSUME p.playing # NoTrack, ~p.advanced, ~p.slip
                 PROVE  Prepared(p) = {p} /\ Follows(p)
    BY DEF ArmedIsNext, Follows
  <2>2. Ready(p) /\ Follows(p)
    BY <1>2, <2>1 DEF InStep
  <2> QED
    BY <2>2, NamedPrepared DEF Ready
<1> QED
  BY <1>3, <1>4, <1>5

LEMMA InStepSaves == QueueInv(p) => SavedQueueIsAccepted
<1>1. SUFFICES ASSUME QueueInv(p), Active(p), ~p.slip, NEW c \in Checkpoints(p), queue_resume_write_at(c),
                      c.order # <<>>
               PROVE  c.order[c.pos] = c.current
  BY DEF SavedQueueIsAccepted, queue_resume_read
<1>2. PICK e \in EnsureIfShuffling(p) :
          c = [list |-> e.list, current |-> e.cur, pending |-> e.queued, mode |-> e.mode, pos |-> e.pos,
               order |-> IF e.mode = "shuffle" THEN e.order ELSE <<>>,
               continuation |-> IF e.mode = "shuffle" THEN e.pending ELSE <<>>]
  BY DEF Checkpoints
<1>3. e.mode = "shuffle" /\ c.order = e.order /\ c.pos = e.pos /\ c.current = e.cur
  BY <1>1, <1>2
<1>4. QueueInv(e) /\ SameButBag(p, e) /\ (p.mode = "shuffle" => e.order \in Orders(Count(e)))
  BY <1>1, EnsuredInStep
<1>5. Active(e) /\ ~e.slip /\ e.order \in Orders(Count(e)) /\ Count(e) \in Nat
  BY <1>1, <1>3, <1>4, PlayerTypes DEF SameButBag, Active, Count, QueueInv, Sound
<1>6. BagFits(e)
  BY <1>1, <1>3, <1>5, OrderFits DEF BagFits
<1> QED
  BY <1>3, <1>4, <1>5, <1>6 DEF QueueInv, BagInStep

\* Whatever is inserted, removed, deleted, reshuffled or restored, the bag read
\* when shuffling has its position inside it and a continuation of its length.
THEOREM BagsAlwaysFit == QueueSpec => []BagsFit
  BY QueueIsInStep, InStepShows, PTL

\* The track shown as current is the one that plays, or the one the GUI will come
\* to when it notes that the engine has moved on.
THEOREM ShownAlwaysPlays == QueueSpec => []ShownIsPlaying
  BY QueueIsInStep, InStepShows, PTL

\* The track armed in the engine is the one compute_auto_advance_index() will name.
THEOREM ArmedAlwaysNext == QueueSpec => []ArmedIsNext
  BY QueueIsInStep, InStepShows, PTL

\* What queue_resume_write_at() writes, queue_resume_read() takes back, unless its
\* paths come to more than MaxBytes.
THEOREM SavedIsAlwaysAccepted == QueueSpec => []SavedQueueIsAccepted
  BY QueueIsInStep, InStepSaves, PTL

\* A file that could not be played is not started again while its failure counts.
THEOREM FailedIsNeverRetried == QueueSpec => FailedNotRetried
<1>1. QueueInv(p) /\ [Next]_vars
        => [p.playing = NoTrack /\ p'.playing # NoTrack => p'.playing \notin p'.failed]_vars
  <2>1. SUFFICES ASSUME QueueInv(p), Next
                 PROVE  p.playing = NoTrack /\ p'.playing # NoTrack => p'.playing \notin p'.failed
    OBVIOUS
  <2> QED
    BY <2>1, NextIsGood DEF Good, Blameless
<1> QED
  BY <1>1, QueueIsInStep, PTL DEF QueueSpec, FailedNotRetried
=============================================================================

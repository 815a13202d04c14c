------------------------------- MODULE Queue -------------------------------
(***************************************************************************)
(* The play queue: playlist[], the songs queued by hand, the play modes,    *)
(* the shuffle bag and its continuation, the next track armed in the audio  *)
(* engine, the skips over unplayable files and the checkpoint of the queue  *)
(* (ui/gui_player.c, library/playback_order.h, library/queue_resume.c).     *)
(*                                                                         *)
(* A handler of the GUI thread is one step: a function from the player to   *)
(* the set of players it can leave, the choices being those of the          *)
(* shuffles.  Positions count from 1 and 0 stands for the code's -1.  The    *)
(* audio engine is what audio.c promises: it plays `playing`, hands over to  *)
(* `armed`, ends or fails, and reports it in flags the GUI polls.           *)
(***************************************************************************)
EXTENDS Integers, Sequences

CONSTANTS
    Tracks,     \* the files
    OnCard,     \* those on the SD card
    NoTrack,
    Modes,      \* the play modes in use
    Openable,   \* the lists a tap in the library opens
    Additions,  \* what can be added to the queue at once
    Bytes,      \* the length of a file's path
    MaxBytes,   \* queue_resume_read(): 64 MiB of paths
    MaxLen,     \* bound: length of the queue, and songs counted as queued
    MaxCommands \* bound: commands of the user and of the outside world

AllModes == {"sequential", "repeat_all", "repeat_one", "shuffle"}

ASSUME QueueAssumption ==
    /\ NoTrack \notin Tracks
    /\ OnCard \subseteq Tracks
    /\ Modes \subseteq AllModes
    /\ "sequential" \in Modes
    /\ MaxLen \in Nat \ {0} /\ MaxCommands \in Nat
    /\ Bytes \in [Tracks -> Nat] /\ MaxBytes \in Nat
    /\ Openable \subseteq Seq(Tracks) \ {<<>>}
    /\ Additions \subseteq Seq(Tracks) \ {<<>>}
    /\ \A l \in Openable \cup Additions : Len(l) <= MaxLen

VARIABLES
    p,          \* the player
    commands    \* bound: how many commands it was given

vars == <<p, commands>>

\* Nothing loaded, nothing playing.
Fresh(mode, gapless) ==
    [list |-> <<>>, cur |-> 0,        \* playlist, playlist_index
     queued |-> 0, insert |-> 0,      \* queued_pending_count, queue_next_insert_index
     mode |-> mode, gapless |-> gapless,
     order |-> <<>>, pos |-> 0,       \* shuffle_order, shuffle_pos
     pending |-> <<>>,                \* pending_shuffle_order
     failed |-> {}, skips |-> 0,      \* the unplayable files met in a row
     deferred |-> FALSE,              \* Play starts the current track afresh
     blocked |-> FALSE,               \* a DAC mode keeps local playback off
     playing |-> NoTrack, armed |-> NoTrack,
     advanced |-> FALSE, finished |-> FALSE, error |-> "none",
     slip |-> FALSE]                  \* history: see Slipped

Init == commands = 0 /\ \E g \in BOOLEAN : p = Fresh("sequential", g)

-----------------------------------------------------------------------------
Count(s) == Len(s.list)

Active(s) == s.cur \in 1..Count(s)

TrackAt(s, i) == IF i \in 1..Count(s) THEN s.list[i] ELSE NoTrack

BagFits(s) == s.order # <<>> /\ Len(s.order) = Count(s)

reset_decoder_failure_tracking(s) == [s EXCEPT !.failed = {}, !.skips = 0]

free_playlist(s) ==
    [reset_decoder_failure_tracking(s) EXCEPT
        !.list = <<>>, !.cur = 0, !.queued = 0, !.insert = 0,
        !.order = <<>>, !.pos = 0, !.pending = <<>>]

\* The audio engine and the queue have come apart in a way this code does not
\* notice: it changed what comes next after the engine had moved on, or without
\* telling it, or where the current track stands without noting it.  Until the
\* next track is started afresh the two may disagree.
Slipped(s) == [s EXCEPT !.slip = TRUE]

\* fisher_yates_shuffle(): the orders of n tracks.
Orders(n) == {b \in [1..n -> 1..n] : \A i \in 1..n : \E k \in 1..n : b[k] = i}

\* A new bag: the current track first, the songs queued by hand after it.
FreshBags(s) ==
    {b \in Orders(Count(s)) :
        Active(s) => \A k \in 0..s.queued :
            s.cur + k <= Count(s) => b[1 + k] = s.cur + k}

StaleContinuationKept(s) ==
    IF BagFits(s) THEN {s}
    ELSE {[s EXCEPT !.order = b, !.pos = 1] : b \in FreshBags(s)}

ensure_shuffle_order_current(s) ==
    IF BagFits(s) THEN {s}
    ELSE {[s EXCEPT !.order = b, !.pos = 1, !.pending = <<>>] : b \in FreshBags(s)}

EnsureIfShuffling(s) ==
    IF s.mode = "shuffle" THEN ensure_shuffle_order_current(s) ELSE {s}

QueueJump(s) == s.queued > 0 /\ s.cur + 1 <= Count(s)

\* compute_auto_advance_index() may have to make a bag, or the bag that follows
\* it, before it can name the next track ...
Prepared(s) ==
    IF s.cur = 0 \/ s.list = <<>> \/ QueueJump(s) \/ s.mode # "shuffle"
    THEN {s}
    ELSE UNION {IF e.pos + 1 <= Count(s) \/ e.pending # <<>>
                THEN {e}
                ELSE {[e EXCEPT !.pending = b] : b \in Orders(Count(s))}
                : e \in ensure_shuffle_order_current(s)}

\* ... which is this one.
compute_auto_advance_index(s) ==
    IF s.cur = 0 \/ s.list = <<>> THEN 0
    ELSE IF QueueJump(s) THEN s.cur + 1
    ELSE CASE s.mode = "repeat_one" -> s.cur
           [] s.mode = "repeat_all" -> (s.cur % Count(s)) + 1
           [] s.mode = "shuffle" -> IF s.pos + 1 <= Count(s)
                                    THEN s.order[s.pos + 1] ELSE s.pending[1]
           [] OTHER -> IF s.cur + 1 <= Count(s) THEN s.cur + 1 ELSE 0

ConsumeQueued(s) ==
    [s EXCEPT !.pos = IF BagFits(s) THEN @ + 1 ELSE @,
              !.queued = @ - 1,
              !.insert = IF s.queued = 1 THEN 0 ELSE @]

commit_auto_advance(s) ==
    IF s.queued > 0 THEN ConsumeQueued(s)
    ELSE IF s.mode # "shuffle" THEN s
    ELSE IF s.pos + 1 <= Count(s) THEN [s EXCEPT !.pos = @ + 1]
    ELSE IF s.pending # <<>>
         THEN [s EXCEPT !.order = s.pending, !.pending = <<>>, !.pos = 1]
         ELSE s

BagLeftBehind(s) == s

\* The bag catches up with the current track before the next one is armed.
BagAtCurrent(s) ==
    IF s.mode = "shuffle" /\ Active(s)
    THEN [s EXCEPT !.pos = CHOOSE i \in 1..Count(s) : s.order[i] = s.cur]
    ELSE s

arm_next_track_for_audio(s) ==
    {[r EXCEPT !.armed = IF r.gapless THEN TrackAt(r, compute_auto_advance_index(r))
                                      ELSE NoTrack]
     : r \in UNION {Prepared(BagAtCurrent(e)) : e \in EnsureIfShuffling(s)}}

play_track_at_from_internal(s, i) ==
    IF i \notin 1..Count(s) THEN {s}
    ELSE IF s.blocked THEN {Slipped(s)}
    ELSE arm_next_track_for_audio(
            [s EXCEPT !.cur = i, !.deferred = FALSE, !.playing = s.list[i],
                      !.advanced = FALSE, !.finished = FALSE, !.error = "none",
                      !.slip = FALSE])

play_track_at(s, i) == play_track_at_from_internal(reset_decoder_failure_tracking(s), i)

on_track_auto_advanced(s, i) ==
    IF i \notin 1..Count(s) THEN {s} ELSE arm_next_track_for_audio([s EXCEPT !.cur = i])

gui_player_handle_auto_advance(s) ==
    UNION {LET next == compute_auto_advance_index(r)
           IN  IF next = 0 THEN {r}
               ELSE on_track_auto_advanced(commit_auto_advance(r), next)
           : r \in Prepared(reset_decoder_failure_tracking(s))}

gui_player_handle_track_finished(s) ==
    UNION {LET next == compute_auto_advance_index(r)
           IN  IF next = 0 THEN {r}
               ELSE play_track_at_from_internal(commit_auto_advance(r), next)
           : r \in Prepared(reset_decoder_failure_tracking(s))}

AdvanceNotConsumed(s) == {s}

\* if (audio_consume_track_advanced()) gui_player_handle_auto_advance();
ConsumeAdvance(s) ==
    IF s.advanced /\ s.cur > 0
    THEN gui_player_handle_auto_advance([s EXCEPT !.advanced = FALSE])
    ELSE {[s EXCEPT !.advanced = FALSE]}

HandedOver(s) ==
    [s EXCEPT !.playing = s.armed, !.armed = NoTrack, !.advanced = TRUE]

CanHandOver(s) == s.playing # NoTrack /\ s.armed # NoTrack

\* The engine can also move on just after a handler has looked.
Synced(s) ==
    ConsumeAdvance(s) \cup
    (IF CanHandOver(s) /\ ~s.advanced THEN {Slipped(HandedOver(s))} ELSE {})

-----------------------------------------------------------------------------
(* What the user does.                                                     *)

on_file_selected(l, i) ==
    p' \in play_track_at([free_playlist(p) EXCEPT !.list = l], i)

ModeNotArmed(m) == p' = [p EXCEPT !.mode = m]

gui_player_set_play_mode(m) ==
    LET s == [p EXCEPT !.mode = m]
    IN  p' \in IF s.cur = 0 THEN {s}
               ELSE arm_next_track_for_audio(IF s.advanced THEN Slipped(s) ELSE s)

gui_player_set_gapless_enabled(g) ==
    LET s == [p EXCEPT !.gapless = g]
    IN  p' \in IF Active(s) THEN arm_next_track_for_audio(s) ELSE {s}

\* Prev drops what was queued by hand.
DropQueued(s) == [s EXCEPT !.queued = 0, !.insert = 0]

\* compute_manual_step_index(): pairs of the queue it leaves and the track it
\* names, 0 at either end.
ManualSteps(s0, dir) ==
    LET s == IF dir = "prev" THEN DropQueued(s0) ELSE s0
        to(r, i) == [q |-> r, at |-> i]
        n == Count(s)
    IN  IF s.list = <<>> THEN {to(s, 0)}
        ELSE IF dir = "next" /\ QueueJump(s) THEN {to(ConsumeQueued(s), s.cur + 1)}
        ELSE CASE s.mode = "shuffle" ->
                    UNION {LET i == IF dir = "next" THEN e.pos + 1 ELSE e.pos - 1
                           IN  IF i < 1 THEN {to(e, 0)}
                               ELSE IF i <= n THEN {to([e EXCEPT !.pos = i], e.order[i])}
                               ELSE {to([e EXCEPT !.order = bag, !.pos = 1], bag[1])
                                       : bag \in Orders(n)}
                           : e \in ensure_shuffle_order_current(s)}
               [] s.mode = "repeat_all" ->
                    {to(s, IF dir = "next" THEN (s.cur % n) + 1
                                           ELSE ((s.cur + n - 2) % n) + 1)}
               [] OTHER ->
                    LET i == IF dir = "next" THEN s.cur + 1 ELSE s.cur - 1
                    IN  {to(s, IF i \in 1..n THEN i ELSE 0)}

gui_player_step_manual(dir) ==
    LET s == reset_decoder_failure_tracking(p)
    IN  /\ s.cur > 0
        /\ \E t \in ManualSteps(s, dir) :
              p' \in IF t.at > 0 THEN play_track_at(t.q, t.at)
                     ELSE {IF t.q = s THEN s ELSE Slipped(t.q)}

InsertAt(seq, i, new) == SubSeq(seq, 1, i - 1) \o new \o SubSeq(seq, i, Len(seq))

RemoveAt(seq, i) == SubSeq(seq, 1, i - 1) \o SubSeq(seq, i + 1, Len(seq))

\* queue_shuffle_insert(): the bag keeps its order; the new songs come as far
\* after its position as they come after the current track in the list.
BagWith(s, at, added) ==
    LET slot == s.pos + at - s.cur
        moved == [i \in 1..Len(s.order) |->
                    IF s.order[i] >= at THEN s.order[i] + added ELSE s.order[i]]
    IN  InsertAt(moved, IF slot < 1 THEN 1
                        ELSE IF slot > Len(s.order) + 1 THEN Len(s.order) + 1 ELSE slot,
                 [k \in 1..added |-> at + k - 1])

\* A song added before the current track moves that one away from under its index.
gui_player_queue_add_many(s, new) ==
    IF ~Active(s)
    THEN {[free_playlist(s) EXCEPT
            !.list = new, !.cur = 1, !.queued = Len(new) - 1,
            !.insert = IF Len(new) > 1 THEN Len(new) + 1 ELSE 0,
            !.deferred = TRUE]}
    ELSE LET at == IF s.insert \in 1..(Count(s) + 1) THEN s.insert ELSE s.cur + 1
         IN  arm_next_track_for_audio(
                [s EXCEPT !.list = InsertAt(@, at, new),
                          !.slip = @ \/ at <= s.cur,
                          !.queued = @ + Len(new),
                          !.insert = at + Len(new),
                          !.order = IF BagFits(s) THEN BagWith(s, at, Len(new)) ELSE @,
                          !.pending = <<>>])

AddToQueue(new) ==
    /\ Count(p) + Len(new) <= MaxLen /\ p.queued + Len(new) <= MaxLen
    /\ \E s \in Synced(p) : p' \in gui_player_queue_add_many(s, new)

gui_player_queue_play_next(t) ==
    /\ Count(p) < MaxLen /\ p.queued < MaxLen
    /\ \E s \in Synced(p) :
          \E r \in gui_player_queue_add_many([s EXCEPT !.insert = s.cur + 1], <<t>>) :
              p' = [r EXCEPT !.insert = IF Count(r) = Count(s) THEN s.insert
                                        ELSE r.cur + 1 + r.queued]

\* gui_player_queue_snapshot(): the order shown is the bag's when shuffling.
DisplayedAt(s) == IF s.mode = "shuffle" THEN s.pos ELSE s.cur

Displayed(s) ==
    IF s.mode = "shuffle" THEN [i \in 1..Count(s) |-> s.list[s.order[i]]] ELSE s.list

InsertAfterQueued(s) == IF s.queued > 0 THEN s.cur + 1 + s.queued ELSE 0

Renumbered(s) == [s EXCEPT !.insert = InsertAfterQueued(s)]

\* queue_materialize_order(): the list takes the order shown.
Materialized(s) ==
    LET at == DisplayedAt(s)
    IN  Renumbered([s EXCEPT !.list = Displayed(s), !.cur = at,
                             !.order = IF BagFits(s) THEN [i \in 1..Count(s) |-> i] ELSE @,
                             !.pos = IF BagFits(s) THEN at ELSE @,
                             !.pending = <<>>])

\* Entries are numbered as displayed.  A handler that had to catch up with the
\* engine leaves a newer queue_revision, and the edit is refused.
CaughtUp(s) ==
    s.advanced /\ \E r \in Prepared(s) : compute_auto_advance_index(r) \in 1..Count(s)

Moved(seq, from, to) == InsertAt(RemoveAt(seq, from), to, <<seq[from]>>)

\* A queue that lost or moved the entry at `from`.
EntryRemoved(m, from) ==
    [m EXCEPT !.list = RemoveAt(@, from),
              !.order = IF BagFits(m) THEN SubSeq(@, 1, Len(@) - 1) ELSE @,
              !.queued = IF from <= m.cur + m.queued THEN @ - 1 ELSE @]

EntryMoved(m, from, to) ==
    LET end == m.cur + m.queued
    IN  [m EXCEPT !.list = Moved(@, from, to),
                  !.queued = IF from <= end /\ to > end THEN to - m.cur
                             ELSE IF from > end /\ to <= end THEN @ + 1 ELSE @]

gui_player_queue_edit(from, to) ==
    \E s \in Synced(p) :
        IF CaughtUp(p) THEN p' = s
        ELSE \E e \in EnsureIfShuffling(s) :
                p' \in IF \/ s.list = <<>>
                          \/ from \notin (DisplayedAt(e) + 1)..Count(e)
                          \/ to \notin {0} \cup (DisplayedAt(e) + 1)..Count(e)
                       THEN {e}
                       ELSE LET m == Materialized(e)
                            IN  arm_next_track_for_audio(Renumbered(
                                    IF to = 0 THEN EntryRemoved(m, from)
                                              ELSE EntryMoved(m, from, to)))

gui_player_queue_select(i) ==
    \E s \in Synced(p) :
        IF CaughtUp(p) \/ i \notin 1..Count(s) THEN p' = s
        ELSE \E e \in EnsureIfShuffling(s) :
                LET m == Materialized(e)
                    left == IF i > m.cur /\ i <= m.cur + m.queued
                            THEN m.queued - (i - m.cur)
                            ELSE IF i # m.cur THEN 0 ELSE m.queued
                IN  p' \in play_track_at(
                        [m EXCEPT !.queued = left,
                                  !.insert = IF left > 0 THEN i + 1 + left ELSE 0,
                                  !.pos = IF m.order # <<>> THEN i ELSE @], i)

\* Only the current track stays; a lazily read list also drops its bag.
gui_player_queue_clear_all ==
    \E s \in Synced(p) :
        IF ~Active(s) THEN p' = s
        ELSE \E e \in EnsureIfShuffling(s), lazy \in BOOLEAN :
                LET m == IF lazy THEN s ELSE Materialized(e)
                IN  p' \in arm_next_track_for_audio(
                        [m EXCEPT !.list = <<TrackAt(m, m.cur)>>, !.cur = 1,
                                  !.queued = 0, !.insert = 0,
                                  !.order = IF lazy \/ @ = <<>> THEN <<>> ELSE <<1>>,
                                  !.pos = IF lazy \/ m.order = <<>> THEN @ ELSE 1,
                                  !.pending = <<>>])

\* queue_start(): play what is displayed from one of its entries, in order or
\* reshuffled.
queue_start(m, i) ==
    /\ p.list # <<>>
    /\ i \in 1..Count(p)
    /\ m = "sequential" => i = 1
    /\ \E e \in EnsureIfShuffling(p) :
          \E r \in arm_next_track_for_audio(
                [e EXCEPT !.list = Displayed(e), !.cur = i, !.queued = 0, !.insert = 0,
                          !.order = <<>>, !.pos = 0, !.pending = <<>>, !.mode = m]) :
              p' \in play_track_at(r, i)

\* The file that plays is deleted: the next entry takes its place.
delete_song_confirm_cb ==
    /\ Active(p)
    /\ LET s == [p EXCEPT !.list = RemoveAt(@, p.cur)]
       IN  p' \in IF s.list = <<>>
                  THEN {[s EXCEPT !.cur = 0, !.playing = NoTrack]}
                  ELSE play_track_at(s, IF s.cur <= Count(s) THEN s.cur ELSE Count(s))

\* Play, for a track that was only loaded.
toggle_play_pause ==
    /\ p.cur > 0 /\ p.deferred
    /\ p' \in play_track_at([p EXCEPT !.deferred = FALSE], p.cur)

\* The queue screen, the remote control and the checkpoint read the queue.
gui_player_queue_snapshot ==
    /\ p.list # <<>>
    /\ p' \in EnsureIfShuffling(p)

\* A DAC mode takes the output, which stops playback, or gives it back.
external_dac_block_reason(b) ==
    p' = [p EXCEPT !.blocked = b, !.playing = IF b THEN NoTrack ELSE @]

\* The card goes: so does a list with a file of the card in it.
gui_player_handle_sd_unmount ==
    /\ \E i \in 1..Count(p) : p.list[i] \in OnCard
    /\ p' = IF TrackAt(p, p.cur) \in OnCard
            THEN [free_playlist(p) EXCEPT !.playing = NoTrack]
            ELSE IF p.playing = NoTrack THEN free_playlist(p)
            ELSE Slipped(free_playlist(p))

-----------------------------------------------------------------------------
(* The checkpoint of the queue and its way back.                           *)

\* gui_player_queue_checkpoint()
Checkpoints(s) ==
    {[list |-> e.list, current |-> e.cur, pending |-> e.queued, mode |-> e.mode,
      pos |-> e.pos,
      order |-> IF e.mode = "shuffle" THEN e.order ELSE <<>>,
      continuation |-> IF e.mode = "shuffle" THEN e.pending ELSE <<>>]
     : e \in EnsureIfShuffling(s)}

valid(c) ==
    /\ c.list # <<>>
    /\ c.current \in 1..Len(c.list)
    /\ c.pending <= Len(c.list) - c.current
    /\ c.order # <<>> => c.pos \in 1..Len(c.list)

permutation(order, n) == order = <<>> \/ order \in Orders(n)

queue_resume_write_at(c) ==
    /\ valid(c)
    /\ permutation(c.order, Len(c.list))
    /\ permutation(c.continuation, Len(c.list))

\* How much the paths of a list come to.
PathBytes(list) ==
    LET total[n \in 0..Len(list)] == IF n = 0 THEN 0 ELSE total[n - 1] + Bytes[list[n]]
    IN  total[Len(list)]

\* Two conditions the writer does not have.
queue_resume_read(c) ==
    /\ queue_resume_write_at(c)
    /\ PathBytes(c.list) <= MaxBytes
    /\ c.order # <<>> => c.order[c.pos] = c.current

install_saved_resume_playlist(c) ==
    [Fresh(c.mode, p.gapless) EXCEPT
        !.list = c.list, !.queued = c.pending,
        !.insert = IF c.pending > 0 THEN c.current + 1 + c.pending ELSE 0,
        !.order = c.order, !.pos = c.pos, !.pending = c.continuation]

\* Power goes after a checkpoint: the next start restores it and plays, or only
\* shows, the track it names.
gui_player_restore_sd_queue(play) ==
    /\ Active(p)
    /\ \E c \in Checkpoints(p) :
          /\ queue_resume_write_at(c)
          /\ p' \in IF ~queue_resume_read(c) THEN {Fresh(p.mode, p.gapless)}
                    ELSE LET s == install_saved_resume_playlist(c)
                         IN  IF play THEN play_track_at(s, c.current)
                             ELSE {[s EXCEPT !.cur = c.current, !.deferred = TRUE]}

-----------------------------------------------------------------------------
(* What the audio engine does and the GUI's poll makes of it.              *)

Handover ==
    /\ CanHandOver(p)
    /\ p' = HandedOver(p)

\* Nothing was armed, or it would not open.
Finish ==
    /\ p.playing # NoTrack
    /\ p' = [p EXCEPT !.playing = NoTrack, !.finished = TRUE]

Fail(kind) ==
    /\ p.playing # NoTrack
    /\ p' = [p EXCEPT !.playing = NoTrack, !.error = kind]

\* The bag and its continuation read on from one another.
BagEntry(s, i) ==
    IF i <= Count(s) THEN s.order[i]
    ELSE IF i - Count(s) <= Count(s) THEN s.pending[i - Count(s)] ELSE 0

\* compute_decoder_failure_advance_plan(): the songs queued by hand first, then
\* those the play mode would come to, ranked in that order.
Candidates(s) ==
    LET n == Count(s)
        hand == IF s.cur + s.queued <= n THEN s.queued ELSE n - s.cur
        from == IF s.queued = 0 THEN s.cur ELSE s.cur + hand
        reach == IF n = 1 THEN 0
                 ELSE CASE s.mode = "shuffle" -> (IF s.pos < n THEN n - s.pos ELSE 0) + n
                        [] s.mode = "sequential" -> n - from
                        [] OTHER -> n - 1
        later(k) == CASE s.mode = "shuffle" -> BagEntry(s, s.pos + k)
                      [] s.mode = "sequential" -> from + k
                      [] OTHER -> ((from + k - 1) % n) + 1
    IN  {[rank |-> k, at |-> s.cur + k, consumed |-> k, steps |-> 0] : k \in 1..hand}
        \cup {[rank |-> s.queued + k, at |-> later(k), consumed |-> s.queued,
               steps |-> IF s.mode = "shuffle" THEN k ELSE 0]
                : k \in {j \in 1..reach : later(j) \notin {0, s.cur, from}}}

First(plans) == {c \in plans : \A d \in plans : c.rank <= d.rank}

AnyCandidate(s) == First(Candidates(s))

\* The first candidate that has not failed, if there is one.
compute_decoder_failure_advance_plan(s) ==
    First({c \in Candidates(s) : s.list[c.at] \notin s.failed})

commit_decoder_failure_advance_plan(s, plan) ==
    LET n == Count(s)
        wraps == s.pos + plan.steps > n
    IN  [s EXCEPT
            !.queued = IF plan.consumed >= s.queued THEN 0 ELSE @ - plan.consumed,
            !.insert = IF plan.consumed > 0 /\ plan.consumed >= s.queued THEN 0 ELSE @,
            !.order = IF plan.steps > 0 /\ wraps THEN s.pending ELSE @,
            !.pending = IF plan.steps > 0 /\ wraps THEN <<>> ELSE @,
            !.pos = IF plan.steps > 0 THEN ((s.pos + plan.steps - 1) % n) + 1 ELSE @]

\* The bag and its continuation are made before a plan is.
WithContinuation(s) ==
    UNION {IF e.mode # "shuffle" \/ e.pending # <<>> THEN {e}
           ELSE {[e EXCEPT !.pending = b] : b \in Orders(Count(e))}
           : e \in EnsureIfShuffling(s)}

MaxSkips == 5

DecoderFailed(s0) ==
    LET s == [s0 EXCEPT !.failed = IF TrackAt(s0, s0.cur) = NoTrack THEN @
                                   ELSE @ \cup {TrackAt(s0, s0.cur)},
                        !.skips = @ + 1]
        stopped(r) == reset_decoder_failure_tracking([r EXCEPT !.deferred = FALSE])
    IN  IF s.skips >= (IF Count(s) < MaxSkips THEN Count(s) ELSE MaxSkips)
        THEN {stopped(s)}
        ELSE UNION {LET plans == compute_decoder_failure_advance_plan(r)
                    IN  IF plans = {} THEN {stopped(r)}
                        ELSE UNION {play_track_at_from_internal(
                                        [commit_decoder_failure_advance_plan(r, plan) EXCEPT
                                            !.deferred = FALSE], plan.at)
                                    : plan \in plans}
                    : r \in WithContinuation(s)}

\* A failure of the track the engine has moved on to is told apart by its
\* generation; the GUI first catches up.
gui_player_handle_playback_error_ex ==
    /\ p.error # "none"
    /\ LET s == [p EXCEPT !.error = "none"]
       IN  IF s.cur = 0 THEN p' = s
           ELSE \E r \in (IF s.advanced THEN ConsumeAdvance(s) ELSE {s}) :
                   p' \in IF s.advanced /\ ~CaughtUp(s) THEN {r}
                          ELSE IF p.error = "output" THEN {[r EXCEPT !.deferred = TRUE]}
                          ELSE DecoderFailed(r)

update_timer_cb ==
    \/ gui_player_handle_playback_error_ex
    \/ /\ p.error = "none" /\ p.advanced
       /\ p' \in ConsumeAdvance(p)
    \/ /\ p.error = "none" /\ ~p.advanced /\ p.finished
       /\ LET s == [p EXCEPT !.finished = FALSE]
          IN  p' \in IF s.cur = 0 THEN {s} ELSE gui_player_handle_track_finished(s)

-----------------------------------------------------------------------------
User ==
    \/ \E l \in Openable : \E i \in 1..Len(l) : on_file_selected(l, i)
    \/ \E m \in Modes : gui_player_set_play_mode(m)
    \/ \E g \in BOOLEAN : gui_player_set_gapless_enabled(g)
    \/ \E dir \in {"prev", "next"} : gui_player_step_manual(dir)
    \/ \E new \in Additions : AddToQueue(new)
    \/ \E new \in Additions : gui_player_queue_play_next(new[1])
    \/ \E from \in 1..MaxLen, to \in 0..MaxLen : gui_player_queue_edit(from, to)
    \/ \E i \in 1..MaxLen : gui_player_queue_select(i)
    \/ gui_player_queue_clear_all
    \/ \E m \in Modes \cap {"sequential", "shuffle"}, i \in 1..MaxLen : queue_start(m, i)
    \/ delete_song_confirm_cb
    \/ toggle_play_pause

World ==
    \/ \E bl \in BOOLEAN : external_dac_block_reason(bl)
    \/ gui_player_handle_sd_unmount
    \/ \E play \in BOOLEAN : gui_player_restore_sd_queue(play)

Command ==
    /\ commands < MaxCommands
    /\ commands' = commands + 1
    /\ User \/ World

Run ==
    /\ \/ gui_player_queue_snapshot
       \/ Handover
       \/ Finish
       \/ \E kind \in {"decoder", "output"} : Fail(kind)
       \/ update_timer_cb
    /\ UNCHANGED commands

Next == Command \/ Run

QueueSpec == Init /\ [][Next]_vars

-----------------------------------------------------------------------------
Positions == 0..(MaxLen + 1)

Bags == UNION {Orders(n) : n \in 0..MaxLen}

\* The type invariant: among other things the bag and its continuation are
\* permutations, so that a pass plays no track twice and leaves none out.
TypeOK ==
    /\ p.list \in Seq(Tracks \cup {NoTrack}) /\ Count(p) <= MaxLen
    /\ p.cur \in Positions /\ p.insert \in Nat /\ p.queued \in 0..MaxLen
    /\ p.mode \in Modes /\ p.gapless \in BOOLEAN /\ p.blocked \in BOOLEAN
    /\ p.order \in Bags /\ p.pending \in Bags /\ p.pos \in Nat
    /\ p.failed \subseteq Tracks /\ p.skips \in 0..MaxSkips
    /\ {p.playing, p.armed} \subseteq Tracks \cup {NoTrack}
    /\ p.error \in {"none", "decoder", "output"}
    /\ {p.deferred, p.advanced, p.finished, p.slip} \subseteq BOOLEAN

\* Whatever is inserted, removed, deleted, reshuffled or restored, the bag that is
\* read when shuffling has its position inside it, and the continuation that
\* commit_auto_advance() would swap in is as long as the list.
BagsFit ==
    p.mode = "shuffle" /\ BagFits(p) =>
        /\ Active(p) /\ ~p.slip => p.pos \in 1..Count(p)
        /\ p.pending # <<>> => Len(p.pending) = Count(p)

\* The track shown as current is the one that plays or, until the GUI has noted
\* that the engine moved on, the one it will then come to.
ShownIsPlaying ==
    p.playing # NoTrack /\ ~p.slip =>
        p.playing = TrackAt(p, IF p.advanced THEN compute_auto_advance_index(p) ELSE p.cur)

\* The engine holds the very track the GUI will compute when it moves on.
ArmedIsNext ==
    p.playing # NoTrack /\ ~p.advanced /\ ~p.slip =>
        /\ Prepared(p) = {p}
        /\ p.armed = IF p.gapless THEN TrackAt(p, compute_auto_advance_index(p)) ELSE NoTrack

\* A queue that queue_resume_write_at() agrees to write is one that
\* queue_resume_read() takes back, the bag's position included, which only the
\* reader checks.  Left out: paths of more than MaxBytes together, which only
\* the reader refuses.
SavedQueueIsAccepted ==
    Active(p) /\ ~p.slip =>
        \A c \in Checkpoints(p) :
            queue_resume_write_at(c) /\ PathBytes(c.list) <= MaxBytes => queue_resume_read(c)

\* A file that could not be played is not started again while its failure
\* counts, from whichever of the list, the queue, the bag and its continuation
\* the next candidate is taken.
FailedNotRetried ==
    [][p.playing = NoTrack /\ p'.playing # NoTrack => p'.playing \notin p'.failed]_vars
=============================================================================

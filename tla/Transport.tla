------------------------------ MODULE Transport ------------------------------
(***************************************************************************)
(* The playback engine of audio/audio.c: the one playback thread           *)
(* (audio_thread_func) and the calls other threads make on it.  The calls  *)
(* and the thread share the fields audio_mutex protects; the thread keeps  *)
(* its decoders, the position and what it read under the mutex to itself   *)
(* and works on them with the mutex released.  A step is one critical      *)
(* section, with the unlocked work before it that nobody else sees.        *)
(*                                                                         *)
(* Time is counted in chunks of decoded audio.  Ramps, gains and ReplayGain*)
(* are left out, as are live streams, and the seek index of MP3 files.     *)
(* The target build is modelled (HOST_BUILD undefined).                    *)
(***************************************************************************)
EXTENDS Integers

CONSTANTS
    Tracks,      \* the files there are
    NoTrack,     \* a NULL path, a closed decoder
    Broken,      \* the files no decoder opens
    Len,         \* chunks in a track
    Format,      \* channels and sample rate of a track
    Window,      \* CROSSFADE_SECONDS in chunks
    Starts,      \* positions a track is started from, or sought to
    MaxGen,      \* bound: playback_generation
    MaxNext,     \* bound: audio_set_next_track calls
    MaxSeeks,    \* bound: seek requests
    MaxPauses,   \* bound: pause toggles
    MaxStops,    \* bound: audio_stop calls
    MaxFaults    \* bound: decoder and output failures

ASSUME TransportAssumption ==
    /\ NoTrack \notin Tracks
    /\ Broken \subseteq Tracks
    /\ Len \in [Tracks -> Nat \ {0}]
    /\ Window \in Nat
    /\ Starts \subseteq Nat
    /\ {MaxGen, MaxNext, MaxSeeks, MaxPauses, MaxStops, MaxFaults} \subseteq Nat

VARIABLES
    \* under audio_mutex
    gen,         \* playback_generation
    restart,     \* restart_path and _start_seconds while restart_requested
    next,        \* next_path
    nextGen,     \* next_track_generation
    stop,        \* stop_requested
    paused, have,        \* paused, have_current
    finished, advanced,  \* track_finished, track_advanced
    error,       \* last_playback_error and its generation
    active,      \* active_path
    total,       \* current_total_frames
    seek,        \* the pending seek, or NoSeek
    xfade,       \* crossfade_enabled
    \* of the playback thread
    pc,          \* where it is
    path,        \* cur_path_local
    dec,         \* the track cur_dec reads, NoTrack when closed
    cur,         \* cur_generation
    pos,         \* cur_frames_played_local
    nxt,         \* the track nxt_dec reads, NoTrack when closed
    nxtPos,      \* nxt_frames_consumed
    snap,        \* what it read under the mutex for this chunk
    end,         \* why it left the track: was_stopped, ended_with_no_next
    device,      \* it holds the output device
    \* history and bounds
    wish,        \* history: the last of audio_play_file_at and audio_stop
    seeks, pauses, stops, faults

shared == <<gen, restart, next, nextGen, stop, paused, have, finished, advanced,
            error, active, total, seek, xfade>>
thread == <<pc, path, dec, cur, pos, nxt, nxtPos, snap, end, device>>
used == <<seeks, pauses, stops, faults>>
vars == <<gen, restart, next, nextGen, stop, paused, have, finished, advanced,
          error, active, total, seek, xfade, pc, path, dec, cur, pos, nxt, nxtPos,
          snap, end, device, wish, seeks, pauses, stops, faults>>

(***************************************************************************)
(* A pending seek names a chunk, or a percentage (a number of halves) that *)
(* the thread converts with the length of the track it plays.              *)
(***************************************************************************)
Track == Tracks \cup {NoTrack}
Halves == 0 .. 2
Restart == [path : Track, at : Nat]
NoRestart == [path |-> NoTrack, at |-> 0]
Seek == [percent : BOOLEAN, to : Nat, gen : Nat]
NoSeek == [percent |-> FALSE, to |-> 0, gen |-> 0]
Error == [kind : {"none", "decoder", "output"}, gen : Nat]
NoError == [kind |-> "none", gen |-> 0]
Snap == [stop : BOOLEAN, restart : BOOLEAN, seek : Seek, xfade : BOOLEAN,
         next : Track, nextGen : Nat]
NoSnap == [stop |-> FALSE, restart |-> FALSE, seek |-> NoSeek, xfade |-> FALSE,
           next |-> NoTrack, nextGen |-> 0]

Smaller(a, b) == IF a < b THEN a ELSE b

Restarting == restart.path # NoTrack
Cancelled == stop \/ Restarting

Init ==
    /\ gen = 0 /\ restart = NoRestart
    /\ next = NoTrack /\ nextGen = 0
    /\ stop = FALSE /\ paused = FALSE /\ have = FALSE
    /\ finished = FALSE /\ advanced = FALSE /\ error = NoError
    /\ active = NoTrack /\ total = 0 /\ seek = NoSeek /\ xfade \in BOOLEAN
    /\ pc = "idle" /\ path = NoTrack /\ dec = NoTrack /\ cur = 0 /\ pos = 0
    /\ nxt = NoTrack /\ nxtPos = 0 /\ snap = NoSnap /\ end = "none"
    /\ device = FALSE
    /\ wish = "none"
    /\ seeks = 0 /\ pauses = 0 /\ stops = 0 /\ faults = 0

-----------------------------------------------------------------------------
(***************************************************************************)
(* The calls of the other threads.                                         *)
(***************************************************************************)

\* Interrupt what plays and start p at chunk s.  The staged next track is
\* dropped, but next_track_generation stays.
audio_play_file_at(p, s) ==
    /\ gen < MaxGen
    /\ restart' = [path |-> p, at |-> s]
    /\ next' = NoTrack
    /\ stop' = FALSE /\ paused' = FALSE
    /\ finished' = FALSE /\ advanced' = FALSE /\ error' = NoError
    /\ gen' = gen + 1
    /\ seek' = NoSeek
    /\ active' = p
    /\ wish' = "play"
    /\ UNCHANGED <<nextGen, have, total, xfade, thread, used>>

audio_set_next_track(p) ==
    /\ nextGen < MaxNext
    /\ next' = p
    /\ nextGen' = nextGen + 1
    /\ UNCHANGED <<gen, restart, stop, paused, have, finished, advanced, error, active,
                   total, seek, xfade, thread, wish, used>>

audio_set_crossfade_enabled(on) ==
    /\ xfade' = on
    /\ UNCHANGED <<gen, restart, next, nextGen, stop, paused, have, finished, advanced,
                   error, active, total, seek, thread, wish, used>>

\* Without a current track there is nothing to pause.
audio_toggle_pause ==
    /\ have
    /\ pauses < MaxPauses
    /\ paused' = ~paused
    /\ pauses' = pauses + 1
    /\ UNCHANGED <<gen, restart, next, nextGen, stop, have, finished, advanced, error,
                   active, total, seek, xfade, thread, wish, seeks, stops, faults>>

audio_stop ==
    /\ stops < MaxStops
    /\ stop' = TRUE
    /\ wish' = "stop"
    /\ stops' = stops + 1
    /\ UNCHANGED <<gen, restart, next, nextGen, paused, have, finished, advanced, error,
                   active, total, seek, xfade, thread, seeks, pauses, faults>>

RequestSeek(request) ==
    /\ seeks < MaxSeeks
    /\ seek' = request
    /\ seeks' = seeks + 1
    /\ UNCHANGED <<gen, restart, next, nextGen, stop, paused, have, finished, advanced,
                   error, active, total, xfade, thread, wish, pauses, stops, faults>>

\* The target is clamped to the length last published.
audio_seek(s) ==
    /\ have /\ total > 0 /\ active # NoTrack
    /\ RequestSeek([percent |-> FALSE, to |-> Smaller(s, total), gen |-> gen])

\* Needs no opened track: the thread converts the percentage later.
audio_seek_percent(h) ==
    /\ active # NoTrack
    /\ RequestSeek([percent |-> TRUE, to |-> h, gen |-> gen])

audio_consume_error_ex ==
    /\ error # NoError
    /\ error' = NoError
    /\ UNCHANGED <<gen, restart, next, nextGen, stop, paused, have, finished, advanced,
                   active, total, seek, xfade, thread, wish, used>>

audio_consume_track_advanced ==
    /\ advanced
    /\ advanced' = FALSE
    /\ UNCHANGED <<gen, restart, next, nextGen, stop, paused, have, finished, error,
                   active, total, seek, xfade, thread, wish, used>>

audio_consume_track_finished ==
    /\ finished
    /\ finished' = FALSE
    /\ UNCHANGED <<gen, restart, next, nextGen, stop, paused, have, advanced, error,
                   active, total, seek, xfade, thread, wish, used>>

Call ==
    \/ \E p \in Tracks, s \in Starts : audio_play_file_at(p, s)
    \/ \E p \in Track : audio_set_next_track(p)
    \/ \E on \in BOOLEAN : audio_set_crossfade_enabled(on)
    \/ audio_toggle_pause
    \/ audio_stop
    \/ \E s \in Starts : audio_seek(s)
    \/ \E h \in Halves : audio_seek_percent(h)
    \/ audio_consume_error_ex
    \/ audio_consume_track_advanced
    \/ audio_consume_track_finished

-----------------------------------------------------------------------------
(***************************************************************************)
(* The outer loop: take a request, open it, publish it as current.         *)
(***************************************************************************)

\* nxt_frames_consumed means nothing without nxt_dec.
CloseNext == nxt' = NoTrack /\ nxtPos' = 0

\* Mutant: the request keeps the generation of the track before it.
TakeRestartKeepsGeneration ==
    /\ pc = "idle" /\ Restarting
    /\ restart' = NoRestart
    /\ path' = restart.path /\ pos' = restart.at
    /\ dec' = NoTrack /\ CloseNext
    /\ pc' = "open"
    /\ UNCHANGED <<gen, next, nextGen, stop, paused, have, finished, advanced, error, cur,
                   active, total, seek, xfade, snap, end, device, wish, used>>

\* The thread wakes from its idle wait; decoders still open from an
\* interrupted track are closed.
TakeRestart ==
    /\ pc = "idle" /\ Restarting
    /\ restart' = NoRestart
    /\ path' = restart.path /\ pos' = restart.at
    /\ cur' = gen
    /\ dec' = NoTrack /\ CloseNext
    /\ pc' = "open"
    /\ UNCHANGED <<gen, next, nextGen, stop, paused, have, finished, advanced, error,
                   active, total, seek, xfade, snap, end, device, wish, used>>

\* One more thing fails, within the bound.
Fault ==
    /\ faults < MaxFaults
    /\ faults' = faults + 1
    /\ UNCHANGED <<seeks, pauses, stops>>

\* Mutant: a file that does not open leaves the track before it current.
OpenFailsKeepsCurrent ==
    /\ pc = "open" /\ path \in Broken
    /\ error' = [kind |-> "decoder", gen |-> cur]
    /\ pc' = "idle"
    /\ UNCHANGED <<gen, restart, next, nextGen, stop, paused, have, finished, advanced,
                   active, total, seek, xfade, path, dec, cur, pos, nxt, nxtPos, snap, end,
                   device, wish, used>>

\* The file does not open, or neither the initial seek nor a reopen succeeds.
OpenFails ==
    /\ pc = "open"
    /\ \/ path \in Broken /\ UNCHANGED used
       \/ path \notin Broken /\ pos > 0 /\ Fault
    /\ have' = FALSE
    /\ error' = [kind |-> "decoder", gen |-> cur]
    /\ pc' = "idle"
    /\ UNCHANGED <<gen, restart, next, nextGen, stop, paused, finished, advanced, active,
                   total, seek, xfade, path, dec, cur, pos, nxt, nxtPos, snap, end, device,
                   wish>>

\* Mutant: a stopped request leaves the track before it current.
CancelKeepsCurrent ==
    /\ gen = cur /\ Cancelled
    /\ paused' = FALSE /\ stop' = FALSE
    /\ device' = FALSE
    /\ UNCHANGED <<have, error>>

\* The request was stopped before anything newer was asked for: nothing is
\* current and the device is given back.
CancelSameGeneration ==
    /\ gen = cur /\ Cancelled
    /\ have' = FALSE /\ paused' = FALSE /\ stop' = FALSE
    /\ device' = FALSE
    /\ UNCHANGED error

\* ensure_device_with_retry() fails, or gives up because of a newer command.
OutputUnavailable ==
    /\ pc = "open" /\ path \notin Broken
    /\ \/ Fault
       \/ Cancelled /\ UNCHANGED used
    /\ \/ CancelSameGeneration
       \/ /\ gen = cur /\ ~Cancelled
          /\ have' = FALSE
          /\ error' = [kind |-> "output", gen |-> cur]
          /\ device' = FALSE
          /\ UNCHANGED <<paused, stop>>
       \/ /\ gen # cur
          /\ device' \in {device, FALSE}
          /\ UNCHANGED <<have, error, paused, stop>>
    /\ pc' = "idle"
    /\ UNCHANGED <<gen, restart, next, nextGen, finished, advanced, active, total, seek,
                   xfade, path, dec, cur, pos, nxt, nxtPos, snap, end, wish>>

\* The output is open but a newer command arrived: initial_request_stale.
DropStaleRequest ==
    /\ pc = "open" /\ path \notin Broken
    /\ gen # cur \/ Cancelled
    /\ \/ CancelSameGeneration
       \/ /\ gen # cur
          /\ device' = TRUE
          /\ UNCHANGED <<have, error, paused, stop>>
    /\ pc' = "idle"
    /\ UNCHANGED <<gen, restart, next, nextGen, finished, advanced, active, total, seek,
                   xfade, path, dec, cur, pos, nxt, nxtPos, snap, end, wish, used>>

\* The track becomes current, at its start position if the initial seek works.
Publish ==
    /\ pc = "open" /\ path \notin Broken
    /\ gen = cur /\ ~Cancelled
    /\ \/ pos' = Smaller(pos, Len[path]) /\ UNCHANGED used
       \/ pos > 0 /\ pos' = 0 /\ Fault
    /\ dec' = path
    /\ have' = TRUE
    /\ total' = Len[path]
    /\ device' = TRUE
    /\ pc' = "top"
    /\ UNCHANGED <<gen, restart, next, nextGen, stop, paused, finished, advanced, error,
                   active, seek, xfade, path, cur, nxt, nxtPos, snap, end, wish>>

-----------------------------------------------------------------------------
(***************************************************************************)
(* The inner loop: once per chunk the thread reads the commands under the  *)
(* mutex, then decodes and writes with the mutex released.                 *)
(***************************************************************************)

\* Paused: fade out, give the device back, then wait.
SeePause ==
    /\ pc = "top"
    /\ paused /\ ~Cancelled
    /\ pc' = "fade"
    /\ UNCHANGED <<shared, path, dec, cur, pos, nxt, nxtPos, snap, end, device, wish, used>>

ReleaseForPause ==
    /\ pc = "fade"
    /\ device' = FALSE
    /\ pc' = "wait"
    /\ UNCHANGED <<shared, path, dec, cur, pos, nxt, nxtPos, snap, end, wish, used>>

\* A seek for another generation is dropped with the read.  The snapshot of
\* an empty next_path has generation 0.
ReadCommands ==
    /\ \/ pc = "top" /\ (~paused \/ Cancelled)
       \/ pc = "wait" /\ (~paused \/ Cancelled \/ seek # NoSeek)
    /\ snap' = [stop |-> stop, restart |-> Restarting,
                seek |-> IF seek.gen = cur THEN seek ELSE NoSeek,
                xfade |-> xfade, next |-> next,
                nextGen |-> IF next = NoTrack THEN 0 ELSE nextGen]
    /\ seek' = NoSeek
    /\ pc' = "chunk"
    /\ UNCHANGED <<gen, restart, next, nextGen, stop, paused, have, finished, advanced,
                   error, active, total, xfade, path, dec, cur, pos, nxt, nxtPos, end,
                   device, wish, used>>

\* The restart is taken at the top of the outer loop; the device stays open.
LeaveForRestart ==
    /\ pc = "chunk" /\ snap.restart
    /\ device' = TRUE
    /\ pc' = "idle"
    /\ snap' = NoSnap
    /\ UNCHANGED <<shared, path, dec, cur, pos, nxt, nxtPos, end, wish, used>>

LeaveForStop ==
    /\ pc = "chunk" /\ snap.stop /\ ~snap.restart
    /\ device' = TRUE
    /\ end' = "stopped"
    /\ pc' = "tail"
    /\ snap' = NoSnap
    /\ UNCHANGED <<shared, path, dec, cur, pos, nxt, nxtPos, wish, used>>

\* An unrecoverable failure ends the track without reporting it finished.
Fail(kind) ==
    /\ error' = [kind |-> kind, gen |-> cur]
    /\ have' = FALSE /\ paused' = FALSE
    /\ end' = "error"
    /\ pc' = "tail"
    /\ Fault
    /\ snap' = NoSnap
    /\ UNCHANGED <<gen, restart, next, nextGen, stop, finished, advanced, active, total,
                   seek, xfade, path, dec, cur, pos, nxt, nxtPos, device, wish>>

Uncommanded == pc = "chunk" /\ ~snap.stop /\ ~snap.restart

\* Mutant: the target is taken as it was clamped by the caller.
SeekTargetUnclamped ==
    IF snap.seek.percent THEN (snap.seek.to * Len[dec]) \div 2 ELSE snap.seek.to

SeekTarget ==
    LET to == snap.seek.to IN
    Smaller(IF snap.seek.percent THEN (to * Len[dec]) \div 2 ELSE to, Len[dec])

\* A prefetched decoder is closed; a failing seek reopens the track where it was.
ApplySeek ==
    /\ Uncommanded /\ snap.seek # NoSeek
    /\ \/ pos' = SeekTarget /\ UNCHANGED used
       \/ UNCHANGED pos /\ Fault
    /\ CloseNext
    /\ device' = TRUE
    /\ pc' = "top"
    /\ snap' = NoSnap
    /\ UNCHANGED <<shared, path, dec, cur, end, wish>>

SeekFails ==
    /\ Uncommanded /\ snap.seek # NoSeek
    /\ Fail("decoder")

Decoding == Uncommanded /\ snap.seek = NoSeek
Remaining == Len[dec] - pos
InWindow == snap.xfade /\ snap.next # NoTrack /\ Remaining > 0 /\ Remaining <= Window

\* The decoder of the next track, opened now unless one is open already.
Prefetched == IF nxt = NoTrack /\ snap.next \notin Broken THEN snap.next ELSE nxt
PrefetchedPos == IF nxt = NoTrack THEN 0 ELSE nxtPos
Blending == InWindow /\ Prefetched # NoTrack /\ Format[Prefetched] = Format[dec]

\* Mix one chunk of both tracks.  Next may fail or be too short and is given
\* up, the chunk of the current track being kept; current may end early.
BlendChunk ==
    /\ Decoding /\ Blending
    /\ \/ /\ PrefetchedPos < Len[Prefetched]
          /\ pos' = pos + 1
          /\ nxt' = Prefetched /\ nxtPos' = PrefetchedPos + 1
          /\ pc' = IF Remaining > 1 THEN "top" ELSE "promote"
          /\ UNCHANGED used
       \/ /\ pos' = pos + 1
          /\ CloseNext
          /\ pc' = "top"
          /\ IF PrefetchedPos < Len[Prefetched] THEN Fault ELSE UNCHANGED used
       \/ /\ nxt' = Prefetched /\ nxtPos' = PrefetchedPos
          /\ pc' = "promote"
          /\ UNCHANGED pos
          /\ Fault
    /\ device' = TRUE
    /\ snap' = IF pc' = "top" THEN NoSnap ELSE snap
    /\ UNCHANGED <<shared, path, dec, cur, end, wish>>

\* Play one chunk of the current track alone.
PlainChunk ==
    /\ Decoding /\ ~Blending /\ Remaining > 0
    /\ pos' = pos + 1
    /\ IF InWindow THEN nxt' = Prefetched /\ nxtPos' = PrefetchedPos
       ELSE UNCHANGED <<nxt, nxtPos>>
    /\ device' = TRUE
    /\ pc' = "top"
    /\ snap' = NoSnap
    /\ UNCHANGED <<shared, path, dec, cur, end, wish, used>>

\* Nothing is delivered: the write gives up because of a newer command, or a
\* recoverable decoder error is retried.
RetryChunk ==
    /\ Decoding /\ Remaining > 0
    /\ \/ Cancelled /\ UNCHANGED used
       \/ Fault
    /\ IF InWindow THEN nxt' = Prefetched /\ nxtPos' = PrefetchedPos
       ELSE UNCHANGED <<nxt, nxtPos>>
    /\ device' = TRUE
    /\ pc' = "top"
    /\ snap' = NoSnap
    /\ UNCHANGED <<shared, path, dec, cur, pos, end, wish>>

\* A fatal or repeated decoder error, a premature end the reopening does not
\* cure (or that a command interrupts), an output that stays broken.
ChunkFails ==
    /\ Decoding /\ Remaining > 0
    /\ Fail("decoder") \/ Fail("output")

\* What the thread does under the mutex when the next track takes over.
Advance(d) ==
    /\ path' = next /\ next' = NoTrack
    /\ active' = next
    /\ gen' = gen + 1 /\ cur' = gen + 1
    /\ seek' = NoSeek
    /\ dec' = d /\ pos' = nxtPos
    /\ CloseNext
    /\ total' = Len[d]
    /\ advanced' = TRUE

\* The end of the blend window: the mutex is held from the check to the end.
PromoteNext ==
    /\ pc = "promote" /\ snap.nextGen = nextGen
    /\ Advance(nxt)
    /\ pc' = "top"
    /\ snap' = NoSnap
    /\ UNCHANGED <<restart, nextGen, stop, paused, have, finished, error, xfade, end,
                   device, wish, used>>

DiscardStaleNext ==
    /\ pc = "promote" /\ snap.nextGen # nextGen
    /\ CloseNext
    /\ pc' = "top"
    /\ snap' = NoSnap
    /\ UNCHANGED <<shared, path, dec, cur, pos, end, device, wish, used>>

\* The end of the track: hand over to the next one if it opens and is still
\* the armed one.
AtEnd ==
    /\ Decoding /\ Remaining <= 0
    /\ IF Prefetched # NoTrack /\ snap.nextGen = nextGen
       THEN /\ nxt' = Prefetched /\ nxtPos' = PrefetchedPos
            /\ pc' = "handoff"
            /\ UNCHANGED end
       ELSE /\ CloseNext
            /\ end' = "eof"
            /\ pc' = "tail"
    /\ device' = TRUE
    /\ snap' = NoSnap
    /\ UNCHANGED <<shared, path, dec, cur, pos, wish, used>>

\* The mutex was released since the check, to set the device up.
HandOff ==
    /\ pc = "handoff"
    /\ Advance(nxt)
    /\ \/ pc' = "top" /\ UNCHANGED <<end, device, used>>
       \/ pc' = "tail" /\ end' = "eof" /\ device' = FALSE /\ Fault
    /\ snap' = NoSnap
    /\ UNCHANGED <<restart, nextGen, stop, paused, have, finished, error, xfade, wish>>

\* The track is over: give everything back, report why.
Finish ==
    /\ pc = "tail"
    /\ dec' = NoTrack /\ CloseNext /\ path' = NoTrack /\ pos' = 0
    /\ device' = FALSE
    /\ have' = FALSE /\ paused' = FALSE
    /\ finished' = (finished \/ end = "eof")
    /\ stop' = (stop /\ end # "stopped")
    /\ end' = "none"
    /\ pc' = "idle"
    /\ UNCHANGED <<gen, restart, next, nextGen, advanced, error, active, total, seek, xfade,
                   cur, snap, wish, used>>

Play ==
    \/ TakeRestart \/ OpenFails \/ OutputUnavailable \/ DropStaleRequest \/ Publish
    \/ SeePause \/ ReleaseForPause \/ ReadCommands \/ LeaveForRestart \/ LeaveForStop
    \/ ApplySeek \/ SeekFails \/ BlendChunk \/ PlainChunk \/ RetryChunk \/ ChunkFails
    \/ PromoteNext \/ DiscardStaleNext \/ AtEnd \/ HandOff \/ Finish

Next == Call \/ Play

Spec == Init /\ [][Next]_vars

\* The playback thread runs whenever it can; nobody has to call it.
FairSpec == Spec /\ WF_vars(Play)

-----------------------------------------------------------------------------
(***************************************************************************)
(* Properties.                                                             *)
(***************************************************************************)
Places == {"idle", "open", "top", "fade", "wait", "chunk", "promote", "handoff", "tail"}
InTrack == Places \ {"idle", "open"}

FlagsOK ==
    /\ stop \in BOOLEAN /\ paused \in BOOLEAN /\ have \in BOOLEAN
    /\ finished \in BOOLEAN /\ advanced \in BOOLEAN
    /\ xfade \in BOOLEAN /\ device \in BOOLEAN

CountsOK ==
    /\ gen \in Nat /\ nextGen \in Nat /\ cur \in Nat
    /\ total \in Nat /\ pos \in Nat /\ nxtPos \in Nat
    /\ seeks \in Nat /\ pauses \in Nat /\ stops \in Nat /\ faults \in Nat

ValuesOK ==
    /\ restart \in Restart /\ error \in Error /\ seek \in Seek /\ snap \in Snap
    /\ next \in Track /\ active \in Track
    /\ path \in Track /\ dec \in Track /\ nxt \in Track
    /\ pc \in Places
    /\ end \in {"none", "stopped", "eof", "error"}
    /\ wish \in {"none", "play", "stop"}

\* A request being opened has a file, a track being played is open, and its
\* position, like that of a prefetched track, lies in it: a seek may come
\* clamped to the length of the track before it.
PositionOK ==
    /\ pc = "open" => path \in Tracks
    /\ pc \in InTrack => dec \in Tracks /\ pos <= Len[dec]
    /\ pc \in {"promote", "handoff"} => nxt \in Tracks
    /\ nxt # NoTrack => nxtPos <= Len[nxt]

\* Every field has its type and every position lies in its track.
TypeOK == FlagsOK /\ CountsOK /\ ValuesOK /\ PositionOK

\* Once the thread waits for work and none is queued, nothing counts as
\* playing: audio_is_playing() cannot stay true after a stop, a failed open or
\* a request overtaken while it was opened.
NothingPlayingWhenIdle == pc = "idle" /\ ~Restarting => ~have

\* An error of the current generation means that nothing plays: the GUI skips
\* a track for it only after that track has gone.
ErrorMeansSilent == error # NoError /\ error.gen = gen => ~have

\* The thread is behind the newest generation only while the request that
\* started it is still queued.  A request cannot be queued unnoticed without
\* the thread being behind, except by an automatic advance, which the thread
\* looks up from before it opens or decodes anything else; and an error of the
\* current generation leaves nothing queued and nothing being opened.
GenerationsInStep ==
    /\ cur <= gen /\ error.gen <= gen
    /\ gen # cur => Restarting
    /\ pc = "open" /\ Restarting => gen # cur
    /\ pc = "chunk" /\ snap.restart => Restarting
    /\ pc = "chunk" /\ Restarting /\ ~snap.restart => gen # cur
    /\ error # NoError /\ error.gen = gen => ~Restarting /\ pc # "open"

\* The thread never waits out a pause with the output device open, whatever
\* seeks and toggles came before.
PausedMeansReleased == pc = "wait" => ~device

\* Every play request comes to something: the track becomes current, fails
\* with its generation, is stopped, or a newer generation replaces it.
EveryPlayResolved ==
    \A g \in 1 .. MaxGen :
        (Restarting /\ gen = g) ~>
            (gen > g \/ wish = "stop" \/ (have /\ cur = g) \/ error.gen = g)

\* The thread waits for work after a file that did not open, and still holds the
\* device it opened for the track before: a stop made now does not wake it.
StuckAfterFailedOpen == pc = "idle" /\ path # NoTrack /\ device

\* audio_stop() releases the output device, unless a later request claims it or
\* the request stopped is for a file that does not open.
StopReleasesOutput == stop ~> (~device \/ Restarting \/ StuckAfterFailedOpen)

\* A stop is not forgotten: until something else is asked for, its flag stands
\* or the thread has nothing to play.
StopNotForgotten ==
    wish = "stop" => stop \/ (pc = "idle" /\ ~Restarting /\ ~have)

\* The track an advance starts, by crossfade or gapless handoff, is the one
\* armed by the latest audio_set_next_track().
AdvancesToArmedTrack ==
    [][cur' # cur /\ pc \in {"promote", "handoff"} => nxt = next]_vars

\* While the playback thread waits for work no track counts as playing, and while
\* it waits out a pause it does not hold the output device.
IdleIsQuiet == NothingPlayingWhenIdle /\ PausedMeansReleased

\* No request of the GUI is left hanging: a play comes to something, and a stop
\* gives the output back wherever it finds the thread, a failed open excepted.
PlaybackResolves == EveryPlayResolved /\ StopReleasesOutput
=============================================================================

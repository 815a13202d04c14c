------------------------------ MODULE Mp3Seek ------------------------------
(***************************************************************************)
(* Seeking in MP3 files (audio/audio.c).  A seek goes through a table that *)
(* a background thread builds by scanning the file; one scan runs at a     *)
(* time, it never touches the playing decoder, and the playback thread     *)
(* collects its result.  A seek that comes before the table is deferred    *)
(* and output is held; a scan or its start that fails is tried again after *)
(* a delay, RetryMax times, and then the seek is done without a table.     *)
(* Tables of scans that ran to an end are kept on the card.                *)
(*                                                                         *)
(* Every region under audio_mutex is one step.  What Transport already     *)
(* models is here only as far as it meets the index: the output device     *)
(* and the prefetched decoder.                                             *)
(***************************************************************************)
EXTENDS Naturals

CONSTANTS Mp3Files,     \* the files there are
          Indexed,      \* those mp3_needs_seek_index() holds of
          Targets,      \* positions to seek to or start at; 0 is the beginning
          RetryMax,     \* MP3_SEEK_RETRY_MAX
          MaxPlays,     \* bound: playback_generation
          MaxMp3Calls   \* bound: requests, seeks, pauses and stops together

ASSUME Mp3Bounds ==
    /\ Indexed \subseteq Mp3Files
    /\ Targets \subseteq Nat
    /\ RetryMax \in Nat \ {0}
    /\ {MaxPlays, MaxMp3Calls} \subseteq Nat

VARIABLES
    command,  \* the commands the playback thread reads, and playback_generation
    deferred, \* the mp3_seek_deferred and mp3_seek_retry fields
    slot,     \* mp3_index_worker_active and mp3_index_result
    scan,     \* the worker: where it is and its job
    track,  \* the playback thread: where it is, its generation, its decoder's index, its seek
    tables,   \* the tables on the card
    owed,     \* history: the newest target the playing track owes the user
    shared,   \* history: the newest generation that two files were played under
    mp3Calls  \* calls made, for the bound

mp3Vars == <<command, deferred, slot, scan, track, tables, owed, shared, mp3Calls>>

None == [to |-> 0, gen |-> 0]
Aim(t, g) == [to |-> t, gen |-> g]

\* How far a table goes: to the end, to where the file could be read no
\* further, or to where the scan was cancelled.
Extents == {"none", "whole", "short", "cut"}

NoFile == [of |-> 0, extent |-> "none"]
Table(f, extent) == [of |-> f, extent |-> extent]
NoJob == [gen |-> 0, outcome |-> "none", table |-> NoFile]

Aims == [to : Targets \cup {0}, gen : 0 .. MaxPlays]
TableSet == [of : Mp3Files \cup {0}, extent : Extents]
JobSet == [gen : 0 .. MaxPlays, outcome : {"none", "ready", "transient", "permanent"}, table : TableSet]

Mp3TypeOK ==
    /\ command \in [gen : 0 .. MaxPlays, restart : BOOLEAN, file : Mp3Files \cup {0}, start : Targets \cup {0},
                    stop : BOOLEAN, flag : BOOLEAN, paused : BOOLEAN, have : BOOLEAN, seek : Aims]
    /\ deferred \in [on : BOOLEAN, aim : Aims, retries : 0 .. RetryMax, wait : BOOLEAN]
    /\ slot \in [active : BOOLEAN, result : JobSet]
    /\ scan.pc \in {"none", "load", "scan", "save", "deliver"}
    /\ scan.job \in JobSet
    /\ track.pc \in {"idle", "eager", "start", "publish", "top", "chunk", "seek", "stopped", "tail"}
    /\ track.table \in TableSet /\ track.attempted \in BOOLEAN /\ track.seek \in Aims
    /\ tables \in [Mp3Files -> Extents]
    /\ owed \in Aims /\ shared \in 0 .. MaxPlays

Mp3Init ==
    /\ command = [gen |-> 0, restart |-> FALSE, file |-> 0, start |-> 0, stop |-> FALSE, flag |-> FALSE,
                  paused |-> FALSE, have |-> FALSE, seek |-> None]
    /\ deferred = [on |-> FALSE, aim |-> None, retries |-> 0, wait |-> FALSE]
    /\ slot = [active |-> FALSE, result |-> NoJob]
    /\ scan = [pc |-> "none", job |-> NoJob]
    /\ track = [pc |-> "idle", gen |-> 0, file |-> 0, table |-> NoFile, attempted |-> FALSE, seek |-> None]
    /\ tables = [f \in Mp3Files |-> "none"]
    /\ owed = None /\ shared = 0
    /\ mp3Calls = 0

----------------------------------------------------------------------------
\* The calls of the other threads

\* The target stays behind, switched off.
finish_mp3_deferred_seek_locked(d) == [d EXCEPT !.on = FALSE, !.retries = 0, !.wait = FALSE]

audio_play_file_at(f, t) ==
    /\ command.gen < MaxPlays /\ mp3Calls < MaxMp3Calls
    /\ mp3Calls' = mp3Calls + 1
    /\ command' = [command EXCEPT !.gen = @ + 1, !.restart = TRUE, !.file = f, !.start = t,
                                  !.stop = FALSE, !.flag = FALSE, !.paused = FALSE, !.seek = None]
    /\ deferred' = finish_mp3_deferred_seek_locked(deferred)
    /\ owed' = None
    /\ UNCHANGED <<slot, scan, track, tables, shared>>

audio_stop ==
    /\ mp3Calls < MaxMp3Calls
    /\ mp3Calls' = mp3Calls + 1
    /\ command' = [command EXCEPT !.stop = TRUE, !.flag = TRUE]
    /\ owed' = None
    /\ UNCHANGED <<deferred, slot, scan, track, tables, shared>>

audio_toggle_pause ==
    /\ command.have /\ mp3Calls < MaxMp3Calls
    /\ mp3Calls' = mp3Calls + 1
    /\ command' = [command EXCEPT !.paused = ~@]
    /\ UNCHANGED <<deferred, slot, scan, track, tables, owed, shared>>

\* The track asked for last is the one the thread is at.  A request that
\* waits is not, even when a handover has given the thread its generation.
OnIt == track.gen = command.gen /\ ~command.restart /\ track.pc \notin {"idle", "stopped", "tail"}

\* By percentage no opened track is needed.  What the track owes is the
\* newest target, if there is a track to owe it.
audio_seek(t) ==
    /\ command.gen > 0 /\ mp3Calls < MaxMp3Calls
    /\ mp3Calls' = mp3Calls + 1
    /\ command' = [command EXCEPT !.seek = Aim(t, command.gen)]
    /\ owed' = IF OnIt /\ ~command.stop THEN Aim(t, command.gen) ELSE owed
    /\ UNCHANGED <<deferred, slot, scan, track, tables, shared>>

----------------------------------------------------------------------------
\* mp3_index_worker()

mp3_index_should_cancel(g) == command.flag \/ command.gen # g

ScanGoes(pc, outcome, table) ==
    scan' = [pc |-> pc, job |-> [scan.job EXCEPT !.outcome = outcome, !.table = table]]

JobFile == scan.job.table.of

\* The table on the card is as good as a new one; without it the file is
\* opened again, and may not open or no longer be the same.
WorkerLoads ==
    /\ scan.pc = "load"
    /\ \/ tables[JobFile] # "none" /\ ScanGoes("deliver", "ready", Table(JobFile, tables[JobFile]))
       \/ ScanGoes("scan", "none", Table(JobFile, "none"))
       \/ \E failure \in {"transient", "permanent"} : ScanGoes("deliver", failure, Table(JobFile, "none"))
    /\ UNCHANGED <<command, deferred, slot, track, tables, owed, shared, mp3Calls>>

\* Once per frame it asks whether to go on; the last answer may be old.  A
\* read that fails looks like the end of the file: the table stops there and
\* is kept like any other.
WorkerScans ==
    /\ scan.pc = "scan"
    /\ \/ mp3_index_should_cancel(scan.job.gen) /\ ScanGoes("deliver", "transient", Table(JobFile, "cut"))
       \/ \E extent \in {"whole", "short"} : ScanGoes("save", "ready", Table(JobFile, extent))
       \/ ScanGoes("deliver", "permanent", Table(JobFile, "none"))
    /\ UNCHANGED <<command, deferred, slot, track, tables, owed, shared, mp3Calls>>

\* To a temporary file that replaces the old one at once, or not at all.
WorkerSaves ==
    /\ scan.pc = "save"
    /\ scan' = [scan EXCEPT !.pc = "deliver"]
    /\ \/ tables' = [tables EXCEPT ![JobFile] = scan.job.table.extent]
       \/ UNCHANGED tables
    /\ UNCHANGED <<command, deferred, slot, track, owed, shared, mp3Calls>>

WorkerDelivers ==
    /\ scan.pc = "deliver"
    /\ slot' = [active |-> FALSE, result |-> scan.job]
    /\ scan' = [pc |-> "none", job |-> NoJob]
    /\ UNCHANGED <<command, deferred, track, tables, owed, shared, mp3Calls>>

WorkerStep == WorkerLoads \/ WorkerScans \/ WorkerSaves \/ WorkerDelivers

\* monotonic_ms() reaches mp3_seek_retry_after_ms.
DelayElapses ==
    /\ deferred.wait
    /\ deferred' = [deferred EXCEPT !.wait = FALSE]
    /\ UNCHANGED <<command, slot, scan, track, tables, owed, shared, mp3Calls>>

----------------------------------------------------------------------------
\* request_mp3_seek_index_locked(), on an index: the decoder's table and
\* whether it was attempted, the deferred fields, and whether a scan started.

Index(table, attempted, d, started) == [table |-> table, attempted |-> attempted, d |-> d, started |-> started]

Exhausted(x) == Index(x.table, TRUE, finish_mp3_deferred_seek_locked(x.d), FALSE)

SetupFails(x) ==
    IF x.d.retries + 1 >= RetryMax
    THEN Exhausted(x)
    ELSE [x EXCEPT !.d.retries = @ + 1, !.d.wait = TRUE]

Busy(collected) == slot.active \/ (slot.result # NoJob /\ ~collected)

\* The card is asked first; a table that is there may still fail to load.
request_mp3_seek_index_locked(f, x, collected) ==
    IF x.attempted THEN {[x EXCEPT !.d = finish_mp3_deferred_seek_locked(@)]}
    ELSE IF Busy(collected) \/ x.d.wait THEN {x}
    ELSE {[x EXCEPT !.started = TRUE], SetupFails(x)}
         \cup (IF tables[f] = "none" THEN {}
               ELSE {Index(Table(f, tables[f]), TRUE, finish_mp3_deferred_seek_locked(x.d), FALSE)})

\* The slot and the worker after a request that may have started a scan.
Started(x, f, g, collected) ==
    IF x.started
    THEN /\ slot' = [active |-> TRUE, result |-> IF collected THEN NoJob ELSE slot.result]
         /\ scan' = [pc |-> "load", job |-> [gen |-> g, outcome |-> "none", table |-> Table(f, "none")]]
    ELSE /\ slot' = [slot EXCEPT !.result = IF collected THEN NoJob ELSE @]
         /\ UNCHANGED scan

----------------------------------------------------------------------------
\* The playback thread: a track is opened

TrackGoes(pc) == track' = [track EXCEPT !.pc = pc]
Cancelled == command.stop \/ command.restart
Outstanding(x) == x.table = NoFile /\ ~x.attempted
Ours == Index(track.table, track.attempted, deferred, FALSE)

StartAim == IF command.start = 0 THEN None ELSE Aim(command.start, command.gen)

\* The generation is read back, not the one the request was given: a handover
\* in between has taken one more, and the thread has played under it.
TakesRestart ==
    /\ track.pc = "idle" /\ command.restart
    /\ command' = [command EXCEPT !.restart = FALSE]
    /\ track' = [pc |-> "eager", gen |-> command.gen, file |-> command.file, table |-> NoFile,
                   attempted |-> FALSE, seek |-> StartAim]
    /\ owed' = IF command.stop THEN None
               ELSE IF command.seek.gen = command.gen THEN command.seek ELSE StartAim
    /\ shared' = IF track.gen = command.gen THEN command.gen ELSE shared
    /\ UNCHANGED <<deferred, slot, scan, tables, mp3Calls>>

FailsToOpen ==
    /\ track.pc = "eager"
    /\ TrackGoes("idle") /\ owed' = None
    /\ command' = [command EXCEPT !.have = FALSE]
    /\ UNCHANGED <<deferred, slot, scan, tables, shared, mp3Calls>>

\* A table is asked for as soon as the file is open.
RequestsEagerly ==
    /\ track.pc = "eager"
    /\ \E x \in IF track.file \in Indexed THEN request_mp3_seek_index_locked(track.file, Ours, FALSE) ELSE {Ours} :
         /\ track' = [track EXCEPT !.pc = IF track.seek = None THEN "publish" ELSE "start",
                                       !.table = x.table, !.attempted = x.attempted]
         /\ deferred' = x.d
         /\ Started(x, track.file, track.gen, FALSE)
    /\ UNCHANGED <<command, tables, owed, shared, mp3Calls>>

defer_mp3_seek_locked(aim) == [on |-> TRUE, aim |-> aim, retries |-> 0, wait |-> FALSE]

Landed(aim) == owed' = IF owed = aim THEN None ELSE owed

\* The start position waits for the table, or is sought now; when that fails
\* the track starts at its beginning, or not at all.
SeeksStart ==
    /\ track.pc = "start"
    /\ IF track.file \in Indexed /\ Outstanding(Ours)
       THEN /\ deferred' = defer_mp3_seek_locked(track.seek)
            /\ track' = [track EXCEPT !.pc = "publish", !.seek = None]
            /\ UNCHANGED <<command, owed>>
       ELSE /\ UNCHANGED deferred
            /\ \/ /\ track' = [track EXCEPT !.pc = "publish", !.seek = None]
                  /\ Landed(track.seek) /\ UNCHANGED command
               \/ /\ track' = [track EXCEPT !.pc = "idle", !.seek = None]
                  /\ owed' = None
                  /\ command' = [command EXCEPT !.have = FALSE]
    /\ UNCHANGED <<slot, scan, tables, shared, mp3Calls>>

\* The output may not open, and a newer command makes the request stale.
PublishesTrack ==
    /\ track.pc = "publish"
    /\ \/ /\ track.gen = command.gen /\ ~Cancelled
          /\ TrackGoes("top") /\ command' = [command EXCEPT !.have = TRUE] /\ UNCHANGED owed
       \/ /\ TrackGoes("idle") /\ owed' = None
          /\ command' = IF track.gen # command.gen THEN command
                        ELSE IF Cancelled
                        THEN [command EXCEPT !.have = FALSE, !.stop = FALSE, !.paused = FALSE]
                        ELSE [command EXCEPT !.have = FALSE]
    /\ UNCHANGED <<deferred, slot, scan, tables, shared, mp3Calls>>

----------------------------------------------------------------------------
\* The playback thread: the chunks of a track

\* The deferred target, if it is this track's.
OurTarget(d) == IF d.on /\ d.aim.gen = track.gen THEN d.aim ELSE None

Collected(x, aim) == [x |-> x, aim |-> aim]

\* Mutant: giving up on the table gives up on the seek.
GivesUpWithSeek(x) == Collected(Exhausted(x), None)

GivesUp(x) == Collected(Exhausted(x), OurTarget(x.d))

\* Mutant: a scan no seek waits for may fail as often as it likes.
FailsAgainUncounted(x) ==
    IF ~x.d.on \/ x.d.retries + 1 < RetryMax
    THEN Collected([x EXCEPT !.d.retries = IF x.d.on THEN @ + 1 ELSE @, !.d.wait = TRUE], None)
    ELSE GivesUp(x)

FailsAgain(x) ==
    IF x.d.retries + 1 < RetryMax
    THEN Collected([x EXCEPT !.d.retries = @ + 1, !.d.wait = TRUE], None)
    ELSE GivesUp(x)

\* Mutant: a result is adopted whatever track it was made for.
AdoptsAny(x, r) ==
    CASE r.outcome = "ready" -> {Collected([x EXCEPT !.table = r.table, !.attempted = TRUE], OurTarget(x.d))}
      [] r.outcome = "transient" -> {FailsAgain(x)}
      [] r.outcome = "permanent" -> {GivesUp(x)}
      [] r.outcome = "none" -> {Collected(x, None)}

\* A result of this generation is adopted or counted, and a table the decoder
\* does not take is one more failure; any other result, and one that is there
\* when the file is no MP3 file at all, is thrown away.
Adopts(x, r) ==
    IF r.gen # track.gen THEN {Collected(x, None)}
    ELSE (CASE r.outcome = "ready" -> {Collected([x EXCEPT !.table = r.table, !.attempted = TRUE], OurTarget(x.d)),
                                       GivesUp(x)}
            [] r.outcome = "transient" -> {FailsAgain(x)}
            [] r.outcome \notin {"ready", "transient"} -> {GivesUp(x)})
         \cup {Collected(x, None) : f \in {track.file} \ Indexed}

\* A request of the user replaces what was deferred; one for another track
\* is thrown away.
Newest(aim) == IF command.seek.gen = track.gen THEN command.seek ELSE aim

Requested(x, aim) == {Collected(y, IF y.attempted THEN aim ELSE None)
                      : y \in request_mp3_seek_index_locked(track.file, x, TRUE)}

\* A seek waits for the table; a seek that waits, or a track without a table,
\* asks for it again.
Decides(x, aim) ==
    IF track.file \notin Indexed \/ x.attempted THEN {Collected(x, aim)}
    ELSE IF aim.to > 0 THEN Requested([x EXCEPT !.d = defer_mp3_seek_locked(aim)], aim)
    ELSE IF aim # None \/ slot.active THEN {Collected(x, aim)}
    ELSE IF x.d.on /\ OurTarget(x.d) = None THEN {Collected(x, aim)}
    ELSE Requested(x, OurTarget(x.d))

Holds(c) == OurTarget(c.x.d) # None /\ c.aim = None

\* While paused the thread sleeps until a command or a result is there.
Sleeps == command.paused /\ ~Cancelled /\ command.seek = None /\ slot.result = NoJob

\* The region under the mutex, and where its outcome leads.  Held output is
\* looked at again after a while.
ReadsCommands ==
    /\ track.pc = "top" /\ ~Sleeps
    /\ \E collected \in Adopts(Ours, slot.result) :
       \E c \in Decides(collected.x, Newest(collected.aim)) :
         /\ track' = [track EXCEPT
                          !.table = c.x.table, !.attempted = c.x.attempted,
                          !.pc = CASE command.restart -> "idle"
                                   [] command.stop /\ ~command.restart -> "stopped"
                                   [] ~Cancelled /\ c.aim # None -> "seek"
                                   [] ~Cancelled /\ c.aim = None /\ (Holds(c) \/ command.paused) -> "top"
                                   [] OTHER -> "chunk",
                          !.seek = IF Cancelled THEN None ELSE c.aim]
         /\ deferred' = c.x.d
         /\ Started(c.x, track.file, track.gen, TRUE)
    /\ command' = [command EXCEPT !.seek = None]
    /\ UNCHANGED <<tables, owed, shared, mp3Calls>>

\* decoder_seek(): refused while the table is awaited.
Refused(aim) == aim.to > 0 /\ track.file \in Indexed /\ Outstanding(Ours)

\* The seek lands, or fails and the file is opened again where it was, with
\* its table; the deferred fields are this track's to clear.
Seeks ==
    /\ track.pc = "seek"
    /\ deferred' = IF deferred.aim.gen = track.gen THEN finish_mp3_deferred_seek_locked(deferred) ELSE deferred
    /\ \/ /\ track' = [track EXCEPT !.pc = "top", !.seek = None]
          /\ Landed(track.seek) /\ UNCHANGED command
       \/ /\ track' = [track EXCEPT !.pc = "tail", !.seek = None]
          /\ owed' = None
          /\ command' = [command EXCEPT !.have = FALSE, !.paused = FALSE]
    /\ UNCHANGED <<slot, scan, tables, shared, mp3Calls>>

PlaysChunk ==
    /\ track.pc = "chunk"
    /\ TrackGoes("top")
    /\ UNCHANGED <<command, deferred, slot, scan, tables, owed, shared, mp3Calls>>

\* The next track takes over: a new generation, nothing deferred, its own
\* request.  A request for another track that waits meanwhile is not looked
\* at.  The output may not take the new format, and then the track ends.
HandsOverTo(f) ==
    /\ track.pc = "chunk" /\ command.gen < MaxPlays
    /\ command' = [command EXCEPT !.gen = @ + 1, !.flag = FALSE, !.seek = None]
    /\ LET fresh == Index(NoFile, FALSE, finish_mp3_deferred_seek_locked(deferred), FALSE)
       IN \E pc \in {"top", "tail"}, x \in IF f \in Indexed THEN request_mp3_seek_index_locked(f, fresh, FALSE) ELSE {fresh} :
            /\ track' = [pc |-> pc, gen |-> command.gen + 1, file |-> f, table |-> x.table,
                           attempted |-> x.attempted, seek |-> None]
            /\ deferred' = x.d
            /\ Started(x, f, command.gen + 1, FALSE)
    /\ owed' = None
    /\ UNCHANGED <<tables, shared, mp3Calls>>

TrackEnds ==
    /\ track.pc = "chunk"
    /\ TrackGoes("tail")
    /\ owed' = None
    /\ UNCHANGED <<command, deferred, slot, scan, tables, shared, mp3Calls>>

\* stop_requested is cleared when it was the reason.
CleansUp ==
    /\ track.pc \in {"stopped", "tail"}
    /\ TrackGoes("idle")
    /\ command' = [command EXCEPT !.have = FALSE, !.paused = FALSE, !.stop = @ /\ track.pc = "tail"]
    /\ UNCHANGED <<deferred, slot, scan, tables, owed, shared, mp3Calls>>

PlaybackStep ==
    \/ TakesRestart \/ FailsToOpen \/ RequestsEagerly \/ SeeksStart \/ PublishesTrack
    \/ ReadsCommands \/ Seeks \/ PlaysChunk \/ TrackEnds \/ CleansUp
    \/ \E f \in Mp3Files : HandsOverTo(f)

Mp3Next ==
    \/ \E f \in Mp3Files, t \in Targets : audio_play_file_at(f, t)
    \/ audio_stop \/ audio_toggle_pause
    \/ \E t \in Targets : audio_seek(t)
    \/ WorkerStep \/ DelayElapses \/ PlaybackStep

Mp3Fairness ==
    WF_mp3Vars(WorkerStep) /\ WF_mp3Vars(DelayElapses) /\ WF_mp3Vars(PlaybackStep)

Mp3Spec == Mp3Init /\ [][Mp3Next]_mp3Vars /\ Mp3Fairness

----------------------------------------------------------------------------
\* Properties

\* "One scan-only decoder may exist at a time", and its result is not lost to
\* another; a table serves the file it was built from, whichever track was
\* playing when it was ready, and what a cancelled scan has so far is neither
\* kept nor used.  Left out: a track started under a generation that a
\* handover in front of it had already used; the two files' results cannot
\* be told apart there, until the next generation.
IndexSound ==
    /\ Mp3TypeOK
    /\ slot.active <=> scan.pc # "none"
    /\ slot.active => slot.result = NoJob
    /\ track.table # NoFile /\ track.gen # shared => track.table.of = track.file
    /\ track.table.extent # "cut" /\ \A f \in Mp3Files : tables[f] # "cut"

\* "Never silently drops the seek": the newest target the track owes is always
\* somewhere it will be taken from, through deferring, adoption, retries and
\* giving up on the table, and a seek that is carried out is never refused.
\* A seek made while a request waits is owed from when the request is taken,
\* if no handover has cleared it by then.
SeekKept ==
    /\ owed # None => owed \in {command.seek, track.seek, OurTarget(deferred)}
    /\ track.pc = "seek" => ~Refused(track.seek)

\* Paused with a retry to make: nothing wakes the thread before the user does.
RetrySleeps == command.paused /\ deferred.on /\ ~slot.active /\ slot.result = NoJob

\* However often scans fail or cannot be started, a seek is carried out, and
\* scanning ends.
SeekSettles ==
    /\ []<>(owed = None \/ RetrySleeps)
    /\ <>[](~slot.active)
=============================================================================

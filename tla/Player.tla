------------------------------- MODULE Player -------------------------------
(***************************************************************************)
(* The player above the engine: the playlist and its current index, which  *)
(* only the LVGL thread touches (ui/gui_player.c), and the poll of ui/gui.c*)
(* that learns from three flags of the engine what the playback thread did *)
(* by itself.  The LVGL thread drives Transport through its calls, one     *)
(* critical section at a time; AirPlay and USB DAC mode stop it from       *)
(* threads of their own.                                                   *)
(*                                                                         *)
(* Shuffle and the play-next queue are left out: the play mode is          *)
(* Sequential or Repeat All, and stays what it is.                         *)
(*                                                                         *)
(* The engine may hand over to the next track after the LVGL thread has    *)
(* asked for another one: audio.c compares next_track_generation, which a  *)
(* play request leaves alone, and sets track_advanced, which carries no    *)
(* generation.  The poll then follows an advance that the request has      *)
(* undone.  The model does what the code does and remembers it in crossed, *)
(* until the next request.                                                 *)
(***************************************************************************)
EXTENDS Transport

CONSTANTS
    Count,       \* playlist_count
    Playlist,    \* playlist: the tracks in order
    Gapless,     \* current_settings.gapless_enabled
    SkipCap,     \* the 5 of max_skips
    MaxTaps      \* bound: tracks the user starts

ASSUME PlayerAssumption ==
    /\ 0 \in Starts
    /\ Count \in Nat \ {0} /\ SkipCap \in Nat \ {0} /\ MaxTaps \in Nat
    /\ Playlist \in [1 .. Count -> Tracks]
    /\ Gapless \in BOOLEAN

VARIABLES
    repeatAll,   \* play_mode is PLAY_MODE_REPEAT_ALL, not PLAY_MODE_SEQUENTIAL
    index,       \* playlist_index, 0 when nothing is loaded
    uiGen,       \* current_playback_generation
    gui,         \* where the LVGL thread is; at "poll" it is free
    held,        \* the error gui_player_handle_playback_error_ex() works on
    failed,      \* failed_physical_paths
    skips,       \* consecutive_decoder_failure_skips
    resume,      \* deferred_resume_pending
    button,      \* the play button shows a track playing
    taps,
    blocked,     \* external_dac_block_reason() is not NULL
    refused,     \* history: a start was refused since the last one that was not
    blame,       \* history: the track the last error was about
    crossed      \* history: a track took over after the newest request was made

dac == <<blocked, refused>>
ui == <<repeatAll, index, uiGen, gui, held, failed, skips, resume, button, taps, dac>>
playerVars == <<vars, ui, blame, crossed>>

PlayerInit ==
    /\ Init
    /\ repeatAll \in BOOLEAN
    /\ index = 0 /\ uiGen = 0 /\ gui = "poll" /\ held = NoError
    /\ failed = {} /\ skips = 0 /\ resume = FALSE /\ button = FALSE
    /\ taps = 0 /\ blame = NoTrack /\ crossed = FALSE
    /\ blocked = FALSE /\ refused = FALSE

-----------------------------------------------------------------------------
(***************************************************************************)
(* Which track comes next: after one that ends, and after one that fails.  *)
(***************************************************************************)
compute_auto_advance_index(i) ==
    IF i < Count THEN i + 1 ELSE IF repeatAll THEN 1 ELSE 0

\* The tracks a failure may skip to, nearest first, are those after i and in
\* Repeat All those before it; files known to fail are left out.
compute_decoder_failure_advance_plan(i, bad) ==
    LET Good == {j \in 1 .. Count : j # i /\ Playlist[j] \notin bad}
        After == {j \in Good : j > i}
        First(S) == CHOOSE j \in S : \A k \in S : j <= k
    IN  IF After # {} THEN First(After)
        ELSE IF repeatAll /\ Good # {} THEN First(Good) ELSE 0

-----------------------------------------------------------------------------
(***************************************************************************)
(* Starting a track takes the LVGL thread three critical sections: the     *)
(* request, the generation it got, the track to follow.  In an external    *)
(* DAC mode nothing is started.                                            *)
(***************************************************************************)
play_track_at_from_internal(i) ==
    /\ UNCHANGED blocked
    /\ refused' = blocked
    /\ \/ /\ ~blocked
          /\ audio_play_file_at(Playlist[i], 0)
          /\ index' = i
          /\ gui' = "sync"
          /\ crossed' = FALSE
       \/ /\ blocked
          /\ gui' = "poll"
          /\ UNCHANGED <<vars, index, crossed>>

\* What it does to deferred_resume_pending.
StartTakesResume == resume' = (blocked /\ resume)

SyncGeneration ==
    /\ gui = "sync"
    /\ uiGen' = gen
    /\ gui' = "arm"
    /\ UNCHANGED <<vars, repeatAll, index, held, failed, skips, resume, button, taps, dac, blame, crossed>>

\* Mutant: the track after the following one is armed.
ArmOneTooFar ==
    LET following == compute_auto_advance_index(compute_auto_advance_index(index)) IN
    /\ gui = "arm"
    /\ audio_set_next_track(IF following = 0 \/ ~Gapless THEN NoTrack ELSE Playlist[following])
    /\ button' = TRUE
    /\ gui' = IF held = NoError THEN "poll" ELSE "recheck"
    /\ UNCHANGED <<repeatAll, index, uiGen, held, failed, skips, resume, taps, dac, blame, crossed>>

arm_next_track_for_audio ==
    LET following == compute_auto_advance_index(index) IN
    /\ gui = "arm"
    /\ audio_set_next_track(IF following = 0 \/ ~Gapless THEN NoTrack ELSE Playlist[following])
    /\ button' = TRUE
    /\ gui' = IF held = NoError THEN "poll" ELSE "recheck"
    /\ UNCHANGED <<repeatAll, index, uiGen, held, failed, skips, resume, taps, dac, blame, crossed>>

ForgetFailures == skips' = 0 /\ failed' = {}

play_track_at(i) ==
    /\ gui = "poll" /\ taps < MaxTaps
    /\ play_track_at_from_internal(i)
    /\ StartTakesResume
    /\ ForgetFailures
    /\ taps' = taps + 1
    /\ UNCHANGED <<repeatAll, uiGen, held, button, blame>>

\* While AirPlay streams, having stopped the player, and after an output error,
\* the button starts the track again; an external DAC mode keeps it from
\* resuming, not from pausing.  Where in the track it resumes is left out.
toggle_play_pause ==
    /\ gui = "poll" /\ index > 0
    /\ \/ /\ wish = "stop" /\ taps < MaxTaps
          /\ play_track_at_from_internal(index)
          /\ StartTakesResume
          /\ taps' = taps + 1
       \/ /\ resume /\ taps < MaxTaps
          /\ play_track_at_from_internal(index)
          /\ resume' = FALSE
          /\ taps' = taps + 1
       \/ /\ ~resume /\ ~(blocked /\ (~have \/ paused))
          /\ audio_toggle_pause \/ (~have /\ UNCHANGED vars)
          /\ gui' = "refresh"
          /\ UNCHANGED <<index, resume, taps, dac, crossed>>
       \/ /\ ~resume /\ blocked /\ (~have \/ paused)
          /\ UNCHANGED <<vars, gui, index, resume, taps, dac, crossed>>
    /\ ForgetFailures
    /\ UNCHANGED <<repeatAll, uiGen, held, button, blame>>

\* set_play_button_state(audio_is_playing()), in a critical section of its own.
RefreshButton ==
    /\ gui = "refresh"
    /\ button' = (have /\ ~paused)
    /\ gui' = "poll"
    /\ UNCHANGED <<vars, repeatAll, index, uiGen, held, failed, skips, resume, taps, dac, blame, crossed>>

-----------------------------------------------------------------------------
(***************************************************************************)
(* The poll of update_timer_cb: an error, else an advance, else an end.    *)
(***************************************************************************)

\* The thread moved on: follow it in the playlist.
FollowAdvance ==
    /\ ForgetFailures
    /\ IF compute_auto_advance_index(index) > 0
       THEN index' = compute_auto_advance_index(index) /\ gui' = "sync"
       ELSE UNCHANGED index /\ gui' = IF held' = NoError THEN "poll" ELSE "recheck"

\* Mutant: an error of any other generation is stale.
PollErrorDropsNewer ==
    /\ gui = "poll" /\ index > 0
    /\ IF error = NoError
       THEN gui' = "advanced" /\ UNCHANGED <<vars, held>>
       ELSE /\ audio_consume_error_ex
            /\ IF error.gen # uiGen THEN gui' = "poll" /\ UNCHANGED held
               ELSE gui' = "judge" /\ held' = error
    /\ UNCHANGED <<repeatAll, index, uiGen, failed, skips, resume, button, taps, dac, blame, crossed>>

\* Mutant: an error that is not stale is about the track shown.
PollErrorNoCatchUp ==
    /\ gui = "poll" /\ index > 0
    /\ IF error = NoError
       THEN gui' = "advanced" /\ UNCHANGED <<vars, held>>
       ELSE /\ audio_consume_error_ex
            /\ IF error.gen < uiGen THEN gui' = "poll" /\ UNCHANGED held
               ELSE gui' = "judge" /\ held' = error
    /\ UNCHANGED <<repeatAll, index, uiGen, failed, skips, resume, button, taps, dac, blame, crossed>>

PollError ==
    /\ gui = "poll" /\ index > 0
    /\ IF error = NoError
       THEN gui' = "advanced" /\ UNCHANGED <<vars, held>>
       ELSE /\ audio_consume_error_ex
            /\ IF error.gen < uiGen THEN gui' = "poll" /\ UNCHANGED held
               ELSE /\ held' = error
                    /\ gui' = IF error.gen = uiGen THEN "judge" ELSE "behind"
    /\ UNCHANGED <<repeatAll, index, uiGen, failed, skips, resume, button, taps, dac, blame, crossed>>

\* The error is of a track the playback thread advanced to by itself.
CatchUp ==
    /\ gui = "behind"
    /\ IF advanced
       THEN audio_consume_track_advanced /\ UNCHANGED held /\ FollowAdvance
       ELSE /\ gui' = "poll" /\ held' = NoError
            /\ UNCHANGED <<vars, index, failed, skips>>
    /\ UNCHANGED <<repeatAll, uiGen, resume, button, taps, dac, blame, crossed>>

RecheckGeneration ==
    /\ gui = "recheck"
    /\ IF uiGen = held.gen THEN gui' = "judge" /\ UNCHANGED held
       ELSE gui' = "poll" /\ held' = NoError
    /\ UNCHANGED <<vars, repeatAll, index, uiGen, failed, skips, resume, button, taps, dac, blame, crossed>>

\* The output failed: stay, and let the user retry.
JudgeOutput ==
    /\ gui = "judge" /\ held.kind = "output"
    /\ resume' = TRUE /\ button' = FALSE
    /\ held' = NoError /\ gui' = "poll"
    /\ UNCHANGED <<vars, repeatAll, index, uiGen, failed, skips, taps, dac, blame, crossed>>

\* The track cannot be played: skip it, but not for ever.
JudgeDecoder ==
    LET bad == failed \cup {Playlist[index]}
        cap == Smaller(Count, SkipCap)
        target == compute_decoder_failure_advance_plan(index, bad)
    IN  /\ gui = "judge" /\ held.kind = "decoder"
        /\ held' = NoError
        /\ IF skips + 1 >= cap \/ target = 0
           THEN /\ button' = FALSE /\ resume' = FALSE
                /\ ForgetFailures
                /\ gui' = "poll"
                /\ UNCHANGED <<vars, index, dac, crossed>>
           ELSE /\ failed' = bad /\ skips' = skips + 1
                /\ play_track_at_from_internal(target)
                /\ StartTakesResume
                /\ UNCHANGED button
        /\ UNCHANGED <<repeatAll, uiGen, taps, blame>>

PollAdvanced ==
    /\ gui = "advanced"
    /\ IF advanced
       THEN audio_consume_track_advanced /\ UNCHANGED held /\ FollowAdvance
       ELSE gui' = "finished" /\ UNCHANGED <<vars, index, held, failed, skips>>
    /\ UNCHANGED <<repeatAll, uiGen, resume, button, taps, dac, blame, crossed>>

\* Nothing was armed, or it could not be opened: start what comes next.  The
\* flag is taken in one critical section, the request made in another.
PollFinished ==
    /\ gui = "finished"
    /\ IF finished THEN audio_consume_track_finished /\ gui' = "ended"
       ELSE gui' = "poll" /\ UNCHANGED vars
    /\ UNCHANGED <<repeatAll, index, uiGen, held, failed, skips, resume, button, taps, dac, blame, crossed>>

gui_player_handle_track_finished ==
    /\ gui = "ended"
    /\ ForgetFailures
    /\ IF compute_auto_advance_index(index) > 0
       THEN /\ play_track_at_from_internal(compute_auto_advance_index(index))
            /\ StartTakesResume
            /\ UNCHANGED button
       ELSE /\ button' = FALSE /\ gui' = "poll"
            /\ UNCHANGED <<vars, index, resume, dac, crossed>>
    /\ UNCHANGED <<repeatAll, uiGen, held, taps, blame>>

-----------------------------------------------------------------------------
Poll ==
    \/ SyncGeneration \/ arm_next_track_for_audio \/ RefreshButton
    \/ PollError \/ CatchUp \/ RecheckGeneration \/ JudgeOutput \/ JudgeDecoder
    \/ PollAdvanced \/ PollFinished \/ gui_player_handle_track_finished

\* The engine's steps, which leave the LVGL thread's state alone.
Engine ==
    /\ Play
    /\ blame' = IF error' # error THEN path ELSE blame
    /\ crossed' = (crossed \/ (Restarting /\ gen' # gen))
    /\ UNCHANGED ui

\* audio_stop() from another thread, or from the user interface.
TakeOver == audio_stop /\ UNCHANGED <<ui, blame, crossed>>

\* Bluetooth DAC or USB DAC mode is turned on, or off.  Turning one on stops a
\* current track; Bluetooth DAC mode also comes into force by itself, when the
\* radio is next seen powered.
DacModeChanges ==
    /\ gui = "poll"
    /\ blocked' = ~blocked
    /\ \/ UNCHANGED <<vars, button>>
       \/ ~blocked /\ have /\ audio_stop /\ button' = FALSE
    /\ UNCHANGED <<repeatAll, index, uiGen, gui, held, failed, skips, resume, taps, refused,
                   blame, crossed>>

PlayerNext ==
    \/ \E i \in 1 .. Count : play_track_at(i)
    \/ toggle_play_pause
    \/ Poll
    \/ Engine
    \/ TakeOver
    \/ DacModeChanges

PlayerSpec == PlayerInit /\ [][PlayerNext]_playerVars

\* The playback thread runs, and the LVGL timer keeps polling.
PlayerFairSpec ==
    PlayerSpec /\ WF_playerVars(Engine) /\ WF_playerVars(Poll)

-----------------------------------------------------------------------------
(***************************************************************************)
(* Properties.                                                             *)
(***************************************************************************)

\* A track is skipped as unplayable, and remembered so, only for its own
\* failure: the poll sees an error before the advance that led to it.  Not so
\* when the advance crossed a request.
FailureBlamesItsTrack ==
    gui = "judge" /\ held.kind = "decoder" /\ ~crossed => Playlist[index] = blame

\* The bounds end a run in the middle of a playlist that repeats.
AtBound == gen >= MaxGen \/ nextGen >= MaxNext

\* The play button does not go on showing a track when the engine has nothing
\* to play: every end, failure and stop-free idling reaches the user interface,
\* unless an advance crossed a request or the next track's start was refused
\* (play_track_at_from_internal() returns without touching the button).
UiNotStuck ==
    (button /\ pc = "idle" /\ ~Restarting /\ wish = "play") ~>
        (~button \/ pc # "idle" \/ Restarting \/ wish = "stop" \/ crossed \/ refused \/ AtBound)

Settled ==
    /\ gui = "poll" /\ held = NoError /\ error = NoError
    /\ ~advanced /\ ~finished /\ ~Restarting
    /\ pc \in InTrack \ {"tail"}

\* When every report has been taken, the track shown is the track heard, unless
\* an advance crossed a request.
ShowsWhatPlays == Settled /\ ~crossed => Playlist[index] = dec

=============================================================================

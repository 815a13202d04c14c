------------------------------- MODULE Volume -------------------------------
(***************************************************************************)
(* The volume path of the player: the two slider coalescers of             *)
(* ui/hw_volume_coalesce.c, the command layer of audio/audio.c             *)
(* (audio_set_volume, audio_request_volume, the request worker, the live   *)
(* and staged plugin curves) and the single-slot mixer worker of           *)
(* audio/audio_output.c, with the playback thread's reapplication of the   *)
(* volume when the output route changes.                                   *)
(*                                                                         *)
(* Threads: the LVGL thread (UI), the BlueALSA monitor thread (BT), the    *)
(* playback thread, the request worker and the mixer worker.  A step is    *)
(* what one thread does between two points where another one can run: an   *)
(* atomic read-modify-write of volume_set_generation, a critical section   *)
(* of audio_mutex, or of a worker's mutex.                                 *)
(***************************************************************************)
EXTENDS Integers

CONSTANTS
    MaxLevel,     \* UI levels 0 .. MaxLevel stand for 0.0 .. 1.0
    Raw,          \* register values of the DAC attenuator
    MuteRaw,      \* HW_VOLUME_MAX_RAW, the register value of silence
    Taper,        \* the built-in taper: level -> register value
    Curves,       \* the curves plugins install: level -> register value
    NoCurve,      \* no plugin curve: the built-in taper applies
    Sliders,      \* the sliders with a coalescer: popup, quick drawer
    Popup,        \* the slider gui_player_set_volume_percent() cancels
    MaxIntents,   \* bound: volume changes the users ask for
    MaxRoutes,    \* bound: times the output opens or closes
    MaxFaults     \* bound: failing mixer writes

Level == 0 .. MaxLevel
None == -1

ASSUME ConstAssumption ==
    /\ MaxLevel \in Nat \ {0}
    /\ MaxIntents \in Nat /\ MaxRoutes \in Nat /\ MaxFaults \in Nat
    /\ MuteRaw \in Raw
    /\ Raw \subseteq Nat
    /\ Taper \in [Level -> Raw]
    /\ Curves \subseteq [Level -> Raw]
    /\ NoCurve \notin Curves
    /\ Popup \in Sliders /\ "none" \notin Sliders

UI == "ui"
BT == "bt"
PB == "playback"
Callers == {UI, BT, PB}
Channels == {"left", "right"}

VARIABLES
    pending,   \* per slider: hw_volume_coalesce_t.pending
    drag,      \* per slider: hw_volume_coalesce_t.drag_active; the timer runs
    touch,     \* the slider under the finger, or "none"
    gen,       \* volume_set_generation
    cmd,       \* per caller: the volume call it is in the middle of
    req,       \* volume_requested_value and _generation while pending
    reqReady,  \* volume_request_worker_ready
    work,      \* what the request worker has taken and not yet applied
    vol,       \* [value, intent]: volume, and whose wish it carries out
    gain,      \* volume_gain
    live,      \* custom_hw_curve
    staged,    \* staged_hw_curve
    slot,      \* volume_worker_left/right while volume_worker_pending
    hwReady,   \* volume_worker_ready
    hand,      \* the register value the mixer worker has taken
    hw,        \* per channel: last_left, last_right
    faulty,    \* history: channels whose last write failed
    usb,       \* active_target is OUTPUT_TARGET_USB
    lastUsb,   \* last_gain_for_usb
    intents,   \* history: the number of wishes expressed so far
    issued,    \* history: the wish of the newest generation
    late,      \* history: that wish is a sample of the drawer, older than the one before
    routes, faults,
    btSync     \* bt_source_vol_sync_active: the accessory sets the volume too

ui  == <<pending, drag, touch>>
mix == <<slot, hand, hw, faulty, faults>>
out == <<usb, lastUsb, routes>>
vars == <<pending, drag, touch, gen, cmd, req, reqReady, work, vol, gain, live, staged,
          slot, hwReady, hand, hw, faulty, usb, lastUsb, intents, issued, late, routes, faults,
          btSync>>

(***************************************************************************)
(* A wish is a level with the order in which it was expressed; a command   *)
(* adds the generation audio.c gave it.                                    *)
(***************************************************************************)
Wish == [value : Level, intent : 0 .. MaxIntents]
NoWish == [value |-> None, intent |-> None]
Cmd == [step : {"set", "queue"}, wish : Wish, gen : Nat \ {0}]
NoCmd == [step |-> "idle", wish |-> NoWish, gen |-> 0]
MustReapply == [step |-> "changed", wish |-> NoWish, gen |-> 0]
NoJob == [wish |-> NoWish, gen |-> 0]

(***************************************************************************)
(* What a level becomes: the register value, and the PCM multiplier (in    *)
(* levels, MaxLevel being 1.0) that replaces it on a USB DAC, whose stream *)
(* the card's mixer does not reach.                                        *)
(***************************************************************************)
compute_hw_raw(curve, v) ==
    IF curve # NoCurve THEN curve[v]
    ELSE IF v = 0 THEN MuteRaw ELSE Taper[v]

VolumeGain(v, onUsb) ==
    IF v = 0 THEN 0 ELSE IF onUsb THEN v ELSE MaxLevel

Init ==
    /\ pending = [s \in Sliders |-> NoWish]
    /\ drag = [s \in Sliders |-> FALSE]
    /\ touch = "none"
    /\ gen = 0
    /\ cmd = [t \in Callers |-> NoCmd]
    /\ req = NoJob /\ work = NoJob
    /\ reqReady \in BOOLEAN /\ hwReady \in BOOLEAN
    /\ vol = [value |-> MaxLevel, intent |-> 0]
    /\ gain = MaxLevel
    /\ live = NoCurve /\ staged = NoCurve
    /\ slot = None /\ hand = None
    /\ hw = [c \in Channels |-> None] /\ faulty = {}
    /\ usb = FALSE /\ lastUsb = FALSE
    /\ issued = vol /\ late = FALSE
    /\ intents = 0 /\ routes = 0 /\ faults = 0
    /\ btSync \in BOOLEAN

(***************************************************************************)
(* The mixer: audio_output_set_hw_volume_raw skips a channel that already  *)
(* holds the value and remembers only what the driver accepted; F is the   *)
(* set of channels whose mixer_ctl_set_value fails this time.              *)
(***************************************************************************)
audio_output_set_hw_volume_raw(raw, F) ==
    /\ F \subseteq {c \in Channels : hw[c] # raw}
    /\ F # {} => faults < MaxFaults
    /\ faults' = IF F # {} THEN faults + 1 ELSE faults
    /\ hw' = [c \in Channels |-> IF c \in F THEN hw[c] ELSE raw]
    /\ faulty' = F

\* Mutant: a request that finds the slot taken is dropped.
HwRequestKeepsOldest(raw) ==
    IF hwReady
      THEN /\ slot' = IF slot # None THEN slot ELSE raw
           /\ UNCHANGED <<hand, hw, faulty, faults>>
      ELSE /\ \E F \in SUBSET Channels : audio_output_set_hw_volume_raw(raw, F)
           /\ UNCHANGED <<slot, hand>>

\* audio_output_request_hw_volume_raw: overwrite the worker's slot, or write
\* at once when the worker could not be started.
audio_output_request_hw_volume_raw(raw) ==
    IF hwReady
      THEN /\ slot' = raw
           /\ UNCHANGED <<hand, hw, faulty, faults>>
      ELSE /\ \E F \in SUBSET Channels : audio_output_set_hw_volume_raw(raw, F)
           /\ UNCHANGED <<slot, hand>>

\* Mutant: the generation is not checked under audio_mutex.
ApplyUnchecked(wish, g) ==
    /\ vol' = wish
    /\ gain' = VolumeGain(wish.value, usb)
    /\ audio_output_request_hw_volume_raw(compute_hw_raw(live, wish.value))

(***************************************************************************)
(* audio_apply_volume, in one critical section of audio_mutex.             *)
(***************************************************************************)
audio_apply_volume(wish, g) ==
    IF gen # g
      THEN UNCHANGED <<vol, gain, mix>>
      ELSE /\ vol' = wish
           /\ gain' = VolumeGain(wish.value, usb)
           /\ audio_output_request_hw_volume_raw(compute_hw_raw(live, wish.value))

Idle(t) == cmd[t] = NoCmd

\* A new wish for level v; the number only orders wishes, no code reads it.
NewWish(v) == [value |-> v, intent |-> intents + 1]
Express == /\ intents < MaxIntents
           /\ intents' = intents + 1

\* The first half of a volume call by thread t: fetch_add of the generation.
Start(t, step, wish) ==
    /\ gen' = gen + 1
    /\ cmd' = [cmd EXCEPT ![t] = [step |-> step, wish |-> wish, gen |-> gen + 1]]
    /\ issued' = wish
    /\ late' = \E s \in Sliders \ {Popup} : pending[s] = wish /\ wish.intent < issued.intent

\* audio_set_volume(), second half.
FinishSet(t) ==
    /\ cmd[t].step = "set"
    /\ audio_apply_volume(cmd[t].wish, cmd[t].gen)
    /\ cmd' = [cmd EXCEPT ![t] = NoCmd]
    /\ lastUsb' = IF t = PB THEN usb ELSE lastUsb
    /\ UNCHANGED <<ui, gen, req, reqReady, work, live, staged, hwReady, usb, routes, intents, issued, late,
                   btSync>>

\* audio_request_volume(), second half: the slot, or a synchronous apply when
\* the worker thread could not be created.
FinishRequest ==
    /\ cmd[UI].step = "queue"
    /\ IF reqReady
         THEN /\ req' = [wish |-> cmd[UI].wish, gen |-> cmd[UI].gen]
              /\ UNCHANGED <<vol, gain, mix>>
         ELSE /\ audio_apply_volume(cmd[UI].wish, cmd[UI].gen)
              /\ UNCHANGED req
    /\ cmd' = [cmd EXCEPT ![UI] = NoCmd]
    /\ UNCHANGED <<ui, gen, reqReady, work, live, staged, hwReady, out, intents, issued, late, btSync>>

(***************************************************************************)
(* The coalescer of each slider.                                           *)
(***************************************************************************)
\* hw_volume_coalesce_cancel, and the reset shared by release and teardown.
hw_volume_coalesce_cancel(S) ==
    /\ pending' = [s \in Sliders |-> IF s \in S THEN NoWish ELSE pending[s]]
    /\ drag' = [s \in Sliders |-> s \notin S /\ drag[s]]

\* LV_EVENT_PRESSED
hw_volume_coalesce_drag_begin(s) ==
    /\ Idle(UI) /\ touch = "none"
    /\ touch' = s
    /\ drag' = [drag EXCEPT ![s] = TRUE]
    /\ UNCHANGED <<pending, gen, cmd, req, reqReady, work, vol, gain, live, staged,
                   hwReady, mix, out, intents, issued, late, btSync>>

\* LV_EVENT_VALUE_CHANGED
hw_volume_coalesce_drag_update(s, v) ==
    /\ Idle(UI) /\ touch = s
    /\ Express
    /\ pending' = [pending EXCEPT ![s] = NewWish(v)]
    /\ UNCHANGED <<drag, touch, gen, cmd, req, reqReady, work, vol, gain, live, staged,
                   hwReady, mix, out, issued, late, btSync>>

\* The 50 ms timer, which only runs while the coalescer thinks a drag is on.
hw_volume_coalesce_timer_cb(s) ==
    /\ Idle(UI) /\ drag[s] /\ pending[s] # NoWish
    /\ Start(UI, "queue", pending[s])
    /\ pending' = [pending EXCEPT ![s] = NoWish]
    /\ UNCHANGED <<drag, touch, req, reqReady, work, vol, gain, live, staged,
                   hwReady, mix, out, intents, btSync>>

\* LV_EVENT_RELEASED or PRESS_LOST: the settled value, synchronously.  The
\* drawer's handler then calls gui_player_set_volume_percent(), which cancels
\* the popup's coalescer.
hw_volume_coalesce_drag_end(s, v) ==
    /\ Idle(UI) /\ touch = s
    /\ Express
    /\ touch' = "none"
    /\ hw_volume_coalesce_cancel({s, Popup})
    /\ Start(UI, "set", NewWish(v))
    /\ UNCHANGED <<req, reqReady, work, vol, gain, live, staged, hwReady, mix, out, btSync>>

\* A UI reload destroys the slider.  A drag in progress records the slider's
\* live value v first; what is pending is then applied synchronously.
hw_volume_coalesce_teardown(s, v) ==
    LET wish == IF drag[s] THEN NewWish(v) ELSE pending[s] IN
    /\ Idle(UI)
    /\ touch' = IF touch = s THEN "none" ELSE touch
    /\ hw_volume_coalesce_cancel({s})
    /\ IF drag[s] THEN Express ELSE UNCHANGED intents
    /\ IF wish # NoWish THEN Start(UI, "set", wish) ELSE UNCHANGED <<gen, cmd, issued, late>>
    /\ UNCHANGED <<req, reqReady, work, vol, gain, live, staged, hwReady, mix, out, btSync>>

(***************************************************************************)
(* Volume changes from elsewhere.                                          *)
(***************************************************************************)
\* Mutant: an external write leaves the popup's pending drag sample alone.
ExternalSetNoCancel(v) ==
    /\ Idle(UI)
    /\ Express
    /\ Start(UI, "set", NewWish(v))
    /\ UNCHANGED <<ui, req, reqReady, work, vol, gain, live, staged,
                   hwReady, mix, out, btSync>>

\* A hardware key or a plugin: gui_player_set_volume_percent() cancels the
\* popup's coalescer, then audio_set_volume().  A remote request does the same
\* unless the popup is being dragged, so it is one of these steps.
ExternalSet(v) ==
    /\ Idle(UI)
    /\ Express
    /\ hw_volume_coalesce_cancel({Popup})
    /\ Start(UI, "set", NewWish(v))
    /\ UNCHANGED <<touch, req, reqReady, work, vol, gain, live, staged,
                   hwReady, mix, out, btSync>>

\* The accessory's AVRCP volume, on the BlueALSA monitor thread.
AccessorySet(v) ==
    /\ btSync /\ Idle(BT)
    /\ Express
    /\ Start(BT, "set", NewWish(v))
    /\ UNCHANGED <<ui, req, reqReady, work, vol, gain, live, staged,
                   hwReady, mix, out, btSync>>

(***************************************************************************)
(* The two workers.                                                        *)
(***************************************************************************)
RequestWorkerTake ==
    /\ work = NoJob /\ req # NoJob
    /\ work' = req
    /\ req' = NoJob
    /\ UNCHANGED <<ui, gen, cmd, reqReady, vol, gain, live, staged, hwReady,
                   mix, out, intents, issued, late, btSync>>

RequestWorkerApply ==
    /\ work # NoJob
    /\ audio_apply_volume(work.wish, work.gen)
    /\ work' = NoJob
    /\ UNCHANGED <<ui, gen, cmd, req, reqReady, live, staged, hwReady, out, intents, issued, late, btSync>>

MixerWorkerTake ==
    /\ hand = None /\ slot # None
    /\ hand' = slot
    /\ slot' = None
    /\ UNCHANGED <<ui, gen, cmd, req, reqReady, work, vol, gain, live, staged,
                   hwReady, hw, faulty, faults, out, intents, issued, late, btSync>>

MixerWorkerWrite ==
    /\ hand # None
    /\ \E F \in SUBSET Channels : audio_output_set_hw_volume_raw(hand, F)
    /\ hand' = None
    /\ UNCHANGED <<ui, gen, cmd, req, reqReady, work, vol, gain, live, staged,
                   hwReady, slot, out, intents, issued, late, btSync>>

(***************************************************************************)
(* Plugin curves, all on the UI thread.  Staging touches the staged pair   *)
(* only; commit installs it and writes the register in one critical        *)
(* section, and a running plugin's own change touches the live pair only.  *)
(***************************************************************************)
audio_stage_custom_hw_volume_curve(c) ==
    /\ Idle(UI) /\ c # staged
    /\ staged' = c
    /\ UNCHANGED <<ui, gen, cmd, req, reqReady, work, vol, gain, live, hwReady,
                   mix, out, intents, issued, late, btSync>>

InstallCurve(c) ==
    /\ live' = c
    /\ audio_output_request_hw_volume_raw(compute_hw_raw(c, vol.value))
    /\ UNCHANGED <<ui, gen, cmd, req, reqReady, work, vol, gain, staged, hwReady,
                   out, intents, issued, late, btSync>>

audio_commit_hw_volume_curve ==
    /\ Idle(UI)
    /\ InstallCurve(staged)

audio_set_custom_hw_volume_curve(c) ==
    /\ Idle(UI) /\ c # live
    /\ InstallCurve(c)

(***************************************************************************)
(* The playback thread and the output route.  audio_output_ensure opens    *)
(* the requested target; ensure_device_format then compares the USB state  *)
(* with the one it last set the gain for and, if it differs, reads the     *)
(* volume and sets it again as a new command.  close_device (on a pause, a *)
(* stop, a write retry) makes the local card the active target.            *)
(***************************************************************************)
ensure_device_format(onUsb) ==
    /\ Idle(PB) /\ routes < MaxRoutes
    /\ routes' = routes + 1
    /\ usb' = onUsb
    /\ IF onUsb # lastUsb
         THEN cmd' = [cmd EXCEPT ![PB] = MustReapply]
         ELSE UNCHANGED cmd
    /\ UNCHANGED <<ui, gen, req, reqReady, work, vol, gain, live, staged, hwReady,
                   mix, lastUsb, intents, issued, late, btSync>>

audio_get_volume ==
    /\ cmd[PB].step = "changed"
    /\ cmd' = [cmd EXCEPT ![PB] = [step |-> "read", wish |-> vol, gen |-> 0]]
    /\ UNCHANGED <<ui, gen, req, reqReady, work, vol, gain, live, staged, hwReady,
                   mix, out, intents, issued, late, btSync>>

Reapply ==
    /\ cmd[PB].step = "read"
    /\ Start(PB, "set", cmd[PB].wish)
    /\ UNCHANGED <<ui, req, reqReady, work, vol, gain, live, staged, hwReady,
                   mix, out, intents, btSync>>

close_device ==
    /\ Idle(PB) /\ usb /\ routes < MaxRoutes
    /\ routes' = routes + 1
    /\ usb' = FALSE
    /\ UNCHANGED <<ui, gen, cmd, req, reqReady, work, vol, gain, live, staged,
                   hwReady, mix, lastUsb, intents, issued, late, btSync>>

Next ==
    \/ \E t \in Callers : FinishSet(t)
    \/ FinishRequest
    \/ \E s \in Sliders : \/ hw_volume_coalesce_drag_begin(s)
                          \/ hw_volume_coalesce_timer_cb(s)
    \/ \E s \in Sliders, v \in Level : \/ hw_volume_coalesce_drag_update(s, v)
                                       \/ hw_volume_coalesce_drag_end(s, v)
                                       \/ hw_volume_coalesce_teardown(s, v)
    \/ \E v \in Level : ExternalSet(v) \/ AccessorySet(v)
    \/ RequestWorkerTake \/ RequestWorkerApply
    \/ MixerWorkerTake \/ MixerWorkerWrite
    \/ \E c \in Curves \cup {NoCurve} : \/ audio_stage_custom_hw_volume_curve(c)
                                        \/ audio_set_custom_hw_volume_curve(c)
    \/ audio_commit_hw_volume_curve
    \/ \E onUsb \in BOOLEAN : ensure_device_format(onUsb)
    \/ audio_get_volume \/ Reapply \/ close_device

Spec == Init /\ [][Next]_vars

(***************************************************************************)
(* Every thread that has entered a volume call finishes it, and the        *)
(* workers, which block only on their own condition variables, run.        *)
(***************************************************************************)
Fairness ==
    /\ \A t \in Callers : WF_vars(FinishSet(t))
    /\ WF_vars(FinishRequest) /\ WF_vars(audio_get_volume) /\ WF_vars(Reapply)
    /\ WF_vars(RequestWorkerTake) /\ WF_vars(RequestWorkerApply)
    /\ WF_vars(MixerWorkerTake) /\ WF_vars(MixerWorkerWrite)

FairSpec == Spec /\ Fairness

-----------------------------------------------------------------------------
(***************************************************************************)
(* Properties.                                                             *)
(***************************************************************************)
CmdType(t) ==
    \/ cmd[t] \in {NoCmd} \cup Cmd
    \/ t = PB /\ cmd[t] = MustReapply
    \/ t = PB /\ cmd[t] \in [step : {"read"}, wish : Wish, gen : {0}]

\* The type invariant.
TypeOK ==
    /\ pending \in [Sliders -> Wish \cup {NoWish}]
    /\ drag \in [Sliders -> BOOLEAN]
    /\ touch \in Sliders \cup {"none"}
    /\ gen \in Nat
    /\ cmd \in [Callers -> [step : {"idle", "changed", "read", "set", "queue"},
                            wish : Wish \cup {NoWish}, gen : Nat]]
    /\ \A t \in Callers : CmdType(t)
    /\ req \in {NoJob} \cup [wish : Wish, gen : Nat \ {0}]
    /\ work \in {NoJob} \cup [wish : Wish, gen : Nat \ {0}]
    /\ reqReady \in BOOLEAN /\ hwReady \in BOOLEAN
    /\ vol \in Wish /\ issued \in Wish /\ late \in BOOLEAN
    /\ gain \in Level
    /\ live \in Curves \cup {NoCurve} /\ staged \in Curves \cup {NoCurve}
    /\ slot \in Raw \cup {None} /\ hand \in Raw \cup {None}
    /\ hw \in [Channels -> Raw \cup {None}]
    /\ faulty \in SUBSET Channels
    /\ usb \in BOOLEAN /\ lastUsb \in BOOLEAN
    /\ intents \in 0 .. MaxIntents /\ routes \in 0 .. MaxRoutes
    /\ faults \in 0 .. MaxFaults /\ btSync \in BOOLEAN

\* Some thread, slot or worker still holds the command of generation gen.
CarriedBy(w) ==
    \/ \E t \in Callers : /\ cmd[t].step \in {"set", "queue"}
                          /\ cmd[t].gen = gen /\ cmd[t].wish = w
    \/ req.gen = gen /\ req.wish = w
    \/ work.gen = gen /\ work.wish = w

\* The newest volume command (audio_set_volume or audio_request_volume) is in
\* force, or something that will still apply it holds it: neither the
\* single-slot queue nor the stale-generation check of audio_apply_volume can
\* drop it.
LatestCommandNotLost == vol = issued \/ CarriedBy(issued)

ExpectedRaw == compute_hw_raw(live, vol.value)

\* The newest register value on its way to the DAC (the mixer worker's slot,
\* else what the worker holds, else what the channels hold) is the one the
\* live curve gives the current volume: no request is lost, reordered or
\* computed from a staged curve.  A channel whose last write the driver
\* refused is the one exception; nothing has been requested at boot.
HardwareFollowsVolume ==
    LET boot == faulty = {} /\ \A c \in Channels : hw[c] = None IN
    IF slot # None THEN slot = ExpectedRaw
    ELSE IF hand # None THEN hand = ExpectedRaw
    ELSE boot \/ \A c \in Channels : c \in faulty \/ hw[c] = ExpectedRaw

Quiet == /\ \A t \in Callers : Idle(t)
         /\ req = NoJob /\ work = NoJob

Settled == Quiet /\ \A s \in Sliders : pending[s] = NoWish

\* Once nothing is pending anywhere, the volume is the last thing a user asked
\* for, by slider, key, plugin or reload: no older drag sample is restored over
\* it.  This is about the controls, before the playback thread first opens the
\* output.  Left out: a key pressed during a drag of the drawer's slider, whose
\* recorded sample nobody cancels and the timer issues after it.
LastWishWins == Settled /\ routes = 0 /\ ~btSync /\ ~late => vol.intent = intents

\* The same through every opening of the output: reapplying the volume to a
\* new route does not undo what a user asks for meanwhile.
LastWishSurvivesReopen == Settled /\ ~btSync /\ ~late => vol.intent = intents

\* The newest command is applied in the end: a drag sample queued on the worker,
\* or a set in the middle of its two steps, takes effect unless a newer one does.
LatestCommandTakesEffect == <>(vol = issued)

\* Controls, workers and coalescers together: the newest command is applied in
\* the end, and where they come to rest is what the user asked for last.
LastWishPrevails == [](LastWishWins /\ LatestCommandTakesEffect)
=============================================================================

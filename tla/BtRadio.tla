------------------------------ MODULE BtRadio -------------------------------
(***************************************************************************)
(* Bluetooth power and the automatic reconnection (ui/gui_shell.c,         *)
(* network/bluetooth_reconnect.c, network/bluetooth_control.c).            *)
(*                                                                         *)
(* The screen thread shows what it believes (cached), starts one toggle    *)
(* thread, one refresh thread that asks the adapter, and one reconnect     *)
(* worker per power-on cycle; it learns that a thread is done when it      *)
(* polls.  The screen going dark suspends the radio, waking restores it.   *)
(* What runs under bt_chip_mutex is one step, except the worker's connect  *)
(* command, during which the user may act.                                 *)
(***************************************************************************)
EXTENDS Integers

CONSTANTS MaxTaps,        \* taps on the Bluetooth tile
          MaxManual,      \* connects and forgets by hand
          MaxSleeps,      \* times the screen goes dark for long
          MaxRadioFaults, \* commands and queries that fail
          Attempts        \* connection attempts of one worker, 3 in the code

ASSUME RadioBounds == {MaxTaps, MaxManual, MaxSleeps, MaxRadioFaults, Attempts} \subseteq Nat

VARIABLES
    radio,      \* the adapter's power
    link,       \* what made the present connection: "none", "auto" or "manual"
    chip,       \* holder of bt_chip_mutex between two steps
    cached,     \* bt_is_powered_cached
    toggle,     \* the toggle thread: bt_toggle_active, its target and whether it is done
    followup,   \* bt_toggle_followup_pending and its target
    refresh,    \* the refresh thread and what it read
    arm,        \* bt_reconnect_observed_powered, _pending and _cycle_suppressed
    job,        \* the reconnect worker: its place, its attempt, and whether its generation
                \* is still reconnect_generation
    manual,     \* the thread of a connect or forget by hand; "forgotten" until polled
    screen,     \* whether the screen is on, radios_suspended, bt_was_on_before_suspend
    wish,       \* the power the user last asked for
    overruled,  \* the user acted since the worker was started
    unused,     \* power-on cycles that have not had their worker yet
    taps, manuals, sleeps, radioFaults

radioVars == <<radio, link, chip, cached, toggle, followup, refresh, arm, job, manual,
               screen, wish, overruled, unused, taps, manuals, sleeps, radioFaults>>

JobPlaces == {"none", "check", "query", "lock", "connect", "verify", "pause", "done"}

RadioTypeOK ==
    /\ {radio, cached, wish, overruled} \subseteq BOOLEAN
    /\ link \in {"none", "auto", "manual"} /\ chip \in {"free", "worker"}
    /\ toggle \in [active : BOOLEAN, target : BOOLEAN, done : BOOLEAN]
    /\ followup \in [pending : BOOLEAN, target : BOOLEAN]
    /\ refresh \in [at : {"none", "asking", "done"}, powered : BOOLEAN]
    /\ arm \in [powered : BOOLEAN, pending : BOOLEAN, suppressed : BOOLEAN]
    /\ job \in [pc : JobPlaces, current : BOOLEAN, attempt : 0 .. Attempts]
    /\ manual \in {"none", "connect", "forget", "forgotten"}
    /\ screen \in [on : BOOLEAN, suspended : BOOLEAN, wasOn : BOOLEAN]

\* After start-up: the radio is on or off, nothing has been asked of it yet.
RadioInit ==
    /\ radio \in BOOLEAN /\ wish = radio /\ cached = FALSE
    /\ link = "none" /\ chip = "free"
    /\ toggle = [active |-> FALSE, target |-> FALSE, done |-> FALSE]
    /\ followup = [pending |-> FALSE, target |-> FALSE]
    /\ refresh = [at |-> "asking", powered |-> FALSE]
    /\ arm = [powered |-> FALSE, pending |-> FALSE, suppressed |-> FALSE]
    /\ job = [pc |-> "none", current |-> FALSE, attempt |-> 0]
    /\ manual = "none"
    /\ screen = [on |-> TRUE, suspended |-> FALSE, wasOn |-> FALSE]
    /\ overruled = FALSE /\ unused = IF radio THEN 1 ELSE 0
    /\ taps = 0 /\ manuals = 0 /\ sleeps = 0 /\ radioFaults = 0

RadioFault == radioFaults < MaxRadioFaults /\ radioFaults' = radioFaults + 1
\* A call that may fail: ok says whether it did not.
Succeeds(ok) == IF ok THEN UNCHANGED radioFaults ELSE RadioFault

----------------------------------------------------------------------------
\* What the screen thread does

\* bt_reconnect_cancel(): the worker's generation is left behind.
bt_reconnect_cancel == job' = [job EXCEPT !.current = FALSE]

\* gui_shell_cancel_bt_reconnect(): and nothing is armed until the next cycle.
gui_shell_cancel_bt_reconnect(observed) ==
    /\ bt_reconnect_cancel
    /\ overruled' = TRUE
    /\ arm' = [powered |-> observed, pending |-> FALSE, suppressed |-> TRUE]

\* A new cycle the user asked for, whatever the polls saw in between.
NewCycle == arm' = [arm EXCEPT !.powered = FALSE, !.suppressed = FALSE]

StartsToggle(target) == toggle' = [active |-> TRUE, target |-> target, done |-> FALSE]

\* quick_drawer_bt_event_cb(): the opposite of what is shown; while a toggle
\* runs, only the last request is kept.
TapTile ==
    LET want == ~cached
    IN  /\ screen.on /\ taps < MaxTaps
        /\ taps' = taps + 1
        /\ wish' = want
        /\ IF want THEN NewCycle /\ UNCHANGED <<job, overruled>>
           ELSE gui_shell_cancel_bt_reconnect(FALSE)
        /\ unused' = IF want THEN unused + 1 ELSE unused
        /\ \/ /\ toggle.active
              /\ followup' = [pending |-> want # toggle.target, target |-> want]
              /\ cached' = want
              /\ UNCHANGED <<toggle, radioFaults>>
           \/ /\ ~toggle.active
              /\ followup' = [followup EXCEPT !.pending = FALSE]
              /\ \E ok \in BOOLEAN :
                   /\ Succeeds(ok)
                   /\ IF ok THEN StartsToggle(want) ELSE UNCHANGED toggle
                   /\ cached' = IF ok THEN want ELSE ~want
        /\ UNCHANGED <<radio, link, chip, refresh, manual, screen, manuals, sleeps>>

\* start_refresh_bt_icon(): at most one at a time.
RefreshStarted == refresh' = IF refresh.at = "none" THEN [refresh EXCEPT !.at = "asking"] ELSE refresh

StartRefresh ==
    /\ screen.on /\ refresh.at = "none"
    /\ RefreshStarted
    /\ UNCHANGED <<radio, link, chip, cached, toggle, followup, arm, job, manual, screen,
                   wish, overruled, unused, taps, manuals, sleeps, radioFaults>>

\* Mutant: the request that came during the toggle is forgotten.
PollToggleForgets ==
    /\ toggle.active /\ toggle.done
    /\ followup' = [followup EXCEPT !.pending = FALSE]
    /\ toggle' = [toggle EXCEPT !.active = FALSE, !.done = FALSE]
    /\ RefreshStarted
    /\ UNCHANGED <<radio, link, chip, cached, arm, job, manual, screen, wish, overruled,
                   unused, taps, manuals, sleeps, radioFaults>>

\* poll_bt_toggle(): a remembered opposite request is launched at once,
\* otherwise the adapter is asked what came of it.
PollToggle ==
    /\ toggle.active /\ toggle.done
    /\ followup' = [followup EXCEPT !.pending = FALSE]
    /\ \/ /\ followup.pending
          /\ \E ok \in BOOLEAN :
               /\ Succeeds(ok)
               /\ IF ok THEN StartsToggle(followup.target) /\ UNCHANGED refresh
                  ELSE toggle' = [active |-> FALSE, target |-> followup.target, done |-> FALSE]
                       /\ RefreshStarted
       \/ /\ ~followup.pending /\ UNCHANGED radioFaults
          /\ toggle' = [toggle EXCEPT !.active = FALSE, !.done = FALSE]
          /\ RefreshStarted
    /\ UNCHANGED <<radio, link, chip, cached, arm, job, manual, screen, wish, overruled,
                   unused, taps, manuals, sleeps>>

\* poll_refresh_bt_icon(): thrown away while a toggle runs; off ends the cycle,
\* the first on of a cycle arms one reconnection.
PollRefresh ==
    /\ refresh.at = "done"
    /\ refresh' = [refresh EXCEPT !.at = "none"]
    /\ \/ toggle.active /\ UNCHANGED <<arm, cached, job>>
       \/ /\ ~toggle.active
          /\ cached' = refresh.powered
          /\ \/ /\ refresh.powered /\ UNCHANGED job
                /\ arm' = [arm EXCEPT !.powered = TRUE,
                                      !.pending = @ \/ (~arm.powered /\ ~arm.suppressed)]
             \/ /\ ~refresh.powered
                /\ bt_reconnect_cancel
                /\ arm' = [powered |-> FALSE, pending |-> FALSE, suppressed |-> FALSE]
    /\ UNCHANGED <<radio, link, chip, toggle, followup, manual, screen, wish, overruled, unused,
                   taps, manuals, sleeps, radioFaults>>

\* bt_reconnect_poll(): a worker that is done is joined ...
PollWorker ==
    /\ job.pc = "done"
    /\ job' = [job EXCEPT !.pc = "none"]
    /\ UNCHANGED <<radio, link, chip, cached, toggle, followup, refresh, arm, manual,
                   screen, wish, overruled, unused, taps, manuals, sleeps, radioFaults>>

ReadyToReconnect ==
    arm.pending /\ ~arm.suppressed /\ job.pc = "none" /\ arm.powered /\ ~toggle.active

\* ... and poll_bt_reconnect() uses up what is armed, started or not.
StartWorker ==
    /\ ReadyToReconnect
    /\ arm' = [arm EXCEPT !.pending = FALSE]
    /\ \E ok \in BOOLEAN :
         /\ Succeeds(ok)
         /\ IF ok THEN /\ job' = [pc |-> "check", current |-> TRUE, attempt |-> 0]
                       /\ overruled' = FALSE /\ unused' = unused - 1
            ELSE UNCHANGED <<job, overruled, unused>>
    /\ UNCHANGED <<radio, link, chip, cached, toggle, followup, refresh, manual, screen, wish, taps,
                   manuals, sleeps>>

\* start_bt_forget() and bt_action_connect_cb(): the automatic worker is
\* cancelled, then a thread does what the user chose.
ActByHand ==
    /\ screen.on /\ manual = "none" /\ manuals < MaxManual
    /\ manuals' = manuals + 1
    /\ gui_shell_cancel_bt_reconnect(arm.powered)
    /\ manual' \in {"connect", "forget"}
    /\ UNCHANGED <<radio, link, chip, cached, toggle, followup, refresh, screen, wish, unused,
                   taps, sleeps, radioFaults>>

\* poll_bt_forget(): a device that is gone cancels once more, for what a
\* refresh saw of it in between.
PollForget ==
    /\ manual = "forgotten"
    /\ manual' = "none"
    /\ gui_shell_cancel_bt_reconnect(arm.powered)
    /\ UNCHANGED <<radio, link, chip, cached, toggle, followup, refresh, screen, wish, unused,
                   taps, manuals, sleeps, radioFaults>>

BackgroundWork == toggle.active \/ refresh.at # "none" \/ job.pc # "none" \/ manual # "none"

\* gui_shell_suspend_connections(), once the screen has been dark for long.
Suspend ==
    /\ screen.on /\ sleeps < MaxSleeps /\ ~BackgroundWork
    /\ sleeps' = sleeps + 1
    /\ gui_shell_cancel_bt_reconnect(arm.powered)
    /\ screen' = [on |-> FALSE, suspended |-> TRUE, wasOn |-> cached]
    /\ \/ ~cached /\ UNCHANGED <<toggle, followup, radioFaults>>
       \/ /\ cached
          /\ followup' = [followup EXCEPT !.pending = FALSE]
          /\ \E ok \in BOOLEAN : /\ Succeeds(ok)
                                 /\ IF ok THEN StartsToggle(FALSE) ELSE UNCHANGED toggle
    /\ UNCHANGED <<radio, link, chip, cached, refresh, manual, wish, unused, taps, manuals>>

RestoreNeeded == screen.suspended /\ screen.wasOn /\ ~cached /\ ~toggle.active

\* The screen wakes: gui_shell_resume_connections(), then a refresh.
Wake ==
    /\ ~screen.on
    /\ screen' = [screen EXCEPT !.on = TRUE, !.suspended = FALSE]
    /\ \/ ~RestoreNeeded /\ UNCHANGED <<arm, toggle, followup, unused, radioFaults>>
       \/ /\ RestoreNeeded
          /\ NewCycle
          /\ unused' = unused + 1
          /\ followup' = [followup EXCEPT !.pending = FALSE]
          /\ \E ok \in BOOLEAN : /\ Succeeds(ok)
                                 /\ IF ok THEN StartsToggle(TRUE) ELSE UNCHANGED toggle
    /\ RefreshStarted
    /\ UNCHANGED <<radio, link, chip, cached, job, manual, wish, overruled, taps, manuals,
                   sleeps>>

----------------------------------------------------------------------------
\* The threads

\* bt_toggle_thread_func(): under the chip's mutex the power changes, or not.
ToggleWorks ==
    /\ toggle.active /\ ~toggle.done /\ chip = "free"
    /\ toggle' = [toggle EXCEPT !.done = TRUE]
    /\ \E ok \in BOOLEAN :
         /\ Succeeds(ok)
         /\ radio' = IF ok THEN toggle.target ELSE radio
    /\ link' = IF radio' THEN link ELSE "none"
    /\ UNCHANGED <<chip, cached, followup, refresh, arm, job, manual, screen, wish,
                   overruled, unused, taps, manuals, sleeps>>

\* refresh_bt_icon_thread_func(): a query that fails reads as off.
RefreshReads ==
    /\ refresh.at = "asking"
    /\ \E ok \in BOOLEAN : /\ Succeeds(ok)
                           /\ refresh' = [at |-> "done", powered |-> ok /\ radio]
    /\ UNCHANGED <<radio, link, chip, cached, toggle, followup, arm, job, manual, screen,
                   wish, overruled, unused, taps, manuals, sleeps>>

\* bt_control_connect() and bt_control_forget() of the device by hand.
ManualWorks ==
    /\ manual \in {"connect", "forget"} /\ chip = "free"
    /\ \/ /\ link' = IF manual = "connect" /\ radio THEN "manual" ELSE "none"
          /\ manual' = IF manual = "forget" THEN "forgotten" ELSE "none"
       \/ manual' = "none" /\ UNCHANGED link
    /\ UNCHANGED <<radio, chip, cached, toggle, followup, refresh, arm, job, screen, wish,
                   overruled, unused, taps, manuals, sleeps, radioFaults>>

LinkLost ==
    /\ link # "none" /\ chip = "free" /\ RadioFault
    /\ link' = "none"
    /\ UNCHANGED <<radio, chip, cached, toggle, followup, refresh, arm, job, manual,
                   screen, wish, overruled, unused, taps, manuals, sleeps>>

OthersRest == UNCHANGED <<radio, cached, toggle, followup, refresh, arm, manual, screen,
                          wish, overruled, unused, taps, manuals, sleeps>>
WorkerLeaves == OthersRest /\ UNCHANGED radioFaults

reconnect_cancelled == ~job.current
JobGoes(pc) == job' = [job EXCEPT !.pc = pc]

\* Between two attempts the worker looks at the generation all the time.
JobChecks ==
    /\ job.pc \in {"check", "pause"}
    /\ JobGoes(IF reconnect_cancelled \/ job.attempt = Attempts THEN "done" ELSE "query")
    /\ WorkerLeaves /\ UNCHANGED <<link, chip>>

AttemptEnds(connected) ==
    job' = [job EXCEPT !.attempt = @ + 1, !.pc = IF connected THEN "done" ELSE "pause"]

\* bt_control_reconnect_paired() before the lock: is there power, is there
\* already an output, is there exactly one device to try.
JobQueries ==
    /\ job.pc = "query"
    /\ \/ ~reconnect_cancelled /\ radio /\ link = "none" /\ JobGoes("lock")
       \/ AttemptEnds(link # "none" /\ radio)
    /\ WorkerLeaves /\ UNCHANGED <<link, chip>>

\* Under the lock everything is asked again before the connect command.
JobLocks ==
    /\ job.pc = "lock" /\ chip = "free"
    /\ \/ /\ ~reconnect_cancelled /\ radio /\ link = "none"
          /\ JobGoes("connect") /\ chip' = "worker"
       \/ AttemptEnds(link # "none" /\ radio /\ ~reconnect_cancelled) /\ UNCHANGED chip
    /\ WorkerLeaves /\ UNCHANGED link

\* The command itself takes seconds and cannot be interrupted.
JobConnects ==
    /\ job.pc = "connect"
    /\ link' \in {link, "auto"}
    /\ JobGoes("verify")
    /\ WorkerLeaves /\ UNCHANGED chip

\* Mutant: a connection made after the cancel is kept.
JobVerifiesNot ==
    /\ job.pc = "verify"
    /\ chip' = "free"
    /\ UNCHANGED link /\ AttemptEnds(link = "auto")
    /\ WorkerLeaves

\* A cancel that raced the command: the connection is taken down again, by a
\* call whose failure is ignored.  Otherwise the attempt has succeeded if the
\* adapter, asked once more, says so.
JobVerifies ==
    /\ job.pc = "verify"
    /\ chip' = "free"
    /\ \E ok \in BOOLEAN :
         /\ Succeeds(ok)
         /\ IF reconnect_cancelled
              THEN link' = (IF ok THEN "none" ELSE link) /\ AttemptEnds(FALSE)
              ELSE UNCHANGED link /\ AttemptEnds(ok /\ link = "auto")
    /\ OthersRest

JobStep == JobChecks \/ JobQueries \/ JobLocks \/ JobConnects \/ JobVerifies

RadioNext ==
    \/ TapTile \/ StartRefresh \/ PollToggle \/ PollRefresh \/ PollWorker \/ StartWorker
    \/ ActByHand \/ PollForget \/ Suspend \/ Wake
    \/ ToggleWorks \/ RefreshReads \/ ManualWorks \/ LinkLost \/ JobStep

RadioSpec == RadioInit /\ [][RadioNext]_radioVars

\* Threads finish and the screen thread polls; the user owes nothing.
RadioFairSpec ==
    /\ RadioSpec
    /\ WF_radioVars(PollToggle) /\ WF_radioVars(PollRefresh) /\ WF_radioVars(PollWorker)
    /\ WF_radioVars(PollForget)
    /\ WF_radioVars(ToggleWorks) /\ WF_radioVars(RefreshReads) /\ WF_radioVars(ManualWorks)
    /\ WF_radioVars(JobStep)

----------------------------------------------------------------------------
\* Properties

\* "An automatic worker cannot race the user's explicit choice": once the user
\* has acted, the worker leaves no connection of its own behind, unless the call
\* that takes it down fails (bt_control_reconnect_paired() does not look).
UserOverrulesWorker ==
    [][chip = "worker" /\ chip' = "free" /\ overruled /\ radioFaults' = radioFaults
         => link' # "auto"]_radioVars

\* Nor does it ever replace a connection the user made.
ManualLinkStands == [][link = "manual" => link' # "auto"]_radioVars

\* At most one worker per power-on cycle: a lost link, a late or a discarded
\* refresh does not start another.  A query that failed may.
OneWorkerPerCycle == radioFaults = 0 => unused >= 0

\* "Last intent wins": when the user stops tapping, the radio settles in the
\* state asked for last.
LastTapWins == <>[](radioFaults = 0 /\ sleeps = 0 => radio = wish)

\* "Brings the radio back the moment the screen wakes".
WakeRestoresRadio ==
    (screen.on /\ sleeps = MaxSleeps /\ wish) ~> (radio \/ ~wish \/ radioFaults > 0)

\* The automatic reconnection never acts against the user, nor twice.
WorkerObeys == UserOverrulesWorker /\ ManualLinkStands /\ []OneWorkerPerCycle
=============================================================================

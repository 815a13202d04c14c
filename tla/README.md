# A TLA+ development for Compás Player

Compás is the replacement firmware of a portable music player: a bootloader that
installs updates from the SD card, and a player with an LVGL user interface, an
audio engine with a thread of its own, a music library on the card and a number
of network services. The repository's C sources are under `src/src/`; paths
below are relative to that directory.

This directory models the parts in which several threads, a crash or a long
sequence of commands decide whether the program is right:

| Module | What it models | Proofs |
|---|---|---|
| `Volume` | volume controls, commands, workers, plugin curves, mixer | `VolumeProofs` |
| `Transport` | the playback thread and every call on it | `TransportProofs` |
| `Player` | the LVGL thread above `Transport` (extends it): start, arm, poll, skip, retry | `TransportProofs` |
| `Queue` | the play queue, play modes, shuffle, checkpoint contents | `QueueProofs` |
| `SdReady` | the bootloader's wait for the card | `BootProofs` |
| `Boot` | update installation, choice of the player, power loss | `BootProofs` |
| `Settings` | the settings file: saves, the coalescing worker, the ways the device goes down | - |
| `Checkpoint` | the worker that writes the queue, its flags, targets and the final flush | - |
| `TagcacheCommit` | generations of the library database on the card; implements `DurableCell` | `TagcacheProofs` |
| `CardHotplug` | the poll that notices cards coming, going and being swapped | - |
| `SdRepair` | checking a read-only card, remounting, formatting | - |
| `HttpStream` | an internet radio stream between its thread and the decoder; implements `ByteQueue` | `HttpProofs` |
| `HttpRequest` | a request: resolver thread, addresses, cancel token, redirects | `HttpProofs` |
| `BtRadio` | the Bluetooth radio: tile, refreshes, suspend, automatic and manual connections | - |
| `UsbBridge` | USB DAC mode: reader, writer, dropping ring, start and stop | `RingProofs` |
| `ArtworkSlot` | the one decoding slot of the artwork coordinator | - |
| `Mp3Seek` | the index of MP3 files: the scanning thread, deferred seeks, retries | `Mp3SeekProofs` |
| `Charging` | the current and voltage limits of the charger chips, the saved baseline | - |
| `DurableCell`, `ByteQueue` | abstract specifications | - |

`MC*.tla` and the `.cfg` files give the constants small values for TLC. `MCStorage`,
`MCServices` and `MCQueue` hold several parts that share no state: a variable `part` chooses
in the initial state which of them runs, and the others rest, so that one run
explores the sum of their state spaces and not the product. `PROJECT.json`
lists the runs, the mapping from definitions to source lines, the mutants that
show each property can fail, the hazards and the theorems.

    tlc -config MCQueue.cfg MCQueue
    tlapm TransportProofs.tla

## 1. Inventory

For each part: the state it keeps, its operations, what it shares with others,
what is hard about it, and what makes it correct.

### Playback engine - `audio/audio.c`, `audio/audio_helpers.h`
State under `audio_mutex`: `restart_requested` and its path and position,
`next_path` and `next_track_generation`, `stop_requested`, `paused`, the pending
seek, `playback_generation`, `have_track`, the event flags `track_finished`,
`track_advanced` and the last error. State of the thread alone: the decoder, the
prefetched decoder, the position, what it read under the mutex. Operations:
`audio_play_file_at`, `audio_set_next_track`, `audio_toggle_pause`, `audio_stop`,
seeks, the event getters. *Hard*: the thread works with the mutex released, so
everything it read can be out of date when it is used; tracks hand over by
crossfade or gaplessly while the user changes what is next. *Correct when*:
nothing plays after a stop or failure, requests are not lost, the track that
takes over is the one armed, positions stay inside their tracks, the output
device is not held while nothing needs it.

### Volume - `audio/audio.c`, `audio/audio_output.c`, `ui/hw_volume_coalesce.c`
State: a coalescer per slider, `volume_set_generation`, the request slot, the
volume, live and staged curve, the mixer worker's slot, the registers.
Five threads touch it. *Hard*: synchronous sets overtake queued samples; curves
change meanwhile; the playback thread sets the volume again when the route
changes. *Correct when*: the newest command is never dropped, the register is
what the live curve gives the volume, no older sample comes back.

### Player and queue - `ui/gui_player.c`, `ui/gui_queue.c`, `library/playback_order.h`, `library/queue_resume.c`
State, of the LVGL thread only: `playlist[]` and its index, the songs queued by
hand, the play mode, the shuffle bag with position and continuation, failed
files, a deferred resume. Operations: some twenty handlers (tap, Prev/Next,
queue edits, delete, mode changes, restore) and the poll of `ui/gui.c` that
learns from the engine's flags what it did by itself. *Hard*: the engine is
always up to half a second ahead of the poll; every handler must leave list,
bag, counters and the armed track in step. *Correct when*: the track shown is
the track heard, the track armed is the track that will be shown, a failing
file is skipped once and for its own failure, a written checkpoint can be read.

### Bootloader - `bootloader/`
State: the card's mount state and three deadlines (`sd_ready.c`); the packaged
player, two installed ones, the temporary file, the update on the card
(`installer.c`, `scanner.c`); the supervised child (`main.c`). *Hard*: power loss
at any step, calls that fail, cards that come up late. *Correct when*: an
installed player is whole, an update is removed from the card only once it is
installed durably, an old build never shadows a newer image, every boot gets to a
player in bounded time.

### Settings - `core/settings.c`, `core/idle_shutdown.c`
State: `settings_save_generation`, the queued copy and its generation, two
mutexes, the temporary and the real file. *Hard*: synchronous saves and a worker
share one temporary file; the device may go down or lose power at any step.
*Correct when*: the file is whole, never goes back to an older save, and ends up
with the newest.

### Queue checkpoint - `ui/gui_player.c` 4557-4924, `library/queue_resume.c`
State: `checkpoint_running/done`, urgent, failure and clean-up flags, the revision
last written per target. *Hard*: a thread against the poll, urgent requests, the
card going away and the flush at power-off. *Correct when*: a failed write is
known and repeated, a queue too large to keep leaves no file behind, the flush
leaves the last queue on storage.

### Library database - `library/tagcache.c`
State: numbered generations of files, a pointer file, tag files borrowed from
older generations. *Hard*: power or card loss between any two of them. *Correct
when*: to its readers it is one value that is replaced as a whole, the value whose
pointer was synced survives, and the one it replaced stays loadable.

### Card: hot-plug, check and format - `ui/gui_library.c`, `ui/sd_card_identity.h`, `core/sd_fsck_run.c`, `main.c`
State: `was_mounted`, the last identity, the absence streak, the handoff latch,
the phase of a repair, the cards already tried. *Hard*: readings fail one at a
time, cards are swapped between two polls, a scan holds the database, three
threads act on one mount. *Correct when*: the library of a card is not used with
another, a card that is in gets served, a check has the card to itself and is not
repeated for ever.

### Network - `network/http_stream.c`, `network/http_conn.c`, `network/http_client.c`
State: a ring with end and stop flags; a cancel token holding a descriptor; a
resolver's context shared with a thread that may be abandoned. *Hard*: condition
variables, time-outs racing answers, descriptor numbers that are used again.
*Correct when*: bytes come in order and none is lost, reads and closes return, a
cancel hits the request's own socket, everything is released once.

### Bluetooth - `ui/gui_shell.c`, `network/bluetooth_reconnect.c`, `network/bluetooth_control.c`
State: the cached power state, a running toggle and its follow-up, a running
refresh, the armed reconnection and its generation. *Hard*: four short-lived
threads against taps, suspends and wakes. *Correct when*: the last tap decides, the
automatic worker never overrules the user, at most one worker runs per cycle.

### USB DAC bridge - `hardware/usb_dac_bridge.c`
State: a ring that drops the oldest data, two threads with `created` and
`running` flags, the confirmed rate. *Hard*: start and stop with time-outs, rate
changes, trimming from both ends. *Correct when*: the ring outlives its users, it
holds the newest data, nothing is played twice, start and stop return.

### Artwork coordinator - `library/artwork_coordinator.c`
State: the slot, the counts of waiting jobs, memory and playback. *Correct when*:
one image is decoded at a time, the counts are exact, the cover is not starved.

### MP3 seek index - `audio/audio.c` 778-1251, 1973-2432
State: the one slot of the scanning thread and its uncollected result, the
deferred target with its generation, retry count and time, the table of the
playing decoder, tables on the card. *Hard*: the result arrives when another
track may play; the seek is replaced, repeated or given up meanwhile. *Correct
when*: a table serves its own file only, a seek is carried out whatever becomes
of the table, scanning ends.

### Charging - `hardware/charge_limiter.c`
State: the registers of the chips, the captured default current and its file.
*Hard*: the default is in no other place than the register that is about to be
overwritten; transfers fail, the device restarts. *Correct when*: the switches
decide in the end, and a default that was capped comes back.

### Parts not modelled
| Part | State and what is hard | Property it should have |
|---|---|---|
| Output devices (`audio_output.c`, `usb_audio_output.c`) | owner gate, open/close, routes, balanced port; shared with AirPlay and USB DAC mode | one owner at a time; a route change reaches the device |
| Metadata database (`metadata_db.c`) | migration journal | a migration interrupted anywhere is finished or undone |
| Decoders, tag parsing, screens, plugins' Lua host, network services | data transformation, layout, external services | left out |

## 2. Plan

Done, in this order: `Volume`, `Transport`, `Player`, `SdReady`, `Boot`, `Queue`, the
proofs for `Volume`, `Transport` and `Boot`; then `Settings`, `Checkpoint`,
`TagcacheCommit` with `DurableCell`, `CardHotplug`, `HttpStream` with `ByteQueue`,
`HttpRequest`, `BtRadio`, `UsbBridge`, `ArtworkSlot`, `SdRepair`, `Mp3Seek`, `Charging`;
then the proofs for `HttpRequest`, `SdReady`, `TagcacheCommit` and its refinement,
`Mp3Seek`, `UsbBridge`, `Queue` and `Player`, and that `HttpStream` implements `ByteQueue`.

Next:
1. The invariants of `ArtworkSlot` (`OneDecoder`, `PendingExact`) and of `Settings`
   (`TornOnlyByFault`).
2. `OutputDevice`, composed with `Transport` in place of its variable `device`;
   the migration journal of `metadata_db.c`.

## 3. The modules

### Volume
Threads: LVGL (`UI`), BlueALSA monitor (`BT`), playback thread (`PB`), request
worker, mixer worker. A step is what a thread does between two points where
another can run: the increment of `volume_set_generation`, a critical section of
`audio_mutex`, or of a worker's mutex. So `audio_set_volume()` is two steps
(`Start`, `FinishSet`), `audio_request_volume()` too, the workers take and apply.
`vol`, `live`, `slot`, `hand`, `hw` are the variables of the same purpose in the
code; a `wish` is a level with the number of the intent it came from, so that
two requests of the same level can be told apart. `issued` is a history variable:
the newest command. `late` is another: that command is a drag sample of the quick
drawer, fired although a newer wish came before it. A hardware key cancels the
popup's sample and not the drawer's, so the model lets it fire, and `LastWishWins` is
stated for the states without it (section 7). Levels stand for floats; taper and curves are functions from
levels to register values; the register that means silence is kept apart.

### Transport
One playback thread: `pc` says where it is (waiting, opening, at the top of the
loop, in a crossfade, in a pause, writing a chunk, promoting, handing off, cleaning
up). The calls are one action each. `snap` is what the thread read under the mutex
at the top of the loop. Time is chunks. `wish` is a history variable: the last
thing asked for. The device is held or not; opening a file, decoding, seeking and
the output can fail. Live streams, ramps and ReplayGain are left out; the MP3
index is in `Mp3Seek`. `HOST_BUILD` is undefined. A file that does not open leaves the
thread waiting with the device of the track before, and a stop does not wake it
there: `StuckAfterFailedOpen` names these states, and `StopReleasesOutput` excludes them.

### Player
Extends `Transport`: the actions of the LVGL thread are sequences of `Transport`'s
calls, one critical section at a time (`gui` says which is next), so the playback
thread runs between them. `TakeOver` is a stop by AirPlay or a DAC mode from
another thread. Mode Sequential or Repeat All; the other modes are in `Queue`.
`blame` is a history variable: the track the last error was about. `crossed` is
another: it becomes true when the engine hands over to the next track although a
newer request is already waiting, and false with the next request. The model then
does what the code does (section 7); the properties are stated for the other states.
`blocked` says that a Bluetooth or USB DAC mode is on, in which starts and resumes are
refused but not pauses; `refused` is a history variable, true from a refused start to
the next one that is not, and excluded by `UiNotStuck`, because a refused start leaves the
button as it was. While AirPlay has the player stopped, the play button starts the
track again.

### Queue
One record `p` holds the player's data. Handlers run on one thread and are
therefore one step each: a function from the record to the set of records it can
leave, several because `shuffle` draws. The engine is reduced to what `audio.c`
promises: it plays, hands over to `armed`, ends or fails, and says so in flags that
the poll (`update_timer_cb`) takes in the code's order. `Checkpoints` is the content
written by `gui_player_queue_checkpoint()`; the tracks to try after a decoder failed
are a set of plans with a rank each, of which the first is taken; `queue_resume_write_at` and
`queue_resume_read` are the checks of writer and reader; a restart reads back.
`Bytes` is how long a track's path is and `MaxBytes` the reader's limit of 64 MiB for all
paths together. The writer has no such check, so a longer queue is written and then
refused; `SavedQueueIsAccepted` excludes it.

The code lets queue and engine come apart in a few places. There the model does
what the code does and sets the history field `slip`; `slip` is cleared when a
track is started again. `ShownIsPlaying`, `ArmedIsNext` and `SavedQueueIsAccepted`
and the position part of `BagsFit` are stated for the states without it. The
places: a change of mode between a handover and the poll; Prev at the first track,
which drops the queued songs without arming again; a play that DAC mode refuses
after the bag has moved; a handover inside a handler just after its check; a song
inserted at or before the current track, because a deletion left the insertion
index behind; the card going while a track that is not on it plays. They are listed again in
section 7: these are flaws of the program, not of the properties.

### SdReady and Boot
`SdReady` is one action per way a turn of the loop ends; time is poll intervals;
mounting takes any time up to the hard deadline. `Boot` uses what it promises: the
wait ends, with or without a card. Storage in `Boot` is external and modelled by
what fsync promises: unsynced data may be torn and an unsynced directory entry may
be the old one after power loss (`inst` against `instDisk`, `sd` against `sdDisk`).
CRC and size comparisons tell two builds apart, and whole from torn. `owed` is
a history variable: the updates not yet installed durably.

### Settings
`writer[t]` is where the screen thread or the worker is inside
`settings_write_file()`. `settingsDisk` is the set of directory states a power cut
could leave: a rename joins it, a sync leaves only the present one. The writes,
the flush and the fsync may fail unseen, as in the code. `GoDown` is `sync()` and
the end of the process, for car mode, menu, idle timer and factory reset.

### Checkpoint
The LVGL thread runs `gui_player_queue_checkpoint()` as one action (the worker's flags
are atomics it reads once); the worker writes and cleans up in two steps. A queue
is its revision; some are "large and lazy". The flush at power-off is a sequence
of steps because it waits for the worker twice.

### TagcacheCommit and DurableCell
`tcSeen` is the directory as the system sees it, `tcSolid` what was synced last;
after a crash every name whose change was not synced is in either state
(`Survivors`). Many tag files are reduced to one per generation, written anew or
borrowed. `acked` is a history variable: the last update that returned success and
the one it replaced. The mapping to `DurableCell`
takes the pointed generation as the value, and the values of the two possible
pointers as what a crash could leave.

### CardHotplug
A poll is two steps, reading and acting, because the world moves in between; any
one reading may fail. `slot` is the card that is in, `mnt` the one that is mounted.
Assumed of the world (`Noted`): the card mounted at start-up is not swapped before
the first poll has read its CID. Left out, because the code cannot tell such cards
apart: one whose CID was never readable replaced by another with the same device
number between two polls, and FUSE mounts, whose device number is not the card's.

### SdRepair
`where[t]` is where the UI thread or the format thread is in the mount helper;
both can be inside it. `phase` is that of `sd_fsck_run.c`. Cards are remembered in
a list of four entries (`AttemptSlots`); a fifth card is not remembered and is
checked again each time it is found read-only, as in the code. The repair program
opens the device by its name, so a card put in before it does is the one repaired.

### HttpStream and ByteQueue
The pump's steps are its reads and its critical sections, plain or chunked; the
ring has the code's head, tail and fill. `asleep` says who waits on the condition
variable: without a broadcast nobody wakes. `ByteQueue` sees the ring's content,
what was taken and whether it is over.

### HttpRequest
One request with its redirects (`hop`), each with a resolver thread of its own that
may outlive it. `holder` says whose socket a descriptor is, `ctx` and `list` who
owns the resolver's context and answer; other threads open and close sockets. Without
a resolver thread the name is looked up in place (`direct`): that call has no time-out
and looks at no token, so nothing is assumed about its end, and `CancelEnds` excludes
it. A URL that does not parse ends the request at once.

### BtRadio
`cached` is what the tile shows, `radio` the adapter, `link` the audio connection.
Threads: toggle, refresh, automatic worker (`job`), manual action (`manual`); `chip`
is the mutex of the control layer. `overruled` and `unused` are history
variables: the user acted since the worker was started, and the power-on cycles
not yet used for a reconnection. Every call of the worker may fail, the disconnection
with which it undoes its own connection as well; the code does not look at that
result, and `UserOverrulesWorker` excludes the step in which it fails. A forgotten device
cancels the reconnection twice, before the action and, if it succeeded, in the poll that
takes its result (`PollForget`).

### UsbBridge
Bytes are numbered as the host sends them, so that order and loss can be told. A
rate is confirmed or not, which takes the numeric part of `bridge_reader_thread_func`
out and keeps its branches. `ctl` is the thread that calls start and stop, `thread`
where reader and writer are. The writer first waits, up to two seconds, for
the playback thread to be silent, and may then fail to get its buffer (`WriterBegins`).

### ArtworkSlot
Jobs with priorities; the condition variable has a time-out of 50 ms, so a waiting
job simply looks again. Memory and playback change at any time; memory may refuse any
set of jobs, since that depends on each one's size. A decoder that is asked to yield
gives way or comes to its end.

### Mp3Seek
Every region under `audio_mutex` is one step of its thread: a call, the start of
the scan, its delivery, and the long region at the top of the playback loop
(`ReadsCommands`), which collects a result (`Adopts`), takes the newest seek
(`Newest`) and decides to seek, to defer or to ask for a scan (`Decides`).
`request_mp3_seek_index_locked` is a function from the decoder's index and the
deferred fields to the set of what it can leave, since a scan may start, fail to
start or find its table on the card. A table is the file it was made of and how far it
goes: to the end, to a read that failed (`short`: kept and used like a whole one, as in
the code) or to where the scan was cancelled (`cut`). A file may not open, and a decoder
may not take a table. A handover goes through whether or not a request waits, so the
track handed over to and the one asked for may be played under one generation, which
`TakesRestart` reads back; `shared` is a history variable, the newest generation this
happened to, and `IndexSound` excludes the table of a track with it. `owed` is a history variable: the newest target the
playing track owes the user; it is cleared when the seek lands, when the track ends
or fails, and by a stop. A seek made while a request waits (`OnIt`) is not owed before
the request is taken: that it can be lost is said in section 7. The generation the scanning thread looks
at (`mp3_index_active_generation`) changes together with `playback_generation`; the
look may be old, so a cancelled scan may also run to its end.

### Charging
Everything runs on the LVGL thread, so a poll is one step, except that a restart may
come between the capture and the cap. A chip may not answer, and a register that
was written may not be confirmed. `chgDisk` is what a restart may find at
either place of the file. A restart brings any settings (those of the last save, which
are `Settings`' matter), and the chips keep their registers or have their defaults
again. Three ways to lose the default are in the model and excluded by `unlucky`: see
section 7. When a poll is due is left out; it may come at any time.

## 4. The runs

A run lists few properties; several are conjunctions of parts that are defined,
each with its own comment, just before them: `LastWishPrevails` (`LastWishWins`,
`LatestCommandTakesEffect`), `IdleIsQuiet` (`NothingPlayingWhenIdle`,
`PausedMeansReleased`), `PlaybackResolves` (`EveryPlayResolved`, `StopReleasesOutput`),
`WaitIsSound` (`WaitBounded`, `StageIsHighest`), `SettingsKept`
(`TornOnlyByFault`, `SettingsNeverGoBack`, `CarModeOffKeeps`, `SavesReachFile`), `CheckpointKept`
(`LargeQueueStaysDropped`, `WrittenOrKnown`, `FlushKeepsQueue`, `QueueReachesFile`),
`StreamReturns` (`ReadReturns`, `CloseReturns`), `RequestSound` (`CancelHitsOwnSocket`,
`ContextAlive`, `NothingLeaked`), `WorkerObeys` (`UserOverrulesWorker`,
`ManualLinkStands`, `OneWorkerPerCycle`), `BridgeSound` (`RingAlive`, `RingHoldsNewest`,
`RunningIsTrue`), `BridgeReturns` (`PlayedInOrder`, `LifecycleReturns`,
`WriterFollows`), `CoverFirst` (`OneDecoder`, `PendingExact`, `NoInversion`,
`CoverServed`), `RepairEnds` (`CheckedAlone`, `OnceEach`, and that a repair ends),
`ChargeSettles` (`BaselineKept`, and that the registers settle).

| Run | Shows | Bounds |
|---|---|---|
| `volume_commands` | no newest command is lost, the register follows volume and curve, the settled volume is the last wish, the newest command takes effect | 2 levels, one curve, both sliders, 2 intents, 1 route change, 1 failing write (no curve, route change, fault or accessory together with the drawer's slider) |
| `volume_reapply` (violation) | the reapplication at a route change undoes a user's command | as above |
| `transport_commands` | the safety of the engine in every order of calls | 3 tracks (one of another format, one broken), 2 plays, 2 armed tracks, 1 each of seek, pause, stop, fault (a second armed track excludes a fault, and a seek together with a pause) |
| `transport_stop_lost` (violation) | stop, play, stop plays | 2 plays, 2 stops |
| `transport_armed_stale` (violation) | an advance starts a track that is no longer armed | 1 play, 2 armed tracks |
| `player` | blame, display, the interface is not stuck; every play is resolved, a stop releases the device | 3 tracks, one broken; 2 taps, 1 pause, 1 stop, 2 faults; at most three pauses, stops and faults together; one, and no pause, with a second tap; one, and one tap, while a DAC mode is on or has refused a start |
| `queue` | `Queue`: bag, display, armed track, checkpoint and skipping stay in step; `Mp3Seek`: a table serves its file, a seek is kept and settles | lists up to 3, 5 commands, 3 tracks, all modes, a path limit two long paths exceed; 2 files, one of them indexed, 3 plays or handovers, 3 requests, seeks, pauses and stops together, 2 retries |
| `storage` | `Boot`, `SdReady`, `Settings`, `Checkpoint`, `TagcacheCommit`, `CardHotplug`, `SdRepair`: what is kept survives faults, crashes and swaps; a card is checked alone and once | 4 builds, 2 updates, 1 flash; deadlines 2, 5, 8; 3 saves; 3 queues, 2 failing writes, 2 card moves; 4 updates of the database, 2 crashes, 2 faults, 1 damaged file; 2 cards, 5 moves, 1 failing reading; 2 cards, 2 swaps, 1 format, 1 fault |
| `sd_ready_deadline` (violation) | a slow failing mount ends the wait after the hard deadline | deadlines 2, 5, 8 poll intervals, grace 2 |
| `services` | `HttpStream`, `HttpRequest`, `BtRadio`, `UsbBridge`, `ArtworkSlot`, `Charging` | ring 2, pieces 3, 5 bytes; 2 descriptors, 2 addresses, 1 redirect; 2 taps, 1 manual action, 1 sleep, 1 fault; ring 2, packets 3, 3 calls, 1 fault; 4 jobs, 4 acquires, 2 changes; 2 chips, 1 toggle, 1 fault, 1 restart |
| `radio_restore` (violation) | a wake before the suspend's toggle was polled leaves the radio off | 1 sleep |
| `sd_format` (violation) | two threads mount at once after a format | 1 card, 1 format |

Why the bounds are enough for what they are about: two volume commands are the
smallest number of which one can be stale; two generations are enough for one to
be overtaken, and a third play adds no new relation to the two the thread
compares; the queue needs lists of three for an inserted song between two others
and five commands for open, queue, change mode, edit and step; one power loss
reaches every step of an installation, and `BootProofs` has no bound at all. A ring of
two with pieces of three wraps, is filled and takes pushes in part; two
descriptors let one be used again while the request holds the other; four
generations are the smallest number at which a borrowed tag file outlives two
removals; two cards and five moves reach a swap during a scan with a failing
reading. Two generations are enough for a scan to end in a track that is not its own;
the third lets a track play, a request be made and a handover race it, so that two
files share a generation. Two retries tell the last from the one before. A second tap
with a stop reaches the broken file asked for while another track plays;
one restart comes at every step of capture and cap, with or without the settings
changed by it. The bounds are constants of the modules (`Max...`), only in guards, and the
theorems hold for every value of them.

CHECK_DEADLOCK is off where a user who stops giving commands, or an exhausted
bound, leaves nothing to do.

Fairness: weak fairness of the threads that the program keeps running: the
playback thread (`Transport`), the workers and a call already begun (`Volume`), the
LVGL poll timer (`Player`, `Checkpoint`, `CardHotplug`, `BtRadio`, `SdRepair`), the
bootloader's own steps (`Boot`), the worker and a write already begun (`Settings`,
`Checkpoint`), the pump and a read or close already begun (`HttpStream`), a request
already begun, except a name lookup in place (`HttpRequest`), the bridge's threads and a start or stop already
begun (`UsbBridge`), a waiting job, and a decoder that is asked to yield, which then
gives way or ends
(`ArtworkSlot`), the scanning and the playback thread and the passing of the retry
delay (`Mp3Seek`), the polls of every tick (`Charging`; strong for the voltage's, which
does not run in the middle of the other). A library scan ends (strong fairness in `CardHotplug`: polls
interrupt it between its steps, but it comes to its end whatever they do). None is
assumed for users, cards, servers, name servers, accessories or failures.

## 5. What is proved

All theorems are checked by TLAPS for every value of the constants that satisfies
the named assumption of its module (`ConstAssumption`, `TransportAssumption`,
`PlayerAssumption`, `BootAssumption`, `DeadlineAssumption`, `QueueAssumption`,
`BridgeAssumption`, `StreamBounds`, `RequestBounds`, `TagcacheBounds`, `Mp3Bounds`), which
TLC evaluates in the runs. The assumptions say that bounds are natural numbers, that
ring, chunk and packet sizes are not zero, that the three deadlines are in order, that
a descriptor is not the code's -1 and that the lists a user opens are not empty. The
length of lists, the size of the rings, the number of commands, calls, faults and power
cuts are arbitrary.

*Volume.* `TypeCorrect`. `NewestCommandKept`: `LatestCommandNotLost` is not inductive
by itself, since an older job could carry the newest generation number; the
strengthening `CommandsOrdered` says that no command is newer than
`volume_set_generation`, that one of that generation carries the newest wish and
that what the UI is about to queue is newer than what is queued.
`RegisterFollowsVolume`: strengthened by `NoWorkerNoQueue`, because without the
mixer worker the write is made directly.

*Transport.* `TypeCorrect` with the positions inside their tracks.
`GenerationsStayInStep`: the relation between the thread's generation, the newest
one, the queued request and the reported error; `IdleMeansNothingPlays` and
`ErrorsAreSilent` rest on it. `PausesRelease` is inductive by itself; with
`IdleMeansNothingPlays` it gives `WaitsAreQuiet`.

*Player.* `PlayerStaysInStep`: the LVGL thread acts on the engine through its calls
only, so `PlayerSpec` implies the engine's `Spec`, and `TypeOK` and `GenerationsInStep`
come along; above them `PlayerInv` is inductive. `FailureBlamesItsTrack` and
`ShowsWhatPlays` are not by themselves: which track an error is about depends on which
one the engine went on to, that on what was armed and prefetched, and that on what
the user interface knew when it armed it. So `PlayerInv` says, as long as no advance
crossed a request, that the engine plays the current track or, while `track_advanced`
is set, the one that follows it (`HeardIsKnown`); that what is armed or prefetched is
the track that follows, and that there is none until the interface arms it
(`ArmedFollows`); that the interface knows the newest generation, or all but the one
of an advance it has not seen (`GenerationKnown`); and that an error, reported or in
hand, is about the track heard or older than what the interface knows
(`ErrorsBlameHeard`). `FailuresBlameTheirTrack` and `ShownIsHeard` follow. The first
attempt failed at an advance with a request waiting: see section 7.

*Boot.* One inductive invariant, `BootInv`: types; `Progress`, which says what each
step of the installer has made sure of (the temporary file is whole and valid
before the sync, durable before the rename, the update no longer owed before it
is removed from the card); the three properties; and `NoStaleChoice`, which holds
from the choice of the player on. `InstallsAreSound`, `UpdatesAreKept` and
`PackageNotShadowed` follow.

*SdReady* (in `BootProofs`). `WaitIsAlwaysSound`: with its types `WaitIsSound` is
inductive, because a turn of the loop (`TurnEnds`) records the highest stage of what
it saw and compares the time it read with every deadline before it goes on.

*HttpRequest.* `RequestIsSound`. `RequestInv` says, for each place of the requesting
thread, what its socket and the resolver of its hop are (`PlaceFits`), and that the
resolvers of earlier hops are left and those of later ones fresh (`HopsInOrder`).
`NothingLeaked` and `ContextAlive` need the first, since an abandoned thread goes on
alone with context and list; `CancelHitsOwnSocket` needs `TokenIsOwn`: the token
never keeps a number that was closed.

*HttpStream* (in `HttpProofs`). `StreamIsQueue`: the stream implements `ByteQueue`, every
push being an `Enqueue`, every read a `Take` and the pump's end the `Finish`. The
invariant, `StreamInv`, says that the bytes given to the decoder, those in the ring from
tail to head and those in the pump's hand follow each other and are all that was drawn
from the socket (`InSequence`); that nobody is about to move nothing (`NeverIdle`); and
that the end is declared as the pump leaves, so that nothing is pushed after it.
`StoreEffect` and `TakeEffect` are what a push and a read do around the end of the ring.

*TagcacheCommit.* `ReplacedIsKept`, and `DatabaseIsCell`: the database implements
`DurableCell`. `TagcacheInv` adds to what is to be shown that every generation that
something refers to (the pointer as seen and as synced, the loaded one, the one an
update replaced) is loadable, that what is loadable is on the card for sure, unless it
is just being written, and that the new generation is newer than all of these and
its tag file borrowed by none of them (`NewIsApart`), so that an undone commit, and
the removal of older files, hurt nobody. It holds until a file is damaged
(`damage = 0`); what a crash leaves is any mixture of the seen and the synced
directory (`SurvivorFacts`). For the refinement, `CellIsPointer`: the
cell's value is the pointer, and what a crash could leave is the seen or the synced
one; writing the pointer then publishes, syncing settles and a power cut crashes the
cell, and every other step leaves both pointers alone.

*Mp3Seek.* `IndexIsSound` and `SeekIsKept`, from one invariant, `SeekInv`: scans and
deferred targets belong to the playing track or an earlier one
(`GenerationsInOrder`), at most one scan runs or waits to be collected (`OneScan`), a
result of the playing generation is of the playing file, unless two files share that
generation (`JobFits`), and the target
that is owed is where the thread's place says (`OwedIsThere`): the command, the
thread's own hands or the deferred fields. The lemmas follow one target through the
long region at the top of the loop: `AdoptsKeeps`, `RequestedKeeps`, `DecidesKeeps`.

*UsbBridge.* `BridgeIsSound` and `PlaysInOrder`. `BridgeInv`: threads and the flags
`created` and `running` agree and the ring is there as long as one of them is
(`OwnersLive`); the ring holds the newest bytes in a row from its tail on, whatever
has wrapped (`RingFits`); and played bytes, the writer's chunk, the ring and the
packet being pushed follow each other (`InOrder`). `PushHolds` and `WithoutHolds` are the
two lemmas about the ring: a push that overwrites the oldest bytes, also one longer than
the ring, and a removal from the tail keep it in that form.

*Queue.* `QueueIsInStep`: one inductive invariant, `QueueInv`, for lists of any length.
It says that the continuation of a bag is as long as the bag (`Paired`), that nothing
plays while an end or a failure waits for the poll (`Reported`), that a bag that fits
stands at the current track (`BagInStep`), and that what plays is the current track and
what is armed the next one, or that the engine has gone on to exactly that one
(`InStep`). `ArmedIsNext` alone is not inductive: which track is next depends on a bag
that may still have to be drawn, so `InStep` adds that whenever something plays nothing
is left to prepare (`Named`) and that the bag stands where the code's search from the
start would put it (`Ready`). The lemmas follow the code: drawing and moving the bag
(`EnsureSound`, `PreparedSound`, `MovedToCurrent`), arming (`Arms`, `ArmsInStep`),
catching up with a handover (`CatchesUp`), inserting into list and bag (`Inserts`,
`BagGrows`), writing the bag out as a list (`Materializes`), removing and moving an
entry (`EntryGoes`, `EntryMoves`), choosing what to try after a failure
(`CandidatesFit`, `SkipsFailed`), and one lemma per handler. `BagsAlwaysFit`,
`ShownAlwaysPlays`, `ArmedAlwaysNext` and `SavedIsAlwaysAccepted` (for queues within the
reader's limit of path bytes) follow from `QueueInv`;
`FailedIsNeverRetried` from the same step lemmas, each of which also says which tracks
the step may start. The first attempt failed at adding a song with a stale insertion
index: see section 7.

## 6. What is only model-checked

Liveness (`LatestCommandTakesEffect`, `EveryPlayResolved`, `StopReleasesOutput`,
`UiNotStuck`, `SeekSettles`, `EveryBootRuns` and the temporal properties of `storage` and
`services` that are not invariants or step properties): out of the prover's reach.
Not proved yet: `LastWishWins`; the step properties of
`Transport` and `CardHotplug`; `Settings`, `Checkpoint`, `SdRepair`, `BtRadio`,
`ArtworkSlot`, `Charging`.

## 7. Where the code does not do what it says, or what one would expect

Shown by a violation run and listed under `findings`: a user's volume lost at a
route change; a stop lost when a play came before it; a track that takes over
although another is armed; a wait that ends after the hard deadline; a Bluetooth
radio that stays off after a quick wake; a format that mounts the card beside the
poll.

Seen in the models, without a run of their own:

- `track_finished` and `track_advanced` carry no generation: an end or advance
  reported just after a new request is taken for that request's. An advance can even
  be made after it: a play request leaves `next_track_generation` alone, so a
  crossfade or gapless handover that is under way goes through (`audio.c:2966`, 3141,
  3357) with the request still waiting. The poll then steps past the track the user
  asked for: the player shows another track than plays, may skip a track for the
  failure of another, and the play button may stay on (`crossed` in `Player`).
- In the same handover the engine has taken one generation more than the request was
  given, and the request is then played under it (`audio.c:1944`). A scan started for
  the track handed over to carries that generation, and line 2149 adopts its table for
  the other file (`shared` in `Mp3Seek`).
- A seek for a track about to start can be dropped by the one about to end, whose loop
  clears the pending seek (`audio.c:2198`).
- A file that fails to open leaves the device open from the track before
  (`audio.c:1951-1959`); a later stop does not wake the wait at line 1935 and so does not
  close it (`StuckAfterFailedOpen` in `Transport`).
- A scan that meets a read error saves what it has as a complete table
  (`audio.c:1064-1077`); seeks behind its end then use the short table, also after a
  restart.
- In a DAC mode the start of the next track after an end is refused
  (`gui_player.c:3788-3792`) and the play button goes on showing a playing track
  (`refused` in `Player`).
- `queue_resume_read()` refuses paths of more than 64 MiB together
  (`queue_resume.c:116`), which the writer does not check: such a queue is saved without
  an error and lost at the next start.
- The reconnection worker does not look at the result of the disconnection with which
  it undoes a connection the user has overruled (`bluetooth_control.c:1583`); when the
  call fails or times out, the connection stays.
- The stop by AirPlay does not clear `track_finished`: the poll may start the next
  track.
- The USB gain is not set again after a pause, a volume change and a resume.
- The results of the writes, the flush and the fsync of the settings are not looked
  at: a full storage replaces good settings by a torn file (`TornOnlyByFault` is
  stated for runs without a failing call).
- A factory reset does not stop the save worker: a copy in its hands comes back
  after the removal (`ResetForgetsSettings` in `Settings` states what `settings.h:391`
  promises; it fails).
- The flush of the queue at power-off joins a running worker and forgets it before
  its failure could be seen (`FlushRetries` in `Checkpoint` fails;
  `FlushKeepsQueue` excludes this case).
- `http_stream_close()` shuts a descriptor down after it released the mutex under
  which it read it (`ClosesOwnSocket` in `HttpStream` fails).
- A query of the Bluetooth state that fails ends the power-on cycle, so a second
  automatic reconnection may follow (`OneWorkerPerCycle` excludes it).
- `charge_limiter.c:128` takes a baseline that does not open for one that is missing, and
  captures the capped current as the default; a directory sync that fails after the
  save (line 170) is not noticed either, and a good file that opens but does not read is
  removed (lines 135-144) and captured anew in the same way (`unlucky` in `Charging`). From reading only:
  line 144 does the same to a file of an older version while the chips are capped.
- While playback is paused, a scan that fails with a seek waiting is not retried before
  the user resumes: nothing wakes the thread when the delay is over (`RetrySleeps`
  in `Mp3Seek`).
- From reading only: `mp3_seek_cache_save()` takes size and time of the file after the
  scan, so a file replaced during the scan gets the table of the old one.
- A hardware key does not cancel a drag sample pending in the quick drawer
  (`gui_player.c:5749-5751` cancels the popup's only): the older wish is applied last
  (`late` in `Volume`).
- A change of play mode between a handover and the poll makes the poll commit
  another track than the one that plays (`gui_player.c` 3277-3280 says it is
  "guaranteed to be the same track").
- Deleting the current song leaves `queued_pending_count` as it is; near the end
  of the list every checkpoint is then refused and the interface reports that the
  storage may be read-only.
- It leaves `queue_next_insert_index` as it is, too (`gui_player.c:1932`). A song added
  to the queue later can then be put at or before the place of the current track,
  not "right after whatever was queued last" (`gui_player.c` 3590-3597): the index
  points at another song than the one that plays, and the engine is given the
  playing one as the next. The shortest way there takes a list of five and eight
  steps; the proof of `QueueIsInStep` led to it.
- Prev at the first track drops the queued songs, but the engine still hands over
  to the first of them.
- A play refused in a DAC mode leaves bag and counter moved; the checkpoint made
  then is not readable.
- A song added outside Shuffle, with a bag left from an earlier Shuffle, is put
  at the bag's old position; after switching to Shuffle it is not next.
- When the card goes while a track from elsewhere plays, the music goes on
  under "No track loaded".
- The error of a track that took over is dropped when the queue has no next one.
- An installed player that crashes at start is started again at every boot; with
  an unstamped player at the new path and an older one at the legacy path, two
  boots in a row run different players.

## 8. Not modelled, and why

Failed allocations and failed thread creation (except where the code has a path of
its own for it: `Volume`, `Settings`, `HttpRequest`, `BtRadio`, `UsbBridge`, `SdRepair`,
`Mp3Seek`);
rows kept lazily on disk in long queues, which change where a path is stored and not
which one it is; `queue_remove_song_at_offset()` and `gui_player_queue_clear()`, which
nothing calls; drawing, wording and logging; the data path of decoders, filters
and images; protocols of external services. The components of `PROJECT.json` say
for each part what is left out.

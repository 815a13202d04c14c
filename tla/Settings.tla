------------------------------ MODULE Settings ------------------------------
(***************************************************************************)
(* The settings file (core/settings.c) and the ways the device goes down.  *)
(*                                                                         *)
(* The screen thread asks for saves: settings_save() writes the file       *)
(* itself, settings_save_async() leaves a copy for one worker that         *)
(* coalesces.  Both writers fill the same temporary file and rename it     *)
(* over the settings file, one at a time under settings_write_mutex; a     *)
(* generation keeps an older queued copy from landing after a newer save.  *)
(*                                                                         *)
(* The contents of a file are abstracted to the number of the save they    *)
(* come from and whether they are whole.  settingsDisk holds every pair of *)
(* files a power cut could leave: a rename joins it, a sync of the         *)
(* directory (or of everything) leaves only the present one.               *)
(***************************************************************************)
EXTENDS Naturals

CONSTANTS MaxSaves,     \* saves asked for over the whole life
          MaxIoFaults,  \* failing calls of the file system
          MaxPowerCuts, \* power cuts
          MaxOffs       \* orderly power-offs, reboots and resets

ASSUME SettingsBounds == {MaxSaves, MaxIoFaults, MaxPowerCuts, MaxOffs} \subseteq Nat

VARIABLES
    asked,          \* number of the last save asked for (the content of current_settings)
    saveGeneration, \* settings_save_generation
    queuedSave,     \* settings_queued_snapshot and settings_queued_generation
    savePending,    \* settings_save_pending
    saveWorker,     \* the worker: not started ("none"), failed to start, or running
    writer,         \* where each of the two writers is, and the copy it holds
    writeMutex,     \* holder of settings_write_mutex
    settingsTmp,    \* the temporary file
    settingsDir,    \* the settings file, and that of earlier versions, as the system sees them
    settingsDisk,   \* what they could be after a power cut
    device,         \* "on", "off", or how it is going down
    loaded,         \* what settings_load() found at the last start
    ioFaults, cuts, offs

settingsVars == <<asked, saveGeneration, queuedSave, savePending, saveWorker, writer,
                  writeMutex, settingsTmp, settingsDir, settingsDisk, device, loaded,
                  ioFaults, cuts, offs>>

Writers == {"screen", "worker"}
Contents == [v : 0..MaxSaves + 1, whole : BOOLEAN]
NoSettings == [v |-> 0, whole |-> TRUE]
Names == [file : Contents, legacy : Contents]
WholeSettings(v) == [v |-> v, whole |-> TRUE]

\* The screen thread rests at "idle", the worker waits at "idle" for a save.
WriterStates == {"idle", "lock", "open", "fill", "rename", "syncdir"}
AtRest == [pc |-> "idle", v |-> 0, gen |-> 0]

SettingsTypeOK ==
    /\ asked \in 1..MaxSaves + 1
    /\ saveGeneration \in 0..MaxSaves
    /\ queuedSave \in [v : 0..MaxSaves + 1, gen : 0..MaxSaves]
    /\ savePending \in BOOLEAN
    /\ saveWorker \in {"none", "failed", "running"}
    /\ writer \in [Writers -> [pc : WriterStates, v : 0..MaxSaves + 1, gen : 0..MaxSaves]]
    /\ writeMutex \in Writers \cup {"free"}
    /\ {settingsTmp, loaded} \subseteq Contents
    /\ settingsDir \in Names /\ settingsDisk \subseteq Names
    /\ device \in {"on", "carOff", "reset", "off", "resetOff"}
    /\ ioFaults \in 0..MaxIoFaults /\ cuts \in 0..MaxPowerCuts /\ offs \in 0..MaxOffs

\* A first start: nothing saved yet, or the file of an earlier version (save 1).
SettingsInit ==
    /\ asked = 1 /\ saveGeneration = 0
    /\ queuedSave = [v |-> 0, gen |-> 0] /\ savePending = FALSE /\ saveWorker = "none"
    /\ writer = [t \in Writers |-> AtRest] /\ writeMutex = "free"
    /\ settingsTmp = NoSettings
    /\ settingsDir \in {[file |-> NoSettings, legacy |-> c] : c \in {NoSettings, WholeSettings(1)}}
    /\ settingsDisk = {settingsDir}
    /\ device = "off" /\ loaded = NoSettings
    /\ ioFaults = 0 /\ cuts = 0 /\ offs = 0

IoFault == ioFaults < MaxIoFaults /\ ioFaults' = ioFaults + 1

----------------------------------------------------------------------------
\* The screen thread

ScreenFree == device = "on" /\ writer["screen"].pc = "idle"

\* settings_save(): waits for the write mutex with the copy it was given.
SaveBegins ==
    /\ asked <= MaxSaves
    /\ asked' = asked + 1
    /\ writer' = [writer EXCEPT !["screen"] = [pc |-> "lock", v |-> asked + 1, gen |-> 0]]

Save ==
    /\ ScreenFree
    /\ SaveBegins
    /\ UNCHANGED <<saveGeneration, queuedSave, savePending, saveWorker, writeMutex, settingsTmp,
                   settingsDir, settingsDisk, device, loaded, ioFaults, cuts, offs>>

\* Car mode, when the external power goes: a synchronous save, then power-off.
CarModeOff ==
    /\ ScreenFree
    /\ offs < MaxOffs
    /\ SaveBegins
    /\ device' = "carOff" /\ offs' = offs + 1
    /\ UNCHANGED <<saveGeneration, queuedSave, savePending, saveWorker, writeMutex, settingsTmp,
                   settingsDir, settingsDisk, loaded, ioFaults, cuts>>

\* The first call starts the worker; without a worker every call saves at once.
SaveAsync ==
    /\ ScreenFree
    /\ \/ /\ saveWorker = "none"
          /\ \/ saveWorker' = "running" /\ UNCHANGED ioFaults
             \/ saveWorker' = "failed" /\ IoFault
       \/ saveWorker # "none" /\ UNCHANGED <<saveWorker, ioFaults>>
    /\ \/ /\ saveWorker' = "failed"
          /\ SaveBegins
          /\ UNCHANGED <<saveGeneration, queuedSave, savePending>>
       \/ /\ saveWorker' = "running"
          /\ asked <= MaxSaves
          /\ asked' = asked + 1
          /\ saveGeneration' = saveGeneration + 1
          /\ queuedSave' = [v |-> asked + 1, gen |-> saveGeneration + 1]
          /\ savePending' = TRUE
          /\ UNCHANGED writer
    /\ UNCHANGED <<writeMutex, settingsTmp, settingsDir, settingsDisk, device, loaded, cuts, offs>>

\* sync() and the end of the process: only what is on the storage remains.
GoDown(how) ==
    /\ device' = how
    /\ settingsDisk' = {settingsDir}
    /\ savePending' = FALSE /\ queuedSave' = [v |-> 0, gen |-> 0] /\ saveGeneration' = 0
    /\ writer' = [t \in Writers |-> AtRest] /\ writeMutex' = "free"
    /\ saveWorker' = "none"
    /\ UNCHANGED <<asked, settingsTmp, settingsDir, loaded, ioFaults, cuts>>

\* The power and reboot entries of the menu, and the idle timer: no save.
IdleShutdownNow ==
    /\ ScreenFree
    /\ offs < MaxOffs /\ offs' = offs + 1
    /\ GoDown("off")

\* The power-off that car mode does once its save has returned.
CarModeOffNow ==
    /\ device = "carOff" /\ writer["screen"].pc = "idle"
    /\ GoDown("off")
    /\ UNCHANGED offs

\* settings_factory_reset(): everything but the card's mount point is removed ...
FactoryResetWipes ==
    /\ ScreenFree
    /\ offs < MaxOffs /\ offs' = offs + 1
    /\ device' = "reset"
    /\ settingsTmp' = NoSettings
    /\ settingsDir' = [file |-> NoSettings, legacy |-> NoSettings]
    /\ settingsDisk' = settingsDisk \cup {settingsDir'}
    /\ UNCHANGED <<asked, saveGeneration, queuedSave, savePending, saveWorker, writer, writeMutex,
                   loaded, ioFaults, cuts>>

\* ... then sync() and reboot(2).
FactoryResetReboots ==
    /\ device = "reset"
    /\ GoDown("resetOff")
    /\ UNCHANGED offs

----------------------------------------------------------------------------
\* The worker

\* settings_worker_main() takes the newest copy and its generation.
WorkerTakes ==
    /\ saveWorker = "running" /\ writer["worker"].pc = "idle"
    /\ savePending
    /\ savePending' = FALSE
    /\ writer' = [writer EXCEPT !["worker"] =
                     [pc |-> "lock", v |-> queuedSave.v, gen |-> queuedSave.gen]]
    /\ UNCHANGED <<asked, saveGeneration, queuedSave, saveWorker, writeMutex, settingsTmp,
                   settingsDir, settingsDisk, device, loaded, ioFaults, cuts, offs>>

\* Mutant: the comparison is not made.
GenerationUnchecked(gen) == TRUE

GenerationCurrent(gen) == gen = saveGeneration

\* With the write mutex, a save takes a new generation and writes; the worker
\* writes only if nothing newer was asked for since it took its copy.
Locks(t) ==
    /\ writer[t].pc = "lock" /\ writeMutex = "free"
    /\ \/ /\ t = "screen"
          /\ saveGeneration' = saveGeneration + 1
          /\ writer' = [writer EXCEPT ![t].pc = "open"]
          /\ writeMutex' = t
       \/ /\ t = "worker" /\ UNCHANGED saveGeneration
          /\ \/ /\ GenerationCurrent(writer[t].gen)
                /\ writer' = [writer EXCEPT ![t].pc = "open"]
                /\ writeMutex' = t
             \/ /\ ~GenerationCurrent(writer[t].gen)
                /\ writer' = [writer EXCEPT ![t] = AtRest]
                /\ UNCHANGED writeMutex
    /\ UNCHANGED <<asked, queuedSave, savePending, saveWorker, settingsTmp, settingsDir,
                   settingsDisk, device, loaded, ioFaults, cuts, offs>>

----------------------------------------------------------------------------
\* settings_write_file()

Moves(t, pc) == writer' = [writer EXCEPT ![t].pc = pc]
WriteEnds(t) == writer' = [writer EXCEPT ![t] = AtRest] /\ writeMutex' = "free"
WriterLeaves == UNCHANGED <<asked, saveGeneration, queuedSave, savePending, saveWorker,
                            device, loaded, cuts, offs>>

\* The temporary file is emptied; when it cannot be opened the save is given up.
OpensTmp(t) ==
    /\ writer[t].pc = "open"
    /\ \/ /\ settingsTmp' = [v |-> writer[t].v, whole |-> FALSE]
          /\ Moves(t, "fill")
          /\ UNCHANGED <<writeMutex, ioFaults>>
       \/ IoFault /\ WriteEnds(t) /\ UNCHANGED settingsTmp
    /\ WriterLeaves /\ UNCHANGED <<settingsDir, settingsDisk>>

\* The lines, the flush and the fsync: no result is looked at, so a full or
\* failing storage leaves the file short and the writer goes on.  A temporary
\* file that another writer emptied meanwhile is a mixture; one that a reset
\* removed is written without a name.
FillsTmp(t) ==
    /\ writer[t].pc = "fill"
    /\ \E ok \in BOOLEAN :
         /\ IF ok THEN UNCHANGED ioFaults ELSE IoFault
         /\ settingsTmp' = IF settingsTmp = NoSettings THEN NoSettings
                           ELSE [v |-> writer[t].v, whole |-> ok /\ settingsTmp.v = writer[t].v]
    /\ Moves(t, "rename")
    /\ WriterLeaves /\ UNCHANGED <<writeMutex, settingsDir, settingsDisk>>

RenamesTmp(t) ==
    /\ writer[t].pc = "rename"
    /\ \/ /\ settingsTmp # NoSettings
          /\ settingsDir' = [settingsDir EXCEPT !.file = settingsTmp]
          /\ settingsDisk' = settingsDisk \cup {settingsDir'}
          /\ settingsTmp' = NoSettings
          /\ UNCHANGED ioFaults
       \/ /\ IF settingsTmp = NoSettings THEN UNCHANGED ioFaults ELSE IoFault
          /\ UNCHANGED <<settingsDir, settingsDisk, settingsTmp>>
    /\ Moves(t, "syncdir")
    /\ WriterLeaves /\ UNCHANGED writeMutex

\* fsync_settings_dir() says nothing when it fails; the mutex is released.
SyncsDir(t) ==
    /\ writer[t].pc = "syncdir"
    /\ \/ settingsDisk' = {settingsDir} /\ UNCHANGED ioFaults
       \/ IoFault /\ UNCHANGED settingsDisk
    /\ WriteEnds(t)
    /\ WriterLeaves /\ UNCHANGED <<settingsTmp, settingsDir>>

WriterStep(t) ==
    Locks(t) \/ OpensTmp(t) \/ FillsTmp(t) \/ RenamesTmp(t) \/ SyncsDir(t)

----------------------------------------------------------------------------
\* Power cuts and the next start

\* One of the states of the two names that the storage may hold comes back.
PowerCut ==
    /\ device \notin {"off", "resetOff"} /\ cuts < MaxPowerCuts
    /\ \E d \in settingsDisk : settingsDir' = d /\ settingsDisk' = {d}
    /\ cuts' = cuts + 1
    /\ device' = "off"
    /\ savePending' = FALSE /\ queuedSave' = [v |-> 0, gen |-> 0] /\ saveGeneration' = 0
    /\ writer' = [t \in Writers |-> AtRest] /\ writeMutex' = "free" /\ saveWorker' = "none"
    /\ UNCHANGED <<asked, settingsTmp, loaded, ioFaults, offs>>

MoveNeeded == settingsDir.legacy # NoSettings /\ settingsDir.file = NoSettings

\* storage_migrate_internal_data() moves an old file to the new place, then
\* settings_load() reads the new place, the old one, or falls back to defaults.
BootLoads ==
    /\ device \in {"off", "resetOff"}
    /\ device' = "on"
    /\ \/ /\ MoveNeeded
          /\ settingsDir' = [file |-> settingsDir.legacy, legacy |-> NoSettings]
          /\ settingsDisk' = settingsDisk \cup {settingsDir'}
          /\ UNCHANGED ioFaults
       \/ /\ IF MoveNeeded THEN IoFault ELSE UNCHANGED ioFaults
          /\ UNCHANGED <<settingsDir, settingsDisk>>
    /\ loaded' = IF settingsDir'.file # NoSettings THEN settingsDir'.file ELSE settingsDir'.legacy
    /\ UNCHANGED <<asked, saveGeneration, queuedSave, savePending, saveWorker, writer, writeMutex,
                   settingsTmp, cuts, offs>>

SettingsNext ==
    \/ Save \/ SaveAsync \/ CarModeOff \/ CarModeOffNow \/ IdleShutdownNow
    \/ FactoryResetWipes \/ FactoryResetReboots
    \/ WorkerTakes \/ \E t \in Writers : WriterStep(t)
    \/ PowerCut \/ BootLoads

SettingsSpec == SettingsInit /\ [][SettingsNext]_settingsVars

\* The worker runs until the process ends; the screen thread does not leave a
\* save, a shutdown or a reset half done.
SettingsFairness ==
    /\ WF_settingsVars(WorkerTakes)
    /\ \A t \in Writers : WF_settingsVars(WriterStep(t))

SettingsFairSpec == SettingsSpec /\ SettingsFairness

----------------------------------------------------------------------------
\* Properties

\* Every content the settings file has or could have after a power cut.
Exposed == {d.file : d \in settingsDisk \cup {settingsDir}}

\* A power cut at any step of either writer leaves a whole settings file (the
\* one before or the one after): a torn one needs a file-system call that
\* failed without the code looking at its result.
TornOnlyByFault == (\E c \in Exposed : ~c.whole) => ioFaults > 0

\* A save that finds the worker holding an older copy is never overwritten by
\* it: while the device runs, the settings file only moves on to newer saves.
SettingsNeverGoBack ==
    [][device = "on" /\ device' = "on" => settingsDir'.file.v >= settingsDir.file.v]_settingsVars

\* Car mode's power-off, whatever the worker was doing, leaves the position
\* it saved just before as what the next start loads.
CarModeOffKeeps ==
    [][device = "carOff" /\ cuts' = cuts /\ ioFaults = 0 /\ device' = "off" =>
         settingsDisk' = {settingsDir'} /\ settingsDir'.file = WholeSettings(asked)]_settingsVars

\* No save is left in the queue or half way: when no more come, the last one
\* reaches the file, unless the device goes down or a call fails first.
SavesReachFile ==
    <>[](device = "on" /\ ioFaults = 0 /\ cuts = 0 /\ offs = 0 /\ asked > 1 =>
           settingsDir.file = WholeSettings(asked))

\* settings.h:391 "wipes all configuration files and data [...] then reboots
\* into default settings": the start after a reset finds no settings.
ResetForgetsSettings == device = "resetOff" => settingsDir.file = NoSettings

\* The worker's copies and the synchronous saves together: the file is whole
\* and the newest one wins, while the device runs, through a power-off in car
\* mode, and in the end.
SettingsKept == []TornOnlyByFault /\ SettingsNeverGoBack /\ CarModeOffKeeps /\ SavesReachFile
=============================================================================

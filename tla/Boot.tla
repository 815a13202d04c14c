-------------------------------- MODULE Boot --------------------------------
(***************************************************************************)
(* The bootloader: every boot waits for the SD card, installs an update it *)
(* finds there into internal storage (bootloader/installer.c), chooses     *)
(* between the packaged player and the installed ones, and runs it under   *)
(* supervision (bootloader/main.c).  Power may go at any step.  The wait is*)
(* module SdReady; all it promises is used here: it ends, with the card    *)
(* mounted or not.                                                         *)
(*                                                                         *)
(* Storage (external) is modelled by what fsync promises.  A file whose    *)
(* data was not synced may be torn after power loss; a directory entry that*)
(* was not synced may be the old one again.  A file is the build it holds, *)
(* whole or torn; CRC and size tell two builds, and whole from torn.       *)
(***************************************************************************)
EXTENDS Naturals

CONSTANTS
    Builds,      \* player binaries
    NoBuild,     \* no file
    Valid,       \* the builds validate_player_elf() accepts
    Stamp,       \* the build stamp embedded in a build, 0 for none
    MaxUpdates,  \* bound: updates the user puts on the card
    MaxFlashes,  \* bound: firmware images flashed
    MaxFaults,   \* bound: failing system calls
    MaxCrashes   \* bound: power losses

ASSUME BootAssumption ==
    /\ NoBuild \notin Builds
    /\ Valid \subseteq Builds
    /\ Stamp \in [Builds -> Nat]
    /\ {MaxUpdates, MaxFlashes, MaxFaults, MaxCrashes} \subseteq Nat

Paths == {"new", "legacy"}   \* compas_player and open_hiby_player, installed or on the card
NoFile == [build |-> NoBuild, whole |-> FALSE]
File == [build : Builds, whole : BOOLEAN] \cup {NoFile}
Whole(b) == [build |-> b, whole |-> TRUE]
Torn(b) == [build |-> b, whole |-> FALSE]

VARIABLES
    at,         \* where the bootloader is
    packaged,   \* INTERNAL_PLAYER_PATH, in the read-only image
    inst,       \* per path, the installed player as the running system sees it
    instDisk,   \* and as it would be after power loss
    tmp,        \* INSTALL_TMP_PATH
    unsynced,   \* the files, "tmp" or the installed "new" one, with unsynced data
    sd,         \* per path, the update on the card; and after power loss
    sdDisk,
    source,     \* scan.sd_update_path, "none" without an update
    unread,     \* the players whose build stamp could not be read
    booted,     \* the build chosen, then running
    owed,       \* history: updates given and neither installed for good nor replaced
    updates, flashes, faults, crashes

storage == <<packaged, inst, instDisk, tmp, unsynced, sd, sdDisk>>
bounds == <<updates, flashes, crashes>>
bootVars == <<at, storage, source, unread, booted, owed, updates, flashes,
              faults, crashes>>

BootInit ==
    /\ at = "off"
    /\ packaged \in Valid
    /\ inst \in [Paths -> {Whole(b) : b \in Valid} \cup {NoFile}]
    /\ instDisk = inst
    /\ tmp = NoFile /\ unsynced = {}
    /\ sd = [p \in Paths |-> NoBuild] /\ sdDisk = sd
    /\ source = "none" /\ unread = {} /\ booted = NoBuild /\ owed = {}
    /\ updates = 0 /\ flashes = 0 /\ faults = 0 /\ crashes = 0

Ok == UNCHANGED faults
Fault == faults < MaxFaults /\ faults' = faults + 1

-----------------------------------------------------------------------------
(***************************************************************************)
(* Between boots.                                                          *)
(***************************************************************************)

\* The user copies an update onto the card, over the one at the same place.
PutUpdate(b, p) ==
    /\ at = "off" /\ updates < MaxUpdates
    /\ updates' = updates + 1
    /\ sd' = [sd EXCEPT ![p] = b] /\ sdDisk' = sd'
    /\ owed' = (owed \ {sd[p]}) \cup {b}
    /\ UNCHANGED <<at, packaged, inst, instDisk, tmp, unsynced, source, unread, booted,
                   flashes, faults, crashes>>

FlashFirmware(b) ==
    /\ at = "off" /\ flashes < MaxFlashes
    /\ flashes' = flashes + 1
    /\ packaged' = b
    /\ UNCHANGED <<at, inst, instDisk, tmp, unsynced, sd, sdDisk, source, unread, booted,
                   owed, updates, faults, crashes>>

PowerOn ==
    /\ at = "off"
    /\ at' = "wait"
    /\ UNCHANGED <<storage, source, unread, booted, owed, faults, bounds>>

-----------------------------------------------------------------------------
(***************************************************************************)
(* A boot: scanner_scan().                                                 *)
(***************************************************************************)
HasUpdate == \E p \in Paths : sd[p] # NoBuild

\* The new path is preferred.
scanner_scan(mounted) ==
    /\ at = "wait"
    /\ source' = IF ~mounted \/ ~HasUpdate THEN "none"
                 ELSE IF sd["new"] # NoBuild THEN "new" ELSE "legacy"
    /\ at' = IF source' = "none" THEN "select" ELSE "check"
    /\ UNCHANGED <<storage, unread, booted, owed, faults, bounds>>

(***************************************************************************)
(* installer_run(): one step per change of storage.                        *)
(***************************************************************************)
Same == inst["new"] = Whole(sd[source])

\* Nothing but the place changes.
GoTo(place) ==
    /\ at' = place
    /\ UNCHANGED <<storage, source, unread, booted, owed, bounds>>

\* An unreadable update is left for a later boot; one that is installed
\* already needs only its clean-up, if the installed file can be read.
CheckUpdate ==
    /\ at = "check"
    /\ \/ GoTo(IF Same THEN "sync dir" ELSE "copy") /\ Ok
       \/ GoTo("select") /\ Fault
       \/ Same /\ GoTo("copy") /\ Fault

\* statvfs() fails or space is short, after a leftover was removed; else the
\* copy starts to fill the file.
CopyStart ==
    /\ at = "copy"
    /\ \/ tmp' = NoFile /\ at' = "select" /\ Fault
       \/ tmp' = Torn(sd[source]) /\ at' = "copying" /\ Ok
    /\ unsynced' = IF tmp' = NoFile THEN unsynced \ {"tmp"} ELSE unsynced \cup {"tmp"}
    /\ UNCHANGED <<packaged, inst, instDisk, sd, sdDisk, source, unread, booted, owed,
                   bounds>>

\* Headers and segment bounds say nothing of the bytes of a segment.
validate_player_elf(f) == f.build \in Valid

DropTmp ==
    /\ tmp' = NoFile /\ unsynced' = unsynced \ {"tmp"}
    /\ at' = "select"

\* The copy ends whole, unnoticed short or damaged, or in an error.
CopyEnd ==
    /\ at = "copying"
    /\ \/ tmp' = Whole(sd[source]) /\ UNCHANGED unsynced /\ at' = "verify" /\ Ok
       \/ UNCHANGED <<tmp, unsynced>> /\ at' = "verify" /\ Fault
       \/ DropTmp /\ Fault
    /\ UNCHANGED <<packaged, inst, instDisk, sd, sdDisk, source, unread, booted, owed,
                   bounds>>

\* Mutant: the copy is not compared with the update.
VerifyOnlyElf ==
    /\ at = "verify"
    /\ \/ validate_player_elf(tmp) /\ UNCHANGED <<tmp, unsynced>> /\ at' = "sync" /\ Ok
       \/ ~validate_player_elf(tmp) /\ DropTmp /\ Ok
       \/ DropTmp /\ Fault
    /\ UNCHANGED <<packaged, inst, instDisk, sd, sdDisk, source, unread, booted, owed,
                   bounds>>

\* Mutant: a copy that fails its check is made again.
VerifyRetries ==
    LET good == tmp = Whole(sd[source]) /\ validate_player_elf(tmp) IN
    /\ at = "verify"
    /\ \/ good /\ at' = "sync" /\ Ok
       \/ ~good /\ at' = "copy" /\ Ok
    /\ UNCHANGED <<storage, source, unread, booted, owed, bounds>>

\* CRC and size against the update, then validate_player_elf(), then chmod().
Verify ==
    LET good == tmp = Whole(sd[source]) /\ validate_player_elf(tmp) IN
    /\ at = "verify"
    /\ \/ good /\ UNCHANGED <<tmp, unsynced>> /\ at' = "sync" /\ Ok
       \/ ~good /\ DropTmp /\ Ok
       \/ good /\ DropTmp /\ Fault
    /\ UNCHANGED <<packaged, inst, instDisk, sd, sdDisk, source, unread, booted, owed,
                   bounds>>

\* Mutant: the data of the copy is not synced.
SyncTmpSkipped ==
    /\ at = "sync"
    /\ \/ at' = "rename" /\ UNCHANGED <<tmp, unsynced>> /\ Ok
       \/ DropTmp /\ Fault
    /\ UNCHANGED <<packaged, inst, instDisk, sd, sdDisk, source, unread, booted, owed,
                   bounds>>

SyncTmp ==
    /\ at = "sync"
    /\ \/ unsynced' = unsynced \ {"tmp"} /\ UNCHANGED tmp /\ at' = "rename" /\ Ok
       \/ DropTmp /\ Fault
    /\ UNCHANGED <<packaged, inst, instDisk, sd, sdDisk, source, unread, booted, owed,
                   bounds>>

Rename ==
    /\ at = "rename"
    /\ \/ /\ inst' = [inst EXCEPT !["new"] = tmp]
          /\ tmp' = NoFile
          /\ unsynced' = IF "tmp" \in unsynced THEN {"new"} ELSE {}
          /\ at' = "sync dir"
          /\ Ok
       \/ DropTmp /\ UNCHANGED inst /\ Fault
    /\ UNCHANGED <<packaged, instDisk, sd, sdDisk, source, unread, booted, owed, bounds>>

\* What is installed for good is no longer owed.
Settle(disk) == owed \ {disk["new"].build}

\* Mutant: the update is removed although the directory could not be synced.
SyncDirGoesOn ==
    /\ at = "sync dir"
    /\ \/ instDisk' = inst /\ owed' = Settle(inst) /\ Ok
       \/ UNCHANGED <<instDisk, owed>> /\ Fault
    /\ at' = "clean up"
    /\ UNCHANGED <<packaged, inst, tmp, unsynced, sd, sdDisk, source, unread, booted,
                   bounds>>

\* The directory entry becomes durable; if not, the card keeps the update.
SyncDir ==
    /\ at = "sync dir"
    /\ \/ instDisk' = inst /\ at' = "clean up" /\ owed' = Settle(inst) /\ Ok
       \/ UNCHANGED <<instDisk, owed>> /\ at' = "select" /\ Fault
    /\ UNCHANGED <<packaged, inst, tmp, unsynced, sd, sdDisk, source, unread, booted,
                   bounds>>

\* The update is removed from the card; syncing that may fail unnoticed.
CleanUp ==
    /\ at = "clean up"
    /\ \/ /\ sd' = [sd EXCEPT ![source] = NoBuild]
          /\ \/ sdDisk' = sd' /\ Ok
             \/ UNCHANGED sdDisk /\ Fault
       \/ UNCHANGED <<sd, sdDisk>> /\ Fault
    /\ at' = "select"
    /\ UNCHANGED <<packaged, inst, instDisk, tmp, unsynced, source, unread, booted, owed,
                   bounds>>

-----------------------------------------------------------------------------
(***************************************************************************)
(* installer_internal_player_path() and run_player_supervised().  Installed*)
(* players are regular executable files.                                   *)
(***************************************************************************)
Present(p) == inst[p] # NoFile

\* scanner_read_build_stamp(): 0 for a file that has none or cannot be read.
StampOf(x, skip) ==
    IF x \in skip THEN 0
    ELSE IF x = "packaged" THEN Stamp[packaged]
    ELSE IF inst[x].whole THEN Stamp[inst[x].build] ELSE 0

\* Of two installed players the newer one; unknown age does not displace the
\* new path.  A legacy player without a stamp does not outrank the package.
Candidate(skip) ==
    LET new == StampOf("new", skip)
        legacy == StampOf("legacy", skip)
    IN  IF Present("new") /\ Present("legacy")
        THEN IF legacy # 0 /\ (new = 0 \/ legacy > new) THEN "legacy" ELSE "new"
        ELSE IF Present("new") THEN "new"
        ELSE IF Present("legacy") /\ ~(StampOf("packaged", skip) # 0 /\ legacy = 0)
        THEN "legacy" ELSE "none"

\* Mutant: only the player at the new path is compared with the package.
StaleAtNewPath(p, skip) ==
    p = "new" /\ StampOf(p, skip) # 0 /\ StampOf("packaged", skip) > StampOf(p, skip)

\* The package is newer than the installed player, by both stamps.
Stale(p, skip) == StampOf(p, skip) # 0 /\ StampOf("packaged", skip) > StampOf(p, skip)

\* A stale player is removed; the package boots even if that fails.
SelectPlayer(skip) ==
    LET p == Candidate(skip)
        stale == IF p = "none" THEN FALSE ELSE Stale(p, skip)
        without == IF stale THEN [inst EXCEPT ![p] = NoFile] ELSE inst
    IN  /\ at = "select" /\ at' = "launch"
        /\ unread' = skip
        /\ booted' = IF p = "none" \/ stale THEN packaged ELSE inst[p].build
        /\ \/ /\ inst' = without
              /\ instDisk' = IF stale THEN without ELSE instDisk
              /\ IF skip = {} THEN Ok ELSE Fault
           \/ /\ stale /\ inst' \in {inst, without}
              /\ UNCHANGED instDisk
              /\ Fault
        /\ UNCHANGED <<packaged, tmp, unsynced, sd, sdDisk, source, owed, bounds>>

\* What a boot starts from.
PowerDown ==
    /\ at' = "off" /\ source' = "none" /\ unread' = {} /\ booted' = NoBuild

\* The bootloader syncs, then powers off or reboots.
Shutdown ==
    /\ PowerDown
    /\ instDisk' = inst /\ sdDisk' = sd /\ unsynced' = {}
    /\ UNCHANGED <<packaged, inst, tmp, sd, owed, bounds>>

\* The chosen player runs; if it cannot, the package; if that cannot, a reboot.
run_player_supervised ==
    /\ at = "launch"
    /\ \/ /\ at' = "run"
          /\ (booted' = booted /\ Ok) \/ (booted' = packaged /\ Fault)
          /\ UNCHANGED <<storage, source, unread, owed, bounds>>
       \/ Shutdown /\ Fault

PlayerEnds ==
    /\ at = "run"
    /\ Shutdown
    /\ Ok

\* Power is lost: entries that were not synced are the new or the old ones,
\* files that were not synced whole or torn.
PowerLoss ==
    /\ at # "off" /\ crashes < MaxCrashes
    /\ PowerDown
    /\ \E new \in {inst["new"], instDisk["new"]}
             \cup (IF "new" \in unsynced THEN {Torn(inst["new"].build)} ELSE {}),
          legacy \in {inst["legacy"], instDisk["legacy"]} :
            inst' = [p \in Paths |-> IF p = "new" THEN new ELSE legacy]
    /\ instDisk' = inst'
    /\ tmp' \in {tmp, NoFile} /\ unsynced' = {}
    /\ sd' \in {sd, sdDisk} /\ sdDisk' = sd'
    /\ crashes' = crashes + 1
    /\ UNCHANGED <<packaged, owed, updates, flashes, faults>>

Step ==
    \/ \E mounted \in BOOLEAN : scanner_scan(mounted)
    \/ CheckUpdate \/ CopyStart \/ CopyEnd \/ Verify \/ SyncTmp \/ Rename \/ SyncDir
    \/ CleanUp
    \/ \E skip \in {{}, {"new"}, {"legacy"}, {"packaged"}} : SelectPlayer(skip)
    \/ run_player_supervised

BootNext ==
    \/ \E b \in Builds, p \in Paths : PutUpdate(b, p)
    \/ \E b \in Valid : FlashFirmware(b)
    \/ PowerOn \/ Step \/ PlayerEnds \/ PowerLoss

BootSpec == BootInit /\ [][BootNext]_bootVars

\* A boot goes on by itself; nobody has to press the power button.
BootFairSpec == BootSpec /\ WF_bootVars(Step)

-----------------------------------------------------------------------------
(***************************************************************************)
(* Properties.                                                             *)
(***************************************************************************)
Sound(f) == f # NoFile => f.whole /\ f.build \in Valid

\* Whatever fails and whenever power goes, an installed player, now or after
\* another power loss, is a whole, valid executable: never a torn copy.
InstalledIsSound == \A p \in Paths : Sound(inst[p]) /\ Sound(instDisk[p])

\* An update is on the card, and stays there through power loss, until it is
\* installed for good or the user replaces it.
UpdateNotLost ==
    \A b \in owed : \E p \in Paths : sd[p] = b /\ sdDisk[p] = b

\* No older installed player, at either path, shadows a newer packaged one, as
\* far as the stamps could be read.
NoStaleOverride ==
    at = "run" /\ unread = {} /\ Stamp[booted] # 0 => Stamp[booted] >= Stamp[packaged]

\* No boot hangs: it gets to a running player, with or without a card and whatever
\* fails, unless the device goes down on the way, by a loss of power or a reboot.
EveryBootRuns == []<>(at \in {"run", "off"})
=============================================================================

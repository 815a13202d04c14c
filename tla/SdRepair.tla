------------------------------ MODULE SdRepair ------------------------------
(***************************************************************************)
(* Who mounts, checks and formats the card (core/sd_fsck_run.c, main.c     *)
(* mount_sd_card_if_needed(), ui/gui_library.c Format SD Card).            *)
(*                                                                         *)
(* The screen thread polls the card and mounts it; a card that comes up    *)
(* read-only is unmounted and checked by a thread of its own, and mounted  *)
(* again by the next poll.  Formatting is a thread too, and ends with the  *)
(* same mount helper as the poll.                                          *)
(***************************************************************************)
EXTENDS Naturals, FiniteSets

CONSTANTS RepairCards,  \* cards, by CID
          AttemptSlots, \* SD_REPAIR_ATTEMPT_SLOTS
          MaxSwaps,     \* cards swapped and damaged
          MaxFormats,   \* cards formatted
          MaxTrouble    \* failing threads, mounts and unmounts

ASSUME RepairBounds ==
    /\ IsFiniteSet(RepairCards)
    /\ {AttemptSlots, MaxSwaps, MaxFormats, MaxTrouble} \subseteq Nat

Mounters == {"ui", "format"}

VARIABLES
    inSlot,     \* the card in the slot
    fs,         \* per card, its file system: "sound", "damaged" (mounts read-only), "none"
    mountState, \* "no", "rw" or "ro"
    handles,    \* the library has files of the card open
    phase,      \* repair_phase: "idle", "fsck" or "remount"
    remembered, \* repair_attempted
    key,        \* the card whose CID the repair being started has read
    where,      \* where each thread is
    offered,    \* the popup that offers to format is up
    checks,     \* history: per card, checks started and library closures for one
    swaps, formats, trouble

repairVars == <<inSlot, fs, mountState, handles, phase, remembered, key, where, offered,
                checks, swaps, formats, trouble>>

Places == {"idle", "look", "kick", "start", "helper", "mounting", "kicknull", "startnull", "finishing", "finish", "serve",
           "umount", "zero", "mkfs", "done"}

RepairTypeOK ==
    /\ inSlot \in RepairCards /\ fs \in [RepairCards -> {"sound", "damaged", "none"}]
    /\ mountState \in {"no", "rw", "ro"} /\ {handles, offered} \subseteq BOOLEAN
    /\ phase \in {"idle", "fsck", "remount"}
    /\ key \in RepairCards /\ remembered \subseteq RepairCards /\ Cardinality(remembered) <= AttemptSlots
    /\ where \in [Mounters -> Places] /\ checks \in [RepairCards -> 0..2]

\* Start-up has mounted what it could; the first poll is next.
RepairInit ==
    /\ inSlot \in RepairCards
    /\ fs \in [RepairCards -> {"sound", "damaged", "none"}]
    /\ mountState = CASE fs[inSlot] = "sound" -> "rw" [] fs[inSlot] = "damaged" -> "ro" [] OTHER -> "no"
    /\ handles = (mountState # "no")
    /\ phase = "idle" /\ remembered = {} /\ key = inSlot
    /\ where = [t \in Mounters |-> "idle"]
    /\ offered = FALSE
    /\ checks = [c \in RepairCards |-> 0]
    /\ swaps = 0 /\ formats = 0 /\ trouble = 0

Trouble == trouble < MaxTrouble /\ trouble' = trouble + 1
NoTrouble == UNCHANGED trouble
RepairGoes(t, pc) == where' = [where EXCEPT ![t] = pc]
RepairStays(t) == RepairGoes(t, where[t])

sd_repair_in_progress == phase \in {"fsck", "remount"}

remember_attempt(c) ==
    IF Cardinality(remembered) < AttemptSlots THEN remembered \cup {c} ELSE remembered

\* Counted up to two.
Charged == [checks EXCEPT ![inSlot] = IF @ = 0 THEN 1 ELSE 2]

----------------------------------------------------------------------------
\* sd_readonly_repair_kick()

KickApplies == ~sd_repair_in_progress /\ mountState = "ro" /\ inSlot \notin remembered

\* Nothing to repair, or no tool for it (not tried again).
NotKicked(t, next) ==
    /\ RepairGoes(t, next)
    /\ \/ ~KickApplies /\ NoTrouble /\ UNCHANGED remembered
       \/ KickApplies /\ Trouble /\ remembered' = remember_attempt(inSlot)
    /\ UNCHANGED <<inSlot, key, fs, mountState, handles, phase, offered, checks, swaps, formats>>

\* The unmount goes through unless a file is open; a caller that can close the
\* library's files tries again, and if that fails too gives the card up.
Unmounts(t, release, next, fail) ==
    /\ KickApplies
    /\ key' = inSlot
    /\ \/ /\ ~handles \/ release
          /\ mountState' = "no" /\ handles' = FALSE
          /\ checks' = Charged
          /\ RepairGoes(t, next) /\ NoTrouble /\ UNCHANGED remembered
       \/ /\ release /\ Trouble
          /\ handles' = FALSE /\ checks' = Charged
          /\ remembered' = remember_attempt(inSlot)
          /\ RepairGoes(t, fail) /\ UNCHANGED mountState
       \/ /\ ~release /\ RepairGoes(t, fail)
          /\ IF handles THEN NoTrouble ELSE Trouble
          /\ UNCHANGED <<mountState, handles, checks, remembered>>
    /\ UNCHANGED <<inSlot, fs, phase, offered, swaps, formats>>

\* The thread is started; without one the card is only mounted again.
StartsCheck(t, next) ==
    /\ remembered' = remember_attempt(key)
    /\ \/ phase' = "fsck" /\ NoTrouble
       \/ phase' = "remount" /\ Trouble
    /\ RepairGoes(t, next)
    /\ UNCHANGED <<inSlot, fs, mountState, handles, key, offered, checks, swaps, formats>>

\* repair_thread(): fsck ends, with or without success.  It opens the device by
\* name: a card swapped in before that is the one it repairs, and on one taken
\* out after that it fails.
CheckEnds ==
    /\ phase = "fsck" /\ phase' = "remount"
    /\ \/ UNCHANGED fs
       \/ fs[inSlot] = "damaged" /\ fs' = [fs EXCEPT ![inSlot] = "sound"]
    /\ UNCHANGED <<inSlot, key, mountState, handles, remembered, where, offered, checks, swaps, formats,
                   trouble>>

----------------------------------------------------------------------------
\* mount_sd_card_if_needed(), on whichever thread

Mounted ==
    IF mountState # "no" THEN mountState
    ELSE CASE fs[inSlot] = "sound" -> "rw" [] fs[inSlot] = "damaged" -> "ro" [] OTHER -> "no"

Leaves(t) == IF t = "ui" THEN "idle" ELSE "done"

HelperLooks(t) ==
    /\ where[t] = "helper"
    /\ RepairGoes(t, CASE phase = "remount" -> "finish"
                 [] phase = "fsck" -> Leaves(t)
                 [] phase = "idle" /\ mountState = "no" -> "mounting"
                 [] OTHER -> "kicknull")
    /\ UNCHANGED <<inSlot, key, fs, mountState, handles, phase, remembered, offered, checks, swaps, formats,
                   trouble>>

\* A card whose mount keeps failing is offered to be formatted.
HelperMounts(t) ==
    /\ where[t] = "mounting"
    /\ RepairGoes(t, "kicknull")
    /\ \/ mountState' = Mounted /\ NoTrouble
       \/ UNCHANGED mountState /\ Trouble
    /\ offered' = (offered \/ (t = "ui" /\ fs[inSlot] = "none"))
    /\ UNCHANGED <<inSlot, key, fs, handles, phase, remembered, checks, swaps, formats>>

HelperKicks(t) ==
    \/ where[t] = "kicknull" /\ (NotKicked(t, "finishing") \/ Unmounts(t, FALSE, "startnull", "finishing"))
    \/ where[t] = "startnull" /\ StartsCheck(t, "finishing")

\* Mutant: the repair is not declared complete.
HelperFinishesOpen(t) ==
    /\ where[t] = "finish"
    /\ RepairGoes(t, Leaves(t))
    /\ mountState' = Mounted /\ NoTrouble
    /\ UNCHANGED <<inSlot, key, fs, handles, phase, remembered, offered, checks, swaps, formats>>

\* finish_sd_repair_remount(), sd_repair_complete()
HelperFinishes(t) ==
    /\ where[t] = "finish"
    /\ RepairGoes(t, Leaves(t))
    /\ \/ mountState' = Mounted /\ NoTrouble
       \/ UNCHANGED mountState /\ Trouble
    /\ phase' = "idle"
    /\ UNCHANGED <<inSlot, key, fs, handles, remembered, offered, checks, swaps, formats>>

\* After the kick: a check that could not be started is finished right away.
HelperEnds(t) ==
    /\ where[t] = "finishing"
    /\ RepairGoes(t, IF phase = "remount" THEN "finish" ELSE Leaves(t))
    /\ UNCHANGED <<inSlot, key, fs, mountState, handles, phase, remembered, offered, checks, swaps, formats,
                   trouble>>

Helper(t) ==
    HelperLooks(t) \/ HelperMounts(t) \/ HelperKicks(t) \/ HelperFinishes(t) \/ HelperEnds(t)

----------------------------------------------------------------------------
\* poll_sd_card_hotplug(), as far as mounting and repair go

\* A mounted card is served, after a look at whether it is read-only; an
\* unmounted one goes to the mount helper.
PollLooks ==
    /\ where["ui"] = "idle"
    /\ \/ mountState = "no" /\ RepairGoes("ui", "helper") /\ UNCHANGED handles
       \/ mountState # "no" /\ ~sd_repair_in_progress /\ RepairGoes("ui", "kick") /\ UNCHANGED handles
       \/ mountState # "no" /\ sd_repair_in_progress /\ RepairStays("ui") /\ handles' = TRUE
    /\ UNCHANGED <<inSlot, key, fs, mountState, phase, remembered, offered, checks, swaps, formats, trouble>>

PollKicks ==
    \/ where["ui"] = "kick" /\ (NotKicked("ui", "serve") \/ Unmounts("ui", TRUE, "start", "serve"))
    \/ where["ui"] = "start" /\ StartsCheck("ui", "helper")

PollServes ==
    /\ where["ui"] = "serve"
    /\ RepairGoes("ui", "idle")
    /\ handles' = (mountState # "no")
    /\ UNCHANGED <<inSlot, key, fs, mountState, phase, remembered, offered, checks, swaps, formats, trouble>>

PollCard == PollLooks \/ PollKicks \/ PollServes \/ Helper("ui")

----------------------------------------------------------------------------
\* Format SD Card

StartFormat ==
    /\ where["ui"] = "idle" /\ where["format"] = "idle"
    /\ offered /\ ~sd_repair_in_progress /\ formats < MaxFormats
    /\ formats' = formats + 1 /\ offered' = FALSE
    /\ RepairGoes("format", "umount")
    /\ UNCHANGED <<inSlot, key, fs, mountState, handles, phase, remembered, checks, swaps, trouble>>

FormatUnmounts ==
    /\ where["format"] = "umount"
    /\ mountState' = "no"
    /\ RepairGoes("format", "zero")
    /\ UNCHANGED <<inSlot, key, fs, handles, phase, remembered, offered, checks, swaps, formats, trouble>>

FormatZeros ==
    /\ where["format"] = "zero"
    /\ fs' = [fs EXCEPT ![inSlot] = "none"]
    /\ \/ RepairGoes("format", "mkfs") /\ NoTrouble
       \/ RepairGoes("format", "done") /\ Trouble
    /\ UNCHANGED <<inSlot, key, mountState, handles, phase, remembered, offered, checks, swaps, formats>>

FormatMakes ==
    /\ where["format"] = "mkfs"
    /\ \/ fs' = [fs EXCEPT ![inSlot] = "sound"] /\ RepairGoes("format", "helper") /\ NoTrouble
       \/ UNCHANGED fs /\ RepairGoes("format", "done") /\ Trouble
    /\ UNCHANGED <<inSlot, key, mountState, handles, phase, remembered, offered, checks, swaps, formats>>

PollFormat ==
    /\ where["ui"] = "idle" /\ where["format"] = "done"
    /\ RepairGoes("format", "idle")
    /\ UNCHANGED <<inSlot, key, fs, mountState, handles, phase, remembered, offered, checks, swaps, formats,
                   trouble>>

Format == FormatUnmounts \/ FormatZeros \/ FormatMakes \/ Helper("format")

----------------------------------------------------------------------------
\* The card is swapped (its mount, stale, is lazily unmounted), or found damaged
\* and remounted read-only by the kernel.
CardSwapped ==
    /\ swaps < MaxSwaps /\ swaps' = swaps + 1
    /\ \E c \in RepairCards \ {inSlot} : inSlot' = c
    /\ mountState' = "no" /\ handles' = FALSE
    /\ UNCHANGED <<key, fs, phase, remembered, where, offered, checks, formats, trouble>>

CardDamaged ==
    /\ swaps < MaxSwaps /\ swaps' = swaps + 1
    /\ mountState = "rw" /\ mountState' = "ro"
    /\ fs' = [fs EXCEPT ![inSlot] = "damaged"]
    /\ UNCHANGED <<inSlot, key, handles, phase, remembered, where, offered, checks, formats, trouble>>

RepairNext ==
    PollCard \/ CheckEnds \/ StartFormat \/ Format \/ PollFormat \/ CardSwapped \/ CardDamaged

RepairSpec == RepairInit /\ [][RepairNext]_repairVars

\* The poll comes round, fsck and the tools of a format end by themselves.
RepairFairSpec ==
    RepairSpec /\ WF_repairVars(PollCard) /\ WF_repairVars(CheckEnds) /\ WF_repairVars(Format)

----------------------------------------------------------------------------
\* Properties

\* "Mounting over it would race the check": while fsck writes to the card it is
\* not mounted, and no thread is about to mount it (as long as nobody formats).
CheckedAlone ==
    formats = 0 /\ phase = "fsck" => mountState = "no" /\ where["ui"] # "mounting"

\* "The poll does not tear the library down every cycle": a card is checked, or
\* the library closed for its sake, once; up to as many cards as are remembered
\* (and as long as nobody formats).
OnceEach ==
    formats = 0 /\ Cardinality(remembered \cup {c \in RepairCards : checks[c] > 0}) <= AttemptSlots =>
        \A c \in RepairCards : checks[c] <= 1

\* sd_fsck_run.c:22 "two threads never mount at once".
NeverTwoMounters == ~ \A t \in Mounters : where[t] \in {"mounting", "finish"}

\* A check has the card to itself and is not made again, and a repair comes to
\* its end: the card is mounted again, or given up.
RepairEnds == [](CheckedAlone /\ OnceEach) /\ []<>(phase = "idle" \/ formats > 0)
=============================================================================

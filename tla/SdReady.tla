------------------------------- MODULE SdReady -------------------------------
(***************************************************************************)
(* Waiting for the SD card at boot: wait_for_sd_ready() of                 *)
(* bootloader/sd_ready.c with the probes of sd_ready_real.c.  A step is one*)
(* turn of its loop.  Between two turns the kernel brings the card up: the *)
(* MMC host reports it, the whole-disk node appears, then the partition.   *)
(*                                                                         *)
(* Time is counted in poll intervals.  A mount attempt takes any time up to*)
(* what is left until the hard deadline, after which it is killed.  An     *)
(* event in /dev that ends a sleep early is not modelled.                  *)
(***************************************************************************)
EXTENDS Integers

CONSTANTS
    Short, Extended, Hard,  \* SD_READY_SHORT/EXTENDED/HARD_DEADLINE_MS
    Grace                   \* SD_READY_EXEC_GRACE_MS

ASSUME DeadlineAssumption ==
    /\ {Short, Extended, Hard, Grace} \subseteq Nat
    /\ Short <= Extended /\ Extended <= Hard

VARIABLES
    card,        \* the nodes and reports the kernel shows of the card
    mounted,     \* a file system is mounted at SD_MOUNT_POINT
    loop,        \* the wait: "off", "poll" while in the loop, "done"
    now,         \* time since the wait began
    elapsed,     \* result.elapsed_ms, None without a clock
    saw,         \* result.saw_mmc_evidence, saw_whole_node, saw_partition_node
    mountedAt,   \* mounted_at_ms; result.mounted when not None
    stage,       \* result.stage
    shortStage,  \* stage_at_short_checkpoint, None before it
    extendedDone \* extended_checkpoint_done

None == -1
Evidence == {"mmc", "whole", "partition"}
Nodes == {"whole", "partition"}

NONE == 0
MMC_EVIDENCE == 1
NODE_PRESENT == 2
MOUNTED == 3
EXEC_READY == 4

progress == <<shortStage, extendedDone>>
readyVars == <<card, mounted, loop, now, elapsed, saw, mountedAt, stage, shortStage,
               extendedDone>>

stage_from_evidence(seen, mount) ==
    IF mount THEN MOUNTED
    ELSE IF seen \cap Nodes # {} THEN NODE_PRESENT
    ELSE IF seen # {} THEN MMC_EVIDENCE ELSE NONE

\* The system may have mounted the card before.
ReadyInit ==
    /\ card = {} /\ mounted \in BOOLEAN /\ loop = "off"
    /\ now = 0 /\ elapsed = None /\ saw = {} /\ mountedAt = None /\ stage = NONE
    /\ shortStage = None /\ extendedDone = FALSE

\* The kernel finds out more about the card (external).
CardAppears(e) ==
    /\ loop = "poll" /\ e \notin card
    /\ card' = card \cup {e}
    /\ UNCHANGED <<mounted, loop, now, elapsed, saw, mountedAt, stage, progress>>

-----------------------------------------------------------------------------
Return(t, s) == loop' = "done" /\ elapsed' = t /\ stage' = s

\* Without a clock the mount point is looked at once.
BeginWithoutClock(exec) ==
    /\ loop = "off"
    /\ Return(None, IF ~mounted THEN NONE ELSE IF exec THEN EXEC_READY ELSE MOUNTED)
    /\ mountedAt' = IF mounted THEN 0 ELSE None
    /\ UNCHANGED <<card, mounted, now, saw, progress>>

Begin ==
    /\ loop = "off"
    /\ loop' = "poll"
    /\ UNCHANGED <<card, mounted, now, elapsed, saw, mountedAt, stage, progress>>

ClockFails ==
    /\ loop = "poll"
    /\ Return(None, NONE)
    /\ UNCHANGED <<card, mounted, now, saw, mountedAt, progress>>

GraceOver(at) == now - at >= Grace

\* The end of a turn in which s is reached and mount attempts took d: the
\* deadlines are compared, and the sleep bounded, with the time the turn began.
EndTurn(s, d) ==
    LET none == shortStage = None
        late == now >= Extended /\ ~extendedDone
        stuck == late /\ s <= (IF none THEN NONE ELSE shortStage)
        absent == now >= Short /\ none /\ s = NONE
    IN  \/ /\ now >= Hard \/ stuck \/ absent
           /\ Return(now, s)
           /\ UNCHANGED <<now, progress>>
        \/ /\ ~(now >= Hard \/ stuck \/ absent)
           /\ shortStage' = IF now >= Short /\ none THEN s ELSE shortStage
           /\ extendedDone' = (extendedDone \/ now >= Extended)
           /\ now' = now + d + 1
           /\ UNCHANGED <<loop, elapsed, stage>>

\* The card is mounted: an update ends the wait at once, otherwise it gets a
\* short grace, for a slow directory.
PollMounted(exec) ==
    LET at == IF mountedAt = None THEN now ELSE mountedAt IN
    /\ loop = "poll" /\ mounted
    /\ mountedAt' = at
    /\ \/ exec /\ Return(now, EXEC_READY) /\ UNCHANGED <<now, progress>>
       \/ ~exec /\ GraceOver(at) /\ Return(now, MOUNTED) /\ UNCHANGED <<now, progress>>
       \/ ~exec /\ ~GraceOver(at) /\ EndTurn(MOUNTED, 0)
    /\ UNCHANGED <<card, mounted, saw>>

\* A mount of a node succeeds after d: the next turn begins at once.
PollMounts(d) ==
    /\ loop = "poll" /\ ~mounted
    /\ now < Hard /\ d <= Hard - now
    /\ \/ "partition" \in card /\ saw' = saw \cup {"partition"}
       \/ "whole" \in card /\ saw' = saw \cup (card \cap Nodes)
    /\ mounted' = TRUE
    /\ now' = now + d
    /\ UNCHANGED <<card, loop, elapsed, mountedAt, stage, progress>>

\* Mutant: mount attempts are not bounded by the time that is left.
PollFailsUnbounded(d) ==
    LET nodes == saw \cup (card \cap Nodes)
        seen == IF nodes \cap Nodes = {} THEN saw \cup card ELSE nodes
    IN  /\ loop = "poll" /\ ~mounted
        /\ d > 0 => card \cap Nodes # {}
        /\ saw' = seen
        /\ EndTurn(stage_from_evidence(seen, mountedAt # None), d)
        /\ UNCHANGED <<card, mounted, mountedAt>>

\* Nothing to mount, or every attempt fails, taking d in all.
PollFails(d) ==
    LET nodes == saw \cup (card \cap Nodes)
        seen == IF nodes \cap Nodes = {} THEN saw \cup card ELSE nodes
    IN  /\ loop = "poll" /\ ~mounted
        /\ d > 0 => card \cap Nodes # {} /\ now + d <= Hard
        /\ saw' = seen
        /\ EndTurn(stage_from_evidence(seen, mountedAt # None), d)
        /\ UNCHANGED <<card, mounted, mountedAt>>

\* The probes find an executable update, or none (yet).
Wait ==
    \/ Begin \/ ClockFails
    \/ \E exec \in BOOLEAN : BeginWithoutClock(exec) \/ PollMounted(exec)
    \/ \E d \in 0 .. Hard : PollMounts(d) \/ PollFails(d)

ReadyNext == Wait \/ \E e \in Evidence : CardAppears(e)

ReadySpec == ReadyInit /\ [][ReadyNext]_readyVars

-----------------------------------------------------------------------------
\* The wait never goes on more than a poll interval after the hard deadline,
\* although a turn sleeps for a time computed before its mount attempts.
WaitBounded == elapsed <= Hard + 1 /\ now <= Hard + 1

\* The hard deadline is kept whatever the timing of card and mounts.
HardDeadlineKept == elapsed <= Hard

\* The stage reported is the highest one reached: nothing the wait saw, and no
\* mount it made, is left out of it, unless the clock failed.
StageIsHighest ==
    loop = "done" /\ elapsed # None =>
        /\ mounted => stage >= MOUNTED
        /\ saw # {} => stage >= MMC_EVIDENCE
        /\ saw \cap Nodes # {} => stage >= NODE_PRESENT

\* Bounded in time, and what it reports at the end is the best it saw.
WaitIsSound == WaitBounded /\ StageIsHighest
=============================================================================

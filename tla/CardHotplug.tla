---------------------------- MODULE CardHotplug -----------------------------
(***************************************************************************)
(* Which card the library in memory belongs to (ui/gui_library.c           *)
(* poll_sd_card_hotplug(), ui/sd_card_identity.h, main.c).                 *)
(*                                                                         *)
(* The slot, the mount and the screen thread's idea of the card change     *)
(* independently: a card is pulled under its mount, another one is put in, *)
(* somebody else unmounts or mounts between two polls, and any of the      *)
(* readings of a poll may fail.  A poll is two steps, what it reads and    *)
(* what it does about it; the world may change between them.               *)
(*                                                                         *)
(* A new card gets device number 1, or 2 while a mount still holds 1.      *)
(* Cards mounted through FUSE, which show a device of their own, and the   *)
(* repair of a card gone read-only are left out.                           *)
(***************************************************************************)
EXTENDS Naturals

CONSTANTS Cards,         \* cards, numbered from 1
          ConfirmStreak, \* SD_UNMOUNT_CONFIRM_STREAK_THRESHOLD
          MaxMoves,      \* cards moved, mounts changed by others, scans
          MaxReadFaults  \* readings and mounts that fail

ASSUME HotplugBounds ==
    /\ Cards \subseteq Nat \ {0}
    /\ ConfirmStreak \in Nat \ {0} /\ {MaxMoves, MaxReadFaults} \subseteq Nat

VARIABLES
    slot,       \* the card in the slot (0: none) and its device number
    mnt,        \* the card mounted at MUSIC_ROOT_DIR (0: none) and the mount's device number
    sample,     \* what the poll has read; at "none" between polls
    wasMounted, \* was_mounted
    last,       \* last_mounted_device, last_card_cid, have_last_mounted_device, have_last_card_identity
    handoff,    \* sd_handoff_pending
    streak,     \* unmount_confirm_streak
    absent,     \* sd_card_absent_immediate: nothing is written to the card
    library,    \* the card whose library and queue are in memory (0: none)
    scan,       \* library_rescan_active, whether it is cancelled, and the card it reads
    bootRecheck,\* boot_library_recheck_done
    moves, readFaults

hotplugVars == <<slot, mnt, sample, wasMounted, last, handoff, streak, absent, library, scan,
                 bootRecheck, moves, readFaults>>

NoCard == [card |-> 0, dev |-> 0]
Devs == {0, 1, 2}
NoScan == [active |-> FALSE, cancelled |-> FALSE, card |-> 0]
NoSample == [at |-> "none", mounted |-> FALSE, stale |-> FALSE, forced |-> FALSE,
             haveDev |-> FALSE, dev |-> 0, cid |-> 0, card |-> 0]

HotplugTypeOK ==
    /\ {slot, mnt} \subseteq [card : Cards \cup {0}, dev : Devs]
    /\ last \in [dev : Devs, cid : Cards \cup {0}, haveDev : BOOLEAN, haveId : BOOLEAN]
    /\ {wasMounted, handoff, absent, bootRecheck} \subseteq BOOLEAN
    /\ streak \in 0 .. ConfirmStreak /\ library \in Cards \cup {0}
    /\ scan \in [active : BOOLEAN, cancelled : BOOLEAN, card : Cards \cup {0}]

\* After start-up: the card, if one was there in time, is mounted and its
\* library loaded.
HotplugInit ==
    /\ \E c \in Cards \cup {0} : slot = [card |-> c, dev |-> IF c = 0 THEN 0 ELSE 1]
    /\ mnt \in {NoCard, slot}
    /\ library = mnt.card
    /\ sample = NoSample
    /\ wasMounted = TRUE
    /\ last = [dev |-> 0, cid |-> 0, haveDev |-> FALSE, haveId |-> FALSE]
    /\ handoff = FALSE /\ streak = 0 /\ absent = FALSE
    /\ scan = NoScan /\ bootRecheck = FALSE
    /\ moves = 0 /\ readFaults = 0

ReadFault == readFaults < MaxReadFaults /\ readFaults' = readFaults + 1

----------------------------------------------------------------------------
\* sd_card_identity.h

\* Mutant: two cards are told apart by the device number alone.
IdentityByDevice(mounted, was, s) ==
    mounted /\ was /\ last.haveDev /\ s.haveDev /\ last.dev # s.dev

sd_card_identity_replaced(mounted, was, s) ==
    /\ mounted /\ was /\ last.haveId
    /\ \/ last.haveDev /\ s.haveDev /\ last.dev # s.dev
       \/ last.cid # 0 /\ s.cid # 0 /\ last.cid # s.cid

sd_card_absence_confirmed(staleOrForced, n) == staleOrForced \/ n >= ConfirmStreak

sd_card_handoff_after_sample(confirmed, replaced) == handoff \/ confirmed \/ replaced

sd_card_remember_mounted_device(s, replaced, was) ==
    s.haveDev \/ (~replaced /\ was /\ last.haveDev)

----------------------------------------------------------------------------
\* What a poll reads

\* The kernel's device of the slot is not the mount's.
ProbesConfirmRemoved == slot.dev # mnt.dev

\* Any one of the readings may fail: the mount's stat, the probe of the
\* kernel's device, the second stat for the device number, the CID.
Readings == {"stat", "probe", "device", "cid"}

Sampled(bad) ==
    LET attached == mnt.card # 0 /\ bad # "stat"
        mounted == attached /\ (bad = "probe" \/ ~ProbesConfirmRemoved)
        haveDev == mounted /\ bad # "device"
    IN [at |-> "read", mounted |-> mounted,
        stale |-> attached /\ ~mounted,
        forced |-> mounted /\ slot.card = 0,
        haveDev |-> haveDev, dev |-> IF haveDev THEN mnt.dev ELSE 0,
        cid |-> IF bad = "cid" THEN 0 ELSE slot.card,
        card |-> mnt.card]

PollReads ==
    /\ sample.at = "none"
    /\ \/ sample' = Sampled("none") /\ UNCHANGED readFaults
       \/ \E r \in Readings : sample' = Sampled(r) /\ ReadFault
    /\ UNCHANGED <<slot, mnt, wasMounted, last, handoff, streak, absent, library, scan, bootRecheck,
                   moves>>

----------------------------------------------------------------------------
\* What it does about it

Replaced == sd_card_identity_replaced(sample.mounted, wasMounted, sample)

\* Mounted wholly between two polls: the old card's library is let go.
ClearsOld == Replaced /\ ~scan.active /\ sample.cid # 0

StillMounted == wasMounted /\ ~ClearsOld
Gone == sample.stale \/ sample.forced

CancelsScan == scan.active /\ (~sample.mounted \/ Replaced \/ Gone)
ScanAfter == IF CancelsScan THEN [scan EXCEPT !.cancelled = TRUE] ELSE scan

\* Mutant: a stale mount is taken away and nothing put in its place.
UnmountsOnly ==
    /\ mnt' = IF Gone THEN NoCard ELSE mnt
    /\ UNCHANGED readFaults

\* mount_sd_card_if_needed(), after a lazy umount of a mount without a card.
Remounts ==
    LET left == IF Gone THEN NoCard ELSE mnt
    IN \/ mnt' = (IF left.card = 0 /\ slot.card # 0 THEN slot ELSE left)
          /\ UNCHANGED readFaults
       \/ left.card = 0 /\ slot.card # 0 /\ mnt' = left /\ ReadFault

\* Not mounted: nothing is written any more; once the removal is confirmed the
\* library is let go, unless a scan still holds it; then a mount is tried.
ActsUnmounted ==
    LET n == IF StillMounted THEN streak + 1 ELSE streak
        confirmed == sd_card_absence_confirmed(Gone, IF StillMounted THEN n ELSE 0)
        letsGo == StillMounted /\ confirmed /\ ~scan.active
    IN  /\ sample.at = "read"
        /\ ~sample.mounted \/ Gone
        /\ sample' = NoSample
        /\ absent' = TRUE
        /\ wasMounted' = (StillMounted /\ ~letsGo)
        /\ streak' = IF letsGo THEN 0 ELSE IF n > ConfirmStreak THEN ConfirmStreak ELSE n
        /\ last' = IF letsGo THEN [last EXCEPT !.haveDev = FALSE, !.haveId = FALSE, !.cid = 0] ELSE last
        /\ library' = IF letsGo \/ ClearsOld THEN 0 ELSE library
        /\ handoff' = sd_card_handoff_after_sample(confirmed, Replaced)
        /\ scan' = ScanAfter
        /\ Remounts
        /\ UNCHANGED <<slot, bootRecheck, moves>>

ActsMounted(branch) ==
    /\ sample.at = "read" /\ sample.mounted /\ ~Gone
    /\ sample' = NoSample
    /\ streak' = 0
    /\ scan' = ScanAfter
    /\ branch
    /\ UNCHANGED <<slot, mnt, moves, readFaults>>

HandoffNow == sd_card_handoff_after_sample(FALSE, Replaced)
Uncertain == last.haveId /\ sample.cid = 0
ScanInTheWay == scan.active /\ (HandoffNow \/ ~StillMounted \/ Replaced)

\* An identity that cannot be read, or a scan that must end first: wait.
HoldsBack ==
    ActsMounted(/\ Uncertain \/ ScanInTheWay
                /\ absent' = TRUE
                /\ wasMounted' = StillMounted
                /\ library' = (IF ClearsOld THEN 0 ELSE library)
                /\ handoff' = HandoffNow
                /\ UNCHANGED <<last, bootRecheck>>)

\* The baseline for the next poll.
Remembers(was) ==
    LET have == sd_card_remember_mounted_device(sample, Replaced, was)
    IN last' = [dev |-> IF sample.haveDev THEN sample.dev ELSE last.dev,
                cid |-> IF sample.cid # 0 THEN sample.cid ELSE last.cid,
                haveDev |-> have, haveId |-> have \/ sample.cid # 0]

\* The library comes from the mounted card, if that one is still in.
Loadable == IF slot.card = mnt.card THEN mnt.card ELSE 0

\* The card is there and known.  A pending handoff loads its library and its
\* queue; the first poll of all makes up for a mount that came late.
Serves ==
    ActsMounted(/\ ~Uncertain /\ ~ScanInTheWay
                /\ absent' = FALSE
                /\ wasMounted' = TRUE
                /\ handoff' = FALSE
                /\ \/ HandoffNow /\ library' = Loadable /\ Remembers(FALSE) /\ UNCHANGED bootRecheck
                   \/ /\ ~HandoffNow /\ Remembers(StillMounted)
                      /\ bootRecheck' = TRUE
                      /\ library' = IF ~bootRecheck /\ library = 0 /\ ~scan.active
                                    THEN Loadable ELSE library)

Poll == PollReads \/ ActsUnmounted \/ HoldsBack \/ Serves

----------------------------------------------------------------------------
\* A library scan, and the world

Moved == moves < MaxMoves /\ moves' = moves + 1

\* The first poll comes with the first turn of the main loop; nobody swaps the
\* card that was mounted at start-up before a poll has noted its CID.
Noted == last.cid # 0 \/ library = 0

ScanStarts ==
    /\ ~scan.active /\ mnt.card # 0 /\ mnt.card = slot.card /\ sample.at = "none"
    /\ Moved
    /\ scan' = [active |-> TRUE, cancelled |-> FALSE, card |-> mnt.card]
    /\ UNCHANGED <<slot, mnt, sample, wasMounted, last, handoff, streak, absent, library, bootRecheck,
                   readFaults>>

\* A scan that ran to its end on its card is published; any other one is not.
ScanEnds ==
    /\ scan.active /\ sample.at = "none"
    /\ scan' = NoScan
    /\ library' = IF ~scan.cancelled /\ mnt.card = scan.card /\ slot.card = scan.card
                  THEN scan.card ELSE library
    /\ UNCHANGED <<slot, mnt, sample, wasMounted, last, handoff, streak, absent, bootRecheck, moves,
                   readFaults>>

CardPulled ==
    /\ slot.card # 0 /\ Noted /\ Moved
    /\ slot' = NoCard
    /\ UNCHANGED <<mnt, sample, wasMounted, last, handoff, streak, absent, library, scan, bootRecheck,
                   readFaults>>

CardInserted ==
    /\ slot.card = 0 /\ Moved
    /\ \E c \in Cards : slot' = [card |-> c, dev |-> IF mnt.card # 0 /\ mnt.dev # 2 THEN 2 ELSE 1]
    /\ UNCHANGED <<mnt, sample, wasMounted, last, handoff, streak, absent, library, scan, bootRecheck,
                   readFaults>>

\* The system's own hot-plug scripts, or a shell, act on the mount.
MountedByOthers ==
    /\ Moved
    /\ \/ mnt.card # 0 /\ Noted /\ mnt' = NoCard
       \/ mnt.card = 0 /\ slot.card # 0 /\ mnt' = slot
    /\ UNCHANGED <<slot, sample, wasMounted, last, handoff, streak, absent, library, scan, bootRecheck,
                   readFaults>>

HotplugNext ==
    Poll \/ ScanStarts \/ ScanEnds \/ CardPulled \/ CardInserted \/ MountedByOthers

HotplugSpec == HotplugInit /\ [][HotplugNext]_hotplugVars

\* The main loop keeps polling, and between polls takes note of a scan that is over.
HotplugFairSpec == HotplugSpec /\ WF_hotplugVars(Poll) /\ SF_hotplugVars(ScanEnds)

----------------------------------------------------------------------------
\* Properties

\* A poll that leaves the mounted card open for writing leaves no other card's
\* library and queue in memory, however the two were swapped and whichever one
\* reading failed, for cards whose CID was read when they were taken in (a mount
\* whose card is out takes no writes).
NoOtherCardsLibrary ==
    [][sample.at = "read" /\ sample'.at = "none" /\ ~absent'
         /\ mnt.card = slot.card /\ sample.card = mnt.card
         => library' \in {0, mnt.card}]_hotplugVars

\* Once the cards have come to rest, the one that is in is mounted and open for
\* writing, and the library in memory is its own.  (It may be empty: the load of
\* the first poll is not repeated when the card was pulled under it.)
CardIsServed ==
    <>[](slot.card # 0 => library \in {0, slot.card} /\ mnt.card = slot.card /\ ~absent)
=============================================================================

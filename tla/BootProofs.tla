----------------------------- MODULE BootProofs -----------------------------
(***************************************************************************)
(* What the bootloader guarantees for every set of builds, every stamping  *)
(* of them and any number of faults and power losses.                      *)
(***************************************************************************)
EXTENDS Boot, SdReady, TLAPS

Types ==
    /\ packaged \in Valid
    /\ inst \in [Paths -> File] /\ instDisk \in [Paths -> File]
    /\ tmp \in File
    /\ sd \in [Paths -> Builds \cup {NoBuild}]
    /\ sdDisk \in [Paths -> Builds \cup {NoBuild}]
    /\ source \in Paths \cup {"none"}

Installing == {"check", "copy", "copying", "verify", "sync", "rename", "sync dir", "clean up"}

\* Where the installer is says what it has made sure of.
Progress ==
    /\ at \in Installing => source \in Paths /\ sd[source] \in Builds
    /\ at \in {"sync", "rename"} => tmp = Whole(sd[source]) /\ tmp.build \in Valid
    /\ at = "rename" => "tmp" \notin unsynced
    /\ "new" \notin unsynced
    /\ at = "sync dir" => inst["new"] = Whole(sd[source])
    /\ at = "clean up" => sd[source] \notin owed

\* The chosen player is not older than the package.
NoStaleChoice ==
    at \in {"launch", "run"} /\ unread = {} =>
        booted \in Builds /\ (Stamp[booted] # 0 => Stamp[booted] >= Stamp[packaged])

BootInv == Types /\ Progress /\ InstalledIsSound /\ UpdateNotLost /\ NoStaleChoice

\* What a file is: a build that is whole or torn, or nothing.
LEMMA FileFacts ==
    /\ NoFile \in File
    /\ \A b \in Builds : /\ Whole(b) \in File /\ Whole(b) # NoFile
                         /\ Whole(b).build = b /\ Whole(b).whole
    /\ \A b \in Builds : Torn(b) \in File
    /\ \A f \in File : f # NoFile => f.build \in Builds
BY BootAssumption DEF File, NoFile, Whole, Torn

LEMMA InitBoot == BootInit => BootInv
<1> SUFFICES ASSUME BootInit PROVE BootInv
  OBVIOUS
<1> USE BootAssumption, FileFacts DEF BootInit, Paths
<1>1. Types
  BY DEF Types
<1>2. Progress
  BY DEF Progress, Installing
<1>3. InstalledIsSound
  BY DEF InstalledIsSound, Sound
<1>4. UpdateNotLost /\ NoStaleChoice
  BY DEF UpdateNotLost, NoStaleChoice
<1>. QED
  BY <1>1, <1>2, <1>3, <1>4 DEF BootInv

LEMMA StepBoot == BootInv /\ [BootNext]_bootVars => BootInv'
<1> SUFFICES ASSUME BootInv, [BootNext]_bootVars PROVE BootInv'
  OBVIOUS
<1> USE BootAssumption, FileFacts DEF BootInv, Paths, storage
<1>1. ASSUME NEW b \in Builds, NEW p \in Paths, PutUpdate(b, p) PROVE BootInv'
  <2> USE <1>1 DEF PutUpdate
  <2>1. Types'
    BY DEF Types
  <2>2. Progress'
    BY DEF Progress, Installing
  <2>3. InstalledIsSound'
    BY DEF InstalledIsSound, Sound
  <2>4. UpdateNotLost'
    BY DEF UpdateNotLost, Types
  <2>5. NoStaleChoice'
    BY DEF NoStaleChoice
  <2>. QED
    BY <2>1, <2>2, <2>3, <2>4, <2>5
<1>2. ASSUME NEW b \in Valid, FlashFirmware(b) PROVE BootInv'
  <2> USE <1>2 DEF FlashFirmware
  <2>1. Types'
    BY DEF Types
  <2>2. Progress'
    BY DEF Progress, Installing
  <2>3. InstalledIsSound'
    BY DEF InstalledIsSound, Sound
  <2>4. UpdateNotLost'
    BY DEF UpdateNotLost
  <2>5. NoStaleChoice'
    BY DEF NoStaleChoice, Types
  <2>. QED
    BY <2>1, <2>2, <2>3, <2>4, <2>5
<1>3. CASE PowerOn
  <2> USE <1>3 DEF PowerOn
  <2>1. Types'
    BY DEF Types
  <2>2. Progress'
    BY DEF Progress, Installing
  <2>3. InstalledIsSound'
    BY DEF InstalledIsSound, Sound
  <2>4. UpdateNotLost'
    BY DEF UpdateNotLost
  <2>5. NoStaleChoice'
    BY DEF NoStaleChoice
  <2>. QED
    BY <2>1, <2>2, <2>3, <2>4, <2>5
<1>4. ASSUME NEW found \in BOOLEAN, scanner_scan(found) PROVE BootInv'
  <2> USE <1>4 DEF scanner_scan, HasUpdate
  <2>1. Types'
    BY DEF Types
  <2>2. Progress'
    BY DEF Progress, Installing, Types
  <2>3. InstalledIsSound'
    BY DEF InstalledIsSound, Sound
  <2>4. UpdateNotLost'
    BY DEF UpdateNotLost
  <2>5. NoStaleChoice'
    BY DEF NoStaleChoice
  <2>. QED
    BY <2>1, <2>2, <2>3, <2>4, <2>5
<1>5. CASE CheckUpdate
  <2> USE <1>5 DEF CheckUpdate, GoTo, Same
  <2>1. Types'
    BY DEF Types
  <2>2. Progress'
    BY DEF Progress, Installing
  <2>3. InstalledIsSound'
    BY DEF InstalledIsSound, Sound
  <2>4. UpdateNotLost'
    BY DEF UpdateNotLost
  <2>5. NoStaleChoice'
    BY DEF NoStaleChoice
  <2>. QED
    BY <2>1, <2>2, <2>3, <2>4, <2>5
<1>6. CASE CopyStart
  <2> USE <1>6 DEF CopyStart
  <2>1. Types'
    BY DEF Types, Progress, Installing
  <2>2. Progress'
    BY DEF Progress, Installing, Types
  <2>3. InstalledIsSound'
    BY DEF InstalledIsSound, Sound
  <2>4. UpdateNotLost'
    BY DEF UpdateNotLost
  <2>5. NoStaleChoice'
    BY DEF NoStaleChoice
  <2>. QED
    BY <2>1, <2>2, <2>3, <2>4, <2>5
<1>7. CASE CopyEnd
  <2> USE <1>7 DEF CopyEnd, DropTmp
  <2>1. Types'
    BY DEF Types, Progress, Installing
  <2>2. Progress'
    BY DEF Progress, Installing
  <2>3. InstalledIsSound'
    BY DEF InstalledIsSound, Sound
  <2>4. UpdateNotLost'
    BY DEF UpdateNotLost
  <2>5. NoStaleChoice'
    BY DEF NoStaleChoice
  <2>. QED
    BY <2>1, <2>2, <2>3, <2>4, <2>5
<1>8. CASE Verify
  <2> USE <1>8 DEF Verify, DropTmp, validate_player_elf
  <2>1. Types'
    BY DEF Types
  <2>2. Progress'
    BY DEF Progress, Installing
  <2>3. InstalledIsSound'
    BY DEF InstalledIsSound, Sound
  <2>4. UpdateNotLost'
    BY DEF UpdateNotLost
  <2>5. NoStaleChoice'
    BY DEF NoStaleChoice
  <2>. QED
    BY <2>1, <2>2, <2>3, <2>4, <2>5
<1>9. CASE SyncTmp
  <2> USE <1>9 DEF SyncTmp, DropTmp
  <2>1. Types'
    BY DEF Types
  <2>2. Progress'
    BY DEF Progress, Installing
  <2>3. InstalledIsSound'
    BY DEF InstalledIsSound, Sound
  <2>4. UpdateNotLost'
    BY DEF UpdateNotLost
  <2>5. NoStaleChoice'
    BY DEF NoStaleChoice
  <2>. QED
    BY <2>1, <2>2, <2>3, <2>4, <2>5
<1>10. CASE Rename
  <2> USE <1>10 DEF Rename, DropTmp
  <2>1. Types'
    BY DEF Types
  <2>2. Progress'
    BY DEF Progress, Installing, Types
  <2>3. InstalledIsSound'
    BY DEF InstalledIsSound, Sound, Types, Progress, Installing
  <2>4. UpdateNotLost'
    BY DEF UpdateNotLost
  <2>5. NoStaleChoice'
    BY DEF NoStaleChoice
  <2>. QED
    BY <2>1, <2>2, <2>3, <2>4, <2>5
<1>11. CASE SyncDir
  <2> USE <1>11 DEF SyncDir, Settle
  <2>1. Types'
    BY DEF Types
  <2>2. Progress'
    BY DEF Progress, Installing, Types
  <2>3. InstalledIsSound'
    BY DEF InstalledIsSound, Sound
  <2>4. UpdateNotLost'
    BY DEF UpdateNotLost
  <2>5. NoStaleChoice'
    BY DEF NoStaleChoice
  <2>. QED
    BY <2>1, <2>2, <2>3, <2>4, <2>5
<1>12. CASE CleanUp
  <2> USE <1>12 DEF CleanUp
  <2>1. Types'
    BY DEF Types
  <2>2. Progress'
    BY DEF Progress, Installing, Types
  <2>3. InstalledIsSound'
    BY DEF InstalledIsSound, Sound
  <2>4. UpdateNotLost'
    <3>1. \A q \in Paths \ {source} : sd'[q] = sd[q] /\ sdDisk'[q] \in {sdDisk[q], sd[q]}
      BY DEF Types, Progress, Installing
    <3>2. sd[source] \notin owed /\ owed' = owed
      BY DEF Progress
    <3> HIDE <1>12
    <3>3. ASSUME NEW b \in owed
          PROVE  \E q \in Paths : sd'[q] = b /\ sdDisk'[q] = b
      <4>1. PICK q \in Paths : sd[q] = b /\ sdDisk[q] = b
        BY DEF UpdateNotLost
      <4>. QED
        BY <4>1, <3>1, <3>2
    <3>. QED
      BY <3>2, <3>3 DEF UpdateNotLost
  <2>5. NoStaleChoice'
    BY DEF NoStaleChoice
  <2>. QED
    BY <2>1, <2>2, <2>3, <2>4, <2>5
<1>13. ASSUME NEW skip, SelectPlayer(skip) PROVE BootInv'
  <2> DEFINE p == Candidate(skip)
             stale == IF p = "none" THEN FALSE ELSE Stale(p, skip)
             without == IF stale THEN [inst EXCEPT ![p] = NoFile] ELSE inst
  <2> USE <1>13 DEF SelectPlayer
  <2>1. p \in Paths \cup {"none"} /\ (p # "none" => inst[p] # NoFile)
    BY DEF Candidate, Present
  <2>2. without \in [Paths -> File] /\ \A q \in Paths : without[q] \in {inst[q], NoFile}
    BY <2>1, FileFacts DEF Types
  <2>3. /\ inst' \in {inst, without} /\ instDisk' \in {instDisk, without}
        /\ at' = "launch" /\ unread' = skip
        /\ booted' = IF p = "none" \/ stale THEN packaged ELSE inst[p].build
        /\ UNCHANGED <<packaged, tmp, unsynced, sd, sdDisk, source, owed>>
    BY DEF bounds
  <2> HIDE <1>13 DEF p, stale, without
  <2>4. Types'
    BY <2>2, <2>3 DEF Types
  <2>5. Progress'
    BY <2>3 DEF Progress, Installing
  <2>6. InstalledIsSound'
    BY <2>2, <2>3 DEF InstalledIsSound, Sound
  <2>7. UpdateNotLost'
    BY <2>3 DEF UpdateNotLost
  <2>8. NoStaleChoice'
    <3>1. CASE p = "none" \/ stale
      BY <3>1, <2>3 DEF NoStaleChoice, Types
    <3>2. CASE p # "none" /\ ~stale
      <4> USE <3>2
      <4>1. p \in Paths /\ inst[p] # NoFile
        BY <2>1
      <4>2. inst[p].whole /\ inst[p].build \in Valid
        BY <4>1 DEF InstalledIsSound, Sound
      <4>3. ASSUME unread' = {}
            PROVE  Stamp[inst[p].build] # 0 => Stamp[inst[p].build] >= Stamp[packaged]
        <5>1. ~Stale(p, {})
          BY <4>3, <2>3 DEF stale
        <5>2. StampOf(p, {}) = Stamp[inst[p].build] /\ StampOf("packaged", {}) = Stamp[packaged]
          BY <4>1, <4>2 DEF StampOf
        <5>3. Stamp[inst[p].build] \in Nat /\ Stamp[packaged] \in Nat
          BY <4>2 DEF Types
        <5>. QED
          BY <5>1, <5>2, <5>3 DEF Stale
      <4>. QED
        BY <4>2, <4>3, <2>3 DEF NoStaleChoice
    <3>. QED
      BY <3>1, <3>2
  <2>. QED
    BY <2>4, <2>5, <2>6, <2>7, <2>8
<1>14. CASE run_player_supervised
  <2> USE <1>14 DEF run_player_supervised, Shutdown, PowerDown
  <2>1. Types'
    BY DEF Types
  <2>2. Progress'
    BY DEF Progress, Installing
  <2>3. InstalledIsSound'
    BY DEF InstalledIsSound, Sound
  <2>4. UpdateNotLost'
    BY DEF UpdateNotLost
  <2>5. NoStaleChoice'
    BY DEF NoStaleChoice, Types
  <2>. QED
    BY <2>1, <2>2, <2>3, <2>4, <2>5
<1>15. CASE PlayerEnds
  <2> USE <1>15 DEF PlayerEnds, Shutdown, PowerDown
  <2>1. Types'
    BY DEF Types
  <2>2. Progress'
    BY DEF Progress, Installing
  <2>3. InstalledIsSound'
    BY DEF InstalledIsSound, Sound
  <2>4. UpdateNotLost'
    BY DEF UpdateNotLost
  <2>5. NoStaleChoice'
    BY DEF NoStaleChoice
  <2>. QED
    BY <2>1, <2>2, <2>3, <2>4, <2>5
<1>16. CASE PowerLoss
  <2> USE <1>16 DEF PowerLoss, PowerDown
  <2>1. Types'
    BY DEF Types, Progress, Installing
  <2>2. Progress'
    BY DEF Progress, Installing
  <2>3. InstalledIsSound'
    <3>1. \A q \in Paths : inst'[q] \in {inst[q], instDisk[q]} /\ instDisk'[q] = inst'[q]
      BY DEF Progress
    <3> HIDE <1>16
    <3>. QED
      BY <3>1 DEF InstalledIsSound, Sound
  <2>4. UpdateNotLost'
    BY DEF UpdateNotLost
  <2>5. NoStaleChoice'
    BY DEF NoStaleChoice
  <2>. QED
    BY <2>1, <2>2, <2>3, <2>4, <2>5
<1>17. CASE UNCHANGED bootVars
  <2> USE <1>17 DEF bootVars
  <2>1. Types'
    BY DEF Types
  <2>2. Progress'
    BY DEF Progress, Installing
  <2>3. InstalledIsSound'
    BY DEF InstalledIsSound, Sound
  <2>4. UpdateNotLost'
    BY DEF UpdateNotLost
  <2>5. NoStaleChoice'
    BY DEF NoStaleChoice
  <2>. QED
    BY <2>1, <2>2, <2>3, <2>4, <2>5
<1>. QED
  BY <1>1, <1>2, <1>3, <1>4, <1>5, <1>6, <1>7, <1>8, <1>9, <1>10, <1>11, <1>12, <1>13, <1>14,
     <1>15, <1>16, <1>17 DEF BootNext, Step

LEMMA BootInvariant == BootSpec => []BootInv
BY InitBoot, StepBoot, PTL DEF BootSpec

\* Whatever call of installer_run() fails and whenever power goes, the players
\* in internal storage are whole, valid executables.
THEOREM InstallsAreSound == BootSpec => []InstalledIsSound
<1>. BootInv => InstalledIsSound
  BY DEF BootInv
<1>. QED
  BY BootInvariant, PTL

\* installer_run() removes an update from the card only when it is installed
\* for good.
THEOREM UpdatesAreKept == BootSpec => []UpdateNotLost
<1>. BootInv => UpdateNotLost
  BY DEF BootInv
<1>. QED
  BY BootInvariant, PTL

\* installer_internal_player_path() never lets an older stamped player shadow a
\* newer package, whichever of the players have a stamp.
THEOREM PackageNotShadowed == BootSpec => []NoStaleOverride
<1>. BootInv => NoStaleOverride
  BY DEF BootInv, NoStaleChoice, NoStaleOverride
<1>. QED
  BY BootInvariant, PTL
-----------------------------------------------------------------------------
\* Waiting for the card.

ReadyTypes ==
    /\ mounted \in BOOLEAN /\ card \subseteq Evidence /\ saw \subseteq Evidence
    /\ now \in Nat /\ elapsed \in Int /\ stage \in NONE .. EXEC_READY

ReadyInv == ReadyTypes /\ WaitIsSound

\* The end of a turn that began in time: what is reported, and how late it is.
LEMMA TurnEnds ==
    ASSUME ReadyInv, NEW s \in NONE .. EXEC_READY, NEW d \in Nat,
           d > 0 => now + d <= Hard, EndTurn(s, d)
    PROVE  /\ now' \in Nat /\ now' <= Hard + 1
           /\ \/ loop' = loop /\ elapsed' = elapsed /\ stage' = stage
              \/ elapsed' = now /\ stage' = s
<1> USE DeadlineAssumption DEF ReadyInv, ReadyTypes, WaitIsSound, WaitBounded
<1>1. CASE Return(now, s) /\ UNCHANGED <<now, progress>>
  BY <1>1 DEF Return
<1>2. CASE ~(now >= Hard) /\ now' = now + d + 1 /\ UNCHANGED <<loop, elapsed, stage>>
  BY <1>2
<1> QED
  BY <1>1, <1>2 DEF EndTurn

\* sd_ready.c: whatever the deadlines and whenever the card shows up, the wait
\* for the card ends at most one poll interval after the hard deadline, and the
\* stage it reports leaves out nothing it saw and no mount it made.
THEOREM WaitIsAlwaysSound == ReadySpec => []WaitIsSound
<1>1. ReadyInit => ReadyInv
  BY DeadlineAssumption DEF ReadyInit, ReadyInv, ReadyTypes, WaitIsSound, WaitBounded,
     StageIsHighest, None, NONE, EXEC_READY
<1>2. ReadyInv /\ [ReadyNext]_readyVars => ReadyInv'
  <2> SUFFICES ASSUME ReadyInv, [ReadyNext]_readyVars PROVE ReadyInv'
    OBVIOUS
  <2> USE DeadlineAssumption DEF ReadyInv, WaitIsSound
  <2>0. CASE UNCHANGED readyVars
    BY <2>0 DEF readyVars, ReadyTypes, WaitBounded, StageIsHighest
  <2>1. ASSUME NEW e \in Evidence, CardAppears(e) PROVE ReadyInv'
    BY <2>1 DEF CardAppears, ReadyTypes, WaitBounded, StageIsHighest, progress
  <2>2. CASE Begin \/ ClockFails \/ \E exec \in BOOLEAN : BeginWithoutClock(exec)
    BY <2>2 DEF Begin, ClockFails, BeginWithoutClock, Return, ReadyTypes, WaitBounded,
       StageIsHighest, progress, None, NONE, MOUNTED, EXEC_READY
  <2>3. ASSUME NEW exec \in BOOLEAN, PollMounted(exec) PROVE ReadyInv'
    <3>1. /\ loop = "poll" /\ mounted /\ UNCHANGED <<card, mounted, saw>>
      BY <2>3 DEF PollMounted
    <3>2. /\ now' \in Nat /\ now' <= Hard + 1
          /\ \/ loop' = loop /\ elapsed' = elapsed /\ stage' = stage
             \/ elapsed' = now /\ stage' \in {MOUNTED, EXEC_READY}
      <4>1. ASSUME EndTurn(MOUNTED, 0)
            PROVE  /\ now' \in Nat /\ now' <= Hard + 1
                   /\ \/ loop' = loop /\ elapsed' = elapsed /\ stage' = stage
                      \/ elapsed' = now /\ stage' \in {MOUNTED, EXEC_READY}
        BY <4>1, TurnEnds DEF MOUNTED, NONE, EXEC_READY
      <4>2. CASE EndTurn(MOUNTED, 0)
        BY <4>1, <4>2
      <4>3. CASE \/ Return(now, EXEC_READY) /\ UNCHANGED <<now, progress>>
                 \/ Return(now, MOUNTED) /\ UNCHANGED <<now, progress>>
        BY <4>3 DEF Return, ReadyTypes, WaitBounded
      <4> QED
        BY <2>3, <4>2, <4>3 DEF PollMounted
    <3> QED
      BY <3>1, <3>2 DEF ReadyTypes, WaitBounded, StageIsHighest, MOUNTED, NONE, EXEC_READY,
         MMC_EVIDENCE, NODE_PRESENT
  <2>4. ASSUME NEW d \in 0 .. Hard, PollMounts(d) PROVE ReadyInv'
    <3>1. saw' \subseteq Evidence
      <4>1. saw' = saw \cup {"partition"} \/ saw' = saw \cup (card \cap Nodes)
        BY <2>4 DEF PollMounts
      <4> QED
        BY <4>1 DEF ReadyTypes, Evidence
    <3>2. /\ loop' = "poll" /\ now' = now + d /\ d <= Hard - now /\ mounted' = TRUE
          /\ UNCHANGED <<card, elapsed, stage>>
      BY <2>4 DEF PollMounts
    <3> QED
      BY <3>1, <3>2 DEF ReadyTypes, WaitBounded, StageIsHighest
  <2>5. ASSUME NEW d \in 0 .. Hard, PollFails(d) PROVE ReadyInv'
    <3> DEFINE nodes == saw \cup (card \cap Nodes)
               seen == IF nodes \cap Nodes = {} THEN saw \cup card ELSE nodes
               s == stage_from_evidence(seen, mountedAt # None)
    <3>1. /\ ~mounted /\ loop = "poll" /\ saw' = seen /\ EndTurn(s, d) /\ UNCHANGED <<card, mounted>>
          /\ d > 0 => now + d <= Hard
      BY <2>5 DEF PollFails
    <3>2. /\ seen \subseteq Evidence /\ s \in NONE .. EXEC_READY
          /\ seen # {} => s >= MMC_EVIDENCE
          /\ seen \cap Nodes # {} => s >= NODE_PRESENT
      BY DEF stage_from_evidence, ReadyTypes, NONE, MMC_EVIDENCE, NODE_PRESENT, MOUNTED, EXEC_READY
    <3> HIDE DEF seen, s
    <3>3. /\ now' \in Nat /\ now' <= Hard + 1
          /\ \/ loop' = loop /\ elapsed' = elapsed /\ stage' = stage
             \/ elapsed' = now /\ stage' = s
      BY <3>1, <3>2, TurnEnds
    <3> QED
      BY <3>1, <3>2, <3>3 DEF ReadyTypes, WaitBounded, StageIsHighest
  <2> QED
    BY <2>0, <2>1, <2>2, <2>3, <2>4, <2>5 DEF ReadyNext, Wait
<1>3. ReadyInv => WaitIsSound
  BY DEF ReadyInv
<1> QED
  BY <1>1, <1>2, <1>3, PTL DEF ReadySpec
=============================================================================

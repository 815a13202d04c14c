------------------------------ MODULE Charging ------------------------------
(***************************************************************************)
(* The two limits on charging (hardware/charge_limiter.c).  Safe charging  *)
(* caps the current registers of the charger chips; what they held before  *)
(* is nowhere written down but in the chips, so it is captured, and saved  *)
(* to a file, before the first cap.  The charge limiter caps the voltage,  *)
(* whose default is a constant.  Everything runs on the UI thread; the     *)
(* chips keep their registers when the program or the device restarts, or  *)
(* lose them with the battery.                                             *)
(***************************************************************************)
EXTENDS Naturals

CONSTANTS Chips,            \* AXP2101, and on some boards MP2731
          CurrentCap,       \* AXP_CURRENT_CAP, MP_CURRENT_CAP
          Defaults,         \* currents a chip may come with
          MaxChargeToggles, \* bound: changes of the two settings
          MaxChargeFaults,  \* bound: polls in which a call fails
          MaxChargeCuts     \* bound: restarts

ASSUME ChargeBounds ==
    /\ CurrentCap \in Nat /\ Defaults \subseteq Nat
    /\ {MaxChargeToggles, MaxChargeFaults, MaxChargeCuts} \subseteq Nat

VARIABLES
    chgWish,   \* safe_charging_enabled and charge_limiter_enabled
    current,   \* the current registers
    voltage,   \* the voltage registers: capped or not
    limited,   \* voltage_limited
    baseline,  \* baseline: loaded, the chips whose current is known, the currents
    chgFiles,  \* the baseline file at its new and its old place
    chgDisk,   \* at either place, what a restart may find
    chgAt,     \* what the UI thread does next
    chipDefault, \* history: what the chips came with
    unlucky,   \* history: a file there was did not open or read, or a directory was not synced
    chgCount   \* toggles, faults and restarts so far

chargeVars == <<chgWish, current, voltage, limited, baseline, chgFiles, chgDisk, chgAt, chipDefault, unlucky, chgCount>>

NoCurrents == [c \in Chips |-> 0]

\* A file is missing, of an older version, or holds a current for each chip.
Absent == [kind |-> "absent", of |-> NoCurrents]
Stale == [kind |-> "stale", of |-> NoCurrents]
Saved(of) == [kind |-> "saved", of |-> of]
NothingCaptured == [loaded |-> FALSE, valid |-> {}, of |-> NoCurrents]

ChargeTypeOK ==
    /\ chgWish \in [safe : BOOLEAN, limit : BOOLEAN]
    /\ current \in [Chips -> Nat] /\ voltage \in [Chips -> {"full", "capped"}]
    /\ baseline.valid \subseteq Chips
    /\ \A place \in {"new", "old"} : chgFiles[place] \in chgDisk[place]
    /\ chgAt \in {"idle", "limit", "safe", "apply"}

\* A device that never capped: it has no file, or one of either version.
ChargeInit ==
    /\ chgWish \in [safe : BOOLEAN, limit : {FALSE}]
    /\ chipDefault \in [Chips -> Defaults] /\ current = chipDefault
    /\ voltage = [c \in Chips |-> "full"] /\ limited = FALSE
    /\ baseline = NothingCaptured
    /\ \E new \in {Absent, Stale}, old \in {Absent, Stale, Saved(chipDefault)} :
         /\ chgFiles = [new |-> new, old |-> old]
         /\ chgDisk = [new |-> {new}, old |-> {old}]
    /\ chgAt = "idle" /\ unlucky = FALSE
    /\ chgCount = [toggles |-> 0, faults |-> 0, cuts |-> 0]

ChargeFault == chgCount.faults < MaxChargeFaults /\ chgCount' = [chgCount EXCEPT !.faults = @ + 1]

----------------------------------------------------------------------------
\* The switches of the settings screen, each of which polls at once

Toggle(which) ==
    /\ chgAt = "idle" /\ chgCount.toggles < MaxChargeToggles
    /\ chgCount' = [chgCount EXCEPT !.toggles = @ + 1]
    /\ chgWish' = [chgWish EXCEPT ![which] = ~@]
    /\ chgAt' = which
    /\ UNCHANGED <<current, voltage, limited, baseline, chgFiles, chgDisk, chipDefault, unlucky>>

\* charge_limiter_poll(): the voltage of every chip is tried, and the whole
\* confirmed: each register by reading it back, and that the charger is on.
LimitPoll ==
    /\ chgAt \in {"idle", "limit"}
    /\ \E done \in SUBSET Chips, confirmed \in BOOLEAN :
         /\ IF done = Chips /\ confirmed THEN UNCHANGED chgCount ELSE ChargeFault
         /\ voltage' = [c \in Chips |-> IF c \notin done THEN voltage[c]
                                        ELSE IF chgWish.limit THEN "capped" ELSE "full"]
         /\ limited' = (chgWish.limit /\ done = Chips /\ confirmed)
    /\ chgAt' = "idle"
    /\ UNCHANGED <<chgWish, current, baseline, chgFiles, chgDisk, chipDefault, unlucky>>

----------------------------------------------------------------------------
\* capture_baseline(), once

\* load_baseline(): the file at the new place, or at the old one if the new
\* one does not open.
Preferred ==
    IF chgFiles.new # Absent THEN "new" ELSE IF chgFiles.old # Absent THEN "old" ELSE "none"

\* What is known after reading it, and the chips still to ask.
AfterLoad(place) ==
    IF place = "none" THEN baseline
    ELSE IF chgFiles[place].kind = "saved"
    THEN [loaded |-> FALSE, valid |-> Chips, of |-> chgFiles[place].of]
    ELSE NothingCaptured

\* A file of an older version is removed, and its directory not synced.
Removed(place) ==
    IF place # "none" /\ chgFiles[place].kind = "stale" THEN {place} ELSE {}

Asked(b, chips) ==
    [b EXCEPT !.valid = @ \cup chips, !.of = [c \in Chips |-> IF c \in chips THEN current[c] ELSE @[c]]]

FilesAfter(gone) == [place \in {"new", "old"} |-> IF place \in gone THEN Absent ELSE chgFiles[place]]
DiskAfter(gone) == [place \in {"new", "old"} |-> chgDisk[place] \cup (IF place \in gone THEN {Absent} ELSE {})]

\* The directory does not sync, and nobody looks.
SavesUnsynced(b, gone) ==
    /\ chgFiles' = [FilesAfter(gone) EXCEPT !.new = Saved(b.of)]
    /\ chgDisk' = [DiskAfter(gone) EXCEPT !.new = @ \cup {Saved(b.of)}]

\* save_baseline(): a temporary file, synced, takes the name; then the directory.
Saves(b, gone) ==
    /\ chgFiles' = [FilesAfter(gone) EXCEPT !.new = Saved(b.of)]
    /\ chgDisk' = [DiskAfter(gone) EXCEPT !.new = {Saved(b.of)}]

\* The chips are asked in turn; the first that does not answer ends the capture
\* for now, and what is known stays known.
AsksInTurn(b, first) == Asked(b, {c \in Chips \ b.valid : c < first})

Captures ==
    /\ chgAt \in {"idle", "safe"} /\ ~baseline.loaded
    /\ LET place == Preferred
           b == AfterLoad(place)
           all == Asked(b, Chips \ b.valid)
       IN \/ /\ Saves(all, Removed(place))
             /\ baseline' = [all EXCEPT !.loaded = TRUE]
             /\ chgAt' = "apply"
             /\ UNCHANGED <<unlucky, chgCount>>
          \/ /\ ChargeFault /\ unlucky' = TRUE
             /\ SavesUnsynced(all, Removed(place))
             /\ baseline' = [all EXCEPT !.loaded = TRUE]
             /\ chgAt' = "apply"
          \/ \* the save fails, or a chip does not answer
             /\ ChargeFault
             /\ \/ baseline' = NothingCaptured
                \/ \E first \in Chips \ b.valid : baseline' = AsksInTurn(b, first)
             /\ chgFiles' = FilesAfter(Removed(place)) /\ chgDisk' = DiskAfter(Removed(place))
             /\ chgAt' = "idle"
             /\ UNCHANGED unlucky
    /\ UNCHANGED <<chgWish, current, voltage, limited, chipDefault>>

Fallback == IF Preferred = "new" /\ chgFiles.old # Absent THEN "old" ELSE "none"

\* What load_baseline() makes of a file that is there and fails it: one that does
\* not open is taken for missing, one that does not read is removed like a stale one.
FailedLoads ==
    {[known |-> AfterLoad(Fallback), gone |-> Removed(Fallback)],
     [known |-> NothingCaptured, gone |-> {Preferred}]}

\* Then the chips are asked, or one does not answer, or the save fails as well.
CapturesBlind ==
    /\ chgAt \in {"idle", "safe"} /\ ~baseline.loaded
    /\ ChargeFault /\ unlucky' = TRUE
    /\ Preferred # "none"
    /\ \E l \in FailedLoads :
         LET all == Asked(l.known, Chips \ l.known.valid)
         IN \/ /\ Saves(all, l.gone)
               /\ baseline' = [all EXCEPT !.loaded = TRUE]
               /\ chgAt' = "apply"
            \/ /\ \/ baseline' = NothingCaptured
                  \/ \E first \in Chips \ l.known.valid : baseline' = AsksInTurn(l.known, first)
               /\ chgFiles' = FilesAfter(l.gone) /\ chgDisk' = DiskAfter(l.gone)
               /\ chgAt' = "idle"
    /\ UNCHANGED <<chgWish, current, voltage, limited, chipDefault>>

\* safe_charging_poll() with the baseline at hand.
CaptureKnown ==
    /\ chgAt \in {"idle", "safe"} /\ baseline.loaded
    /\ chgAt' = "apply"
    /\ UNCHANGED <<chgWish, current, voltage, limited, baseline, chgFiles, chgDisk, chipDefault, unlucky, chgCount>>

----------------------------------------------------------------------------
\* The rest of safe_charging_poll()

LowerOf(a, b) == IF a < b THEN a ELSE b

\* Mutant: the current is put back by the routine that only lowers it.
SetCurrentNeverUp(c) ==
    IF chgWish.safe THEN LowerOf(current[c], CurrentCap)
    ELSE IF baseline.of[c] > CurrentCap THEN LowerOf(current[c], baseline.of[c]) ELSE current[c]

\* A cap never raises; a default above the cap is put back exactly.
SetCurrent(c) ==
    IF chgWish.safe THEN LowerOf(current[c], CurrentCap)
    ELSE IF baseline.of[c] > CurrentCap THEN baseline.of[c] ELSE current[c]

Applies ==
    /\ chgAt = "apply"
    /\ \E done \in SUBSET Chips :
         /\ IF done = Chips THEN UNCHANGED chgCount ELSE ChargeFault
         /\ current' = [c \in Chips |-> IF c \in done THEN SetCurrent(c) ELSE current[c]]
    /\ chgAt' = "idle"
    /\ UNCHANGED <<chgWish, voltage, limited, baseline, chgFiles, chgDisk, chipDefault, unlucky>>

SafePoll == Captures \/ CapturesBlind \/ CaptureKnown \/ Applies

\* The program or the device restarts, with the settings that were saved; the
\* chips keep their registers or, without a battery, lose them.
Restarts ==
    /\ chgCount.cuts < MaxChargeCuts
    /\ chgCount' = [chgCount EXCEPT !.cuts = @ + 1]
    /\ chgWish' \in [safe : BOOLEAN, limit : BOOLEAN]
    /\ \/ UNCHANGED <<current, voltage>>
       \/ current' = chipDefault /\ voltage' = [c \in Chips |-> "full"]
    /\ \E new \in chgDisk.new, old \in chgDisk.old :
         /\ chgFiles' = [new |-> new, old |-> old]
         /\ chgDisk' = [new |-> {new}, old |-> {old}]
    /\ baseline' = NothingCaptured /\ limited' = FALSE
    /\ chgAt' = "idle"
    /\ UNCHANGED <<chipDefault, unlucky>>

ChargeNext ==
    \/ \E which \in {"safe", "limit"} : Toggle(which)
    \/ LimitPoll \/ SafePoll \/ Restarts

\* Both polls run on every tick of the UI loop they are due at; the one of the
\* voltage does not run in the middle of the other.
ChargeFairness == SF_chargeVars(LimitPoll) /\ WF_chargeVars(SafePoll)

ChargeSpec == ChargeInit /\ [][ChargeNext]_chargeVars /\ ChargeFairness

----------------------------------------------------------------------------
\* Properties

\* "A live pre-cap read remains the only source of truth": whenever a register
\* is not at its default, the default is on the disk, whatever a restart finds.
BaselineKept ==
    \A c \in Chips : current[c] # chipDefault[c] =>
        unlucky \/ \A f \in chgDisk.new : f.kind = "saved" /\ f.of[c] = chipDefault[c]

Settled ==
    \A c \in Chips :
        /\ current[c] = IF chgWish.safe THEN LowerOf(chipDefault[c], CurrentCap) ELSE chipDefault[c]
        /\ voltage[c] = IF chgWish.limit THEN "capped" ELSE "full"

\* The switches decide in the end: a cap comes, and what the chip had before
\* comes back, across restarts at any step and calls that fail; and the voltage
\* is held when the program says so.
ChargeSettles ==
    /\ [](ChargeTypeOK /\ BaselineKept /\ (limited => \A c \in Chips : voltage[c] = "capped"))
    /\ <>[](unlucky \/ Settled)
=============================================================================

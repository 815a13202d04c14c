----------------------------- MODULE ArtworkSlot ----------------------------
(***************************************************************************)
(* The one decode slot of the artwork workers (library/                    *)
(* artwork_coordinator.c): who gets it, who waits, who gives way.          *)
(*                                                                         *)
(* Every job has a priority.  A job waits on the condition variable while  *)
(* the slot is taken or a more important job waits, looks again at least   *)
(* every 50 ms, and gives up when its time is over or it is cancelled.     *)
(* Memory and playback change at any time.                                 *)
(***************************************************************************)
EXTENDS Naturals, FiniteSets

CONSTANTS Jobs,        \* the worker threads
          Prio,        \* their priority: 2 player cover, 1 thumbnail, 0 warmer
          MaxAcquires, \* times a job asks for the slot
          MaxChanges   \* times memory or playback change, jobs are cancelled

ASSUME ArtworkAssumption ==
    /\ IsFiniteSet(Jobs)
    /\ Prio \in [Jobs -> 0..2]
    /\ {MaxAcquires, MaxChanges} \subseteq Nat

VARIABLES
    jobPc,       \* per job: "idle", "ask", "lock", "wait", "decode"
    cancelled,   \* the jobs whose cancel callback says so
    isDecoding,  \* is_decoding
    pending,     \* pending_player_count and pending_thumb_count, by priority
    lowMem,      \* the jobs memory admission refuses
    playing,     \* audio_is_playing()
    acquires, changes

artworkVars == <<jobPc, cancelled, isDecoding, pending, lowMem, playing, acquires, changes>>

Counted == {1, 2}

ArtworkTypeOK ==
    /\ jobPc \in [Jobs -> {"idle", "ask", "lock", "wait", "decode"}]
    /\ cancelled \subseteq Jobs /\ isDecoding \in BOOLEAN /\ playing \in BOOLEAN
    /\ pending \in [Counted -> Nat] /\ lowMem \subseteq Jobs
    /\ acquires \in 0..MaxAcquires /\ changes \in 0..MaxChanges

ArtworkInit ==
    /\ jobPc = [j \in Jobs |-> "idle"] /\ cancelled = {} /\ isDecoding = FALSE
    /\ pending = [p \in Counted |-> 0] /\ lowMem = {} /\ playing = FALSE
    /\ acquires = 0 /\ changes = 0

SlotGoes(j, pc) == jobPc' = [jobPc EXCEPT ![j] = pc]
Counts(j) == [p \in Counted |-> IF p = Prio[j] THEN pending[p] + 1 ELSE pending[p]]
Uncounts(j) == [p \in Counted |-> IF p = Prio[j] THEN pending[p] - 1 ELSE pending[p]]
World == <<lowMem, playing, changes>>

\* A more important job is waiting.
Outranked(j) == \E p \in Counted : p > Prio[j] /\ pending[p] > 0

----------------------------------------------------------------------------
\* artwork_coordinator_acquire()

AsksForSlot(j) ==
    /\ jobPc[j] = "idle" /\ acquires < MaxAcquires
    /\ acquires' = acquires + 1
    /\ cancelled' = cancelled \ {j}
    /\ SlotGoes(j, "ask")
    /\ UNCHANGED <<isDecoding, pending, World>>

\* The cancel callback and the memory are looked at before the lock is taken.
Admitted(j) ==
    /\ jobPc[j] = "ask"
    /\ SlotGoes(j, IF j \in cancelled \/ j \in lowMem THEN "idle" ELSE "lock")
    /\ UNCHANGED <<cancelled, isDecoding, pending, acquires, World>>

\* A warmer never waits; the others are counted.
JoinsQueue(j) ==
    /\ jobPc[j] = "lock"
    /\ IF Prio[j] = 0 /\ (playing \/ Outranked(j) \/ isDecoding)
       THEN SlotGoes(j, "idle") /\ UNCHANGED pending
       ELSE SlotGoes(j, "wait") /\ pending' = Counts(j)
    /\ UNCHANGED <<cancelled, isDecoding, acquires, World>>

MustWait(j) == isDecoding \/ Outranked(j)

\* Given up: cancelled, or the time is over.
GivesUpSlot(j) ==
    /\ jobPc[j] = "wait" /\ MustWait(j)
    /\ SlotGoes(j, "idle")
    /\ pending' = Uncounts(j)
    /\ UNCHANGED <<cancelled, isDecoding, acquires, World>>

\* The memory is looked at once more before the slot is taken.
TakesSlot(j) ==
    /\ jobPc[j] = "wait" /\ ~MustWait(j)
    /\ pending' = Uncounts(j)
    /\ IF j \in lowMem
       THEN SlotGoes(j, "idle") /\ UNCHANGED isDecoding
       ELSE SlotGoes(j, "decode") /\ isDecoding' = TRUE
    /\ UNCHANGED <<cancelled, acquires, World>>

\* Mutant: a decode gives way to a cancel only.
YieldsToCancel(j) == j \in cancelled

\* artwork_coordinator_should_yield()
ShouldYield(j) == j \in cancelled \/ Outranked(j) \/ (Prio[j] = 0 /\ playing)

\* artwork_coordinator_release(): the decode is done, or gives way.
ReleasesSlot(j) ==
    /\ jobPc[j] = "decode"
    /\ SlotGoes(j, "idle")
    /\ isDecoding' = FALSE
    /\ UNCHANGED <<cancelled, pending, acquires, World>>

----------------------------------------------------------------------------
Changes == changes < MaxChanges /\ changes' = changes + 1

CancelsJob(j) ==
    /\ jobPc[j] # "idle" /\ j \notin cancelled /\ Changes
    /\ cancelled' = cancelled \cup {j}
    /\ UNCHANGED <<jobPc, isDecoding, pending, lowMem, playing, acquires>>

\* Memory is short for some of the jobs: the reserve falls with the priority, but what
\* a job's own picture needs is added to it.
WorldChanges ==
    /\ Changes
    /\ \/ playing' = ~playing /\ UNCHANGED lowMem
       \/ lowMem' \in (SUBSET Jobs) \ {lowMem} /\ UNCHANGED playing
    /\ UNCHANGED <<jobPc, cancelled, isDecoding, pending, acquires>>

SlotStep(j) == Admitted(j) \/ JoinsQueue(j) \/ GivesUpSlot(j) \/ TakesSlot(j)

ArtworkNext ==
    \/ \E j \in Jobs : AsksForSlot(j) \/ SlotStep(j) \/ ReleasesSlot(j) \/ CancelsJob(j)
    \/ WorldChanges

ArtworkSpec == ArtworkInit /\ [][ArtworkNext]_artworkVars

\* A waiting job looks again every 50 ms; a decoder that should give way does, or
\* never asks and comes to the end of its picture.
ArtworkFairness ==
    \A j \in Jobs : /\ WF_artworkVars(Admitted(j) \/ JoinsQueue(j) \/ TakesSlot(j))
                    /\ WF_artworkVars(ShouldYield(j) /\ ReleasesSlot(j))

ArtworkFairSpec == ArtworkSpec /\ ArtworkFairness

----------------------------------------------------------------------------
\* Properties

\* One image is decoded at a time, and the slot is taken exactly then.
OneDecoder ==
    /\ \A i, j \in Jobs : jobPc[i] = "decode" /\ jobPc[j] = "decode" => i = j
    /\ isDecoding <=> \E j \in Jobs : jobPc[j] = "decode"

\* Every job that leaves, whichever way, is no longer counted as waiting: a
\* stale count would hold back every less important job for ever.
PendingExact ==
    \A p \in Counted : pending[p] = Cardinality({j \in Jobs : jobPc[j] = "wait" /\ Prio[j] = p})

\* Strict priority: the slot is not given to a job while a more important one waits.
NoInversion ==
    [][\A i, j \in Jobs :
         jobPc[i] = "wait" /\ jobPc'[i] = "decode" /\ jobPc[j] = "wait" => Prio[j] <= Prio[i]]_artworkVars

\* The cover of the player does not wait for its time to run out behind a
\* thumbnail or the warmer: they give way or end, and it gets the slot or is refused.
CoverServed == \A j \in Jobs : Prio[j] = 2 => []<>(jobPc[j] # "wait")

\* The slot and the counts that guard it say what the jobs are doing; a more
\* important picture goes first, and the cover gets its turn.
CoverFirst == [](OneDecoder /\ PendingExact) /\ NoInversion /\ CoverServed
=============================================================================

----------------------------- MODULE Checkpoint -----------------------------
(***************************************************************************)
(* The queue checkpoint (ui/gui_player.c, library/queue_resume.c): the     *)
(* play queue and its position are kept in a file on the card, or in the   *)
(* internal storage when the queue is not all on a mounted card, written   *)
(* by one short-lived worker at a time.                                    *)
(*                                                                         *)
(* A number stands for the queue together with its position (the code      *)
(* compares the revision, and the position to within a second).  A file    *)
(* is the number of what it holds, 0 for no file: queue_resume_write_at()  *)
(* looks at every result and renames a synced file, so it is never torn.   *)
(* A lazy queue too large to be written ("large") has its files removed; a *)
(* queue with streams in it ("remote") is not written.                     *)
(***************************************************************************)
EXTENDS Naturals

CONSTANTS MaxQueues,      \* queue changes
          MaxWriteFaults, \* failing writes and failing thread starts
          MaxCardMoves    \* times the card goes or comes back

ASSUME CheckpointBounds == {MaxQueues, MaxWriteFaults, MaxCardMoves} \subseteq Nat

VARIABLES
    ckQueue,    \* the queue: its number and what it is made of
    ckDropped,  \* the files were removed for the present (large) queue
    ckCard,     \* the card is mounted
    ckLast,     \* checkpoint_revision_internal and _sd
    ckRunning,  \* checkpoint_running
    ckWorker,   \* the worker: where it is, its target and what it writes
    ckFailed,   \* checkpoint_failure_pending
    ckUrgent,   \* checkpoint_urgent_pending
    ckCleanup,  \* checkpoint_large_lazy_cleanup_pending
    ckFile,     \* the two files
    ckPhase,    \* "on", the stages of gui_player_queue_flush(), "off"
    ckFaults, ckMoves

checkpointVars == <<ckQueue, ckDropped, ckCard, ckLast, ckRunning, ckWorker, ckFailed, ckUrgent,
                    ckCleanup, ckFile, ckPhase, ckFaults, ckMoves>>

Targets == {"internal", "card"}
Kinds == {"none", "card", "internal", "remote", "large"}

CheckpointTypeOK ==
    /\ ckQueue \in [rev : 1..MaxQueues + 1, kind : Kinds]
    /\ {ckDropped, ckCard, ckRunning, ckFailed, ckUrgent, ckCleanup} \subseteq BOOLEAN
    /\ ckLast \in [Targets -> 0..MaxQueues + 1]
    /\ ckWorker \in [pc : {"write", "cleanup", "done"}, to : Targets, rev : 0..MaxQueues + 1]
    /\ ckFile \in [Targets -> 0..MaxQueues + 1]
    /\ ckPhase \in {"on", "join", "write", "last", "off"}
    /\ ckFaults \in 0..MaxWriteFaults /\ ckMoves \in 0..MaxCardMoves

CheckpointInit ==
    /\ ckQueue = [rev |-> 1, kind |-> "none"] /\ ckDropped = FALSE
    /\ ckCard \in BOOLEAN
    /\ ckLast = [t \in Targets |-> 0]
    /\ ckRunning = FALSE /\ ckWorker = [pc |-> "done", to |-> "internal", rev |-> 0]
    /\ ckFailed = FALSE /\ ckUrgent = FALSE /\ ckCleanup = FALSE
    /\ ckFile = [t \in Targets |-> 0]
    /\ ckPhase = "on" /\ ckFaults = 0 /\ ckMoves = 0

WriteFault == ckFaults < MaxWriteFaults /\ ckFaults' = ckFaults + 1

\* Where the present queue belongs: a queue all on the card goes to the card.
TargetOf(queue, mounted) ==
    IF queue.kind = "card" /\ mounted THEN "card" ELSE "internal"

\* Mutant: a worker that has ended but was not joined counts as writing.
WorkerBusyUntilJoined == ckRunning

WorkerBusy == ckRunning /\ ckWorker.pc # "done"

----------------------------------------------------------------------------
\* gui_player_queue_checkpoint(), with no worker still writing

\* A large queue: join the worker that has ended, remove every file.
DropFiles ==
    /\ ckUrgent' = FALSE /\ ckRunning' = FALSE /\ ckCleanup' = FALSE
    /\ ckFile' = [t \in Targets |-> IF t = "card" /\ ~ckCard THEN ckFile[t] ELSE 0]
    /\ ckLast' = [t \in Targets |-> 0]
    /\ ckDropped' = TRUE
    /\ UNCHANGED <<ckWorker, ckFailed, ckFaults>>

\* What an ended worker's failure does to the revisions taken as written.
Rechecked == IF ckRunning /\ ckFailed THEN [t \in Targets |-> 0] ELSE ckLast

\* A queue that may be written: the worker is started when the target does
\* not have it yet; what was asked for counts as written from here on, until
\* the worker says it failed.
WriteQueue ==
    LET to == TargetOf(ckQueue, ckCard) IN
    /\ ckCleanup' = FALSE
    /\ \/ /\ \/ ckQueue.kind \in {"none", "remote"}
             \/ Rechecked[to] = ckQueue.rev
          /\ ckLast' = Rechecked /\ ckRunning' = FALSE
          /\ UNCHANGED <<ckWorker, ckFailed, ckFaults>>
       \/ /\ ckQueue.kind \in {"card", "internal"} /\ Rechecked[to] # ckQueue.rev
          /\ \/ /\ ckLast' = [Rechecked EXCEPT ![to] = ckQueue.rev]
                /\ ckRunning' = TRUE
                /\ ckWorker' = [pc |-> "write", to |-> to, rev |-> ckQueue.rev]
                /\ UNCHANGED <<ckFailed, ckFaults>>
             \* the directory cannot be opened
             \/ /\ WriteFault
                /\ ckLast' = [Rechecked EXCEPT ![to] = 0]
                /\ ckRunning' = FALSE /\ ckFailed' = TRUE
                /\ UNCHANGED ckWorker
             \* the thread cannot be started
             \/ /\ WriteFault
                /\ ckLast' = [Rechecked EXCEPT ![to] = 0]
                /\ ckRunning' = FALSE
                /\ UNCHANGED <<ckWorker, ckFailed>>
    /\ UNCHANGED <<ckFile, ckDropped>>

CheckpointCall ==
    \/ /\ ckQueue.kind = "large" /\ ~WorkerBusy
       /\ DropFiles
    \/ /\ ckQueue.kind = "large" /\ WorkerBusy
       /\ ckCleanup' = TRUE /\ ckUrgent' = FALSE
       /\ UNCHANGED <<ckLast, ckRunning, ckWorker, ckFailed, ckFile, ckDropped, ckFaults>>
    \/ /\ ckQueue.kind # "large" /\ ~WorkerBusy
       /\ WriteQueue
    \/ /\ ckQueue.kind # "large" /\ WorkerBusy
       /\ UNCHANGED <<ckCleanup, ckLast, ckRunning, ckWorker, ckFailed, ckFile, ckDropped, ckFaults>>

\* The periodic checkpoint of gui_queue_poll(): every 30 s, sooner after a change.
PeriodicCheckpoint ==
    /\ ckPhase = "on"
    /\ CheckpointCall
    /\ ckQueue.kind # "large" => UNCHANGED ckUrgent
    /\ UNCHANGED <<ckQueue, ckCard, ckPhase, ckMoves>>

\* gui_player_queue_checkpoint_urgent(), on a pause.
UrgentCheckpoint ==
    /\ ckPhase = "on"
    /\ \/ /\ WorkerBusy
          /\ ckUrgent' = TRUE
          /\ UNCHANGED <<ckCleanup, ckLast, ckRunning, ckWorker, ckFailed, ckFile, ckDropped, ckFaults>>
       \/ /\ ~WorkerBusy
          /\ CheckpointCall
          /\ ckQueue.kind # "large" => UNCHANGED ckUrgent
    /\ UNCHANGED <<ckQueue, ckCard, ckPhase, ckMoves>>

\* gui_player_queue_poll_urgent(), on every tick.
PollUrgent ==
    /\ ckPhase = "on" /\ ckUrgent /\ ~WorkerBusy
    /\ ckUrgent' = FALSE
    /\ CheckpointCall
    /\ UNCHANGED <<ckQueue, ckCard, ckPhase, ckMoves>>

----------------------------------------------------------------------------
\* queue_checkpoint_worker()

WorkerWrites ==
    /\ ckRunning /\ ckWorker.pc = "write"
    /\ \/ /\ ckWorker.to = "card" => ckCard
          /\ ckFile' = [ckFile EXCEPT ![ckWorker.to] = ckWorker.rev]
          /\ ckFailed' = FALSE
          /\ UNCHANGED ckFaults
       \/ /\ IF ckWorker.to = "card" /\ ~ckCard THEN UNCHANGED ckFaults ELSE WriteFault
          /\ ckFailed' = TRUE
          /\ UNCHANGED ckFile
    /\ ckWorker' = [ckWorker EXCEPT !.pc = "cleanup"]
    /\ UNCHANGED <<ckQueue, ckDropped, ckCard, ckLast, ckRunning, ckUrgent, ckCleanup, ckPhase, ckMoves>>

\* The flag of a large queue that came meanwhile: what was written goes again.
WorkerCleansUp ==
    /\ ckRunning /\ ckWorker.pc = "cleanup"
    /\ ckFile' = IF ckCleanup /\ (ckWorker.to = "card" => ckCard)
                 THEN [ckFile EXCEPT ![ckWorker.to] = 0] ELSE ckFile
    /\ ckWorker' = [ckWorker EXCEPT !.pc = "done"]
    /\ UNCHANGED <<ckQueue, ckDropped, ckCard, ckLast, ckRunning, ckFailed, ckUrgent, ckCleanup,
                   ckPhase, ckFaults, ckMoves>>

----------------------------------------------------------------------------
\* The queue, the card and the end

\* Any edit of the queue, a track change, or the position moving on.
QueueChanges ==
    /\ ckPhase = "on" /\ ckQueue.rev <= MaxQueues
    /\ \E kind \in Kinds \ {"none"} :
         /\ kind \in {"card", "large"} => ckCard
         /\ ckQueue' = [rev |-> ckQueue.rev + 1, kind |-> kind]
    /\ ckDropped' = FALSE
    /\ UNCHANGED <<ckCard, ckLast, ckRunning, ckWorker, ckFailed, ckUrgent, ckCleanup, ckFile,
                   ckPhase, ckFaults, ckMoves>>

\* gui_player_handle_sd_unmount(): a queue with any path on the card goes with
\* it (one kept in the internal storage, or with streams in it, may have one),
\* the card's revision is forgotten, the worker is not waited for.
CardGoes ==
    /\ ckPhase = "on" /\ ckCard /\ ckMoves < MaxCardMoves
    /\ ckCard' = FALSE /\ ckMoves' = ckMoves + 1
    /\ ckLast' = [ckLast EXCEPT !["card"] = 0]
    /\ \/ /\ ckQueue.kind # "none" /\ ckQueue.rev <= MaxQueues
          /\ ckQueue' = [rev |-> ckQueue.rev + 1, kind |-> "none"]
          /\ ckDropped' = FALSE
       \/ ckQueue.kind \notin {"card", "large"} /\ UNCHANGED <<ckQueue, ckDropped>>
    /\ UNCHANGED <<ckRunning, ckWorker, ckFailed, ckUrgent, ckCleanup, ckFile, ckPhase, ckFaults>>

CardComes ==
    /\ ckPhase = "on" /\ ~ckCard /\ ckMoves < MaxCardMoves
    /\ ckCard' = TRUE /\ ckMoves' = ckMoves + 1
    /\ UNCHANGED <<ckQueue, ckDropped, ckLast, ckRunning, ckWorker, ckFailed, ckUrgent, ckCleanup,
                   ckFile, ckPhase, ckFaults>>

\* gui_player_queue_flush(), before a power-off or a reboot: joins a running
\* worker, asks for a checkpoint, joins the worker that one may have started.
FlushLeaves == UNCHANGED <<ckQueue, ckCard, ckMoves>>
FlushBegins ==
    /\ ckPhase = "on" /\ ckPhase' = "join"
    /\ UNCHANGED <<ckDropped, ckLast, ckRunning, ckWorker, ckFailed, ckUrgent, ckCleanup, ckFile, ckFaults>>
    /\ FlushLeaves
FlushJoins ==
    /\ ckPhase = "join" /\ ~WorkerBusy
    /\ ckRunning' = FALSE /\ ckPhase' = "write"
    /\ UNCHANGED <<ckDropped, ckLast, ckWorker, ckFailed, ckUrgent, ckCleanup, ckFile, ckFaults>>
    /\ FlushLeaves
FlushWrites ==
    /\ ckPhase = "write" /\ ckPhase' = "last"
    /\ CheckpointCall
    /\ ckQueue.kind # "large" => UNCHANGED ckUrgent
    /\ FlushLeaves
FlushEnds ==
    /\ ckPhase = "last" /\ ~WorkerBusy
    /\ ckRunning' = FALSE /\ ckPhase' = "off"
    /\ UNCHANGED <<ckDropped, ckLast, ckWorker, ckFailed, ckUrgent, ckCleanup, ckFile, ckFaults>>
    /\ FlushLeaves

CheckpointNext ==
    \/ PeriodicCheckpoint \/ UrgentCheckpoint \/ PollUrgent
    \/ WorkerWrites \/ WorkerCleansUp
    \/ QueueChanges \/ CardGoes \/ CardComes
    \/ FlushBegins \/ FlushJoins \/ FlushWrites \/ FlushEnds

CheckpointSpec == CheckpointInit /\ [][CheckpointNext]_checkpointVars

\* The timers of the screen thread keep coming round, and a worker runs to its end.
CheckpointFairness ==
    /\ WF_checkpointVars(PeriodicCheckpoint)
    /\ WF_checkpointVars(PollUrgent)
    /\ WF_checkpointVars(WorkerWrites) /\ WF_checkpointVars(WorkerCleansUp)
    /\ WF_checkpointVars(FlushJoins) /\ WF_checkpointVars(FlushWrites) /\ WF_checkpointVars(FlushEnds)

CheckpointFairSpec == CheckpointSpec /\ CheckpointFairness

----------------------------------------------------------------------------
\* Properties

\* Once the files were removed for a queue too large to write, no worker that
\* was on its way brings an older queue back.
LargeQueueStaysDropped == ckDropped /\ ckMoves = 0 => \A t \in Targets : ckFile[t] = 0

\* A present queue that counts as written is written, on its way, or known to
\* have failed: the revision comparison never hides a queue that is in no file.
WrittenOrKnown ==
    ckPhase = "on" =>
    \A t \in Targets :
        \/ ckLast[t] # ckQueue.rev
        \/ ckFile[t] = ckLast[t]
        \/ ckRunning /\ ckWorker.to = t
        \/ ckRunning /\ ckFailed

\* A queue that stays is in its file at last, whatever writes failed before:
\* the next periodic checkpoint tries again.
QueueReachesFile ==
    <>[](ckPhase = "on" /\ ckQueue.kind \in {"card", "internal"} =>
           ckFile[TargetOf(ckQueue, ckCard)] = ckQueue.rev)

\* An orderly power-off keeps the queue when no write failed.
FlushKeepsQueue ==
    ckPhase = "off" /\ ckFaults = 0 /\ ckMoves = 0 /\ ckQueue.kind \in {"card", "internal"} =>
        ckFile[TargetOf(ckQueue, ckCard)] = ckQueue.rev

\* gui_player.c:4705, of a write that failed: "Retry on the next checkpoint".
\* The checkpoint of the flush is such a next one: it leaves a failed write
\* behind only if it tried again.
FlushRetries ==
    [][FlushWrites /\ ckQueue.kind \in {"card", "internal"} =>
         ckRunning' \/ ckFile[TargetOf(ckQueue, ckCard)] = ckQueue.rev \/ ckFaults' # ckFaults]_checkpointVars

\* The queue's file follows the queue, whatever the worker, the removal for a
\* large queue, failing writes and the final flush do to each other.
CheckpointKept ==
    /\ [](LargeQueueStaysDropped /\ WrittenOrKnown /\ FlushKeepsQueue)
    /\ QueueReachesFile
=============================================================================

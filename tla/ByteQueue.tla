----------------------------- MODULE ByteQueue ------------------------------
(***************************************************************************)
(* What a stream promises its reader, whatever the network does: a bounded *)
(* first-in first-out queue of bytes that may be declared over.  The bytes *)
(* are numbered in the order they were sent: none is skipped, repeated or  *)
(* put before another.                                                     *)
(***************************************************************************)
EXTENDS Naturals, Sequences

CONSTANT Capacity

VARIABLES queued, \* the bytes on their way, in order
          taken,  \* the bytes the reader has been given
          over    \* no byte will follow

QueueInit == queued = <<>> /\ taken = <<>> /\ over = FALSE

\* The next n bytes after everything that came before.
Enqueue(n) ==
    /\ ~over /\ Len(queued) + n <= Capacity
    /\ queued' = queued \o [i \in 1 .. n |-> Len(taken) + Len(queued) + i]
    /\ UNCHANGED <<taken, over>>

Take(n) ==
    /\ taken' = taken \o SubSeq(queued, 1, n)
    /\ queued' = SubSeq(queued, n + 1, Len(queued))
    /\ UNCHANGED over

Finish == over' = TRUE /\ UNCHANGED <<queued, taken>>

QueueNext ==
    \/ \E n \in 1 .. Capacity : Enqueue(n)
    \/ \E n \in 1 .. Len(queued) : Take(n)
    \/ Finish

QueueSpec == QueueInit /\ [][QueueNext]_<<queued, taken, over>>
=============================================================================

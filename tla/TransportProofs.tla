--------------------------- MODULE TransportProofs ---------------------------
(***************************************************************************)
(* What holds of the playback engine, and of the player that drives it,    *)
(* for every set of tracks, playlist, length and bound.  TypeOK of the     *)
(* engine is inductive; with GenerationsInStep it carries the safety       *)
(* invariants of its run.  The player's steps are steps of the engine or   *)
(* leave it alone, so both carry over, and PlayerInv adds how the user     *)
(* interface and the engine stay in step.  Every lemma goes through the    *)
(* calls and the steps of the thread one by one.                           *)
(***************************************************************************)
EXTENDS Player, WellFoundedInduction, TLAPS

USE DEF Places, InTrack

\* Every step keeps the Boolean fields Boolean.
LEMMA Flags == ASSUME FlagsOK, Next PROVE FlagsOK'
<1> USE DEF FlagsOK, thread, shared, used, CloseNext, Fault
<1>1. CASE Call
  BY <1>1 DEF Call, audio_play_file_at, audio_set_next_track, audio_set_crossfade_enabled,
     audio_toggle_pause, audio_stop, RequestSeek, audio_seek, audio_seek_percent,
     audio_consume_error_ex, audio_consume_track_advanced, audio_consume_track_finished
<1>2. CASE TakeRestart BY <1>2, Zenon DEF TakeRestart
<1>3. CASE OpenFails BY <1>3, Zenon DEF OpenFails
<1>4. CASE OutputUnavailable BY <1>4 DEF OutputUnavailable, CancelSameGeneration
<1>5. CASE DropStaleRequest BY <1>5 DEF DropStaleRequest, CancelSameGeneration
<1>6. CASE Publish BY <1>6, Zenon DEF Publish
<1>7. CASE SeePause BY <1>7, Zenon DEF SeePause
<1>8. CASE ReleaseForPause BY <1>8, Zenon DEF ReleaseForPause
<1>9. CASE ReadCommands BY <1>9, Zenon DEF ReadCommands
<1>10. CASE LeaveForRestart BY <1>10, Zenon DEF LeaveForRestart
<1>11. CASE LeaveForStop BY <1>11, Zenon DEF LeaveForStop
<1>12. CASE ApplySeek BY <1>12, Zenon DEF ApplySeek
<1>13. CASE SeekFails BY <1>13, Zenon DEF SeekFails, Fail
<1>14. CASE BlendChunk BY <1>14, Zenon DEF BlendChunk
<1>15. CASE PlainChunk BY <1>15, Zenon DEF PlainChunk
<1>16. CASE RetryChunk BY <1>16, Zenon DEF RetryChunk
<1>17. CASE ChunkFails BY <1>17, Zenon DEF ChunkFails, Fail
<1>18. CASE PromoteNext BY <1>18, Zenon DEF PromoteNext, Advance
<1>19. CASE DiscardStaleNext BY <1>19, Zenon DEF DiscardStaleNext
<1>20. CASE AtEnd BY <1>20, Zenon DEF AtEnd
<1>21. CASE HandOff BY <1>21, Zenon DEF HandOff, Advance
<1>22. CASE Finish BY <1>22, Zenon DEF Finish
<1> QED
  BY <1>1, <1>2, <1>3, <1>4, <1>5, <1>6, <1>7, <1>8, <1>9, <1>10, <1>11, <1>12, <1>13,
     <1>14, <1>15, <1>16, <1>17, <1>18, <1>19, <1>20, <1>21, <1>22 DEF Next, Play

\* The arithmetic of one step: a target converted from a percentage or taken
\* as it came, clamped to the track, is a position in the track.
LEMMA SeekTargetInTrack ==
    ASSUME ValuesOK, dec \in Tracks PROVE SeekTarget \in 0 .. Len[dec]
<1>1. Len[dec] \in Nat BY TransportAssumption
<1>2. snap.seek.to \in Nat BY DEF ValuesOK, Snap, Seek
<1> DEFINE to == snap.seek.to
           n == IF snap.seek.percent THEN (to * Len[dec]) \div 2 ELSE to
<1>3. n \in Nat
  <2> DEFINE product == to * Len[dec]
  <2>1. product \in Nat BY <1>1, <1>2
  <2> HIDE DEF product
  <2>2. product \div 2 \in Nat BY <2>1
  <2> QED BY <2>2, <1>2 DEF product
<1> HIDE DEF n
<1>4. Smaller(n, Len[dec]) \in 0 .. Len[dec] BY <1>1, <1>3 DEF Smaller
<1> QED BY <1>4 DEF n, SeekTarget

\* A file that is prefetched is one of the tracks, read from a position in it.
LEMMA PrefetchInTrack ==
    ASSUME ValuesOK, CountsOK, PositionOK
    PROVE  /\ Prefetched \in Track
           /\ PrefetchedPos \in Nat
           /\ Prefetched # NoTrack => PrefetchedPos <= Len[Prefetched]
<1>1. snap.next \in Track BY DEF ValuesOK, Snap
<1>2. \A t \in Tracks : Len[t] \in Nat BY TransportAssumption
<1> QED BY <1>1, <1>2, TransportAssumption
        DEF ValuesOK, CountsOK, PositionOK, Prefetched, PrefetchedPos, Track

\* Every step keeps the counters and positions natural numbers.
LEMMA Counts == ASSUME CountsOK, ValuesOK, PositionOK, Next PROVE CountsOK'
<1> USE DEF CountsOK, thread, shared, used, CloseNext, Fault
<1>1. CASE Call
  BY <1>1 DEF Call, audio_play_file_at, audio_set_next_track, audio_set_crossfade_enabled,
     audio_toggle_pause, audio_stop, RequestSeek, audio_seek, audio_seek_percent,
     audio_consume_error_ex, audio_consume_track_advanced, audio_consume_track_finished
<1>2. CASE TakeRestart
  <2>1. restart.at \in Nat BY DEF ValuesOK, Restart
  <2> QED BY <1>2, <2>1 DEF TakeRestart
<1>3. CASE OpenFails BY <1>3 DEF OpenFails
<1>4. CASE OutputUnavailable BY <1>4 DEF OutputUnavailable, CancelSameGeneration
<1>5. CASE DropStaleRequest BY <1>5 DEF DropStaleRequest, CancelSameGeneration
<1>6. CASE Publish
  <2>1. Len[path] \in Nat BY <1>6, TransportAssumption DEF Publish, PositionOK
  <2>2. Smaller(pos, Len[path]) \in Nat BY <2>1 DEF Smaller
  <2> QED BY <1>6, <2>1, <2>2 DEF Publish
<1>7. CASE SeePause BY <1>7 DEF SeePause
<1>8. CASE ReleaseForPause BY <1>8 DEF ReleaseForPause
<1>9. CASE ReadCommands BY <1>9 DEF ReadCommands
<1>10. CASE LeaveForRestart BY <1>10 DEF LeaveForRestart
<1>11. CASE LeaveForStop BY <1>11 DEF LeaveForStop
<1>12. CASE ApplySeek
  <2>1. dec \in Tracks BY <1>12 DEF ApplySeek, Uncommanded, PositionOK
  <2>2. SeekTarget \in 0 .. Len[dec] BY <2>1, SeekTargetInTrack
  <2>3. SeekTarget \in Nat BY <2>2
  <2> QED BY <1>12, <2>3 DEF ApplySeek
<1>13. CASE SeekFails BY <1>13 DEF SeekFails, Fail
<1>14. CASE BlendChunk BY <1>14, PrefetchInTrack DEF BlendChunk
<1>15. CASE PlainChunk BY <1>15, PrefetchInTrack DEF PlainChunk
<1>16. CASE RetryChunk BY <1>16, PrefetchInTrack DEF RetryChunk
<1>17. CASE ChunkFails BY <1>17 DEF ChunkFails, Fail
<1>18. CASE PromoteNext
  <2>1. Len[nxt] \in Nat BY <1>18, TransportAssumption DEF PromoteNext, PositionOK
  <2> QED BY <1>18, <2>1 DEF PromoteNext, Advance
<1>19. CASE DiscardStaleNext BY <1>19 DEF DiscardStaleNext
<1>20. CASE AtEnd BY <1>20, PrefetchInTrack DEF AtEnd
<1>21. CASE HandOff
  <2>1. Len[nxt] \in Nat BY <1>21, TransportAssumption DEF HandOff, PositionOK
  <2> QED BY <1>21, <2>1 DEF HandOff, Advance
<1>22. CASE Finish BY <1>22 DEF Finish
<1> QED
  BY <1>1, <1>2, <1>3, <1>4, <1>5, <1>6, <1>7, <1>8, <1>9, <1>10, <1>11, <1>12, <1>13,
     <1>14, <1>15, <1>16, <1>17, <1>18, <1>19, <1>20, <1>21, <1>22 DEF Next, Play

\* Every step keeps requests, seeks, errors, snapshots and tracks what they are.
LEMMA Values == ASSUME FlagsOK, CountsOK, ValuesOK, PositionOK, Next PROVE ValuesOK'
<1> USE DEF ValuesOK, thread, shared, used, CloseNext, Fault, Restart, Seek, Error, Snap, Track,
        NoRestart, NoSeek, NoError, NoSnap
<1>1. CASE Call
  <2>1. ASSUME NEW p \in Tracks, NEW s \in Starts, audio_play_file_at(p, s) PROVE ValuesOK'
    BY <2>1, TransportAssumption DEF audio_play_file_at
  <2>2. ASSUME NEW s \in Starts, audio_seek(s) PROVE ValuesOK'
    <3>1. Smaller(s, total) \in Nat BY TransportAssumption DEF Smaller, CountsOK
    <3> QED BY <2>2, <3>1 DEF audio_seek, RequestSeek, CountsOK
  <2>3. ASSUME NEW h \in Halves, audio_seek_percent(h) PROVE ValuesOK'
    BY <2>3 DEF audio_seek_percent, RequestSeek, CountsOK, Halves
  <2> QED
    BY <1>1, <2>1, <2>2, <2>3 DEF Call, audio_set_next_track, audio_set_crossfade_enabled,
       audio_toggle_pause, audio_stop, audio_consume_error_ex,
       audio_consume_track_advanced, audio_consume_track_finished
<1>2. CASE TakeRestart BY <1>2 DEF TakeRestart
<1>3. CASE OpenFails BY <1>3 DEF OpenFails, CountsOK
<1>4. CASE OutputUnavailable
  <2>1. error' = error \/ error' = [kind |-> "output", gen |-> cur]
    BY <1>4, Zenon DEF OutputUnavailable, CancelSameGeneration
  <2>2. error' \in Error BY <2>1 DEF CountsOK
  <2> HIDE DEF Error
  <2> QED BY <1>4, <2>2 DEF OutputUnavailable
<1>5. CASE DropStaleRequest BY <1>5 DEF DropStaleRequest, CancelSameGeneration
<1>6. CASE Publish BY <1>6 DEF Publish
<1>7. CASE SeePause BY <1>7 DEF SeePause
<1>8. CASE ReleaseForPause BY <1>8 DEF ReleaseForPause
<1>9. CASE ReadCommands BY <1>9 DEF ReadCommands, FlagsOK, CountsOK, Restarting
<1>10. CASE LeaveForRestart BY <1>10 DEF LeaveForRestart
<1>11. CASE LeaveForStop BY <1>11 DEF LeaveForStop
<1>12. CASE ApplySeek BY <1>12 DEF ApplySeek
<1>13. CASE SeekFails BY <1>13 DEF SeekFails, Fail, CountsOK
<1>14. CASE BlendChunk BY <1>14, PrefetchInTrack DEF BlendChunk
<1>15. CASE PlainChunk BY <1>15, PrefetchInTrack DEF PlainChunk
<1>16. CASE RetryChunk BY <1>16, PrefetchInTrack DEF RetryChunk
<1>17. CASE ChunkFails
  <2>1. error' \in Error BY <1>17 DEF ChunkFails, Fail, CountsOK
  <2>2. NoSnap \in Snap OBVIOUS
  <2> HIDE DEF Error, Snap, NoSnap
  <2> QED BY <1>17, <2>1, <2>2 DEF ChunkFails, Fail
<1>18. CASE PromoteNext BY <1>18 DEF PromoteNext, Advance, PositionOK
<1>19. CASE DiscardStaleNext BY <1>19 DEF DiscardStaleNext
<1>20. CASE AtEnd BY <1>20, PrefetchInTrack DEF AtEnd
<1>21. CASE HandOff BY <1>21 DEF HandOff, Advance, PositionOK
<1>22. CASE Finish BY <1>22 DEF Finish
<1> QED
  BY <1>1, <1>2, <1>3, <1>4, <1>5, <1>6, <1>7, <1>8, <1>9, <1>10, <1>11, <1>12, <1>13,
     <1>14, <1>15, <1>16, <1>17, <1>18, <1>19, <1>20, <1>21, <1>22 DEF Next, Play

\* Every step leaves the thread at a position of an open track.
LEMMA Positions == ASSUME CountsOK, ValuesOK, PositionOK, Next PROVE PositionOK'
<1> USE DEF PositionOK, thread, shared, used, CloseNext, Fault
<1>1. CASE Call
  BY <1>1 DEF Call, audio_play_file_at, audio_set_next_track, audio_set_crossfade_enabled,
     audio_toggle_pause, audio_stop, RequestSeek, audio_seek, audio_seek_percent,
     audio_consume_error_ex, audio_consume_track_advanced, audio_consume_track_finished
<1>2. CASE TakeRestart BY <1>2 DEF TakeRestart, ValuesOK, Restart, Restarting, Track
<1>3. CASE OpenFails BY <1>3 DEF OpenFails
<1>4. CASE OutputUnavailable BY <1>4 DEF OutputUnavailable, CancelSameGeneration
<1>5. CASE DropStaleRequest BY <1>5 DEF DropStaleRequest, CancelSameGeneration
<1>6. CASE Publish
  <2>1. Len[path] \in Nat BY <1>6, TransportAssumption DEF Publish
  <2>2. pos' <= Len[path] BY <1>6, <2>1 DEF Publish, Smaller, CountsOK
  <2> QED BY <1>6, <2>2 DEF Publish
<1>7. CASE SeePause BY <1>7 DEF SeePause
<1>8. CASE ReleaseForPause BY <1>8 DEF ReleaseForPause
<1>9. CASE ReadCommands BY <1>9 DEF ReadCommands
<1>10. CASE LeaveForRestart BY <1>10 DEF LeaveForRestart
<1>11. CASE LeaveForStop BY <1>11 DEF LeaveForStop
<1>12. CASE ApplySeek
  <2>1. dec \in Tracks /\ pos <= Len[dec] BY <1>12 DEF ApplySeek, Uncommanded
  <2>2. SeekTarget \in 0 .. Len[dec] BY <2>1, SeekTargetInTrack
  <2>3. SeekTarget <= Len[dec] BY <2>2, TransportAssumption
  <2>4. pos' <= Len[dec] BY <1>12, <2>1, <2>3 DEF ApplySeek
  <2> QED BY <1>12, <2>1, <2>4 DEF ApplySeek
<1>13. CASE SeekFails BY <1>13 DEF SeekFails, Fail, Uncommanded
<1>14. CASE BlendChunk
  <2>1. dec \in Tracks /\ Len[dec] \in Nat /\ pos + 1 <= Len[dec] /\ pos <= Len[dec]
    BY <1>14, TransportAssumption
       DEF BlendChunk, Decoding, Uncommanded, Blending, InWindow, Remaining, CountsOK
  <2>2. Prefetched \in Tracks /\ Len[Prefetched] \in Nat
    BY <1>14, PrefetchInTrack, TransportAssumption DEF BlendChunk, Blending, Track
  <2>3. pos' <= Len[dec] BY <1>14, <2>1 DEF BlendChunk
  <2>4. nxt' # NoTrack => nxt' = Prefetched /\ nxtPos' <= Len[Prefetched]
    BY <1>14, <2>2, PrefetchInTrack, TransportAssumption DEF BlendChunk
  <2>5. pc' = "promote" => nxt' = Prefetched BY <1>14 DEF BlendChunk
  <2>6. dec' = dec /\ pc' \in {"top", "promote"} BY <1>14 DEF BlendChunk
  <2> QED BY <2>1, <2>2, <2>3, <2>4, <2>5, <2>6
<1>15. CASE PlainChunk
  <2>1. dec \in Tracks /\ Len[dec] \in Nat /\ pos + 1 <= Len[dec]
    BY <1>15, TransportAssumption
       DEF PlainChunk, Decoding, Uncommanded, Remaining, CountsOK
  <2> QED BY <1>15, <2>1, PrefetchInTrack DEF PlainChunk
<1>16. CASE RetryChunk BY <1>16, PrefetchInTrack DEF RetryChunk, Decoding, Uncommanded
<1>17. CASE ChunkFails BY <1>17 DEF ChunkFails, Fail, Decoding, Uncommanded
<1>18. CASE PromoteNext BY <1>18, TransportAssumption DEF PromoteNext, Advance
<1>19. CASE DiscardStaleNext BY <1>19 DEF DiscardStaleNext
<1>20. CASE AtEnd
  <2>1. dec \in Tracks /\ pos <= Len[dec] BY <1>20 DEF AtEnd, Decoding, Uncommanded
  <2> QED BY <1>20, <2>1, PrefetchInTrack DEF AtEnd, Track
<1>21. CASE HandOff BY <1>21, TransportAssumption DEF HandOff, Advance
<1>22. CASE Finish BY <1>22 DEF Finish
<1> QED
  BY <1>1, <1>2, <1>3, <1>4, <1>5, <1>6, <1>7, <1>8, <1>9, <1>10, <1>11, <1>12, <1>13,
     <1>14, <1>15, <1>16, <1>17, <1>18, <1>19, <1>20, <1>21, <1>22 DEF Next, Play

LEMMA InitTypes == Init => TypeOK
<1> SUFFICES ASSUME Init PROVE TypeOK OBVIOUS
<1>1. FlagsOK BY DEF Init, FlagsOK
<1>2. CountsOK BY DEF Init, CountsOK
<1>3. ValuesOK BY DEF Init, ValuesOK, Restart, NoRestart, Error, NoError, Seek, NoSeek,
                      Snap, NoSnap, Track
<1>4. PositionOK BY DEF Init, PositionOK
<1> QED BY <1>1, <1>2, <1>3, <1>4 DEF TypeOK

LEMMA StepTypes == TypeOK /\ [Next]_vars => TypeOK'
<1>1. CASE Next BY <1>1, Flags, Counts, Values, Positions DEF TypeOK
<1>2. CASE UNCHANGED vars
  BY <1>2 DEF vars, TypeOK, FlagsOK, CountsOK, ValuesOK, PositionOK
<1> QED BY <1>1, <1>2

\* Every field of the engine has its type and every position lies in its track,
\* for every number of tracks of any length and any order of calls, seeks and
\* failures (audio_thread_func with the calls of audio.h).
THEOREM TypeCorrect == Spec => []TypeOK
  BY InitTypes, StepTypes, PTL DEF Spec

\* Every step keeps the generation of the thread, the queued request and the
\* reported error in step.
LEMMA Generations == ASSUME TypeOK, GenerationsInStep, Next PROVE GenerationsInStep'
<1> USE DEF GenerationsInStep, TypeOK, CountsOK, thread, shared, Restarting
<1>0. error.gen \in Nat /\ gen \in Nat BY DEF TypeOK, CountsOK, ValuesOK, Error
<1>1. CASE Call
  <2>1. ASSUME NEW p \in Tracks, NEW s \in Starts, audio_play_file_at(p, s)
        PROVE  GenerationsInStep'
    <3>1. restart'.path = p /\ p # NoTrack BY <2>1, TransportAssumption DEF audio_play_file_at
    <3>2. error' = NoError /\ gen' = gen + 1 /\ cur' = cur /\ snap' = snap
      BY <2>1 DEF audio_play_file_at
    <3> QED BY <1>0, <3>1, <3>2 DEF NoError
  <2>2. ASSUME audio_consume_error_ex PROVE GenerationsInStep'
    BY <1>0, <2>2 DEF audio_consume_error_ex, NoError
  <2> QED
    BY <1>1, <2>1, <2>2 DEF Call, audio_set_next_track, audio_set_crossfade_enabled,
       audio_toggle_pause, audio_stop, RequestSeek, audio_seek, audio_seek_percent,
       audio_consume_track_advanced, audio_consume_track_finished
<1>2. CASE TakeRestart BY <1>2 DEF TakeRestart, NoRestart
<1>3. CASE OpenFails BY <1>3 DEF OpenFails
<1>4. CASE OutputUnavailable
  <2>1. CASE error' = error BY <1>4, <2>1 DEF OutputUnavailable
  <2>2. CASE error' = [kind |-> "output", gen |-> cur] /\ gen = cur /\ ~Restarting
    BY <1>4, <2>2 DEF OutputUnavailable
  <2> QED BY <1>4, <2>1, <2>2, Zenon DEF OutputUnavailable, CancelSameGeneration, Cancelled
<1>5. CASE DropStaleRequest BY <1>5 DEF DropStaleRequest, CancelSameGeneration, Cancelled
<1>6. CASE Publish BY <1>6 DEF Publish
<1>7. CASE SeePause BY <1>7 DEF SeePause
<1>8. CASE ReleaseForPause BY <1>8 DEF ReleaseForPause
<1>9. CASE ReadCommands
  <2>1. snap'.restart = Restarting BY <1>9 DEF ReadCommands
  <2> QED BY <1>9, <2>1 DEF ReadCommands
<1>10. CASE LeaveForRestart BY <1>10 DEF LeaveForRestart
<1>11. CASE LeaveForStop BY <1>11 DEF LeaveForStop
<1>12. CASE ApplySeek BY <1>12 DEF ApplySeek
<1>13. CASE SeekFails BY <1>13 DEF SeekFails, Fail, Uncommanded
<1>14. CASE BlendChunk BY <1>14 DEF BlendChunk
<1>15. CASE PlainChunk BY <1>15 DEF PlainChunk
<1>16. CASE RetryChunk BY <1>16 DEF RetryChunk
<1>17. CASE ChunkFails BY <1>17 DEF ChunkFails, Fail, Decoding, Uncommanded
<1>18. CASE PromoteNext BY <1>0, <1>18 DEF PromoteNext, Advance
<1>19. CASE DiscardStaleNext BY <1>19 DEF DiscardStaleNext
<1>20. CASE AtEnd BY <1>20 DEF AtEnd
<1>21. CASE HandOff BY <1>0, <1>21 DEF HandOff, Advance
<1>22. CASE Finish BY <1>22 DEF Finish
<1> QED
  BY <1>1, <1>2, <1>3, <1>4, <1>5, <1>6, <1>7, <1>8, <1>9, <1>10, <1>11, <1>12, <1>13,
     <1>14, <1>15, <1>16, <1>17, <1>18, <1>19, <1>20, <1>21, <1>22 DEF Next, Play

LEMMA InitGenerations == Init => GenerationsInStep
  BY DEF Init, GenerationsInStep, Restarting, NoRestart, NoError

LEMMA StepGenerations == TypeOK /\ GenerationsInStep /\ [Next]_vars => GenerationsInStep'
<1>1. CASE Next BY <1>1, Generations
<1>2. CASE UNCHANGED vars BY <1>2 DEF vars, GenerationsInStep, Restarting
<1> QED BY <1>1, <1>2

\* Every step that leaves the thread without work leaves nothing current.
LEMMA Idle == ASSUME TypeOK, GenerationsInStep, NothingPlayingWhenIdle, Next
     PROVE NothingPlayingWhenIdle'
<1> USE DEF NothingPlayingWhenIdle, GenerationsInStep, thread, shared, Restarting
<1>1. CASE Call
  <2>1. ASSUME NEW p \in Tracks, NEW s \in Starts, audio_play_file_at(p, s) PROVE Restarting'
    <3>1. restart'.path = p /\ p # NoTrack BY <2>1, TransportAssumption DEF audio_play_file_at
    <3> QED BY <3>1
  <2> QED
    BY <1>1, <2>1 DEF Call, audio_set_next_track, audio_set_crossfade_enabled,
       audio_toggle_pause, audio_stop, RequestSeek, audio_seek, audio_seek_percent,
       audio_consume_error_ex, audio_consume_track_advanced, audio_consume_track_finished
<1>2. CASE TakeRestart BY <1>2 DEF TakeRestart
<1>3. CASE OpenFails BY <1>3 DEF OpenFails
<1>4. CASE OutputUnavailable BY <1>4 DEF OutputUnavailable, CancelSameGeneration
<1>5. CASE DropStaleRequest BY <1>5 DEF DropStaleRequest, CancelSameGeneration
<1>6. CASE Publish BY <1>6 DEF Publish
<1>7. CASE SeePause BY <1>7 DEF SeePause
<1>8. CASE ReleaseForPause BY <1>8 DEF ReleaseForPause
<1>9. CASE ReadCommands BY <1>9 DEF ReadCommands
<1>10. CASE LeaveForRestart BY <1>10 DEF LeaveForRestart
<1>11. CASE LeaveForStop BY <1>11 DEF LeaveForStop
<1>12. CASE ApplySeek BY <1>12 DEF ApplySeek
<1>13. CASE SeekFails BY <1>13 DEF SeekFails, Fail
<1>14. CASE BlendChunk BY <1>14 DEF BlendChunk
<1>15. CASE PlainChunk BY <1>15 DEF PlainChunk
<1>16. CASE RetryChunk BY <1>16 DEF RetryChunk
<1>17. CASE ChunkFails BY <1>17 DEF ChunkFails, Fail
<1>18. CASE PromoteNext BY <1>18 DEF PromoteNext, Advance
<1>19. CASE DiscardStaleNext BY <1>19 DEF DiscardStaleNext
<1>20. CASE AtEnd BY <1>20 DEF AtEnd
<1>21. CASE HandOff BY <1>21 DEF HandOff, Advance
<1>22. CASE Finish BY <1>22 DEF Finish
<1> QED
  BY <1>1, <1>2, <1>3, <1>4, <1>5, <1>6, <1>7, <1>8, <1>9, <1>10, <1>11, <1>12, <1>13,
     <1>14, <1>15, <1>16, <1>17, <1>18, <1>19, <1>20, <1>21, <1>22 DEF Next, Play

\* No step makes a track current while an error of its generation stands.
LEMMA Silent == ASSUME TypeOK, GenerationsInStep, ErrorMeansSilent, Next PROVE ErrorMeansSilent'
<1> USE DEF ErrorMeansSilent, GenerationsInStep, TypeOK, CountsOK, thread, shared, Restarting
<1>0. error.gen \in Nat /\ gen \in Nat BY DEF TypeOK, CountsOK, ValuesOK, Error
<1>1. CASE Call
  BY <1>1 DEF Call, audio_play_file_at, audio_set_next_track, audio_set_crossfade_enabled,
     audio_toggle_pause, audio_stop, RequestSeek, audio_seek, audio_seek_percent,
     audio_consume_error_ex, audio_consume_track_advanced, audio_consume_track_finished
<1>2. CASE TakeRestart BY <1>2 DEF TakeRestart
<1>3. CASE OpenFails BY <1>3 DEF OpenFails
<1>4. CASE OutputUnavailable BY <1>4 DEF OutputUnavailable, CancelSameGeneration
<1>5. CASE DropStaleRequest BY <1>5 DEF DropStaleRequest, CancelSameGeneration
<1>6. CASE Publish BY <1>6 DEF Publish
<1>7. CASE SeePause BY <1>7 DEF SeePause
<1>8. CASE ReleaseForPause BY <1>8 DEF ReleaseForPause
<1>9. CASE ReadCommands BY <1>9 DEF ReadCommands
<1>10. CASE LeaveForRestart BY <1>10 DEF LeaveForRestart
<1>11. CASE LeaveForStop BY <1>11 DEF LeaveForStop
<1>12. CASE ApplySeek BY <1>12 DEF ApplySeek
<1>13. CASE SeekFails BY <1>13 DEF SeekFails, Fail
<1>14. CASE BlendChunk BY <1>14 DEF BlendChunk
<1>15. CASE PlainChunk BY <1>15 DEF PlainChunk
<1>16. CASE RetryChunk BY <1>16 DEF RetryChunk
<1>17. CASE ChunkFails BY <1>17 DEF ChunkFails, Fail
<1>18. CASE PromoteNext BY <1>0, <1>18 DEF PromoteNext, Advance
<1>19. CASE DiscardStaleNext BY <1>19 DEF DiscardStaleNext
<1>20. CASE AtEnd BY <1>20 DEF AtEnd
<1>21. CASE HandOff BY <1>0, <1>21 DEF HandOff, Advance
<1>22. CASE Finish BY <1>22 DEF Finish
<1> QED
  BY <1>1, <1>2, <1>3, <1>4, <1>5, <1>6, <1>7, <1>8, <1>9, <1>10, <1>11, <1>12, <1>13,
     <1>14, <1>15, <1>16, <1>17, <1>18, <1>19, <1>20, <1>21, <1>22 DEF Next, Play

\* Every step into the wait of a pause leaves the device closed.
LEMMA Released == ASSUME PausedMeansReleased, Next PROVE PausedMeansReleased'
<1> USE DEF PausedMeansReleased, thread, shared
<1>1. CASE Call
  BY <1>1 DEF Call, audio_play_file_at, audio_set_next_track, audio_set_crossfade_enabled,
     audio_toggle_pause, audio_stop, RequestSeek, audio_seek, audio_seek_percent,
     audio_consume_error_ex, audio_consume_track_advanced, audio_consume_track_finished
<1>2. CASE TakeRestart BY <1>2 DEF TakeRestart
<1>3. CASE OpenFails BY <1>3 DEF OpenFails
<1>4. CASE OutputUnavailable BY <1>4 DEF OutputUnavailable, CancelSameGeneration
<1>5. CASE DropStaleRequest BY <1>5 DEF DropStaleRequest, CancelSameGeneration
<1>6. CASE Publish BY <1>6 DEF Publish
<1>7. CASE SeePause BY <1>7 DEF SeePause
<1>8. CASE ReleaseForPause BY <1>8 DEF ReleaseForPause
<1>9. CASE ReadCommands BY <1>9 DEF ReadCommands
<1>10. CASE LeaveForRestart BY <1>10 DEF LeaveForRestart
<1>11. CASE LeaveForStop BY <1>11 DEF LeaveForStop
<1>12. CASE ApplySeek BY <1>12 DEF ApplySeek
<1>13. CASE SeekFails BY <1>13 DEF SeekFails, Fail
<1>14. CASE BlendChunk BY <1>14 DEF BlendChunk
<1>15. CASE PlainChunk BY <1>15 DEF PlainChunk
<1>16. CASE RetryChunk BY <1>16 DEF RetryChunk
<1>17. CASE ChunkFails BY <1>17 DEF ChunkFails, Fail
<1>18. CASE PromoteNext BY <1>18 DEF PromoteNext, Advance
<1>19. CASE DiscardStaleNext BY <1>19 DEF DiscardStaleNext
<1>20. CASE AtEnd BY <1>20 DEF AtEnd
<1>21. CASE HandOff BY <1>21 DEF HandOff, Advance
<1>22. CASE Finish BY <1>22 DEF Finish
<1> QED
  BY <1>1, <1>2, <1>3, <1>4, <1>5, <1>6, <1>7, <1>8, <1>9, <1>10, <1>11, <1>12, <1>13,
     <1>14, <1>15, <1>16, <1>17, <1>18, <1>19, <1>20, <1>21, <1>22 DEF Next, Play

\* The generation of the playback thread, the queued request and the reported
\* error stay in step for every sequence of calls (playback_generation,
\* restart_requested and last_playback_error of audio.c).
THEOREM GenerationsStayInStep == Spec => []GenerationsInStep
  BY InitGenerations, StepGenerations, TypeCorrect, PTL DEF Spec

\* No stop, failure or overtaken request leaves a track current while the
\* thread waits for work: what audio_is_playing() tells is true.
THEOREM IdleMeansNothingPlays == Spec => []NothingPlayingWhenIdle
<1>1. Init => NothingPlayingWhenIdle BY DEF Init, NothingPlayingWhenIdle
<1>2. TypeOK /\ GenerationsInStep /\ NothingPlayingWhenIdle /\ [Next]_vars
        => NothingPlayingWhenIdle'
  <2>1. CASE Next BY <2>1, Idle
  <2>2. CASE UNCHANGED vars BY <2>2 DEF vars, NothingPlayingWhenIdle, Restarting
  <2> QED BY <2>1, <2>2
<1> QED BY <1>1, <1>2, TypeCorrect, GenerationsStayInStep, PTL DEF Spec

\* An error that carries the current generation is about a track that has gone,
\* so that the GUI skips nothing that plays (audio_consume_error_ex).
THEOREM ErrorsAreSilent == Spec => []ErrorMeansSilent
<1>1. Init => ErrorMeansSilent BY DEF Init, ErrorMeansSilent
<1>2. TypeOK /\ GenerationsInStep /\ ErrorMeansSilent /\ [Next]_vars => ErrorMeansSilent'
  <2>1. CASE Next BY <2>1, Silent
  <2>2. CASE UNCHANGED vars BY <2>2 DEF vars, ErrorMeansSilent
  <2> QED BY <2>1, <2>2
<1> QED BY <1>1, <1>2, TypeCorrect, GenerationsStayInStep, PTL DEF Spec

\* However pauses, seeks and stops interleave, the thread never waits out a
\* pause holding the output device.
THEOREM PausesRelease == Spec => []PausedMeansReleased
<1>1. Init => PausedMeansReleased BY DEF Init, PausedMeansReleased
<1>2. PausedMeansReleased /\ [Next]_vars => PausedMeansReleased'
  <2>1. CASE Next BY <2>1, Released
  <2>2. CASE UNCHANGED vars BY <2>2 DEF vars, PausedMeansReleased
  <2> QED BY <2>1, <2>2
<1> QED BY <1>1, <1>2, PTL DEF Spec

\* While the thread waits, for work or for the end of a pause, no track counts
\* as playing and the output device is free for others.
THEOREM WaitsAreQuiet == Spec => []IdleIsQuiet
<1>1. NothingPlayingWhenIdle /\ PausedMeansReleased => IdleIsQuiet BY DEF IdleIsQuiet
<1> QED BY <1>1, IdleMeansNothingPlays, PausesRelease, PTL

-----------------------------------------------------------------------------
(***************************************************************************)
(* The player above the engine.  Its calls are calls of the engine, so all *)
(* of the above holds under it; PlayerInv is what it adds.                 *)
(***************************************************************************)
Following == compute_auto_advance_index(index)

\* The place in the playlist of the track the engine has come to.
Heard == IF advanced THEN Following ELSE index

\* The engine has nothing to do but to clean up, and nothing is asked of it.
AtRest == pc \in {"idle", "tail"} /\ ~Restarting

FreePlaces == {"poll", "advanced", "finished", "ended", "refresh"}
GuiPlaces == FreePlaces \cup {"sync", "arm", "recheck", "behind", "judge"}

PlayerTypes ==
    /\ index \in 0 .. Count /\ uiGen \in Nat /\ gui \in GuiPlaces /\ held \in Error
    /\ repeatAll \in BOOLEAN /\ crossed \in BOOLEAN
    /\ gui # "poll" => index > 0
    /\ gui \in FreePlaces => held = NoError
    /\ gui = "judge" => held.gen = uiGen

\* An error of the newest generation is about a track that is over, and an open
\* request has nothing prefetched.
OverIsOver ==
    /\ error # NoError /\ error.gen = gen => pc \in {"idle", "tail"}
    /\ pc = "open" => nxt = NoTrack

\* What is asked for is the current track, and what the engine plays is that one
\* or the one it went on to.
HeardIsKnown ==
    /\ Restarting => index > 0 /\ restart.path = Playlist[index] /\ ~advanced
    /\ pc = "open" /\ ~Restarting => index > 0 /\ path = Playlist[index] /\ ~advanced
    /\ pc \in InTrack /\ ~Restarting =>
           Heard > 0 /\ path = Playlist[Heard] /\ dec = Playlist[Heard]
    /\ advanced => Following > 0

\* What is armed is the track that follows, and no other is prefetched; while
\* the user interface has yet to arm one, and after an advance, there is none.
ArmedFollows ==
    /\ advanced => gui \notin {"sync", "arm"}
    /\ advanced \/ gui \in {"sync", "arm"} => next = NoTrack
    /\ next # NoTrack => Following > 0 /\ next = Playlist[Following]
    /\ pc \in InTrack /\ ~Restarting =>
           /\ nxt \in {NoTrack, next}
           /\ pc \in {"chunk", "promote"} => snap.next \in {NoTrack, next}

\* The generation the user interface knows: it is behind by an advance it has not
\* seen, and by no more.
Known == IF advanced THEN gen - 1 ELSE gen
GenerationKnown == gui # "sync" => uiGen = Known

\* An error, reported or in hand, is about the track the engine has come to, or
\* older than what the user interface knows.
BlamesHeard == Heard > 0 /\ blame = Playlist[Heard]
ErrorsBlameHeard ==
    /\ error # NoError => error.gen < Known \/ (error.gen = gen /\ BlamesHeard)
    /\ held # NoError => held.gen = gen /\ AtRest /\ BlamesHeard

InStep == HeardIsKnown /\ ArmedFollows /\ GenerationKnown /\ ErrorsBlameHeard

PlayerInv == PlayerTypes /\ OverIsOver /\ (~crossed => InStep)


\* The place that follows, and the one a failure skips to, are in the playlist.
LEMMA FollowingInList ==
    ASSUME index \in 0 .. Count PROVE Following \in 0 .. Count
  BY PlayerAssumption DEF Following, compute_auto_advance_index

LEMMA PlanInList ==
    ASSUME NEW i, NEW bad
    PROVE  compute_decoder_failure_advance_plan(i, bad) \in 0 .. Count
<1> DEFINE Good == {j \in 1 .. Count : j # i /\ Playlist[j] \notin bad}
           After == {j \in Good : j > i}
           First(S) == CHOOSE j \in S : \A k \in S : j <= k
<1>1. ASSUME NEW S, S \subseteq 1 .. Count, S # {} PROVE First(S) \in 0 .. Count
  <2>1. S \subseteq Nat
    BY <1>1, PlayerAssumption
  <2> DEFINE R == OpToRel(<, Nat)
  <2>2. IsWellFoundedOn(R, Nat)
    BY NatLessThanWellFounded
  <2>3. \A x, y \in Nat : y < x => <<y, x>> \in R
    BY DEF OpToRel
  <2> HIDE DEF R
  <2>4. PICK x \in S : \A y \in S : ~(<<y, x>> \in R)
    BY <1>1, <2>1, <2>2, WFMin
  <2>5. ASSUME NEW y \in S PROVE x <= y
    <3>1. x \in Nat /\ y \in Nat /\ ~(y < x)
      BY <2>1, <2>3, <2>4
    <3> QED
      BY <3>1
  <2>6. First(S) \in S
    BY <2>4, <2>5
  <2>7. \A k \in S : k \in 0 .. Count
    BY <1>1, PlayerAssumption
  <2> QED
    BY <2>6, <2>7, Zenon
<1>2. Good \subseteq 1 .. Count /\ After \subseteq 1 .. Count
  OBVIOUS
<1>3. compute_decoder_failure_advance_plan(i, bad) =
        IF After # {} THEN First(After) ELSE IF repeatAll /\ Good # {} THEN First(Good) ELSE 0
  BY DEF compute_decoder_failure_advance_plan
<1> HIDE DEF Good, After, First
<1>4. 0 \in 0 .. Count
  BY PlayerAssumption
<1> QED
  BY <1>1, <1>2, <1>3, <1>4

\* The user's and the poll's steps are calls of the engine, or none of its own.
LEMMA DrivesEngine ==
    ASSUME index \in 0 .. Count, gui # "poll" => index > 0, [PlayerNext]_playerVars
    PROVE  [Next]_vars
<1> USE DEF Next, Call
<1>1. ASSUME NEW i \in 1 .. Count, play_track_at_from_internal(i) PROVE Next \/ UNCHANGED vars
  <2>1. Playlist[i] \in Tracks /\ 0 \in Starts
    BY PlayerAssumption
  <2> QED
    BY <1>1, <2>1 DEF play_track_at_from_internal
<1>2. CASE \E i \in 1 .. Count : play_track_at(i)
  BY <1>1, <1>2 DEF play_track_at
<1>3. CASE toggle_play_pause
  <2>1. index > 0 => index \in 1 .. Count
    BY PlayerAssumption
  <2> QED
    BY <1>1, <1>3, <2>1 DEF toggle_play_pause
<1>4. CASE SyncGeneration \/ RefreshButton \/ RecheckGeneration \/ JudgeOutput
  BY <1>4 DEF SyncGeneration, RefreshButton, RecheckGeneration, JudgeOutput
<1>5. CASE arm_next_track_for_audio
  <2> DEFINE p == IF Following = 0 \/ ~Gapless THEN NoTrack ELSE Playlist[Following]
  <2>1. audio_set_next_track(p)
    BY <1>5 DEF arm_next_track_for_audio, Following
  <2>2. p \in Track
    BY FollowingInList, PlayerAssumption DEF Track
  <2> HIDE DEF p
  <2> QED
    BY <2>1, <2>2
<1>6. CASE PollError \/ CatchUp \/ PollAdvanced \/ PollFinished
  BY <1>6 DEF PollError, CatchUp, PollAdvanced, PollFinished
<1>7. CASE JudgeDecoder
  <2>1. PICK i \in 0 .. Count : (i # 0 /\ play_track_at_from_internal(i)) \/ UNCHANGED vars
    BY <1>7, PlanInList DEF JudgeDecoder
  <2> QED
    BY <1>1, <2>1, PlayerAssumption
<1>8. CASE gui_player_handle_track_finished
  <2>1. Following # 0 => Following \in 1 .. Count
    BY FollowingInList, PlayerAssumption
  <2> QED
    BY <1>1, <1>8, <2>1, FollowingInList, PlayerAssumption DEF gui_player_handle_track_finished, Following
<1>9. CASE Engine \/ TakeOver \/ DacModeChanges
  BY <1>9 DEF Engine, TakeOver, DacModeChanges
<1>10. CASE UNCHANGED playerVars
  BY <1>10 DEF playerVars
<1> QED
  BY <1>2, <1>3, <1>4, <1>5, <1>6, <1>7, <1>8, <1>9, <1>10 DEF PlayerNext, Poll

\* An advance is followed: the place the engine has come to becomes the current one.
LEMMA StepFollows ==
    ASSUME TypeOK, PlayerInv, index > 0, audio_consume_track_advanced, FollowAdvance, held' = held,
           gui \in {"advanced", "behind"}, UNCHANGED <<repeatAll, uiGen, blame, crossed>>
    PROVE  PlayerInv'
<1>0. Following \in 0 .. Count
  BY FollowingInList DEF PlayerInv, PlayerTypes
<1>1. /\ advanced /\ ~advanced' /\ advanced' = FALSE
      /\ UNCHANGED <<gen, restart, next, error, pc, path, dec, nxt, snap>>
  BY DEF audio_consume_track_advanced, thread
<1>2. /\ Following > 0 => index' = Following /\ gui' = "sync"
      /\ ~(Following > 0) => index' = index /\ gui' = IF held' = NoError THEN "poll" ELSE "recheck"
  BY DEF FollowAdvance, Following
<1>3. PlayerTypes'
  BY <1>0, <1>1, <1>2, PlayerAssumption DEF PlayerInv, PlayerTypes, FreePlaces, GuiPlaces
<1>4. OverIsOver'
  BY <1>1 DEF PlayerInv, OverIsOver
<1>5. ASSUME ~crossed PROVE InStep'
  <2>1. /\ Following > 0 /\ index' = Following /\ gui' = "sync" /\ Heard = Following /\ Heard' = Following
        /\ InStep /\ Restarting' = Restarting
    BY <1>1, <1>2, <1>5 DEF PlayerInv, InStep, HeardIsKnown, Heard, Restarting
  <2>2. next = NoTrack /\ ~Restarting /\ pc # "open"
    BY <1>1, <2>1 DEF InStep, HeardIsKnown, ArmedFollows
  <2>3. HeardIsKnown'
    BY <1>1, <2>1, <2>2 DEF InStep, HeardIsKnown
  <2>4. ArmedFollows'
    BY <1>1, <2>1, <2>2 DEF InStep, ArmedFollows
  <2>5. error.gen \in Nat /\ Known' \in Nat /\ (error.gen < Known => error.gen < Known')
    <3>1. gen \in Nat /\ error.gen \in Nat
      BY DEF TypeOK, CountsOK, ValuesOK, Error
    <3>2. Known = gen - 1 /\ Known' = gen
      BY <1>1, Zenon DEF Known
    <3> QED
      BY <3>1, <3>2
  <2>6. ErrorsBlameHeard'
    <3>1. BlamesHeard' = BlamesHeard /\ AtRest' = AtRest
      BY <1>1, <2>1 DEF BlamesHeard, AtRest
    <3> QED
      BY <1>1, <2>1, <2>5, <3>1 DEF InStep, ErrorsBlameHeard
  <2>7. GenerationKnown'
    BY <2>1 DEF GenerationKnown
  <2> QED
    BY <2>3, <2>4, <2>6, <2>7 DEF InStep
<1> QED
  BY <1>3, <1>4, <1>5 DEF PlayerInv

\* The fields of the engine and the player that say where both are.
where == <<gen, restart, next, advanced, pc, path, dec, nxt, snap, index, repeatAll, blame, crossed>>

\* A step of the user interface that leaves the track where it is: it looks at
\* the engine's flags and generation, takes an error or is done with it.
LEMMA StepListens ==
    ASSUME TypeOK, GenerationsInStep, PlayerInv, UNCHANGED where, PlayerTypes',
           error' = error \/ error' = NoError,
           gui' \in {"sync", "arm"} => gui \in {"sync", "arm"},
           gui' # "sync" => IF gui = "sync" THEN uiGen' = gen ELSE uiGen' = uiGen,
           \/ held' = held \/ held' = NoError
           \/ held' = error /\ ~(error.gen < uiGen) /\ gui = "poll"
    PROVE  PlayerInv'
<1>1. OverIsOver'
  BY DEF where, PlayerInv, OverIsOver
<1>2. ASSUME ~crossed PROVE InStep'
  <2>1. InStep /\ gen \in Nat /\ error.gen \in Nat
    BY <1>2 DEF PlayerInv, TypeOK, CountsOK, ValuesOK, Error
  <2>2. /\ Restarting' = Restarting /\ Following' = Following /\ Heard' = Heard
        /\ AtRest' = AtRest /\ BlamesHeard' = BlamesHeard /\ Known' = Known
    BY Zenon DEF where, Restarting, Following, Heard, AtRest, BlamesHeard, Known, compute_auto_advance_index
  <2>3. HeardIsKnown'
    BY <2>1, <2>2 DEF where, InStep, HeardIsKnown
  <2>4. ArmedFollows'
    BY <2>1, <2>2 DEF where, InStep, ArmedFollows
  <2>5. GenerationKnown'
    <3>1. gui = "sync" => ~advanced
      BY <2>1 DEF InStep, ArmedFollows
    <3>2. gui = "sync" => Known = gen
      BY <3>1, Zenon DEF Known
    <3> QED
      BY <2>1, <2>2, <3>2 DEF InStep, GenerationKnown
  <2>6. error' # NoError => error'.gen < Known' \/ (error'.gen = gen' /\ BlamesHeard')
    BY <2>1, <2>2 DEF where, InStep, ErrorsBlameHeard
  <2>7. held' # NoError => held'.gen = gen' /\ AtRest' /\ BlamesHeard'
    <3>1. CASE held' = held \/ held' = NoError
      BY <2>1, <2>2, <3>1 DEF where, InStep, ErrorsBlameHeard
    <3>2. CASE held' = error /\ ~(error.gen < uiGen) /\ gui = "poll" /\ error # NoError
      <4>1. error.gen = gen /\ BlamesHeard
        BY <2>1, <3>2 DEF InStep, ErrorsBlameHeard, GenerationKnown
      <4>2. AtRest
        BY <3>2, <4>1 DEF AtRest, PlayerInv, OverIsOver, GenerationsInStep
      <4> QED
        BY <2>2, <3>2, <4>1, <4>2 DEF where
    <3> QED
      BY <3>1, <3>2
  <2> QED
    BY <2>3, <2>4, <2>5, <2>6, <2>7 DEF InStep, ErrorsBlameHeard
<1> QED
  BY <1>1, <1>2 DEF PlayerInv, where

\* A request: what was known of the engine is settled, the rest is to come.  A
\* request that is refused leaves all as it was.
LEMMA StepStarts ==
    ASSUME TypeOK, GenerationsInStep, PlayerInv, NEW i \in 1 .. Count,
           play_track_at_from_internal(i), gui \notin {"sync", "arm"},
           held' = NoError, UNCHANGED <<repeatAll, uiGen, blame>>
    PROVE  PlayerInv'
<1>1. CASE ~blocked
  <2>1. /\ restart'.path = Playlist[i] /\ Playlist[i] # NoTrack
        /\ index' = i /\ index' > 0 /\ index' \in 0 .. Count /\ gui' = "sync" /\ crossed' = FALSE
        /\ next' = NoTrack /\ advanced' = FALSE /\ error' = NoError /\ pc' = pc /\ nxt' = nxt
    BY <1>1, PlayerAssumption, TransportAssumption
       DEF play_track_at_from_internal, audio_play_file_at, thread
  <2>2. PlayerTypes'
    BY <2>1 DEF PlayerInv, PlayerTypes, FreePlaces, GuiPlaces, Error, NoError
  <2>3. OverIsOver'
    BY <2>1 DEF PlayerInv, OverIsOver
  <2>4. HeardIsKnown' /\ ArmedFollows'
    BY <2>1 DEF HeardIsKnown, ArmedFollows, Restarting
  <2>5. GenerationKnown' /\ ErrorsBlameHeard'
    BY <2>1 DEF GenerationKnown, ErrorsBlameHeard
  <2> QED
    BY <2>2, <2>3, <2>4, <2>5 DEF PlayerInv, InStep
<1>2. CASE blocked
  <2>1. UNCHANGED where /\ error' = error /\ gui' = "poll" /\ uiGen' = uiGen
    BY <1>2 DEF play_track_at_from_internal, where, vars
  <2>2. PlayerTypes'
    BY <2>1 DEF where, PlayerInv, PlayerTypes, FreePlaces, GuiPlaces, Error, NoError
  <2> QED
    BY <2>1, <2>2, StepListens
<1> QED
  BY <1>1, <1>2

\* The following track is armed.
LEMMA StepArms ==
    ASSUME TypeOK, GenerationsInStep, PlayerInv, arm_next_track_for_audio PROVE PlayerInv'
<1> DEFINE p == IF Following = 0 \/ ~Gapless THEN NoTrack ELSE Playlist[Following]
<1>1. /\ gui = "arm" /\ next' = p
      /\ UNCHANGED <<gen, restart, advanced, error, pc, path, dec, nxt, snap, index, repeatAll, blame, crossed>>
      /\ UNCHANGED <<uiGen, held>>
      /\ gui' = IF held = NoError THEN "poll" ELSE "recheck"
  BY DEF arm_next_track_for_audio, audio_set_next_track, thread, Following
<1>2. Following \in 0 .. Count
  BY FollowingInList DEF PlayerInv, PlayerTypes
<1>3. p # NoTrack => Following > 0 /\ p = Playlist[Following]
  BY <1>2, PlayerAssumption
<1> HIDE DEF p
<1>4. PlayerTypes'
  BY <1>1 DEF PlayerInv, PlayerTypes, FreePlaces, GuiPlaces
<1>5. OverIsOver'
  BY <1>1 DEF PlayerInv, OverIsOver
<1>6. ASSUME ~crossed PROVE InStep'
  <2>1. InStep /\ ~advanced /\ next = NoTrack
    BY <1>1, <1>6 DEF PlayerInv, InStep, ArmedFollows
  <2>2. /\ Restarting' = Restarting /\ Following' = Following /\ Heard' = Heard
        /\ AtRest' = AtRest /\ BlamesHeard' = BlamesHeard /\ Known' = Known
    BY <1>1, Zenon DEF Restarting, Following, Heard, AtRest, BlamesHeard, Known, compute_auto_advance_index
  <2>3. HeardIsKnown'
    BY <1>1, <2>1, <2>2 DEF InStep, HeardIsKnown
  <2>4. ArmedFollows'
    BY <1>1, <1>3, <2>1, <2>2 DEF InStep, ArmedFollows
  <2>5. GenerationKnown' /\ ErrorsBlameHeard'
    BY <1>1, <2>1, <2>2 DEF InStep, GenerationKnown, ErrorsBlameHeard
  <2> QED
    BY <2>3, <2>4, <2>5 DEF InStep
<1> QED
  BY <1>1, <1>4, <1>5, <1>6 DEF PlayerInv

\* Every step of the user and of the poll keeps the two in step.
LEMMA StepUi ==
    ASSUME TypeOK, GenerationsInStep, PlayerInv,
           \/ Poll \/ toggle_play_pause \/ TakeOver \/ DacModeChanges
           \/ \E i \in 1 .. Count : play_track_at(i)
    PROVE  PlayerInv'
<1>0. /\ index \in 0 .. Count /\ (gui # "poll" => index > 0)
      /\ uiGen \in Nat /\ gen \in Nat /\ held \in Error /\ error \in Error /\ NoError \in Error
      /\ \A i \in 0 .. Count : i # 0 => i \in 1 .. Count
  BY PlayerAssumption DEF PlayerInv, PlayerTypes, TypeOK, CountsOK, ValuesOK, Error, NoError
<1> USE DEF where, vars
<1>1. ASSUME NEW i \in 1 .. Count, play_track_at(i) PROVE PlayerInv'
  BY <1>1, StepStarts DEF play_track_at, PlayerInv, PlayerTypes, FreePlaces
<1>2. CASE toggle_play_pause
  <2>1. CASE play_track_at_from_internal(index)
    BY <1>0, <1>2, <2>1, StepStarts DEF toggle_play_pause, PlayerInv, PlayerTypes, FreePlaces
  <2>2. CASE /\ audio_toggle_pause \/ UNCHANGED vars
             /\ gui' \in {"refresh", "poll"} /\ UNCHANGED <<index, crossed>>
    <3>1. UNCHANGED where /\ error' = error /\ gui = "poll" /\ held' = held /\ uiGen' = uiGen
      BY <1>2, <2>2 DEF toggle_play_pause, audio_toggle_pause, thread
    <3>2. PlayerTypes'
      BY <1>2, <2>2, <3>1 DEF PlayerInv, PlayerTypes, toggle_play_pause, FreePlaces, GuiPlaces
    <3> QED
      BY <2>2, <3>1, <3>2, StepListens
  <2>3. gui = "poll"
    BY <1>2 DEF toggle_play_pause
  <2> QED
    BY <1>2, <2>1, <2>2, <2>3 DEF toggle_play_pause
<1>3. CASE SyncGeneration
  <2>1. PlayerTypes'
    BY <1>0, <1>3 DEF SyncGeneration, PlayerInv, PlayerTypes, FreePlaces, GuiPlaces
  <2> QED
    BY <1>3, <2>1, StepListens DEF SyncGeneration
<1>4. CASE arm_next_track_for_audio
  BY <1>4, StepArms
<1>5. CASE RefreshButton \/ RecheckGeneration \/ JudgeOutput
  <2>1. PlayerTypes'
    BY <1>0, <1>5 DEF RefreshButton, RecheckGeneration, JudgeOutput, PlayerInv, PlayerTypes,
       FreePlaces, GuiPlaces
  <2> QED
    BY <1>5, <2>1, StepListens DEF RefreshButton, RecheckGeneration, JudgeOutput
<1>6. CASE PollError
  <2>1. /\ UNCHANGED where /\ gui = "poll" /\ index > 0 /\ uiGen' = uiGen
        /\ \/ error' = error /\ held' = held /\ gui' = "advanced"
           \/ error' = NoError /\ held' = held /\ gui' = "poll"
           \/ /\ error' = NoError /\ held' = error /\ ~(error.gen < uiGen)
              /\ gui' = IF error.gen = uiGen THEN "judge" ELSE "behind"
    BY <1>6 DEF PollError, audio_consume_error_ex, thread
  <2>2. PlayerTypes'
    BY <1>0, <2>1 DEF PlayerInv, PlayerTypes, FreePlaces, GuiPlaces
  <2> QED
    BY <2>1, <2>2, StepListens
<1>7. CASE CatchUp
  <2>1. CASE advanced
    BY <1>0, <1>7, <2>1, StepFollows DEF CatchUp
  <2>2. CASE ~advanced
    <3>1. PlayerTypes'
      BY <1>0, <1>7, <2>2 DEF CatchUp, PlayerInv, PlayerTypes, FreePlaces, GuiPlaces
    <3> QED
      BY <1>7, <2>2, <3>1, StepListens DEF CatchUp
  <2> QED
    BY <2>1, <2>2
<1>8. CASE JudgeDecoder
  <2> DEFINE target == compute_decoder_failure_advance_plan(index, failed \cup {Playlist[index]})
  <2>1. target \in 0 .. Count
    BY PlanInList
  <2>2. \/ target # 0 /\ play_track_at_from_internal(target)
        \/ UNCHANGED vars /\ gui' = "poll" /\ UNCHANGED <<index, crossed>>
    BY <1>8 DEF JudgeDecoder
  <2>3. gui = "judge" /\ held' = NoError /\ UNCHANGED <<repeatAll, uiGen, blame>>
    BY <1>8 DEF JudgeDecoder
  <2> HIDE DEF target
  <2>4. CASE target # 0 /\ play_track_at_from_internal(target)
    BY <1>0, <2>1, <2>3, <2>4, StepStarts
  <2>5. CASE UNCHANGED vars /\ gui' = "poll" /\ UNCHANGED <<index, crossed>>
    <3>1. PlayerTypes'
      BY <1>0, <2>3, <2>5 DEF PlayerInv, PlayerTypes, FreePlaces, GuiPlaces
    <3> QED
      BY <2>3, <2>5, <3>1, StepListens
  <2> QED
    BY <2>2, <2>4, <2>5
<1>9. CASE PollAdvanced
  <2>1. CASE advanced
    BY <1>0, <1>9, <2>1, StepFollows DEF PollAdvanced
  <2>2. CASE ~advanced
    <3>1. PlayerTypes'
      BY <1>0, <1>9, <2>2 DEF PollAdvanced, PlayerInv, PlayerTypes, FreePlaces, GuiPlaces
    <3> QED
      BY <1>9, <2>2, <3>1, StepListens DEF PollAdvanced
  <2> QED
    BY <2>1, <2>2
<1>10. CASE PollFinished
  <2>1. UNCHANGED where /\ error' = error /\ gui = "finished" /\ gui' \in {"ended", "poll"} /\ UNCHANGED <<held, uiGen>>
    BY <1>10 DEF PollFinished, audio_consume_track_finished, thread
  <2>2. PlayerTypes'
    BY <1>0, <2>1 DEF PlayerInv, PlayerTypes, FreePlaces, GuiPlaces
  <2> QED
    BY <2>1, <2>2, StepListens
<1>11. CASE gui_player_handle_track_finished
  <2>1. Following \in 0 .. Count /\ (Following > 0 => Following \in 1 .. Count)
    BY <1>0, FollowingInList
  <2>2. gui = "ended" /\ held = NoError /\ UNCHANGED <<repeatAll, uiGen, held, blame>>
    BY <1>11 DEF gui_player_handle_track_finished, PlayerInv, PlayerTypes, FreePlaces
  <2>3. CASE Following > 0 /\ play_track_at_from_internal(Following)
    BY <2>1, <2>2, <2>3, StepStarts
  <2>4. CASE UNCHANGED vars /\ gui' = "poll" /\ UNCHANGED <<index, crossed>>
    <3>1. PlayerTypes'
      BY <1>0, <2>2, <2>4 DEF PlayerInv, PlayerTypes, FreePlaces, GuiPlaces
    <3> QED
      BY <2>2, <2>4, <3>1, StepListens
  <2> QED
    BY <1>11, <2>3, <2>4 DEF gui_player_handle_track_finished, Following
<1>12. CASE TakeOver
  <2>1. UNCHANGED where /\ error' = error /\ UNCHANGED <<gui, held, uiGen>>
    BY <1>12 DEF TakeOver, audio_stop, thread, ui
  <2>2. PlayerTypes'
    BY <2>1 DEF PlayerInv, PlayerTypes
  <2> QED
    BY <2>1, <2>2, StepListens
<1>13. CASE DacModeChanges
  <2>1. UNCHANGED where /\ error' = error /\ UNCHANGED <<gui, held, uiGen>>
    BY <1>13 DEF DacModeChanges, audio_stop, thread
  <2>2. PlayerTypes'
    BY <2>1 DEF PlayerInv, PlayerTypes
  <2> QED
    BY <2>1, <2>2, StepListens
<1> QED
  BY <1>1, <1>2, <1>3, <1>4, <1>5, <1>6, <1>7, <1>8, <1>9, <1>10, <1>11, <1>12, <1>13 DEF Poll

\* What the engine's steps leave alone, but for an advance.
standing == <<gen, next, advanced, index, repeatAll, uiGen, gui, held, crossed>>

\* As long as a track is opened or played no error is in hand, and none is
\* reported but an old one.
LEMMA WorkingHasNoError ==
    ASSUME TypeOK, PlayerInv, ~crossed, pc \notin {"idle", "tail"}
    PROVE  held = NoError /\ (error # NoError => error.gen # gen /\ error.gen < Known)
  BY DEF PlayerInv, InStep, ErrorsBlameHeard, AtRest, OverIsOver

\* A step inside a track, or one that ends without a report.
LEMMA StepWithin ==
    ASSUME TypeOK, PlayerInv, UNCHANGED standing, UNCHANGED <<restart, error, blame>>,
           \/ pc' = "idle"
           \/ /\ {pc, pc'} \subseteq InTrack /\ pc # "tail" /\ UNCHANGED <<path, dec>>
              /\ nxt' = nxt \/ nxt' = NoTrack \/ (pc = "chunk" /\ nxt' = snap.next)
              /\ pc' \in {"chunk", "promote"} => snap'.next = next \/ (pc = "chunk" /\ snap' = snap)
    PROVE  PlayerInv'
<1>1. PlayerTypes' /\ OverIsOver'
  BY DEF standing, PlayerInv, PlayerTypes, OverIsOver
<1>2. ASSUME ~crossed PROVE InStep'
  <2>1. InStep
    BY <1>2 DEF PlayerInv
  <2>2. /\ Restarting' = Restarting /\ Following' = Following /\ Heard' = Heard
        /\ BlamesHeard' = BlamesHeard /\ Known' = Known
    BY Zenon DEF standing, Restarting, Following, Heard, BlamesHeard, Known, compute_auto_advance_index
  <2>3. HeardIsKnown'
    BY <2>1, <2>2 DEF standing, InStep, HeardIsKnown
  <2>4. ArmedFollows'
    BY <2>1, <2>2 DEF standing, InStep, ArmedFollows
  <2>5. GenerationKnown'
    BY <2>1, <2>2 DEF standing, InStep, GenerationKnown
  <2>6. held # NoError => AtRest'
    BY <1>2, <2>1, <2>2, WorkingHasNoError DEF InStep, ErrorsBlameHeard, AtRest
  <2>7. ErrorsBlameHeard'
    BY <2>1, <2>2, <2>6 DEF standing, InStep, ErrorsBlameHeard
  <2> QED
    BY <2>3, <2>4, <2>5, <2>7 DEF InStep
<1> QED
  BY <1>1, <1>2 DEF PlayerInv, standing

\* A failure: it is the newest track's, or older than a request.
LEMMA StepReports ==
    ASSUME TypeOK, GenerationsInStep, PlayerInv, UNCHANGED standing, UNCHANGED <<restart, path, dec, nxt>>,
           error' # NoError, error'.gen = cur, blame' = IF error' # error THEN path ELSE blame,
           \/ pc = "open" /\ pc' = "idle"
           \/ pc = "chunk" /\ ~snap.restart /\ pc' = "tail"
    PROVE  PlayerInv'
<1>1. PlayerTypes' /\ OverIsOver'
  BY DEF standing, PlayerInv, PlayerTypes, OverIsOver
<1>2. ASSUME ~crossed PROVE InStep'
  <2>1. InStep /\ held = NoError /\ (error # NoError => error.gen # gen)
    BY <1>2, WorkingHasNoError DEF PlayerInv
  <2>2. Restarting' = Restarting /\ Following' = Following /\ Heard' = Heard /\ Known' = Known
    BY Zenon DEF standing, Restarting, Following, Heard, Known, compute_auto_advance_index
  <2>3. HeardIsKnown'
    BY <2>1, <2>2 DEF standing, InStep, HeardIsKnown
  <2>4. ArmedFollows'
    BY <2>1, <2>2 DEF standing, InStep, ArmedFollows
  <2>5. GenerationKnown'
    BY <2>1, <2>2 DEF standing, InStep, GenerationKnown
  <2>6. ErrorsBlameHeard'
    <3>1. CASE Restarting
      <4>1. cur < gen /\ ~advanced
        BY <2>1, <3>1 DEF GenerationsInStep, TypeOK, CountsOK, InStep, HeardIsKnown
      <4>2. Known = gen
        BY <4>1, Zenon DEF Known
      <4> QED
        BY <2>1, <2>2, <4>1, <4>2 DEF standing, ErrorsBlameHeard
    <3>2. CASE ~Restarting
      <4>1. cur = gen
        BY <3>2 DEF GenerationsInStep
      <4>2. blame' = path
        BY <2>1, <4>1
      <4>3. Heard > 0 /\ path = Playlist[Heard]
        BY <2>1, <3>2 DEF InStep, HeardIsKnown, Heard
      <4> QED
        BY <2>1, <2>2, <4>1, <4>2, <4>3 DEF standing, ErrorsBlameHeard, BlamesHeard
    <3> QED
      BY <3>1, <3>2
  <2> QED
    BY <2>3, <2>4, <2>5, <2>6 DEF InStep
<1> QED
  BY <1>1, <1>2 DEF PlayerInv, standing

\* The request is taken.
LEMMA StepTakes ==
    ASSUME TypeOK, GenerationsInStep, PlayerInv, UNCHANGED standing, UNCHANGED blame, TakeRestart
    PROVE  PlayerInv'
<1>1. /\ Restarting /\ ~Restarting' /\ pc' = "open" /\ path' = restart.path /\ nxt' = NoTrack /\ error' = error
  BY DEF TakeRestart, NoRestart, CloseNext, Restarting
<1>2. error # NoError => error.gen # gen
  BY <1>1 DEF GenerationsInStep
<1>3. PlayerTypes' /\ OverIsOver'
  BY <1>1, <1>2 DEF standing, PlayerInv, PlayerTypes, OverIsOver
<1>4. ASSUME ~crossed PROVE InStep'
  <2>1. InStep /\ held = NoError /\ ~advanced
    BY <1>1, <1>4 DEF PlayerInv, InStep, ErrorsBlameHeard, AtRest, HeardIsKnown
  <2>2. Following' = Following /\ Known' = Known
    BY Zenon DEF standing, Following, Known, compute_auto_advance_index
  <2>3. HeardIsKnown'
    BY <1>1, <2>1, <2>2 DEF standing, InStep, HeardIsKnown
  <2>4. ArmedFollows'
    BY <1>1, <2>1, <2>2 DEF standing, InStep, ArmedFollows
  <2>5. GenerationKnown' /\ ErrorsBlameHeard'
    BY <1>1, <1>2, <2>1, <2>2 DEF standing, InStep, GenerationKnown, ErrorsBlameHeard
  <2> QED
    BY <2>3, <2>4, <2>5 DEF InStep
<1> QED
  BY <1>3, <1>4 DEF PlayerInv, standing

\* It becomes the track that plays.
LEMMA StepPublishes ==
    ASSUME TypeOK, PlayerInv, UNCHANGED standing, UNCHANGED blame, Publish
    PROVE  PlayerInv'
<1>1. /\ pc = "open" /\ pc' = "top" /\ dec' = path /\ ~Restarting
      /\ UNCHANGED <<restart, path, nxt, error>>
  BY DEF Publish, Cancelled
<1>2. error # NoError => error.gen # gen
  BY <1>1 DEF PlayerInv, OverIsOver
<1>3. PlayerTypes' /\ OverIsOver'
  BY <1>1, <1>2 DEF standing, PlayerInv, PlayerTypes, OverIsOver
<1>4. ASSUME ~crossed PROVE InStep'
  <2>1. InStep /\ held = NoError /\ nxt = NoTrack
    BY <1>1, <1>4, WorkingHasNoError DEF PlayerInv, OverIsOver
  <2>2. Restarting' = Restarting /\ Following' = Following /\ Heard' = Heard /\ Known' = Known
    BY <1>1, Zenon DEF standing, Restarting, Following, Heard, Known, compute_auto_advance_index
  <2>3. HeardIsKnown'
    BY <1>1, <2>1, <2>2 DEF standing, InStep, HeardIsKnown, Heard
  <2>4. ArmedFollows'
    BY <1>1, <2>1, <2>2 DEF standing, InStep, ArmedFollows
  <2>5. GenerationKnown' /\ ErrorsBlameHeard'
    BY <1>1, <1>2, <2>1, <2>2 DEF standing, InStep, GenerationKnown, ErrorsBlameHeard
  <2> QED
    BY <2>3, <2>4, <2>5 DEF InStep
<1> QED
  BY <1>3, <1>4 DEF PlayerInv, standing

\* The next track takes over, by crossfade or gaplessly.
LEMMA StepAdvances ==
    ASSUME TypeOK, GenerationsInStep, PlayerInv, UNCHANGED ui, PromoteNext \/ HandOff,
           blame' = IF error' # error THEN path ELSE blame,
           crossed' = (crossed \/ (Restarting /\ gen' # gen))
    PROVE  PlayerInv'
<1>1. /\ pc \in {"promote", "handoff"} /\ pc' \in {"top", "tail"} /\ UNCHANGED <<restart, error>>
      /\ gen' = gen + 1 /\ advanced' = TRUE /\ path' = next /\ dec' = nxt
      /\ next' = NoTrack /\ nxt' = NoTrack
  BY DEF PromoteNext, HandOff, Advance, CloseNext
<1>2. gen \in Nat /\ nxt \in Tracks /\ error.gen \in Nat /\ error.gen <= gen
  BY <1>1 DEF TypeOK, CountsOK, PositionOK, ValuesOK, Error, GenerationsInStep
<1>3. crossed' \in BOOLEAN /\ (~crossed' => ~crossed /\ ~Restarting)
  <2>1. gen' # gen
    BY <1>1, <1>2
  <2> QED
    BY <2>1, Zenon
<1>4. PlayerTypes'
  BY <1>3 DEF ui, PlayerInv, PlayerTypes
<1>5. OverIsOver'
  BY <1>1, <1>2 DEF OverIsOver
<1>6. ASSUME ~crossed' PROVE InStep'
  <2>1. InStep /\ held = NoError /\ (error # NoError => error.gen < Known)
    BY <1>1, <1>3, <1>6, WorkingHasNoError DEF PlayerInv
  <2>2. nxt = next /\ next # NoTrack
    BY <1>1, <1>2, <1>3, <1>6, <2>1, TransportAssumption DEF InStep, ArmedFollows
  <2>3. ~advanced /\ gui \notin {"sync", "arm"} /\ Following > 0 /\ next = Playlist[Following]
    BY <2>1, <2>2 DEF InStep, ArmedFollows
  <2>4. Following' = Following /\ Restarting' = Restarting /\ Known = gen /\ Known' = gen' - 1
    BY <1>1, <2>3, Zenon DEF ui, Following, compute_auto_advance_index, Restarting, Known
  <2>5. Heard' = Following
    BY <1>1, <2>4 DEF Heard
  <2>6. Known' = Known
    BY <1>1, <1>2, <2>4
  <2>7. HeardIsKnown'
    BY <1>1, <1>3, <1>6, <2>2, <2>3, <2>4, <2>5 DEF ui, HeardIsKnown
  <2>8. ArmedFollows'
    BY <1>1, <2>3, <2>4 DEF ui, ArmedFollows
  <2>9. GenerationKnown' /\ ErrorsBlameHeard'
    BY <1>1, <2>1, <2>6 DEF ui, InStep, GenerationKnown, ErrorsBlameHeard
  <2> QED
    BY <2>7, <2>8, <2>9 DEF InStep
<1> QED
  BY <1>4, <1>5, <1>6 DEF PlayerInv

\* Every step of the playback thread keeps the two in step.
LEMMA StepEngine ==
    ASSUME TypeOK, GenerationsInStep, PlayerInv, Engine PROVE PlayerInv'
<1>1. /\ Play /\ UNCHANGED ui /\ blame' = IF error' # error THEN path ELSE blame
      /\ crossed' = (crossed \/ (Restarting /\ gen' # gen)) /\ crossed \in BOOLEAN
  BY DEF Engine, PlayerInv, PlayerTypes
<1>2. ASSUME UNCHANGED <<gen, next, advanced>> PROVE UNCHANGED standing
  BY <1>1, <1>2 DEF standing, ui
<1>3. CASE PromoteNext \/ HandOff
  BY <1>1, <1>3, StepAdvances
<1>4. CASE TakeRestart
  BY <1>1, <1>2, <1>4, StepTakes DEF TakeRestart
<1>5. CASE Publish
  BY <1>1, <1>2, <1>5, StepPublishes DEF Publish
<1>6. CASE OpenFails \/ SeekFails \/ ChunkFails
  <2>1. /\ UNCHANGED <<gen, next, advanced, restart, path, dec, nxt>>
        /\ \E kind \in {"decoder", "output"} : error' = [kind |-> kind, gen |-> cur]
        /\ \/ pc = "open" /\ pc' = "idle"
           \/ pc = "chunk" /\ ~snap.restart /\ pc' = "tail"
    BY <1>6 DEF OpenFails, SeekFails, ChunkFails, Fail, Uncommanded, Decoding
  <2>2. error' # NoError /\ error'.gen = cur
    BY <2>1 DEF NoError
  <2> QED
    BY <1>1, <1>2, <2>1, <2>2, StepReports
<1>7. CASE OutputUnavailable
  <2>1. /\ UNCHANGED <<gen, next, advanced, restart, path, dec, nxt>> /\ pc = "open" /\ pc' = "idle"
        /\ error' = error \/ error' = [kind |-> "output", gen |-> cur]
    BY <1>7, Zenon DEF OutputUnavailable, CancelSameGeneration
  <2>2. CASE error' = error
    BY <1>1, <1>2, <2>1, <2>2, StepWithin
  <2>3. CASE error' = [kind |-> "output", gen |-> cur]
    <3>1. error' # NoError /\ error'.gen = cur
      BY <2>3 DEF NoError
    <3> QED
      BY <1>1, <1>2, <2>1, <3>1, StepReports
  <2> QED
    BY <2>1, <2>2, <2>3
<1>8. CASE DropStaleRequest \/ LeaveForRestart \/ Finish
  <2>1. UNCHANGED <<gen, next, advanced, restart, error>> /\ pc' = "idle"
    BY <1>8 DEF DropStaleRequest, CancelSameGeneration, LeaveForRestart, Finish, shared
  <2> QED
    BY <1>1, <1>2, <2>1, StepWithin
<1>9. CASE SeePause \/ ReleaseForPause \/ ReadCommands \/ LeaveForStop \/ DiscardStaleNext
  <2>1. /\ UNCHANGED <<gen, next, advanced, restart, error, path, dec>>
        /\ nxt' = nxt \/ nxt' = NoTrack
        /\ pc \in InTrack /\ pc # "tail" /\ pc' \in InTrack
        /\ pc' \in {"chunk", "promote"} => snap'.next = next
    BY <1>9 DEF SeePause, ReleaseForPause, ReadCommands, LeaveForStop, DiscardStaleNext, CloseNext, shared
  <2> QED
    BY <1>1, <1>2, <2>1, StepWithin
<1>10. CASE ApplySeek \/ BlendChunk \/ PlainChunk \/ RetryChunk \/ AtEnd
  <2>1. /\ UNCHANGED <<gen, next, advanced, restart, error, path, dec>>
        /\ pc = "chunk" /\ pc' \in {"top", "promote", "handoff", "tail"}
        /\ nxt' = nxt \/ nxt' = NoTrack \/ nxt' = snap.next
        /\ pc' = "promote" => snap' = snap
    BY <1>10 DEF ApplySeek, BlendChunk, PlainChunk, RetryChunk, AtEnd, Uncommanded, Decoding, CloseNext,
       Prefetched, shared
  <2> QED
    BY <1>1, <1>2, <2>1, StepWithin
<1> QED
  BY <1>1, <1>3, <1>4, <1>5, <1>6, <1>7, <1>8, <1>9, <1>10 DEF Play

LEMMA InitPlayer == PlayerInit => PlayerInv
<1> SUFFICES ASSUME PlayerInit PROVE PlayerInv
  OBVIOUS
<1>1. PlayerTypes
  <2>1. gui = "poll" /\ held = NoError /\ index = 0 /\ uiGen = 0
    BY DEF PlayerInit
  <2>2. repeatAll \in BOOLEAN /\ crossed \in BOOLEAN
    BY Zenon DEF PlayerInit
  <2>3. index \in 0 .. Count /\ uiGen \in Nat
    BY <2>1, PlayerAssumption
  <2>4. held \in Error
    BY <2>1 DEF Error, NoError
  <2>5. gui \in GuiPlaces /\ gui # "judge"
    BY <2>1 DEF GuiPlaces, FreePlaces
  <2> QED
    BY <2>1, <2>2, <2>3, <2>4, <2>5, Zenon DEF PlayerTypes
<1>2. ~Restarting /\ ~advanced /\ pc = "idle" /\ next = NoTrack /\ gui = "poll" /\ Known = 0
  BY DEF PlayerInit, Init, Restarting, NoRestart, Known
<1>3. InStep
  BY <1>2 DEF PlayerInit, Init, InStep, HeardIsKnown, ArmedFollows, GenerationKnown, ErrorsBlameHeard
<1>4. OverIsOver
  BY DEF PlayerInit, Init, OverIsOver
<1> QED
  BY <1>1, <1>3, <1>4 DEF PlayerInv

\* The invariants of the engine and of the player together are inductive.
LEMMA StepPlayer ==
    ASSUME TypeOK, GenerationsInStep, PlayerInv, [PlayerNext]_playerVars
    PROVE  [Next]_vars /\ TypeOK' /\ GenerationsInStep' /\ PlayerInv'
<1>1. [Next]_vars
  BY DrivesEngine DEF PlayerInv, PlayerTypes
<1>2. TypeOK' /\ GenerationsInStep'
  BY <1>1, StepTypes, StepGenerations
<1>3. PlayerInv'
  <2>1. CASE Engine
    BY <2>1, StepEngine
  <2>2. CASE \/ Poll \/ toggle_play_pause \/ TakeOver \/ DacModeChanges
             \/ \E i \in 1 .. Count : play_track_at(i)
    BY <2>2, StepUi
  <2>3. CASE UNCHANGED playerVars
    BY <2>3 DEF playerVars, vars, ui, PlayerInv, PlayerTypes, OverIsOver, InStep, HeardIsKnown, ArmedFollows,
       GenerationKnown, ErrorsBlameHeard, Known, Heard, Following, BlamesHeard, AtRest, Restarting,
       compute_auto_advance_index
  <2> QED
    BY <2>1, <2>2, <2>3 DEF PlayerNext
<1> QED
  BY <1>1, <1>2, <1>3

\* gui_player.c drives audio.c through its calls only, so that all that is proved
\* of the engine holds under the player; and the two stay in step (PlayerInv):
\* the user interface is behind the playback thread by one advance at most, the
\* track armed is the one that follows, and errors are about the track heard.
THEOREM PlayerStaysInStep == PlayerSpec => Spec /\ []PlayerInv
<1>1. PlayerInit => Init /\ TypeOK /\ GenerationsInStep /\ PlayerInv
  BY InitPlayer, InitTypes, InitGenerations DEF PlayerInit
<1>2. TypeOK /\ GenerationsInStep /\ PlayerInv /\ [PlayerNext]_playerVars
        => [Next]_vars /\ TypeOK' /\ GenerationsInStep' /\ PlayerInv'
  BY StepPlayer
<1> QED
  BY <1>1, <1>2, PTL DEF PlayerSpec, Spec

\* A track is skipped and remembered as unplayable only for its own failure, for
\* every playlist and however taps, handovers and failures interleave, as long as
\* no advance has crossed a request (gui_player_handle_playback_error_ex).
THEOREM FailuresBlameTheirTrack == PlayerSpec => []FailureBlamesItsTrack
<1>1. PlayerInv => FailureBlamesItsTrack
  <2> SUFFICES ASSUME PlayerInv, gui = "judge", held.kind = "decoder", ~crossed
               PROVE  Playlist[index] = blame
    BY DEF FailureBlamesItsTrack
  <2>1. held # NoError
    BY DEF NoError
  <2>2. held.gen = gen /\ BlamesHeard /\ uiGen = Known /\ held.gen = uiGen
    BY <2>1 DEF PlayerInv, PlayerTypes, InStep, ErrorsBlameHeard, GenerationKnown
  <2>3. ~advanced
    BY <2>2 DEF Known
  <2> QED
    BY <2>2, <2>3, Zenon DEF BlamesHeard, Heard
<1> QED
  BY <1>1, PlayerStaysInStep, PTL

\* When every report of the engine has been taken, the track the player shows is
\* the one the decoder reads, as long as no advance has crossed a request
\* (update_timer_cb).
THEOREM ShownIsHeard == PlayerSpec => []ShowsWhatPlays
<1>1. PlayerInv => ShowsWhatPlays
  BY DEF PlayerInv, InStep, HeardIsKnown, Heard, ShowsWhatPlays, Settled
<1> QED
  BY <1>1, PlayerStaysInStep, PTL
=============================================================================

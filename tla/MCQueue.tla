------------------------------ MODULE MCQueue ------------------------------
(***************************************************************************)
(* Small instances for TLC of the play queue and of the index of MP3       *)
(* files.  They share no state, so a behaviour is a behaviour of one part  *)
(* while the other rests.                                                  *)
(***************************************************************************)
EXTENDS Queue, Mp3Seek

CONSTANTS a, b, c

VARIABLE part

mcVars == <<part, vars, mp3Vars>>

ABC == {a, b, c}

TwoOpen == {<<a, b>>}

OneMore == {<<c>>}

\* Two of the longer one and another are too much for a checkpoint.
MCBytes == [t \in ABC |-> IF t = c THEN 2 ELSE 1]

MCInit == part \in {"queue", "mp3"} /\ Init /\ Mp3Init /\ (part # "queue" => p.gapless)

MCNext ==
    \/ part = "queue" /\ Next /\ UNCHANGED <<part, mp3Vars>>
    \/ part = "mp3" /\ Mp3Next /\ UNCHANGED <<part, vars>>

Runs(A) == part = "mp3" /\ A /\ UNCHANGED <<part, vars>>

\* The fairness of Mp3Spec; the queue has none.
MCFairness ==
    WF_mcVars(Runs(WorkerStep)) /\ WF_mcVars(Runs(DelayElapses)) /\ WF_mcVars(Runs(PlaybackStep))

MCSpec == MCInit /\ [][MCNext]_mcVars /\ MCFairness
=============================================================================

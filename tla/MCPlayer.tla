------------------------------ MODULE MCPlayer ------------------------------
(***************************************************************************)
(* Instances of Player for TLC: short playlists with a track that does not *)
(* open ("d") among ones that do.  To keep the instance small there are at *)
(* most three pauses, failures and stops in a behaviour, one and no pause  *)
(* where the user starts a second track, and one while an external DAC     *)
(* mode is on or has refused a start.                                      *)
(***************************************************************************)
EXTENDS Player

MCLen == [t \in Tracks |-> IF t = "a" THEN 2 ELSE 1]
MCFormat == [t \in Tracks |-> "44k"]
MCPlaylist == [i \in 1 .. Count |-> <<"a", "b", "d">>[i]]

Troubles == pauses + faults + stops
MCNext == /\ PlayerNext
          /\ Troubles' <= 3
          /\ taps' = 2 => pauses' = 0 /\ Troubles' <= 1
          /\ blocked' \/ refused' => taps' <= 1 /\ Troubles' <= 1
MCSpec ==
    PlayerInit /\ [][MCNext]_playerVars /\ WF_playerVars(Engine) /\ WF_playerVars(Poll)
=============================================================================

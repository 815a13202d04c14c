---------------------------- MODULE MCTransport ----------------------------
(***************************************************************************)
(* Instances of Transport for TLC: two tracks of one format and different  *)
(* lengths, a third one of another format or one that does not open.  To   *)
(* keep the instance small, behaviours in which the next track is armed    *)
(* twice are those without a failing device and with a seek or a pause,    *)
(* not both.                                                               *)
(***************************************************************************)
EXTENDS Transport

MCLen == [t \in Tracks |-> IF t = "a" THEN 3 ELSE 2]
MCFormat == [t \in Tracks |-> IF t = "c" THEN "48k" ELSE "44k"]
MCNext == Next /\ (nextGen' = 2 => faults' = 0 /\ seeks' + pauses' <= 1)
MCSpec == Init /\ [][MCNext]_vars
=============================================================================

----------------------------- MODULE MCSdReady ------------------------------
(***************************************************************************)
(* Instances of SdReady for TLC.                                           *)
(***************************************************************************)
EXTENDS SdReady
=============================================================================

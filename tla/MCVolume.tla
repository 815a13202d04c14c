------------------------------ MODULE MCVolume ------------------------------
(***************************************************************************)
(* Instances of Volume for TLC: a taper in which a higher level is a       *)
(* smaller attenuation, and one plugin curve that shares no register value *)
(* with it.  To keep the instance small an accessory does not occur in the *)
(* same behaviour as plugin curves and failing mixer writes, and while the *)
(* drawer's slider is in use there is none of these and no route change:   *)
(* it then races the popup, the keys, reloads and both workers.            *)
(***************************************************************************)
EXTENDS Volume

MCRaw == 0 .. 7
MCTaper == [l \in Level |-> MaxLevel - l]
MCCurves == {[l \in Level |-> 6 - l]}
MCNoCurves == {}

MCInit == Init /\ (btSync => reqReady /\ hwReady)
DrawerInUse == drag["drawer"] \/ touch = "drawer" \/ pending["drawer"] # NoWish
PlainDevice == ~btSync /\ live = NoCurve /\ staged = NoCurve /\ faults = 0 /\ routes = 0
MCNext == /\ Next
          /\ btSync => UNCHANGED <<live, staged, faults>>
          /\ (DrawerInUse \/ DrawerInUse') => PlainDevice /\ PlainDevice'
MCSpec == MCInit /\ [][MCNext]_vars /\ Fairness
=============================================================================

---------------------------- MODULE DurableCell -----------------------------
(***************************************************************************)
(* What a crash-safe store promises: one value, replaced as a whole by     *)
(* newer ones.  Readers see a published value at once; until it is settled *)
(* a crash may still bring back the value before it, and nothing else.     *)
(***************************************************************************)
EXTENDS Naturals

CONSTANT CellValues

VARIABLES now,    \* the value readers see
          maybe   \* the values a crash could leave

CellInit == now \in CellValues /\ maybe = {now}

Publish == \E v \in CellValues : /\ \A u \in maybe : u < v
                                 /\ maybe' = maybe \cup {v}
                                 /\ now' = v

Settle == maybe' = {now} /\ now' = now

CellCrash == now' \in maybe /\ maybe' = {now'}

CellNext == Publish \/ Settle \/ CellCrash

CellSpec == CellInit /\ [][CellNext]_<<now, maybe>>
=============================================================================

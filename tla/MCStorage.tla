------------------------------ MODULE MCStorage -----------------------------
(***************************************************************************)
(* The parts that share nothing but the storage, for TLC: the bootloader's *)
(* wait and its installer, the settings, the queue checkpoint, the library *)
(* database, the hot-plug poll and the repair of a card.  A behaviour is a *)
(* behaviour of one part while the others rest.                            *)
(***************************************************************************)
EXTENDS Boot, SdReady, Settings, Checkpoint, TagcacheCommit, CardHotplug,
        SdRepair

VARIABLE part

vars == <<part, bootVars, readyVars, settingsVars, checkpointVars, tagcacheVars, hotplugVars,
          repairVars>>

\* Builds: an old and a new one, one without a stamp, one that is no executable.
MCStamp == [b \in Builds |-> CASE b = "old" -> 1 [] b = "new" -> 2 [] OTHER -> 0]

Init ==
    /\ part \in {"boot", "ready", "settings", "checkpoint", "tagcache", "hotplug", "repair"}
    /\ BootInit /\ ReadyInit /\ SettingsInit /\ CheckpointInit /\ TagcacheInit /\ HotplugInit
    /\ RepairInit
    /\ part # "boot" => packaged = "old" /\ inst = [p \in Paths |-> NoFile]
    /\ part # "ready" => ~mounted
    /\ part # "settings" => settingsDir.legacy = NoSettings
    /\ part # "checkpoint" => ckCard
    /\ part # "hotplug" => slot.card = 0
    /\ part # "repair" => inSlot = 1 /\ fs = [c \in RepairCards |-> "sound"]

Next ==
    \/ /\ part = "boot" /\ BootNext
       /\ UNCHANGED <<part, readyVars, settingsVars, checkpointVars, tagcacheVars, hotplugVars, repairVars>>
    \/ /\ part = "ready" /\ ReadyNext
       /\ UNCHANGED <<part, bootVars, settingsVars, checkpointVars, tagcacheVars, hotplugVars, repairVars>>
    \/ /\ part = "settings" /\ SettingsNext
       /\ UNCHANGED <<part, bootVars, readyVars, checkpointVars, tagcacheVars, hotplugVars, repairVars>>
    \/ /\ part = "checkpoint" /\ CheckpointNext
       /\ UNCHANGED <<part, bootVars, readyVars, settingsVars, tagcacheVars, hotplugVars, repairVars>>
    \/ /\ part = "tagcache" /\ TagcacheNext
       /\ UNCHANGED <<part, bootVars, readyVars, settingsVars, checkpointVars, hotplugVars, repairVars>>
    \/ /\ part = "hotplug" /\ HotplugNext
       /\ UNCHANGED <<part, bootVars, readyVars, settingsVars, checkpointVars, tagcacheVars, repairVars>>
    \/ /\ part = "repair" /\ RepairNext
       /\ UNCHANGED <<part, bootVars, readyVars, settingsVars, checkpointVars, tagcacheVars, hotplugVars>>

In(p) == part = p /\ part' = p

mine ==
    CASE part = "boot" -> bootVars
      [] part = "ready" -> readyVars
      [] part = "settings" -> settingsVars
      [] part = "checkpoint" -> checkpointVars
      [] part = "tagcache" -> tagcacheVars
      [] part = "hotplug" -> hotplugVars
      [] part = "repair" -> repairVars

\* The fairness of each part's own specification, while it runs.  Only one of
\* them does, so that conditions of different parts are stated together.
Fairness ==
    /\ WF_mine(\/ In("boot") /\ Step
               \/ In("settings") /\ WorkerTakes
               \/ In("checkpoint") /\ PeriodicCheckpoint
               \/ In("hotplug") /\ Poll
               \/ In("repair") /\ PollCard)
    /\ WF_mine(\/ In("checkpoint") /\ PollUrgent
               \/ In("repair") /\ CheckEnds)
    /\ WF_mine(\/ In("checkpoint") /\ WorkerWrites
               \/ In("repair") /\ Format)
    /\ WF_mine(In("checkpoint") /\ WorkerCleansUp)
    /\ WF_mine(In("checkpoint") /\ FlushJoins)
    /\ WF_mine(In("checkpoint") /\ FlushWrites)
    /\ WF_mine(In("checkpoint") /\ FlushEnds)
    /\ \A t \in Writers : WF_mine(In("settings") /\ WriterStep(t))
    /\ SF_mine(In("hotplug") /\ ScanEnds)

Spec == Init /\ [][Next]_vars /\ Fairness
=============================================================================

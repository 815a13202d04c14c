---------------------------- MODULE VolumeProofs ----------------------------
(***************************************************************************)
(* Proofs about Volume, for every number of levels, every set of curves    *)
(* and every bound.                                                        *)
(***************************************************************************)
EXTENDS Volume, TLAPS

(***************************************************************************)
(* What the helpers return.                                                *)
(***************************************************************************)
\* Every curve, the built-in taper included, maps a level to a register value.
LEMMA RawType ==
    ASSUME NEW curve \in Curves \cup {NoCurve}, NEW v \in Level
    PROVE  compute_hw_raw(curve, v) \in Raw
BY ConstAssumption DEF compute_hw_raw

\* The PCM multiplier is a level.
LEMMA GainType ==
    ASSUME NEW v \in Level, NEW onUsb \in BOOLEAN
    PROVE  VolumeGain(v, onUsb) \in Level
BY ConstAssumption DEF VolumeGain, Level

\* A register request leaves the mixer's state well typed.
LEMMA MixerType ==
    ASSUME TypeOK, NEW raw \in Raw, audio_output_request_hw_volume_raw(raw)
    PROVE  /\ slot' \in Raw \cup {None} /\ hand' \in Raw \cup {None}
           /\ hw' \in [Channels -> Raw \cup {None}]
           /\ faulty' \in SUBSET Channels
           /\ faults' \in 0 .. MaxFaults
BY ConstAssumption DEF TypeOK, audio_output_request_hw_volume_raw,
   audio_output_set_hw_volume_raw

\* So does applying a volume, which also leaves a well-typed volume and gain.
LEMMA ApplyType ==
    ASSUME TypeOK, NEW w \in Wish, NEW g, audio_apply_volume(w, g)
    PROVE  /\ slot' \in Raw \cup {None} /\ hand' \in Raw \cup {None}
           /\ hw' \in [Channels -> Raw \cup {None}]
           /\ faulty' \in SUBSET Channels
           /\ faults' \in 0 .. MaxFaults
           /\ vol' \in Wish /\ gain' \in Level
<1>1. w.value \in Level /\ live \in Curves \cup {NoCurve} /\ usb \in BOOLEAN
  BY DEF TypeOK, Wish
<1>2. compute_hw_raw(live, w.value) \in Raw
  BY <1>1, RawType
<1>3. VolumeGain(w.value, usb) \in Level
  BY <1>1, GainType
<1>4. CASE gen = g
  <2>1. audio_output_request_hw_volume_raw(compute_hw_raw(live, w.value))
    BY <1>4 DEF audio_apply_volume
  <2> QED BY <1>2, <1>3, <1>4, <2>1, MixerType DEF audio_apply_volume
<1>5. CASE gen # g
  BY <1>5 DEF audio_apply_volume, mix, TypeOK
<1> QED BY <1>4, <1>5

\* A new wish, and the start of a command, are well typed.
LEMMA StartType ==
    ASSUME TypeOK, NEW t \in Callers, NEW step \in {"set", "queue"},
           NEW w \in Wish, Start(t, step, w)
    PROVE  /\ gen' \in Nat /\ issued' \in Wish /\ late' \in BOOLEAN
           /\ cmd' \in [Callers -> [step : {"idle", "changed", "read", "set", "queue"},
                                    wish : Wish \cup {NoWish}, gen : Nat]]
           /\ \A u \in Callers : CmdType(u)'
<1>1. gen' = gen + 1 /\ gen \in Nat /\ issued' = w
  BY DEF Start, TypeOK
<1> DEFINE c == [step |-> step, wish |-> w, gen |-> gen + 1]
<1>2. c \in Cmd
  BY <1>1 DEF Cmd
<1>3. cmd' = [cmd EXCEPT ![t] = c]
  BY DEF Start
<1>4. c \in [step : {"idle", "changed", "read", "set", "queue"},
             wish : Wish \cup {NoWish}, gen : Nat]
  BY <1>1
<1>5. cmd' \in [Callers -> [step : {"idle", "changed", "read", "set", "queue"},
                            wish : Wish \cup {NoWish}, gen : Nat]]
  BY <1>3, <1>4 DEF TypeOK
<1>6. ASSUME NEW u \in Callers PROVE CmdType(u)'
  <2>1. cmd'[u] = IF u = t THEN c ELSE cmd[u]
    BY <1>3 DEF TypeOK
  <2>2. CmdType(u)
    BY DEF TypeOK
  <2> QED BY <1>2, <2>1, <2>2 DEF CmdType
<1>7. late' \in BOOLEAN
  BY Zenon DEF Start
<1> QED BY <1>1, <1>5, <1>6, <1>7

\* A thread that is in the middle of a call holds a wish and a generation.
LEMMA CmdInFlight ==
    ASSUME TypeOK, NEW t \in Callers, cmd[t].step \in {"set", "queue"}
    PROVE  cmd[t] \in Cmd /\ cmd[t].wish \in Wish /\ cmd[t].gen \in Nat
<1>1. CmdType(t) BY DEF TypeOK
<1>2. cmd[t] # NoCmd /\ cmd[t] # MustReapply BY DEF NoCmd, MustReapply
<1>3. cmd[t] \notin [step : {"read"}, wish : Wish, gen : {0}] OBVIOUS
<1> QED BY <1>1, <1>2, <1>3 DEF CmdType, Cmd

\* Finishing a call leaves the thread idle and the others as they were.
LEMMA IdleType ==
    ASSUME TypeOK, NEW t \in Callers, cmd' = [cmd EXCEPT ![t] = NoCmd]
    PROVE  /\ cmd' \in [Callers -> [step : {"idle", "changed", "read", "set", "queue"},
                                    wish : Wish \cup {NoWish}, gen : Nat]]
           /\ \A u \in Callers : CmdType(u)'
<1>1. NoCmd \in [step : {"idle", "changed", "read", "set", "queue"},
                wish : Wish \cup {NoWish}, gen : Nat]
  BY DEF NoCmd
<1>2. ASSUME NEW u \in Callers PROVE CmdType(u)'
  <2>1. cmd'[u] = IF u = t THEN NoCmd ELSE cmd[u] BY DEF TypeOK
  <2>2. CmdType(u) BY DEF TypeOK
  <2> QED BY <2>1, <2>2 DEF CmdType
<1> QED BY <1>1, <1>2 DEF TypeOK

\* The playback thread's two intermediate steps are well typed.
LEMMA ReapplyType ==
    ASSUME TypeOK, NEW c \in {MustReapply} \cup [step : {"read"}, wish : Wish, gen : {0}],
           cmd' = [cmd EXCEPT ![PB] = c]
    PROVE  /\ cmd' \in [Callers -> [step : {"idle", "changed", "read", "set", "queue"},
                                    wish : Wish \cup {NoWish}, gen : Nat]]
           /\ \A u \in Callers : CmdType(u)'
<1>1. c \in [step : {"idle", "changed", "read", "set", "queue"},
            wish : Wish \cup {NoWish}, gen : Nat]
  BY DEF MustReapply
<1>2. ASSUME NEW u \in Callers PROVE CmdType(u)'
  <2>1. cmd'[u] = IF u = PB THEN c ELSE cmd[u] BY DEF TypeOK
  <2>2. CmdType(u) BY DEF TypeOK
  <2> QED BY <2>1, <2>2 DEF CmdType
<1> QED BY <1>1, <1>2 DEF TypeOK, Callers

\* The wish a user expresses next is a wish.
LEMMA NewWishType ==
    ASSUME TypeOK, NEW v \in Level, Express
    PROVE  NewWish(v) \in Wish /\ intents' \in 0 .. MaxIntents
BY ConstAssumption DEF TypeOK, NewWish, Wish, Express

\* NoWish is not a wish.
LEMMA NoWishNotWish == NoWish \notin Wish
BY DEF NoWish, Wish, Level, None

\* TypeOK is an invariant, for every value of the constants: levels stay in
\* range, the mixer only ever holds register values of a curve, and a call in
\* the middle of its two steps always holds a level and a generation.
THEOREM TypeCorrect == Spec => []TypeOK
<1>1. Init => TypeOK
  <2> SUFFICES ASSUME Init PROVE TypeOK
    OBVIOUS
  <2>1. /\ vol \in Wish /\ issued \in Wish /\ gain \in Level
        /\ intents \in 0 .. MaxIntents /\ routes \in 0 .. MaxRoutes
        /\ faults \in 0 .. MaxFaults
    BY ConstAssumption DEF Init, Wish, Level
  <2>2. cmd \in [Callers -> [step : {"idle", "changed", "read", "set", "queue"},
                            wish : Wish \cup {NoWish}, gen : Nat]]
    BY DEF Init, NoCmd
  <2>3. \A t \in Callers : CmdType(t)
    BY DEF Init, CmdType
  <2> QED BY <2>1, <2>2, <2>3 DEF Init, TypeOK
<1>2. TypeOK /\ [Next]_vars => TypeOK'
  <2> SUFFICES ASSUME TypeOK, [Next]_vars PROVE TypeOK'
    OBVIOUS
  <2> USE DEF ui, mix, out
  <2>1. ASSUME NEW t \in Callers, FinishSet(t) PROVE TypeOK'
    <3>1. cmd[t].wish \in Wish
      BY <2>1, CmdInFlight DEF FinishSet
    <3>2. audio_apply_volume(cmd[t].wish, cmd[t].gen)
      BY <2>1 DEF FinishSet
    <3>3. cmd' = [cmd EXCEPT ![t] = NoCmd]
      BY <2>1 DEF FinishSet
    <3>4. lastUsb' \in BOOLEAN
      BY <2>1 DEF FinishSet, TypeOK
    <3>5. UNCHANGED <<ui, gen, req, reqReady, work, live, staged, hwReady, usb, routes,
                      intents, issued, late, btSync>>
      BY <2>1 DEF FinishSet
    <3>6. /\ slot' \in Raw \cup {None} /\ hand' \in Raw \cup {None}
          /\ hw' \in [Channels -> Raw \cup {None}] /\ faulty' \in SUBSET Channels
          /\ faults' \in 0 .. MaxFaults /\ vol' \in Wish /\ gain' \in Level
      BY <3>1, <3>2, ApplyType
    <3>7. /\ cmd' \in [Callers -> [step : {"idle", "changed", "read", "set", "queue"},
                                   wish : Wish \cup {NoWish}, gen : Nat]]
          /\ \A u \in Callers : CmdType(u)'
      BY <3>3, IdleType
    <3> QED BY <3>4, <3>5, <3>6, <3>7 DEF TypeOK
  <2>2. CASE FinishRequest
    <3>1. UI \in Callers /\ cmd[UI].step = "queue"
      BY <2>2 DEF FinishRequest, Callers
    <3>2. cmd[UI].wish \in Wish /\ cmd[UI].gen \in Nat \ {0}
      BY <3>1, CmdInFlight DEF Cmd
    <3>3. cmd' = [cmd EXCEPT ![UI] = NoCmd]
      BY <2>2 DEF FinishRequest
    <3>4. CASE reqReady
      <4>1. req' = [wish |-> cmd[UI].wish, gen |-> cmd[UI].gen]
        BY <2>2, <3>4 DEF FinishRequest
      <4>2. req' \in [wish : Wish, gen : Nat \ {0}]
        BY <3>2, <4>1
      <4> QED BY <2>2, <3>1, <3>3, <3>4, <4>2, IdleType DEF FinishRequest, TypeOK
    <3>5. CASE ~reqReady
      <4>1. audio_apply_volume(cmd[UI].wish, cmd[UI].gen)
        BY <2>2, <3>5 DEF FinishRequest
      <4> QED BY <2>2, <3>1, <3>2, <3>3, <3>5, <4>1, ApplyType, IdleType
              DEF FinishRequest, TypeOK
    <3> QED BY <3>4, <3>5
  <2>3. ASSUME NEW s \in Sliders, hw_volume_coalesce_drag_begin(s) PROVE TypeOK'
    BY <2>3 DEF hw_volume_coalesce_drag_begin, TypeOK, CmdType
  <2>4. ASSUME NEW s \in Sliders, hw_volume_coalesce_timer_cb(s) PROVE TypeOK'
    <3>1. pending[s] \in Wish
      BY <2>4 DEF hw_volume_coalesce_timer_cb, TypeOK
    <3>2. Start(UI, "queue", pending[s]) /\ UI \in Callers
      BY <2>4 DEF hw_volume_coalesce_timer_cb, Callers
    <3> QED BY <2>4, <3>1, <3>2, StartType DEF hw_volume_coalesce_timer_cb, TypeOK
  <2>5. ASSUME NEW s \in Sliders, NEW v \in Level, hw_volume_coalesce_drag_update(s, v)
        PROVE TypeOK'
    <3>1. NewWish(v) \in Wish /\ intents' \in 0 .. MaxIntents
      BY <2>5, NewWishType DEF hw_volume_coalesce_drag_update
    <3> QED BY <2>5, <3>1 DEF hw_volume_coalesce_drag_update, TypeOK, CmdType, Express
  <2>6. ASSUME NEW s \in Sliders, NEW v \in Level, hw_volume_coalesce_drag_end(s, v)
        PROVE TypeOK'
    <3>1. NewWish(v) \in Wish /\ intents' \in 0 .. MaxIntents
      BY <2>6, NewWishType DEF hw_volume_coalesce_drag_end
    <3>2. Start(UI, "set", NewWish(v)) /\ UI \in Callers
      BY <2>6 DEF hw_volume_coalesce_drag_end, Callers
    <3> QED BY <2>6, <3>1, <3>2, StartType
            DEF hw_volume_coalesce_drag_end, hw_volume_coalesce_cancel, TypeOK
  <2>7. ASSUME NEW s \in Sliders, NEW v \in Level, hw_volume_coalesce_teardown(s, v)
        PROVE TypeOK'
    <3> DEFINE wish == IF drag[s] THEN NewWish(v) ELSE pending[s]
    <3>1. intents' \in 0 .. MaxIntents
      BY <2>7, NewWishType DEF hw_volume_coalesce_teardown, TypeOK
    <3>2. drag[s] => NewWish(v) \in Wish
      BY <2>7, NewWishType DEF hw_volume_coalesce_teardown
    <3>3. wish \in Wish \cup {NoWish}
      BY <3>2 DEF TypeOK
    <3>4. /\ pending' \in [Sliders -> Wish \cup {NoWish}] /\ drag' \in [Sliders -> BOOLEAN]
          /\ touch' \in Sliders \cup {"none"}
      BY <2>7 DEF hw_volume_coalesce_teardown, hw_volume_coalesce_cancel, TypeOK
    <3>5. CASE wish # NoWish
      <4>1. wish \in Wish /\ UI \in Callers
        BY <3>3, <3>5 DEF Callers
      <4>2. Start(UI, "set", wish)
        BY <2>7, <3>5 DEF hw_volume_coalesce_teardown
      <4> HIDE DEF wish
      <4> QED BY <2>7, <3>1, <3>4, <4>1, <4>2, StartType
              DEF hw_volume_coalesce_teardown, TypeOK
    <3>6. CASE wish = NoWish
      <4>1. UNCHANGED <<gen, cmd, issued, late>>
        BY <2>7, <3>6 DEF hw_volume_coalesce_teardown
      <4> HIDE DEF wish
      <4> QED BY <2>7, <3>1, <3>4, <4>1 DEF hw_volume_coalesce_teardown, TypeOK, CmdType
    <3> QED BY <3>5, <3>6
  <2>8. ASSUME NEW v \in Level, ExternalSet(v) PROVE TypeOK'
    <3>1. NewWish(v) \in Wish /\ intents' \in 0 .. MaxIntents
      BY <2>8, NewWishType DEF ExternalSet
    <3>2. Start(UI, "set", NewWish(v)) /\ UI \in Callers
      BY <2>8 DEF ExternalSet, Callers
    <3> QED BY <2>8, <3>1, <3>2, StartType DEF ExternalSet, hw_volume_coalesce_cancel, TypeOK
  <2>9. ASSUME NEW v \in Level, AccessorySet(v) PROVE TypeOK'
    <3>1. NewWish(v) \in Wish /\ intents' \in 0 .. MaxIntents
      BY <2>9, NewWishType DEF AccessorySet
    <3>2. Start(BT, "set", NewWish(v)) /\ BT \in Callers
      BY <2>9 DEF AccessorySet, Callers
    <3> QED BY <2>9, <3>1, <3>2, StartType DEF AccessorySet, TypeOK
  <2>10. CASE RequestWorkerTake
    BY <2>10 DEF RequestWorkerTake, TypeOK, CmdType
  <2>11. CASE RequestWorkerApply
    <3>1. work.wish \in Wish /\ audio_apply_volume(work.wish, work.gen)
      BY <2>11 DEF RequestWorkerApply, TypeOK
    <3> QED BY <2>11, <3>1, ApplyType DEF RequestWorkerApply, TypeOK, CmdType
  <2>12. CASE MixerWorkerTake
    BY <2>12 DEF MixerWorkerTake, TypeOK, CmdType
  <2>13. CASE MixerWorkerWrite
    <3>1. hand \in Raw
      BY <2>13 DEF MixerWorkerWrite, TypeOK
    <3>2. /\ hw' \in [Channels -> Raw \cup {None}] /\ faulty' \in SUBSET Channels
          /\ faults' \in 0 .. MaxFaults
      BY <2>13, <3>1, ConstAssumption
      DEF MixerWorkerWrite, audio_output_set_hw_volume_raw, TypeOK
    <3> QED BY <2>13, <3>2 DEF MixerWorkerWrite, TypeOK, CmdType
  <2>14. ASSUME NEW c \in Curves \cup {NoCurve}, audio_stage_custom_hw_volume_curve(c)
         PROVE TypeOK'
    BY <2>14 DEF audio_stage_custom_hw_volume_curve, TypeOK, CmdType
  <2>15. ASSUME NEW c \in Curves \cup {NoCurve}, InstallCurve(c) PROVE TypeOK'
    <3>1. compute_hw_raw(c, vol.value) \in Raw
      BY RawType DEF TypeOK, Wish
    <3>2. audio_output_request_hw_volume_raw(compute_hw_raw(c, vol.value))
      BY <2>15 DEF InstallCurve
    <3> QED BY <2>15, <3>1, <3>2, MixerType DEF InstallCurve, TypeOK, CmdType
  <2>16. ASSUME NEW onUsb \in BOOLEAN, ensure_device_format(onUsb) PROVE TypeOK'
    <3>1. routes' \in 0 .. MaxRoutes
      BY <2>16, ConstAssumption DEF ensure_device_format, TypeOK
    <3>2. CASE onUsb # lastUsb
      <4>1. cmd' = [cmd EXCEPT ![PB] = MustReapply]
        BY <2>16, <3>2 DEF ensure_device_format
      <4>2. /\ cmd' \in [Callers -> [step : {"idle", "changed", "read", "set", "queue"},
                                wish : Wish \cup {NoWish}, gen : Nat]]
            /\ \A u \in Callers : CmdType(u)'
        BY <4>1, ReapplyType
      <4> QED BY <2>16, <3>1, <4>2 DEF ensure_device_format, TypeOK
    <3>3. CASE onUsb = lastUsb
      BY <2>16, <3>1, <3>3 DEF ensure_device_format, TypeOK, CmdType
    <3> QED BY <3>2, <3>3
  <2>17. CASE audio_get_volume
    <3>1. [step |-> "read", wish |-> vol, gen |-> 0]
             \in [step : {"read"}, wish : Wish, gen : {0}]
      BY DEF TypeOK
    <3>2. cmd' = [cmd EXCEPT ![PB] = [step |-> "read", wish |-> vol, gen |-> 0]]
      BY <2>17 DEF audio_get_volume
    <3>3. /\ cmd' \in [Callers -> [step : {"idle", "changed", "read", "set", "queue"},
                                wish : Wish \cup {NoWish}, gen : Nat]]
          /\ \A u \in Callers : CmdType(u)'
      BY <3>1, <3>2, ReapplyType
    <3> QED BY <2>17, <3>3 DEF audio_get_volume, TypeOK
  <2>18. CASE Reapply
    <3>1. PB \in Callers /\ CmdType(PB)
      BY DEF TypeOK, Callers
    <3>2. cmd[PB].wish \in Wish
      BY <2>18, <3>1 DEF Reapply, CmdType, NoCmd, MustReapply, Cmd
    <3>3. Start(PB, "set", cmd[PB].wish)
      BY <2>18 DEF Reapply
    <3> QED BY <2>18, <3>1, <3>2, <3>3, StartType DEF Reapply, TypeOK
  <2>19. CASE close_device
    <3>1. routes' \in 0 .. MaxRoutes
      BY <2>19, ConstAssumption DEF close_device, TypeOK
    <3>2. usb' \in BOOLEAN
      BY <2>19 DEF close_device
    <3>3. UNCHANGED <<ui, gen, cmd, req, reqReady, work, vol, gain, live, staged,
                      hwReady, mix, lastUsb, intents, issued, late, btSync>>
      BY <2>19 DEF close_device
    <3> QED BY <3>1, <3>2, <3>3 DEF TypeOK, CmdType
  <2>20. CASE UNCHANGED vars
    BY <2>20 DEF vars, TypeOK, CmdType
  <2> QED
    BY <2>1, <2>2, <2>3, <2>4, <2>5, <2>6, <2>7, <2>8, <2>9, <2>10, <2>11, <2>12,
       <2>13, <2>14, <2>15, <2>16, <2>17, <2>18, <2>19, <2>20
    DEF Next, audio_commit_hw_volume_curve, audio_set_custom_hw_volume_curve, TypeOK
<1> QED BY <1>1, <1>2, PTL DEF Spec

-----------------------------------------------------------------------------
(***************************************************************************)
(* The newest command is never lost.  The strengthening: no command has a  *)
(* generation beyond gen, a command of generation gen carries the newest   *)
(* wish, and what the UI thread is about to put in the request slot is     *)
(* newer than what is there.                                               *)
(***************************************************************************)
Current(w, g) == g <= gen /\ (g = gen => w = issued)

CommandsOrdered ==
    /\ \A t \in Callers :
          cmd[t].step \in {"set", "queue"} => Current(cmd[t].wish, cmd[t].gen)
    /\ req # NoJob => Current(req.wish, req.gen)
    /\ work # NoJob => Current(work.wish, work.gen)
    /\ cmd[UI].step = "queue" => req.gen < cmd[UI].gen

CommandInv == TypeOK /\ CommandsOrdered /\ LatestCommandNotLost

\* Starting a command makes it the newest one, and every other one older.
LEMMA StartKeepsOrder ==
    ASSUME CommandInv, NEW t \in Callers, NEW step \in {"set", "queue"},
           NEW w \in Wish, Start(t, step, w), step = "queue" => t = UI,
           cmd[t].step \notin {"set", "queue"}, UNCHANGED <<req, work>>
    PROVE  CommandsOrdered' /\ LatestCommandNotLost'
<1> DEFINE c == [step |-> step, wish |-> w, gen |-> gen + 1]
<1>1. /\ gen \in Nat /\ gen' = gen + 1 /\ issued' = w /\ req' = req /\ work' = work
      /\ cmd' = [cmd EXCEPT ![t] = c]
  BY DEF CommandInv, TypeOK, Start
<1>2. \A u \in Callers : cmd'[u] = IF u = t THEN c ELSE cmd[u]
  BY <1>1 DEF CommandInv, TypeOK
<1>3. \A u \in Callers : cmd[u].gen \in Nat
  BY DEF CommandInv, TypeOK
<1>4. req.gen \in Nat /\ work.gen \in Nat
  BY DEF CommandInv, TypeOK, NoJob
<1>5. req.gen < gen + 1 /\ work.gen < gen + 1
  BY <1>1, <1>4 DEF CommandInv, CommandsOrdered, Current, NoJob
<1>6. ASSUME NEW u \in Callers, cmd'[u].step \in {"set", "queue"}
      PROVE  Current(cmd[u].wish, cmd[u].gen)'
  <2>1. CASE u = t
    BY <1>1, <1>2, <2>1 DEF Current
  <2>2. CASE u # t
    <3>1. cmd'[u] = cmd[u] BY <1>2, <2>2
    <3>2. cmd[u].gen <= gen
      BY <1>6, <3>1 DEF CommandInv, CommandsOrdered, Current
    <3> QED BY <1>1, <1>3, <3>1, <3>2 DEF Current
  <2> QED BY <2>1, <2>2
<1>7. cmd'[UI].step = "queue" => req'.gen < cmd'[UI].gen
  <2>1. UI \in Callers BY DEF Callers
  <2>2. CASE UI = t
    BY <1>1, <1>2, <1>5, <2>1, <2>2
  <2>3. CASE UI # t
    BY <1>1, <1>2, <2>1, <2>3 DEF CommandInv, CommandsOrdered
  <2> QED BY <2>2, <2>3
<1>8. CommandsOrdered'
  BY <1>1, <1>4, <1>5, <1>6, <1>7 DEF CommandsOrdered, Current
<1>9. cmd'[t].step \in {"set", "queue"} /\ cmd'[t].gen = gen' /\ cmd'[t].wish = issued'
  BY <1>1, <1>2
<1> QED BY <1>8, <1>9 DEF LatestCommandNotLost, CarriedBy

\* Applying the newest command makes it the volume; applying an older one
\* changes nothing.
LEMMA ApplyNewest ==
    ASSUME NEW w, NEW g, audio_apply_volume(w, g), Current(w, g), UNCHANGED <<gen, issued>>
    PROVE  IF g = gen THEN vol' = issued' ELSE vol' = vol
BY DEF audio_apply_volume, Current, mix

\* A step that touches no command, slot or volume preserves the order.
LEMMA OrderUnchanged ==
    ASSUME CommandsOrdered, LatestCommandNotLost,
           UNCHANGED <<cmd, req, work, gen, issued, vol>>
    PROVE  CommandsOrdered' /\ LatestCommandNotLost'
BY DEF CommandsOrdered, LatestCommandNotLost, CarriedBy, Current

\* LatestCommandNotLost is an invariant, whatever the number of callers'
\* commands, sliders and route changes: the generation check and the two
\* single-slot queues never lose the newest volume command.
THEOREM NewestCommandKept == Spec => []LatestCommandNotLost
<1>1. Init => CommandsOrdered /\ LatestCommandNotLost
  BY DEF Init, CommandsOrdered, LatestCommandNotLost, NoCmd, Callers, UI
<1>2. TypeOK /\ CommandsOrdered /\ LatestCommandNotLost /\ [Next]_vars
        => CommandsOrdered' /\ LatestCommandNotLost'
  <2> SUFFICES ASSUME TypeOK, CommandsOrdered, LatestCommandNotLost, [Next]_vars
               PROVE  CommandsOrdered' /\ LatestCommandNotLost'
    OBVIOUS
  <2>0. CommandInv /\ UI \in Callers /\ BT \in Callers /\ PB \in Callers
    BY DEF CommandInv, Callers
  <2>a. \A t \in Callers : Idle(t) => cmd[t].step \notin {"set", "queue"}
    BY DEF Idle, NoCmd
  <2>1. ASSUME NEW t \in Callers, FinishSet(t)
        PROVE  CommandsOrdered' /\ LatestCommandNotLost'
    <3>1. /\ cmd[t].step = "set" /\ cmd' = [cmd EXCEPT ![t] = NoCmd]
          /\ UNCHANGED <<gen, req, work, issued>>
          /\ audio_apply_volume(cmd[t].wish, cmd[t].gen)
      BY <2>1 DEF FinishSet
    <3>2. \A u \in Callers : cmd'[u] = IF u = t THEN NoCmd ELSE cmd[u]
      BY <3>1 DEF TypeOK
    <3>3. CommandsOrdered'
      BY <2>0, <3>1, <3>2 DEF CommandsOrdered, Current, NoCmd
    <3>4. Current(cmd[t].wish, cmd[t].gen)
      BY <3>1 DEF CommandsOrdered
    <3>5. IF cmd[t].gen = gen THEN vol' = issued' ELSE vol' = vol
      BY <3>1, <3>4, ApplyNewest
    <3>6. CASE cmd[t].gen = gen
      BY <3>3, <3>5, <3>6 DEF LatestCommandNotLost
    <3>7. CASE cmd[t].gen # gen
      BY <3>1, <3>2, <3>3, <3>5, <3>7 DEF LatestCommandNotLost, CarriedBy
    <3> QED BY <3>6, <3>7
  <2>2. CASE FinishRequest
    <3>1. /\ cmd[UI].step = "queue" /\ cmd' = [cmd EXCEPT ![UI] = NoCmd]
          /\ UNCHANGED <<gen, work, issued>>
      BY <2>2 DEF FinishRequest
    <3>2. \A u \in Callers : cmd'[u] = IF u = UI THEN NoCmd ELSE cmd[u]
      BY <2>0, <3>1 DEF TypeOK
    <3>3. Current(cmd[UI].wish, cmd[UI].gen) /\ req.gen < cmd[UI].gen
      BY <2>0, <3>1 DEF CommandsOrdered
    <3>4. cmd[UI].gen \in Nat /\ req.gen \in Nat /\ gen \in Nat
      BY <2>0 DEF TypeOK, NoJob
    <3>5. CASE reqReady
      <4>1. req' = [wish |-> cmd[UI].wish, gen |-> cmd[UI].gen] /\ vol' = vol
        BY <2>2, <3>5 DEF FinishRequest
      <4>2. CommandsOrdered'
        BY <2>0, <3>1, <3>2, <3>3, <4>1 DEF CommandsOrdered, Current, NoCmd
      <4>3. req.gen # gen
        BY <3>3, <3>4 DEF Current
      <4> QED BY <3>1, <3>2, <4>1, <4>2, <4>3 DEF LatestCommandNotLost, CarriedBy
    <3>6. CASE ~reqReady
      <4>1. audio_apply_volume(cmd[UI].wish, cmd[UI].gen) /\ UNCHANGED req
        BY <2>2, <3>6 DEF FinishRequest
      <4>2. IF cmd[UI].gen = gen THEN vol' = issued' ELSE vol' = vol
        BY <3>1, <3>3, <4>1, ApplyNewest
      <4>3. CommandsOrdered'
        BY <2>0, <3>1, <3>2, <4>1 DEF CommandsOrdered, Current, NoCmd
      <4>4. CASE cmd[UI].gen = gen
        BY <4>2, <4>3, <4>4 DEF LatestCommandNotLost
      <4>5. CASE cmd[UI].gen # gen
        BY <3>1, <3>2, <4>1, <4>2, <4>3, <4>5 DEF LatestCommandNotLost, CarriedBy
      <4> QED BY <4>4, <4>5
    <3> QED BY <3>5, <3>6
  <2>3. ASSUME NEW s \in Sliders, hw_volume_coalesce_timer_cb(s)
        PROVE  CommandsOrdered' /\ LatestCommandNotLost'
    <3>1. pending[s] \in Wish /\ Idle(UI)
      BY <2>3 DEF hw_volume_coalesce_timer_cb, TypeOK
    <3>2. Start(UI, "queue", pending[s]) /\ UNCHANGED <<req, work>>
      BY <2>3 DEF hw_volume_coalesce_timer_cb
    <3> QED BY <2>0, <2>a, <3>1, <3>2, StartKeepsOrder
  <2>4. ASSUME NEW t \in {UI, BT}, NEW w \in Wish, Idle(t), Start(t, "set", w),
               UNCHANGED <<req, work>>
        PROVE  CommandsOrdered' /\ LatestCommandNotLost'
    BY <2>0, <2>4, <2>a, StartKeepsOrder
  <2>5. ASSUME NEW s \in Sliders, NEW v \in Level, hw_volume_coalesce_drag_end(s, v)
        PROVE  CommandsOrdered' /\ LatestCommandNotLost'
    <3>1. NewWish(v) \in Wish
      BY <2>5, NewWishType DEF hw_volume_coalesce_drag_end
    <3> QED BY <2>4, <2>5, <3>1 DEF hw_volume_coalesce_drag_end
  <2>6. ASSUME NEW s \in Sliders, NEW v \in Level, hw_volume_coalesce_teardown(s, v)
        PROVE  CommandsOrdered' /\ LatestCommandNotLost'
    <3> DEFINE wish == IF drag[s] THEN NewWish(v) ELSE pending[s]
    <3>1. drag[s] => NewWish(v) \in Wish
      BY <2>6, NewWishType DEF hw_volume_coalesce_teardown
    <3>2. wish \in Wish \cup {NoWish}
      BY <3>1 DEF TypeOK
    <3>3. CASE wish # NoWish
      <4>1. wish \in Wish /\ Start(UI, "set", wish) /\ Idle(UI) /\ UNCHANGED <<req, work>>
        BY <2>6, <3>2, <3>3 DEF hw_volume_coalesce_teardown
      <4> HIDE DEF wish
      <4> QED BY <2>4, <4>1
    <3>4. CASE wish = NoWish
      <4>1. UNCHANGED <<cmd, req, work, gen, issued, vol>>
        BY <2>6, <3>4 DEF hw_volume_coalesce_teardown
      <4> QED BY <4>1, OrderUnchanged
    <3> QED BY <3>3, <3>4
  <2>7. ASSUME NEW v \in Level, ExternalSet(v)
        PROVE  CommandsOrdered' /\ LatestCommandNotLost'
    <3>1. NewWish(v) \in Wish
      BY <2>7, NewWishType DEF ExternalSet
    <3> QED BY <2>4, <2>7, <3>1 DEF ExternalSet
  <2>8. ASSUME NEW v \in Level, AccessorySet(v)
        PROVE  CommandsOrdered' /\ LatestCommandNotLost'
    <3>1. NewWish(v) \in Wish
      BY <2>8, NewWishType DEF AccessorySet
    <3> QED BY <2>4, <2>8, <3>1 DEF AccessorySet
  <2>9. CASE RequestWorkerTake
    <3>1. /\ work = NoJob /\ work' = req /\ req # NoJob /\ req' = NoJob
          /\ UNCHANGED <<cmd, gen, issued, vol>>
      BY <2>9 DEF RequestWorkerTake
    <3>2. NoJob.gen = 0 /\ NoJob.wish = NoWish BY DEF NoJob
    <3>3. cmd'[UI].step = "queue" => req'.gen < cmd'[UI].gen
      BY <2>0, <3>1, <3>2, CmdInFlight DEF Cmd
    <3>4. issued # NoWish
      BY NoWishNotWish DEF TypeOK
    <3>5. CommandsOrdered'
      BY <3>1, <3>3 DEF CommandsOrdered, Current
    <3> QED BY <3>1, <3>2, <3>4, <3>5 DEF LatestCommandNotLost, CarriedBy
  <2>10. CASE RequestWorkerApply
    <3>1. /\ work # NoJob /\ work' = NoJob /\ UNCHANGED <<cmd, gen, issued, req>>
          /\ audio_apply_volume(work.wish, work.gen)
      BY <2>10 DEF RequestWorkerApply
    <3>2. Current(work.wish, work.gen)
      BY <3>1 DEF CommandsOrdered
    <3>3. IF work.gen = gen THEN vol' = issued' ELSE vol' = vol
      BY <3>1, <3>2, ApplyNewest
    <3>4. CommandsOrdered'
      BY <3>1 DEF CommandsOrdered, Current
    <3>5. CASE work.gen = gen
      BY <3>3, <3>4, <3>5 DEF LatestCommandNotLost
    <3>6. CASE work.gen # gen
      BY <3>1, <3>3, <3>4, <3>6 DEF LatestCommandNotLost, CarriedBy
    <3> QED BY <3>5, <3>6
  <2>11. ASSUME NEW c \in {MustReapply} \cup [step : {"read"}, wish : Wish, gen : {0}],
                cmd' = [cmd EXCEPT ![PB] = c], cmd[PB].step \notin {"set", "queue"},
                UNCHANGED <<req, work, gen, issued, vol>>
         PROVE  CommandsOrdered' /\ LatestCommandNotLost'
    <3>1. c.step \notin {"set", "queue"} BY DEF MustReapply
    <3>2. \A u \in Callers : cmd'[u] = IF u = PB THEN c ELSE cmd[u]
      BY <2>11 DEF TypeOK
    <3>3. UI # PB BY DEF UI, PB
    <3>4. CommandsOrdered'
      BY <2>0, <2>11, <3>1, <3>2, <3>3 DEF CommandsOrdered, Current
    <3> QED BY <2>11, <3>1, <3>2, <3>4 DEF LatestCommandNotLost, CarriedBy
  <2>12. ASSUME NEW onUsb \in BOOLEAN, ensure_device_format(onUsb)
         PROVE  CommandsOrdered' /\ LatestCommandNotLost'
    <3>1. CASE onUsb # lastUsb
      BY <2>0, <2>a, <2>11, <2>12, <3>1 DEF ensure_device_format
    <3>2. CASE onUsb = lastUsb
      BY <2>12, <3>2, OrderUnchanged DEF ensure_device_format
    <3> QED BY <3>1, <3>2
  <2>13. CASE audio_get_volume
    <3>1. [step |-> "read", wish |-> vol, gen |-> 0]
             \in [step : {"read"}, wish : Wish, gen : {0}]
      BY DEF TypeOK
    <3> QED BY <2>11, <2>13, <3>1 DEF audio_get_volume
  <2>14. CASE Reapply
    <3>1. CmdType(PB)
      BY <2>0 DEF TypeOK
    <3>2. cmd[PB].wish \in Wish
      BY <2>14, <3>1 DEF Reapply, CmdType, NoCmd, MustReapply, Cmd
    <3>3. Start(PB, "set", cmd[PB].wish) /\ UNCHANGED <<req, work>> /\ cmd[PB].step = "read"
      BY <2>14 DEF Reapply
    <3> QED BY <2>0, <3>2, <3>3, StartKeepsOrder
  <2>15. ASSUME UNCHANGED <<cmd, req, work, gen, issued, vol>>
         PROVE  CommandsOrdered' /\ LatestCommandNotLost'
    BY <2>15, OrderUnchanged
  <2>16. ASSUME NEW s \in Sliders,
                \/ hw_volume_coalesce_drag_begin(s)
                \/ \E v \in Level : hw_volume_coalesce_drag_update(s, v)
         PROVE  CommandsOrdered' /\ LatestCommandNotLost'
    BY <2>15, <2>16 DEF hw_volume_coalesce_drag_begin, hw_volume_coalesce_drag_update
  <2>17. ASSUME NEW c \in Curves \cup {NoCurve},
                audio_stage_custom_hw_volume_curve(c) \/ InstallCurve(c)
         PROVE  CommandsOrdered' /\ LatestCommandNotLost'
    BY <2>15, <2>17 DEF audio_stage_custom_hw_volume_curve, InstallCurve
  <2>18. CASE MixerWorkerTake \/ MixerWorkerWrite \/ close_device
    BY <2>15, <2>18 DEF MixerWorkerTake, MixerWorkerWrite, close_device
  <2>19. CASE UNCHANGED vars
    BY <2>15, <2>19 DEF vars
  <2> QED
    BY <2>1, <2>2, <2>3, <2>5, <2>6, <2>7, <2>8, <2>9, <2>10, <2>12, <2>13, <2>14,
       <2>16, <2>17, <2>18, <2>19
    DEF Next, audio_commit_hw_volume_curve, audio_set_custom_hw_volume_curve, TypeOK
<1> QED BY <1>1, <1>2, TypeCorrect, PTL DEF Spec

-----------------------------------------------------------------------------
(***************************************************************************)
(* The register follows the volume and the live curve.  The strengthening: *)
(* without the mixer worker nothing is ever queued for it.                 *)
(***************************************************************************)
NoWorkerNoQueue == ~hwReady => slot = None /\ hand = None

MixerInv == HardwareFollowsVolume /\ NoWorkerNoQueue

\* A request for the register value of the new volume and curve re-establishes
\* the invariant, through the slot or by a direct write.
LEMMA RequestFollows ==
    ASSUME TypeOK, NoWorkerNoQueue, NEW raw \in Raw, raw = ExpectedRaw',
           audio_output_request_hw_volume_raw(raw), hwReady' = hwReady
    PROVE  MixerInv'
<1>1. raw # None
  BY ConstAssumption DEF None
<1>2. CASE hwReady
  BY <1>1, <1>2 DEF audio_output_request_hw_volume_raw, MixerInv,
     HardwareFollowsVolume, NoWorkerNoQueue
<1>3. CASE ~hwReady
  <2>1. slot' = None /\ hand' = None
    BY <1>3 DEF audio_output_request_hw_volume_raw, NoWorkerNoQueue
  <2>2. \A c \in Channels : c \in faulty' \/ hw'[c] = raw
    BY <1>3 DEF audio_output_request_hw_volume_raw, audio_output_set_hw_volume_raw
  <2> QED BY <1>3, <2>1, <2>2 DEF MixerInv, HardwareFollowsVolume, NoWorkerNoQueue
<1> QED BY <1>2, <1>3

\* A step that touches neither the mixer nor what it should hold.
LEMMA MixerUnchanged ==
    ASSUME MixerInv, UNCHANGED <<slot, hand, hw, faulty, hwReady, live, vol>>
    PROVE  MixerInv'
BY DEF MixerInv, HardwareFollowsVolume, NoWorkerNoQueue, ExpectedRaw, compute_hw_raw

\* Applying a volume, accepted or refused, keeps the invariant.
LEMMA ApplyFollows ==
    ASSUME TypeOK, MixerInv, NEW w \in Wish, NEW g, audio_apply_volume(w, g),
           UNCHANGED <<hwReady, live>>
    PROVE  MixerInv'
<1>1. CASE gen # g
  <2>1. UNCHANGED <<slot, hand, hw, faulty, hwReady, live, vol>>
    BY <1>1 DEF audio_apply_volume, mix
  <2> QED BY <2>1, MixerUnchanged
<1>2. CASE gen = g
  <2>1. /\ vol' = w
        /\ audio_output_request_hw_volume_raw(compute_hw_raw(live, w.value))
    BY <1>2 DEF audio_apply_volume
  <2>2. compute_hw_raw(live, w.value) \in Raw
    BY RawType DEF TypeOK, Wish
  <2>3. compute_hw_raw(live, w.value) = ExpectedRaw'
    BY <2>1 DEF ExpectedRaw, compute_hw_raw
  <2> QED BY <2>1, <2>2, <2>3, RequestFollows DEF MixerInv
<1> QED BY <1>1, <1>2

\* HardwareFollowsVolume is an invariant, for every set of curves and every
\* pattern of failing mixer writes: the single-slot mixer worker ends up with
\* the register value of the current volume under the live curve.
THEOREM RegisterFollowsVolume == Spec => []HardwareFollowsVolume
<1>1. Init => MixerInv
  BY DEF Init, MixerInv, HardwareFollowsVolume, NoWorkerNoQueue
<1>2. TypeOK /\ MixerInv /\ [Next]_vars => MixerInv'
  <2> SUFFICES ASSUME TypeOK, MixerInv, [Next]_vars PROVE MixerInv'
    OBVIOUS
  <2>0. ASSUME UNCHANGED <<slot, hand, hw, faulty, hwReady, live, vol>>
        PROVE  MixerInv'
    BY <2>0, MixerUnchanged
  <2>1. ASSUME NEW t \in Callers, FinishSet(t) PROVE MixerInv'
    <3>1. cmd[t].wish \in Wish
      BY <2>1, CmdInFlight DEF FinishSet
    <3> QED BY <2>1, <3>1, ApplyFollows DEF FinishSet
  <2>2. CASE FinishRequest
    <3>1. cmd[UI].wish \in Wish
      BY <2>2, CmdInFlight DEF FinishRequest, Callers
    <3>2. CASE reqReady
      BY <2>0, <2>2, <3>2 DEF FinishRequest, mix
    <3>3. CASE ~reqReady
      BY <2>2, <3>1, <3>3, ApplyFollows DEF FinishRequest
    <3> QED BY <3>2, <3>3
  <2>3. CASE RequestWorkerApply
    <3>1. work.wish \in Wish
      BY <2>3 DEF RequestWorkerApply, TypeOK
    <3> QED BY <2>3, <3>1, ApplyFollows DEF RequestWorkerApply
  <2>4. CASE MixerWorkerTake
    <3>1. /\ hand = None /\ slot # None /\ hand' = slot /\ slot' = None
          /\ UNCHANGED <<hw, faulty, hwReady, live, vol>>
      BY <2>4 DEF MixerWorkerTake
    <3>2. ExpectedRaw' = ExpectedRaw
      BY <3>1 DEF ExpectedRaw, compute_hw_raw
    <3> QED BY <3>1, <3>2 DEF MixerInv, HardwareFollowsVolume, NoWorkerNoQueue
  <2>5. CASE MixerWorkerWrite
    <3>1. /\ hand # None /\ hand' = None /\ UNCHANGED <<slot, hwReady, live, vol>>
      BY <2>5 DEF MixerWorkerWrite
    <3>2. \A c \in Channels : c \in faulty' \/ hw'[c] = hand
      BY <2>5 DEF MixerWorkerWrite, audio_output_set_hw_volume_raw
    <3>3. ExpectedRaw' = ExpectedRaw
      BY <3>1 DEF ExpectedRaw, compute_hw_raw
    <3> QED BY <3>1, <3>2, <3>3 DEF MixerInv, HardwareFollowsVolume, NoWorkerNoQueue
  <2>6. ASSUME NEW c \in Curves \cup {NoCurve}, InstallCurve(c) PROVE MixerInv'
    <3>1. /\ live' = c /\ UNCHANGED <<hwReady, vol>>
          /\ audio_output_request_hw_volume_raw(compute_hw_raw(c, vol.value))
      BY <2>6 DEF InstallCurve
    <3>2. compute_hw_raw(c, vol.value) \in Raw
      BY RawType DEF TypeOK, Wish
    <3>3. compute_hw_raw(c, vol.value) = ExpectedRaw'
      BY <3>1 DEF ExpectedRaw, compute_hw_raw
    <3> QED BY <3>1, <3>2, <3>3, RequestFollows DEF MixerInv
  <2>7. ASSUME NEW s \in Sliders, NEW v \in Level,
               \/ hw_volume_coalesce_drag_begin(s) \/ hw_volume_coalesce_timer_cb(s)
               \/ hw_volume_coalesce_drag_update(s, v) \/ hw_volume_coalesce_drag_end(s, v)
               \/ hw_volume_coalesce_teardown(s, v)
        PROVE  MixerInv'
    BY <2>0, <2>7 DEF hw_volume_coalesce_drag_begin, hw_volume_coalesce_timer_cb,
       hw_volume_coalesce_drag_update, hw_volume_coalesce_drag_end,
       hw_volume_coalesce_teardown, mix
  <2>8. ASSUME NEW v \in Level, ExternalSet(v) \/ AccessorySet(v) PROVE MixerInv'
    BY <2>0, <2>8 DEF ExternalSet, AccessorySet, mix
  <2>9. CASE RequestWorkerTake \/ audio_get_volume \/ Reapply \/ close_device
    BY <2>0, <2>9 DEF RequestWorkerTake, audio_get_volume, Reapply, close_device, mix
  <2>10. ASSUME NEW onUsb \in BOOLEAN, ensure_device_format(onUsb) PROVE MixerInv'
    BY <2>0, <2>10 DEF ensure_device_format, mix
  <2>11. ASSUME NEW c \in Curves \cup {NoCurve}, audio_stage_custom_hw_volume_curve(c)
         PROVE  MixerInv'
    BY <2>0, <2>11 DEF audio_stage_custom_hw_volume_curve, mix
  <2>12. CASE UNCHANGED vars
    BY <2>0, <2>12 DEF vars
  <2>13. 0 \in Level
    BY ConstAssumption DEF Level
  <2>14. staged \in Curves \cup {NoCurve}
    BY DEF TypeOK
  <2> QED
    BY <2>1, <2>2, <2>3, <2>4, <2>5, <2>6, <2>7, <2>8, <2>9, <2>10, <2>11, <2>12, <2>13, <2>14
    DEF Next, audio_commit_hw_volume_curve, audio_set_custom_hw_volume_curve
<1>3. MixerInv => HardwareFollowsVolume
  BY DEF MixerInv
<1> QED BY <1>1, <1>2, <1>3, TypeCorrect, PTL DEF Spec
=============================================================================

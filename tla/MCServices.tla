----------------------------- MODULE MCServices -----------------------------
(***************************************************************************)
(* The parts that talk to a device or to the network on threads of their   *)
(* own, for TLC: the internet radio stream, a request that can be          *)
(* cancelled, the Bluetooth radio, the USB bridge, the artwork slot and    *)
(* charging.  They share no state, so a behaviour is a behaviour of one    *)
(* part while the others rest.                                             *)
(***************************************************************************)
EXTENDS HttpStream, HttpRequest, BtRadio, UsbBridge, ArtworkSlot, Charging

VARIABLE part

vars == <<part, streamVars, requestVars, radioVars, bridgeVars, artworkVars, chargeVars>>

\* One cover, two thumbnails, one warmer.
MCPrio == <<2, 1, 1, 0>>

Init ==
    /\ part \in {"stream", "request", "radio", "usb", "artwork", "charge"}
    /\ StreamInit /\ RequestInit /\ RadioInit /\ BridgeInit /\ ArtworkInit
    /\ ChargeInit
    /\ part # "stream" => ~chunked
    /\ part # "request" => timed
    /\ part # "radio" => radio
    /\ part # "charge" => /\ chipDefault = [c \in Chips |-> 0] /\ ~chgWish.safe
                          /\ chgFiles = [new |-> Absent, old |-> Absent]

Next ==
    \/ /\ part = "stream" /\ StreamNext
       /\ UNCHANGED <<part, requestVars, radioVars, bridgeVars, artworkVars, chargeVars>>
    \/ /\ part = "request" /\ RequestNext
       /\ UNCHANGED <<part, streamVars, radioVars, bridgeVars, artworkVars, chargeVars>>
    \/ /\ part = "radio" /\ RadioNext
       /\ UNCHANGED <<part, streamVars, requestVars, bridgeVars, artworkVars, chargeVars>>
    \/ /\ part = "usb" /\ BridgeNext
       /\ UNCHANGED <<part, streamVars, requestVars, radioVars, artworkVars, chargeVars>>
    \/ /\ part = "artwork" /\ ArtworkNext
       /\ UNCHANGED <<part, streamVars, requestVars, radioVars, bridgeVars, chargeVars>>
    \/ /\ part = "charge" /\ ChargeNext
       /\ UNCHANGED <<part, streamVars, requestVars, radioVars, bridgeVars, artworkVars>>

In(p) == part = p /\ part' = p

mine ==
    CASE part = "stream" -> streamVars
      [] part = "request" -> requestVars
      [] part = "radio" -> radioVars
      [] part = "usb" -> bridgeVars
      [] part = "artwork" -> artworkVars
      [] part = "charge" -> chargeVars

\* The fairness of each part's own specification, while it runs.  Only one of
\* them does, so that conditions of different parts are stated together.
Fairness ==
    /\ WF_mine(\/ In("stream") /\ PumpStep
               \/ In("request") /\ RequestStep
               \/ In("radio") /\ PollToggle
               \/ In("usb") /\ BridgeReaderStep
               \/ In("charge") /\ SafePoll)
    /\ WF_mine(\/ In("stream") /\ ReaderStep
               \/ In("radio") /\ PollRefresh
               \/ In("usb") /\ WriterGoesOn)
    /\ WF_mine(\/ In("radio") /\ PollWorker
               \/ In("usb") /\ CtlStep)
    /\ WF_mine(In("radio") /\ ToggleWorks)
    /\ WF_mine(In("radio") /\ RefreshReads)
    /\ WF_mine(In("radio") /\ ManualWorks)
    /\ WF_mine(In("radio") /\ PollForget)
    /\ WF_mine(In("radio") /\ JobStep)
    /\ SF_mine(In("charge") /\ LimitPoll)
    /\ \A h \in Hops : WF_mine(In("request") /\ HandsOver(h))
    /\ \A j \in Jobs :
         /\ WF_mine(In("artwork") /\ (Admitted(j) \/ JoinsQueue(j) \/ TakesSlot(j)))
         /\ WF_mine(In("artwork") /\ ShouldYield(j) /\ ReleasesSlot(j))

Spec == Init /\ [][Next]_vars /\ Fairness
=============================================================================

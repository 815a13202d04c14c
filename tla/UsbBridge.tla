------------------------------ MODULE UsbBridge -----------------------------
(***************************************************************************)
(* The player as a USB sound card (hardware/usb_dac_bridge.c).             *)
(*                                                                         *)
(* A reader thread takes what the host sends and puts it into a ring that  *)
(* drops its oldest bytes; a writer thread plays it, muted until the rate  *)
(* is known, and skips backlog.  start and stop own the threads and the    *)
(* ring: a stop that runs out of time leaves both to the next call.        *)
(*                                                                         *)
(* Bytes are numbered as the host sends them.                              *)
(***************************************************************************)
EXTENDS Naturals, Sequences

CONSTANTS BridgeCapacity,  \* RING_BUFFER_CAPACITY
          BridgeChunk,     \* the writer's chunk, BRIDGE_PERIOD_FRAMES
          MaxPacket,       \* bytes one read() of the gadget returns at most
          Reserve,         \* CATCHUP_TARGET_RESERVE_MS, in bytes
          PeriodicReserve, \* CATCHUP_PERIODIC_TARGET_RESERVE_MS, in bytes
          MaxFed,          \* bytes the host sends
          MaxCalls,        \* calls of start and stop
          MaxBridgeFaults  \* threads and buffers there are none for, devices that go away

ASSUME BridgeAssumption ==
    /\ {BridgeCapacity, BridgeChunk, MaxPacket} \subseteq Nat \ {0}
    /\ {Reserve, PeriodicReserve, MaxFed, MaxCalls, MaxBridgeFaults} \subseteq Nat

Threads == {"reader", "writer"}

VARIABLES
    usbRing,  \* g_rb: initialized, its bytes, head, tail, count, producer_finished
    ctl,      \* the caller inside lifecycle_mutex: its place, r_done and w_done
    thread,   \* where each thread is
    created,  \* g_reader_thread_created, g_writer_thread_created
    running,  \* g_reader_running, g_writer_running
    stopping, \* stop_requested
    bridge,   \* bridge_running and bridge_streaming
    rate,     \* g_confirmed_rate (0 advertised) and g_rate_confirmed_once
    packet,   \* bytes the reader has read and not yet put into the ring
    writer,   \* the writer's chunk, rate, started_output, and its trim
    fed,      \* the last byte read from the host
    played,   \* the last byte handed to the output
    calls, bridgeFaults

bridgeVars == <<usbRing, ctl, thread, created, running, stopping, bridge, rate, packet, writer,
                fed, played, calls, bridgeFaults>>

NoRing == [alive |-> FALSE, data |-> [i \in 0 .. BridgeCapacity - 1 |-> 0],
           head |-> 0, tail |-> 0, count |-> 0, finished |-> FALSE]
NewRing == [NoRing EXCEPT !.alive = TRUE]
Muted == [chunk |-> <<>>, rate |-> 0, started |-> FALSE, skip |-> 0, then |-> "top"]

BridgeTypeOK ==
    /\ usbRing.alive \in BOOLEAN /\ usbRing.finished \in BOOLEAN
    /\ usbRing.head \in 0 .. BridgeCapacity - 1 /\ usbRing.tail \in 0 .. BridgeCapacity - 1
    /\ usbRing.count \in 0 .. BridgeCapacity
    /\ created \in [Threads -> BOOLEAN] /\ running \in [Threads -> BOOLEAN]
    /\ fed \in 0 .. MaxFed /\ packet \in 0 .. MaxPacket /\ played \in 0 .. MaxFed

BridgeInit ==
    /\ usbRing = NoRing
    /\ ctl = [at |-> "idle", done |-> [t \in Threads |-> FALSE]]
    /\ thread = [t \in Threads |-> "none"]
    /\ created = [t \in Threads |-> FALSE] /\ running = [t \in Threads |-> FALSE]
    /\ stopping = FALSE /\ bridge = [running |-> FALSE, streaming |-> FALSE]
    /\ rate = [confirmed |-> 0, once |-> FALSE]
    /\ packet = 0 /\ writer = Muted /\ fed = 0 /\ played = 0
    /\ calls = 0 /\ bridgeFaults = 0

BridgeFault == bridgeFaults < MaxBridgeFaults /\ bridgeFaults' = bridgeFaults + 1
ThreadGoes(t, pc) == thread' = [thread EXCEPT ![t] = pc]
CtlGoes(pc) == ctl' = [ctl EXCEPT !.at = pc]

\* bridge_mutex is held by start from the new ring to the second thread.
BridgeMutexFree == ctl.at # "create"

\* Waking whoever waits on cond_data_available: only the writer does.
Woken == IF thread["writer"] = "asleep" THEN "take" ELSE thread["writer"]

----------------------------------------------------------------------------
\* The ring

\* ring_buffer_write_drop_oldest() of the bytes first .. first + len - 1: a packet
\* larger than the ring keeps its newest part, a smaller one drops what is oldest.
ring_buffer_write_drop_oldest(rb, first, len) ==
    LET big == len > BridgeCapacity
        n == IF big THEN BridgeCapacity ELSE len
        from == first + (len - n)
        head == IF big THEN 0 ELSE rb.head
        tail == IF big THEN 0 ELSE rb.tail
        count == IF big THEN 0 ELSE rb.count
        space == BridgeCapacity - count
        drop == IF n > space THEN n - space ELSE 0
    IN  [rb EXCEPT
           !.data = [i \in DOMAIN @ |->
                       LET k == (i + BridgeCapacity - head) % BridgeCapacity
                       IN IF k < n THEN from + k ELSE @[i]],
           !.head = (head + n) % BridgeCapacity,
           !.tail = (tail + drop) % BridgeCapacity,
           !.count = count - drop + n]

AtMost(n, max) == IF n < max THEN n ELSE max

\* The n oldest bytes, and the ring without them.
Oldest(rb, n) == [i \in 1 .. n |-> rb.data[(rb.tail + i - 1) % BridgeCapacity]]
Without(rb, n) == [rb EXCEPT !.tail = (@ + n) % BridgeCapacity, !.count = @ - n]

----------------------------------------------------------------------------
\* The reader

\* The gadget appears, never appears, or stop comes first.
ReaderOpens ==
    /\ thread["reader"] = "open"
    /\ \/ stopping /\ ThreadGoes("reader", "signal") /\ UNCHANGED bridgeFaults
       \/ ~stopping /\ ThreadGoes("reader", "poll") /\ UNCHANGED bridgeFaults
       \/ ~stopping /\ ThreadGoes("reader", "signal") /\ BridgeFault
    /\ UNCHANGED <<usbRing, ctl, created, running, stopping, bridge, rate, packet, writer, fed,
                   played, calls>>

\* poll() and read(): data; or nothing, a session boundary, a refusal, which are
\* sat out; or an end that is not.
ReaderPolls ==
    /\ thread["reader"] = "poll"
    /\ \/ stopping /\ ThreadGoes("reader", "signal") /\ UNCHANGED <<bridge, packet, fed, bridgeFaults>>
       \/ /\ ~stopping /\ BridgeMutexFree
          /\ \/ \E n \in 1 .. MaxPacket :
                  /\ fed + n <= MaxFed
                  /\ fed' = fed + n /\ packet' = n
                  /\ bridge' = [bridge EXCEPT !.streaming = TRUE]
                  /\ ThreadGoes("reader", "push") /\ UNCHANGED bridgeFaults
             \/ /\ bridge' = [bridge EXCEPT !.streaming = FALSE]
                /\ \/ UNCHANGED <<thread, bridgeFaults>>
                   \/ ThreadGoes("reader", "signal") /\ BridgeFault
                /\ UNCHANGED <<packet, fed>>
    /\ UNCHANGED <<usbRing, ctl, created, running, stopping, rate, writer, played, calls>>

\* The packet goes into the ring; the window of the rate measurement may end with
\* it, and confirm a rate.
ReaderPushes ==
    /\ thread["reader"] = "push" /\ BridgeMutexFree
    /\ usbRing' = ring_buffer_write_drop_oldest(usbRing, fed - packet + 1, packet)
    /\ packet' = 0
    /\ thread' = [reader |-> "poll", writer |-> Woken]
    /\ \/ UNCHANGED rate
       \/ \E r \in {0, 1} : rate' = [confirmed |-> r, once |-> TRUE]
    /\ UNCHANGED <<ctl, created, running, stopping, bridge, writer, fed, played, calls, bridgeFaults>>

\* ring_buffer_signal_finished(): the last the reader does to the ring.
Finished(rb) == IF rb.alive THEN [rb EXCEPT !.finished = TRUE] ELSE rb

ReaderSignals ==
    /\ thread["reader"] = "signal"
    /\ usbRing' = Finished(usbRing)
    /\ thread' = [reader |-> "publish", writer |-> IF usbRing.alive THEN Woken ELSE thread["writer"]]
    /\ UNCHANGED <<ctl, created, running, stopping, bridge, rate, packet, writer, fed, played,
                   calls, bridgeFaults>>

\* Either thread: the flag is taken down, then update_bridge_running_state().
Publishes(t) ==
    /\ thread[t] = "publish" /\ BridgeMutexFree
    /\ running' = [running EXCEPT ![t] = FALSE]
    /\ ThreadGoes(t, "update")
    /\ UNCHANGED <<usbRing, ctl, created, stopping, bridge, rate, packet, writer, fed, played, calls,
                   bridgeFaults>>

update_bridge_running_state ==
    LET on == ~stopping /\ \E t \in Threads : running[t]
    IN  bridge' = [running |-> on, streaming |-> bridge.streaming /\ on]

Updates(t) ==
    /\ thread[t] = "update" /\ BridgeMutexFree
    /\ update_bridge_running_state
    /\ ThreadGoes(t, "ended")
    /\ UNCHANGED <<usbRing, ctl, created, running, stopping, rate, packet, writer, fed, played, calls,
                   bridgeFaults>>

----------------------------------------------------------------------------
\* The writer

WriterKeeps == UNCHANGED <<ctl, created, running, bridge, rate, packet, fed, calls>>

\* The writer starts: it waits until playback has let go of the output, but no longer
\* than two seconds, and without a buffer it gives the bridge up.
WriterBegins ==
    /\ thread["writer"] = "begin"
    /\ \/ ThreadGoes("writer", "top") /\ UNCHANGED <<stopping, bridgeFaults>>
       \/ BridgeFault /\ stopping' = TRUE /\ ThreadGoes("writer", "signal")
    /\ WriterKeeps /\ UNCHANGED <<usbRing, writer, played>>

WriterTops ==
    /\ thread["writer"] = "top"
    /\ ThreadGoes("writer", IF stopping THEN "close" ELSE "take")
    /\ WriterKeeps /\ UNCHANGED <<usbRing, stopping, writer, played, bridgeFaults>>

\* Mutant: neither a stop nor the end of the reader ends the wait.
MayWaitDeaf == usbRing.count = 0

MayWait == usbRing.count = 0 /\ ~stopping /\ ~usbRing.finished

\* ring_buffer_read(): sleep, come back with nothing, or with a chunk.
WriterTakes ==
    LET n == AtMost(usbRing.count, BridgeChunk)
    IN  /\ thread["writer"] = "take"
        /\ ThreadGoes("writer", CASE MayWait -> "asleep" [] ~MayWait /\ n = 0 -> "empty" [] OTHER -> "handle")
        /\ writer' = [writer EXCEPT !.chunk = Oldest(usbRing, n)]
        /\ usbRing' = Without(usbRing, n)
        /\ WriterKeeps /\ UNCHANGED <<stopping, played, bridgeFaults>>

WriterEmpty ==
    /\ thread["writer"] = "empty"
    /\ ThreadGoes("writer", IF stopping \/ (usbRing.finished /\ usbRing.count = 0) THEN "close" ELSE "top")
    /\ WriterKeeps /\ UNCHANGED <<usbRing, stopping, writer, played, bridgeFaults>>

\* Muted until a rate is confirmed or five seconds have passed; then the output is
\* opened, or given up and the bridge with it.
WriterMuted ==
    /\ thread["writer"] = "handle" /\ ~writer.started /\ BridgeMutexFree
    /\ \/ /\ ~rate.once
          /\ writer' = [writer EXCEPT !.chunk = <<>>]
          /\ ThreadGoes("writer", "top") /\ UNCHANGED <<stopping, bridgeFaults>>
       \/ /\ stopping
          /\ ThreadGoes("writer", "close") /\ UNCHANGED <<stopping, writer, bridgeFaults>>
       \/ /\ ~stopping
          /\ writer' = [chunk |-> <<>>, rate |-> rate.confirmed, started |-> TRUE, skip |-> Reserve, then |-> "top"]
          /\ ThreadGoes("writer", "trim") /\ UNCHANGED <<stopping, bridgeFaults>>
       \/ /\ ~stopping /\ BridgeFault
          /\ stopping' = TRUE
          /\ ThreadGoes("writer", "signal") /\ UNCHANGED writer
    /\ WriterKeeps /\ UNCHANGED <<usbRing, played>>

WriterSignals ==
    /\ thread["writer"] = "signal"
    /\ usbRing' = Finished(usbRing)
    /\ ThreadGoes("writer", "publish")
    /\ WriterKeeps /\ UNCHANGED <<stopping, writer, played, bridgeFaults>>

\* A newly confirmed rate is adopted, and the backlog looked at; otherwise the
\* chunk is played.
WriterHandles ==
    /\ thread["writer"] = "handle" /\ writer.started /\ BridgeMutexFree
    /\ IF rate.confirmed # writer.rate
       THEN /\ writer' = [writer EXCEPT !.rate = rate.confirmed, !.skip = Reserve, !.then = "play"]
            /\ ThreadGoes("writer", "trim")
       ELSE ThreadGoes("writer", "play") /\ UNCHANGED writer
    /\ WriterKeeps /\ UNCHANGED <<usbRing, stopping, played, bridgeFaults>>

\* writer_catchup_trim(): is there more than the reserve?  One byte is faded in.
\* Without a trim the chunk in hand is still to be played; after one it is not.
WriterTrims ==
    LET excess == IF usbRing.count > writer.skip THEN usbRing.count - writer.skip ELSE 0
    IN  /\ thread["writer"] = "trim"
        /\ IF excess = 0 THEN ThreadGoes("writer", writer.then) /\ UNCHANGED writer
           ELSE /\ writer' = [writer EXCEPT !.chunk = <<>>, !.skip = excess - 1, !.then = "top"]
                /\ ThreadGoes("writer", "discard")
        /\ WriterKeeps /\ UNCHANGED <<usbRing, stopping, played, bridgeFaults>>

WriterDiscards ==
    /\ thread["writer"] = "discard"
    /\ usbRing' = Without(usbRing, AtMost(usbRing.count, writer.skip))
    /\ writer' = [writer EXCEPT !.skip = 0]
    /\ ThreadGoes("writer", "fade")
    /\ WriterKeeps /\ UNCHANGED <<stopping, played, bridgeFaults>>

\* Only the writer takes bytes out, so there is one to read.
WriterFades ==
    /\ thread["writer"] = "fade"
    /\ usbRing' = Without(usbRing, AtMost(usbRing.count, 1))
    /\ played' = IF usbRing.count > 0 THEN usbRing.data[usbRing.tail] ELSE played
    /\ ThreadGoes("writer", "top")
    /\ WriterKeeps /\ UNCHANGED <<stopping, writer, bridgeFaults>>

\* The chunk is written; once a second, unless stopping, the backlog is looked at.
WriterPlays ==
    /\ thread["writer"] = "play"
    /\ played' = writer.chunk[Len(writer.chunk)]
    /\ \/ ThreadGoes("writer", "top") /\ writer' = [writer EXCEPT !.chunk = <<>>]
       \/ /\ ~stopping
          /\ ThreadGoes("writer", "trim")
          /\ writer' = [writer EXCEPT !.chunk = <<>>, !.skip = PeriodicReserve, !.then = "top"]
    /\ WriterKeeps /\ UNCHANGED <<usbRing, stopping, bridgeFaults>>

WriterCloses ==
    /\ thread["writer"] = "close"
    /\ ThreadGoes("writer", "publish")
    /\ WriterKeeps /\ UNCHANGED <<usbRing, stopping, writer, played, bridgeFaults>>

----------------------------------------------------------------------------
\* usb_dac_bridge_start()

CtlKeeps == UNCHANGED <<packet, fed, played>>

Joinable(t) == created[t] => thread[t] = "ended"

StartCalls ==
    /\ ctl.at = "idle" /\ calls < MaxCalls /\ ~bridge.running
    /\ calls' = calls + 1
    /\ CtlGoes("start")
    /\ CtlKeeps /\ UNCHANGED <<usbRing, thread, created, running, stopping, bridge, rate, writer, bridgeFaults>>

\* The threads of an earlier session are joined, however long it takes; a new ring,
\* new flags, a reader.
StartCreatesReader ==
    /\ ctl.at = "start"
    /\ \A t \in Threads : Joinable(t)
    /\ \/ /\ usbRing' = NoRing
          /\ BridgeFault
          /\ CtlGoes("idle")
          /\ thread' = [t \in Threads |-> "none"] /\ created' = [t \in Threads |-> FALSE]
          /\ running' = [t \in Threads |-> FALSE]
          /\ bridge' = [running |-> FALSE, streaming |-> FALSE]
          /\ UNCHANGED <<stopping, rate, writer>>
       \/ /\ usbRing' = NewRing
          /\ stopping' = FALSE
          /\ bridge' = [running |-> TRUE, streaming |-> FALSE]
          /\ rate' = [confirmed |-> 0, once |-> FALSE]
          /\ writer' = Muted
          /\ CtlGoes("create")
          /\ \/ /\ thread' = [reader |-> "open", writer |-> "none"]
                /\ created' = [reader |-> TRUE, writer |-> FALSE]
                /\ UNCHANGED bridgeFaults
             \/ /\ thread' = [t \in Threads |-> "none"]
                /\ created' = [t \in Threads |-> FALSE]
                /\ BridgeFault
          /\ running' = [reader |-> created'["reader"], writer |-> running["writer"]]
    /\ CtlKeeps /\ UNCHANGED calls

\* And a writer; without both, the one there is is stopped again.
StartCreatesWriter ==
    /\ ctl.at = "create"
    /\ \E ok \in BOOLEAN :
         /\ IF ok THEN UNCHANGED bridgeFaults ELSE BridgeFault
         /\ created' = [created EXCEPT !["writer"] = ok]
         /\ running' = [running EXCEPT !["writer"] = ok]
         /\ thread' = [thread EXCEPT !["writer"] = IF ok THEN "begin" ELSE "none"]
         /\ IF ok /\ created["reader"]
            THEN CtlGoes("idle") /\ UNCHANGED <<usbRing, stopping, bridge>>
            ELSE /\ CtlGoes("rollback")
                 /\ stopping' = TRUE /\ usbRing' = Finished(usbRing)
                 /\ bridge' = [running |-> FALSE, streaming |-> FALSE]
    /\ CtlKeeps /\ UNCHANGED <<rate, writer, calls>>

StartRollsBack ==
    /\ ctl.at = "rollback"
    /\ \A t \in Threads : Joinable(t)
    /\ created' = [t \in Threads |-> FALSE] /\ thread' = [t \in Threads |-> "none"]
    /\ usbRing' = NoRing
    /\ CtlGoes("idle")
    /\ CtlKeeps /\ UNCHANGED <<running, stopping, bridge, rate, writer, calls, bridgeFaults>>

----------------------------------------------------------------------------
\* usb_dac_bridge_stop()

StopCalls ==
    /\ ctl.at = "idle" /\ calls < MaxCalls
    /\ calls' = calls + 1
    /\ stopping' = TRUE
    /\ CtlGoes("clear")
    /\ CtlKeeps /\ UNCHANGED <<usbRing, thread, created, running, bridge, rate, writer, bridgeFaults>>

StopClears ==
    /\ ctl.at = "clear"
    /\ bridge' = [running |-> FALSE, streaming |-> FALSE]
    /\ CtlGoes("wake")
    /\ CtlKeeps /\ UNCHANGED <<usbRing, thread, created, running, stopping, rate, writer, calls, bridgeFaults>>

StopWakes ==
    /\ ctl.at = "wake"
    /\ thread' = [thread EXCEPT !["writer"] = IF usbRing.alive THEN Woken ELSE @]
    /\ ctl' = [at |-> "wait", done |-> [t \in Threads |-> ~created[t]]]
    /\ CtlKeeps /\ UNCHANGED <<usbRing, created, running, stopping, bridge, rate, writer, calls, bridgeFaults>>

\* Every 20 ms the flags are looked at, for three seconds.
StopWaits ==
    /\ ctl.at = "wait"
    /\ LET done == [t \in Threads |-> ctl.done[t] \/ ~running[t]]
       IN  \/ done # ctl.done /\ ctl' = [ctl EXCEPT !.done = done]
           \/ ctl' = [at |-> "join", done |-> done]
    /\ CtlKeeps /\ UNCHANGED <<usbRing, thread, created, running, stopping, bridge, rate, writer, calls,
                               bridgeFaults>>

\* Mutant: the ring goes although a thread was not joined.
StopJoinsAndFrees ==
    /\ ctl.at = "join"
    /\ \A t \in Threads : ctl.done[t] => Joinable(t)
    /\ created' = [t \in Threads |-> created[t] /\ ~ctl.done[t]]
    /\ thread' = [t \in Threads |-> IF ctl.done[t] THEN "none" ELSE thread[t]]
    /\ usbRing' = NoRing
    /\ CtlGoes("idle")
    /\ CtlKeeps /\ UNCHANGED <<running, stopping, bridge, rate, writer, calls, bridgeFaults>>

\* Those that are done are joined; the ring goes when nobody is left.
StopJoins ==
    /\ ctl.at = "join"
    /\ \A t \in Threads : ctl.done[t] => Joinable(t)
    /\ created' = [t \in Threads |-> created[t] /\ ~ctl.done[t]]
    /\ thread' = [t \in Threads |-> IF ctl.done[t] THEN "none" ELSE thread[t]]
    /\ usbRing' = IF \E t \in Threads : created'[t] THEN usbRing ELSE NoRing
    /\ CtlGoes("idle")
    /\ CtlKeeps /\ UNCHANGED <<running, stopping, bridge, rate, writer, calls, bridgeFaults>>

----------------------------------------------------------------------------
BridgeReaderStep ==
    ReaderOpens \/ ReaderPolls \/ ReaderPushes \/ ReaderSignals
    \/ Publishes("reader") \/ Updates("reader")

WriterGoesOn ==
    WriterBegins \/ WriterTops \/ WriterTakes \/ WriterEmpty \/ WriterMuted \/ WriterSignals
    \/ WriterHandles \/ WriterTrims \/ WriterDiscards \/ WriterFades \/ WriterPlays \/ WriterCloses
    \/ Publishes("writer") \/ Updates("writer")

CtlStep ==
    StartCreatesReader \/ StartCreatesWriter \/ StartRollsBack
    \/ StopClears \/ StopWakes \/ StopWaits \/ StopJoins

BridgeNext == BridgeReaderStep \/ WriterGoesOn \/ CtlStep \/ StartCalls \/ StopCalls

BridgeSpec == BridgeInit /\ [][BridgeNext]_bridgeVars

\* Every thread runs; a write to the output and a poll of the gadget are bounded.
BridgeFairSpec ==
    BridgeSpec /\ WF_bridgeVars(BridgeReaderStep) /\ WF_bridgeVars(WriterGoesOn) /\ WF_bridgeVars(CtlStep)

----------------------------------------------------------------------------
\* Properties

UsesRing == {"push", "signal", "take", "asleep", "empty", "trim", "discard", "fade"}

\* "No caller may destroy resources still owned by a worker": whatever start, stop,
\* time-outs and failures follow each other, a thread that may touch the ring finds it.
RingAlive == \A t \in Threads : thread[t] \in UsesRing => usbRing.alive

\* The ring holds the newest bytes, all of them, in order: dropping, wrapping and
\* oversized packets included.
RingHoldsNewest ==
    \A i \in 0 .. usbRing.count - 1 :
        usbRing.data[(usbRing.tail + i) % BridgeCapacity] = fed - packet - usbRing.count + 1 + i

\* Nothing is played twice or after what came later, across every kind of trim.
PlayedInOrder == [][played' # played => played' > played]_bridgeVars

\* The status the screen shows is not stuck: with both threads gone and nobody in
\* start or stop the bridge does not claim to run.
RunningIsTrue ==
    ctl.at = "idle" /\ bridge.running => \E t \in Threads : created[t] /\ thread[t] # "ended"

\* start and stop come back.
LifecycleReturns == []<>(ctl.at = "idle")

\* When the reader is gone the writer does not wait for it.
WriterFollows == []<>~(thread["reader"] = "ended" /\ thread["writer"] = "asleep")

\* The ring outlives its users, holds what it should, and the status is true.
BridgeSound == RingAlive /\ RingHoldsNewest /\ RunningIsTrue

\* What is played is played in order, and nobody waits for ever: not in start
\* or stop, not for a reader that is gone.
BridgeReturns == PlayedInOrder /\ LifecycleReturns /\ WriterFollows
=============================================================================

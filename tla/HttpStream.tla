----------------------------- MODULE HttpStream -----------------------------
(***************************************************************************)
(* An internet radio stream (network/http_stream.c) once it is open: the   *)
(* pump thread moves what the server sends into a ring buffer, the decoder *)
(* reads from it and closes it.  They share one mutex and one condition    *)
(* variable; every region under the mutex is one step, and a thread that   *)
(* waits on the condition sleeps until somebody broadcasts.                *)
(*                                                                         *)
(* The bytes of the stream are numbered in the order the server sends      *)
(* them.  The socket is a descriptor another part of the program may get   *)
(* again once it is closed.                                                *)
(***************************************************************************)
EXTENDS Naturals, Sequences

CONSTANTS RingCapacity, \* STREAM_RING_CAPACITY
          ReadChunk,    \* HTTP_CONN_READ_CHUNK
          MaxRequest,   \* largest read the decoder asks for
          MaxBytes      \* bytes the server sends

ASSUME StreamBounds ==
    /\ {RingCapacity, ReadChunk, MaxRequest} \subseteq Nat \ {0}
    /\ MaxBytes \in Nat

VARIABLES
    server,   \* bytes that have arrived at the socket, and whether the server ended
    chunked,  \* is_chunked
    drawn,    \* bytes the pump has taken from the socket
    pump,     \* where the pump thread is, the bytes it holds, what is left of the frame
    ring,     \* ring, ring_head, ring_tail, ring_fill
    flags,    \* stop_requested and ended
    asleep,   \* the threads waiting on the condition
    reader,   \* where the decoder thread is, how much it wants, the descriptor it looked at
    taken,    \* the bytes the decoder has been given
    socket,   \* whose the stream's descriptor is now, and whether it has been shut down
    cutForeign \* the decoder shut down a socket that is not the stream's

streamVars == <<server, chunked, drawn, pump, ring, flags, asleep, reader, taken, socket, cutForeign>>

PumpPlaces == {"check", "line", "body", "crlf", "recv", "push", "end", "gone"}
ReaderPlaces == {"free", "read", "stop", "look", "shut", "join", "gone"}

StreamTypeOK ==
    /\ server \in [sent : 0 .. MaxBytes, over : BOOLEAN]
    /\ chunked \in BOOLEAN /\ drawn \in 0 .. MaxBytes
    /\ pump.pc \in PumpPlaces /\ pump.left \in 0 .. MaxBytes
    /\ ring.head \in 0 .. RingCapacity - 1 /\ ring.tail \in 0 .. RingCapacity - 1
    /\ ring.fill \in 0 .. RingCapacity
    /\ flags \in [stop : BOOLEAN, ended : BOOLEAN]
    /\ asleep \subseteq {"pump", "reader"}
    /\ reader \in [pc : ReaderPlaces, want : 0 .. MaxRequest, fd : BOOLEAN]
    /\ socket \in [of : {"stream", "nobody", "other"}, shut : BOOLEAN]
    /\ cutForeign \in BOOLEAN

\* What http_stream_open() returns: the headers read, the thread started.
StreamInit ==
    /\ server = [sent |-> 0, over |-> FALSE]
    /\ chunked \in BOOLEAN /\ drawn = 0
    /\ pump = [pc |-> "check", held |-> <<>>, left |-> 0]
    /\ ring = [cell |-> [i \in 0 .. RingCapacity - 1 |-> 0], head |-> 0, tail |-> 0, fill |-> 0]
    /\ flags = [stop |-> FALSE, ended |-> FALSE]
    /\ asleep = {}
    /\ reader = [pc |-> "free", want |-> 0, fd |-> FALSE]
    /\ taken = <<>>
    /\ socket = [of |-> "stream", shut |-> FALSE] /\ cutForeign = FALSE

Lesser(a, b) == IF a < b THEN a ELSE b
Broadcast == asleep' = {}

----------------------------------------------------------------------------
\* The pump thread: stream_thread_func() and push_to_ring()

PumpAwake(pc) == pump.pc = pc /\ "pump" \notin asleep
PumpGoes(pc) == pump' = [pump EXCEPT !.pc = pc]
PumpLeaves == UNCHANGED <<server, chunked, reader, taken, cutForeign>>

\* Nothing more can be read: the server ended or the socket was shut down.
Dry == server.over \/ socket.shut

Checks ==
    /\ PumpAwake("check")
    /\ PumpGoes(IF flags.stop THEN "end" ELSE IF chunked THEN "line" ELSE "recv")
    /\ PumpLeaves /\ UNCHANGED <<drawn, ring, flags, asleep, socket>>

\* The next k bytes the server sent.
NextBytes(k) == [i \in 1 .. k |-> drawn + i]

Draws(k) == drawn' = drawn + k
            /\ pump' = [pump EXCEPT !.pc = "push", !.held = NextBytes(k), !.left = @ - Lesser(@, k)]

\* Without chunks, whatever has arrived, up to the size of the buffer.
ReadsSome ==
    /\ PumpAwake("recv")
    /\ \/ \E k \in 1 .. Lesser(ReadChunk, server.sent - drawn) : Draws(k)
       \/ Dry /\ PumpGoes("end") /\ UNCHANGED drawn
    /\ PumpLeaves /\ UNCHANGED <<ring, flags, asleep, socket>>

\* With chunks, the size line: a size of zero, or no line, is the end.
ReadsSizeLine ==
    /\ PumpAwake("line")
    /\ \/ /\ server.sent > drawn
          /\ \E k \in 1 .. MaxBytes - drawn : pump' = [pump EXCEPT !.pc = "body", !.left = k]
       \/ Dry /\ PumpGoes("end")
    /\ PumpLeaves /\ UNCHANGED <<drawn, ring, flags, asleep, socket>>

Piece == Lesser(pump.left, ReadChunk)

\* A whole piece of the chunk; one that stays incomplete is not passed on.
ReadsExact ==
    /\ PumpAwake("body")
    /\ \/ server.sent - drawn >= Piece /\ Draws(Piece)
       \/ Dry /\ PumpGoes("end") /\ UNCHANGED drawn
    /\ PumpLeaves /\ UNCHANGED <<ring, flags, asleep, socket>>

ReadsCrlf ==
    /\ PumpAwake("crlf")
    /\ PumpGoes("check") \/ (Dry /\ PumpGoes("end"))
    /\ PumpLeaves /\ UNCHANGED <<drawn, ring, flags, asleep, socket>>

\* Mutant: what does not fit before the end of the ring is not copied.
StoreNoWrap(s) ==
    [ring EXCEPT !.cell = [i \in DOMAIN @ |-> IF i >= ring.head /\ i - ring.head < Len(s)
                                              THEN s[i - ring.head + 1] ELSE @[i]],
                 !.head = (@ + Len(s)) % RingCapacity,
                 !.fill = @ + Len(s)]

Store(s) ==
    [ring EXCEPT !.cell = [i \in DOMAIN @ |->
                              LET d == (i + RingCapacity - ring.head) % RingCapacity
                              IN IF d < Len(s) THEN s[d + 1] ELSE @[i]],
                 !.head = (@ + Len(s)) % RingCapacity,
                 !.fill = @ + Len(s)]

Space == RingCapacity - ring.fill

AfterPush == IF pump.left > 0 THEN "body" ELSE IF chunked THEN "crlf" ELSE "check"

\* As much as fits; a full ring makes the pump wait, a stop makes it give up.
Pushes ==
    /\ PumpAwake("push")
    /\ \/ /\ flags.stop
          /\ pump' = [pump EXCEPT !.pc = "end", !.held = <<>>]
          /\ UNCHANGED <<ring, asleep>>
       \/ /\ ~flags.stop /\ Space = 0
          /\ asleep' = asleep \cup {"pump"}
          /\ UNCHANGED <<ring, pump>>
       \/ /\ ~flags.stop /\ Space > 0
          /\ LET take == Lesser(Len(pump.held), Space)
             IN /\ ring' = Store(SubSeq(pump.held, 1, take))
                /\ pump' = [pump EXCEPT !.held = SubSeq(@, take + 1, Len(@)),
                                        !.pc = IF take < Len(pump.held) THEN "push" ELSE AfterPush]
          /\ Broadcast
    /\ PumpLeaves /\ UNCHANGED <<drawn, flags, socket>>

\* Mutant: nobody is told that the stream is over.
EndsSilently ==
    /\ PumpAwake("end")
    /\ flags' = [flags EXCEPT !.ended = TRUE]
    /\ socket' = [of |-> "nobody", shut |-> FALSE]
    /\ PumpGoes("gone")
    /\ PumpLeaves /\ UNCHANGED <<drawn, ring, asleep>>

\* The end is declared and the socket closed, both under the mutex.
Ends ==
    /\ PumpAwake("end")
    /\ flags' = [flags EXCEPT !.ended = TRUE]
    /\ Broadcast
    /\ socket' = [of |-> "nobody", shut |-> FALSE]
    /\ PumpGoes("gone")
    /\ PumpLeaves /\ UNCHANGED <<drawn, ring>>

PumpStep == Checks \/ ReadsSome \/ ReadsSizeLine \/ ReadsExact \/ ReadsCrlf \/ Pushes \/ Ends

----------------------------------------------------------------------------
\* The decoder thread: http_stream_read() and http_stream_close()

ReaderAwake(pc) == reader.pc = pc /\ "reader" \notin asleep
ReaderGoes(pc) == reader' = [reader EXCEPT !.pc = pc]
ReaderLeaves == UNCHANGED <<server, chunked, drawn, pump>>

AsksFor(n) ==
    /\ ReaderAwake("free")
    /\ reader' = [reader EXCEPT !.pc = "read", !.want = n]
    /\ ReaderLeaves /\ UNCHANGED <<ring, flags, asleep, taken, socket, cutForeign>>

\* The ring's bytes, oldest first.
Content == [i \in 1 .. ring.fill |-> ring.cell[(ring.tail + i - 1) % RingCapacity]]

\* What is there is taken; for the rest the decoder waits, unless it is over.
Reads ==
    /\ ReaderAwake("read")
    /\ \/ /\ ring.fill = 0 /\ ~flags.ended /\ ~flags.stop
          /\ asleep' = asleep \cup {"reader"}
          /\ UNCHANGED <<ring, reader, taken>>
       \/ /\ ring.fill = 0 /\ (flags.ended \/ flags.stop)
          /\ ReaderGoes("free")
          /\ UNCHANGED <<ring, taken, asleep>>
       \/ /\ ring.fill > 0
          /\ LET take == Lesser(reader.want, ring.fill)
             IN /\ taken' = taken \o SubSeq(Content, 1, take)
                /\ ring' = [ring EXCEPT !.tail = (@ + take) % RingCapacity, !.fill = @ - take]
                /\ reader' = [reader EXCEPT !.want = @ - take,
                                            !.pc = IF take = reader.want THEN "free" ELSE "read"]
          /\ Broadcast
    /\ ReaderLeaves /\ UNCHANGED <<flags, socket, cutForeign>>

Closes ==
    /\ ReaderAwake("free")
    /\ ReaderGoes("stop")
    /\ ReaderLeaves /\ UNCHANGED <<ring, flags, asleep, taken, socket, cutForeign>>

RequestsStop ==
    /\ ReaderAwake("stop")
    /\ flags' = [flags EXCEPT !.stop = TRUE]
    /\ Broadcast
    /\ ReaderGoes("look")
    /\ ReaderLeaves /\ UNCHANGED <<ring, taken, socket, cutForeign>>

\* The descriptor is read under the mutex and shut down after it.
LooksAtSocket ==
    /\ ReaderAwake("look")
    /\ reader' = [reader EXCEPT !.pc = "shut", !.fd = (pump.pc # "gone")]
    /\ ReaderLeaves /\ UNCHANGED <<ring, flags, asleep, taken, socket, cutForeign>>

ShutsDown ==
    /\ ReaderAwake("shut")
    /\ ReaderGoes("join")
    /\ \/ ~reader.fd /\ UNCHANGED <<socket, cutForeign>>
       \/ /\ reader.fd
          /\ cutForeign' = (cutForeign \/ socket.of = "other")
          /\ socket' = [socket EXCEPT !.shut = (socket.of = "stream")]
    /\ ReaderLeaves /\ UNCHANGED <<ring, flags, asleep, taken>>

Joins ==
    /\ ReaderAwake("join") /\ pump.pc = "gone"
    /\ ReaderGoes("gone")
    /\ ReaderLeaves /\ UNCHANGED <<ring, flags, asleep, taken, socket, cutForeign>>

\* What the decoder thread does once it has called read or close.
ReaderStep == Reads \/ RequestsStop \/ LooksAtSocket \/ ShutsDown \/ Joins

----------------------------------------------------------------------------
\* The server, and the other sockets of the program

ServerSends ==
    /\ ~server.over /\ server.sent < MaxBytes
    /\ server' = [server EXCEPT !.sent = @ + 1]
    /\ UNCHANGED <<chunked, drawn, pump, ring, flags, asleep, reader, taken, socket, cutForeign>>

ServerEnds ==
    /\ ~server.over
    /\ server' = [server EXCEPT !.over = TRUE]
    /\ UNCHANGED <<chunked, drawn, pump, ring, flags, asleep, reader, taken, socket, cutForeign>>

DescriptorReused ==
    /\ socket.of = "nobody"
    /\ socket' = [of |-> "other", shut |-> FALSE]
    /\ UNCHANGED <<server, chunked, drawn, pump, ring, flags, asleep, reader, taken, cutForeign>>

StreamNext ==
    \/ PumpStep \/ ReaderStep
    \/ \E n \in 1 .. MaxRequest : AsksFor(n)
    \/ Closes
    \/ ServerSends \/ ServerEnds \/ DescriptorReused

StreamSpec == StreamInit /\ [][StreamNext]_streamVars

\* Both threads run whenever they can; the server owes nothing.
StreamFairSpec == StreamSpec /\ WF_streamVars(PumpStep) /\ WF_streamVars(ReaderStep)

----------------------------------------------------------------------------
\* Properties

Bytes == INSTANCE ByteQueue WITH Capacity <- RingCapacity,
                                 queued <- Content, over <- flags.ended

\* To its reader the stream is a bounded first-in first-out queue of the bytes
\* the server sent: none is lost or repeated across the wrap of the ring, partly
\* accepted pushes, chunk boundaries and a close.
ImplementsByteQueue == Bytes!QueueSpec

\* The pump is in a read that only the server can end.
Starved ==
    ~Dry /\ \/ pump.pc \in {"recv", "line"} /\ server.sent = drawn
            \/ pump.pc = "body" /\ server.sent - drawn < Piece

\* A read returns unless the server has gone silent: no wake-up is lost
\* between a full ring, an empty one and the end.
ReadReturns == []<>(reader.pc # "read" \/ Starved)

\* "Stops the background thread, unblocks any pending read": a close comes
\* back even when the pump waits for space or for a silent server.
CloseReturns == []<>(reader.pc \notin {"stop", "look", "shut", "join"})

\* "Unblock pending socket read by shutting down fd if still connected": the
\* socket that a close shuts down is the stream's own.
ClosesOwnSocket == ~cutForeign

\* Neither call of the reader's side hangs.
StreamReturns == ReadReturns /\ CloseReturns
=============================================================================

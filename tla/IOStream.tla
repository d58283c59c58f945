------------------------------ MODULE IOStream ------------------------------
(***************************************************************************)
(* tornado.iostream: a non-blocking socket with a read and a write buffer. *)
(*                                                                         *)
(* The stream is a record; each method is an operator from the stream to   *)
(* the stream it leaves, so that a handler is the composition of the calls *)
(* it makes.  A byte is its number in the order the peer sent it: the read *)
(* buffer holds the bytes used + 1 .. got.  Callbacks are not called by    *)
(* the stream but queued on the event loop; "queue" is that part of the    *)
(* loop's queue, and inCallback says that one of them is running.          *)
(*                                                                         *)
(* An SSL stream is one of a server, or of a socket that is connected: an  *)
(* SSLIOStream that connects, whose socket is wrapped at each event until  *)
(* its handshake is done, is left out.                                     *)
(***************************************************************************)
EXTENDS Integers, Sequences, FiniteSetsExt

CONSTANTS
    MaxBytes,    \* bound: bytes the peer sends
    Delims,      \* the bytes that end a match of the delimiter or regex
    MaxBuffer,   \* max_buffer_size
    MaxOps       \* bound: operations the application starts

VARIABLES
    stream,      \* the IOStream
    inCallback,  \* a callback of the stream is running
    due,         \* queued callbacks the loop runs before it polls again
    arrived,     \* bytes in the kernel so far
    peer,        \* "open", "fin" (sent EOF) or "reset"
    seen,        \* bytes handed to the application so far
    ops          \* operations started so far

ioVars == <<stream, inCallback, due, arrived, peer, seen, ops>>

Callback(kind, first, last, goal) ==
    [kind |-> kind, first |-> first, last |-> last, goal |-> goal]
Note(kind) == Callback(kind, 1, 0, 0)

Fresh(ssl, dialing) ==
    [open |-> TRUE, connecting |-> dialing, connCb |-> FALSE,
     reg |-> FALSE, want |-> {},              \* _state: registered, and for what
     got |-> 0, used |-> 0,
     read |-> "none",                         \* the pending read, if _read_callback is set
     num |-> 0, streaming |-> FALSE,
     goal |-> 0,                              \* the last byte of a read_bytes, or 0
     wbuf |-> 0, writeCb |-> FALSE, closeCb |-> FALSE,
     accepting |-> ssl, hsRead |-> FALSE, hsWrite |-> FALSE,
     pending |-> 0, queue |-> <<>>,
     touched |-> FALSE,                       \* some operation was called
     eofOutside |-> FALSE]                    \* closed by a read started outside callbacks

-----------------------------------------------------------------------------
(* Callbacks and closing.                                                  *)

Buffered(s) == s.got - s.used
Schedule(s, cb) == [s EXCEPT !.pending = @ + 1, !.queue = Append(@, cb)]
\* The mutated form of Deliver: the bytes stay in the buffer.
DeliverKept(s, kind, n) ==
    Schedule(s, Callback(kind, s.used + 1, s.used + n, s.goal))
\* _run_callback(callback, _consume(n)).
Deliver(s, kind, n) ==
    Schedule([s EXCEPT !.used = @ + n],
             Callback(kind, s.used + 1, s.used + n, s.goal))

MaybeRunCloseCallback(s) ==
    IF ~s.open /\ s.closeCb /\ s.pending = 0
    THEN Schedule([s EXCEPT !.closeCb = FALSE], Note("close"))
    ELSE s

FinishReadUntilClose(s) ==
    IF s.read = "close" THEN Deliver([s EXCEPT !.read = "none"], "read", Buffered(s)) ELSE s
CloseSocket(s) == [s EXCEPT !.open = FALSE, !.reg = FALSE, !.want = {}]
CloseStream(s) ==
    MaybeRunCloseCallback(IF s.open THEN CloseSocket(FinishReadUntilClose(s)) ELSE s)

AddIoState(s, event) ==
    IF s.open THEN [s EXCEPT !.reg = TRUE, !.want = @ \cup {event}] ELSE s

MaybeAddErrorListener(s) ==
    IF ~s.reg /\ s.pending = 0
    THEN IF s.open THEN AddIoState(s, "R") ELSE MaybeRunCloseCallback(s)
    ELSE s

-----------------------------------------------------------------------------
(* Reading.                                                                *)

\* recv until it would block: stops at the end of the data, at max_buffer_size,
\* or with an error after a reset.  While an SSL handshake is going on there is
\* nothing to read.
CanRead(s) == IF s.accepting THEN 0 ELSE Min({arrived - s.got, MaxBuffer - Buffered(s)})
ReadFails(s) == ~s.accepting /\ (peer = "reset" \/ Buffered(s) + CanRead(s) >= MaxBuffer)
ReadEof(s) == ~s.accepting /\ peer = "fin" /\ s.got + CanRead(s) = arrived

\* The read loop, with _pending_callbacks held up so that the close callback waits.
ReadLoop(s) ==
    LET held == [s EXCEPT !.pending = @ + 1,
                          !.got = IF peer = "reset" THEN @ ELSE @ + CanRead(s)]
        left == IF ReadFails(s) \/ ReadEof(s) THEN CloseStream(held) ELSE held
    IN  [left EXCEPT !.pending = @ - 1]

\* The chunk a streaming callback gets before the read itself is looked at.
StreamSize(s) == IF s.read = "bytes" THEN Min({s.num, Buffered(s)}) ELSE Buffered(s)
StreamChunk(s) ==
    IF s.streaming /\ Buffered(s) > 0
    THEN Deliver([s EXCEPT !.num = IF s.read = "bytes" THEN @ - StreamSize(s) ELSE @],
                 "stream", StreamSize(s))
    ELSE s

Matches(s) == {i \in (s.used + 1) .. s.got : i \in Delims}
ReadSize(s) == IF s.read = "bytes" THEN s.num ELSE Min(Matches(s)) - s.used
ReadReady(s) ==
    \/ s.read = "bytes" /\ Buffered(s) >= s.num
    \/ s.read = "until" /\ Matches(s) # {}

ReadFromBuffer(s) ==
    LET t == StreamChunk(s)
    IN  IF ReadReady(t)
        THEN Deliver([t EXCEPT !.read = "none", !.streaming = FALSE], "read", ReadSize(t))
        ELSE t

HandleRead(s) ==
    IF ReadFails(s) THEN CloseStream(ReadLoop(s))
    ELSE MaybeRunCloseCallback(ReadFromBuffer(ReadLoop(s)))

\* Started by a read method: from the buffer, else from the socket, else listen.
\* On a closed stream, and after a failed read, the caller gets an IOError.
TryInlineRead(s) ==
    LET t == ReadFromBuffer(s)
        u == [ReadLoop(t) EXCEPT !.eofOutside = ~inCallback /\ (ReadFails(t) \/ ReadEof(t))]
    IN  IF t.read = "none" \/ ~t.open THEN t
        ELSE IF ReadFails(t) THEN u
        ELSE LET v == ReadFromBuffer(u)
             IN  IF v.read = "none" THEN v ELSE AddIoState(v, "R")

ReadUntilClose(s, streaming) ==
    IF s.open
    THEN AddIoState([s EXCEPT !.read = "close", !.streaming = streaming, !.goal = 0], "R")
    ELSE Deliver([s EXCEPT !.goal = 0], "read", Buffered(s))

-----------------------------------------------------------------------------
(* Writing, connecting and the SSL handshake.  "outcome" is what the       *)
(* kernel or the SSL library answers.                                      *)

WriteOutcomes(s) == 0 .. s.wbuf \cup (IF s.wbuf > 0 /\ peer # "open" THEN {-1} ELSE {})

WriteBuffer(s, outcome) ==
    IF outcome = -1 THEN CloseStream(s)
    ELSE LET t == [s EXCEPT !.wbuf = @ - outcome]
         IN  IF t.wbuf = 0 /\ t.writeCb
             THEN Schedule([t EXCEPT !.writeCb = FALSE], Note("write"))
             ELSE t

ConnectDone(s, ok) ==
    IF ~ok THEN CloseStream(s)
    ELSE LET t == [s EXCEPT !.connecting = FALSE, !.connCb = FALSE]
         IN  IF s.connCb THEN Schedule(t, Note("connect")) ELSE t

\* do_handshake: needs to read, needs to write, done, or failed; an error of the socket
\* other than ECONNABORTED is ignored.
Handshake(s, outcome) ==
    LET t == [s EXCEPT !.hsRead = outcome = "read", !.hsWrite = outcome = "write"]
    IN  CASE outcome = "fail" -> CloseStream(t)
          [] outcome = "done" -> ConnectDone([t EXCEPT !.accepting = FALSE], TRUE)
          [] OTHER -> t
HandshakeOutcomes == {"read", "write", "done", "fail", "ignored"}

HandleWrite(s, outcome, shake) ==
    IF s.accepting THEN Handshake(s, shake) ELSE WriteBuffer(s, outcome)

WriteStream(s, outcome, shake, withCallback) ==
    LET t == HandleWrite([s EXCEPT !.writeCb = withCallback], outcome, shake)
    IN  MaybeAddErrorListener(IF t.wbuf > 0 THEN AddIoState(t, "W") ELSE t)

-----------------------------------------------------------------------------
(* The handler of the descriptor.                                          *)

\* The mutated form of Interest: a stream that waits for nothing listens for nothing.
InterestOnly(s) ==
    {e \in {"R", "W"} : \/ e = "R" /\ (s.hsRead \/ s.read # "none")
                        \/ e = "W" /\ (s.hsWrite \/ s.wbuf > 0)}
Interest(s) ==
    LET busy == {e \in {"R", "W"} : \/ e = "R" /\ (s.hsRead \/ s.read # "none")
                                    \/ e = "W" /\ (s.hsWrite \/ s.wbuf > 0)}
    IN  IF busy = {} THEN {"R"} ELSE busy

OnReadable(s, shake) == IF s.accepting THEN Handshake(s, shake) ELSE HandleRead(s)
\* A failed connect leaves no socket; _handle_write then raises if data was queued.
OnWritable(s, ok, outcome, shake) ==
    LET t == IF s.connecting THEN ConnectDone(s, ok) ELSE s
    IN  IF t.open THEN HandleWrite(t, outcome, shake) ELSE CloseStream(t)

\* An error is left to a callback behind those already queued; it is not counted as pending.
HandleEvents(s, events, ok, outcome, shake) ==
    LET r == IF "R" \in events THEN OnReadable(s, shake) ELSE s
        w == IF r.open /\ "W" \in events THEN OnWritable(r, ok, outcome, shake) ELSE r
    IN  IF ~w.open THEN w
        ELSE IF "E" \in events THEN [w EXCEPT !.queue = Append(@, Note("error"))]
        ELSE [w EXCEPT !.want = Interest(w)]

-----------------------------------------------------------------------------
Init ==
    /\ \E ssl, dialing \in BOOLEAN : ~(ssl /\ dialing) /\ stream = Fresh(ssl, dialing)
    /\ inCallback = FALSE /\ due = 0 /\ arrived = 0 /\ peer = "open" /\ seen = 0 /\ ops = 0

(* The application, in a callback of the stream or in other code the loop  *)
(* runs.  connect() comes first on a socket that is not connected.         *)

Operation ==
    /\ ops < MaxOps
    /\ ops' = ops + 1
    /\ UNCHANGED <<inCallback, due, arrived, peer, seen>>

Touch(s) == [s EXCEPT !.touched = TRUE]
Ready == stream.connecting => stream.reg

Connect ==
    /\ Operation /\ stream.connecting /\ ~stream.reg /\ stream.open
    /\ stream' \in {CloseStream(Touch(stream)),
                    AddIoState([Touch(stream) EXCEPT !.connCb = TRUE], "W")}

ReadUntil ==
    /\ Operation /\ Ready /\ ~stream.connecting /\ stream.read = "none"
    /\ stream' = TryInlineRead([Touch(stream) EXCEPT !.read = "until", !.goal = 0])

ReadBytes(n, streaming) ==
    /\ Operation /\ Ready /\ ~stream.connecting /\ stream.read = "none"
    /\ stream' = TryInlineRead([Touch(stream) EXCEPT !.read = "bytes", !.num = n,
                                    !.streaming = streaming, !.goal = stream.used + n])

StartReadUntilClose(streaming) ==
    /\ Operation /\ Ready /\ ~stream.connecting /\ stream.read = "none"
    /\ stream' = ReadUntilClose(Touch(stream), streaming)

Write(n, withCallback) ==
    /\ Operation /\ Ready /\ stream.open
    /\ LET s == [Touch(stream) EXCEPT !.wbuf = @ + n]
       IN  \E outcome \in IF s.connecting THEN {0} ELSE WriteOutcomes(s),
              shake \in IF s.accepting THEN HandshakeOutcomes ELSE {"done"} :
              stream' = WriteStream(s, outcome, shake, withCallback)

SetCloseCallback ==
    /\ Operation /\ (inCallback \/ stream.open) /\ ~stream.closeCb
    /\ stream' = [stream EXCEPT !.closeCb = TRUE]

Close ==
    /\ Operation /\ stream.open
    /\ stream' = CloseStream(Touch(stream))

-----------------------------------------------------------------------------
(* The event loop.                                                         *)

\* One iteration runs what was queued when it began, then polls.
Iterate ==
    /\ ~inCallback /\ due = 0 /\ stream.queue # <<>>
    /\ due' = Len(stream.queue)
    /\ UNCHANGED <<stream, inCallback, arrived, peer, seen, ops>>

RunCallback ==
    /\ ~inCallback /\ due > 0
    /\ due' = due - 1
    /\ LET cb == Head(stream.queue)
           rest == [stream EXCEPT !.queue = Tail(@)]
       IN  IF cb.kind = "error"
           THEN stream' = CloseStream(rest) /\ UNCHANGED <<inCallback, seen>>
           ELSE /\ stream' = [rest EXCEPT !.pending = @ - 1]
                /\ inCallback' = TRUE
                /\ seen' = IF cb.last >= cb.first THEN cb.last ELSE seen
    /\ UNCHANGED <<arrived, peer, ops>>

CallbackReturns ==
    /\ inCallback
    /\ inCallback' = FALSE
    /\ stream' = MaybeAddErrorListener(stream)
    /\ UNCHANGED <<due, arrived, peer, seen, ops>>

CallbackRaises ==
    /\ inCallback
    /\ inCallback' = FALSE
    /\ stream' = CloseStream(stream)
    /\ UNCHANGED <<due, arrived, peer, seen, ops>>

\* What poll() may report: only what the stream is registered for, and errors.
Events ==
    {ev \in SUBSET {"R", "W", "E"} :
        /\ ev # {}
        /\ "R" \in ev => "R" \in stream.want /\ (arrived > stream.got \/ peer # "open")
        /\ "W" \in ev => "W" \in stream.want
        /\ "E" \in ev => peer = "reset"}

PollEvent ==
    /\ ~inCallback /\ due = 0 /\ stream.open /\ stream.reg
    /\ \E ev \in Events, ok \in BOOLEAN, outcome \in WriteOutcomes(stream),
          shake \in HandshakeOutcomes :
          /\ ok \/ (stream.connecting /\ "W" \in ev)
          /\ shake = "done" \/ stream.accepting
          /\ stream' = HandleEvents(stream, ev, ok, outcome, shake)
    /\ due' = Len(stream'.queue)
    /\ UNCHANGED <<inCallback, arrived, peer, seen, ops>>

PeerSends ==
    /\ peer = "open" /\ arrived < MaxBytes /\ ~stream.connecting
    /\ arrived' = arrived + 1
    /\ UNCHANGED <<stream, inCallback, due, peer, seen, ops>>

PeerCloses ==
    /\ peer = "open" /\ ~stream.connecting
    /\ peer' \in {"fin", "reset"}
    /\ UNCHANGED <<stream, inCallback, due, arrived, seen, ops>>

Application ==
    \/ Connect \/ ReadUntil \/ SetCloseCallback \/ Close
    \/ \E n \in 0 .. 2, streaming \in BOOLEAN : ReadBytes(n, streaming)
    \/ \E streaming \in BOOLEAN : StartReadUntilClose(streaming)
    \/ \E n \in 0 .. 1, withCallback \in BOOLEAN : Write(n, withCallback)

IONext ==
    \/ Application
    \/ Iterate \/ RunCallback \/ CallbackReturns \/ CallbackRaises \/ PollEvent
    \/ PeerSends \/ PeerCloses

IOSpec == Init /\ [][IONext]_ioVars
-----------------------------------------------------------------------------
Quiet == ~inCallback /\ stream.queue = <<>>

\* The callbacks receive every byte once and in order, whether a read completes
\* from the buffer, from the socket, in streamed chunks or by the end of the
\* connection: those queued continue where the application is, the buffer where
\* they end, and the last callback of a read_bytes ends at the byte asked for,
\* however many chunks were streamed before it.
BytesInOrder ==
    LET q == stream.queue
        Pieces == {i \in DOMAIN q : q[i].last >= q[i].first}
        Reached(before) == IF before = {} THEN seen ELSE q[Max(before)].last
    IN  /\ \A i \in Pieces : q[i].first = Reached({j \in Pieces : j < i}) + 1
        /\ stream.used = Reached(Pieces)
        /\ \A i \in Pieces : q[i].kind = "read" /\ q[i].goal > 0 => q[i].last = q[i].goal

\* The stream is never deaf: when nothing of it is queued or running, it is
\* registered and waits for some event, so that the end of the connection is noticed;
\* for reads when a read waits, and for writes when data waits.
NeverDeaf ==
    Quiet /\ stream.open /\ stream.touched =>
        /\ stream.reg /\ stream.want # {}
        /\ stream.read # "none" => "R" \in stream.want \/ stream.hsWrite
        /\ stream.wbuf > 0 => "W" \in stream.want \/ stream.hsRead

\* set_close_callback: the callback runs when the stream is closed.
CloseCallbackRuns == ~(Quiet /\ ~stream.open /\ stream.closeCb)

\* A stream at rest is attended to: an open one listens, and a closed one has told so
\* whoever asked, but for a stream whose end a read found that was started outside of
\* the stream's own callbacks.
Attended == NeverDeaf /\ (CloseCallbackRuns \/ stream.eofOutside)
=============================================================================

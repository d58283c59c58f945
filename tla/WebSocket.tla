------------------------------ MODULE WebSocket ------------------------------
(***************************************************************************)
(* tornado.websocket: one connection from its HTTP handshake on, in either *)
(* protocol the module speaks: RFC 6455 (WebSocketProtocol13) or draft 76. *)
(*                                                                         *)
(* The client sends frames, of which the stream below (an IOStream, as     *)
(* module IOStream describes it) hands the protocol one piece per read.    *)
(* A method is an operator on the record ws; "ok" says that no exception   *)
(* left it.                                                                *)
(***************************************************************************)
EXTENDS Integers, Sequences, FiniteSetsExt, SequencesExt

CONSTANTS
    Frames,       \* the frames a client may send
    MaxFrames     \* bound: frames the client sends

VARIABLES
    ws,        \* the protocol object, its handler and its stream
    frames,    \* the frames the client sent
    link       \* how the client's side stands: "up", "fin" or "reset"

wsVars == <<ws, frames, link>>

Control == {"ping", "pong", "close"}
\* op: the opcode, "garbled" being a text that is not UTF-8 and "unknown" an opcode
\* not defined; fin: last frame of its message; long: the length takes bytes of its
\* own; broken: reserved bits set, not masked, or a control frame that is too long.
FrameType ==
    [op : {"text", "garbled", "binary", "cont", "unknown"} \cup Control,
     fin : BOOLEAN, long : BOOLEAN, broken : BOOLEAN]

\* What one read of the stream gives: a piece of frame number n.
Piece(what, n) == [what |-> what, frame |-> n]

NoMessage == [op |-> "none", tags |-> <<>>]
\* What the client asks the server to answer is a header of the request in RFC 6455,
\* and follows the request in draft 76.
ChallengePiece == Piece("challenge", 0)
Opened(protocol) ==
    LET asked == IF protocol = 13 THEN <<ChallengePiece>> ELSE <<>>
    IN
    [protocol |-> protocol, open |-> TRUE, closeCb |-> TRUE,
     queue |-> asked, due |-> Len(asked),
     reading |-> IF protocol = 13 THEN "none" ELSE "challenge",
     input |-> asked, got |-> Len(asked), used |-> Len(asked),
     attached |-> TRUE,                          \* handler.ws_connection is set
     clientTerminated |-> FALSE, serverTerminated |-> FALSE, waiting |-> FALSE,
     fragmented |-> NoMessage,
     ok |-> TRUE, delivered |-> <<>>, read |-> 0, closeFrames |-> 0,
     onClose |-> 0]

Init ==
    /\ ws \in {Opened(13), Opened(76)}
    /\ frames = <<>>
    /\ link = "up"

-----------------------------------------------------------------------------
(* The stream.                                                             *)

\* The pieces of frame number n.
PiecesOf(w, f, n) ==
    IF w.protocol = 76
    THEN <<Piece("type", n), Piece(IF f.op = "close" THEN "indicator" ELSE "payload", n)>>
    ELSE <<Piece("start", n)>> \o (IF f.long THEN <<Piece("length", n)>> ELSE <<>>)
         \o <<Piece("mask", n), Piece("data", n)>>

MaybeRunClose(w) ==
    IF ~w.open /\ w.closeCb /\ w.queue = <<>>
    THEN [w EXCEPT !.closeCb = FALSE, !.queue = <<Piece("closed", 0)>>]
    ELSE w
CloseStream(w) == MaybeRunClose([w EXCEPT !.open = FALSE])

Fill(w) == IF link = "reset" THEN w ELSE [w EXCEPT !.got = Len(w.input)]
Deliver(w) ==
    IF w.reading = "none" \/ w.got = w.used THEN w
    ELSE [w EXCEPT !.reading = "none", !.used = @ + 1,
                   !.queue = Append(@, w.input[w.used + 1])]

StartRead(w, what) ==
    LET v == [w EXCEPT !.reading = what]
    IN  IF w.got > w.used THEN Deliver(v)
        ELSE IF ~w.open \/ link = "reset"
        THEN [v EXCEPT !.open = FALSE, !.ok = FALSE]
        ELSE Deliver([Fill(v) EXCEPT !.open = link = "up"])

\* A frame is written at once, or the client is found to be gone.
WriteFrame(w, lost) ==
    IF ~w.open THEN [w EXCEPT !.ok = FALSE]
    ELSE IF lost THEN CloseStream(w) ELSE w
Losses == IF link = "up" THEN {FALSE} ELSE BOOLEAN

-----------------------------------------------------------------------------
(* Closing.                                                                *)

\* The mutated form of OncePerSide: the close frame goes out on every call.
EveryTime(w) == TRUE
OncePerSide(w) == ~w.serverTerminated

\* close(): the first call sends a close frame; when the client has closed as well
\* the socket goes, else after a timer.
Close(w, lost) ==
    LET v == IF ~OncePerSide(w) THEN w
             ELSE IF w.open
             THEN [WriteFrame(w, lost) EXCEPT !.serverTerminated = TRUE, !.closeFrames = @ + 1]
             ELSE [w EXCEPT !.serverTerminated = TRUE]
    IN  IF v.clientTerminated THEN CloseStream([v EXCEPT !.waiting = FALSE])
        ELSE [v EXCEPT !.waiting = TRUE]

Abort(w) ==
    Close(CloseStream([w EXCEPT !.clientTerminated = TRUE, !.serverTerminated = TRUE]), FALSE)

\* on_connection_close of the handler.
ConnectionClosed(w) ==
    IF w.attached
    THEN [Abort(w) EXCEPT !.attached = FALSE, !.onClose = @ + 1]
    ELSE w

-----------------------------------------------------------------------------
(* Messages.                                                               *)

\* What open or on_message may do with the connection: nothing, write, close it or raise.
Reactions == {"none", "write", "close", "raise"}
React(w, reaction, lost) ==
    CASE reaction = "none" -> w
      [] reaction = "write" ->
            LET v == WriteFrame(w, lost)
            IN  IF v.ok THEN v ELSE Abort([v EXCEPT !.ok = TRUE])
      [] reaction = "close" -> Close(w, lost)
      [] reaction = "raise" -> Abort(w)

OnMessage(w, tags, reaction, lost) ==
    React([w EXCEPT !.delivered = Append(@, tags)], reaction, lost)

HandleMessage(w, op, tags, reaction, lost) ==
    IF w.clientTerminated THEN w
    ELSE CASE op \in {"text", "binary"} -> OnMessage(w, tags, reaction, lost)
           [] op = "close" -> Close([w EXCEPT !.clientTerminated = TRUE], lost)
           [] op = "ping" -> WriteFrame(w, lost)
           [] op = "pong" -> w
           [] OTHER -> Abort(w)

Finished(w) == w.fragmented = NoMessage
\* The mutated form of Cleared: the buffer of a fragmented message stays.
NotCleared(w) == w
Cleared(w) == [w EXCEPT !.fragmented = NoMessage]

\* _on_frame_data up to the next read.
FrameData(w, f, n, reaction, lost) ==
    CASE f.op \in Control ->
            IF f.fin THEN HandleMessage(w, f.op, <<n>>, reaction, lost) ELSE Abort(w)
      [] f.op = "cont" ->
            LET tags == Append(w.fragmented.tags, n)
            IN  IF Finished(w) THEN Abort(w)
                ELSE IF f.fin
                THEN HandleMessage(Cleared(w), w.fragmented.op, tags, reaction, lost)
                ELSE [w EXCEPT !.fragmented.tags = tags]
      [] OTHER ->
            IF ~Finished(w) THEN Abort(w)
            ELSE IF f.fin THEN HandleMessage(w, f.op, <<n>>, reaction, lost)
            ELSE [w EXCEPT !.fragmented = [op |-> f.op, tags |-> <<n>>]]

Counted(w) == IF w.clientTerminated THEN w ELSE [w EXCEPT !.read = @ + 1]
\* Unless the client has closed or an exception left, the next frame is awaited.
ThenRead(w, what) == IF w.ok /\ ~w.clientTerminated THEN StartRead(w, what) ELSE w

Run13(w, what, f, n, reaction, lost) ==
    CASE what = "start" ->
            IF f.broken THEN Abort(w) ELSE StartRead(w, IF f.long THEN "length" ELSE "mask")
      [] what = "length" -> StartRead(w, "mask")
      [] what = "mask" -> StartRead(w, "data")
      [] what = "data" -> ThenRead(FrameData(Counted(w), f, n, reaction, lost), "start")

\* Draft 76: after the challenge, texts up to a delimiter and a close of two bytes.
Run76(w, what, f, n, reaction, lost) ==
    CASE what = "type" ->
            IF f.op = "unknown" THEN Abort(w)
            ELSE StartRead(w, IF f.op = "close" THEN "indicator" ELSE "payload")
      [] what = "payload" ->
            ThenRead(IF w.clientTerminated THEN w
                     ELSE OnMessage(Counted(w), <<n>>, reaction, lost), "type")
      [] what = "indicator" ->
            IF f.broken THEN Abort(w)
            ELSE Close([Counted(w) EXCEPT !.clientTerminated = TRUE], lost)

\* A malformed key aborts, else the response is written and open() runs.  Whatever it
\* did, the first frame is awaited, which raises when the stream has been closed.
Challenged(w, valid, reaction, lost) ==
    LET v == WriteFrame(w, lost)
    IN  IF ~valid THEN Abort(w)
        ELSE IF ~v.ok THEN v
        ELSE StartRead(React(v, reaction, lost), IF w.protocol = 13 THEN "start" ELSE "type")

-----------------------------------------------------------------------------
Iterate ==
    /\ ws.due = 0 /\ ws.queue # <<>>
    /\ ws' = [ws EXCEPT !.due = Len(ws.queue)]
    /\ UNCHANGED <<frames, link>>

\* A callback of the stream ends, or raises and closes it.
StreamCallback ==
    /\ ws.due > 0
    /\ \E reaction \in Reactions, lost \in Losses, valid \in BOOLEAN :
          LET p == Head(ws.queue)
              w == [ws EXCEPT !.queue = Tail(@), !.due = @ - 1]
              f == IF p.frame = 0 THEN [op |-> "none"] ELSE frames[p.frame]
              v == CASE p.what = "closed" -> ConnectionClosed(w)
                     [] p.what = "challenge" -> Challenged(w, valid, reaction, lost)
                     [] p.what \in {"start", "length", "mask", "data"} ->
                           Run13(w, p.what, f, p.frame, reaction, lost)
                     [] p.what \in {"type", "payload", "indicator"} ->
                           Run76(w, p.what, f, p.frame, reaction, lost)
          IN  ws' = [IF v.ok THEN MaybeRunClose(v) ELSE CloseStream(v) EXCEPT !.ok = TRUE]
    /\ UNCHANGED <<frames, link>>

\* A read event: what was sent before the end is delivered before the close callback.
PollRead ==
    /\ ws.due = 0 /\ ws.open
    /\ ws.got < Len(ws.input) \/ link # "up"
    /\ ws' = IF link = "reset" THEN CloseStream(ws)
             ELSE MaybeRunClose(Deliver([Fill(ws) EXCEPT !.open = link = "up"]))
    /\ UNCHANGED <<frames, link>>

\* The timer of close().
Timeout ==
    /\ ws.due = 0 /\ ws.waiting
    /\ ws' = Abort(ws)
    /\ UNCHANGED <<frames, link>>

\* The application elsewhere.  Once the handler is detached both calls raise in it.
AppClose ==
    /\ ws.due = 0 /\ ws.attached
    /\ \E lost \in Losses : ws' = Close(ws, lost)
    /\ UNCHANGED <<frames, link>>

AppWrite ==
    /\ ws.due = 0 /\ ws.attached
    /\ \E lost \in Losses :
          ws' = [WriteFrame(ws, lost) EXCEPT !.ok = TRUE]
    /\ UNCHANGED <<frames, link>>

\* A client sends whole frames; its last one may be torn by the end of the connection.
ClientSends(f) ==
    /\ link = "up" /\ Len(frames) < MaxFrames
    /\ ws.protocol = 76 => /\ f.op \in {"text", "close", "unknown"} /\ f.fin /\ ~f.long
                           /\ f.broken => f.op = "close"
    /\ frames' = Append(frames, f)
    /\ \E torn \in BOOLEAN :
          /\ ws' = [ws EXCEPT !.input = @ \o
                       LET all == PiecesOf(ws, f, Len(frames) + 1)
                       IN  IF torn THEN SubSeq(all, 1, 1) ELSE all]
          /\ link' = IF torn THEN "fin" ELSE link

ClientChallenges ==
    /\ link = "up" /\ ws.protocol = 76 /\ ws.input = <<>>
    /\ ws' = [ws EXCEPT !.input = <<ChallengePiece>>]
    /\ UNCHANGED <<frames, link>>

ClientGoes ==
    /\ link = "up"
    /\ link' \in {"fin", "reset"}
    /\ UNCHANGED <<ws, frames>>

WSNext ==
    \/ Iterate \/ StreamCallback \/ PollRead \/ Timeout \/ AppClose \/ AppWrite
    \/ \E f \in Frames : ws.input # <<>> /\ ClientSends(f)
    \/ ClientChallenges \/ ClientGoes

WSSpec == Init /\ [][WSNext]_wsVars
-----------------------------------------------------------------------------
\* What the frames that were read say, by the protocol: up to the first frame that
\* breaks it or closes, each message is a first frame and its continuations.
Data(n) == {i \in 1 .. n : frames[i].op \notin Control}
InSequence(i) ==
    frames[i].op \notin Control =>
        frames[i].op = "cont" <=> Data(i - 1) # {} /\ ~frames[Max(Data(i - 1))].fin
Legal(i) ==
    /\ ~frames[i].broken
    /\ frames[i].op \notin {"garbled", "unknown", "close"}
    /\ frames[i].op \in Control => frames[i].fin
    /\ InSequence(i)
LegalLength == Max({n \in 0 .. ws.read : \A i \in 1 .. n : Legal(i)})
\* The frames of the message that ends with the last one given.
PartsOf(last) ==
    LET first == Max({i \in Data(last) : frames[i].op # "cont"})
    IN  {i \in Data(last) : i >= first}

\* The application gets the messages the client sent, each once, whole and in
\* order, whatever control frames stand between their parts, and nothing of a
\* message that breaks the protocol.
Increasing(s) == \A i \in 2 .. Len(s) : s[i - 1] < s[i]
MessagesReassembled ==
    LET lasts == [m \in DOMAIN ws.delivered |-> Last(ws.delivered[m])]
    IN  /\ Increasing(lasts) /\ Range(lasts) = {i \in Data(LegalLength) : frames[i].fin}
        /\ \A m \in DOMAIN lasts : /\ Increasing(ws.delivered[m])
                                   /\ Range(ws.delivered[m]) = PartsOf(lasts[m])

\* on_close runs once, and it runs whenever the socket has been closed by either side, a
\* timer or an error.  The application, the client, the timer and errors may all close,
\* but at most one close frame is sent; and a connection the server has closed does not
\* linger: its socket is closed or a timer runs that will close it, which does not
\* outlive the handler.
OnCloseRuns ==
    /\ ws.onClose = IF ws.attached THEN 0 ELSE 1
    /\ ~ws.open /\ ws.queue = <<>> => ws.onClose = 1
OneCloseFrame == ws.closeFrames <= 1
CloseIsBounded ==
    /\ ws.serverTerminated /\ ws.open => ws.waiting
    /\ ~ws.attached => ~ws.waiting
ClosedOnce == OnCloseRuns /\ OneCloseFrame /\ CloseIsBounded
=============================================================================

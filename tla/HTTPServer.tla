----------------------------- MODULE HTTPServer -----------------------------
(***************************************************************************)
(* tornado.httpserver.HTTPConnection and tornado.web.RequestHandler: one   *)
(* connection of a client that may send its next request before the last   *)
(* one is answered, the handlers of its requests, and the IOStream below,  *)
(* taken as module IOStream describes it.                                  *)
(*                                                                         *)
(* A call is an operator on [c, h, ok]: the connection, the handler that   *)
(* is running and whether no exception was raised.  Application code (the  *)
(* get or post of a handler, its callbacks) has the turn until it returns; *)
(* meanwhile the client and the kernel go on, but no other callback runs.  *)
(***************************************************************************)
EXTENDS Integers, Sequences

CONSTANTS
    Kinds,         \* kinds of requests
    MaxRequests,   \* bound: requests of the client
    MaxFlush,      \* bound: calls of flush() by one handler
    FlushCallbacksRaise   \* whether the callback of a flush() may raise outside any context

VARIABLES
    conn,       \* the HTTPConnection and its stream
    handler,    \* the RequestHandler of each request
    turn,       \* the request whose handler's code runs, or 0
    requests,   \* the requests the client sent
    client      \* owed: the body of the last request is still to come; gone: "no", "fin", "reset"

httpVars == <<conn, handler, turn, requests, client>>
Ids == 1 .. MaxRequests

\* http11: HTTP/1.1; connection: the Connection header; body: has a Content-Length;
\* expect: sent with Expect: 100-continue; valid: neither malformed nor too long.
KindType == [http11 : BOOLEAN, connection : {"none", "close", "keep-alive"},
             method : {"GET", "HEAD", "POST"}, body : BOOLEAN, expect : BOOLEAN,
             valid : BOOLEAN]

NewConn ==
    [open |-> TRUE, reading |-> "headers", got |-> 0, gotOwed |-> FALSE,
     wbuf |-> <<>>, wire |-> <<>>, streamCb |-> FALSE, closeCb |-> 0, queue |-> <<>>,
     parsed |-> 0, request |-> 0, requestFinished |-> FALSE, writeCallback |-> 0,
     within |-> "none"]                   \* the stream callback that is running

NewHandler(auto) ==
    [phase |-> "execute", autoFinish |-> auto, headersWritten |-> FALSE, framing |-> "none",
     finished |-> FALSE, ended |-> FALSE, closedSeen |-> 0, wrote |-> 0]
NoHandler == [NewHandler(TRUE) EXCEPT !.phase = "none"]

Init ==
    /\ conn = NewConn
    /\ handler = [r \in Ids |-> NoHandler]
    /\ turn = 0 /\ requests = <<>>
    /\ client = [owed |-> FALSE, gone |-> "no"]

-----------------------------------------------------------------------------
(* The stream.                                                             *)

Event(kind, id) == [kind |-> kind, id |-> id]
Queue(c, event) == [c EXCEPT !.queue = Append(@, event)]

MaybeRunClose(c) ==
    IF ~c.open /\ c.closeCb # 0 /\ c.queue = <<>>
    THEN Queue([c EXCEPT !.closeCb = 0], Event("closed", c.closeCb))
    ELSE c
CloseStream(c) == MaybeRunClose([c EXCEPT !.open = FALSE])

Fill(c) == [c EXCEPT !.got = Len(requests), !.gotOwed = client.owed]
Readable(c) ==
    \/ c.reading = "headers" /\ c.parsed < c.got
    \/ c.reading = "body" /\ (c.parsed < c.got \/ ~c.gotOwed)
Deliver(c) ==
    IF Readable(c) THEN Queue([c EXCEPT !.reading = "none"], Event(c.reading, 0)) ELSE c

\* read_until, read_bytes: from the buffer, else from the socket.  The end of the
\* connection found here closes the stream; a reset, or a stream closed before, raises.
StartRead(x, what) ==
    LET c == [x.c EXCEPT !.reading = what]
    IN  IF Readable(c) THEN [x EXCEPT !.c = Deliver(c)]
        ELSE IF ~c.open \/ client.gone = "reset"
        THEN [x EXCEPT !.c = [c EXCEPT !.open = FALSE], !.ok = FALSE]
        ELSE [x EXCEPT !.c = Deliver([Fill(c) EXCEPT !.open = client.gone = "no"])]

\* What the kernel takes of the write buffer: everything, nothing, or the error
\* of a connection the client has given up.
Outcomes == {"all", "none"} \cup (IF client.gone = "no" THEN {} ELSE {"fail"})

Written(c, n) ==
    LET d == [c EXCEPT !.wire = @ \o SubSeq(c.wbuf, 1, n),
                       !.wbuf = SubSeq(@, n + 1, Len(@))]
    IN  IF d.wbuf = <<>> /\ d.streamCb
        THEN Queue([d EXCEPT !.streamCb = FALSE], Event("written", 0))
        ELSE d

StreamWrite(c, chunk, withCallback, outcome) ==
    LET d == [c EXCEPT !.wbuf = Append(@, chunk), !.streamCb = withCallback]
    IN  IF outcome = "fail" THEN CloseStream(d)
        ELSE Written(d, IF outcome = "all" THEN Len(d.wbuf) ELSE 0)

Writing(c) == c.wbuf # <<>>

-----------------------------------------------------------------------------
(* HTTPConnection.                                                         *)

Kind(c) == requests[c.request]
Raise(x) == [x EXCEPT !.ok = FALSE]

ConnWrite(x, chunk, callback, outcome) ==
    IF x.c.request = 0 THEN Raise(x)
    ELSE IF ~x.c.open THEN x
    ELSE [x EXCEPT !.c = StreamWrite([x.c EXCEPT !.writeCallback = callback],
                                     chunk, TRUE, outcome)]

\* _finish_request: a server without no_keep_alive.
Disconnect(k) ==
    IF k.http11 THEN k.connection = "close"
    ELSE k.connection # "keep-alive" \/ (~k.body /\ k.method \notin {"GET", "HEAD"})
FinishRequest(x) ==
    LET y == [x EXCEPT !.c.request = 0, !.c.requestFinished = FALSE]
    IN  IF Disconnect(Kind(x.c)) THEN [y EXCEPT !.c = CloseStream(y.c)]
        ELSE StartRead(y, "headers")

\* The mutated form of Drained: the response is finished whatever waits to be written.
AnyTime(c) == TRUE
Drained(c) == ~Writing(c)

ConnFinish(x) ==
    IF x.c.request = 0 THEN Raise(x)
    ELSE LET y == [x EXCEPT !.c.requestFinished = TRUE]
         IN  IF Drained(y.c) THEN FinishRequest(y) ELSE y

\* Mutated forms of WriteComplete: one that forgets whether the handler has
\* finished, and one that leaves the request unfinished.
WriteCompleteAlways(x) == IF x.c.request # 0 /\ Drained(x.c) THEN FinishRequest(x) ELSE x
WriteCompleteNever(x) == x
\* _on_write_complete after its callback.  More may have been written meanwhile.
WriteComplete(x) ==
    IF x.c.requestFinished /\ Drained(x.c) THEN FinishRequest(x) ELSE x

-----------------------------------------------------------------------------
(* RequestHandler, for the request r that has the turn.                    *)

\* What tells the client where the response ends: Content-Length, set by finish() if
\* nothing was flushed, else the chunked encoding, for HTTP/1.1.
Framing(r, finishing) ==
    IF finishing THEN "length"
    ELSE IF requests[r].http11 THEN "chunked" ELSE "none"

\* A write that raises has written nothing.
Unwritten(x) == IF x.ok THEN x ELSE [x EXCEPT !.h.wrote = @ - 1]
\* A HEAD request gets the headers only.
Flush(x, r, callback, finishing, outcome) ==
    LET first == ~x.h.headersWritten
        part == x.h.wrote + 1
        y == [x EXCEPT !.h.headersWritten = TRUE,
                       !.h.framing = IF first THEN Framing(r, finishing) ELSE @]
    IN  IF requests[r].method = "HEAD" /\ ~first THEN y
        ELSE Unwritten(ConnWrite([y EXCEPT !.h.wrote = part], [id |-> r, part |-> part],
                                 callback, outcome))

Forget(c) == [c EXCEPT !.closeCb = 0]

ConnFinished(x) == IF x.ok THEN ConnFinish(x) ELSE x
Marked(x) == IF x.ok THEN [x EXCEPT !.h.finished = TRUE] ELSE x
Finish(x, r, outcome) ==
    IF x.h.finished THEN Raise(x)
    ELSE Marked(ConnFinished(Flush([x EXCEPT !.c = Forget(@), !.h.ended = TRUE],
                                   r, 0, TRUE, outcome)))

\* After the headers an error can only end the response.  Before them write_error
\* finishes with a page of its own; should it fail, finish is called again.
Again(headersWritten, page, r, outcome) ==
    IF headersWritten \/ page.h.finished THEN page
    ELSE Finish([page EXCEPT !.ok = TRUE], r, outcome)
SendError(x, r, outcome) ==
    IF x.h.finished THEN x
    ELSE Again(x.h.headersWritten, Finish(x, r, outcome), r, outcome)

\* _execute and the context of an asynchronous handler catch what the code raised, but
\* nothing the callback of a flush() in a handler that is not asynchronous.
Caught(x, r, outcome) ==
    IF x.ok \/ (x.h.phase = "callback" /\ x.h.autoFinish) THEN x ELSE SendError([x EXCEPT !.ok = TRUE], r, outcome)

\* The code returned: _execute finishes, then the stream callback it ran in ends.
AutoFinished(x, r, outcome) ==
    IF x.ok /\ x.h.phase = "execute" /\ x.h.autoFinish /\ ~x.h.finished
    THEN Finish(x, r, outcome) ELSE x
Completed(x) == IF x.ok /\ x.c.within = "written" THEN WriteComplete(x) ELSE x
CallbackEnds(x) ==
    IF x.c.within = "none" THEN x.c
    ELSE IF ~x.ok THEN CloseStream(x.c)
    ELSE MaybeRunClose(x.c)
Left(x) ==
    [c |-> [CallbackEnds(x) EXCEPT !.within = "none"],
     h |-> [x.h EXCEPT !.phase = IF x.h.ended THEN "done" ELSE "waiting"],
     ok |-> TRUE]
Returned(x, r, outcome) ==
    Left(Completed(Caught(AutoFinished(x, r, outcome), r, outcome)))

Here == [c |-> conn, h |-> handler[turn], ok |-> TRUE]
Becomes(x) == conn' = x.c /\ handler' = [handler EXCEPT ![turn] = x.h]

\* The code goes on after a call, unless the call raised.
AfterCall(x, outcome) ==
    /\ Becomes(IF x.ok THEN x ELSE Returned(x, turn, outcome))
    /\ turn' = IF x.ok THEN turn ELSE 0
    /\ UNCHANGED <<requests, client>>

HandlerFlush ==
    /\ turn # 0 /\ ~handler[turn].ended /\ handler[turn].wrote < MaxFlush
    /\ \E callback \in {0, turn}, outcome \in Outcomes :
          AfterCall(Flush(Here, turn, callback, FALSE, outcome), outcome)

HandlerFinish ==
    /\ turn # 0 /\ ~handler[turn].ended
    /\ \E outcome \in Outcomes : AfterCall(Finish(Here, turn, outcome), outcome)

HandlerRaises ==
    /\ turn # 0
    /\ handler[turn].phase = "callback" /\ handler[turn].autoFinish => FlushCallbacksRaise
    /\ \E outcome \in Outcomes : AfterCall(Raise(Here), outcome)

HandlerReturns ==
    /\ turn # 0
    /\ \E outcome \in Outcomes : Becomes(Returned(Here, turn, outcome))
    /\ turn' = 0
    /\ UNCHANGED <<requests, client>>

\* An asynchronous handler goes on in a callback of something else.
HandlerResumes(r) ==
    /\ turn = 0 /\ handler[r].phase = "waiting" /\ ~handler[r].autoFinish
    /\ handler' = [handler EXCEPT ![r].phase = "callback"]
    /\ turn' = r
    /\ UNCHANGED <<conn, requests, client>>

-----------------------------------------------------------------------------
(* The callbacks of the stream.                                            *)

Taken(kind) == turn = 0 /\ conn.queue # <<>> /\ Head(conn.queue).kind = kind
Rest == [conn EXCEPT !.queue = Tail(@)]
\* Outside of application code: the callback ends, or raises and closes the stream.
Ends(x) ==
    /\ conn' = IF x.ok THEN MaybeRunClose(x.c) ELSE CloseStream(x.c)
    /\ UNCHANGED <<handler, turn, requests, client>>
Call(c) == [c |-> c, h |-> NoHandler, ok |-> TRUE]

\* Application.__call__: the handler is created and executed.
Dispatch(c, r) ==
    /\ conn' = [c EXCEPT !.request = r, !.closeCb = r, !.within = "headers"]
    /\ \E auto \in BOOLEAN : handler' = [handler EXCEPT ![r] = NewHandler(auto)]
    /\ turn' = r
    /\ UNCHANGED <<requests, client>>

\* A body is read first; Expect is answered by a write that wants no callback.
ReadBody(c, r, outcome) ==
    IF ~requests[r].expect THEN StartRead(Call(c), "body")
    ELSE IF ~c.open THEN Raise(Call(c))
    ELSE StartRead(Call(StreamWrite(c, [id |-> r, part |-> 0], FALSE, outcome)), "body")

OnHeaders ==
    /\ Taken("headers")
    /\ LET r == conn.parsed + 1
           c == [Rest EXCEPT !.parsed = r]
       IN  \/ /\ ~requests[r].valid
              /\ Ends(Call(CloseStream(c)))
           \/ /\ requests[r].valid /\ requests[r].body
              /\ \E outcome \in Outcomes : Ends(ReadBody([c EXCEPT !.request = r], r, outcome))
           \/ /\ requests[r].valid /\ ~requests[r].body
              /\ Dispatch(c, r)

OnRequestBody ==
    /\ Taken("body")
    /\ Dispatch(Rest, conn.parsed)

\* _on_write_complete: the callback of flush(), if any, runs first.
OnWriteComplete ==
    /\ Taken("written")
    /\ LET r == conn.writeCallback
       IN  \/ /\ r = 0
              /\ Ends(WriteComplete(Call(Rest)))
           \/ /\ r # 0
              /\ conn' = [Rest EXCEPT !.writeCallback = 0, !.within = "written"]
              /\ handler' = [handler EXCEPT ![r].phase = "callback"]
              /\ turn' = r
              /\ UNCHANGED <<requests, client>>

\* on_connection_close of the handler.
OnClose ==
    /\ Taken("closed")
    /\ conn' = MaybeRunClose(Rest)
    /\ handler' = [handler EXCEPT ![Head(conn.queue).id].closedSeen = @ + 1]
    /\ UNCHANGED <<turn, requests, client>>

-----------------------------------------------------------------------------
(* The kernel and the client.                                              *)

PollRead ==
    /\ turn = 0 /\ conn.open
    /\ client.gone # "no" \/ Fill(conn) # conn
    /\ conn' = IF client.gone = "reset" THEN CloseStream(conn)
               ELSE LET c == Deliver([Fill(conn) EXCEPT !.open = client.gone = "no"])
                    IN  MaybeRunClose(c)
    /\ UNCHANGED <<handler, turn, requests, client>>

PollWrite ==
    /\ turn = 0 /\ conn.open /\ Writing(conn)
    /\ conn' \in {Written(conn, 1)} \cup IF client.gone = "no" THEN {} ELSE {CloseStream(conn)}
    /\ UNCHANGED <<handler, turn, requests, client>>

ClientSends(k) ==
    /\ client.gone = "no" /\ ~client.owed /\ Len(requests) < MaxRequests
    /\ requests' = Append(requests, k)
    /\ client' = [client EXCEPT !.owed = k.body]
    /\ UNCHANGED <<conn, handler, turn>>

ClientSendsBody ==
    /\ client.gone = "no" /\ client.owed
    /\ client' = [client EXCEPT !.owed = FALSE]
    /\ UNCHANGED <<conn, handler, turn, requests>>

ClientCloses ==
    /\ client.gone = "no"
    /\ \E how \in {"fin", "reset"} : client' = [client EXCEPT !.gone = how]
    /\ UNCHANGED <<conn, handler, turn, requests>>

-----------------------------------------------------------------------------
HTTPNext ==
    \/ OnHeaders \/ OnRequestBody \/ OnWriteComplete \/ OnClose
    \/ PollRead \/ PollWrite
    \/ HandlerReturns \/ HandlerFlush \/ HandlerFinish \/ HandlerRaises
    \/ \E r \in Ids : HandlerResumes(r)
    \/ \E k \in Kinds : ClientSends(k)
    \/ ClientSendsBody \/ ClientCloses

HTTPSpec == Init /\ [][HTTPNext]_httpVars
-----------------------------------------------------------------------------
\* The parts of the responses reach the client in the order of the requests, each
\* whole before the next begins, although requests are pipelined, flushed in parts
\* and finished from other callbacks; and where a client of HTTP/1.1 may read on behind
\* a response, the response says where it ends.
Sent == conn.wire \o conn.wbuf
ResponsesInOrder ==
    \A i \in 2 .. Len(Sent) :
        LET a == Sent[i - 1]
            b == Sent[i]
        IN  \/ a.id = b.id /\ b.part = a.part + 1
            \/ a.id < b.id /\ b.part \in {0, 1} /\ handler[a.id].finished
               /\ a.part = handler[a.id].wrote
Delimited ==
    \A r \in 1 .. conn.parsed - 1 :
        requests[r].http11 => handler[r].framing \in {"length", "chunked"}
ResponsesSeparate == ResponsesInOrder /\ Delimited

\* The server never cuts a response short: a connection that is closed while its
\* client is still there has nothing left to write.  And a close callback that is
\* registered is that of the handler whose request is being served, which is not finished:
\* one left behind would tell a handler that is long done.  No handler hears of the end
\* twice.
NothingCutShort == ~conn.open /\ client.gone = "no" => ~Writing(conn)
CloseCallbackIsCurrent ==
    /\ conn.closeCb # 0 =>
          conn.closeCb = conn.request /\ ~handler[conn.closeCb].finished
    /\ \A r \in Ids : handler[r].closedSeen <= 1
ClosedInTime == NothingCutShort /\ CloseCallbackIsCurrent

\* The connection never stalls: between callbacks it is reading, or writing with a
\* callback to come, or closed, or it waits for a handler that goes on in a callback of
\* its own.
NeverStalls ==
    turn = 0 /\ conn.queue = <<>> /\ conn.open =>
        \/ conn.reading # "none"
        \/ conn.requestFinished /\ Writing(conn) /\ conn.streamCb
        \/ /\ conn.request # 0 /\ ~handler[conn.request].ended
           /\ handler[conn.request].phase = "waiting" /\ ~handler[conn.request].autoFinish
=============================================================================

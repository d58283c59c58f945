-------------------------- MODULE SimpleHTTPClient --------------------------
(***************************************************************************)
(* tornado.simple_httpclient: a client that runs at most MaxClients        *)
(* fetches at once and queues the others.  Each fetch is a chain of        *)
(* connections, one per redirect; each connection has one timer, an        *)
(* IOStream as module IOStream describes it, and two callbacks it owes:    *)
(* the release of its place and the final callback of the fetch.           *)
(*                                                                         *)
(* A method is an operator on the client, the record cl.  An iteration of  *)
(* the loop runs the callbacks queued before it, then timers and events;   *)
(* the callbacks of one stream run in their order, those of different      *)
(* streams in any.                                                         *)
(***************************************************************************)
EXTENDS Integers, Sequences, FiniteSets, SequencesExt

CONSTANTS
    MaxClients,     \* max_clients
    MaxFetches,     \* bound: fetches the application starts
    MaxRedirects,   \* max_redirects
    Responses,      \* the responses a server may send
    Redirected      \* bound: the fetches that are redirected, once, if they are answered

VARIABLES
    cl,         \* waiting: the queue; conns: the connections ever made; answers: what the callbacks got
    fetched     \* fetches started so far

clientVars == <<cl, fetched>>
Fetches == 1 .. MaxFetches

\* kind: "ok", "redirect", "nowhere" (a redirect to a URL that cannot be opened) or
\* "malformed"; framing: how the end of the body is told.
ResponseType == [kind : {"ok", "redirect", "nowhere", "malformed"},
                 framing : {"none", "length", "chunked", "close"}]

\* The pieces of a response a read asks for: the headers, then the body at once, or
\* the length line of a chunk, the chunk, and the line that says there are no more.
Pieces(r) ==
    CASE r.framing = "none" -> <<"headers">>
      [] r.framing = "chunked" -> <<"headers", "line", "chunk", "line">>
      [] OTHER -> <<"headers", "data">>

NoResponse == [kind |-> "none", framing |-> "none"]
Entry(f, hop, bad, cb) == [fetch |-> f, hop |-> hop, bad |-> bad, cb |-> cb]

NewConn(e) ==
    [fetch |-> e.fetch, hop |-> e.hop, cb |-> e.cb, held |-> TRUE, timer |-> TRUE,
     dialing |-> TRUE, open |-> TRUE, closeCb |-> TRUE, reading |-> "none", queue |-> <<>>, due |-> 0,
     resp |-> NoResponse, sent |-> 0, gone |-> "no", got |-> 0, used |-> 0, body |-> 0]

Init ==
    /\ cl = [waiting |-> <<>>, conns |-> <<>>, answers |-> [f \in Fetches |-> <<>>]]
    /\ fetched = 0

-----------------------------------------------------------------------------
(* The stream of a connection c.                                           *)

Queue(c, kind) == [c EXCEPT !.queue = Append(@, kind)]
MaybeRunClose(c) ==
    IF ~c.open /\ c.closeCb /\ c.queue = <<>>
    THEN Queue([c EXCEPT !.closeCb = FALSE], "closed") ELSE c
DeliverBody(c) ==
    Queue([c EXCEPT !.reading = "none", !.body = @ + c.got - c.used, !.used = c.got], "body")
CloseSocket(c) ==
    [IF c.reading = "close" /\ c.open THEN DeliverBody(c) ELSE c EXCEPT !.open = FALSE]
CloseStream(c) == MaybeRunClose(CloseSocket(c))

Fill(c) == IF c.gone = "reset" THEN c ELSE [c EXCEPT !.got = c.sent]
Deliver(c) ==
    IF c.reading \in {"none", "close"} \/ c.got = c.used THEN c
    ELSE Queue([c EXCEPT !.reading = "none", !.used = @ + 1], c.reading)

\* A read event: what the end of the connection leaves in the buffer comes before
\* the close callback; after a reset nothing more is read.
HandleRead(c) ==
    IF c.gone = "reset" THEN CloseStream(c)
    ELSE MaybeRunClose(Deliver(IF c.gone = "no" THEN Fill(c) ELSE CloseSocket(Fill(c))))

\* A read is answered from the buffer, else the socket is tried; on a closed stream,
\* or after a reset, it raises.
ReadRaises(c) == c.got = c.used /\ (~c.open \/ c.gone = "reset")
StartRead(c, what) ==
    LET d == [c EXCEPT !.reading = what]
    IN  IF c.got > c.used THEN Deliver(d)
        ELSE Deliver([Fill(d) EXCEPT !.open = c.gone = "no"])
ReadUntilClose(c) == IF c.open THEN [c EXCEPT !.reading = "close"] ELSE DeliverBody(c)

\* What a closed stream has read is garbage when no callback is left that reads it.
Collected(c) ==
    IF c.open \/ Range(c.queue) \ {"closed"} # {} THEN c
    ELSE [c EXCEPT !.resp = NoResponse, !.reading = "none", !.gone = "no", !.dialing = FALSE,
                   !.sent = 0, !.got = 0, !.used = 0, !.body = 0]

-----------------------------------------------------------------------------
(* The client.                                                             *)

Active(x) == {i \in DOMAIN x.conns : x.conns[i].held}

\* Of the first n in the queue, those that get a connection.  A URL that cannot be
\* opened fails in the constructor and gives its place back.
Good(q, n) == {k \in 1 .. n : ~q[k].bad}
\* The mutated form of Capacity: the connection that is being made is not counted.
CapacityPlusOne(x) == MaxClients + 1 - Cardinality(Active(x))
Capacity(x) == MaxClients - Cardinality(Active(x))
\* The queue is taken from while there is capacity.
Fits(x, n) == n > 0 => Cardinality(Good(x.waiting, n - 1)) < Capacity(x)
Takes(x) ==
    CHOOSE n \in 0 .. Len(x.waiting) :
        Fits(x, n) /\ \A m \in 0 .. Len(x.waiting) : Fits(x, m) => m <= n

\* The m-th of a set of numbers, in their order.
Rank(S, k) == Cardinality({j \in S : j <= k})
Nth(S, m) == CHOOSE k \in S : Rank(S, k) = m

Answer(x, f, result) == [x EXCEPT !.answers[f] = Append(@, result)]

\* A failed constructor releases first, so that the rest of the queue is processed
\* before its callback runs.
ProcessQueue(x) ==
    LET n == Takes(x)
        good == Good(x.waiting, n)
        new == [m \in 1 .. Cardinality(good) |-> NewConn(x.waiting[Nth(good, m)])]
        Failed(f) == \E k \in (1 .. n) \ good : x.waiting[k].fetch = f /\ x.waiting[k].cb
    IN  [x EXCEPT !.waiting = SubSeq(@, n + 1, Len(@)),
                  !.conns = @ \o new,
                  !.answers = [f \in Fetches |->
                      IF Failed(f) THEN Append(@[f], "error") ELSE @[f]]]

FetchEntry(x, e) == ProcessQueue([x EXCEPT !.waiting = Append(@, e)])

Release(x, i) ==
    IF x.conns[i].held THEN ProcessQueue([x EXCEPT !.conns[i].held = FALSE]) ELSE x

\* The mutated form of Spent: the final callback stays.
NotSpent(x, i) == x
Spent(x, i) == [x EXCEPT !.conns[i].cb = FALSE]
\* _run_callback: the place is free before the application hears of the answer.
RunCallback(x, i, result) ==
    LET y == Release(x, i)
    IN  IF y.conns[i].cb THEN Answer(Spent(y, i), y.conns[i].fetch, result) ELSE y

CloseConn(x, i) == [x EXCEPT !.conns[i] = CloseStream(@)]

\* cleanup: an exception in a callback is an answer as well.
Fail(x, i) == CloseConn(RunCallback(CloseConn(x, i), i, "error"), i)

OnTimeout(x, i) ==
    CloseConn(RunCallback([x EXCEPT !.conns[i].timer = FALSE], i, "timeout"), i)

\* The mutated form of Rearm: connecting ends the only timer.
Disarm(x, i) == [x EXCEPT !.conns[i].timer = FALSE]
Rearm(x, i) == [x EXCEPT !.conns[i].timer = TRUE]
\* The request is written and the headers are read.  A stream that was closed
\* meanwhile makes the write raise, when the new timer is already set.
OnConnect(x, i) ==
    LET y == Rearm(x, i)
        c == y.conns[i]
    IN  IF ~c.open \/ ReadRaises(c) THEN Fail(y, i)
        ELSE [y EXCEPT !.conns[i] = StartRead(c, "headers")]

ReadOrFail(x, i, what) ==
    IF ReadRaises(x.conns[i]) THEN Fail(x, i)
    ELSE [x EXCEPT !.conns[i] = StartRead(@, what)]

\* The answer with the body read so far: "part" of it if more was announced.
Result(c) ==
    IF c.resp.framing \in {"length", "chunked"} /\ c.body # 1 THEN "part" ELSE "ok"

\* _on_body: a redirect hands the final callback on to a new fetch of the client.
Redirects(c) == c.resp.kind \in {"redirect", "nowhere"} /\ c.hop < MaxRedirects
OnBody(x, i) ==
    LET c == x.conns[i]
        y == [x EXCEPT !.conns[i].timer = FALSE]
        moved == Release([y EXCEPT !.conns[i].cb = FALSE], i)
    IN  IF Redirects(c)
        THEN CloseConn(FetchEntry(moved, Entry(c.fetch, c.hop + 1, c.resp.kind = "nowhere",
                                               c.cb)), i)
        ELSE CloseConn(RunCallback(y, i, Result(c)), i)

OnHeaders(x, i) ==
    LET c == x.conns[i]
    IN  IF c.resp.kind = "malformed" THEN Fail(x, i)
        ELSE CASE c.resp.framing = "none" -> OnBody(x, i)
               [] c.resp.framing = "length" -> ReadOrFail(x, i, "data")
               [] c.resp.framing = "chunked" -> ReadOrFail(x, i, "line")
               [] c.resp.framing = "close" -> [x EXCEPT !.conns[i] = ReadUntilClose(c)]

\* The line of a chunk of length 0 ends the body.
NoMoreChunks(c) == c.used = Len(Pieces(c.resp))
OnChunkLength(x, i) ==
    IF NoMoreChunks(x.conns[i]) THEN OnBody(x, i) ELSE ReadOrFail(x, i, "chunk")
OnData(x, i) == [x EXCEPT !.conns[i].body = @ + 1]

\* _on_close.
OnClose(x, i) == RunCallback(x, i, "closed")

Run(x, i, kind) ==
    CASE kind = "connect" -> OnConnect(x, i)
      [] kind = "headers" -> OnHeaders(x, i)
      [] kind = "line" -> OnChunkLength(x, i)
      [] kind = "chunk" -> ReadOrFail(OnData(x, i), i, "line")
      [] kind = "data" -> OnBody(OnData(x, i), i)
      [] kind = "body" -> OnBody(x, i)
      [] kind = "closed" -> OnClose(x, i)

-----------------------------------------------------------------------------
(* The application, the loop and the servers.                              *)

Conns == DOMAIN cl.conns
Conn(i) == cl.conns[i]
Set(i, c) == cl' = [cl EXCEPT !.conns[i] = Collected(c)] /\ UNCHANGED fetched
Idle == \A i \in Conns : Conn(i).due = 0

Fetch(bad) ==
    /\ Idle /\ fetched < MaxFetches
    /\ fetched' = fetched + 1
    /\ cl' = FetchEntry(cl, Entry(fetched + 1, 0, bad, TRUE))

\* The callbacks queued so far are those the next iteration runs.
Iterate ==
    /\ Idle /\ \E i \in Conns : Conn(i).queue # <<>>
    /\ cl' = [cl EXCEPT !.conns = [i \in Conns |-> [Conn(i) EXCEPT !.due = Len(Conn(i).queue)]]]
    /\ UNCHANGED fetched

StreamCallback(i) ==
    /\ Conn(i).due > 0
    /\ LET y == [cl EXCEPT !.conns[i].queue = Tail(@), !.conns[i].due = @ - 1]
           x == Run(y, i, Head(Conn(i).queue))
       IN  cl' = [x EXCEPT !.conns[i] = Collected(MaybeRunClose(@))]
    /\ UNCHANGED fetched

Timeout(i) ==
    /\ Idle /\ Conn(i).timer
    /\ cl' = [OnTimeout(cl, i) EXCEPT !.conns[i] = Collected(@)]
    /\ UNCHANGED fetched

Connected(i) ==
    /\ Idle /\ Conn(i).dialing /\ Conn(i).open
    /\ \E ok \in BOOLEAN :
          Set(i, IF ok THEN Queue([Conn(i) EXCEPT !.dialing = FALSE], "connect")
                 ELSE CloseStream(Conn(i)))

PollRead(i) ==
    /\ Idle /\ Conn(i).open /\ ~Conn(i).dialing
    /\ Conn(i).got < Conn(i).sent \/ Conn(i).gone # "no"
    /\ Set(i, HandleRead(Conn(i)))

\* A response comes as a whole, or its headers come first.
ServerSends(i) ==
    /\ ~Conn(i).dialing /\ Conn(i).open /\ Conn(i).gone = "no"
    /\ \/ \E r \in Responses :
             /\ Conn(i).sent = 0
             /\ r.kind \in {"redirect", "nowhere"} <=> Conn(i).fetch \in Redirected /\ Conn(i).hop = 0
             /\ \E n \in {1, Len(Pieces(r))} : Set(i, [Conn(i) EXCEPT !.resp = r, !.sent = n])
       \/ /\ Conn(i).sent = 1 /\ Len(Pieces(Conn(i).resp)) > 1
          /\ Set(i, [Conn(i) EXCEPT !.sent = Len(Pieces(Conn(i).resp))])

ServerCloses(i) ==
    /\ ~Conn(i).dialing /\ Conn(i).open /\ Conn(i).gone = "no"
    /\ \E how \in {"fin", "reset"} : Set(i, [Conn(i) EXCEPT !.gone = how])

LoopStep(i) == StreamCallback(i) \/ Timeout(i)

ClientNext ==
    \/ \E bad \in BOOLEAN : Fetch(bad)
    \/ Iterate
    \/ \E i \in Conns :
          \/ StreamCallback(i) \/ Timeout(i) \/ Connected(i) \/ PollRead(i)
          \/ ServerSends(i) \/ ServerCloses(i)

\* The loop runs what is queued on it and the timers; servers owe nothing.
MaxConns == MaxFetches * (MaxRedirects + 1)
ClientFairness ==
    \A i \in 1 .. MaxConns : WF_clientVars(i \in Conns /\ LoopStep(i))
ClientSpec == Init /\ [][ClientNext]_clientVars /\ ClientFairness
-----------------------------------------------------------------------------
\* Never more than max_clients fetches are under way, although releases process the
\* queue from within callbacks, redirects fetch again and constructors fail; and no
\* place is idle while a fetch waits.
AtMostMaxClients == Cardinality(Active(cl)) <= MaxClients
NoIdlePlace == cl.waiting # <<>> => Cardinality(Active(cl)) = MaxClients
PlacesFilled == AtMostMaxClients /\ NoIdlePlace

\* The final callback of a fetch runs at most once, whichever of the answer, the
\* timeout, the end of the connection and an exception comes first or comes late, and
\* until it has run, exactly one queued entry or connection owes it; and a body that
\* says how long it is is never passed on with a part missing.
Owing(f) ==
    Cardinality({i \in Conns : Conn(i).fetch = f /\ Conn(i).cb})
    + Cardinality({k \in DOMAIN cl.waiting : cl.waiting[k].fetch = f /\ cl.waiting[k].cb})
AnsweredOnce ==
    \A f \in Fetches : /\ Len(cl.answers[f]) + Owing(f) = IF f <= fetched THEN 1 ELSE 0
                       /\ "part" \notin Range(cl.answers[f])

\* Every fetch is answered, if only by its timeout: a redirect keeps the time, a
\* connection that settles early or late leaves its place to the next, and a timer or
\* a callback remains wherever an answer is owed.  There being a last fetch here, it
\* comes to the same to say that none waits again and again.
FetchesAnswered == []<>(\A f \in 1 .. fetched : cl.answers[f] # <<>>)
=============================================================================
